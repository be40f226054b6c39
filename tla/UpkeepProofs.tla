---------------------------- MODULE UpkeepProofs ----------------------------
(***************************************************************************)
(* Proofs of what UpkeepProps says of the life of the installation, for    *)
(* every set of administrators, every history of releases and every old    *)
(* database of a version that can be migrated.                             *)
(*                                                                         *)
(* The first part is about the migrations alone: what kind of statements   *)
(* they are, what one statement does to a database, what a version of the  *)
(* schema consists of.  The second part takes the inductive invariant      *)
(* through every action.                                                   *)
(***************************************************************************)
EXTENDS UpkeepProps, SequenceTheorems, WellFoundedInduction, TLAPS

----------------------------------------------------------------------------
(* The statements of the migrations *)

\* What migrations take away: objects, and a setting.
Dropped == {"tariffs.external_id", "trg_access_shadow_outbox_vpn_keys_insert",
            "trg_access_shadow_outbox_vpn_keys_update"}
Retired == {"crypto_integration_mode"}

\* A statement that touches neither the payment page nor, unless it takes it
\* away, anything that is taken away.
IsPlain(s) ==
    \/ s.do \in {"table", "create"} /\ \A n \in s.names : n \notin Dropped
    \/ s.do = "drop" /\ \A n \in s.names : n \in Dropped
    \/ s.do = "set" /\ \A n \in s.names : n \notin Retired
    \/ s.do = "unset" /\ \A n \in s.names : n \in Retired
    \/ s.do = "page" /\ "prepayment" \notin s.names
    \/ s.do = "seed"

\* The first page of the payment methods is laid out, and inserted, once.
IsLayout(s) == s.do = "layout" /\ s.rows = PrepaymentRows
IsInitial(s) == IsPlain(s) \/ IsLayout(s) \/ s.do = "page"

IsButton(s) == s.do = "button"
IsStatement(s) == IsInitial(s) \/ IsButton(s)

IsProgram(m) == m \in Seq({m[i] : i \in DOMAIN m})

ArePlain(m) == IsProgram(m) /\ \A i \in DOMAIN m : IsPlain(m[i])
AreInitial(m) == IsProgram(m) /\ \A i \in DOMAIN m : IsInitial(m[i])

\* A migration that ends with a new payment method.
EndsWithButton(m, id, after) ==
    /\ IsProgram(m)
    /\ Len(m) = 3
    /\ IsPlain(m[1])
    /\ IsPlain(m[2])
    /\ m[3] = Button(id, after)

\* A program is a sequence, whatever its statements are.
LEMMA ProgramShape ==
    ASSUME NEW m, IsProgram(m)
    PROVE  Len(m) \in Nat /\ DOMAIN m = 1..Len(m)
BY DEF IsProgram

\* The statements of two programs, one after the other.
LEMMA ProgramsJoined ==
    ASSUME NEW m, NEW n, IsProgram(m), IsProgram(n)
    PROVE  /\ Len(m \o n) = Len(m) + Len(n)
           /\ IsProgram(m \o n)
           /\ \A i \in DOMAIN (m \o n) :
                 \/ i \in DOMAIN m /\ (m \o n)[i] = m[i]
                 \/ i - Len(m) \in DOMAIN n /\ (m \o n)[i] = n[i - Len(m)]
           /\ \A j \in DOMAIN n :
                 j + Len(m) \in DOMAIN (m \o n) /\ (m \o n)[j + Len(m)] = n[j]
<1> DEFINE M == {m[i] : i \in DOMAIN m}
           N == {n[i] : i \in DOMAIN n}
           S == M \union N
<1>1. m \in Seq(S) /\ n \in Seq(S)
  BY DEF IsProgram
<1>2. m \o n \in Seq(S) /\ Len(m \o n) = Len(m) + Len(n)
  BY <1>1
<1>3. \A i \in DOMAIN (m \o n) :
                 \/ i \in DOMAIN m /\ (m \o n)[i] = m[i]
                 \/ i - Len(m) \in DOMAIN n /\ (m \o n)[i] = n[i - Len(m)]
  BY <1>1
<1>4. \A j \in DOMAIN n :
                 j + Len(m) \in DOMAIN (m \o n) /\ (m \o n)[j + Len(m)] = n[j]
  BY <1>1
<1>5. IsProgram(m \o n)
  <2> DEFINE c == m \o n
  <2>1. c \in Seq(S)
    BY <1>2
  <2> HIDE DEF c
  <2>2. /\ Len(c) \in Nat
        /\ DOMAIN c = 1..Len(c)
        /\ c = [i \in 1..Len(c) |-> c[i]]
    BY <2>1
  <2>3. c \in Seq({c[i] : i \in DOMAIN c})
    BY <2>2, IsASeq
  <2> QED
    BY <2>3 DEF IsProgram, c
<1> QED
  BY <1>2, <1>3, <1>4, <1>5

LEMMA InitialJoined ==
    ASSUME NEW m, NEW n, AreInitial(m), AreInitial(n)
    PROVE  AreInitial(m \o n)
<1>1. IsProgram(m \o n)
  BY ProgramsJoined DEF AreInitial
<1>2. ASSUME NEW i \in DOMAIN (m \o n)
      PROVE  IsInitial((m \o n)[i])
  <2>1. \/ i \in DOMAIN m /\ (m \o n)[i] = m[i]
        \/ i - Len(m) \in DOMAIN n /\ (m \o n)[i] = n[i - Len(m)]
    BY ProgramsJoined DEF AreInitial
  <2>2. IsInitial(m[i]) \/ i \notin DOMAIN m
    BY DEF AreInitial
  <2>3. \A j \in DOMAIN n : IsInitial(n[j])
    BY DEF AreInitial
  <2> QED
    BY <2>1, <2>2, <2>3
<1> QED
  BY <1>1, <1>2 DEF AreInitial

\* Statements, by what makes them.
LEMMA CreatePlain == ASSUME NEW o, o \notin Dropped PROVE IsPlain(Create(o))
BY DEF Create, IsPlain

LEMMA ColumnPlain == ASSUME NEW o, o \notin Dropped PROVE IsPlain(_add_column(o))
BY DEF _add_column, Create, IsPlain

LEMMA TablePlain ==
    ASSUME NEW o, NEW columns, o \notin Dropped PROVE IsPlain(Table(o, columns))
BY DEF Table, IsPlain

LEMMA DropPlain ==
    ASSUME NEW names, names \subseteq Dropped PROVE IsPlain(Drop(names))
BY DEF Drop, IsPlain

LEMMA SetPlain ==
    ASSUME NEW keys, NEW value, "crypto_integration_mode" \notin keys
    PROVE  IsPlain(Set(keys, value))
BY DEF Set, IsPlain, Retired

LEMMA DefaultsPlain ==
    ASSUME NEW keys, "crypto_integration_mode" \notin keys
    PROVE  IsPlain(Defaults(keys))
BY SetPlain DEF Defaults

LEMMA UnsetPlain == IsPlain(Unset({"crypto_integration_mode"}))
BY DEF Unset, IsPlain, Retired

LEMMA PagesPlain ==
    ASSUME NEW keys, "prepayment" \notin keys PROVE IsPlain(UpsertPages(keys))
<1>1. UpsertPages(keys).do = "page" /\ UpsertPages(keys).names = keys
  BY Zenon DEF UpsertPages
<1> QED
  BY <1>1 DEF IsPlain

LEMMA SeedPlain == ASSUME NEW table PROVE IsPlain(Seed(table))
BY DEF Seed, IsPlain

\* Programs, by their length.
LEMMA Plain1 == ASSUME NEW p, IsPlain(p) PROVE ArePlain(<<p>>)
BY DEF ArePlain, IsProgram

LEMMA Plain2 ==
    ASSUME NEW p, NEW q, IsPlain(p), IsPlain(q) PROVE ArePlain(<<p, q>>)
BY DEF ArePlain, IsProgram

LEMMA Plain3 ==
    ASSUME NEW p, NEW q, NEW r, IsPlain(p), IsPlain(q), IsPlain(r)
    PROVE  ArePlain(<<p, q, r>>)
BY DEF ArePlain, IsProgram

LEMMA PlainCreates ==
    ASSUME NEW names, IsProgram(names), \A i \in DOMAIN names : names[i] \notin Dropped
    PROVE  ArePlain(Creates(names))
<1> DEFINE m == Creates(names)
<1>1. /\ Len(names) \in Nat /\ DOMAIN names = 1..Len(names)
      /\ m = [i \in 1..Len(names) |-> Create(names[i])]
  BY ProgramShape DEF Creates
<1>2. \A i \in DOMAIN m : IsPlain(m[i])
  BY <1>1, CreatePlain
<1> HIDE DEF m
<1>3. m \in Seq({m[i] : i \in DOMAIN m})
  BY <1>1
<1> QED
  BY <1>2, <1>3 DEF ArePlain, IsProgram, m

LEMMA Initial3 ==
    ASSUME NEW p, NEW q, NEW r, IsInitial(p), IsInitial(q), IsInitial(r)
    PROVE  AreInitial(<<p, q, r>>)
BY DEF AreInitial, IsProgram

LEMMA Initial4 ==
    ASSUME NEW p, NEW q, NEW r, NEW s,
           IsInitial(p), IsInitial(q), IsInitial(r), IsInitial(s)
    PROVE  AreInitial(<<p, q, r, s>>)
BY DEF AreInitial, IsProgram

LEMMA Initial6 ==
    ASSUME NEW p, NEW q, NEW r, NEW s, NEW t, NEW u, IsInitial(p), IsInitial(q),
           IsInitial(r), IsInitial(s), IsInitial(t), IsInitial(u)
    PROVE  AreInitial(<<p, q, r, s, t, u>>)
BY DEF AreInitial, IsProgram

LEMMA InitialPart1 ==
    /\ AreInitial(InitialSettings)
    /\ AreInitial(InitialUsers)
    /\ AreInitial(InitialTariffs)
<1>1. AreInitial(InitialSettings)
  BY Initial4, TablePlain, SetPlain, DefaultsPlain
  DEF InitialSettings, Dropped, ReferralNotices, IsInitial
<1>2. AreInitial(InitialUsers)
  BY Initial3, CreatePlain, TablePlain
  DEF InitialUsers, Dropped, IsInitial
<1>3. AreInitial(InitialTariffs)
  BY Initial4, TablePlain, SeedPlain
  DEF InitialTariffs, Dropped, IsInitial
<1> QED
  BY <1>1, <1>2, <1>3

LEMMA InitialPart2 ==
    /\ AreInitial(InitialServers)
    /\ AreInitial(InitialKeys)
    /\ AreInitial(InitialPayments)
<1>1. AreInitial(InitialServers)
  BY Initial3, CreatePlain, TablePlain
  DEF InitialServers, Dropped, IsInitial
<1>2. AreInitial(InitialKeys)
  BY Initial3, CreatePlain, TablePlain
  DEF InitialKeys, Dropped, IsInitial
<1>3. AreInitial(InitialPayments)
  BY Initial4, CreatePlain, TablePlain
  DEF InitialPayments, Dropped, IsInitial
<1> QED
  BY <1>1, <1>2, <1>3

LEMMA InitialPart3 ==
    /\ AreInitial(InitialLogAndReferrals) /\ AreInitial(InitialPages)
    /\ 2 \in DOMAIN InitialPages /\ InitialPages[2].do = "layout"
    /\ 3 \in DOMAIN InitialPages /\ InitialPages[3].do = "page"
    /\ "prepayment" \in InitialPages[3].names
<1>1. AreInitial(InitialLogAndReferrals)
  BY Initial6, CreatePlain, TablePlain, SeedPlain
  DEF InitialLogAndReferrals, Dropped, IsInitial
<1>2. IsInitial(Relayout(PrepaymentRows))
  BY DEF Relayout, IsInitial, IsLayout
<1>3. PICK keys : /\ "prepayment" \in keys
                  /\ InitialPages =
                       <<Table("pages", {"pages.media_type_default",
                                         "pages.media_type_custom"}),
                         Relayout(PrepaymentRows), InsertPages(keys)>>
  BY DEF InitialPages
<1>4. InsertPages(keys).do = "page" /\ InsertPages(keys).names = keys
  BY Zenon DEF InsertPages
<1>5. IsInitial(InsertPages(keys))
  BY <1>4 DEF IsInitial
<1>6. AreInitial(InitialPages)
  BY <1>2, <1>3, <1>5, Initial3, TablePlain DEF Dropped, IsInitial
<1>7. Relayout(PrepaymentRows).do = "layout"
  BY DEF Relayout
<1>8. /\ DOMAIN InitialPages = 1..3 /\ InitialPages[2] = Relayout(PrepaymentRows)
      /\ InitialPages[3] = InsertPages(keys)
  BY <1>3
<1> QED
  BY <1>1, <1>3, <1>4, <1>6, <1>7, <1>8

\* The initial migration lays the payment page out and inserts it.
LEMMA InitialStatements ==
    /\ AreInitial(migration_initial)
    /\ \E i \in DOMAIN migration_initial : migration_initial[i].do = "layout"
    /\ \E i \in DOMAIN migration_initial :
          migration_initial[i].do = "page" /\ "prepayment" \in migration_initial[i].names
<1> DEFINE first == InitialSettings \o InitialUsers \o InitialTariffs \o
                    InitialServers \o InitialKeys \o InitialPayments \o
                    InitialLogAndReferrals
<1>1. AreInitial(first)
  BY InitialPart1, InitialPart2, InitialPart3, InitialJoined
<1>2. migration_initial = first \o InitialPages
  BY DEF migration_initial
<1> HIDE DEF first
<1>3. AreInitial(migration_initial)
  BY <1>1, <1>2, InitialPart3, InitialJoined
<1>4. \A j \in DOMAIN InitialPages :
          /\ j + Len(first) \in DOMAIN migration_initial
          /\ migration_initial[j + Len(first)] = InitialPages[j]
  BY <1>1, <1>2, InitialPart3, ProgramsJoined DEF AreInitial
<1> QED
  BY <1>3, <1>4, InitialPart3

\* The migrations that do not touch the payment page.
LEMMA PlainFrom22 ==
    /\ ArePlain(migration_22)
    /\ ArePlain(migration_26)
    /\ ArePlain(migration_27)
<1>1. ArePlain(migration_22)
  BY Plain2, DropPlain, UnsetPlain DEF migration_22, Dropped
<1>2. ArePlain(migration_26)
  BY Plain1, DefaultsPlain DEF migration_26
<1>3. ArePlain(migration_27)
  BY Plain1, ColumnPlain DEF migration_27, Dropped
<1> QED
  BY <1>1, <1>2, <1>3

LEMMA PlainFrom28 ==
    /\ ArePlain(migration_28)
    /\ ArePlain(migration_29)
    /\ ArePlain(migration_30)
    /\ ArePlain(migration_31)
    /\ ArePlain(migration_32)
    /\ ArePlain(migration_33)
<1>1. ArePlain(migration_28)
  BY Plain3, CreatePlain, ColumnPlain, SetPlain DEF migration_28, Dropped
<1>2. ArePlain(migration_29)
  BY DEF migration_29, ArePlain, IsProgram
<1>3. ArePlain(migration_30)
  BY Plain1, ColumnPlain DEF migration_30, Dropped
<1>4. ArePlain(migration_31)
  BY Plain1, PagesPlain DEF migration_31
<1>5. ArePlain(migration_32)
  BY Plain3, ColumnPlain DEF migration_32, Dropped
<1>6. ArePlain(migration_33)
  BY Plain2, DefaultsPlain, PagesPlain DEF migration_33
<1> QED
  BY <1>1, <1>2, <1>3, <1>4, <1>5, <1>6

LEMMA PlainFrom34 ==
    /\ ArePlain(migration_34)
    /\ ArePlain(migration_35)
    /\ ArePlain(migration_36)
    /\ ArePlain(migration_37)
    /\ ArePlain(migration_38)
    /\ ArePlain(migration_39)
    /\ ArePlain(migration_40)
<1>1. ArePlain(migration_34)
  BY Plain1, PagesPlain DEF migration_34, KeyRuntimePages
<1>2. ArePlain(migration_35)
  BY Plain2, CreatePlain, ColumnPlain DEF migration_35, Dropped
<1>3. ArePlain(migration_36)
  BY Plain1, DefaultsPlain DEF migration_36
<1>4. ArePlain(migration_37)
  BY Plain3, ColumnPlain, DefaultsPlain DEF migration_37, Dropped, ReferralNotices
<1>5. ArePlain(migration_38)
  BY Plain1, DefaultsPlain DEF migration_38
<1>6. ArePlain(migration_39)
  BY Plain3, ColumnPlain, SeedPlain DEF migration_39, Dropped
<1>7. ArePlain(migration_40)
  <2> DEFINE names == <<"idx_users_referral_code", "idx_users_referred_by",
                      "idx_users_created_at", "idx_users_username_lower",
                      "idx_vpn_keys_user_expires", "idx_vpn_keys_server_id",
                      "idx_vpn_keys_panel_email_lower", "idx_payments_status_paid_at",
                      "idx_payments_key_status_paid_at",
                      "idx_payments_yookassa_payment_id", "idx_payments_wata_link_id",
                      "idx_payments_platega_transaction_id",
                      "idx_payments_cardlink_bill_id">>
  <2>1. IsProgram(names) /\ \A i \in DOMAIN names : names[i] \notin Dropped
    BY DEF IsProgram, Dropped
  <2>2. migration_40 = Creates(names)
    BY DEF migration_40
  <2> HIDE DEF names
  <2> QED
    BY <2>1, <2>2, PlainCreates
<1> QED
  BY <1>1, <1>2, <1>3, <1>4, <1>5, <1>6, <1>7

LEMMA PlainFrom41 ==
    /\ ArePlain(migration_41)
    /\ ArePlain(migration_42)
    /\ ArePlain(migration_43)
    /\ ArePlain(migration_44)
    /\ ArePlain(migration_45)
    /\ ArePlain(migration_46)
    /\ ArePlain(migration_47)
<1>1. ArePlain(migration_41)
  BY DEF migration_41, ArePlain, IsProgram
<1>2. ArePlain(migration_42)
  BY Plain1, PagesPlain DEF migration_42
<1>3. ArePlain(migration_43)
  <2> DEFINE names == <<"admin_provisioning", "admin_provisioning_unresolved_user">>
  <2>1. IsProgram(names) /\ \A i \in DOMAIN names : names[i] \notin Dropped
    BY DEF IsProgram, Dropped
  <2>2. migration_43 = Creates(names)
    BY DEF migration_43
  <2> HIDE DEF names
  <2> QED
    BY <2>1, <2>2, PlainCreates
<1>4. ArePlain(migration_44)
  BY Plain3, CreatePlain, ColumnPlain, DropPlain DEF migration_44, Dropped
<1>5. ArePlain(migration_45)
  <2> DEFINE names == <<"access_replacements", "access_replacement_unresolved",
                      "access_replacement_callbacks">>
  <2>1. IsProgram(names) /\ \A i \in DOMAIN names : names[i] \notin Dropped
    BY DEF IsProgram, Dropped
  <2>2. migration_45 = Creates(names)
    BY DEF migration_45
  <2> HIDE DEF names
  <2> QED
    BY <2>1, <2>2, PlainCreates
<1>6. ArePlain(migration_46)
  <2> DEFINE names == <<"checkout_intents", "checkout_intent_unresolved",
                      "checkout_callbacks">>
  <2>1. IsProgram(names) /\ \A i \in DOMAIN names : names[i] \notin Dropped
    BY DEF IsProgram, Dropped
  <2>2. migration_46 = Creates(names)
    BY DEF migration_46
  <2> HIDE DEF names
  <2> QED
    BY <2>1, <2>2, PlainCreates
<1>7. ArePlain(migration_47)
  BY Plain1, CreatePlain DEF migration_47, Dropped
<1> QED
  BY <1>1, <1>2, <1>3, <1>4, <1>5, <1>6, <1>7

LEMMA WithButtons ==
    /\ EndsWithButton(migration_23, "btn_pay_wata", "btn_pay_qr")
    /\ EndsWithButton(migration_24, "btn_pay_platega", "btn_pay_wata")
    /\ EndsWithButton(migration_25, "btn_pay_cardlink", "btn_pay_platega")
<1>1. EndsWithButton(migration_23, "btn_pay_wata", "btn_pay_qr")
  BY DefaultsPlain, ColumnPlain DEF migration_23, EndsWithButton, IsProgram, Dropped
<1>2. EndsWithButton(migration_24, "btn_pay_platega", "btn_pay_wata")
  BY DefaultsPlain, ColumnPlain DEF migration_24, EndsWithButton, IsProgram, Dropped
<1>3. EndsWithButton(migration_25, "btn_pay_cardlink", "btn_pay_platega")
  BY DefaultsPlain, ColumnPlain DEF migration_25, EndsWithButton, IsProgram, Dropped
<1> QED
  BY <1>1, <1>2, <1>3

\* What each step of run_migrations is made of.
LEMMA StepPlain ==
    ASSUME NEW v \in 22..47, v \notin 23..25
    PROVE  ArePlain(Step[v])
<1>1. Step[v] = MIGRATIONS[v]
  BY DEF Step, INITIAL_VERSION, LATEST_VERSION
<1>2. ArePlain(MIGRATIONS[v])
  <2>1. \/ v = 22 \/ v = 26 \/ v = 27 \/ v = 28 \/ v = 29 \/ v = 30 \/ v = 31
        \/ v = 32 \/ v = 33 \/ v = 34 \/ v = 35 \/ v = 36 \/ v = 37 \/ v = 38
        \/ v = 39 \/ v = 40 \/ v = 41 \/ v = 42 \/ v = 43 \/ v = 44 \/ v = 45
        \/ v = 46 \/ v = 47
    OBVIOUS
  <2> QED
    BY <2>1, PlainFrom22, PlainFrom28, PlainFrom34, PlainFrom41
    DEF MIGRATIONS, INITIAL_VERSION, LATEST_VERSION
<1> QED
  BY <1>1, <1>2

LEMMA StepButton ==
    /\ EndsWithButton(Step[23], "btn_pay_wata", "btn_pay_qr")
    /\ EndsWithButton(Step[24], "btn_pay_platega", "btn_pay_wata")
    /\ EndsWithButton(Step[25], "btn_pay_cardlink", "btn_pay_platega")
<1>1. /\ Step[23] = migration_23 /\ Step[24] = migration_24 /\ Step[25] = migration_25
  BY DEF Step, MIGRATIONS, INITIAL_VERSION, LATEST_VERSION
<1> QED
  BY <1>1, WithButtons

LEMMA StepInitial == Step[21] = migration_initial
BY DEF Step, INITIAL_VERSION, LATEST_VERSION

LEMMA StepStatements ==
    ASSUME NEW v \in 21..47
    PROVE  /\ IsProgram(Step[v])
           /\ \A i \in DOMAIN Step[v] : IsStatement(Step[v][i])
           /\ v > 21 => \A i \in DOMAIN Step[v] :
                           IsPlain(Step[v][i]) \/ IsButton(Step[v][i])
<1>1. CASE v = 21
  BY <1>1, StepInitial, InitialStatements DEF AreInitial, IsStatement
<1>2. CASE v \in 23..25
  <2>1. PICK id, after : EndsWithButton(Step[v], id, after)
    BY <1>2, StepButton
  <2>2. IsProgram(Step[v]) /\ DOMAIN Step[v] = 1..3
    BY <2>1, ProgramShape DEF EndsWithButton
  <2>3. \A i \in 1..3 : IsPlain(Step[v][i]) \/ IsButton(Step[v][i])
    BY <2>1 DEF EndsWithButton, IsButton, Button
  <2> QED
    BY <2>2, <2>3 DEF IsStatement, IsInitial
<1>3. CASE v # 21 /\ v \notin 23..25
  BY <1>3, StepPlain DEF ArePlain, IsStatement, IsInitial
<1> QED
  BY <1>1, <1>2, <1>3

----------------------------------------------------------------------------
(* What a statement does to a database *)

\* The database has lost nothing but what migrations take away.
Grown(old, new) ==
    /\ \A o \in old.objects : o \in Dropped \/ o \in new.objects
    /\ \A key \in DOMAIN old.settings : key \in Retired \/ key \in DOMAIN new.settings
    /\ \A key \in DOMAIN old.pages : key \in DOMAIN new.pages

\* A database with one part replaced.
LEMMA PartReplaced ==
    ASSUME NEW db, NEW x, IsDatabase(db)
    PROVE  /\ [db EXCEPT !.version = x] =
                [version |-> x, objects |-> db.objects, settings |-> db.settings,
                 pages |-> db.pages, rows |-> db.rows]
           /\ [db EXCEPT !.objects = x] =
                [version |-> db.version, objects |-> x, settings |-> db.settings,
                 pages |-> db.pages, rows |-> db.rows]
           /\ [db EXCEPT !.settings = x] =
                [version |-> db.version, objects |-> db.objects, settings |-> x,
                 pages |-> db.pages, rows |-> db.rows]
           /\ [db EXCEPT !.pages = x] =
                [version |-> db.version, objects |-> db.objects,
                 settings |-> db.settings, pages |-> x, rows |-> db.rows]
           /\ [db EXCEPT !.rows = x] =
                [version |-> db.version, objects |-> db.objects,
                 settings |-> db.settings, pages |-> db.pages, rows |-> x]
<1>1. db = [version |-> db.version, objects |-> db.objects,
            settings |-> db.settings, pages |-> db.pages, rows |-> db.rows]
  BY DEF IsDatabase
<1>2. [db EXCEPT !.version = x] =
        [version |-> x, objects |-> db.objects, settings |-> db.settings,
         pages |-> db.pages, rows |-> db.rows]
  BY <1>1
<1>3. [db EXCEPT !.objects = x] =
        [version |-> db.version, objects |-> x, settings |-> db.settings,
         pages |-> db.pages, rows |-> db.rows]
  BY <1>1
<1>4. [db EXCEPT !.settings = x] =
        [version |-> db.version, objects |-> db.objects, settings |-> x,
         pages |-> db.pages, rows |-> db.rows]
  BY <1>1
<1>5. [db EXCEPT !.pages = x] =
        [version |-> db.version, objects |-> db.objects,
         settings |-> db.settings, pages |-> x, rows |-> db.rows]
  BY <1>1
<1>6. [db EXCEPT !.rows = x] =
        [version |-> db.version, objects |-> db.objects,
         settings |-> db.settings, pages |-> db.pages, rows |-> x]
  BY <1>1
<1> QED
  BY <1>2, <1>3, <1>4, <1>5, <1>6

LEMMA MadeIsDatabase ==
    ASSUME NEW db, NEW v, NEW o, NEW s, NEW p, NEW r,
           db = [version |-> v, objects |-> o, settings |-> s, pages |-> p, rows |-> r]
    PROVE  /\ IsDatabase(db)
           /\ db.version = v /\ db.objects = o /\ db.settings = s
           /\ db.pages = p /\ db.rows = r
BY DEF IsDatabase

\* What follows for any statement.
Effect(db, s, new) ==
    /\ IsDatabase(new)
    /\ new.version = db.version
    /\ Grown(db, new)
    /\ Kept(db, new)
    /\ Done(new, s)
    /\ ~IsButton(s) /\ s.do # "layout" => new.rows = db.rows

LEMMA ObjectsEffect ==
    ASSUME NEW db, NEW s, IsDatabase(db), IsPlain(s),
           s.do \in {"table", "create", "drop"}
    PROVE  Effect(db, s, Apply(db, s))
<1>1. PICK x : /\ Apply(db, s) = [db EXCEPT !.objects = x]
               /\ \A o \in db.objects : o \in Dropped \/ o \in x
               /\ s.do # "drop" => s.names \subseteq x
  <2>1. CASE s.do = "table" /\ s.names \subseteq db.objects
    <3>1. Apply(db, s) = db
      BY <2>1 DEF Apply
    <3>2. db = [db EXCEPT !.objects = db.objects]
      BY PartReplaced DEF IsDatabase
    <3> QED
      BY <2>1, <3>1, <3>2
  <2>2. CASE s.do = "table" /\ ~(s.names \subseteq db.objects)
    <3>1. Apply(db, s) =
            [db EXCEPT !.objects = db.objects \union s.names \union s.columns]
      BY <2>2 DEF Apply
    <3> QED
      BY <3>1
  <2>3. CASE s.do = "create"
    <3>1. Apply(db, s) = [db EXCEPT !.objects = db.objects \union s.names]
      BY <2>3 DEF Apply
    <3> QED
      BY <3>1
  <2>4. CASE s.do = "drop"
    <3>1. Apply(db, s) = [db EXCEPT !.objects = db.objects \ s.names]
      BY <2>4 DEF Apply
    <3>2. \A n \in s.names : n \in Dropped
      BY <2>4 DEF IsPlain
    <3> QED
      BY <2>4, <3>1, <3>2
  <2> QED
    BY <2>1, <2>2, <2>3, <2>4
<1>2. Apply(db, s) =
        [version |-> db.version, objects |-> x, settings |-> db.settings,
         pages |-> db.pages, rows |-> db.rows]
  BY <1>1, PartReplaced
<1> DEFINE new == Apply(db, s)
<1> HIDE DEF new
<1>3. /\ IsDatabase(new) /\ new.version = db.version /\ new.objects = x
      /\ new.settings = db.settings /\ new.pages = db.pages /\ new.rows = db.rows
  BY <1>2, MadeIsDatabase DEF new
<1> QED
  BY <1>1, <1>3 DEF Effect, Grown, Kept, Done, new

LEMMA SettingsEffect ==
    ASSUME NEW db, NEW s, IsDatabase(db), IsPlain(s), s.do \in {"set", "unset"}
    PROVE  Effect(db, s, Apply(db, s))
<1>1. PICK x : /\ Apply(db, s) = [db EXCEPT !.settings = x]
               /\ \A key \in DOMAIN db.settings \ Retired :
                     key \in DOMAIN x /\ x[key] = db.settings[key]
               /\ s.do = "set" => s.names \subseteq DOMAIN x
  <2>1. CASE s.do = "set"
    <3> DEFINE x == SetOnce(db.settings, s.names, s.value)
    <3>1. Apply(db, s) = [db EXCEPT !.settings = x]
      BY <2>1 DEF Apply
    <3>2. /\ DOMAIN x = DOMAIN db.settings \union s.names
          /\ \A key \in DOMAIN db.settings : x[key] = db.settings[key]
      BY DEF SetOnce
    <3> HIDE DEF x
    <3> QED
      BY <3>1, <3>2
  <2>2. CASE s.do = "unset"
    <3> DEFINE x == [key \in DOMAIN db.settings \ s.names |-> db.settings[key]]
    <3>1. Apply(db, s) = [db EXCEPT !.settings = x]
      BY <2>2 DEF Apply
    <3>2. \A n \in s.names : n \in Retired
      BY <2>2 DEF IsPlain
    <3>3. \A key \in DOMAIN db.settings \ Retired :
             key \in DOMAIN x /\ x[key] = db.settings[key]
      BY <3>2
    <3> HIDE DEF x
    <3> QED
      BY <2>2, <3>1, <3>3
  <2> QED
    BY <2>1, <2>2
<1>2. Apply(db, s) =
        [version |-> db.version, objects |-> db.objects, settings |-> x,
         pages |-> db.pages, rows |-> db.rows]
  BY <1>1, PartReplaced
<1> DEFINE new == Apply(db, s)
<1> HIDE DEF new
<1>3. /\ IsDatabase(new) /\ new.version = db.version /\ new.objects = db.objects
      /\ new.settings = x /\ new.pages = db.pages /\ new.rows = db.rows
  BY <1>2, MadeIsDatabase DEF new
<1> QED
  BY <1>1, <1>3 DEF Effect, Grown, Kept, Done, Retired, new

LEMMA PagesEffect ==
    ASSUME NEW db, NEW s, IsDatabase(db), s.do = "page"
    PROVE  Effect(db, s, Apply(db, s))
<1> DEFINE x == PagesPut(db.pages, s.names, s.refresh)
           new == Apply(db, s)
<1>1. new = [db EXCEPT !.pages = x]
  BY DEF Apply
<1>2. DOMAIN x = DOMAIN db.pages \union s.names
  BY DEF PagesPut
<1>3. ASSUME NEW key \in DOMAIN db.pages
      PROVE  x[key].custom = db.pages[key].custom
  <2>1. x[key] = IF s.refresh /\ key \in s.names
                 THEN [deflt |-> "shipped", custom |-> db.pages[key].custom]
                 ELSE db.pages[key]
    BY Zenon DEF PagesPut
  <2>2. [deflt |-> "shipped", custom |-> db.pages[key].custom].custom
           = db.pages[key].custom
    OBVIOUS
  <2> QED
    BY <2>1, <2>2, Zenon
<1> HIDE DEF x, new
<1>4. new =
        [version |-> db.version, objects |-> db.objects, settings |-> db.settings,
         pages |-> x, rows |-> db.rows]
  BY <1>1, PartReplaced
<1>5. /\ IsDatabase(new) /\ new.version = db.version /\ new.objects = db.objects
      /\ new.settings = db.settings /\ new.pages = x /\ new.rows = db.rows
  BY <1>4, MadeIsDatabase
<1> QED
  BY <1>2, <1>3, <1>5 DEF Effect, Grown, Kept, Done, new

LEMMA RowsEffect ==
    ASSUME NEW db, NEW s, IsDatabase(db), s.do \in {"layout", "button", "seed"}
    PROVE  Effect(db, s, Apply(db, s))
<1>1. PICK x : /\ Apply(db, s) = [db EXCEPT !.rows = x]
               /\ s.do = "seed" => x = db.rows
  <2>1. db = [db EXCEPT !.rows = db.rows]
    BY PartReplaced DEF IsDatabase
  <2>2. CASE s.do = "seed"
    <3>1. Apply(db, s) = db
      BY <2>2 DEF Apply
    <3> QED
      BY <2>1, <3>1
  <2>3. CASE s.do = "layout"
    <3>1. Apply(db, s) = IF db.rows = << >> THEN [db EXCEPT !.rows = s.rows] ELSE db
      BY <2>3 DEF Apply
    <3> QED
      BY <2>1, <2>3, <3>1
  <2>4. CASE s.do = "button"
    <3>1. Apply(db, s) =
            IF "prepayment" \in DOMAIN db.pages
            THEN [db EXCEPT !.rows = InsertButton(db.rows, s.id, s.after)] ELSE db
      BY <2>4 DEF Apply
    <3> QED
      BY <2>1, <2>4, <3>1
  <2> QED
    BY <2>2, <2>3, <2>4
<1>2. Apply(db, s) =
        [version |-> db.version, objects |-> db.objects, settings |-> db.settings,
         pages |-> db.pages, rows |-> x]
  BY <1>1, PartReplaced
<1> DEFINE new == Apply(db, s)
<1> HIDE DEF new
<1>3. /\ IsDatabase(new) /\ new.version = db.version /\ new.objects = db.objects
      /\ new.settings = db.settings /\ new.pages = db.pages /\ new.rows = x
  BY <1>2, MadeIsDatabase DEF new
<1> QED
  BY <1>1, <1>3 DEF Effect, Grown, Kept, Done, IsButton, new

\* Every statement of a migration keeps what has been made and chosen, and
\* makes what it names.
LEMMA StatementEffect ==
    ASSUME NEW db, NEW s, IsDatabase(db), IsStatement(s)
    PROVE  Effect(db, s, Apply(db, s))
<1>1. \/ IsPlain(s) /\ s.do \in {"table", "create", "drop"}
      \/ IsPlain(s) /\ s.do \in {"set", "unset"}
      \/ s.do = "page"
      \/ s.do \in {"layout", "button", "seed"}
  BY DEF IsStatement, IsInitial, IsPlain, IsLayout, IsButton
<1> QED
  BY <1>1, ObjectsEffect, SettingsEffect, PagesEffect, RowsEffect

LEMMA DoneStays ==
    ASSUME NEW old, NEW new, NEW s, Grown(old, new), IsStatement(s), Done(old, s)
    PROVE  Done(new, s)
<1>1. ASSUME s.do \in {"table", "create"} PROVE s.names \subseteq new.objects
  <2>1. \A n \in s.names : n \notin Dropped
    BY <1>1 DEF IsStatement, IsInitial, IsPlain, IsLayout, IsButton
  <2> QED
    BY <1>1, <2>1 DEF Grown, Done
<1>2. ASSUME s.do = "set" PROVE s.names \subseteq DOMAIN new.settings
  <2>1. \A n \in s.names : n \notin Retired
    BY <1>2 DEF IsStatement, IsInitial, IsPlain, IsLayout, IsButton
  <2> QED
    BY <1>2, <2>1 DEF Grown, Done
<1>3. ASSUME s.do = "page" PROVE s.names \subseteq DOMAIN new.pages
  BY <1>3 DEF Grown, Done
<1> QED
  BY <1>1, <1>2, <1>3 DEF Done

LEMMA KeptTransitive ==
    ASSUME NEW a, NEW b, NEW c, Kept(a, b), Kept(b, c)
    PROVE  Kept(a, c)
BY DEF Kept

----------------------------------------------------------------------------
(* What a version of the schema consists of *)

LEMMA MadeMember ==
    ASSUME NEW v, NEW do, NEW x
    PROVE  x \in Made(v, do) <=>
              \E i \in DOMAIN Step[v] : Step[v][i].do \in do /\ x \in Step[v][i].names
BY DEF Made

LEMMA MadeClean ==
    ASSUME NEW v \in 21..47, NEW x
    PROVE  /\ x \in Made(v, {"table", "create"}) => x \notin Dropped
           /\ x \in Made(v, {"set"}) => x \notin Retired
           /\ v > 21 => "prepayment" \notin Made(v, {"page"})
<1>1. ASSUME x \in Made(v, {"table", "create"}) PROVE x \notin Dropped
  <2>1. PICK i \in DOMAIN Step[v] :
           Step[v][i].do \in {"table", "create"} /\ x \in Step[v][i].names
    BY <1>1, MadeMember
  <2>2. IsStatement(Step[v][i])
    BY StepStatements
  <2> QED
    BY <2>1, <2>2 DEF IsStatement, IsInitial, IsPlain, IsLayout, IsButton
<1>2. ASSUME x \in Made(v, {"set"}) PROVE x \notin Retired
  <2>1. PICK i \in DOMAIN Step[v] :
           Step[v][i].do = "set" /\ x \in Step[v][i].names
    BY <1>2, MadeMember
  <2>2. IsStatement(Step[v][i])
    BY StepStatements
  <2> QED
    BY <2>1, <2>2 DEF IsStatement, IsInitial, IsPlain, IsLayout, IsButton
<1>3. ASSUME v > 21, "prepayment" \in Made(v, {"page"}) PROVE FALSE
  <2>1. PICK i \in DOMAIN Step[v] :
           Step[v][i].do = "page" /\ "prepayment" \in Step[v][i].names
    BY <1>3, MadeMember
  <2>2. IsPlain(Step[v][i]) \/ IsButton(Step[v][i])
    BY <1>3, StepStatements
  <2> QED
    BY <2>1, <2>2 DEF IsPlain, IsButton
<1> QED
  BY <1>1, <1>2, <1>3

LEMMA ContentsMember ==
    ASSUME NEW v \in 21..47, NEW x
    PROVE  /\ x \in Contents[v].objects <=>
                 \E w \in 21..v : x \in Since(w, {"table", "create"})
           /\ x \in Contents[v].settings <=> \E w \in 21..v : x \in Since(w, {"set"})
           /\ x \in Contents[v].pages <=> \E w \in 21..v : x \in Since(w, {"page"})
BY DEF Contents, INITIAL_VERSION, LATEST_VERSION

LEMMA SinceMade ==
    ASSUME NEW v \in 21..47, NEW do
    PROVE  /\ Since(v, do) \subseteq Made(v, do)
           /\ v > 21 => Since(v, do) = Made(v, do)
BY DEF Since, INITIAL_VERSION

LEMMA ContentsClean ==
    ASSUME NEW v \in 21..47
    PROVE  /\ \A x \in Contents[v].objects : x \notin Dropped
           /\ \A x \in Contents[v].settings : x \notin Retired
<1>1. ASSUME NEW x \in Contents[v].objects PROVE x \notin Dropped
  <2>1. PICK w \in 21..v : x \in Since(w, {"table", "create"})
    BY ContentsMember
  <2>2. w \in 21..47
    OBVIOUS
  <2> QED
    BY <2>1, <2>2, SinceMade, MadeClean
<1>2. ASSUME NEW x \in Contents[v].settings PROVE x \notin Retired
  <2>1. PICK w \in 21..v : x \in Since(w, {"set"})
    BY ContentsMember
  <2>2. w \in 21..47
    OBVIOUS
  <2> QED
    BY <2>1, <2>2, SinceMade, MadeClean
<1> QED
  BY <1>1, <1>2

\* What a version consists of survives what migrations do.
LEMMA HasStays ==
    ASSUME NEW v \in 21..47, NEW old, NEW new, Grown(old, new), Has(old, v)
    PROVE  Has(new, v)
BY ContentsClean DEF Grown, Has

\* A version has nothing but what the one before has and what is made for it.
LEMMA ContentsGrow ==
    ASSUME NEW v \in 21..47, NEW x
    PROVE  /\ x \in Contents[v].objects =>
                 \/ x \in Made(v, {"table", "create"})
                 \/ v > 21 /\ x \in Contents[v - 1].objects
           /\ x \in Contents[v].settings =>
                 \/ x \in Made(v, {"set"})
                 \/ v > 21 /\ x \in Contents[v - 1].settings
           /\ x \in Contents[v].pages =>
                 \/ x \in Made(v, {"page"})
                 \/ v > 21 /\ x \in Contents[v - 1].pages
<1>1. CASE v = 21
  <2>1. \A w \in 21..v : w = v
    BY <1>1
  <2> QED
    BY <2>1, ContentsMember, SinceMade
<1>2. CASE v > 21
  <2>1. v - 1 \in 21..47 /\ \A w \in 21..v : w = v \/ w \in 21..(v - 1)
    BY <1>2
  <2> QED
    BY <1>2, <2>1, ContentsMember, SinceMade
<1> QED
  BY <1>1, <1>2

LEMMA DoneMade ==
    ASSUME NEW v \in 21..47, NEW db, \A i \in DOMAIN Step[v] : Done(db, Step[v][i])
    PROVE  /\ Made(v, {"table", "create"}) \subseteq db.objects
           /\ Made(v, {"set"}) \subseteq DOMAIN db.settings
           /\ Made(v, {"page"}) \subseteq DOMAIN db.pages
<1>1. ASSUME NEW x \in Made(v, {"table", "create"}) PROVE x \in db.objects
  BY MadeMember DEF Done
<1>2. ASSUME NEW x \in Made(v, {"set"}) PROVE x \in DOMAIN db.settings
  BY MadeMember DEF Done
<1>3. ASSUME NEW x \in Made(v, {"page"}) PROVE x \in DOMAIN db.pages
  BY MadeMember DEF Done
<1> QED
  BY <1>1, <1>2, <1>3

\* When all statements of a step have been executed on the version before, the
\* database has what the version consists of.
LEMMA VersionBuilt ==
    ASSUME NEW v \in 21..47, NEW db, \A i \in DOMAIN Step[v] : Done(db, Step[v][i]),
           v > 21 => Has(db, v - 1)
    PROVE  Has(db, v)
<1>1. /\ Made(v, {"table", "create"}) \subseteq db.objects
      /\ Made(v, {"set"}) \subseteq DOMAIN db.settings
      /\ Made(v, {"page"}) \subseteq DOMAIN db.pages
  BY DoneMade
<1>2. Contents[v].objects \subseteq db.objects
  BY <1>1, ContentsGrow DEF Has
<1>3. Contents[v].settings \subseteq DOMAIN db.settings
  BY <1>1, ContentsGrow DEF Has
<1>4. Contents[v].pages \subseteq DOMAIN db.pages
  BY <1>1, ContentsGrow DEF Has
<1> QED
  BY <1>2, <1>3, <1>4 DEF Has

LEMMA PrepaymentHad ==
    ASSUME NEW v \in 21..47, NEW db, Has(db, v)
    PROVE  "prepayment" \in DOMAIN db.pages
<1>1. "prepayment" \in Made(21, {"page"})
  BY StepInitial, InitialStatements, MadeMember
<1>2. \A w \in 22..47 : "prepayment" \notin Made(w, {"page"})
  BY MadeClean
<1>3. "prepayment" \in Since(21, {"page"})
  BY <1>1, <1>2 DEF Since, INITIAL_VERSION, LATEST_VERSION
<1>4. "prepayment" \in Contents[v].pages
  BY <1>3, ContentsMember
<1> QED
  BY <1>4 DEF Has

----------------------------------------------------------------------------
(* The rows of the payment page *)

LEMMA RowsOfVersions ==
    /\ RowsAt(0) = {<< >>}
    /\ RowsAt(21) = {OldRows, PrepaymentRows}
    /\ RowsAt(22) = {OldRows, PrepaymentRows}
    /\ RowsAt(23) = {PrepaymentRows}
    /\ RowsAt(24) = {PlategaRows}
    /\ \A v \in 25..47 : RowsAt(v) = {NewestRows}
BY DEF RowsAt

LEMMA LaidOutRows == OldRows # << >> /\ PrepaymentRows # << >>
<1>1. "btn_pay_qr" \in DOMAIN OldRows /\ "btn_pay_qr" \in DOMAIN PrepaymentRows
  BY DEF OldRows, PrepaymentRows
<1>2. DOMAIN << >> = {}
  OBVIOUS
<1> QED
  BY <1>1, <1>2

LEMMA ButtonRows ==
    /\ InsertButton(OldRows, "btn_pay_wata", "btn_pay_qr") = PrepaymentRows
    /\ InsertButton(PrepaymentRows, "btn_pay_wata", "btn_pay_qr") = PrepaymentRows
    /\ InsertButton(PrepaymentRows, "btn_pay_platega", "btn_pay_wata") = PlategaRows
    /\ InsertButton(PlategaRows, "btn_pay_cardlink", "btn_pay_platega") = NewestRows
<1>1. InsertButton(OldRows, "btn_pay_wata", "btn_pay_qr") = PrepaymentRows
  BY DEF InsertButton, With, OldRows, PrepaymentRows
<1>2. InsertButton(PrepaymentRows, "btn_pay_wata", "btn_pay_qr") = PrepaymentRows
  BY DEF InsertButton, PrepaymentRows
<1>3. InsertButton(PrepaymentRows, "btn_pay_platega", "btn_pay_wata") = PlategaRows
  BY DEF InsertButton, With, PrepaymentRows, PlategaRows
<1>4. InsertButton(PlategaRows, "btn_pay_cardlink", "btn_pay_platega") = NewestRows
  BY DEF InsertButton, With, PlategaRows, NewestRows
<1> QED
  BY <1>1, <1>2, <1>3, <1>4

\* A new payment method goes where its version has it.
LEMMA ButtonPlaced ==
    ASSUME NEW v \in 23..25, NEW i \in DOMAIN Step[v], IsButton(Step[v][i]),
           NEW rows \in RowsAt(v - 1)
    PROVE  /\ InsertButton(rows, Step[v][i].id, Step[v][i].after) \in RowsAt(v)
           /\ i = Len(Step[v])
<1>1. PICK id, after : /\ EndsWithButton(Step[v], id, after)
                       /\ \/ v = 23 /\ id = "btn_pay_wata" /\ after = "btn_pay_qr"
                          \/ v = 24 /\ id = "btn_pay_platega" /\ after = "btn_pay_wata"
                          \/ v = 25 /\ id = "btn_pay_cardlink"
                                    /\ after = "btn_pay_platega"
  <2>1. v = 23 \/ v = 24 \/ v = 25
    OBVIOUS
  <2> QED
    BY <2>1, StepButton
<1>2. i = 3 /\ Len(Step[v]) = 3
  <2>1. DOMAIN Step[v] = 1..3
    BY <1>1, ProgramShape DEF EndsWithButton
  <2>2. ~IsButton(Step[v][1]) /\ ~IsButton(Step[v][2])
    BY <1>1 DEF EndsWithButton, IsPlain, IsButton
  <2> QED
    BY <1>1, <2>1, <2>2 DEF EndsWithButton
<1>3. Step[v][i].id = id /\ Step[v][i].after = after
  BY <1>1, <1>2 DEF EndsWithButton, Button
<1>4. InsertButton(rows, id, after) \in RowsAt(v)
  BY <1>1, ButtonRows, RowsOfVersions
<1> QED
  BY <1>2, <1>3, <1>4

\* The other steps leave them as the version before has them.
LEMMA RowsPassedOn ==
    ASSUME NEW v \in 22..47, v \notin 23..25
    PROVE  RowsAt(v - 1) \subseteq RowsAt(v)
<1>1. v = 22 \/ v \in 26..47
  OBVIOUS
<1> QED
  BY <1>1, RowsOfVersions

----------------------------------------------------------------------------
(* The invariant: what its parts need of the constants and of a database *)

LEMMA ReleaseFacts ==
    /\ Len(Releases) \in Nat /\ DOMAIN Releases = 1..Len(Releases)
    /\ 1 \in DOMAIN Releases
    /\ \A r \in DOMAIN Releases : Releases[r].schema \in 21..47
    /\ \A r \in DOMAIN Releases : \A q \in 1..r :
          Releases[q].schema <= Releases[r].schema
<1> DEFINE R == [mark : {"plain", "beta", "blocking"}, schema : 21..47]
<1>1. /\ Releases \in Seq(R)
      /\ Len(Releases) > 0
      /\ \A r \in DOMAIN Releases : \A q \in 1..r :
            Releases[q].schema <= Releases[r].schema
  BY UpkeepAssumption DEF UpkeepAssumption, INITIAL_VERSION, LATEST_VERSION
<1>2. \A r \in R : r.schema \in 21..47
  OBVIOUS
<1> HIDE DEF R
<1>3. Len(Releases) \in Nat /\ DOMAIN Releases = 1..Len(Releases)
  BY <1>1
<1>4. \A r \in DOMAIN Releases : Releases[r] \in R
  BY <1>1, <1>3
<1>5. \A r \in DOMAIN Releases : Releases[r].schema \in 21..47
  BY <1>2, <1>4
<1>6. 1 \in DOMAIN Releases
  BY <1>1, <1>3
<1> QED
  BY <1>1, <1>3, <1>5, <1>6

LEMMA SchemaFacts ==
    ASSUME ProcTypeOK, proc.at # "down" PROVE Schema \in 21..47
BY ReleaseFacts DEF ProcTypeOK, Schema

\* The database with other settings, or with more pages.
Edited(old, new) ==
    /\ IsDatabase(new)
    /\ new.version = old.version
    /\ new.objects = old.objects
    /\ new.rows = old.rows
    /\ DOMAIN old.settings \subseteq DOMAIN new.settings
    /\ DOMAIN old.pages \subseteq DOMAIN new.pages

StopKept(old, new) ==
    LET key == "broadcast_stop_requested"
    IN  key \in DOMAIN old.settings =>
           key \in DOMAIN new.settings /\ new.settings[key] = old.settings[key]

LEMMA NotEdited ==
    ASSUME NEW db, IsDatabase(db) PROVE Edited(db, db) /\ StopKept(db, db)
BY DEF Edited, StopKept

LEMMA SettingWritten ==
    ASSUME NEW db, NEW key, NEW value, IsDatabase(db), key # "broadcast_stop_requested"
    PROVE  /\ Edited(db, [db EXCEPT !.settings[key] = value])
           /\ StopKept(db, [db EXCEPT !.settings[key] = value])
<1> DEFINE x == [db.settings EXCEPT ![key] = value]
           new == [db EXCEPT !.settings = x]
<1>1. [db EXCEPT !.settings[key] = value] = new
  OBVIOUS
<1>2. /\ DOMAIN x = DOMAIN db.settings
      /\ \A k \in DOMAIN x : k # key => x[k] = db.settings[k]
  OBVIOUS
<1> HIDE DEF x, new
<1>3. new = [version |-> db.version, objects |-> db.objects, settings |-> x,
             pages |-> db.pages, rows |-> db.rows]
  BY PartReplaced DEF new
<1>4. /\ IsDatabase(new) /\ new.version = db.version /\ new.objects = db.objects
      /\ new.settings = x /\ new.pages = db.pages /\ new.rows = db.rows
  BY <1>3, MadeIsDatabase
<1>5. Edited(db, new) /\ StopKept(db, new)
  BY <1>2, <1>4 DEF Edited, StopKept
<1> QED
  BY <1>1, <1>5

LEMMA PageWritten ==
    ASSUME NEW db, NEW key, NEW text, IsDatabase(db)
    PROVE  /\ Edited(db, [db EXCEPT !.pages[key].custom = text])
           /\ StopKept(db, [db EXCEPT !.pages[key].custom = text])
<1> DEFINE x == [db.pages EXCEPT ![key].custom = text]
           new == [db EXCEPT !.pages = x]
<1>1. [db EXCEPT !.pages[key].custom = text] = new
  OBVIOUS
<1>2. DOMAIN x = DOMAIN db.pages
  OBVIOUS
<1> HIDE DEF x, new
<1>3. new = [version |-> db.version, objects |-> db.objects,
             settings |-> db.settings, pages |-> x, rows |-> db.rows]
  BY PartReplaced DEF new
<1>4. /\ IsDatabase(new) /\ new.version = db.version /\ new.objects = db.objects
      /\ new.settings = db.settings /\ new.pages = x /\ new.rows = db.rows
  BY <1>3, MadeIsDatabase
<1>5. Edited(db, new) /\ StopKept(db, new)
  BY <1>2, <1>4 DEF Edited, StopKept
<1> QED
  BY <1>1, <1>5

LEMMA FlagsWritten ==
    ASSUME NEW progress, NEW stop, IsDatabase(disk)
    PROVE  /\ Edited(disk, Flags(progress, stop))
           /\ "broadcast_stop_requested" \in DOMAIN Flags(progress, stop).settings
           /\ Flags(progress, stop).settings["broadcast_stop_requested"] = stop
<1> DEFINE x == With(With(disk.settings, "broadcast_in_progress", progress),
                     "broadcast_stop_requested", stop)
           new == [disk EXCEPT !.settings = x]
<1>1. Flags(progress, stop) = new
  BY DEF Flags
<1>2. /\ DOMAIN disk.settings \subseteq DOMAIN x
      /\ "broadcast_stop_requested" \in DOMAIN x
      /\ x["broadcast_stop_requested"] = stop
  BY DEF With
<1> HIDE DEF x, new
<1>3. new = [version |-> disk.version, objects |-> disk.objects, settings |-> x,
             pages |-> disk.pages, rows |-> disk.rows]
  BY PartReplaced DEF new
<1>4. /\ IsDatabase(new) /\ new.version = disk.version /\ new.objects = disk.objects
      /\ new.settings = x /\ new.pages = disk.pages /\ new.rows = disk.rows
  BY <1>3, MadeIsDatabase
<1>5. Edited(disk, new)
  BY <1>2, <1>4 DEF Edited
<1> QED
  BY <1>1, <1>2, <1>4, <1>5

LEMMA GrownWhenEdited ==
    ASSUME NEW old, NEW new, Edited(old, new) PROVE Grown(old, new)
BY DEF Edited, Grown

----------------------------------------------------------------------------
(* Steps of a process that serves, and goes on serving *)

\* What such a step may do to the code, the memory and the promise.
UpStepSound ==
    /\ CodeTypeOK' /\ ProcTypeOK' /\ MemoryTypeOK'
    /\ Schema <= Releases[tree'].schema
    /\ \A a \in Admins :
          /\ chat'[a] # 0 => Schema <= Releases[chat'[a]].schema
          /\ task'[a].to # 0 => Schema <= Releases[task'[a].to].schema
    /\ PromiseIsKept'

LEMMA UpStep ==
    ASSUME IInv, Up, proc'.at = "up", proc'.release = proc.release,
           Edited(disk, disk'), UpStepSound
    PROVE  IInv'
<1>1. /\ disk'.version = disk.version /\ disk'.rows = disk.rows
      /\ disk'.objects = disk.objects /\ DOMAIN disk.pages \subseteq DOMAIN disk'.pages
      /\ IsDatabase(disk')
  BY DEF Edited
<1>2. Schema' = Schema /\ Up'
  BY DEF Schema, Up
<1>3. DiskTypeOK'
  BY <1>1 DEF IInv, TypeOK, DiskTypeOK
<1>4. TypeOK'
  BY <1>3 DEF UpStepSound, TypeOK
<1>5. NeverOlder'
  <2>1. disk.version <= Schema /\ Schema \in 21..47 /\ disk.version \in 0..47
    BY SchemaFacts DEF IInv, TypeOK, DiskTypeOK, NeverOlder, Up, LATEST_VERSION
  <2>2. Releases[tree'].schema \in 21..47
    BY ReleaseFacts DEF UpStepSound, CodeTypeOK
  <2> QED
    BY <1>1, <1>2, <2>1, <2>2 DEF NeverOlder, UpStepSound
<1>6. DiskIsSound'
  <2>1. ~TooOld(disk.version) /\ disk.rows \in RowsAt(disk.version)
    BY DEF IInv, DiskIsSound, Up
  <2> QED
    BY <1>1, <2>1 DEF DiskIsSound
<1>7. VersionIsTrue'
  <2>1. ASSUME disk'.version >= 21 PROVE Has(disk', disk'.version)
    <3>1. Has(disk, disk.version) /\ disk.version \in 21..47
      BY <1>1, <2>1
      DEF IInv, VersionIsTrue, TypeOK, DiskTypeOK, INITIAL_VERSION, LATEST_VERSION
    <3> QED
      BY <1>1, <3>1, GrownWhenEdited, HasStays
  <2> QED
    BY <2>1 DEF VersionIsTrue, INITIAL_VERSION
<1>8. SchemaIsWhole'
  <2>1. /\ disk.version >= Schema /\ Triggers \subseteq disk.objects
        /\ \A i \in DOMAIN BrandedPages : BrandedPages[i] \in DOMAIN disk.pages
        /\ disk.version >= 25 => disk.rows = NewestRows
    BY DEF IInv, SchemaIsWhole, Schema
  <2>2. disk'.version >= Schema' /\ Triggers \subseteq disk'.objects
    BY <1>1, <1>2, <2>1
  <2>3. \A i \in DOMAIN BrandedPages : BrandedPages[i] \in DOMAIN disk'.pages
    BY <1>1, <2>1
  <2>4. disk'.version >= 25 => disk'.rows = NewestRows
    BY <1>1, <2>1
  <2> QED
    BY <2>2, <2>3, <2>4 DEF SchemaIsWhole, Schema
<1>9. MemoryIsLost' /\ MigrationIsExact' /\ BrandingIsExact'
  BY <1>2 DEF MemoryIsLost, MigrationIsExact, BrandingIsExact, Up
<1> QED
  BY <1>4, <1>5, <1>6, <1>7, <1>8, <1>9 DEF IInv, UpStepSound

\* The promise survives what does not touch the flag of the settings.
LEMMA PromiseStays ==
    ASSUME PromiseIsKept, StopKept(disk, disk'), told' => told
    PROVE  PromiseIsKept'
BY DEF PromiseIsKept, StopKept, is_broadcast_stop_requested, Flag

\* What a process that serves has of the invariant.
LEMMA UpFacts ==
    ASSUME IInv, Up
    PROVE  /\ CodeTypeOK /\ ProcTypeOK /\ MemoryTypeOK /\ IsDatabase(disk)
           /\ Schema \in 21..47
           /\ Schema <= Releases[tree].schema
           /\ \A a \in Admins :
                 /\ chat[a] # 0 => Schema <= Releases[chat[a]].schema
                 /\ task[a].to # 0 => Schema <= Releases[task[a].to].schema
           /\ PromiseIsKept
BY SchemaFacts DEF IInv, TypeOK, DiskTypeOK, NeverOlder, Up

\* The code and the process have their types when they stay as they are.
LEMMA CodeStays ==
    ASSUME CodeTypeOK, UNCHANGED <<tree, origin>> PROVE CodeTypeOK'
BY DEF CodeTypeOK

LEMMA ProcStays == ASSUME ProcTypeOK, proc' = proc PROVE ProcTypeOK'
BY DEF ProcTypeOK

\* Steps of one administrator's handler that write nothing to the disk.
LEMMA HandlerStep ==
    ASSUME IInv, Up, UNCHANGED <<disk, proc, tree, origin>>, told' => told,
           MemoryTypeOK',
           \A a \in Admins :
              /\ chat'[a] # 0 => Schema <= Releases[chat'[a]].schema
              /\ task'[a].to # 0 => Schema <= Releases[task'[a].to].schema
    PROVE  IInv'
<1>1. Edited(disk, disk') /\ StopKept(disk, disk')
  BY UpFacts, NotEdited
<1>2. UpStepSound
  BY <1>1, UpFacts, CodeStays, ProcStays, PromiseStays DEF UpStepSound
<1>3. proc'.at = "up" /\ proc'.release = proc.release
  BY DEF Up
<1> QED
  BY <1>1, <1>2, <1>3, UpStep

\* The memory has its type when it stays as it is and the newest commit does
\* not get older.
LEMMA ChatStays ==
    ASSUME CodeTypeOK, CodeTypeOK', MemoryTypeOK, chat' = chat, origin <= origin'
    PROVE  chat' \in [Admins -> 0..origin']
<1>1. origin \in Nat /\ origin' \in Nat
  BY ReleaseFacts DEF CodeTypeOK
<1>2. 0..origin \subseteq 0..origin'
  BY <1>1
<1> QED
  BY <1>2 DEF MemoryTypeOK

----------------------------------------------------------------------------
(* The handlers of updates *)

\* A handler that only moves on, or ends.
LEMMA TaskMoves ==
    ASSUME IInv, Up, NEW a \in Admins,
           NEW record \in [at : {"idle", "checking", "pulling", "overwriting", "pulled",
                                 "restarting"}, to : 0..origin],
           record.to # 0 => Schema <= Releases[record.to].schema,
           task' = [task EXCEPT ![a] = record],
           UNCHANGED <<disk, proc, tree, origin, chat, live, told>>
    PROVE  IInv'
<1>1. /\ task' \in [Admins ->
                     [at : {"idle", "checking", "pulling", "overwriting", "pulled",
                            "restarting"}, to : 0..origin]]
      /\ task'[a] = record
      /\ \A b \in Admins : b # a => task'[b] = task[b]
  BY DEF IInv, TypeOK, MemoryTypeOK
<1>2. MemoryTypeOK'
  BY <1>1 DEF IInv, TypeOK, MemoryTypeOK
<1>3. \A b \in Admins :
         /\ chat'[b] # 0 => Schema <= Releases[chat'[b]].schema
         /\ task'[b].to # 0 => Schema <= Releases[task'[b].to].schema
  BY <1>1, UpFacts
<1> QED
  BY <1>2, <1>3, HandlerStep

LEMMA UpdateBotConfirmed ==
    ASSUME IInv, NEW a \in Admins, update_bot_confirmed(a) PROVE IInv'
<1>1. Up /\ chat[a] \in 0..origin
  BY DEF update_bot_confirmed, IInv, TypeOK, MemoryTypeOK
<1>2. chat[a] # 0 => Schema <= Releases[chat[a]].schema
  BY <1>1, UpFacts
<1> DEFINE record == [at |-> "pulling", to |-> chat[a]]
<1>3. /\ record \in [at : {"idle", "checking", "pulling", "overwriting", "pulled",
                           "restarting"}, to : 0..origin]
      /\ record.to = chat[a]
  BY <1>1
<1>4. /\ task' = [task EXCEPT ![a] = record]
      /\ UNCHANGED <<disk, proc, tree, origin, chat, live, told>>
  BY DEF update_bot_confirmed, codeVars
<1> HIDE DEF record
<1> QED
  BY <1>1, <1>2, <1>3, <1>4, TaskMoves

LEMMA Overwrites ==
    ASSUME IInv, NEW a \in Admins, admin_update_cmd(a) \/ force_overwrite_confirmed(a)
    PROVE  IInv'
<1> DEFINE record == [at |-> "overwriting", to |-> 0]
<1>1. Up /\ origin \in Nat
  BY ReleaseFacts
  DEF admin_update_cmd, force_overwrite_confirmed, About, IInv, TypeOK, CodeTypeOK
<1>2. /\ record \in [at : {"idle", "checking", "pulling", "overwriting", "pulled",
                           "restarting"}, to : 0..origin]
      /\ record.to = 0
  BY <1>1
<1>3. /\ task' = [task EXCEPT ![a] = record]
      /\ UNCHANGED <<disk, proc, tree, origin, chat, live, told>>
  BY DEF admin_update_cmd, force_overwrite_confirmed, codeVars
<1> HIDE DEF record
<1> QED
  BY <1>1, <1>2, <1>3, TaskMoves

LEMMA TaskEnds ==
    ASSUME IInv, NEW a \in Admins, PullFails(a) \/ install_requirements_fails(a)
    PROVE  IInv'
<1>1. Up /\ origin \in Nat
  BY ReleaseFacts DEF PullFails, install_requirements_fails, IInv, TypeOK, CodeTypeOK
<1>2. /\ NoTask \in [at : {"idle", "checking", "pulling", "overwriting", "pulled",
                           "restarting"}, to : 0..origin]
      /\ NoTask.to = 0
  BY <1>1 DEF NoTask
<1>3. /\ task' = [task EXCEPT ![a] = NoTask]
      /\ UNCHANGED <<disk, proc, tree, origin, chat, live, told>>
  BY DEF PullFails, install_requirements_fails, codeVars
<1> QED
  BY <1>1, <1>2, <1>3, TaskMoves

\* A set of commits that is not empty has a first one.
LEMMA FirstCommit ==
    ASSUME NEW S, S # {}, S \subseteq Nat
    PROVE  \E r \in S : \A other \in S : r <= other
<1> DEFINE less == OpToRel(<, Nat)
<1>1. IsWellFoundedOn(less, Nat)
  BY NatLessThanWellFounded
<1>2. \E r \in S : \A other \in S : ~(<<other, r>> \in less)
  <2>1. PICK r0 \in S : TRUE
    OBVIOUS
  <2> HIDE DEF less
  <2> QED
    BY <1>1, <2>1, WFMin
<1>3. PICK r \in S : \A other \in S : ~(<<other, r>> \in less)
  BY <1>2
<1>4. \A other \in S : ~(other < r)
  BY <1>3 DEF OpToRel
<1> QED
  BY <1>4

\* What a check of the updates finds is one of the pending commits.
LEMMA BlockingIsPending ==
    ASSUME CodeTypeOK
    PROVE  \/ find_first_blocking_commit(get_pending_commits_list) = 0
           \/ /\ find_first_blocking_commit(get_pending_commits_list) \in 1..origin
              /\ tree < find_first_blocking_commit(get_pending_commits_list)
<1> DEFINE blocking == {r \in get_pending_commits_list : Releases[r].mark = "blocking"}
<1>1. \A r \in blocking : r \in 1..origin /\ tree < r
  BY ReleaseFacts DEF get_pending_commits_list, CodeTypeOK
<1>2. blocking \subseteq Nat
  BY <1>1
<1>3. find_first_blocking_commit(get_pending_commits_list) =
        IF blocking = {} THEN 0
        ELSE CHOOSE r \in blocking : \A other \in blocking : r <= other
  BY DEF find_first_blocking_commit
<1> HIDE DEF blocking
<1>4. CASE blocking = {}
  BY <1>3, <1>4
<1>5. CASE blocking # {}
  <2>1. \E r \in blocking : \A other \in blocking : r <= other
    BY <1>2, <1>5, FirstCommit
  <2>2. (CHOOSE r \in blocking : \A other \in blocking : r <= other) \in blocking
    BY <2>1
  <2> QED
    BY <1>1, <1>3, <1>5, <2>2
<1> QED
  BY <1>4, <1>5

LEMMA CheckForUpdates ==
    ASSUME IInv, NEW a \in Admins, check_for_updates(a) PROVE IInv'
<1> DEFINE found == find_first_blocking_commit(get_pending_commits_list)
<1>1. /\ Up /\ UNCHANGED <<disk, proc, tree, origin, live, told>>
      /\ task' = [task EXCEPT ![a] = NoTask]
      /\ chat' = [chat EXCEPT ![a] = found] \/ chat' = chat
  BY DEF check_for_updates, codeVars
<1>2. /\ CodeTypeOK /\ MemoryTypeOK /\ tree \in 1..Len(Releases)
      /\ origin \in tree..Len(Releases) /\ Len(Releases) \in Nat
  BY ReleaseFacts DEF IInv, TypeOK, CodeTypeOK
<1>3. found \in 0..origin /\ (found # 0 => found \in 1..origin /\ tree < found)
  BY <1>2, BlockingIsPending
<1>4. found # 0 => Schema <= Releases[found].schema
  <2>1. ASSUME found # 0 PROVE Schema <= Releases[found].schema
    <3>1. found \in DOMAIN Releases /\ tree \in 1..found
      BY <1>2, <1>3, <2>1, ReleaseFacts
    <3>2. Releases[tree].schema <= Releases[found].schema
      BY <3>1, ReleaseFacts
    <3>3. Releases[tree].schema \in 21..47 /\ Releases[found].schema \in 21..47
      BY <1>2, <3>1, ReleaseFacts
    <3> QED
      BY <1>1, <3>2, <3>3, UpFacts
  <2> QED
    BY <2>1
<1> HIDE DEF found
<1>5. /\ NoTask \in [at : {"idle", "checking", "pulling", "overwriting", "pulled",
                           "restarting"}, to : 0..origin]
      /\ NoTask.to = 0
  BY <1>2 DEF NoTask
<1>6. /\ task' \in [Admins ->
                     [at : {"idle", "checking", "pulling", "overwriting", "pulled",
                            "restarting"}, to : 0..origin]]
      /\ \A b \in Admins : task'[b] = NoTask \/ task'[b] = task[b]
  BY <1>1, <1>2, <1>5 DEF MemoryTypeOK
<1>7. /\ chat' \in [Admins -> 0..origin]
      /\ \A b \in Admins : chat'[b] = found \/ chat'[b] = chat[b]
  BY <1>1, <1>2, <1>3 DEF MemoryTypeOK
<1>8. MemoryTypeOK'
  BY <1>1, <1>2, <1>6, <1>7 DEF MemoryTypeOK
<1>9. \A b \in Admins :
         /\ chat'[b] # 0 => Schema <= Releases[chat'[b]].schema
         /\ task'[b].to # 0 => Schema <= Releases[task'[b].to].schema
  BY <1>1, <1>4, <1>5, <1>6, <1>7, UpFacts
<1> QED
  BY <1>1, <1>8, <1>9, HandlerStep

LEMMA UpdateIsShown ==
    ASSUME IInv, NEW a \in Admins, UpdateShown(a) PROVE IInv'
<1>1. /\ Up /\ UNCHANGED <<disk, proc, tree, origin, live, told>>
      /\ task' = [task EXCEPT ![a].at = "restarting"]
      /\ chat' = [chat EXCEPT ![a] = 0]
  BY DEF UpdateShown, codeVars
<1>2. MemoryTypeOK /\ origin \in Nat
  BY ReleaseFacts DEF IInv, TypeOK, CodeTypeOK
<1>3. task[a] \in [at : {"idle", "checking", "pulling", "overwriting", "pulled",
                         "restarting"}, to : 0..origin]
  BY <1>2 DEF MemoryTypeOK
<1>4. PICK record : record = [task[a] EXCEPT !.at = "restarting"]
  OBVIOUS
<1>5. /\ record \in [at : {"idle", "checking", "pulling", "overwriting", "pulled",
                           "restarting"}, to : 0..origin]
      /\ record.to = task[a].to
  BY <1>3, <1>4
<1>6. task' = [task EXCEPT ![a] = record]
  BY <1>1, <1>4
<1>7. /\ task' \in [Admins ->
                     [at : {"idle", "checking", "pulling", "overwriting", "pulled",
                            "restarting"}, to : 0..origin]]
      /\ \A b \in Admins : task'[b].to = task[b].to
  BY <1>2, <1>5, <1>6 DEF MemoryTypeOK
<1>8. /\ chat' \in [Admins -> 0..origin]
      /\ \A b \in Admins : chat'[b] = 0 \/ chat'[b] = chat[b]
  BY <1>1, <1>2 DEF MemoryTypeOK
<1>9. MemoryTypeOK'
  BY <1>1, <1>2, <1>7, <1>8 DEF MemoryTypeOK
<1>10. \A b \in Admins :
         /\ chat'[b] # 0 => Schema <= Releases[chat'[b]].schema
         /\ task'[b].to # 0 => Schema <= Releases[task'[b].to].schema
  BY <1>1, <1>7, <1>8, UpFacts
<1> QED
  BY <1>1, <1>9, <1>10, HandlerStep

\* What try_unblock does to the process and to the settings.
LEMMA Unblocking ==
    ASSUME IInv, Up, try_unblock
    PROVE  /\ proc'.at = "up" /\ proc'.release = proc.release /\ ProcTypeOK'
           /\ Edited(disk, disk') /\ StopKept(disk, disk')
<1>1. CodeTypeOK /\ ProcTypeOK /\ IsDatabase(disk)
  BY UpFacts
<1>2. Rules \in 0..Len(Releases)
  BY <1>1, ReleaseFacts DEF Rules, CodeTypeOK, ProcTypeOK
<1>3. PICK rules \in 0..Len(Releases) : proc' = [proc EXCEPT !.rules = rules]
  <2>1. proc.rules \in 0..Len(Releases)
    BY <1>1 DEF ProcTypeOK
  <2>2. proc' = [proc EXCEPT !.rules = IF is_update_blocked THEN Rules ELSE proc.rules]
    BY DEF try_unblock
  <2> QED
    BY <1>2, <2>1, <2>2
<1>4. proc'.at = "up" /\ proc'.release = proc.release /\ ProcTypeOK'
  BY <1>1, <1>3 DEF ProcTypeOK, Up
<1>5. Edited(disk, disk') /\ StopKept(disk, disk')
  <2>1. \/ disk' = disk
        \/ disk' = [disk EXCEPT !.settings["update_blocked"] = "0"]
    BY DEF try_unblock
  <2>2. CASE disk' = disk
    BY <1>1, <2>2, NotEdited
  <2>3. CASE disk' = [disk EXCEPT !.settings["update_blocked"] = "0"]
    BY <1>1, <2>3, SettingWritten
  <2> QED
    BY <2>1, <2>2, <2>3
<1> QED
  BY <1>4, <1>5

LEMMA CheckAndNotify == ASSUME IInv, check_and_notify_updates PROVE IInv'
<1>1. /\ Up /\ try_unblock
      /\ UNCHANGED <<tree, origin, chat, task, live, told>>
  BY DEF check_and_notify_updates, About, codeVars, memory, screens
<1>2. MemoryTypeOK'
  BY <1>1, UpFacts DEF MemoryTypeOK
<1>3. UpStepSound
  BY <1>1, <1>2, UpFacts, Unblocking, CodeStays, PromiseStays DEF UpStepSound
<1> QED
  BY <1>1, <1>3, Unblocking, UpStep

LEMMA ShowUpdateConfirm ==
    ASSUME IInv, NEW a \in Admins, show_update_confirm(a) PROVE IInv'
<1>1. /\ Up /\ try_unblock
      /\ UNCHANGED <<tree, origin, chat, live, told>>
      /\ task' = task \/ task' = [task EXCEPT ![a].at = "checking"]
  BY DEF show_update_confirm, About, codeVars
<1>2. MemoryTypeOK
  BY <1>1, UpFacts
<1>3. task[a] \in [at : {"idle", "checking", "pulling", "overwriting", "pulled",
                         "restarting"}, to : 0..origin]
  BY <1>2 DEF MemoryTypeOK
<1>4. PICK record : record = [task[a] EXCEPT !.at = "checking"]
  OBVIOUS
<1>5. /\ record \in [at : {"idle", "checking", "pulling", "overwriting", "pulled",
                           "restarting"}, to : 0..origin]
      /\ record.to = task[a].to
  BY <1>3, <1>4
<1>6. task' = task \/ task' = [task EXCEPT ![a] = record]
  BY <1>1, <1>4
<1>7. /\ task' \in [Admins ->
                     [at : {"idle", "checking", "pulling", "overwriting", "pulled",
                            "restarting"}, to : 0..origin]]
      /\ \A b \in Admins : task'[b].to = task[b].to
  BY <1>2, <1>5, <1>6 DEF MemoryTypeOK
<1>8. MemoryTypeOK'
  BY <1>1, <1>2, <1>7 DEF MemoryTypeOK
<1>9. UpStepSound
  BY <1>1, <1>7, <1>8, UpFacts, Unblocking, CodeStays, PromiseStays DEF UpStepSound
<1> QED
  BY <1>1, <1>9, Unblocking, UpStep

\* The reset to the blocking commit, which may be behind a pull of another
\* administrator but is never behind the process.
LEMMA PullToCommit ==
    ASSUME IInv, NEW a \in Admins, pull_to_commit(a) PROVE IInv'
<1>1. /\ Up /\ task[a].to # 0 /\ tree' = task[a].to
      /\ disk' = [disk EXCEPT !.settings["update_blocked"] = "1"]
      /\ task' = [task EXCEPT ![a] = [at |-> "pulled", to |-> 0]]
      /\ UNCHANGED <<proc, origin, chat, live, told>>
  BY DEF pull_to_commit
<1>2. /\ CodeTypeOK /\ MemoryTypeOK /\ ProcTypeOK /\ IsDatabase(disk)
      /\ origin \in Nat /\ Len(Releases) \in Nat /\ origin <= Len(Releases)
  BY <1>1, UpFacts, ReleaseFacts DEF CodeTypeOK
<1>3. task[a].to \in 1..origin
  BY <1>1, <1>2 DEF MemoryTypeOK
<1>4. CodeTypeOK'
  BY <1>1, <1>2, <1>3, ReleaseFacts DEF CodeTypeOK
<1>5. Schema <= Releases[tree'].schema
  BY <1>1, UpFacts
<1>6. PICK record : record = [at |-> "pulled", to |-> 0]
  OBVIOUS
<1>7. /\ record \in [at : {"idle", "checking", "pulling", "overwriting", "pulled",
                           "restarting"}, to : 0..origin]
      /\ record.to = 0
  BY <1>2, <1>6
<1>8. /\ task' \in [Admins ->
                     [at : {"idle", "checking", "pulling", "overwriting", "pulled",
                            "restarting"}, to : 0..origin]]
      /\ \A b \in Admins : task'[b].to = 0 \/ task'[b].to = task[b].to
  BY <1>1, <1>2, <1>6, <1>7 DEF MemoryTypeOK
<1>9. MemoryTypeOK'
  BY <1>1, <1>2, <1>8 DEF MemoryTypeOK
<1>10. Edited(disk, disk') /\ StopKept(disk, disk')
  BY <1>1, <1>2, SettingWritten
<1>11. UpStepSound
  BY <1>1, <1>2, <1>4, <1>5, <1>8, <1>9, <1>10, UpFacts, ProcStays, PromiseStays
  DEF UpStepSound
<1> QED
  BY <1>1, <1>10, <1>11, UpStep DEF Up

LEMMA PullUpdates ==
    ASSUME IInv, NEW a \in Admins, pull_updates(a) PROVE IInv'
<1>1. /\ Up /\ tree' = origin /\ task' = [task EXCEPT ![a].at = "pulled"]
      /\ UNCHANGED <<disk, proc, origin, chat, live, told>>
  BY DEF pull_updates
<1>2. /\ CodeTypeOK /\ MemoryTypeOK /\ ProcTypeOK /\ IsDatabase(disk)
      /\ tree \in 1..Len(Releases) /\ origin \in tree..Len(Releases)
      /\ Len(Releases) \in Nat
  BY <1>1, UpFacts, ReleaseFacts DEF CodeTypeOK
<1>3. CodeTypeOK' /\ origin \in DOMAIN Releases /\ tree \in 1..origin
  BY <1>1, <1>2, ReleaseFacts DEF CodeTypeOK
<1>4. Schema <= Releases[tree'].schema
  <2>1. Releases[tree].schema <= Releases[origin].schema
    BY <1>3, ReleaseFacts
  <2>2. Releases[tree].schema \in 21..47 /\ Releases[origin].schema \in 21..47
    BY <1>2, <1>3, ReleaseFacts
  <2> QED
    BY <1>1, <2>1, <2>2, UpFacts
<1>5. task[a] \in [at : {"idle", "checking", "pulling", "overwriting", "pulled",
                         "restarting"}, to : 0..origin]
  BY <1>2 DEF MemoryTypeOK
<1>6. PICK record : record = [task[a] EXCEPT !.at = "pulled"]
  OBVIOUS
<1>7. /\ record \in [at : {"idle", "checking", "pulling", "overwriting", "pulled",
                           "restarting"}, to : 0..origin]
      /\ record.to = task[a].to
  BY <1>5, <1>6
<1>8. task' = [task EXCEPT ![a] = record]
  BY <1>1, <1>6
<1>9. /\ task' \in [Admins ->
                     [at : {"idle", "checking", "pulling", "overwriting", "pulled",
                            "restarting"}, to : 0..origin]]
      /\ \A b \in Admins : task'[b].to = task[b].to
  BY <1>2, <1>7, <1>8 DEF MemoryTypeOK
<1>10. MemoryTypeOK'
  BY <1>1, <1>2, <1>9 DEF MemoryTypeOK
<1>11. Edited(disk, disk') /\ StopKept(disk, disk')
  BY <1>1, <1>2, NotEdited
<1>12. UpStepSound
  BY <1>1, <1>2, <1>3, <1>4, <1>9, <1>10, <1>11, UpFacts, ProcStays, PromiseStays
  DEF UpStepSound
<1> QED
  BY <1>1, <1>11, <1>12, UpStep DEF Up

----------------------------------------------------------------------------
(* Settings, texts, and what the world does *)

LEMMA SetBotMode ==
    ASSUME IInv, NEW mode, admin_set_bot_mode(mode) PROVE IInv'
<1>1. /\ Up /\ disk' = [disk EXCEPT !.settings["bot_mode"] = mode]
      /\ UNCHANGED <<proc, tree, origin, chat, task, live, told>>
  BY DEF admin_set_bot_mode, About, codeVars, memory, screens
<1>2. Edited(disk, disk') /\ StopKept(disk, disk')
  BY <1>1, UpFacts, SettingWritten
<1>3. MemoryTypeOK'
  BY <1>1, UpFacts DEF MemoryTypeOK
<1>4. UpStepSound
  BY <1>1, <1>2, <1>3, UpFacts, CodeStays, ProcStays, PromiseStays DEF UpStepSound
<1> QED
  BY <1>1, <1>2, <1>4, UpStep DEF Up

LEMMA UpdatePageCustom ==
    ASSUME IInv, NEW key, NEW text, update_page_custom(key, text) PROVE IInv'
<1>1. /\ Up /\ disk' = [disk EXCEPT !.pages[key].custom = text]
      /\ UNCHANGED <<proc, tree, origin, chat, task, live, told>>
  BY DEF update_page_custom, About, codeVars, memory, screens
<1>2. Edited(disk, disk') /\ StopKept(disk, disk')
  BY <1>1, UpFacts, PageWritten
<1>3. MemoryTypeOK'
  BY <1>1, UpFacts DEF MemoryTypeOK
<1>4. UpStepSound
  BY <1>1, <1>2, <1>3, UpFacts, CodeStays, ProcStays, PromiseStays DEF UpStepSound
<1> QED
  BY <1>1, <1>2, <1>4, UpStep DEF Up

LEMMA Complies == ASSUME IInv, Comply PROVE IInv'
<1>1. Up /\ UNCHANGED <<disk, proc, tree, origin, chat, task, live, told>>
  BY DEF Comply, About, memory, screens
<1>2. MemoryTypeOK'
  BY <1>1, UpFacts DEF MemoryTypeOK
<1> QED
  BY <1>1, <1>2, UpFacts, HandlerStep

----------------------------------------------------------------------------
(* Broadcasts *)

\* A loop that moves on.
LEMMA LoopMoves ==
    ASSUME IInv, Up, NEW a \in Admins, UNCHANGED <<disk, proc, tree, origin, chat, task, told>>,
           NEW loop \in [at : {"none", "checking", "sending", "ending"},
                         left : 0..Receivers],
           loop.at \in {"checking", "sending"} => loop.left > 0,
           live' = [live EXCEPT ![a] = loop]
    PROVE  IInv'
<1>1. MemoryTypeOK'
  <2>1. MemoryTypeOK
    BY UpFacts
  <2>2. /\ live' \in [Admins -> [at : {"none", "checking", "sending", "ending"},
                                 left : 0..Receivers]]
        /\ \A b \in Admins : live'[b] = loop \/ live'[b] = live[b]
    BY <2>1 DEF MemoryTypeOK
  <2> QED
    BY <2>1, <2>2 DEF MemoryTypeOK
<1> QED
  BY <1>1, UpFacts, HandlerStep

\* A running loop belongs to a process that serves.
LEMMA LoopIsUp ==
    ASSUME IInv, NEW a \in Admins, live[a].at # "none" PROVE Up
BY DEF IInv, MemoryIsLost, NoBroadcast

LEMMA LoopType ==
    ASSUME IInv, NEW a \in Admins
    PROVE  /\ live[a] \in [at : {"none", "checking", "sending", "ending"},
                           left : 0..Receivers]
           /\ live[a].at \in {"checking", "sending"} => live[a].left > 0
           /\ Receivers \in Nat \ {0}
BY UpkeepAssumption DEF IInv, TypeOK, MemoryTypeOK, UpkeepAssumption

LEMMA SendsNext ==
    ASSUME IInv, NEW a \in Admins, SendNext(a) \/ ReportFails(a) PROVE IInv'
<1>1. PICK step \in {"sending", "ending"} :
         /\ live[a].at = "checking"
         /\ live' = [live EXCEPT ![a].at = step]
         /\ UNCHANGED <<disk, proc, tree, origin, chat, task, told>>
  BY DEF SendNext, ReportFails, codeVars, screens
<1>2. PICK loop : loop = [live[a] EXCEPT !.at = step]
  OBVIOUS
<1>3. /\ loop \in [at : {"none", "checking", "sending", "ending"}, left : 0..Receivers]
      /\ loop.left > 0
  BY <1>1, <1>2, LoopType
<1>4. live' = [live EXCEPT ![a] = loop]
  BY <1>1, <1>2
<1> QED
  BY <1>1, <1>3, <1>4, LoopIsUp, LoopMoves

LEMMA IsSent == ASSUME IInv, NEW a \in Admins, Sent(a) PROVE IInv'
<1>1. PICK step \in {"checking", "ending"} :
         /\ step = IF live[a].left = 1 \/ is_broadcast_stop_requested
                   THEN "ending" ELSE "checking"
         /\ live[a].at = "sending"
         /\ live' = [live EXCEPT ![a] = [at |-> step, left |-> live[a].left - 1]]
         /\ UNCHANGED <<disk, proc, tree, origin, chat, task, told>>
  BY DEF Sent, codeVars, screens
<1>2. PICK loop : loop = [at |-> step, left |-> live[a].left - 1]
  OBVIOUS
<1>3. live[a].left \in 0..Receivers /\ live[a].left > 0 /\ Receivers \in Nat
  BY <1>1, LoopType
<1>4. live[a].left - 1 \in 0..Receivers
  BY <1>3
<1>5. loop \in [at : {"none", "checking", "sending", "ending"}, left : 0..Receivers]
  BY <1>2, <1>4
<1>6. loop.at \in {"checking", "sending"} => loop.left > 0
  BY <1>1, <1>2, <1>3
<1>7. live' = [live EXCEPT ![a] = loop]
  BY <1>1, <1>2
<1> QED
  BY <1>1, <1>5, <1>6, <1>7, LoopIsUp, LoopMoves

\* The start and the end of a broadcast write both flags and break no promise.
LEMMA BroadcastFlags ==
    ASSUME IInv, Up, NEW a \in Admins, NEW sending \in BOOLEAN, NEW progress, NEW stop,
           NEW loop \in [at : {"none", "checking", "sending", "ending"},
                         left : 0..Receivers],
           loop.at \in {"checking", "sending"} => loop.left > 0,
           live' = [live EXCEPT ![a] = loop],
           proc' = [proc EXCEPT !.sending = sending],
           disk' = Flags(progress, stop), ~told',
           UNCHANGED <<tree, origin, chat, task>>
    PROVE  IInv'
<1>1. MemoryTypeOK /\ ProcTypeOK /\ IsDatabase(disk)
  BY UpFacts
<1>2. MemoryTypeOK'
  <2>1. /\ live' \in [Admins -> [at : {"none", "checking", "sending", "ending"},
                                 left : 0..Receivers]]
        /\ \A b \in Admins : live'[b] = loop \/ live'[b] = live[b]
    BY <1>1 DEF MemoryTypeOK
  <2> QED
    BY <1>1, <2>1 DEF MemoryTypeOK
<1>3. proc'.at = "up" /\ proc'.release = proc.release /\ ProcTypeOK'
  BY <1>1 DEF ProcTypeOK, Up
<1>4. Edited(disk, disk')
  BY <1>1, FlagsWritten
<1>5. PromiseIsKept'
  BY DEF PromiseIsKept
<1>6. UpStepSound
  BY <1>2, <1>3, <1>5, UpFacts, CodeStays DEF UpStepSound
<1> QED
  BY <1>3, <1>4, <1>6, UpStep

LEMMA BroadcastConfirm ==
    ASSUME IInv, NEW a \in Admins, broadcast_confirm(a) PROVE IInv'
<1>1. /\ Up /\ proc' = [proc EXCEPT !.sending = TRUE]
      /\ disk' = Flags("1", "0") /\ ~told'
      /\ live' = [live EXCEPT ![a] = [at |-> "checking", left |-> Receivers]]
      /\ UNCHANGED <<tree, origin, chat, task>>
  BY DEF broadcast_confirm, About, codeVars
<1>2. PICK loop : loop = [at |-> "checking", left |-> Receivers]
  OBVIOUS
<1>3. /\ loop \in [at : {"none", "checking", "sending", "ending"}, left : 0..Receivers]
      /\ loop.left > 0
  BY <1>2, LoopType
<1> QED
  BY <1>1, <1>2, <1>3, BroadcastFlags

LEMMA FinishBroadcast ==
    ASSUME IInv, NEW a \in Admins, finish_broadcast_state(a) PROVE IInv'
<1>1. /\ live[a].at = "ending" /\ proc' = [proc EXCEPT !.sending = FALSE]
      /\ disk' = Flags("0", "0") /\ ~told'
      /\ live' = [live EXCEPT ![a] = NoBroadcast]
      /\ UNCHANGED <<tree, origin, chat, task>>
  BY DEF finish_broadcast_state, codeVars
<1>2. Up
  BY <1>1, LoopIsUp
<1>3. /\ NoBroadcast \in [at : {"none", "checking", "sending", "ending"},
                          left : 0..Receivers]
      /\ NoBroadcast.at \notin {"checking", "sending"}
  BY LoopType DEF NoBroadcast
<1> QED
  BY <1>1, <1>2, <1>3, BroadcastFlags

\* The screen promises what the settings have, or nothing.
LEMMA RequestStop == ASSUME IInv, request_broadcast_stop_or_reset PROVE IInv'
<1>1. /\ Up /\ UNCHANGED <<proc, tree, origin, chat, task, live>>
      /\ told' = proc.sending
      /\ \/ proc.sending /\ disk' = Flags("1", "1")
         \/ ~proc.sending /\ disk' = Flags("0", "0")
  BY DEF request_broadcast_stop_or_reset, About, codeVars, memory
<1>2. IsDatabase(disk) /\ ProcTypeOK /\ MemoryTypeOK
  BY <1>1, UpFacts
<1>3. Edited(disk, disk')
  BY <1>1, <1>2, FlagsWritten
<1>4. PromiseIsKept'
  <2>1. CASE proc.sending
    <3>1. /\ "broadcast_stop_requested" \in DOMAIN disk'.settings
          /\ disk'.settings["broadcast_stop_requested"] = "1"
      BY <1>1, <1>2, <2>1, FlagsWritten
    <3> QED
      BY <3>1 DEF PromiseIsKept, is_broadcast_stop_requested, Flag
  <2>2. CASE ~proc.sending
    BY <1>1, <2>2 DEF PromiseIsKept
  <2> QED
    BY <2>1, <2>2
<1>5. MemoryTypeOK'
  BY <1>1, <1>2 DEF MemoryTypeOK
<1>6. UpStepSound
  BY <1>1, <1>4, <1>5, UpFacts, CodeStays, ProcStays DEF UpStepSound
<1> QED
  BY <1>1, <1>3, <1>6, UpStep DEF Up

----------------------------------------------------------------------------
(* The end of a process *)

LEMMA DownStep ==
    ASSUME IInv, LoseMemory, UNCHANGED <<disk, origin, told>>, CodeTypeOK',
           disk.version <= Releases[tree'].schema
    PROVE  IInv'
<1>1. /\ proc' = Down /\ chat' = [a \in Admins |-> 0]
      /\ task' = [a \in Admins |-> NoTask] /\ live' = [a \in Admins |-> NoBroadcast]
  BY DEF LoseMemory
<1>2. proc'.at = "down" /\ ProcTypeOK'
  BY <1>1, ReleaseFacts DEF Down, ProcTypeOK, LATEST_VERSION
<1>3. ~Up'
  BY <1>2 DEF Up
<1>4. MemoryTypeOK'
  <2>1. origin' \in Nat /\ Receivers \in Nat
    BY ReleaseFacts, UpkeepAssumption DEF CodeTypeOK, UpkeepAssumption
  <2>2. /\ NoTask \in [at : {"idle", "checking", "pulling", "overwriting", "pulled",
                             "restarting"}, to : 0..origin']
        /\ NoBroadcast \in [at : {"none", "checking", "sending", "ending"},
                            left : 0..Receivers]
        /\ NoBroadcast.at = "none"
    BY <2>1 DEF NoTask, NoBroadcast
  <2>3. chat' \in [Admins -> 0..origin']
    BY <1>1, <2>1
  <2>4. task' \in [Admins ->
                     [at : {"idle", "checking", "pulling", "overwriting", "pulled",
                            "restarting"}, to : 0..origin']]
    BY <1>1, <2>2
  <2>5. /\ live' \in [Admins -> [at : {"none", "checking", "sending", "ending"},
                                 left : 0..Receivers]]
        /\ \A a \in Admins : live'[a].at = "none"
    BY <1>1, <2>2
  <2> QED
    BY <2>3, <2>4, <2>5 DEF MemoryTypeOK
<1>5. TypeOK'
  BY <1>2, <1>4 DEF IInv, TypeOK, DiskTypeOK
<1>6. MemoryIsLost'
  BY <1>1 DEF MemoryIsLost
<1>7. NeverOlder'
  BY <1>2 DEF NeverOlder
<1>8. PromiseIsKept'
  BY DEF IInv, PromiseIsKept, is_broadcast_stop_requested, Flag
<1>9. DiskIsSound' /\ VersionIsTrue'
  BY <1>2 DEF IInv, DiskIsSound, VersionIsTrue
<1>10. MigrationIsExact' /\ BrandingIsExact' /\ SchemaIsWhole'
  BY <1>2, <1>3 DEF MigrationIsExact, BrandingIsExact, SchemaIsWhole
<1> QED
  BY <1>5, <1>6, <1>7, <1>8, <1>9, <1>10 DEF IInv

LEMMA Stops ==
    ASSUME IInv, NEW a,
           Crash \/ admin_stop_bot_confirm \/ restart_bot(a)
    PROVE  IInv'
<1>1. LoseMemory /\ UNCHANGED <<disk, tree, origin, told>>
  BY DEF Crash, admin_stop_bot_confirm, restart_bot, codeVars, screens
<1>2. CodeTypeOK' /\ disk.version <= Releases[tree'].schema
  BY <1>1 DEF IInv, TypeOK, CodeTypeOK, NeverOlder
<1> QED
  BY <1>1, <1>2, DownStep

\* The tree is reset, the flag of the settings is not written any more.
LEMMA CrashesAfterReset ==
    ASSUME IInv, NEW a \in Admins, CrashAfterReset(a) PROVE IInv'
<1>1. /\ Up /\ task[a].to # 0 /\ tree' = task[a].to
      /\ LoseMemory /\ UNCHANGED <<disk, origin, told>>
  BY DEF CrashAfterReset, screens
<1>2. /\ CodeTypeOK /\ MemoryTypeOK
      /\ origin \in Nat /\ Len(Releases) \in Nat /\ origin <= Len(Releases)
  BY <1>1, UpFacts, ReleaseFacts DEF CodeTypeOK
<1>3. task[a].to \in 1..origin
  BY <1>1, <1>2 DEF MemoryTypeOK
<1>4. CodeTypeOK' /\ tree' \in DOMAIN Releases
  BY <1>1, <1>2, <1>3, ReleaseFacts DEF CodeTypeOK
<1>5. disk.version <= Releases[tree'].schema
  <2>1. Schema <= Releases[tree'].schema /\ Schema \in 21..47
    BY <1>1, UpFacts
  <2>2. disk.version <= Schema /\ disk.version \in 0..47
    BY <1>1 DEF IInv, TypeOK, DiskTypeOK, NeverOlder, Up, LATEST_VERSION
  <2>3. Releases[tree'].schema \in 21..47
    BY <1>4, ReleaseFacts
  <2> QED
    BY <2>1, <2>2, <2>3
<1> QED
  BY <1>1, <1>4, <1>5, DownStep

LEMMA Publishes == ASSUME IInv, Publish PROVE IInv'
<1>1. /\ origin < Len(Releases) /\ origin' = origin + 1
      /\ UNCHANGED <<disk, work, proc, tree, chat, task, live, told>>
  BY DEF Publish, memory, screens
<1>2. CodeTypeOK /\ MemoryTypeOK
  BY DEF IInv, TypeOK
<1>3. CodeTypeOK' /\ origin \in Nat
  BY <1>1, <1>2, ReleaseFacts DEF CodeTypeOK
<1>4. MemoryTypeOK'
  <2>1. chat' \in [Admins -> 0..origin']
    BY <1>1, <1>2, <1>3, ChatStays
  <2>2. 0..origin \subseteq 0..origin'
    BY <1>1, <1>3
  <2>3. task \in [Admins ->
                    [at : {"idle", "checking", "pulling", "overwriting", "pulled",
                           "restarting"}, to : 0..origin]]
    BY <1>2 DEF MemoryTypeOK
  <2>4. task' \in [Admins ->
                     [at : {"idle", "checking", "pulling", "overwriting", "pulled",
                            "restarting"}, to : 0..origin']]
    BY <1>1, <2>2, <2>3
  <2> QED
    BY <1>1, <1>2, <2>1, <2>4 DEF MemoryTypeOK
<1>5. TypeOK'
  BY <1>1, <1>3, <1>4 DEF IInv, TypeOK, ProcTypeOK, DiskTypeOK
<1>6. MemoryIsLost' /\ NeverOlder' /\ PromiseIsKept' /\ DiskIsSound'
  BY <1>1 DEF IInv, MemoryIsLost, NeverOlder, PromiseIsKept, DiskIsSound, Up, Schema,
              is_broadcast_stop_requested, Flag
<1>7. VersionIsTrue' /\ MigrationIsExact' /\ BrandingIsExact' /\ SchemaIsWhole'
  BY <1>1 DEF IInv, VersionIsTrue, MigrationIsExact, BrandingIsExact, SchemaIsWhole,
              Executed, LaidOut, Up, Schema
<1> QED
  BY <1>5, <1>6, <1>7 DEF IInv

----------------------------------------------------------------------------
(* Startup *)

\* What a step of a process that does not serve yet has to bring.
LEMMA BootStep ==
    ASSUME IInv, ~Up, UNCHANGED <<tree, origin, chat, task, live, told>>,
           proc'.at # "down", ProcTypeOK', DiskTypeOK',
           disk'.version <= Schema', Schema' <= Releases[tree].schema,
           StopKept(disk, disk'), DiskIsSound', VersionIsTrue', MigrationIsExact',
           BrandingIsExact', SchemaIsWhole'
    PROVE  IInv'
<1>1. /\ chat = [a \in Admins |-> 0] /\ task = [a \in Admins |-> NoTask]
      /\ live = [a \in Admins |-> NoBroadcast]
  BY DEF IInv, MemoryIsLost
<1>2. TypeOK'
  BY DEF IInv, TypeOK, CodeTypeOK, MemoryTypeOK
<1>3. MemoryIsLost'
  BY <1>1 DEF MemoryIsLost
<1>4. NeverOlder'
  <2>1. \A a \in Admins : chat'[a] = 0 /\ task'[a].to = 0
    BY <1>1 DEF NoTask
  <2>2. disk'.version <= Releases[tree'].schema
    <3>1. disk'.version \in 0..47 /\ Schema' \in 21..47
      <4>1. proc'.release \in DOMAIN Releases
        BY DEF ProcTypeOK
      <4>2. Releases[proc'.release].schema \in 21..47
        BY <4>1, ReleaseFacts
      <4> QED
        BY <4>2 DEF DiskTypeOK, Schema, LATEST_VERSION
    <3>2. Releases[tree].schema \in 21..47
      BY ReleaseFacts DEF IInv, TypeOK, CodeTypeOK
    <3> QED
      BY <3>1, <3>2
  <2> QED
    BY <2>1, <2>2 DEF NeverOlder
<1>5. PromiseIsKept'
  BY PromiseStays DEF IInv
<1> QED
  BY <1>2, <1>3, <1>4, <1>5 DEF IInv

LEMMA KeptIsStopKept ==
    ASSUME NEW old, NEW new, Kept(old, new) PROVE StopKept(old, new)
BY DEF Kept, StopKept

LEMMA KeptItself == ASSUME NEW db PROVE Kept(db, db)
BY DEF Kept

LEMMA NothingExecuted ==
    ASSUME NEW v \in 21..47 PROVE {i \in DOMAIN Step[v] : i < 1} = {}
<1>1. IsProgram(Step[v])
  BY StepStatements
<1>2. Len(Step[v]) \in Nat /\ DOMAIN Step[v] = 1..Len(Step[v])
  BY <1>1, ProgramShape
<1> QED
  BY <1>2

LEMMA Starts == ASSUME IInv, Start PROVE IInv'
<1>1. /\ proc.at = "down"
      /\ proc' = [Down EXCEPT !.at = IF TooOld(disk.version) THEN "refusing"
                                                            ELSE "migrating",
                              !.release = tree,
                              !.next = run_migrations(disk.version), !.pos = 1]
      /\ work' = disk
      /\ UNCHANGED <<disk, tree, origin, chat, task, live, told>>
  BY DEF Start, codeVars, memory, screens
<1>2. CodeTypeOK /\ DiskTypeOK /\ disk.version <= Releases[tree].schema
  BY DEF IInv, TypeOK, NeverOlder
<1>3. disk.version \in 0..47 /\ Releases[tree].schema \in 21..47 /\ IsDatabase(disk)
  BY <1>2, ReleaseFacts DEF CodeTypeOK, DiskTypeOK, LATEST_VERSION
<1>4. /\ proc'.at = IF TooOld(disk.version) THEN "refusing" ELSE "migrating"
      /\ proc'.release = tree /\ proc'.next = run_migrations(disk.version)
      /\ proc'.pos = 1 /\ proc'.txn = FALSE /\ proc'.rules = 0
      /\ proc'.sending = FALSE
      /\ proc' = [at |-> proc'.at, release |-> proc'.release, next |-> proc'.next,
                  pos |-> proc'.pos, txn |-> proc'.txn, rules |-> proc'.rules,
                  sending |-> proc'.sending]
  <2>1. PICK at : at = IF TooOld(disk.version) THEN "refusing" ELSE "migrating"
    OBVIOUS
  <2>2. PICK next : next = run_migrations(disk.version)
    OBVIOUS
  <2>3. proc' = [Down EXCEPT !.at = at, !.release = tree, !.next = next, !.pos = 1]
    BY <1>1, <2>1, <2>2
  <2>4. proc' = [at |-> at, release |-> tree, next |-> next, pos |-> 1, txn |-> FALSE,
                 rules |-> 0, sending |-> FALSE]
    BY <2>3 DEF Down
  <2> QED
    BY <2>1, <2>2, <2>4
<1>5. run_migrations(disk.version) \in 1..48
  BY <1>3 DEF run_migrations, INITIAL_VERSION
<1>6. ProcTypeOK' /\ proc'.at # "down"
  <2>1. tree \in 0..Len(Releases) /\ tree \in DOMAIN Releases
    BY <1>2, ReleaseFacts DEF CodeTypeOK
  <2>2. 0 \in 0..Len(Releases) /\ FALSE \in BOOLEAN /\ 1 \in Nat
    BY ReleaseFacts
  <2>3. run_migrations(disk.version) \in 0..(LATEST_VERSION + 1)
    BY <1>5 DEF LATEST_VERSION
  <2>4. proc'.at \in {"refusing", "migrating"}
    BY <1>4
  <2> QED
    BY <1>1, <1>4, <2>1, <2>2, <2>3, <2>4 DEF ProcTypeOK
<1>7. Schema' = Releases[tree].schema
  BY <1>4 DEF Schema
<1>8. DiskTypeOK' /\ VersionIsTrue' /\ StopKept(disk, disk')
  BY <1>1, <1>3, NotEdited DEF IInv, TypeOK, DiskTypeOK, VersionIsTrue
<1>9. DiskIsSound'
  BY <1>1, <1>4 DEF IInv, DiskIsSound
<1>10. MigrationIsExact'
  <2> SUFFICES ASSUME proc'.at = "migrating" PROVE MigrationIsExact'
    BY DEF MigrationIsExact
  <2>1. ~TooOld(disk.version)
    BY <1>4
  <2>2. \/ disk.version = 0 /\ proc'.next = 21
        \/ disk.version \in 21..47 /\ proc'.next = disk.version + 1
    <3>1. disk.version = 0 \/ disk.version \in 21..47
      BY <1>3, <2>1 DEF TooOld, INITIAL_VERSION
    <3> QED
      BY <1>4, <3>1 DEF run_migrations, INITIAL_VERSION
  <2>3. proc'.next \in INITIAL_VERSION..(Schema' + 1)
    BY <1>2, <1>3, <1>7, <2>2 DEF INITIAL_VERSION
  <2>4. work'.version = IF proc'.next = INITIAL_VERSION THEN 0 ELSE proc'.next - 1
    BY <1>1, <2>2 DEF INITIAL_VERSION
  <2>5. work'.version > 0 => Has(work', work'.version)
    BY <1>1, <2>2 DEF IInv, VersionIsTrue, INITIAL_VERSION
  <2>6. work'.rows \in RowsAt(work'.version)
    BY <1>1, <2>1 DEF IInv, DiskIsSound
  <2>7. ASSUME proc'.next <= Schema' PROVE Executed' = {}
    <3>1. proc'.next \in 21..47 /\ proc'.pos = 1
      BY <1>3, <1>4, <1>7, <2>2, <2>7
    <3> QED
      BY <3>1, NothingExecuted DEF Executed
  <2> QED
    BY <1>1, <1>3, <1>4, <2>3, <2>4, <2>5, <2>6, <2>7, KeptItself
    DEF MigrationIsExact, LaidOut
<1>11. BrandingIsExact' /\ SchemaIsWhole'
  BY <1>4 DEF BrandingIsExact, SchemaIsWhole, Up
<1>12. disk'.version <= Schema' /\ Schema' <= Releases[tree].schema /\ ~Up
  BY <1>1, <1>2, <1>3, <1>7 DEF Up
<1> QED
  BY <1>1, <1>6, <1>8, <1>9, <1>10, <1>11, <1>12, BootStep

\* Whether one of the first n - 1 statements of a step is about the rows, and
\* that the database has what these statements make.
Laid(v, n) ==
    \E i \in DOMAIN Step[v] : i < n /\ Step[v][i].do \in {"layout", "button"}
AllDone(db, v, n) ==
    \A i \in DOMAIN Step[v] : i < n => Done(db, Step[v][i])

LEMMA LaidNext ==
    ASSUME NEW v \in 21..47, NEW n \in DOMAIN Step[v]
    PROVE  Laid(v, n + 1) <=> (Laid(v, n) \/ Step[v][n].do \in {"layout", "button"})
<1>1. DOMAIN Step[v] = 1..Len(Step[v]) /\ Len(Step[v]) \in Nat
  BY StepStatements, ProgramShape
<1>2. \A i \in DOMAIN Step[v] : i < n + 1 <=> i < n \/ i = n
  BY <1>1
<1> QED
  BY <1>2 DEF Laid

LEMMA AllDoneNext ==
    ASSUME NEW v \in 21..47, NEW n \in DOMAIN Step[v], NEW old, NEW new,
           Grown(old, new), AllDone(old, v, n), Done(new, Step[v][n])
    PROVE  AllDone(new, v, n + 1)
<1>1. DOMAIN Step[v] = 1..Len(Step[v]) /\ Len(Step[v]) \in Nat
  BY StepStatements, ProgramShape
<1>2. \A i \in DOMAIN Step[v] : i < n + 1 <=> i < n \/ i = n
  BY <1>1
<1>3. \A i \in DOMAIN Step[v] : IsStatement(Step[v][i])
  BY StepStatements
<1>4. ASSUME NEW i \in DOMAIN Step[v], i < n + 1 PROVE Done(new, Step[v][i])
  BY <1>2, <1>3, <1>4, DoneStays DEF AllDone
<1> QED
  BY <1>4 DEF AllDone

\* Which steps have statements about the rows.
LEMMA WhereButtons ==
    ASSUME NEW v \in 21..47, NEW i \in DOMAIN Step[v]
    PROVE  /\ Step[v][i].do = "button" => v \in 23..25
           /\ Step[v][i].do = "layout" => v = 21 /\ Step[v][i].rows = PrepaymentRows
<1>1. CASE v = 21
  <2>1. IsInitial(Step[v][i])
    BY <1>1, StepInitial, InitialStatements DEF AreInitial
  <2> QED
    BY <1>1, <2>1 DEF IsInitial, IsPlain, IsLayout
<1>2. CASE v > 21
  <2>1. Step[v][i].do # "layout"
    BY <1>2, StepStatements DEF IsPlain, IsButton
  <2>2. ASSUME v \notin 23..25 PROVE Step[v][i].do # "button"
    <3>1. v \in 22..47
      BY <1>2
    <3>2. IsPlain(Step[v][i])
      BY <2>2, <3>1, StepPlain DEF ArePlain
    <3> QED
      BY <3>2 DEF IsPlain
  <2> QED
    BY <2>1, <2>2
<1> QED
  BY <1>1, <1>2

\* The steps that have such a statement end with the rows laid out.
LEMMA LaidAtEnd ==
    ASSUME NEW v \in 21..47, NEW n \in Nat, n > Len(Step[v]), v = 21 \/ v \in 23..25
    PROVE  Laid(v, n)
<1>1. DOMAIN Step[v] = 1..Len(Step[v]) /\ Len(Step[v]) \in Nat
  BY StepStatements, ProgramShape
<1>2. \A i \in DOMAIN Step[v] : i < n
  BY <1>1
<1>3. CASE v = 21
  <2>1. PICK i \in DOMAIN Step[v] : Step[v][i].do = "layout"
    BY <1>3, StepInitial, InitialStatements
  <2> QED
    BY <1>2, <2>1 DEF Laid
<1>4. CASE v \in 23..25
  <2>1. PICK id, after : EndsWithButton(Step[v], id, after)
    BY <1>4, StepButton
  <2>2. 3 \in DOMAIN Step[v] /\ Step[v][3].do = "button"
    BY <1>1, <2>1 DEF EndsWithButton, Button
  <2> QED
    BY <1>2, <2>2 DEF Laid
<1> QED
  BY <1>3, <1>4

\* A statement leaves the rows as its version, or the one before, has them.
LEMMA RowsAfter ==
    ASSUME NEW v \in 21..47, NEW n \in DOMAIN Step[v], NEW db, IsDatabase(db),
           db.version = IF v = 21 THEN 0 ELSE v - 1,
           db.version > 0 => Has(db, db.version),
           db.rows \in RowsAt(IF Laid(v, n) THEN v ELSE db.version)
    PROVE  Apply(db, Step[v][n]).rows
              \in RowsAt(IF Laid(v, n + 1) THEN v ELSE db.version)
<1> DEFINE s == Step[v][n]
<1>1. IsStatement(s) /\ DOMAIN Step[v] = 1..Len(Step[v]) /\ Len(Step[v]) \in Nat
  BY StepStatements, ProgramShape
<1>2. Effect(db, s, Apply(db, s))
  BY <1>1, StatementEffect
<1>3. CASE s.do \notin {"layout", "button"}
  <2>1. Laid(v, n + 1) <=> Laid(v, n)
    BY <1>3, LaidNext
  <2>2. Apply(db, s).rows = db.rows
    BY <1>2, <1>3 DEF Effect, IsButton
  <2> QED
    BY <2>1, <2>2
<1>4. CASE s.do = "button"
  <2>1. Laid(v, n + 1) /\ v \in 23..25
    BY <1>4, LaidNext, WhereButtons
  <2>2. ASSUME Laid(v, n) PROVE FALSE
    <3>1. PICK i \in DOMAIN Step[v] : i < n /\ Step[v][i].do \in {"layout", "button"}
      BY <2>2 DEF Laid
    <3>2. Step[v][i].do = "button"
      BY <2>1, <3>1, WhereButtons
    <3>3. RowsAt(v - 1) # {}
      <4>1. v - 1 = 22 \/ v - 1 = 23 \/ v - 1 = 24
        BY <2>1
      <4> QED
        BY <4>1, RowsOfVersions
    <3>4. i = Len(Step[v]) /\ n = Len(Step[v])
      BY <1>4, <2>1, <3>2, <3>3, ButtonPlaced DEF IsButton
    <3> QED
      BY <1>1, <3>1, <3>4
  <2>3. db.version = v - 1 /\ v - 1 \in 21..47
    BY <2>1
  <2>4. db.rows \in RowsAt(v - 1) /\ "prepayment" \in DOMAIN db.pages
    BY <2>2, <2>3, PrepaymentHad
  <2>5. InsertButton(db.rows, s.id, s.after) \in RowsAt(v)
    BY <1>4, <2>1, <2>4, ButtonPlaced DEF IsButton
  <2>6. Apply(db, s) = [db EXCEPT !.rows = InsertButton(db.rows, s.id, s.after)]
    BY <1>4, <2>4 DEF Apply
  <2>7. PICK x : x = InsertButton(db.rows, s.id, s.after)
    OBVIOUS
  <2>8. Apply(db, s).rows = x
    <3>1. Apply(db, s) = [version |-> db.version, objects |-> db.objects,
                          settings |-> db.settings, pages |-> db.pages, rows |-> x]
      BY <2>6, <2>7, PartReplaced
    <3> QED
      BY <3>1
  <2> QED
    BY <2>1, <2>5, <2>7, <2>8
<1>5. CASE s.do = "layout"
  <2>1. Laid(v, n + 1) /\ v = 21 /\ s.rows = PrepaymentRows /\ db.version = 0
    BY <1>5, LaidNext, WhereButtons
  <2>2. Apply(db, s) = IF db.rows = << >> THEN [db EXCEPT !.rows = PrepaymentRows]
                                          ELSE db
    BY <1>5, <2>1 DEF Apply
  <2>3. CASE Laid(v, n)
    <3>1. db.rows \in RowsAt(21)
      BY <2>1, <2>3
    <3>2. db.rows # << >>
      BY <3>1, RowsOfVersions, LaidOutRows
    <3> QED
      BY <2>1, <2>2, <3>1, <3>2
  <2>4. CASE ~Laid(v, n)
    <3>1. db.rows = << >>
      BY <2>1, <2>4, RowsOfVersions
    <3>2. Apply(db, s) = [version |-> db.version, objects |-> db.objects,
                          settings |-> db.settings, pages |-> db.pages,
                          rows |-> PrepaymentRows]
      BY <2>2, <3>1, PartReplaced
    <3>3. Apply(db, s).rows = PrepaymentRows
      BY <3>2
    <3> QED
      BY <2>1, <3>3, RowsOfVersions
  <2> QED
    BY <2>3, <2>4
<1> QED
  BY <1>3, <1>4, <1>5

\* What the migrations are about to do.
LEMMA MigratingFacts ==
    ASSUME IInv, Building
    PROVE  /\ proc.at = "migrating" /\ ~Up
           /\ proc.next \in 21..47 /\ proc.next <= Schema /\ Schema \in 21..47
           /\ proc.pos \in Nat \ {0} /\ proc.txn \in BOOLEAN
           /\ IsDatabase(work) /\ IsDatabase(disk)
           /\ work.version = IF proc.next = 21 THEN 0 ELSE proc.next - 1
           /\ ~proc.txn => work = disk
           /\ Kept(disk, work)
           /\ work.version > 0 => Has(work, work.version)
           /\ AllDone(work, proc.next, proc.pos)
           /\ work.rows \in RowsAt(IF Laid(proc.next, proc.pos) THEN proc.next
                                   ELSE work.version)
           /\ ~TooOld(disk.version) /\ disk.rows \in RowsAt(disk.version)
           /\ disk.version \in 0..47 /\ disk.version <= Schema
           /\ Schema <= Releases[tree].schema
<1>1. proc.at = "migrating" /\ proc.next <= Schema /\ ~Up
  BY DEF Building, Up
<1>2. ProcTypeOK /\ DiskTypeOK /\ MigrationIsExact /\ DiskIsSound /\ NeverOlder
  BY DEF IInv, TypeOK
<1>3. Schema \in 21..47 /\ proc.pos \in Nat /\ proc.txn \in BOOLEAN
  BY <1>1, <1>2, SchemaFacts DEF ProcTypeOK
<1>4. proc.next \in 21..47 /\ proc.pos > 0
  <2>1. proc.next \in 21..(Schema + 1) /\ proc.pos > 0
    BY <1>1, <1>2 DEF MigrationIsExact, INITIAL_VERSION
  <2> QED
    BY <1>1, <1>3, <2>1
<1>5. /\ IsDatabase(work)
      /\ work.version = IF proc.next = 21 THEN 0 ELSE proc.next - 1
      /\ ~proc.txn => work = disk
      /\ Kept(disk, work)
      /\ work.version > 0 => Has(work, work.version)
  BY <1>1, <1>2 DEF MigrationIsExact, INITIAL_VERSION
<1>6. /\ \A i \in Executed : Done(work, Step[proc.next][i])
      /\ work.rows \in RowsAt(IF LaidOut THEN proc.next ELSE work.version)
  BY <1>1, <1>2 DEF MigrationIsExact
<1>7. AllDone(work, proc.next, proc.pos)
  BY <1>6 DEF AllDone, Executed
<1>8. LaidOut <=> Laid(proc.next, proc.pos)
  BY DEF LaidOut, Laid, Executed
<1>9. /\ ~TooOld(disk.version) /\ disk.rows \in RowsAt(disk.version)
      /\ disk.version \in 0..47 /\ IsDatabase(disk)
  BY <1>1, <1>2 DEF DiskIsSound, DiskTypeOK, LATEST_VERSION
<1>10. disk.version <= Schema /\ Schema <= Releases[tree].schema
  BY <1>1, <1>2 DEF NeverOlder
<1> QED
  BY <1>1, <1>3, <1>4, <1>5, <1>6, <1>7, <1>8, <1>9, <1>10

\* The parts of the invariant about a migration that goes on.
LEMMA StillBuilding ==
    ASSUME proc'.at = "migrating", proc'.next \in 21..(Schema' + 1), proc'.pos > 0,
           Schema' \in 21..47,
           IsDatabase(work'), work'.version = IF proc'.next = 21 THEN 0 ELSE proc'.next - 1,
           ~proc'.txn => work' = disk',
           Kept(disk', work'), work'.version > 0 => Has(work', work'.version),
           proc'.next <= Schema' =>
              /\ AllDone(work', proc'.next, proc'.pos)
              /\ work'.rows \in RowsAt(IF Laid(proc'.next, proc'.pos)
                                       THEN proc'.next ELSE work'.version),
           proc'.next > Schema' => work'.rows \in RowsAt(work'.version)
    PROVE  MigrationIsExact' /\ BrandingIsExact' /\ SchemaIsWhole'
<1>1. BrandingIsExact' /\ SchemaIsWhole'
  BY DEF BrandingIsExact, SchemaIsWhole, Up
<1>2. AllDone(work', proc'.next, proc'.pos) =>
         \A i \in Executed' : Done(work', Step[proc'.next][i])
  BY DEF AllDone, Executed
<1>3. LaidOut' <=> Laid(proc'.next, proc'.pos)
  BY DEF LaidOut, Laid, Executed
<1>4. MigrationIsExact'
  BY <1>2, <1>3 DEF MigrationIsExact, INITIAL_VERSION
<1> QED
  BY <1>1, <1>4

\* One statement: what is durable at once leaves the versions true, because it
\* only adds to them; what is not is in the transaction.
LEMMA Executes == ASSUME IInv, ExecuteStatement PROVE IInv'
<1>1. /\ Building /\ proc.pos <= Len(Step[proc.next])
      /\ work' = Apply(work, Step[proc.next][proc.pos])
      /\ disk' = IF proc.txn \/ ~IsDDL(Step[proc.next][proc.pos]) THEN disk ELSE work'
      /\ proc' = [proc EXCEPT !.pos = @ + 1,
                     !.txn = proc.txn \/ ~IsDDL(Step[proc.next][proc.pos])]
      /\ UNCHANGED <<tree, origin, chat, task, live, told>>
  BY DEF ExecuteStatement, codeVars, memory, screens
<1>2. PICK v, n : v = proc.next /\ n = proc.pos
  OBVIOUS
<1>3. PICK s : s = Step[v][n]
  OBVIOUS
<1>4. PICK txn \in BOOLEAN : txn <=> (proc.txn \/ ~IsDDL(s))
  <2>1. PICK txn \in BOOLEAN : txn = (proc.txn \/ ~IsDDL(s))
    <3>1. (proc.txn \/ ~IsDDL(s)) \in BOOLEAN
      OBVIOUS
    <3> QED
      BY <3>1, Zenon
  <2> QED
    BY <2>1
<1>5. /\ v \in 21..47 /\ n \in DOMAIN Step[v] /\ IsStatement(s)
      /\ DOMAIN Step[v] = 1..Len(Step[v]) /\ Len(Step[v]) \in Nat /\ n \in Nat
  <2>1. v \in 21..47 /\ n \in Nat \ {0} /\ n <= Len(Step[v])
    BY <1>1, <1>2, MigratingFacts
  <2>2. DOMAIN Step[v] = 1..Len(Step[v]) /\ Len(Step[v]) \in Nat
    BY <2>1, StepStatements, ProgramShape
  <2>3. n \in DOMAIN Step[v]
    BY <2>1, <2>2
  <2> QED
    BY <1>3, <2>1, <2>2, <2>3, StepStatements
<1>6. Effect(work, s, work')
  BY <1>1, <1>2, <1>3, <1>5, MigratingFacts, StatementEffect
<1>7. /\ proc' = [proc EXCEPT !.pos = n + 1, !.txn = txn]
      /\ disk' = IF txn THEN disk ELSE work'
  <2>1. (proc.txn \/ ~IsDDL(s)) = txn
    BY <1>4, Zenon
  <2> QED
    BY <1>1, <1>2, <1>3, <2>1
<1>8. /\ proc'.at = "migrating" /\ proc'.next = v /\ proc'.pos = n + 1
      /\ proc'.txn = txn /\ proc'.release = proc.release /\ ProcTypeOK'
  <2>1. ProcTypeOK /\ proc.at = "migrating"
    BY <1>1, MigratingFacts DEF IInv, TypeOK
  <2>2. proc \in [at : {"down", "refusing", "migrating", "branding", "up"},
                  release : 0..Len(Releases), next : 0..(LATEST_VERSION + 1),
                  pos : Nat, txn : BOOLEAN, rules : 0..Len(Releases),
                  sending : BOOLEAN]
    BY <2>1 DEF ProcTypeOK
  <2>3. n + 1 \in Nat
    BY <1>5
  <2>4. /\ proc' \in [at : {"down", "refusing", "migrating", "branding", "up"},
                      release : 0..Len(Releases), next : 0..(LATEST_VERSION + 1),
                      pos : Nat, txn : BOOLEAN, rules : 0..Len(Releases),
                      sending : BOOLEAN]
        /\ proc'.at = proc.at /\ proc'.next = proc.next /\ proc'.pos = n + 1
        /\ proc'.txn = txn /\ proc'.release = proc.release
    BY <1>7, <2>2, <2>3
  <2> QED
    BY <1>2, <2>1, <2>4 DEF ProcTypeOK
<1>9. Schema' = Schema
  BY <1>8 DEF Schema
<1>10. /\ IsDatabase(work') /\ work'.version = work.version
       /\ Grown(work, work') /\ Kept(work, work') /\ Done(work', s)
  BY <1>6 DEF Effect
<1>11. /\ disk'.version = disk.version /\ IsDatabase(disk')
       /\ Grown(disk, disk') /\ Kept(disk, disk') /\ disk'.rows = disk.rows
       /\ (~txn => work' = disk') /\ Kept(disk', work')
  <2>1. CASE txn
    <3>1. Kept(disk, work') /\ disk' = disk
      BY <1>1, <1>7, <1>10, <2>1, MigratingFacts, KeptTransitive
    <3> QED
      BY <1>1, <2>1, <3>1, MigratingFacts, KeptItself DEF Grown
  <2>2. CASE ~txn
    <3>1. work = disk /\ disk' = work' /\ IsDDL(s)
      BY <1>1, <1>4, <1>7, <2>2, MigratingFacts
    <3>2. work'.rows = work.rows
      BY <1>6, <3>1 DEF Effect, IsDDL, IsButton
    <3> QED
      BY <1>10, <3>1, <3>2, KeptItself
  <2> QED
    BY <2>1, <2>2
<1>12. DiskTypeOK' /\ DiskIsSound' /\ disk'.version <= Schema'
  BY <1>1, <1>9, <1>11, MigratingFacts DEF DiskTypeOK, DiskIsSound, LATEST_VERSION
<1>13. VersionIsTrue'
  <2>1. ASSUME disk'.version >= 21 PROVE Has(disk', disk'.version)
    <3>1. Has(disk, disk.version) /\ disk.version \in 21..47
      <4>1. VersionIsTrue
        BY DEF IInv
      <4>2. disk.version \in 0..47
        BY <1>1, MigratingFacts
      <4>3. disk.version >= 21
        BY <1>11, <2>1
      <4> QED
        BY <4>1, <4>2, <4>3 DEF VersionIsTrue, INITIAL_VERSION
    <3> QED
      BY <1>11, <3>1, HasStays
  <2> QED
    BY <2>1 DEF VersionIsTrue, INITIAL_VERSION
<1>14. MigrationIsExact' /\ BrandingIsExact' /\ SchemaIsWhole'
  <2>1. work'.version > 0 => Has(work', work'.version)
    <3>1. ASSUME work.version > 0 PROVE Has(work', work.version)
      <4>1. work.version \in 21..47 /\ Has(work, work.version)
        <5>1. work.version = IF v = 21 THEN 0 ELSE v - 1
          BY <1>1, <1>2, MigratingFacts
        <5>2. work.version > 0 => Has(work, work.version)
          BY <1>1, MigratingFacts
        <5> QED
          BY <1>5, <3>1, <5>1, <5>2
      <4> QED
        BY <1>10, <4>1, HasStays
    <3> QED
      BY <1>10, <3>1
  <2>2. AllDone(work', v, n + 1)
    BY <1>1, <1>2, <1>3, <1>5, <1>10, MigratingFacts, AllDoneNext
  <2>3. work'.rows \in RowsAt(IF Laid(v, n + 1) THEN v ELSE work'.version)
    BY <1>1, <1>2, <1>5, <1>10, MigratingFacts, RowsAfter
  <2>4. v \in 21..(Schema' + 1) /\ Schema' \in 21..47 /\ v <= Schema'
    <3>1. v <= Schema /\ Schema \in 21..47
      BY <1>1, <1>2, MigratingFacts
    <3> QED
      BY <1>5, <1>9, <3>1
  <2>5. work'.version = IF v = 21 THEN 0 ELSE v - 1
    BY <1>1, <1>2, <1>10, MigratingFacts
  <2> QED
    BY <1>5, <1>8, <1>10, <1>11, <2>1, <2>2, <2>3, <2>4, <2>5, StillBuilding
<1>15. StopKept(disk, disk')
  BY <1>11, KeptIsStopKept
<1>16. Schema' <= Releases[tree].schema /\ ~Up
  BY <1>1, <1>9, MigratingFacts
<1> QED
  BY <1>1, <1>8, <1>12, <1>13, <1>14, <1>15, <1>16, BootStep

\* A version is recorded when its step is complete.
LEMMA Records == ASSUME IInv, RecordVersion PROVE IInv'
<1>1. /\ Building /\ proc.pos > Len(Step[proc.next])
      /\ work' = [work EXCEPT !.version = proc.next]
      /\ proc' = [proc EXCEPT !.next = @ + 1, !.pos = 1, !.txn = TRUE]
      /\ UNCHANGED <<disk, tree, origin, chat, task, live, told>>
  BY DEF RecordVersion, set_version, codeVars, memory, screens
<1>2. PICK v, n : v = proc.next /\ n = proc.pos
  OBVIOUS
<1>3. /\ v \in 21..47 /\ n \in Nat /\ n > Len(Step[v]) /\ v <= Schema
      /\ Schema \in 21..47
      /\ DOMAIN Step[v] = 1..Len(Step[v]) /\ Len(Step[v]) \in Nat
  BY <1>1, <1>2, MigratingFacts, StepStatements, ProgramShape
<1>4. /\ proc'.at = "migrating" /\ proc'.next = v + 1 /\ proc'.pos = 1
      /\ proc'.txn = TRUE /\ proc'.release = proc.release /\ ProcTypeOK'
  <2>1. ProcTypeOK /\ proc.at = "migrating"
    BY <1>1, MigratingFacts DEF IInv, TypeOK
  <2>2. proc \in [at : {"down", "refusing", "migrating", "branding", "up"},
                  release : 0..Len(Releases), next : 0..(LATEST_VERSION + 1),
                  pos : Nat, txn : BOOLEAN, rules : 0..Len(Releases),
                  sending : BOOLEAN]
    BY <2>1 DEF ProcTypeOK
  <2>3. v + 1 \in 0..(LATEST_VERSION + 1) /\ 1 \in Nat
    BY <1>3 DEF LATEST_VERSION
  <2>4. proc' = [proc EXCEPT !.next = v + 1, !.pos = 1, !.txn = TRUE]
    BY <1>1, <1>2
  <2>5. /\ proc' \in [at : {"down", "refusing", "migrating", "branding", "up"},
                      release : 0..Len(Releases), next : 0..(LATEST_VERSION + 1),
                      pos : Nat, txn : BOOLEAN, rules : 0..Len(Releases),
                      sending : BOOLEAN]
        /\ proc'.at = proc.at /\ proc'.next = v + 1 /\ proc'.pos = 1
        /\ proc'.txn = TRUE /\ proc'.release = proc.release
    BY <2>2, <2>3, <2>4
  <2> QED
    BY <2>1, <2>5 DEF ProcTypeOK
<1>5. Schema' = Schema
  BY <1>4 DEF Schema
<1>6. /\ IsDatabase(work') /\ work'.version = v /\ work'.objects = work.objects
      /\ work'.settings = work.settings /\ work'.pages = work.pages
      /\ work'.rows = work.rows
  <2>1. IsDatabase(work) /\ work' = [work EXCEPT !.version = v]
    BY <1>1, <1>2, MigratingFacts
  <2>2. work' = [version |-> v, objects |-> work.objects, settings |-> work.settings,
                 pages |-> work.pages, rows |-> work.rows]
    BY <2>1 DEF IsDatabase
  <2> QED
    BY <2>2, MadeIsDatabase
<1>7. Kept(disk', work')
  BY <1>1, <1>6, MigratingFacts DEF Kept
<1>8. Has(work', v)
  <2>1. \A i \in DOMAIN Step[v] : Done(work, Step[v][i])
    <3>1. \A i \in DOMAIN Step[v] : i < n
      BY <1>3
    <3> QED
      BY <1>1, <1>2, <3>1, MigratingFacts DEF AllDone
  <2>2. ASSUME v > 21 PROVE Has(work, v - 1)
    <3>1. work.version = IF v = 21 THEN 0 ELSE v - 1
      BY <1>1, <1>2, MigratingFacts
    <3>2. work.version > 0 => Has(work, work.version)
      BY <1>1, MigratingFacts
    <3>3. work.version = v - 1 /\ v - 1 > 0
      BY <1>3, <2>2, <3>1
    <3> QED
      BY <3>2, <3>3
  <2>3. Has(work, v)
    BY <1>3, <2>1, <2>2, VersionBuilt
  <2> QED
    BY <1>6, <2>3 DEF Has
<1>9. work'.rows \in RowsAt(v)
  <2>1. work.rows \in RowsAt(IF Laid(v, n) THEN v ELSE work.version)
    BY <1>1, <1>2, MigratingFacts
  <2>2. CASE Laid(v, n)
    BY <1>6, <2>1, <2>2
  <2>3. CASE ~Laid(v, n)
    <3>1. v \in 22..47 /\ v \notin 23..25
      BY <1>3, <2>3, LaidAtEnd
    <3>2. work.version = v - 1
      <4>1. work.version = IF v = 21 THEN 0 ELSE v - 1
        BY <1>1, <1>2, MigratingFacts
      <4> QED
        BY <3>1, <4>1
    <3>3. work.rows \in RowsAt(v - 1)
      BY <2>1, <2>3, <3>2
    <3> QED
      BY <1>6, <3>1, <3>3, RowsPassedOn
  <2> QED
    BY <2>2, <2>3
<1>10. ASSUME v + 1 <= 47 PROVE AllDone(work', v + 1, 1) /\ ~Laid(v + 1, 1)
  <2>1. v + 1 \in 21..47
    BY <1>3, <1>10
  <2>2. {i \in DOMAIN Step[v + 1] : i < 1} = {}
    BY <2>1, NothingExecuted
  <2> QED
    BY <2>2 DEF AllDone, Laid
<1>11. MigrationIsExact' /\ BrandingIsExact' /\ SchemaIsWhole'
  <2>1. v + 1 \in 21..(Schema' + 1) /\ Schema' \in 21..47 /\ v + 1 # 21
    BY <1>3, <1>5
  <2>2. work'.version = IF v + 1 = 21 THEN 0 ELSE (v + 1) - 1
    BY <1>3, <1>6
  <2>3. v + 1 <= Schema' =>
           /\ AllDone(work', v + 1, 1)
           /\ work'.rows \in RowsAt(IF Laid(v + 1, 1) THEN v + 1 ELSE work'.version)
    <3>1. ASSUME v + 1 <= Schema' PROVE v + 1 <= 47
      BY <1>3, <1>5, <3>1
    <3> QED
      BY <1>6, <1>9, <1>10, <3>1
  <2> QED
    BY <1>4, <1>6, <1>7, <1>8, <1>9, <2>1, <2>2, <2>3, StillBuilding
<1>12. DiskTypeOK' /\ DiskIsSound' /\ VersionIsTrue' /\ disk'.version <= Schema'
  BY <1>1, <1>5, MigratingFacts
  DEF IInv, TypeOK, DiskTypeOK, DiskIsSound, VersionIsTrue
<1>13. /\ StopKept(disk, disk') /\ Schema' <= Releases[tree].schema /\ ~Up
  BY <1>1, <1>5, MigratingFacts, NotEdited
<1> QED
  BY <1>1, <1>4, <1>11, <1>12, <1>13, BootStep

\* All of it is durable at once.
LEMMA Commits == ASSUME IInv, CommitMigrations PROVE IInv'
<1>1. /\ proc.at = "migrating" /\ proc.next > Schema /\ disk' = work
      /\ proc' = [proc EXCEPT !.at = "branding", !.next = 0, !.pos = 1, !.txn = FALSE]
      /\ UNCHANGED <<tree, origin, chat, task, live, told>>
  BY DEF CommitMigrations, codeVars, memory, screens
<1>2. /\ ProcTypeOK /\ MigrationIsExact /\ ~Up /\ Schema \in 21..47
      /\ Schema <= Releases[tree].schema
  BY <1>1, SchemaFacts DEF IInv, TypeOK, NeverOlder, Up
<1>3. /\ IsDatabase(work) /\ Kept(disk, work)
      /\ proc.next \in 21..(Schema + 1)
      /\ work.version = IF proc.next = 21 THEN 0 ELSE proc.next - 1
      /\ work.version > 0 => Has(work, work.version)
      /\ work.rows \in RowsAt(work.version)
  BY <1>1, <1>2 DEF MigrationIsExact, INITIAL_VERSION
<1>4. work.version = Schema /\ Has(work, work.version)
  BY <1>1, <1>2, <1>3
<1>5. /\ proc'.at = "branding" /\ proc'.release = proc.release /\ proc'.pos = 1
      /\ ProcTypeOK'
  <2>1. proc \in [at : {"down", "refusing", "migrating", "branding", "up"},
                  release : 0..Len(Releases), next : 0..(LATEST_VERSION + 1),
                  pos : Nat, txn : BOOLEAN, rules : 0..Len(Releases),
                  sending : BOOLEAN]
    BY <1>2 DEF ProcTypeOK
  <2>2. /\ proc' \in [at : {"down", "refusing", "migrating", "branding", "up"},
                      release : 0..Len(Releases), next : 0..(LATEST_VERSION + 1),
                      pos : Nat, txn : BOOLEAN, rules : 0..Len(Releases),
                      sending : BOOLEAN]
        /\ proc'.at = "branding" /\ proc'.release = proc.release /\ proc'.pos = 1
    <3>1. FALSE \in BOOLEAN /\ 0 \in 0..(LATEST_VERSION + 1) /\ 1 \in Nat
      BY DEF LATEST_VERSION
    <3>2. PICK p : p = [proc EXCEPT !.at = "branding", !.next = 0]
      OBVIOUS
    <3>3. PICK no \in BOOLEAN : no = FALSE
      BY <3>1, Zenon
    <3>4. /\ p \in [at : {"down", "refusing", "migrating", "branding", "up"},
                     release : 0..Len(Releases), next : 0..(LATEST_VERSION + 1),
                     pos : Nat, txn : BOOLEAN, rules : 0..Len(Releases),
                     sending : BOOLEAN]
          /\ p.at = "branding" /\ p.release = proc.release
      BY <2>1, <3>1, <3>2
    <3>5. proc' = [p EXCEPT !.pos = 1, !.txn = no]
      BY <1>1, <2>1, <3>2, <3>3
    <3> QED
      BY <3>1, <3>4, <3>5
  <2> QED
    BY <1>1, <1>2, <2>2 DEF ProcTypeOK
<1>6. Schema' = Schema
  BY <1>5 DEF Schema
<1>7. DiskTypeOK' /\ DiskIsSound' /\ VersionIsTrue' /\ disk'.version <= Schema'
  <2>1. disk'.version \in 21..47 /\ disk'.version = Schema'
    BY <1>1, <1>2, <1>4, <1>6
  <2>2. ~TooOld(disk'.version)
    BY <2>1 DEF TooOld, INITIAL_VERSION
  <2> QED
    BY <1>1, <1>3, <1>4, <2>1, <2>2
    DEF DiskTypeOK, DiskIsSound, VersionIsTrue, LATEST_VERSION
<1>8. MigrationIsExact' /\ SchemaIsWhole'
  BY <1>5 DEF MigrationIsExact, SchemaIsWhole, Up
<1>9. BrandingIsExact'
  <2>1. \A i \in DOMAIN BrandedPages : ~(i < 1)
    BY DEF BrandedPages
  <2>2. disk'.version >= Schema'
    BY <1>1, <1>2, <1>4, <1>6
  <2> QED
    BY <1>5, <2>1, <2>2 DEF BrandingIsExact
<1>10. StopKept(disk, disk')
  BY <1>1, <1>3, KeptIsStopKept
<1> QED
  BY <1>1, <1>2, <1>5, <1>6, <1>7, <1>8, <1>9, <1>10, BootStep

----------------------------------------------------------------------------
(* Branding, triggers, and the start of the story *)

\* The new database has the settings and the texts somebody has chosen.
Chosen(old, new) ==
    /\ \A key \in DOMAIN old.settings \ {"crypto_integration_mode"} :
          key \in DOMAIN new.settings /\ new.settings[key] = old.settings[key]
    /\ \A key \in DOMAIN old.pages :
          old.pages[key].custom = "edited" => new.pages[key].custom = "edited"

\* A branded page is there, and what an administrator has written stays.
LEMMA PageBranded ==
    ASSUME NEW db, NEW key, NEW new, IsDatabase(db),
           new = [db EXCEPT !.pages = _update_page(db.pages, key)]
    PROVE  /\ Edited(db, new) /\ StopKept(db, new)
           /\ Chosen(db, new)
           /\ key \in DOMAIN new.pages
<1> DEFINE old == IF key \in DOMAIN db.pages THEN db.pages[key].custom ELSE "none"
<1>1. PICK page : page = [deflt |-> "wave",
                          custom |-> IF _needs_replacement(old) THEN "wave" ELSE old]
  OBVIOUS
<1>2. PICK x : x = With(db.pages, key, page)
  OBVIOUS
<1>3. _update_page(db.pages, key) = x
  BY <1>1, <1>2 DEF _update_page
<1>4. /\ DOMAIN db.pages \subseteq DOMAIN x /\ key \in DOMAIN x
      /\ x[key] = page
      /\ \A k \in DOMAIN db.pages : k # key => x[k] = db.pages[k]
  BY <1>2 DEF With
<1>5. ASSUME NEW k \in DOMAIN db.pages, db.pages[k].custom = "edited"
      PROVE  x[k].custom = "edited"
  <2>1. CASE k = key
    <3>1. old = "edited" /\ ~_needs_replacement("edited")
      BY <1>5, <2>1 DEF _needs_replacement
    <3>2. page.custom = "edited"
      BY <1>1, <3>1
    <3> QED
      BY <1>4, <2>1, <3>2
  <2>2. CASE k # key
    BY <1>4, <1>5, <2>2
  <2> QED
    BY <2>1, <2>2
<1>6. PICK made : made = [db EXCEPT !.pages = x]
  OBVIOUS
<1>7. made = [version |-> db.version, objects |-> db.objects,
              settings |-> db.settings, pages |-> x, rows |-> db.rows]
  BY <1>6, PartReplaced
<1>8. /\ IsDatabase(made) /\ made.version = db.version /\ made.objects = db.objects
      /\ made.settings = db.settings /\ made.pages = x /\ made.rows = db.rows
  BY <1>7, MadeIsDatabase
<1>9. Edited(db, made) /\ StopKept(db, made)
  BY <1>4, <1>8 DEF Edited, StopKept
<1>10. new = made
  BY <1>3, <1>6
<1>11. Chosen(db, made)
  BY <1>4, <1>5, <1>8 DEF Chosen
<1> QED
  BY <1>4, <1>8, <1>9, <1>10, <1>11

\* What the branding has of the invariant.
LEMMA BrandingFacts ==
    ASSUME IInv, proc.at = "branding"
    PROVE  /\ ~Up /\ ProcTypeOK /\ IsDatabase(disk) /\ proc.pos \in Nat
           /\ Schema \in 21..47 /\ disk.version = Schema
           /\ Schema <= Releases[tree].schema
           /\ disk.rows \in RowsAt(disk.version) /\ Has(disk, disk.version)
           /\ \A i \in DOMAIN BrandedPages :
                 i < proc.pos => BrandedPages[i] \in DOMAIN disk.pages
<1>1. /\ ProcTypeOK /\ DiskTypeOK /\ NeverOlder /\ BrandingIsExact
      /\ DiskIsSound /\ VersionIsTrue
  BY DEF IInv, TypeOK
<1>2. ~Up /\ proc.at # "down" /\ proc.at # "refusing"
  BY DEF Up
<1>3. Schema \in 21..47 /\ disk.version \in 0..47
  BY <1>1, <1>2, SchemaFacts DEF DiskTypeOK, LATEST_VERSION
<1>4. disk.version <= Schema /\ Schema <= Releases[tree].schema
  BY <1>1, <1>2 DEF NeverOlder
<1>5. /\ disk.version >= Schema
      /\ \A i \in DOMAIN BrandedPages :
            i < proc.pos => BrandedPages[i] \in DOMAIN disk.pages
  BY <1>1 DEF BrandingIsExact
<1>6. disk.version = Schema
  BY <1>3, <1>4, <1>5
<1>7. Has(disk, disk.version)
  BY <1>1, <1>3, <1>6 DEF VersionIsTrue, INITIAL_VERSION
<1>8. disk.rows \in RowsAt(disk.version)
  BY <1>1, <1>2 DEF DiskIsSound
<1>9. IsDatabase(disk) /\ proc.pos \in Nat
  BY <1>1 DEF DiskTypeOK, ProcTypeOK
<1> QED
  BY <1>1, <1>2, <1>3, <1>4, <1>5, <1>6, <1>7, <1>8, <1>9

\* What a database of the newest version keeps being when objects and pages
\* are added to it.
LEMMA StaysNewest ==
    ASSUME IInv, proc.at = "branding", Schema' = Schema, proc'.at \in {"branding", "up"},
           Grown(disk, disk'), IsDatabase(disk'), disk'.version = disk.version,
           disk'.rows = disk.rows
    PROVE  DiskTypeOK' /\ DiskIsSound' /\ VersionIsTrue' /\ disk'.version <= Schema'
<1>1. Has(disk', disk'.version) /\ disk'.version \in 21..47 /\ disk'.version = Schema'
  BY BrandingFacts, HasStays
<1>2. disk'.rows \in RowsAt(disk'.version) /\ ~TooOld(disk'.version)
  BY <1>1, BrandingFacts DEF TooOld, INITIAL_VERSION
<1>3. DiskTypeOK'
  BY <1>1 DEF DiskTypeOK, LATEST_VERSION
<1>4. DiskIsSound' /\ VersionIsTrue'
  BY <1>1, <1>2 DEF DiskIsSound, VersionIsTrue
<1> QED
  BY <1>1, <1>3, <1>4

LEMMA Brands == ASSUME IInv, apply_wavemesh_branding_defaults PROVE IInv'
<1>1. /\ proc.at = "branding" /\ proc.pos <= Len(BrandedPages)
      /\ disk' = [disk EXCEPT !.pages = _update_page(@, BrandedPages[proc.pos])]
      /\ proc' = [proc EXCEPT !.pos = @ + 1]
      /\ UNCHANGED <<tree, origin, chat, task, live, told>>
  BY DEF apply_wavemesh_branding_defaults, codeVars, memory, screens
<1>2. PICK key : key = BrandedPages[proc.pos]
  OBVIOUS
<1>3. /\ Edited(disk, disk') /\ StopKept(disk, disk') /\ key \in DOMAIN disk'.pages
  <2>1. IsDatabase(disk) /\ disk' = [disk EXCEPT !.pages = _update_page(disk.pages, key)]
    BY <1>1, <1>2, BrandingFacts
  <2> QED
    BY <2>1, PageBranded
<1>4. PICK n \in Nat : n = proc.pos
  BY <1>1, BrandingFacts
<1>5. /\ proc'.at = "branding" /\ proc'.pos = n + 1 /\ proc'.release = proc.release
      /\ ProcTypeOK'
  <2>1. ProcTypeOK
    BY <1>1, BrandingFacts
  <2>2. proc \in [at : {"down", "refusing", "migrating", "branding", "up"},
                  release : 0..Len(Releases), next : 0..(LATEST_VERSION + 1),
                  pos : Nat, txn : BOOLEAN, rules : 0..Len(Releases),
                  sending : BOOLEAN]
    BY <2>1 DEF ProcTypeOK
  <2>3. n + 1 \in Nat /\ proc' = [proc EXCEPT !.pos = n + 1]
    BY <1>1, <1>4
  <2>4. /\ proc' \in [at : {"down", "refusing", "migrating", "branding", "up"},
                      release : 0..Len(Releases), next : 0..(LATEST_VERSION + 1),
                      pos : Nat, txn : BOOLEAN, rules : 0..Len(Releases),
                      sending : BOOLEAN]
        /\ proc'.at = proc.at /\ proc'.pos = n + 1 /\ proc'.release = proc.release
    BY <2>2, <2>3
  <2> QED
    BY <1>1, <2>1, <2>4 DEF ProcTypeOK
<1>6. Schema' = Schema /\ ~Up'
  BY <1>5 DEF Schema, Up
<1>7. DiskTypeOK' /\ DiskIsSound' /\ VersionIsTrue' /\ disk'.version <= Schema'
  BY <1>1, <1>3, <1>5, <1>6, GrownWhenEdited, StaysNewest DEF Edited
<1>8. BrandingIsExact'
  <2>1. disk'.version >= Schema'
    <3>1. Schema \in 21..47 /\ disk.version = Schema
      BY <1>1, BrandingFacts
    <3>2. disk'.version = disk.version
      BY <1>3 DEF Edited
    <3> QED
      BY <1>6, <3>1, <3>2
  <2>2. ASSUME NEW i \in DOMAIN BrandedPages, i < n + 1
        PROVE  BrandedPages[i] \in DOMAIN disk'.pages
    <3>1. i \in Nat
      BY DEF BrandedPages
    <3>2. CASE i = n
      BY <1>2, <1>3, <1>4, <3>2
    <3>3. CASE i < n
      <4>1. BrandedPages[i] \in DOMAIN disk.pages
        BY <1>1, <1>4, <3>3, BrandingFacts
      <4> QED
        BY <1>3, <4>1 DEF Edited
    <3> QED
      BY <2>2, <3>1, <3>2, <3>3
  <2> QED
    BY <1>5, <2>1, <2>2 DEF BrandingIsExact
<1>9. MigrationIsExact' /\ SchemaIsWhole'
  BY <1>5, <1>6 DEF MigrationIsExact, SchemaIsWhole
<1>10. /\ ~Up /\ proc'.at # "down" /\ Schema' <= Releases[tree].schema
  BY <1>1, <1>5, <1>6, BrandingFacts
<1> QED
  BY <1>1, <1>3, <1>5, <1>7, <1>8, <1>9, <1>10, BootStep

\* The process serves from here: all of SchemaIsWhole has to be there.
LEMMA MakesTriggers == ASSUME IInv, ensure_access_shadow_outbox_triggers PROVE IInv'
<1>1. /\ proc.at = "branding" /\ proc.pos > Len(BrandedPages)
      /\ disk' = [disk EXCEPT !.objects = @ \union Triggers]
      /\ proc' = [proc EXCEPT !.at = "up", !.pos = 0]
      /\ UNCHANGED <<tree, origin, chat, task, live, told>>
  BY DEF ensure_access_shadow_outbox_triggers, codeVars, memory, screens
<1>2. /\ IsDatabase(disk') /\ disk'.version = disk.version
      /\ disk'.objects = disk.objects \union Triggers
      /\ disk'.settings = disk.settings /\ disk'.pages = disk.pages
      /\ disk'.rows = disk.rows
  <2>1. PICK o : o = disk.objects \union Triggers
    OBVIOUS
  <2>2. disk' = [disk EXCEPT !.objects = o]
    BY <1>1, <2>1
  <2>3. disk' = [version |-> disk.version, objects |-> o, settings |-> disk.settings,
                 pages |-> disk.pages, rows |-> disk.rows]
    BY <1>1, <2>2, BrandingFacts, PartReplaced
  <2>4. /\ IsDatabase(disk') /\ disk'.version = disk.version /\ disk'.objects = o
        /\ disk'.settings = disk.settings /\ disk'.pages = disk.pages
        /\ disk'.rows = disk.rows
    BY <2>3, MadeIsDatabase
  <2> QED
    BY <2>1, <2>4
<1>3. Grown(disk, disk') /\ StopKept(disk, disk')
  BY <1>2 DEF Grown, StopKept
<1>4. /\ proc'.at = "up" /\ proc'.release = proc.release /\ ProcTypeOK'
  <2>1. ProcTypeOK
    BY <1>1, BrandingFacts
  <2>2. proc \in [at : {"down", "refusing", "migrating", "branding", "up"},
                  release : 0..Len(Releases), next : 0..(LATEST_VERSION + 1),
                  pos : Nat, txn : BOOLEAN, rules : 0..Len(Releases),
                  sending : BOOLEAN]
    BY <2>1 DEF ProcTypeOK
  <2>3. /\ proc' \in [at : {"down", "refusing", "migrating", "branding", "up"},
                      release : 0..Len(Releases), next : 0..(LATEST_VERSION + 1),
                      pos : Nat, txn : BOOLEAN, rules : 0..Len(Releases),
                      sending : BOOLEAN]
        /\ proc'.at = "up" /\ proc'.release = proc.release
    BY <1>1, <2>2
  <2> QED
    BY <1>1, <2>1, <2>3 DEF ProcTypeOK
<1>5. Schema' = Schema /\ Up'
  BY <1>4 DEF Schema, Up
<1>6. DiskTypeOK' /\ DiskIsSound' /\ VersionIsTrue' /\ disk'.version <= Schema'
  BY <1>1, <1>2, <1>3, <1>4, <1>5, StaysNewest
<1>7. SchemaIsWhole'
  <2>1. disk'.version >= Schema' /\ Triggers \subseteq disk'.objects
    <3>1. Schema \in 21..47 /\ disk.version = Schema
      BY <1>1, BrandingFacts
    <3> QED
      BY <1>2, <1>5, <3>1
  <2>2. \A i \in DOMAIN BrandedPages : BrandedPages[i] \in DOMAIN disk'.pages
    <3>1. \A i \in DOMAIN BrandedPages : i < proc.pos
      <4>1. DOMAIN BrandedPages = 1..7 /\ Len(BrandedPages) = 7
        BY DEF BrandedPages
      <4>2. proc.pos \in Nat
        BY <1>1, BrandingFacts
      <4> QED
        BY <1>1, <4>1, <4>2
    <3> QED
      BY <1>1, <1>2, <3>1, BrandingFacts
  <2>3. ASSUME disk'.version >= 25 PROVE disk'.rows = NewestRows
    <3>1. disk.version \in 25..47
      <4>1. Schema \in 21..47 /\ disk.version = Schema
        BY <1>1, BrandingFacts
      <4> QED
        BY <1>2, <2>3, <4>1
    <3>2. RowsAt(disk.version) = {NewestRows}
      BY <3>1, RowsOfVersions
    <3> QED
      BY <1>1, <1>2, <3>2, BrandingFacts
  <2> QED
    BY <2>1, <2>2, <2>3 DEF SchemaIsWhole, Schema
<1>8. MigrationIsExact' /\ BrandingIsExact'
  BY <1>4 DEF MigrationIsExact, BrandingIsExact
<1>9. /\ ~Up /\ proc'.at # "down" /\ Schema' <= Releases[tree].schema
  BY <1>1, <1>4, <1>5, BrandingFacts
<1> QED
  BY <1>1, <1>3, <1>4, <1>6, <1>7, <1>8, <1>9, BootStep

LEMMA InitHolds == ASSUME Init PROVE IInv
<1>1. /\ disk \in OldDatabases /\ proc = Down /\ tree = 1 /\ origin \in DOMAIN Releases
      /\ chat = [a \in Admins |-> 0] /\ task = [a \in Admins |-> NoTask]
      /\ live = [a \in Admins |-> NoBroadcast] /\ ~told
  BY DEF Init
<1>2. proc.at = "down" /\ ProcTypeOK
  BY <1>1, ReleaseFacts DEF Down, ProcTypeOK, LATEST_VERSION
<1>3. ~Up
  BY <1>2 DEF Up
<1>4. CodeTypeOK /\ origin \in Nat
  BY <1>1, ReleaseFacts DEF CodeTypeOK
<1>5. MemoryTypeOK
  <2>1. Receivers \in Nat
    BY UpkeepAssumption DEF UpkeepAssumption
  <2>2. /\ NoTask \in [at : {"idle", "checking", "pulling", "overwriting", "pulled",
                             "restarting"}, to : 0..origin]
        /\ NoBroadcast \in [at : {"none", "checking", "sending", "ending"},
                            left : 0..Receivers]
        /\ NoBroadcast.at = "none"
    BY <1>4, <2>1 DEF NoTask, NoBroadcast
  <2>3. chat \in [Admins -> 0..origin]
    BY <1>1, <1>4
  <2>4. task \in [Admins ->
                    [at : {"idle", "checking", "pulling", "overwriting", "pulled",
                           "restarting"}, to : 0..origin]]
    BY <1>1, <2>2
  <2>5. /\ live \in [Admins -> [at : {"none", "checking", "sending", "ending"},
                                left : 0..Receivers]]
        /\ \A a \in Admins : live[a].at = "none"
    BY <1>1, <2>2
  <2> QED
    BY <2>3, <2>4, <2>5 DEF MemoryTypeOK
<1>6. /\ DiskTypeOK /\ disk.version <= Releases[1].schema /\ DiskIsSound /\ VersionIsTrue
  <2>1. Releases[1].schema \in 21..47
    BY <1>1, <1>4, ReleaseFacts DEF CodeTypeOK
  <2>2. CASE disk = Empty
    <3>1. /\ IsDatabase(disk) /\ disk.version = 0 /\ disk.rows = << >>
      BY <2>2, MadeIsDatabase DEF Empty
    <3>2. disk.rows \in RowsAt(disk.version) /\ ~TooOld(disk.version)
      BY <3>1, RowsOfVersions DEF TooOld, INITIAL_VERSION
    <3>3. DiskTypeOK /\ DiskIsSound
      BY <3>1, <3>2 DEF DiskTypeOK, DiskIsSound, LATEST_VERSION
    <3>4. VersionIsTrue
      BY <3>1 DEF VersionIsTrue, INITIAL_VERSION
    <3>5. disk.version <= Releases[1].schema
      <4>1. disk.version = 0
        BY <3>1
      <4> QED
        BY <2>1, <4>1
    <3> QED
      BY <3>3, <3>4, <3>5
  <2>3. CASE IsDatabase(disk) /\ TooOld(disk.version)
    <3>1. disk.version \in 1..20
      BY <2>3 DEF TooOld, INITIAL_VERSION
    <3> QED
      BY <1>2, <2>1, <2>3, <3>1
      DEF DiskTypeOK, DiskIsSound, VersionIsTrue, INITIAL_VERSION, LATEST_VERSION
  <2>4. CASE IsOldDatabase(disk) /\ disk.version <= Releases[1].schema
    <3>1. /\ IsDatabase(disk) /\ disk.version \in 21..47 /\ Has(disk, disk.version)
          /\ disk.rows \in RowsAt(disk.version)
      BY <2>4 DEF IsOldDatabase, INITIAL_VERSION, LATEST_VERSION
    <3>2. ~TooOld(disk.version)
      BY <3>1 DEF TooOld, INITIAL_VERSION
    <3> QED
      BY <2>4, <3>1, <3>2 DEF DiskTypeOK, DiskIsSound, VersionIsTrue, LATEST_VERSION
  <2> QED
    BY <1>1, <2>2, <2>3, <2>4, UpkeepAssumption DEF UpkeepAssumption
<1>7. MemoryIsLost /\ NeverOlder /\ PromiseIsKept
  BY <1>1, <1>2, <1>6 DEF MemoryIsLost, NeverOlder, PromiseIsKept
<1>8. MigrationIsExact /\ BrandingIsExact /\ SchemaIsWhole
  BY <1>2, <1>3 DEF MigrationIsExact, BrandingIsExact, SchemaIsWhole
<1> QED
  BY <1>2, <1>4, <1>5, <1>6, <1>7, <1>8 DEF IInv, TypeOK

----------------------------------------------------------------------------
(* Every step *)

LEMMA StartingHolds == ASSUME IInv, Starting PROVE IInv'
<1>1. CASE Start
  BY <1>1, Starts
<1>2. CASE ExecuteStatement
  BY <1>2, Executes
<1>3. CASE RecordVersion
  BY <1>3, Records
<1>4. CASE CommitMigrations
  BY <1>4, Commits
<1>5. CASE apply_wavemesh_branding_defaults
  BY <1>5, Brands
<1>6. CASE ensure_access_shadow_outbox_triggers
  BY <1>6, MakesTriggers
<1>7. CASE Crash
  BY <1>7, Stops
<1> QED
  BY <1>1, <1>2, <1>3, <1>4, <1>5, <1>6, <1>7 DEF Starting

LEMMA ConfiguringHolds == ASSUME IInv, Configuring PROVE IInv'
BY SetBotMode, UpdatePageCustom DEF Configuring

LEMMA UpdatingHolds == ASSUME IInv, Updating PROVE IInv'
<1>1. CASE Publish
  BY <1>1, Publishes
<1>2. CASE Comply
  BY <1>2, Complies
<1>3. CASE check_and_notify_updates
  BY <1>3, CheckAndNotify
<1>4. CASE admin_stop_bot_confirm
  BY <1>4, Stops
<1>5. ASSUME NEW a \in Admins,
             \/ show_update_confirm(a) \/ check_for_updates(a)
             \/ update_bot_confirmed(a) \/ pull_to_commit(a)
      PROVE  IInv'
  BY <1>5, ShowUpdateConfirm, CheckForUpdates, UpdateBotConfirmed, PullToCommit
<1>6. ASSUME NEW a \in Admins,
             \/ admin_update_cmd(a) \/ force_overwrite_confirmed(a)
             \/ CrashAfterReset(a) \/ pull_updates(a)
      PROVE  IInv'
  BY <1>6, Overwrites, CrashesAfterReset, PullUpdates
<1>7. ASSUME NEW a \in Admins,
             \/ PullFails(a) \/ UpdateShown(a)
             \/ install_requirements_fails(a) \/ restart_bot(a)
      PROVE  IInv'
  BY <1>7, TaskEnds, UpdateIsShown, Stops
<1> QED
  BY <1>1, <1>2, <1>3, <1>4, <1>5, <1>6, <1>7 DEF Updating

LEMMA BroadcastingHolds == ASSUME IInv, Broadcasting PROVE IInv'
<1>1. CASE request_broadcast_stop_or_reset
  BY <1>1, RequestStop
<1>2. ASSUME NEW a \in Admins,
             \/ broadcast_confirm(a) \/ SendNext(a) \/ Sent(a) \/ ReportFails(a)
             \/ finish_broadcast_state(a)
      PROVE  IInv'
  BY <1>2, BroadcastConfirm, SendsNext, IsSent, FinishBroadcast
<1> QED
  BY <1>1, <1>2 DEF Broadcasting

LEMMA NothingHappens == ASSUME IInv, UNCHANGED vars PROVE IInv'
<1>1. UNCHANGED <<disk, work, proc, tree, origin, chat, task, told, live>>
  BY DEF vars
<1>2. TypeOK'
  BY <1>1
  DEF IInv, TypeOK, CodeTypeOK, ProcTypeOK, MemoryTypeOK, DiskTypeOK
<1>3. MemoryIsLost' /\ NeverOlder' /\ PromiseIsKept' /\ DiskIsSound'
  BY <1>1 DEF IInv, MemoryIsLost, NeverOlder, PromiseIsKept, DiskIsSound, Up, Schema,
              is_broadcast_stop_requested, Flag
<1>4. VersionIsTrue' /\ MigrationIsExact' /\ BrandingIsExact' /\ SchemaIsWhole'
  BY <1>1 DEF IInv, VersionIsTrue, MigrationIsExact, BrandingIsExact, SchemaIsWhole,
              Executed, LaidOut, Up, Schema
<1> QED
  BY <1>2, <1>3, <1>4 DEF IInv

LEMMA StepHolds == ASSUME IInv, [Next]_vars PROVE IInv'
BY StartingHolds, ConfiguringHolds, UpdatingHolds, BroadcastingHolds, NothingHappens
DEF Next

----------------------------------------------------------------------------
(* What holds of every installation *)

\* The inductive invariant holds at every moment: run_migrations, the branding
\* and the triggers of a startup a crash may end between any two statements,
\* the handlers of the updates and of the broadcasts.
THEOREM InvariantHolds == Spec => []IInv
BY InitHolds, StepHolds, PTL DEF Spec

\* The types of what the process, its handlers, the working tree and the
\* database hold, through every start, update and broadcast.
THEOREM TypeCorrect == Spec => []TypeOK
<1>1. IInv => TypeOK
  BY DEF IInv
<1> QED
  BY <1>1, InvariantHolds, PTL

\* The version number of the committed database never runs ahead of what the
\* database has, wherever a crash ends run_migrations.
THEOREM VersionHolds == Spec => []VersionIsTrue
<1>1. IInv => VersionIsTrue
  BY DEF IInv
<1> QED
  BY <1>1, InvariantHolds, PTL

\* on_startup lets a process serve only on a database that is complete for its
\* release, whichever database it found and however often it had to begin again.
THEOREM SchemaHolds == Spec => []SchemaIsWhole
<1>1. IInv => SchemaIsWhole
  BY DEF IInv
<1> QED
  BY <1>1, InvariantHolds, PTL

\* No reset to a blocking commit that update_bot_confirmed takes from the
\* conversation data makes a release run that is older than its database.
THEOREM NoDowngradeHolds == Spec => []NoDowngrade
<1>1. IInv => NoDowngrade
  BY DEF IInv, NeverOlder, NoDowngrade, Schema
<1> QED
  BY <1>1, InvariantHolds, PTL

----------------------------------------------------------------------------
(* What no step may do *)

LEMMA KeptIsChosen ==
    ASSUME NEW old, NEW new, Kept(old, new) PROVE Chosen(old, new)
BY DEF Kept, Chosen

\* Handlers run in a process that serves.
LEMMA HandlersAreUp ==
    ASSUME IInv, Configuring \/ Updating \/ Broadcasting, ~Up
    PROVE  disk' = disk
<1>1. CASE Configuring
  BY <1>1 DEF Configuring, admin_set_bot_mode, update_page_custom, About
<1>2. CASE Updating
  <2>1. Publish => disk' = disk
    BY DEF Publish
  <2>2. ~Comply /\ ~check_and_notify_updates /\ ~admin_stop_bot_confirm
    BY DEF Comply, check_and_notify_updates, admin_stop_bot_confirm, About
  <2>3. ASSUME NEW a
        PROVE  /\ ~show_update_confirm(a) /\ ~check_for_updates(a)
               /\ ~update_bot_confirmed(a) /\ ~admin_update_cmd(a)
               /\ ~force_overwrite_confirmed(a) /\ ~pull_to_commit(a)
    BY DEF show_update_confirm, check_for_updates, update_bot_confirmed,
           admin_update_cmd, force_overwrite_confirmed, pull_to_commit, About
  <2>4. ASSUME NEW a
        PROVE  /\ ~CrashAfterReset(a) /\ ~pull_updates(a) /\ ~PullFails(a)
               /\ ~UpdateShown(a) /\ ~install_requirements_fails(a) /\ ~restart_bot(a)
    BY DEF CrashAfterReset, pull_updates, PullFails, UpdateShown,
           install_requirements_fails, restart_bot
  <2> QED
    BY <1>2, <2>1, <2>2, <2>3, <2>4 DEF Updating
<1>3. CASE Broadcasting
  <2>1. ~request_broadcast_stop_or_reset
    BY DEF request_broadcast_stop_or_reset, About
  <2>2. ASSUME NEW a \in Admins PROVE ~broadcast_confirm(a)
    BY DEF broadcast_confirm, About
  <2>3. ASSUME NEW a \in Admins PROVE live[a].at = "none"
    BY LoopIsUp
  <2>4. ASSUME NEW a \in Admins
        PROVE  ~SendNext(a) /\ ~Sent(a) /\ ~ReportFails(a) /\ ~finish_broadcast_state(a)
    BY <2>3 DEF SendNext, Sent, ReportFails, finish_broadcast_state
  <2> QED
    BY <1>3, <2>1, <2>2, <2>4 DEF Broadcasting
<1> QED
  BY <1>1, <1>2, <1>3

LEMMA StartingChooses == ASSUME IInv, Starting PROVE Chosen(disk, disk')
<1>1. CASE Start \/ RecordVersion \/ Crash
  <2>1. disk' = disk
    BY <1>1 DEF Start, RecordVersion, Crash
  <2> QED
    BY <2>1, KeptItself, KeptIsChosen
<1>2. CASE ExecuteStatement
  <2>1. /\ Building /\ proc.pos <= Len(Step[proc.next])
        /\ work' = Apply(work, Step[proc.next][proc.pos])
        /\ disk' = IF proc.txn \/ ~IsDDL(Step[proc.next][proc.pos]) THEN disk ELSE work'
    BY <1>2 DEF ExecuteStatement
  <2>2. IsDatabase(work) /\ Kept(disk, work)
    BY <2>1, MigratingFacts
  <2>3. IsStatement(Step[proc.next][proc.pos])
    <3>1. proc.next \in 21..47 /\ proc.pos \in Nat \ {0}
      BY <2>1, MigratingFacts
    <3>2. DOMAIN Step[proc.next] = 1..Len(Step[proc.next]) /\ Len(Step[proc.next]) \in Nat
      BY <3>1, StepStatements, ProgramShape
    <3>3. proc.pos \in DOMAIN Step[proc.next]
      BY <2>1, <3>1, <3>2
    <3> QED
      BY <3>1, <3>3, StepStatements
  <2>4. CASE disk' = disk
    BY <2>4, KeptItself, KeptIsChosen
  <2>5. CASE disk' = work'
    <3>1. Kept(work, disk')
      BY <2>1, <2>2, <2>3, <2>5, StatementEffect DEF Effect
    <3>2. Kept(disk, disk')
      BY <2>2, <3>1, KeptTransitive
    <3> QED
      BY <3>2, KeptIsChosen
  <2> QED
    BY <2>1, <2>4, <2>5
<1>3. CASE CommitMigrations
  <2>1. Kept(disk, work) /\ disk' = work
    BY <1>3 DEF CommitMigrations, IInv, MigrationIsExact
  <2> QED
    BY <2>1, KeptIsChosen
<1>4. CASE apply_wavemesh_branding_defaults
  <2>1. /\ proc.at = "branding"
        /\ disk' = [disk EXCEPT !.pages = _update_page(@, BrandedPages[proc.pos])]
    BY <1>4 DEF apply_wavemesh_branding_defaults
  <2>2. PICK key : disk' = [disk EXCEPT !.pages = _update_page(disk.pages, key)]
    BY <2>1
  <2>3. IsDatabase(disk)
    BY <2>1, BrandingFacts
  <2> QED
    BY <2>2, <2>3, PageBranded
<1>5. CASE ensure_access_shadow_outbox_triggers
  <2>1. proc.at = "branding" /\ disk' = [disk EXCEPT !.objects = @ \union Triggers]
    BY <1>5 DEF ensure_access_shadow_outbox_triggers
  <2>2. PICK o : o = disk.objects \union Triggers
    OBVIOUS
  <2>3. disk' = [version |-> disk.version, objects |-> o, settings |-> disk.settings,
                 pages |-> disk.pages, rows |-> disk.rows]
    BY <2>1, <2>2, BrandingFacts, PartReplaced
  <2>4. disk'.settings = disk.settings /\ disk'.pages = disk.pages
    BY <2>3, MadeIsDatabase
  <2> QED
    BY <2>4 DEF Chosen
<1> QED
  BY <1>1, <1>2, <1>3, <1>4, <1>5 DEF Starting

\* The INSERT OR IGNOREs and UPDATEs of the migrations, whether durable at once
\* or with the commit, and the branding leave every choice of an administrator.
THEOREM ChoicesHold == Spec => ChoicesStand
<1> DEFINE Stand ==
      ~Up => /\ \A key \in DOMAIN disk.settings \ {"crypto_integration_mode"} :
                   /\ key \in DOMAIN disk'.settings
                   /\ disk'.settings[key] = disk.settings[key]
             /\ \A key \in DOMAIN disk.pages :
                   disk.pages[key].custom = "edited" =>
                       disk'.pages[key].custom = "edited"
<1>1. IInv /\ [Next]_vars => [Stand]_vars
  <2> SUFFICES ASSUME IInv, Next, ~Up PROVE Chosen(disk, disk')
    BY DEF Stand, Chosen
  <2>1. CASE Starting
    BY <2>1, StartingChooses
  <2>2. CASE Configuring \/ Updating \/ Broadcasting
    BY <2>2, HandlersAreUp, KeptItself, KeptIsChosen
  <2> QED
    BY <2>1, <2>2 DEF Next
<1>2. Spec => [][Stand]_vars
  BY <1>1, InvariantHolds, PTL DEF Spec
<1> QED
  BY <1>2, PTL DEF ChoicesStand, Stand

----------------------------------------------------------------------------
(* The promise of the stop button *)

\* A loop that goes anywhere but to a message.
LEMMA NoneBegins ==
    ASSUME IInv, NEW a \in Admins, NEW loop, loop.at # "sending",
           live' = [live EXCEPT ![a] = loop]
    PROVE  \A b \in Admins : live'[b].at = "sending" => live[b].at = "sending"
<1>1. \A b \in Admins : live'[b] = IF b = a THEN loop ELSE live[b]
  BY DEF IInv, TypeOK, MemoryTypeOK
<1> QED
  BY <1>1

LEMMA StopSurvives ==
    ASSUME IInv, Next, told
    PROVE  \A b \in Admins : live'[b].at = "sending" => live[b].at = "sending"
<1>1. CASE live' = live
  BY <1>1
<1>2. CASE live' = [b \in Admins |-> NoBroadcast]
  BY <1>2 DEF NoBroadcast
<1>3. ASSUME NEW a \in Admins, broadcast_confirm(a)
      PROVE  \A b \in Admins : live'[b].at = "sending" => live[b].at = "sending"
  BY <1>3, NoneBegins DEF broadcast_confirm
<1>4. ASSUME NEW a \in Admins, finish_broadcast_state(a)
      PROVE  \A b \in Admins : live'[b].at = "sending" => live[b].at = "sending"
  BY <1>4, NoneBegins DEF finish_broadcast_state, NoBroadcast
<1>5. ASSUME NEW a \in Admins, Sent(a)
      PROVE  \A b \in Admins : live'[b].at = "sending" => live[b].at = "sending"
  <2>1. PICK step \in {"checking", "ending"} :
           live' = [live EXCEPT ![a] = [at |-> step, left |-> live[a].left - 1]]
    BY <1>5 DEF Sent
  <2>2. PICK loop : loop = [at |-> step, left |-> live[a].left - 1]
    OBVIOUS
  <2>3. loop.at # "sending" /\ live' = [live EXCEPT ![a] = loop]
    BY <2>1, <2>2
  <2> QED
    BY <2>3, NoneBegins
<1>6. ASSUME NEW a \in Admins, SendNext(a) \/ ReportFails(a)
      PROVE  \A b \in Admins : live'[b].at = "sending" => live[b].at = "sending"
  <2>1. is_broadcast_stop_requested
    BY DEF IInv, PromiseIsKept
  <2>2. live' = [live EXCEPT ![a].at = "ending"]
    BY <1>6, <2>1 DEF SendNext, ReportFails
  <2>3. PICK loop : loop = [live[a] EXCEPT !.at = "ending"]
    OBVIOUS
  <2>4. loop.at = "ending" /\ live' = [live EXCEPT ![a] = loop]
    BY <2>2, <2>3, LoopType
  <2> QED
    BY <2>4, NoneBegins
<1>7. CASE Starting
  <2>1. live' = live \/ live' = [b \in Admins |-> NoBroadcast]
    BY <1>7 DEF Starting, Start, ExecuteStatement, RecordVersion, CommitMigrations,
                apply_wavemesh_branding_defaults, ensure_access_shadow_outbox_triggers,
                Crash, LoseMemory, memory
  <2> QED
    BY <1>1, <1>2, <2>1
<1>8. CASE Configuring
  BY <1>1, <1>8 DEF Configuring, admin_set_bot_mode, update_page_custom, memory
<1>9. CASE Updating
  <2>1. Publish \/ Comply \/ check_and_notify_updates => live' = live
    BY DEF Publish, Comply, check_and_notify_updates, memory
  <2>2. ASSUME NEW a
        PROVE  \/ show_update_confirm(a) \/ check_for_updates(a)
               \/ update_bot_confirmed(a) \/ admin_update_cmd(a)
               \/ force_overwrite_confirmed(a) \/ pull_to_commit(a)
               => live' = live
    BY DEF show_update_confirm, check_for_updates, update_bot_confirmed,
           admin_update_cmd, force_overwrite_confirmed, pull_to_commit
  <2>3. ASSUME NEW a
        PROVE  \/ pull_updates(a) \/ PullFails(a) \/ UpdateShown(a)
               \/ install_requirements_fails(a)
               => live' = live
    BY DEF pull_updates, PullFails, UpdateShown, install_requirements_fails
  <2>4. ASSUME NEW a
        PROVE  admin_stop_bot_confirm \/ CrashAfterReset(a) \/ restart_bot(a)
               => live' = [b \in Admins |-> NoBroadcast]
    BY DEF admin_stop_bot_confirm, CrashAfterReset, restart_bot, LoseMemory
  <2> QED
    BY <1>1, <1>2, <1>9, <2>1, <2>2, <2>3, <2>4 DEF Updating
<1>10. CASE Broadcasting
  <2>1. request_broadcast_stop_or_reset => live' = live
    BY DEF request_broadcast_stop_or_reset, memory
  <2> QED
    BY <1>1, <1>3, <1>4, <1>5, <1>6, <1>10, <2>1 DEF Broadcasting
<1> QED
  BY <1>7, <1>8, <1>9, <1>10 DEF Next

\* After request_broadcast_stop_or_reset has told an administrator that the
\* broadcast stops before its next message, no loop that runs begins another
\* one, whoever acts in between and whatever crashes.
THEOREM StopHolds == Spec => StopHeeded
<1> DEFINE Heeded == told => \A a \in Admins :
                                live'[a].at = "sending" => live[a].at = "sending"
<1>1. IInv /\ [Next]_vars => [Heeded]_vars
  BY StopSurvives DEF Heeded
<1>2. Spec => [][Heeded]_vars
  BY <1>1, InvariantHolds, PTL DEF Spec
<1> QED
  BY <1>2, PTL DEF StopHeeded, Heeded
=============================================================================
