------------------------------ MODULE PanelsProofs ------------------------------
(***************************************************************************)
(* The safety of PanelsProps for any keys, servers and inbounds, both APIs *)
(* of a panel, and any number of screens, operations, failing calls and    *)
(* replacements.                                                           *)
(***************************************************************************)
EXTENDS PanelsProps, TLAPS, WellFoundedInduction

-----------------------------------------------------------------------------
(* Values                                                                  *)

LEMMA NatLeast ==
    ASSUME NEW S, S \subseteq Nat, S # {}
    PROVE  Least(S) \in S
<1> DEFINE R == OpToRel(<, Nat)
<1>1. IsWellFoundedOn(R, Nat)
  BY NatLessThanWellFounded
<1>2. \A x, y \in Nat : <<y, x>> \in R <=> y < x
  BY DEF OpToRel
<1> HIDE DEF R
<1>3. PICK x \in S : \A y \in S : ~(<<y, x>> \in R)
  BY <1>1, WFMin
<1>4. \A y \in S : ~(y < x)
  BY <1>2, <1>3
<1>5. \A y \in S : x <= y
  BY <1>4
<1> QED BY <1>5 DEF Least

LEMMA LeastInbound ==
    ASSUME NEW S, S \subseteq Inbounds, S # {}
    PROVE  Least(S) \in S
BY KeyBookAssumption, NatLeast

LEMMA LeastOfOne == ASSUME NEW m \in Inbounds PROVE Least({m}) = m
BY LeastInbound

LEMMA PlacesOfSync ==
    /\ {"list", "drop", "fill", "trim", "reset", "set"} \subseteq Places
    /\ {"rest", "lock", "next", "poll", "write", "warn", "cycle", "compare", "confirm",
        "make", "unmake", "forget", "delete", "erase", "sweep", "missing"} \subseteq Places
    /\ Inside = {"list", "drop", "fill", "trim", "reset", "set"}
    /\ Writing = {"drop", "fill", "trim", "reset", "set"}
BY DEF Places, Inside, Writing, Aiming

LEMMA DaysNat == 0 \in Moments /\ \A d \in 0 .. MaxTime : d \in Moments
BY KeyBookAssumption DEF Moments

LEMMA OrNoneIs == \A S : None \in OrNone(S) /\ S \subseteq OrNone(S)
BY DEF OrNone

\* The locals of a coroutine that rests.
LEMMA RestForm == Rest \in Task /\ Rest.at = "rest"
<1>1. "rest" \in Places /\ 0 \in Moments
  BY PlacesOfSync, DaysNat
<1>2. \A S : None \in OrNone(S)
  BY OrNoneIs
<1>3. "plain" \in Kinds /\ "rest" \in {"rest", "cycle", "unmake"}
  BY DEF Kinds
<1> QED BY <1>1, <1>2, <1>3 DEF Rest, Task

\* A synchronisation that ends leaves its key and its errors to the caller.
LEMMA OverForm ==
    ASSUME NEW task \in Task
    PROVE  /\ Over(task) \in Task /\ Over(task).at = "next"
           /\ Over(task).key = task.key /\ Over(task).bad = task.bad
<1>1. "next" \in Places /\ 0 \in Moments
  BY PlacesOfSync, DaysNat
<1>2. /\ None \in OrNone(Row \cup Servers) /\ None \in OrNone(Presences)
      /\ None \in OrNone(Modes) /\ None \in OrNone(Client)
      /\ {} \in SUBSET Inbounds
  BY OrNoneIs
<1>3. PICK a : a = [task EXCEPT !.at = "next", !.row = None, !.ban = FALSE, !.here = None,
                                !.by = None]
  OBVIOUS
<1>4. a \in Task /\ a.at = "next" /\ a.key = task.key /\ a.bad = task.bad
  BY <1>1, <1>2, <1>3 DEF Task
<1>5. PICK b : b = [a EXCEPT !.aim = None, !.expiry = 0, !.left = {}]
  OBVIOUS
<1>6. b \in Task /\ b.at = "next" /\ b.key = task.key /\ b.bad = task.bad
  BY <1>1, <1>2, <1>4, <1>5 DEF Task
<1>7. Over(task) = [b EXCEPT !.fresh = {}, !.reset = FALSE]
  BY <1>3, <1>5 DEF Over
<1> QED BY <1>2, <1>6, <1>7 DEF Task

Reads(task, row, ban) == [task EXCEPT !.at = "list", !.row = row, !.ban = ban, !.bad = FALSE]

LEMMA ReadsForm ==
    ASSUME NEW task \in Task, NEW row \in Row, NEW ban \in BOOLEAN
    PROVE  /\ Reads(task, row, ban) \in Task /\ Reads(task, row, ban).at = "list"
           /\ Reads(task, row, ban).key = task.key /\ Reads(task, row, ban).row = row
<1>1. "list" \in Places /\ row \in OrNone(Row \cup Servers)
  BY PlacesOfSync, OrNoneIs
<1> QED BY <1>1 DEF Reads, Task

-----------------------------------------------------------------------------
(* Steps in general                                                        *)

PanelSet == [Servers -> [Inbounds -> [Emails -> OrNone(Client)]]]
Terms == [Keys -> 0 .. MaxTime]
Givens == [Emails -> {"never", "in term", "late"}]

\* A term that was paid stays paid, an address that was given stays given.
PaidWell == paid' \in Terms /\ \A k \in Keys : paid[k] <= paid'[k]
GivenWell == given' \in Givens /\ \A e \in Emails : given[e] # "never" => given'[e] = given[e]

\* Clients are made or written at one address only; others may be deleted.
OnlyAt(e) ==
    /\ panel' \in PanelSet
    /\ \A s \in Servers, i \in Inbounds, f \in Emails \ {e} : panel'[s][i][f] \in {panel[s][i][f], None}
Shrinks ==
    /\ panel' \in PanelSet
    /\ \A s \in Servers, i \in Inbounds, f \in Emails : panel'[s][i][f] \in {panel[s][i][f], None}

\* A row keeps its address or gets the one that t has in hand.
RowsWell(t) ==
    /\ rows' \in [Keys -> OrNone(Row)]
    /\ \A k \in Keys : RowTrue(k)'
    /\ \A k \in Keys : rows'[k] # None =>
          \/ rows[k] # None /\ rows'[k].email = rows[k].email
          \/ Known(tasks[t]) /\ rows'[k].email = tasks[t].row.email

EnvWell ==
    /\ banned' \subseteq Keys /\ now' \in 0 .. MaxTime /\ mode' \in Modes
    /\ meter' \in [Servers -> [Emails -> 0 .. Limit]]
    /\ remembered' \subseteq Keys /\ ops' \subseteq Ops /\ slips' \in 0 .. MaxSlips

LEMMA DaysAreNat == 0 .. MaxTime \subseteq Nat /\ Moments \subseteq Nat /\ Day \in Nat
BY KeyBookAssumption DEF Moments

LEMMA RowForm ==
    ASSUME NEW row \in Row
    PROVE  /\ row.server \in Servers /\ row.email \in Emails /\ row.main \in Inbounds
           /\ row.until \in Nat /\ row.until \in 0 .. MaxTime /\ row.until \in Moments
           /\ row.email[1] \in Keys
<1>1. row.until \in 0 .. MaxTime /\ row.email \in Emails /\ row.server \in Servers /\ row.main \in Inbounds
  BY DEF Row
<1>2. row.until \in Nat /\ row.until \in Moments
  BY <1>1, DaysNat, DaysAreNat
<1>3. row.email[1] \in Keys
  BY <1>1 DEF Emails
<1> QED BY <1>1, <1>2, <1>3

LEMMA HandStays ==
    ASSUME PanelsTypeOK, PaidWell, GivenWell, NEW r \in Task, HandTrue(r),
           r.at \in Writing => settled'[r.key] = None,
           r.at = "make" => Given(r.row.email)
    PROVE  HandTrue(r)'
<1>1. \A k \in Keys : paid[k] \in Nat /\ paid'[k] \in Nat /\ paid[k] <= paid'[k]
  BY DaysAreNat DEF PanelsTypeOK, PaidWell, Terms
<1>2. r.expiry \in Nat
  <2>1. r.expiry \in Moments
    BY DEF Task
  <2> QED BY <2>1, DaysAreNat
<1>3. ASSUME r.at \in Inside PROVE r.row.until <= paid'[r.key]
  <2>1. r.row \in Row /\ r.key \in Keys /\ r.row.until <= paid[r.key]
    BY <1>3 DEF HandTrue
  <2>2. r.row.until \in Nat
    BY <2>1, RowForm
  <2>3. paid[r.key] \in Nat /\ paid'[r.key] \in Nat /\ paid[r.key] <= paid'[r.key]
    BY <1>1, <2>1
  <2> QED BY <2>1, <2>2, <2>3
<1>4. ASSUME r.at = "fill", r.aim.on PROVE r.expiry < paid'[r.key] + Day
  <2>1. r.key \in Keys /\ r.expiry < paid[r.key] + Day
    BY <1>4, PlacesOfSync DEF HandTrue
  <2>2. paid[r.key] \in Nat /\ paid'[r.key] \in Nat /\ paid[r.key] <= paid'[r.key]
    BY <1>1, <2>1
  <2> QED BY <1>2, <2>1, <2>2, DaysAreNat
<1>5. ASSUME r.at = "make" PROVE given'[r.row.email] = "late" \/ r.expiry < paid'[r.key] + Day
  <2>1. r.key \in Keys /\ (given[r.row.email] = "late" \/ r.expiry < paid[r.key] + Day)
    BY <1>5 DEF HandTrue
  <2>2. given'[r.row.email] = given[r.row.email]
    BY <1>5 DEF GivenWell, Given
  <2>3. paid[r.key] \in Nat /\ paid'[r.key] \in Nat /\ paid[r.key] <= paid'[r.key]
    BY <1>1, <2>1
  <2> QED BY <1>2, <2>1, <2>2, <2>3, DaysAreNat
<1> QED BY <1>3, <1>4, <1>5 DEF HandTrue

LEMMA KnownStays ==
    ASSUME NEW r \in Task, HandTrue(r), KnownTrue(r), NEW e, OnlyAt(e),
           r.at \in Writing => r.row.email # e
    PROVE  KnownTrue(r)'
<1>1. ASSUME r.at \in Writing, NEW i \in Inbounds PROVE Found(r, i)' \in {Found(r, i), None}
  <2>1. r.row \in Row
    BY <1>1, PlacesOfSync DEF HandTrue
  <2>2. r.row.server \in Servers /\ r.row.email \in Emails \ {e}
    BY <1>1, <2>1, RowForm
  <2> QED BY <2>2 DEF OnlyAt, Found
<1> QED BY <1>1, PlacesOfSync DEF KnownTrue

LEMMA TasksMove ==
    ASSUME IInv, NEW t \in Tasks, NEW r \in Task, tasks' = [tasks EXCEPT ![t] = r],
           HandTrue(r)', KnownTrue(r)', PaidWell, GivenWell, NEW e, OnlyAt(e),
           \A u \in Tasks : u # t /\ tasks[u].at \in Writing =>
                settled'[tasks[u].key] = None /\ tasks[u].row.email # e
    PROVE  tasks' \in [Tasks -> Task] /\ \A u \in Tasks : HandTrue(tasks[u])' /\ KnownTrue(tasks[u])'
<1>1. tasks \in [Tasks -> Task]
  BY DEF IInv, PanelsTypeOK
<1>2. tasks' \in [Tasks -> Task] /\ tasks'[t] = r
  BY <1>1
<1>3. ASSUME NEW u \in Tasks PROVE HandTrue(tasks[u])' /\ KnownTrue(tasks[u])'
  <2>1. CASE u = t
    BY <1>2, <2>1 DEF HandTrue, KnownTrue, Found
  <2>2. CASE u # t
    <3>1. PICK q \in Task : q = tasks[u]
      BY <1>1
    <3>2. tasks'[u] = q
      BY <1>1, <2>2, <3>1
    <3>3. HandTrue(q) /\ KnownTrue(q)
      BY <3>1 DEF IInv
    <3>4. q.at \in Writing => settled'[q.key] = None /\ q.row.email # e
      BY <2>2, <3>1
    <3>5. q.at = "make" => Given(q.row.email)
      BY <3>1 DEF IInv, AddressTrue, Known
    <3>6. HandTrue(q)'
      BY <3>3, <3>4, <3>5, HandStays DEF IInv
    <3>7. KnownTrue(q)'
      BY <3>3, <3>4, KnownStays
    <3>8. HandTrue(tasks[u])'
      BY <3>2, <3>6 DEF HandTrue
    <3>9. KnownTrue(tasks[u])'
      BY <3>2, <3>7 DEF KnownTrue, Found
    <3> QED BY <3>8, <3>9
  <2> QED BY <2>1, <2>2
<1> QED BY <1>2, <1>3

LEMMA OneMoves ==
    ASSUME IInv, NEW t \in Tasks, NEW r \in Task, tasks' = [tasks EXCEPT ![t] = r],
           r.at \in Inside => \A u \in Tasks : u # t => ~(tasks[u].at \in Inside /\ tasks[u].key = r.key)
    PROVE  OneInside'
<1>1. tasks \in [Tasks -> Task] /\ OneInside
  BY DEF IInv, PanelsTypeOK
<1>2. \A u \in Tasks : tasks'[u] = IF u = t THEN r ELSE tasks[u]
  BY <1>1
<1> QED BY <1>1, <1>2 DEF OneInside

LEMMA AddressMoves ==
    ASSUME IInv, NEW t \in Tasks, NEW r \in Task, tasks' = [tasks EXCEPT ![t] = r],
           RowsWell(t), GivenWell,
           \A k \in Keys : settled'[k] # None =>
              \/ settled[k] # None /\ settled'[k].email = settled[k].email
              \/ Known(tasks[t]) /\ settled'[k].email = tasks[t].row.email,
           Known(r) => \/ Known(tasks[t]) /\ r.row.email = tasks[t].row.email
                       \/ r.key \in Keys /\ rows[r.key] # None /\ r.row.email = rows[r.key].email,
           r.at = "make" => /\ tasks[t].at = "make" /\ r.row.email = tasks[t].row.email
                            /\ UNCHANGED <<rows, settled>>
    PROVE  AddressTrue'
<1>1. tasks \in [Tasks -> Task] /\ AddressTrue
  BY DEF IInv, PanelsTypeOK
<1>2. \A u \in Tasks : tasks'[u] = IF u = t THEN r ELSE tasks[u]
  BY <1>1
<1>3. \A e \in Emails : given[e] # "never" => given'[e] # "never"
  BY DEF GivenWell
<1>4. ASSUME NEW k \in Keys, rows'[k] # None
      PROVE  rows'[k].email \in Emails /\ given'[rows'[k].email] # "never"
  <2>1. CASE rows[k] # None /\ rows'[k].email = rows[k].email
    BY <1>1, <1>3, <2>1 DEF AddressTrue, Given
  <2>2. CASE Known(tasks[t]) /\ rows'[k].email = tasks[t].row.email
    BY <1>1, <1>3, <2>2 DEF AddressTrue, Given
  <2> QED BY <1>4, <2>1, <2>2 DEF RowsWell
<1>5. ASSUME NEW k \in Keys, settled'[k] # None
      PROVE  settled'[k].email \in Emails /\ given'[settled'[k].email] # "never"
  <2>1. CASE settled[k] # None /\ settled'[k].email = settled[k].email
    BY <1>1, <1>3, <2>1 DEF AddressTrue, Given
  <2>2. CASE Known(tasks[t]) /\ settled'[k].email = tasks[t].row.email
    BY <1>1, <1>3, <2>2 DEF AddressTrue, Given
  <2> QED BY <1>5, <2>1, <2>2
<1>6. Known(r) => r.row.email \in Emails /\ given'[r.row.email] # "never"
  BY <1>1, <1>3 DEF AddressTrue, Given
<1>7. ASSUME NEW u \in Tasks, Known(tasks'[u])
      PROVE  tasks'[u].row.email \in Emails /\ given'[tasks'[u].row.email] # "never"
  <2>1. CASE u = t
    BY <1>2, <1>6, <1>7, <2>1
  <2>2. CASE u # t
    BY <1>1, <1>2, <1>3, <1>7, <2>2 DEF AddressTrue, Given
  <2> QED BY <2>1, <2>2
<1>8. ASSUME NEW u \in Tasks, tasks'[u].at = "make"
      PROVE  /\ \A k \in Keys : /\ rows'[k] # None => rows'[k].email # tasks'[u].row.email
                                /\ settled'[k] # None => settled'[k].email # tasks'[u].row.email
             /\ \A v \in Tasks \ {u} : Known(tasks'[v]) => tasks'[v].row.email # tasks'[u].row.email
  <2>1. CASE u = t
    BY <1>1, <1>2, <1>8, <2>1 DEF AddressTrue
  <2>2. CASE u # t
    <3>1. tasks'[u] = tasks[u] /\ tasks[u].at = "make"
      BY <1>2, <1>8, <2>2
    <3>2. \A k \in Keys : /\ rows[k] # None => rows[k].email # tasks[u].row.email
                          /\ settled[k] # None => settled[k].email # tasks[u].row.email
      BY <1>1, <3>1 DEF AddressTrue
    <3>3. Known(tasks[t]) => tasks[t].row.email # tasks[u].row.email
      BY <1>1, <2>2, <3>1 DEF AddressTrue
    <3>4. \A v \in Tasks \ {u} : Known(tasks[v]) => tasks[v].row.email # tasks[u].row.email
      BY <1>1, <3>1 DEF AddressTrue
    <3>5. ASSUME NEW k \in Keys, rows'[k] # None PROVE rows'[k].email # tasks[u].row.email
      BY <3>2, <3>3, <3>5 DEF RowsWell
    <3>6. ASSUME NEW k \in Keys, settled'[k] # None PROVE settled'[k].email # tasks[u].row.email
      BY <3>2, <3>3, <3>6
    <3>7. ASSUME Known(r) PROVE r.row.email # tasks[u].row.email
      BY <3>2, <3>3, <3>7
    <3>8. ASSUME NEW v \in Tasks \ {u}, Known(tasks'[v]) PROVE tasks'[v].row.email # tasks[u].row.email
      BY <1>2, <3>4, <3>7, <3>8
    <3> QED BY <3>1, <3>5, <3>6, <3>8
  <2> QED BY <2>1, <2>2
<1> QED BY <1>4, <1>5, <1>7, <1>8 DEF AddressTrue, Known, Given

SettledSet == [Keys -> OrNone(Settlement)]

LEMMA SettlementForm ==
    ASSUME NEW r \in Settlement
    PROVE  r.server \in Servers /\ r.email \in Emails /\ r.until \in Nat
BY DaysAreNat DEF Settlement

\* What was settled stands where nobody writes.
LEMMA SettledStays ==
    ASSUME IInv, NEW e, OnlyAt(e), settled' \in SettledSet, PaidWell,
           \A k \in Keys : settled'[k] # None => settled'[k] = settled[k] /\ settled[k].email # e
    PROVE  SettledTrue' /\ LastSyncStands'
<1>1. SettledTrue /\ LastSyncStands /\ settled \in SettledSet
  BY DEF IInv, PanelsTypeOK, SettledSet
<1>2. ASSUME NEW k \in Keys, settled'[k] # None
      PROVE  settled'[k].email[1] = k /\ settled'[k].until <= paid'[k]
  <2>1. PICK r \in Settlement : r = settled[k] /\ r = settled'[k]
    BY <1>1, <1>2, OrNoneIs DEF SettledSet, OrNone
  <2>2. r.email[1] = k /\ r.until <= paid[k]
    BY <1>1, <1>2, <2>1 DEF SettledTrue
  <2>3. paid[k] \in Nat /\ paid'[k] \in Nat /\ paid[k] <= paid'[k]
    BY DaysAreNat DEF IInv, PanelsTypeOK, PaidWell, Terms
  <2> QED BY <2>1, <2>2, <2>3, SettlementForm
<1>3. ASSUME NEW k \in Keys, settled'[k] # None, NEW i \in Inbounds,
             panel'[settled'[k].server][i][settled'[k].email] # None
      PROVE  panel'[settled'[k].server][i][settled'[k].email]
                = [on |-> settled'[k].on, until |-> settled'[k].until]
  <2>1. PICK r \in Settlement : r = settled[k] /\ r = settled'[k] /\ r.email # e
    BY <1>1, <1>3, OrNoneIs DEF SettledSet, OrNone
  <2>2. r.server \in Servers /\ r.email \in Emails \ {e}
    BY <2>1, SettlementForm
  <2>3. panel'[r.server][i][r.email] \in {panel[r.server][i][r.email], None}
    BY <2>2 DEF OnlyAt
  <2>4. panel[r.server][i][r.email] # None
          => panel[r.server][i][r.email] = [on |-> r.on, until |-> r.until]
    BY <1>1, <1>3, <2>1 DEF LastSyncStands
  <2> QED BY <1>3, <2>1, <2>3, <2>4
<1> QED BY <1>2, <1>3 DEF SettledTrue, LastSyncStands

Fits(c, e) == c.on /\ given'[e] # "late" => c.until < paid'[e[1]] + Day

\* No client outruns what was paid when the new ones do not.
LEMMA PaidStays ==
    ASSUME IInv, PaidWell, GivenWell,
           \A s \in Servers, i \in Inbounds, e \in Emails :
              panel'[s][i][e] # None => panel'[s][i][e] = panel[s][i][e] \/ Fits(panel'[s][i][e], e)
    PROVE  OverByLessThanADay'
<1>1. panel \in PanelSet /\ given \in Givens /\ paid \in Terms /\ OverByLessThanADay
  BY DEF IInv, PanelsTypeOK, PanelSet, Givens, Terms
<1>2. ASSUME NEW s \in Servers, NEW i \in Inbounds, NEW e \in Emails,
             panel'[s][i][e] # None, panel'[s][i][e].on, given'[e] # "late"
      PROVE  panel'[s][i][e].until < paid'[e[1]] + Day
  <2>1. CASE Fits(panel'[s][i][e], e)
    BY <1>2, <2>1 DEF Fits
  <2>2. CASE panel'[s][i][e] = panel[s][i][e]
    <3>1. PICK c \in Client : c = panel[s][i][e]
      BY <1>1, <1>2, <2>2 DEF PanelSet, OrNone
    <3>2. given[e] # "late"
      BY <1>2 DEF GivenWell
    <3>3. c.until < paid[e[1]] + Day
      BY <1>1, <1>2, <2>2, <3>1, <3>2 DEF OverByLessThanADay
    <3>4. c.until \in Nat
      BY DaysAreNat DEF Client
    <3>5. e[1] \in Keys
      BY DEF Emails
    <3>6. paid[e[1]] \in Nat /\ paid'[e[1]] \in Nat /\ paid[e[1]] <= paid'[e[1]]
      BY <1>1, <3>5, DaysAreNat DEF PaidWell, Terms
    <3> QED BY <2>2, <3>1, <3>3, <3>4, <3>6, DaysAreNat
  <2> QED BY <1>2, <2>1, <2>2
<1> QED BY <1>2 DEF OverByLessThanADay

-----------------------------------------------------------------------------
(* The calls of a panel                                                    *)

LEMMA PanelValues ==
    ASSUME PanelsTypeOK
    PROVE  /\ panel \in PanelSet
           /\ \A s \in Servers, i \in Inbounds, e \in Emails : panel[s][i][e] \in OrNone(Client)
<1>1. panel \in PanelSet
  BY DEF PanelsTypeOK, PanelSet
<1> QED BY <1>1 DEF PanelSet

LEMMA AddForm ==
    ASSUME PanelsTypeOK, NEW s \in Servers, NEW i \in Inbounds, NEW e \in Emails, NEW c \in Client,
           panel' = add_client(s, i, e, c)
    PROVE  /\ panel' \in PanelSet
           /\ \A z \in Servers, j \in Inbounds, f \in Emails :
                panel'[z][j][f] = IF z = s /\ j = i /\ f = e /\ panel[s][i][e] = None
                                  THEN c ELSE panel[z][j][f]
<1>1. panel \in PanelSet /\ panel[s][i][e] \in OrNone(Client)
  BY PanelValues
<1>2. PICK d \in OrNone(Client) : d = IF panel[s][i][e] = None THEN c ELSE panel[s][i][e]
  BY <1>1, OrNoneIs
<1>3. panel' = [panel EXCEPT ![s][i][e] = d]
  BY <1>1, <1>2 DEF add_client, PanelSet
<1>4. \A z \in Servers, j \in Inbounds, f \in Emails :
         panel'[z][j][f] = IF z = s /\ j = i /\ f = e THEN d ELSE panel[z][j][f]
  BY <1>1, <1>3 DEF PanelSet
<1>5. panel' \in PanelSet
  BY <1>1, <1>3 DEF PanelSet
<1> QED BY <1>2, <1>4, <1>5

LEMMA DeleteForm ==
    ASSUME PanelsTypeOK, NEW s, NEW i, NEW e, panel' = delete_client(s, i, e)
    PROVE  /\ panel' \in PanelSet
           /\ \A z \in Servers, j \in Inbounds, f \in Emails :
                panel'[z][j][f] = IF z = s /\ j = i /\ f = e THEN None ELSE panel[z][j][f]
<1>1. panel \in PanelSet /\ None \in OrNone(Client)
  BY PanelValues, OrNoneIs
<1>2. panel' = [panel EXCEPT ![s][i][e] = None]
  BY DEF delete_client
<1>3. CASE s \in Servers /\ i \in Inbounds /\ e \in Emails
  BY <1>1, <1>2, <1>3 DEF PanelSet
<1>4. CASE ~(s \in Servers /\ i \in Inbounds /\ e \in Emails)
  <2>1. s \in Servers => panel[s] \in [Inbounds -> [Emails -> OrNone(Client)]]
    BY <1>1 DEF PanelSet
  <2>2. s \in Servers /\ i \in Inbounds => panel[s][i] \in [Emails -> OrNone(Client)]
    BY <2>1
  <2>3. panel' = panel
    BY <1>1, <1>2, <1>4, <2>1, <2>2 DEF PanelSet
  <2> QED BY <1>1, <1>4, <2>3
<1> QED BY <1>3, <1>4

LEMMA DeleteAllForm ==
    ASSUME PanelsTypeOK, NEW s, NEW e,
           panel' = delete_clients_by_email_on_server(s, e)
    PROVE  /\ panel' \in PanelSet
           /\ \A z \in Servers, j \in Inbounds, f \in Emails :
                panel'[z][j][f] = IF z = s /\ f = e THEN None ELSE panel[z][j][f]
<1>1. panel \in PanelSet /\ None \in OrNone(Client)
  BY PanelValues, OrNoneIs
<1>2. CASE s \notin Servers
  <2>1. panel' = panel
    BY <1>1, <1>2 DEF delete_clients_by_email_on_server, PanelSet
  <2> QED BY <1>1, <1>2, <2>1
<1>3. CASE s \in Servers
  <2>1. PICK q : q = [i \in Inbounds |-> [panel[s][i] EXCEPT ![e] = None]]
    OBVIOUS
  <2>2. panel' = [panel EXCEPT ![s] = q]
    BY <1>1, <2>1 DEF delete_clients_by_email_on_server, PanelSet
  <2>3. \A j \in Inbounds : panel[s][j] \in [Emails -> OrNone(Client)]
    BY <1>1, <1>3 DEF PanelSet
  <2>4. /\ q \in [Inbounds -> [Emails -> OrNone(Client)]]
        /\ \A j \in Inbounds, f \in Emails : q[j][f] = IF f = e THEN None ELSE panel[s][j][f]
    BY <1>1, <2>1, <2>3
  <2> QED BY <1>1, <1>3, <2>2, <2>4 DEF PanelSet
<1> QED BY <1>2, <1>3

LEMMA WriteForm ==
    ASSUME PanelsTypeOK, NEW s \in Servers, NEW i \in Inbounds, NEW e \in Emails, NEW c \in Client,
           panel' = update_client_full(s, i, e, c)
    PROVE  /\ panel' \in PanelSet
           /\ \A z \in Servers, j \in Inbounds, f \in Emails :
                panel'[z][j][f] = IF z = s /\ (j = i \/ Shared) /\ f = e /\ panel[s][j][e] # None
                                  THEN c ELSE panel[z][j][f]
<1>1. panel \in PanelSet /\ c \in OrNone(Client)
  BY PanelValues, OrNoneIs
<1>2. PICK q : q = [j \in Inbounds |-> IF (j = i \/ Shared) /\ panel[s][j][e] # None
                                       THEN [panel[s][j] EXCEPT ![e] = c] ELSE panel[s][j]]
  OBVIOUS
<1>3. panel' = [panel EXCEPT ![s] = q]
  BY <1>1, <1>2 DEF update_client_full, PanelSet
<1>4. \A j \in Inbounds : panel[s][j] \in [Emails -> OrNone(Client)]
  BY <1>1 DEF PanelSet
<1>5. /\ q \in [Inbounds -> [Emails -> OrNone(Client)]]
      /\ \A j \in Inbounds, f \in Emails :
            q[j][f] = IF (j = i \/ Shared) /\ f = e /\ panel[s][j][e] # None THEN c ELSE panel[s][j][f]
  BY <1>1, <1>2, <1>4
<1> QED BY <1>1, <1>3, <1>5 DEF PanelSet

\* Nothing but deletions.
LEMMA PanelSame == ASSUME PanelsTypeOK, panel' = panel PROVE Shrinks
BY PanelValues DEF Shrinks

LEMMA DeleteShrinks ==
    ASSUME PanelsTypeOK, NEW s, NEW i, NEW e, panel' = delete_client(s, i, e)
    PROVE  Shrinks
BY DeleteForm DEF Shrinks

LEMMA GoneShrinks == ASSUME PanelsTypeOK, NEW row, panel' = Gone(row) PROVE Shrinks
<1>1. CASE row.sub
  BY <1>1, DeleteAllForm DEF Gone, Shrinks
<1>2. CASE ~row.sub
  BY <1>2, DeleteShrinks DEF Gone
<1> QED BY <1>1, <1>2

LEMMA ShrinksOnly == ASSUME NEW e, Shrinks PROVE OnlyAt(e)
BY DEF Shrinks, OnlyAt

-----------------------------------------------------------------------------
(* The rows and the rest                                                   *)

RowSet == [Keys -> OrNone(Row)]

LEMMA PutForm ==
    ASSUME PanelsTypeOK, NEW k \in Keys, NEW row \in Row, rows' = Put(k, row)
    PROVE  /\ rows' \in RowSet
           /\ \A j \in Keys : rows'[j] = IF j = k /\ rows[k] # None THEN row ELSE rows[j]
<1>1. rows \in RowSet
  BY DEF PanelsTypeOK, RowSet
<1>2. PICK d \in OrNone(Row) : d = IF rows[k] = None THEN None ELSE row
  BY OrNoneIs
<1>3. rows' = [rows EXCEPT ![k] = d]
  BY <1>1, <1>2 DEF Put, RowSet
<1> QED BY <1>1, <1>2, <1>3 DEF RowSet

\* Rows at the addresses they had.
RowsWellAlone ==
    /\ rows' \in RowSet /\ \A k \in Keys : RowTrue(k)'
    /\ \A k \in Keys : rows'[k] # None => rows[k] # None /\ rows'[k].email = rows[k].email

LEMMA AloneWell == ASSUME RowsWellAlone, NEW t PROVE RowsWell(t)
BY DEF RowsWellAlone, RowsWell, RowSet

\* Rows that keep their address and their term, or go.
LEMMA RowsKept ==
    ASSUME IInv, PaidWell, rows' \in RowSet,
           \A k \in Keys : rows'[k] # None =>
              rows[k] # None /\ rows'[k].email = rows[k].email /\ rows'[k].until = rows[k].until
    PROVE  RowsWellAlone
<1>1. ASSUME NEW k \in Keys, rows'[k] # None
      PROVE  rows'[k].email[1] = k /\ rows'[k].until <= paid'[k]
  <2>1. rows[k] # None /\ rows'[k].email = rows[k].email /\ rows'[k].until = rows[k].until
    BY <1>1
  <2>2. PICK row \in Row : row = rows[k]
    BY <2>1 DEF IInv, PanelsTypeOK, OrNone
  <2>3. row.email[1] = k /\ row.until <= paid[k]
    BY <2>1, <2>2 DEF IInv, RowTrue
  <2>4. row.until \in Nat
    BY RowForm
  <2>5. paid[k] \in Nat /\ paid'[k] \in Nat /\ paid[k] <= paid'[k]
    BY DaysAreNat DEF IInv, PanelsTypeOK, PaidWell, Terms
  <2> QED BY <2>1, <2>2, <2>3, <2>4, <2>5
<1> QED BY <1>1 DEF RowsWellAlone, RowTrue

LEMMA RowsSame == ASSUME IInv, PaidWell, rows' = rows PROVE RowsWellAlone
<1>1. rows' \in RowSet
  BY DEF IInv, PanelsTypeOK, RowSet
<1> QED BY <1>1, RowsKept

LEMMA PaidSame ==
    ASSUME PanelsTypeOK
    PROVE  /\ paid' = paid => PaidWell
           /\ given' = given => GivenWell
<1>1. \A k \in Keys : paid[k] \in Nat
  BY DaysAreNat DEF PanelsTypeOK
<1>2. \A k \in Keys : paid[k] <= paid[k]
  BY <1>1
<1> QED BY <1>2 DEF PanelsTypeOK, PaidWell, GivenWell, Terms, Givens

EnvSame == /\ UNCHANGED <<banned, now, mode, meter, remembered, ops>>
           /\ slips' = slips \/ Slip

LEMMA SlipIs == ASSUME PanelsTypeOK, slips' = slips \/ Slip PROVE slips' \in 0 .. MaxSlips
<1>1. MaxSlips \in Nat
  BY PanelsAssumption
<1>2. slips \in 0 .. MaxSlips
  BY DEF PanelsTypeOK
<1>3. CASE slips' = slips
  BY <1>2, <1>3
<1>4. CASE Slip
  BY <1>1, <1>2, <1>4 DEF Slip
<1> QED BY <1>3, <1>4

LEMMA EnvStays == ASSUME PanelsTypeOK, EnvSame PROVE EnvWell
<1>1. slips' \in 0 .. MaxSlips
  BY SlipIs DEF EnvSame
<1> QED BY <1>1 DEF EnvSame, EnvWell, PanelsTypeOK

-----------------------------------------------------------------------------
(* The invariant as a whole                                                *)

LEMMA Whole ==
    ASSUME EnvWell, PaidWell, GivenWell, rows' \in RowSet, panel' \in PanelSet, settled' \in SettledSet,
           tasks' \in [Tasks -> Task], \A k \in Keys : RowTrue(k)',
           \A u \in Tasks : HandTrue(tasks[u])' /\ KnownTrue(tasks[u])',
           OneInside', AddressTrue', SettledTrue', LastSyncStands', OverByLessThanADay'
    PROVE  IInv'
<1>1. PanelsTypeOK'
  BY DEF PanelsTypeOK, EnvWell, PaidWell, GivenWell, RowSet, PanelSet, SettledSet, Terms, Givens
<1> QED BY <1>1 DEF IInv

LEMMA InsideForm ==
    ASSUME IInv, NEW u \in Tasks, tasks[u].at \in Inside
    PROVE  /\ tasks[u] \in Task /\ tasks[u].key \in Keys /\ tasks[u].row \in Row
           /\ tasks[u].row.email[1] = tasks[u].key /\ tasks[u].row.email \in Emails
           /\ tasks[u].row.until <= paid[tasks[u].key]
<1>1. tasks[u] \in Task /\ HandTrue(tasks[u])
  BY DEF IInv, PanelsTypeOK
<1>2. tasks[u].row \in Row
  BY <1>1 DEF HandTrue
<1> QED BY <1>1, <1>2, RowForm DEF HandTrue

\* A coroutine that holds no address is anywhere it may be.
Outside(r) == /\ r \in Task /\ ~Known(r)
              /\ r.at \in {"lock", "confirm"} => r.key \in Keys
              /\ r.at = "poll" => r.snap \in [Keys -> OrNone(Row)]
              /\ r.at = "write" => r.got \in Traffics

LEMMA OutsideHand == ASSUME NEW r, Outside(r) PROVE HandTrue(r)' /\ KnownTrue(r)'
<1>1. r.at \notin {"list", "drop", "fill", "trim", "reset", "set", "make"}
  BY PlacesOfSync DEF Outside, Known
<1> QED BY <1>1, PlacesOfSync DEF Outside, HandTrue, KnownTrue, Aiming

\* A step to a place outside.
LEMMA OutsideStep ==
    ASSUME IInv, NEW t \in Tasks, NEW r, Outside(r), tasks' = [tasks EXCEPT ![t] = r],
           RowsWell(t), PaidWell, Shrinks, EnvWell, settled' = settled, given' = given
    PROVE  IInv'
<1>1. PanelsTypeOK /\ r \in Task /\ ~Known(r) /\ GivenWell
  BY PaidSame DEF IInv, Outside
<1>2. PICK e : e \notin Emails
  BY NoSetContainsEverything
<1>3. OnlyAt(e)
  BY ShrinksOnly
<1>4. settled \in SettledSet
  BY <1>1 DEF PanelsTypeOK, SettledSet
<1>5. HandTrue(r)' /\ KnownTrue(r)'
  BY OutsideHand
<1>6. ASSUME NEW u \in Tasks, u # t, tasks[u].at \in Writing
      PROVE  settled'[tasks[u].key] = None /\ tasks[u].row.email # e
  <2>1. tasks[u].at \in Inside /\ HandTrue(tasks[u])
    BY <1>6, PlacesOfSync DEF IInv
  <2> QED BY <1>2, <1>6, <2>1, InsideForm DEF HandTrue
<1>7. tasks' \in [Tasks -> Task] /\ \A u \in Tasks : HandTrue(tasks[u])' /\ KnownTrue(tasks[u])'
  BY <1>1, <1>3, <1>5, <1>6, TasksMove
<1>8. OneInside'
  BY <1>1, OneMoves DEF Known
<1>9. AddressTrue'
  BY <1>1, AddressMoves DEF Known
<1>10. \A k \in Keys : settled'[k] # None => settled'[k] = settled[k] /\ settled[k].email # e
  <2>1. ASSUME NEW k \in Keys, settled[k] # None PROVE settled[k].email \in Emails
    BY <1>4, <2>1, SettlementForm DEF SettledSet, OrNone
  <2> QED BY <1>2, <2>1
<1>11. SettledTrue' /\ LastSyncStands'
  BY <1>1, <1>3, <1>4, <1>10, SettledStays
<1>12. OverByLessThanADay'
  BY <1>1, PaidStays DEF Shrinks
<1> QED BY <1>1, <1>4, <1>7, <1>8, <1>9, <1>11, <1>12, Whole DEF RowsWell, Shrinks, RowSet

\* A step of a synchronisation, or of the making of new clients.
Within(t, r) == /\ r \in Task /\ Known(tasks[t]) /\ Known(r)
                /\ r.key = tasks[t].key /\ r.row.email = tasks[t].row.email
                /\ r.at = "make" <=> tasks[t].at = "make"
Unsettles(t) ==
    /\ settled' \in SettledSet
    /\ \A k \in Keys : settled'[k] # None => settled'[k] = settled[k]
    /\ \A k \in Keys : tasks[t].at \in Inside /\ k = tasks[t].key => settled'[k] = None
    /\ tasks[t].at = "make" => UNCHANGED <<rows, settled>>

LEMMA WithinStep ==
    ASSUME IInv, NEW t \in Tasks, NEW r, Within(t, r), tasks' = [tasks EXCEPT ![t] = r],
           HandTrue(r)', KnownTrue(r)', RowsWell(t), Unsettles(t), OnlyAt(tasks[t].row.email),
           \A s \in Servers, i \in Inbounds, e \in Emails :
              panel'[s][i][e] # None => panel'[s][i][e] = panel[s][i][e] \/ Fits(panel'[s][i][e], e),
           EnvWell, paid' = paid, given' = given
    PROVE  IInv'
<1>1. PanelsTypeOK /\ GivenWell /\ PaidWell /\ OneInside /\ AddressTrue /\ SettledTrue
  BY PaidSame DEF IInv
<1>2. r \in Task /\ Known(tasks[t]) /\ Known(r) /\ r.key = tasks[t].key
      /\ r.row.email = tasks[t].row.email
  BY DEF Within
<1>3. tasks[t].at \in Inside \/ tasks[t].at = "make"
  BY <1>2 DEF Known
<1>4. r.at \in Inside <=> tasks[t].at \in Inside
  BY <1>2, PlacesOfSync DEF Within, Known
<1>5. r.at = "make" <=> tasks[t].at = "make"
  BY DEF Within
<1>6. PICK e : e = tasks[t].row.email
  OBVIOUS
<1>7. OnlyAt(e)
  BY <1>6
<1>8. ASSUME NEW u \in Tasks, u # t, tasks[u].at \in Writing
      PROVE  settled'[tasks[u].key] = None /\ tasks[u].row.email # e
  <2>1. tasks[u].at \in Inside /\ HandTrue(tasks[u])
    BY <1>8, PlacesOfSync DEF IInv
  <2>2. settled[tasks[u].key] = None /\ tasks[u].key \in Keys
    BY <1>8, <2>1 DEF HandTrue
  <2>3. settled'[tasks[u].key] = None
    BY <2>2 DEF Unsettles
  <2>4. CASE tasks[t].at \in Inside
    <3>1. tasks[u].key # tasks[t].key
      BY <1>1, <1>8, <2>1, <2>4 DEF OneInside
    <3>2. tasks[u].row.email[1] = tasks[u].key
      BY <2>1, InsideForm
    <3>3. tasks[t].row.email[1] = tasks[t].key
      BY <2>4, InsideForm
    <3> QED BY <1>6, <2>3, <3>1, <3>2, <3>3
  <2>5. CASE tasks[t].at = "make"
    <3>1. u \in Tasks \ {t} /\ Known(tasks[u])
      BY <1>8, <2>1 DEF Known
    <3> QED BY <1>1, <1>6, <2>3, <2>5, <3>1 DEF AddressTrue
  <2> QED BY <1>3, <2>3, <2>4, <2>5
<1>9. tasks' \in [Tasks -> Task] /\ \A u \in Tasks : HandTrue(tasks[u])' /\ KnownTrue(tasks[u])'
  BY <1>1, <1>2, <1>7, <1>8, TasksMove
<1>10. ASSUME r.at \in Inside, NEW u \in Tasks, u # t
       PROVE  ~(tasks[u].at \in Inside /\ tasks[u].key = r.key)
  BY <1>1, <1>2, <1>4, <1>10 DEF OneInside
<1>11. OneInside'
  BY <1>2, <1>10, OneMoves
<1>12. r.at = "make" => /\ tasks[t].at = "make" /\ r.row.email = tasks[t].row.email
                        /\ UNCHANGED <<rows, settled>>
  BY <1>2, <1>5 DEF Unsettles
<1>13. \A k \in Keys : settled'[k] # None =>
              \/ settled[k] # None /\ settled'[k].email = settled[k].email
              \/ Known(tasks[t]) /\ settled'[k].email = tasks[t].row.email
  BY DEF Unsettles
<1>14. AddressTrue'
  BY <1>1, <1>2, <1>12, <1>13, AddressMoves
<1>15. \A k \in Keys : settled'[k] # None => settled'[k] = settled[k] /\ settled[k].email # e
  <2>1. ASSUME NEW k \in Keys, settled'[k] # None PROVE settled'[k] = settled[k] /\ settled[k].email # e
    <3>1. settled'[k] = settled[k] /\ settled[k] # None
      BY <2>1 DEF Unsettles
    <3>2. CASE tasks[t].at \in Inside
      <4>1. k # tasks[t].key
        BY <2>1, <3>2 DEF Unsettles
      <4>2. settled[k].email[1] = k
        BY <1>1, <3>1 DEF SettledTrue
      <4>3. e[1] = tasks[t].key
        BY <1>6, <3>2, InsideForm
      <4> QED BY <3>1, <4>1, <4>2, <4>3
    <3>3. CASE tasks[t].at = "make"
      BY <1>1, <1>6, <3>1, <3>3 DEF AddressTrue
    <3> QED BY <1>3, <3>2, <3>3
  <2> QED BY <2>1
<1>16. SettledTrue' /\ LastSyncStands'
  BY <1>1, <1>7, <1>15, SettledStays DEF Unsettles
<1>17. OverByLessThanADay'
  BY <1>1, PaidStays
<1> QED BY <1>1, <1>7, <1>9, <1>11, <1>14, <1>16, <1>17, Whole DEF RowsWell, OnlyAt, RowSet, Unsettles

\* A step of nobody, or the end of every coroutine.
LEMMA FrameStep ==
    ASSUME IInv, tasks' \in [Tasks -> Task], \A u \in Tasks : tasks'[u] = tasks[u] \/ tasks'[u] = Rest,
           RowsWellAlone, PaidWell, EnvWell, panel' = panel, settled' = settled, given' = given
    PROVE  IInv'
<1>1. PanelsTypeOK /\ GivenWell /\ OneInside /\ AddressTrue
  BY PaidSame DEF IInv
<1>2. Rest.at = "rest" /\ Rest \in Task
  BY RestForm
<1>3. \A u \in Tasks : Known(tasks'[u]) => tasks'[u] = tasks[u]
  BY <1>2, PlacesOfSync DEF Known
<1>4. PICK e : e \notin Emails
  BY NoSetContainsEverything
<1>5. Shrinks
  BY <1>1, PanelSame
<1>6. OnlyAt(e)
  BY <1>5, ShrinksOnly
<1>7. ASSUME NEW u \in Tasks PROVE HandTrue(tasks[u])' /\ KnownTrue(tasks[u])'
  <2>1. CASE tasks'[u] = Rest
    <3>1. Outside(Rest)
      BY <1>2, PlacesOfSync DEF Outside, Known
    <3>2. HandTrue(Rest)' /\ KnownTrue(Rest)'
      BY <3>1, OutsideHand
    <3> QED BY <2>1, <3>2 DEF HandTrue, KnownTrue, Found
  <2>2. CASE tasks'[u] = tasks[u]
    <3>1. PICK q \in Task : q = tasks[u]
      BY <1>1 DEF PanelsTypeOK
    <3>2. HandTrue(q) /\ KnownTrue(q)
      BY <3>1 DEF IInv
    <3>3. ASSUME q.at \in Writing PROVE settled'[q.key] = None /\ q.row.email # e
      <4>1. tasks[u].at \in Inside
        BY <3>1, <3>3, PlacesOfSync
      <4> QED BY <1>4, <3>1, <3>2, <3>3, <4>1, InsideForm DEF HandTrue
    <3>4. q.at = "make" => Given(q.row.email)
      BY <1>1, <3>1 DEF AddressTrue, Known
    <3>5. HandTrue(q)'
      BY <1>1, <3>2, <3>3, <3>4, HandStays
    <3>6. KnownTrue(q)'
      BY <1>6, <3>2, <3>3, KnownStays
    <3>7. HandTrue(tasks[u])'
      BY <2>2, <3>1, <3>5 DEF HandTrue
    <3>8. KnownTrue(tasks[u])'
      BY <2>2, <3>1, <3>6 DEF KnownTrue, Found
    <3> QED BY <3>7, <3>8
  <2> QED BY <2>1, <2>2
<1>8. OneInside'
  BY <1>1, <1>3 DEF OneInside, Known
<1>9. \A f \in Emails : given[f] # "never" => given'[f] # "never"
  BY <1>1 DEF GivenWell
<1>10. AddressTrue'
  <2>1. \A k \in Keys : rows'[k] # None => rows'[k].email \in Emails /\ given'[rows'[k].email] # "never"
    BY <1>1, <1>9 DEF AddressTrue, Given, RowsWellAlone
  <2>2. \A k \in Keys : settled'[k] # None => settled'[k].email \in Emails /\ given'[settled'[k].email] # "never"
    BY <1>1, <1>9 DEF AddressTrue, Given
  <2>3. \A u \in Tasks : Known(tasks'[u]) =>
            tasks'[u].row.email \in Emails /\ given'[tasks'[u].row.email] # "never"
    BY <1>1, <1>3, <1>9 DEF AddressTrue, Given
  <2>4. ASSUME NEW u \in Tasks, tasks'[u].at = "make"
        PROVE  /\ \A k \in Keys : /\ rows'[k] # None => rows'[k].email # tasks'[u].row.email
                                  /\ settled'[k] # None => settled'[k].email # tasks'[u].row.email
               /\ \A v \in Tasks \ {u} : Known(tasks'[v]) => tasks'[v].row.email # tasks'[u].row.email
    <3>1. tasks'[u] = tasks[u] /\ tasks[u].at = "make"
      BY <1>3, <2>4 DEF Known
    <3>2. \A k \in Keys : /\ rows[k] # None => rows[k].email # tasks[u].row.email
                          /\ settled[k] # None => settled[k].email # tasks[u].row.email
      BY <1>1, <3>1 DEF AddressTrue
    <3>3. \A v \in Tasks \ {u} : Known(tasks[v]) => tasks[v].row.email # tasks[u].row.email
      BY <1>1, <3>1 DEF AddressTrue
    <3>4. \A v \in Tasks \ {u} : Known(tasks'[v]) => tasks'[v].row.email # tasks[u].row.email
      BY <1>3, <3>3
    <3> QED BY <3>1, <3>2, <3>4 DEF RowsWellAlone
  <2> QED BY <2>1, <2>2, <2>3, <2>4 DEF AddressTrue, Known, Given
<1>11. settled \in SettledSet
  BY <1>1 DEF PanelsTypeOK, SettledSet
<1>12. \A k \in Keys : settled'[k] # None => settled'[k] = settled[k] /\ settled[k].email # e
  <2>1. ASSUME NEW k \in Keys, settled[k] # None PROVE settled[k].email \in Emails
    BY <1>11, <2>1, SettlementForm DEF SettledSet, OrNone
  <2> QED BY <1>4, <2>1
<1>13. SettledTrue' /\ LastSyncStands'
  BY <1>1, <1>6, <1>11, <1>12, SettledStays
<1>14. OverByLessThanADay'
  BY <1>1, PaidStays
<1> QED BY <1>1, <1>5, <1>7, <1>8, <1>10, <1>11, <1>13, <1>14, Whole DEF RowsWellAlone, Shrinks

-----------------------------------------------------------------------------
(* What coroutines hold outside                                            *)

LEMMA OutsideAt ==
    ASSUME NEW r \in Task,
           r.at \in {"rest", "next", "warn", "cycle", "compare", "unmake", "forget",
                     "delete", "erase", "sweep", "missing"}
    PROVE  Outside(r)
<1>1. r.at \notin {"list", "drop", "fill", "trim", "reset", "set", "make", "lock", "confirm", "poll", "write"}
  OBVIOUS
<1> QED BY <1>1, PlacesOfSync DEF Outside, Known

LEMMA OutsideWaits ==
    ASSUME NEW r \in Task, r.at \in {"lock", "confirm"}, r.key \in Keys
    PROVE  Outside(r)
<1>1. r.at \notin {"list", "drop", "fill", "trim", "reset", "set", "make", "poll", "write"}
  OBVIOUS
<1> QED BY <1>1, PlacesOfSync DEF Outside, Known

LEMMA RestOut == Outside(Rest)
BY RestForm, OutsideAt

LEMMA OverOut == ASSUME NEW task \in Task PROVE Outside(Over(task))
BY OverForm, OutsideAt

LEMMA EachOut ==
    ASSUME NEW task \in Task, NEW keys \in SUBSET Keys, NEW kind \in Kinds,
           NEW then \in {"rest", "cycle", "unmake"}
    PROVE  Outside(Each(task, keys, kind, then))
<1>1. "next" \in Places /\ None \in OrNone(Keys)
  BY PlacesOfSync, OrNoneIs
<1>2. Each(task, keys, kind, then) \in Task /\ Each(task, keys, kind, then).at = "next"
  BY <1>1 DEF Each, Task
<1> QED BY <1>2, OutsideAt

LEMMA SyncOut ==
    ASSUME NEW k \in Keys, NEW reset \in BOOLEAN
    PROVE  Outside(Sync(k, reset))
<1>1. PICK rest \in Task : rest = Rest
  BY RestForm
<1>2. "lock" \in Places /\ k \in OrNone(Keys)
  BY PlacesOfSync, OrNoneIs
<1>3. Sync(k, reset) = [rest EXCEPT !.at = "lock", !.key = k, !.reset = reset]
  BY <1>1 DEF Sync
<1>4. Sync(k, reset) \in Task /\ Sync(k, reset).at = "lock" /\ Sync(k, reset).key = k
  BY <1>2, <1>3 DEF Task
<1> QED BY <1>4, OutsideWaits

\* A step to a place outside that leaves the rows alone.
LEMMA QuietStep ==
    ASSUME IInv, NEW t \in Tasks, NEW r, Outside(r), tasks' = [tasks EXCEPT ![t] = r],
           Shrinks, EnvWell, rows' = rows, paid' = paid, settled' = settled, given' = given
    PROVE  IInv'
<1>1. PaidWell
  BY PaidSame DEF IInv
<1>2. RowsWell(t)
  BY <1>1, RowsSame, AloneWell
<1> QED BY <1>1, <1>2, OutsideStep

Quiet == /\ UNCHANGED <<rows, banned, now, mode, panel, meter>>
         /\ UNCHANGED <<settled, paid, given>>
         /\ remembered' \subseteq Keys /\ ops' \subseteq Ops /\ slips' \in 0 .. MaxSlips

LEMMA QuietMove ==
    ASSUME IInv, NEW t \in Tasks, NEW r, Outside(r), Becomes(t, r), Quiet
    PROVE  IInv'
<1>1. PanelsTypeOK
  BY DEF IInv
<1>2. EnvWell
  BY <1>1 DEF Quiet, EnvWell, PanelsTypeOK
<1>3. Shrinks
  BY <1>1, PanelSame DEF Quiet
<1>4. tasks' = [tasks EXCEPT ![t] = r]
  BY DEF Becomes
<1> QED BY <1>2, <1>3, <1>4, QuietStep DEF Quiet

\* A step to a place outside that may write rows.
Booked == /\ UNCHANGED <<panel, settled, given>> /\ EnvWell /\ PaidWell /\ RowsWellAlone

LEMMA BookedMove ==
    ASSUME IInv, NEW t \in Tasks, NEW r, Outside(r), Becomes(t, r), Booked
    PROVE  IInv'
<1>1. Shrinks
  BY PanelSame DEF IInv, Booked
<1>2. RowsWell(t)
  BY AloneWell DEF Booked
<1>3. tasks' = [tasks EXCEPT ![t] = r]
  BY DEF Becomes
<1> QED BY <1>1, <1>2, <1>3, OutsideStep DEF Booked

LEMMA TaskIs ==
    ASSUME IInv, NEW t \in Tasks
    PROVE  tasks[t] \in Task /\ HandTrue(tasks[t]) /\ KnownTrue(tasks[t]) /\ PanelsTypeOK
BY DEF IInv, PanelsTypeOK

LEMMA TaskFields ==
    ASSUME NEW r \in Task
    PROVE  /\ r.at \in Places /\ r.key \in OrNone(Keys) /\ r.left \subseteq Inbounds
           /\ r.fresh \subseteq Inbounds /\ r.queue \subseteq Keys /\ r.kind \in Kinds
           /\ r.then \in {"rest", "cycle", "unmake"} /\ r.expiry \in Moments
           /\ r.reset \in BOOLEAN /\ r.bad \in BOOLEAN /\ r.ban \in BOOLEAN
BY DEF Task

LEMMA RowOf == ASSUME PanelsTypeOK, NEW k \in Keys, rows[k] # None PROVE rows[k] \in Row
BY DEF PanelsTypeOK, OrNone

LEMMA EmptySyncEnds == ASSUME IInv, NEW t \in Tasks, EndOfEmptySync(t) PROVE IInv'
<1>1. Outside(Over(tasks[t]))
  BY TaskIs, OverOut
<1>2. Quiet
  BY TaskIs DEF EndOfEmptySync, book, history, Quiet, PanelsTypeOK
<1> QED BY <1>1, <1>2, QuietMove DEF EndOfEmptySync

-----------------------------------------------------------------------------
(* The loops                                                               *)

LEMMA ActiveRead == ASSUME IInv, NEW t \in Tasks, ReadActive(t) PROVE IInv'
<1>1. Quiet
  BY TaskIs DEF ReadActive, book, history, Quiet, PanelsTypeOK
<1>2. PICK rest \in Task : rest = Rest /\ rest.at = "rest"
  BY RestForm
<1>3. "cycle" \in Places /\ "poll" \in Places
  BY PlacesOfSync
<1>4. CASE get_all_active_keys_with_server = {}
  <2>1. PICK r : r = [rest EXCEPT !.at = "cycle"]
    OBVIOUS
  <2>2. r \in Task /\ r.at = "cycle"
    BY <1>3, <2>1 DEF Task
  <2>3. Outside(r)
    BY <2>2, OutsideAt
  <2> QED BY <1>1, <1>2, <1>4, <2>1, <2>3, QuietMove DEF ReadActive
<1>5. CASE get_all_active_keys_with_server # {}
  <2>1. PICK f : f = [k \in Keys |-> IF k \in get_all_active_keys_with_server THEN rows[k] ELSE None]
    OBVIOUS
  <2>2. f \in [Keys -> OrNone(Row)] /\ f \in OrNone([Keys -> OrNone(Row)])
    BY <2>1, TaskIs, OrNoneIs DEF PanelsTypeOK
  <2>3. PICK r : r = [rest EXCEPT !.at = "poll", !.snap = f]
    OBVIOUS
  <2>4. r \in Task /\ r.at = "poll" /\ r.snap = f
    BY <1>3, <2>2, <2>3 DEF Task
  <2>5. Outside(r)
    BY <2>2, <2>4, PlacesOfSync DEF Outside, Known
  <2> QED BY <1>1, <1>2, <1>5, <2>1, <2>3, <2>5, QuietMove DEF ReadActive
<1> QED BY <1>4, <1>5

LEMMA Answered ==
    ASSUME NEW task \in Task, NEW got \in Traffics
    PROVE  Outside([task EXCEPT !.at = "write", !.got = got])
<1>1. "write" \in Places /\ got \in OrNone(Traffics)
  BY PlacesOfSync, OrNoneIs
<1>2. PICK r : r = [task EXCEPT !.at = "write", !.got = got]
  OBVIOUS
<1>3. r \in Task /\ r.at = "write" /\ r.got = got
  BY <1>1, <1>2 DEF Task
<1> QED BY <1>2, <1>3, PlacesOfSync DEF Outside, Known

LEMMA TrafficPolled == ASSUME IInv, NEW t \in Tasks, PollTraffic(t) PROVE IInv'
<1>1. PICK task \in Task : task = tasks[t] /\ HandTrue(task)
  BY TaskIs
<1>2. slips' = slips \/ Slip
  BY DEF PollTraffic
<1>3. Quiet
  BY <1>2, TaskIs, SlipIs DEF PollTraffic, book, history, Quiet, PanelsTypeOK
<1>4. task.snap \in [Keys -> OrNone(Row)]
  BY <1>1 DEF PollTraffic, HandTrue
<1>5. ASSUME NEW k \in Keys PROVE get_key_traffic_snapshot(task.snap[k]) \in OrNone(0 .. Limit)
  <2>1. CASE task.snap[k] = None
    BY <2>1, OrNoneIs DEF get_key_traffic_snapshot
  <2>2. CASE task.snap[k] # None
    <3>1. PICK row \in Row : row = task.snap[k]
      BY <1>4, <2>2 DEF OrNone
    <3>2. meter[row.server][row.email] \in 0 .. Limit
      BY RowForm, TaskIs DEF PanelsTypeOK
    <3> QED BY <3>1, <3>2, OrNoneIs DEF get_key_traffic_snapshot
  <2> QED BY <2>1, <2>2
<1>6. PICK f : f = [k \in Keys |-> get_key_traffic_snapshot(task.snap[k])]
  OBVIOUS
<1>7. PICK n : n = [k \in Keys |-> None]
  OBVIOUS
<1>8. f \in Traffics /\ n \in Traffics
  BY <1>5, <1>6, <1>7, OrNoneIs DEF Traffics
<1>9. \/ Becomes(t, [task EXCEPT !.at = "write", !.got = f])
      \/ Becomes(t, [task EXCEPT !.at = "write", !.got = n])
  BY <1>1, <1>6, <1>7 DEF PollTraffic
<1>10. PICK r : Becomes(t, r) /\ Outside(r)
  BY <1>8, <1>9, Answered
<1> QED BY <1>3, <1>10, QuietMove

LEMMA BulkForm ==
    ASSUME PanelsTypeOK, NEW got \in Traffics, rows' = bulk_update_traffic(got)
    PROVE  /\ rows' \in RowSet
           /\ \A k \in Keys : rows'[k] # None =>
                rows[k] # None /\ rows'[k].email = rows[k].email /\ rows'[k].until = rows[k].until
<1>1. ASSUME NEW k \in Keys
      PROVE  /\ rows'[k] \in OrNone(Row)
             /\ rows'[k] # None =>
                rows[k] # None /\ rows'[k].email = rows[k].email /\ rows'[k].until = rows[k].until
  <2>1. CASE rows[k] = None \/ got[k] = None
    <3>1. rows'[k] = rows[k]
      BY <2>1 DEF bulk_update_traffic
    <3>2. rows[k] \in OrNone(Row)
      BY DEF PanelsTypeOK
    <3> QED BY <3>1, <3>2
  <2>2. CASE rows[k] # None /\ got[k] # None
    <3>1. PICK row \in Row : row = rows[k]
      BY <2>2, RowOf
    <3>2. got[k] \in 0 .. Limit
      BY <2>2 DEF Traffics, OrNone
    <3>3. rows'[k] = [row EXCEPT !.used = got[k]]
      BY <2>2, <3>1 DEF bulk_update_traffic
    <3>4. rows'[k] \in Row /\ rows'[k].email = row.email /\ rows'[k].until = row.until
      BY <3>2, <3>3 DEF Row
    <3> QED BY <2>2, <3>1, <3>4, OrNoneIs
  <2> QED BY <2>1, <2>2
<1>2. rows' = [k \in Keys |-> rows'[k]]
  BY DEF bulk_update_traffic
<1> QED BY <1>1, <1>2 DEF RowSet

LEMMA TrafficWritten == ASSUME IInv, NEW t \in Tasks, WriteTraffic(t) PROVE IInv'
<1>1. PICK task \in Task : task = tasks[t] /\ HandTrue(task)
  BY TaskIs
<1>2. task.got \in Traffics /\ PaidWell
  BY <1>1, PaidSame DEF IInv, WriteTraffic, HandTrue, history
<1>3. RowsWellAlone
  BY <1>1, <1>2, BulkForm, RowsKept DEF IInv, WriteTraffic
<1>4. EnvWell
  BY TaskIs, EnvStays DEF WriteTraffic, EnvSame
<1>5. Booked
  BY <1>2, <1>3, <1>4 DEF WriteTraffic, history, Booked
<1>6. PICK q : q = {k \in Keys : task.snap[k] # None /\ ~task.snap[k].told
                                 /\ is_traffic_exhausted(Merged(task, k))}
  OBVIOUS
<1>7. PICK r : r = [task EXCEPT !.at = "warn", !.queue = q]
  OBVIOUS
<1>8. r \in Task /\ r.at = "warn"
  BY <1>6, <1>7, PlacesOfSync DEF Task
<1> QED BY <1>1, <1>5, <1>6, <1>7, <1>8, OutsideAt, BookedMove DEF WriteTraffic

LEMMA UserWarned == ASSUME IInv, NEW t \in Tasks, WarnUser(t) PROVE IInv'
<1>1. PICK task \in Task : task = tasks[t] /\ task.at = "warn"
  BY TaskIs DEF WarnUser
<1>2. PICK k \in task.queue : /\ rows' = Put(k, [rows[k] EXCEPT !.told = TRUE])
                              /\ Becomes(t, [task EXCEPT !.queue = @ \ {k}])
  BY <1>1 DEF WarnUser
<1>3. k \in Keys /\ PaidWell
  BY <1>1, TaskFields, PaidSame DEF IInv, WarnUser, history
<1>4. RowsWellAlone
  <2>1. CASE rows[k] = None
    <3>1. rows' = rows
      BY <1>2, <2>1, <1>3 DEF Put, IInv, PanelsTypeOK
    <3> QED BY <1>3, <3>1, RowsSame
  <2>2. CASE rows[k] # None
    <3>1. PICK row \in Row : row = rows[k]
      BY <1>3, <2>2, RowOf DEF IInv
    <3>2. PICK new : new = [row EXCEPT !.told = TRUE]
      OBVIOUS
    <3>3. new \in Row /\ new.email = row.email /\ new.until = row.until
      BY <3>2 DEF Row
    <3>4. rows' = Put(k, new)
      BY <1>2, <3>1, <3>2
    <3> QED BY <1>3, <2>2, <3>1, <3>3, <3>4, PutForm, RowsKept DEF IInv
  <2> QED BY <2>1, <2>2
<1>5. EnvWell
  BY TaskIs, EnvStays DEF WarnUser, EnvSame
<1>6. Booked
  BY <1>3, <1>4, <1>5 DEF WarnUser, history, Booked
<1>7. PICK r : r = [task EXCEPT !.queue = @ \ {k}]
  OBVIOUS
<1>8. r \in Task /\ r.at = "warn"
  BY <1>1, <1>7 DEF Task
<1> QED BY <1>2, <1>6, <1>7, <1>8, OutsideAt, BookedMove

LEMMA UsedUpSynced == ASSUME IInv, NEW t \in Tasks, SyncUsedUp(t) PROVE IInv'
<1>1. PICK task \in Task : task = tasks[t]
  BY TaskIs
<1>2. Quiet
  BY TaskIs DEF SyncUsedUp, book, history, Quiet, PanelsTypeOK
<1>3. PICK bare : bare = [task EXCEPT !.snap = None, !.got = None]
  OBVIOUS
<1>4. bare \in Task
  <2>1. None \in OrNone([Keys -> OrNone(Row)]) /\ None \in OrNone(Traffics)
    BY OrNoneIs
  <2> QED BY <1>3, <2>1 DEF Task
<1>5. PICK q : q = {k \in Keys : /\ task.snap[k] # None /\ task.snap[k].sub
                                 /\ \/ is_traffic_exhausted(Merged(task, k))
                                    \/ ~is_key_active(Merged(task, k))}
  OBVIOUS
<1>6. q \in SUBSET Keys
  BY <1>5
<1>7. Becomes(t, Each(bare, q, "plain", "cycle"))
  BY <1>1, <1>3, <1>5 DEF SyncUsedUp
<1>8. Outside(Each(bare, q, "plain", "cycle"))
  BY <1>4, <1>6, EachOut DEF Kinds
<1> QED BY <1>2, <1>7, <1>8, QuietMove

LEMMA CycleEnds ==
    ASSUME IInv, NEW t \in Tasks, materialize_subscription_state(t) \/ OtherCycle(t)
    PROVE  IInv'
<1>1. Quiet
  BY TaskIs DEF materialize_subscription_state, OtherCycle, book, history, Quiet, PanelsTypeOK
<1>2. CASE OtherCycle(t)
  BY <1>1, <1>2, RestOut, QuietMove DEF OtherCycle
<1>3. CASE materialize_subscription_state(t)
  <2>1. get_all_active_keys_with_server \in SUBSET Keys
    BY DEF get_all_active_keys_with_server
  <2>2. Outside(Each(tasks[t], get_all_active_keys_with_server, "plain", "rest"))
    BY <2>1, TaskIs, EachOut DEF Kinds
  <2> QED BY <1>1, <1>3, <2>2, QuietMove DEF materialize_subscription_state
<1> QED BY <1>2, <1>3

LEMMA StartIs ==
    ASSUME PanelsTypeOK, NEW op, Start(op)
    PROVE  ops' \subseteq Ops
BY DEF PanelsTypeOK, Start

LEMMA MonthStarts == ASSUME IInv, NEW t \in Tasks, MonthlyReset(t) PROVE IInv'
<1>1. ops' \subseteq Ops
  BY TaskIs, StartIs DEF MonthlyReset
<1>2. Quiet
  BY <1>1, TaskIs DEF MonthlyReset, book, history, Quiet, PanelsTypeOK
<1>3. get_all_active_keys_with_server \in SUBSET Keys
  BY DEF get_all_active_keys_with_server
<1>4. Rest \in Task
  BY RestForm
<1>5. Outside(Each(Rest, get_all_active_keys_with_server, "reset", "rest"))
  BY <1>3, <1>4, EachOut DEF Kinds
<1>6. PICK rest \in Task : rest = Rest
  BY <1>4
<1>7. PICK f : f = [k \in Keys |-> IF k \in get_all_active_keys_with_server THEN rows[k] ELSE None]
  OBVIOUS
<1>8. f \in OrNone([Keys -> OrNone(Row)])
  <2>1. f \in [Keys -> OrNone(Row)]
    BY <1>7, TaskIs, OrNoneIs DEF PanelsTypeOK
  <2> QED BY <2>1, OrNoneIs
<1>9. PICK r : r = [rest EXCEPT !.at = "compare", !.snap = f]
  OBVIOUS
<1>10. r \in Task /\ r.at = "compare"
  BY <1>8, <1>9, PlacesOfSync DEF Task
<1>11. Outside(r)
  BY <1>10, OutsideAt
<1>12. \/ Becomes(t, Each(Rest, get_all_active_keys_with_server, "reset", "rest"))
       \/ Becomes(t, r)
  BY <1>6, <1>7, <1>9 DEF MonthlyReset
<1> QED BY <1>2, <1>5, <1>11, <1>12, QuietMove

LEMMA PanelCompared == ASSUME IInv, NEW t \in Tasks, ComparePanel(t) PROVE IInv'
<1>1. PICK task \in Task : task = tasks[t]
  BY TaskIs
<1>2. slips' = slips \/ Slip
  BY DEF ComparePanel
<1>3. Quiet
  BY <1>2, TaskIs, SlipIs DEF ComparePanel, book, history, Quiet, PanelsTypeOK
<1>4. PICK bare : bare = [task EXCEPT !.snap = None]
  OBVIOUS
<1>5. bare \in Task
  <2>1. None \in OrNone([Keys -> OrNone(Row)])
    BY OrNoneIs
  <2> QED BY <1>4, <2>1 DEF Task
<1>6. \/ \E q \in SUBSET Keys : Becomes(t, Each(bare, q, "plain", "rest"))
      \/ Becomes(t, Rest)
  <2>1. CASE Becomes(t, Rest)
    BY <2>1
  <2>2. CASE ~Becomes(t, Rest)
    BY <1>1, <1>4, <2>2 DEF ComparePanel
  <2> QED BY <2>1, <2>2
<1>7. CASE Becomes(t, Rest)
  BY <1>3, <1>7, RestOut, QuietMove
<1>8. ASSUME NEW q \in SUBSET Keys, Becomes(t, Each(bare, q, "plain", "rest")) PROVE IInv'
  <2>1. Outside(Each(bare, q, "plain", "rest"))
    BY <1>5, EachOut DEF Kinds
  <2> QED BY <1>3, <1>8, <2>1, QuietMove
<1> QED BY <1>6, <1>7, <1>8

LEMMA Reconciled ==
    ASSUME IInv, NEW t \in Tasks, reconcile_expired_subscription_keys(t) PROVE IInv'
<1>1. remembered' \subseteq Keys
  BY TaskIs DEF reconcile_expired_subscription_keys, PanelsTypeOK
<1>2. Quiet
  BY <1>1, TaskIs DEF reconcile_expired_subscription_keys, book, history, Quiet, PanelsTypeOK
<1>3. CASE mode = "subscription"
  <2>1. PICK q : q = _expired_subscription_ids \ remembered'
    OBVIOUS
  <2>2. q \in SUBSET Keys
    BY <2>1 DEF _expired_subscription_ids
  <2>3. Becomes(t, Each(Rest, q, "plain", "rest"))
    BY <1>3, <2>1 DEF reconcile_expired_subscription_keys
  <2>4. Outside(Each(Rest, q, "plain", "rest"))
    BY <2>2, RestForm, EachOut DEF Kinds
  <2> QED BY <1>2, <2>3, <2>4, QuietMove
<1>4. CASE mode # "subscription"
  <2>1. tasks' = tasks
    BY <1>4 DEF reconcile_expired_subscription_keys
  <2>2. tasks' \in [Tasks -> Task] /\ \A u \in Tasks : tasks'[u] = tasks[u] \/ tasks'[u] = Rest
    BY <2>1, TaskIs DEF PanelsTypeOK
  <2>3. PaidWell
    BY <1>2, PaidSame DEF Quiet, IInv
  <2>4. RowsWellAlone
    BY <1>2, <2>3, RowsSame DEF Quiet
  <2>5. EnvWell
    BY <1>2, TaskIs DEF Quiet, EnvWell, PanelsTypeOK
  <2>6. panel' = panel /\ settled' = settled /\ given' = given
    BY <1>2 DEF Quiet
  <2> QED BY <2>2, <2>3, <2>4, <2>5, <2>6, FrameStep
<1> QED BY <1>3, <1>4

\* The traffic of a key is set back in its row.
LEMMA RowsReset ==
    ASSUME IInv, NEW k \in Keys, rows[k] # None, PaidWell,
           rows' = Put(k, reset_key_traffic_notification(rows[k]))
    PROVE  RowsWellAlone
<1>1. PICK row \in Row : row = rows[k]
  BY RowOf DEF IInv
<1>2. PICK new : new = [row EXCEPT !.used = 0, !.told = FALSE]
  OBVIOUS
<1>3. new \in Row /\ new.email = row.email /\ new.until = row.until
  <2>1. 0 \in 0 .. Limit
    BY DEF Limit
  <2> QED BY <1>2, <2>1 DEF Row
<1>4. rows' = Put(k, new)
  BY <1>1, <1>2 DEF reset_key_traffic_notification
<1> QED BY <1>1, <1>3, <1>4, PutForm, RowsKept DEF IInv

LEMMA WentOn == ASSUME IInv, NEW t \in Tasks, GoOn(t) PROVE IInv'
<1>1. PICK task \in Task : task = tasks[t]
  BY TaskIs
<1>2. remembered' \subseteq Keys
  BY <1>1, TaskIs, TaskFields DEF GoOn, PanelsTypeOK, OrNone
<1>3. EnvWell /\ PaidWell
  BY <1>2, TaskIs, PaidSame DEF GoOn, history, EnvWell, PanelsTypeOK
<1>4. panel' = panel /\ settled' = settled /\ given' = given
  BY DEF GoOn, history
<1>5. CASE task.queue = {} /\ UNCHANGED rows
           /\ Becomes(t, IF task.then = "rest" THEN Rest
                         ELSE [task EXCEPT !.at = task.then, !.key = None, !.bad = FALSE])
  <2>1. Booked
    BY <1>3, <1>4, <1>5, RowsSame DEF Booked
  <2>2. CASE task.then = "rest"
    BY <1>5, <2>1, <2>2, RestOut, BookedMove
  <2>3. CASE task.then # "rest"
    <3>1. task.then \in {"cycle", "unmake"}
      BY <2>3, TaskFields
    <3>2. task.then \in Places /\ None \in OrNone(Keys)
      BY <3>1, PlacesOfSync, OrNoneIs
    <3>3. PICK r : r = [task EXCEPT !.at = task.then, !.key = None, !.bad = FALSE]
      OBVIOUS
    <3>4. r \in Task /\ r.at = task.then
      BY <3>2, <3>3 DEF Task
    <3>5. Outside(r)
      BY <3>1, <3>4, OutsideAt
    <3> QED BY <1>5, <2>1, <2>3, <3>3, <3>5, BookedMove
  <2> QED BY <2>2, <2>3
<1>6. ASSUME NEW next \in task.queue,
             rows' = IF task.kind = "plain" \/ rows[next] = None THEN rows
                     ELSE Put(next, reset_key_traffic_notification(rows[next])),
             Becomes(t, [task EXCEPT !.at = "lock", !.key = next, !.queue = @ \ {next},
                                     !.reset = task.kind = "reset"])
      PROVE  IInv'
  <2>1. next \in Keys
    BY TaskFields
  <2>2. RowsWellAlone
    <3>1. CASE task.kind = "plain" \/ rows[next] = None
      BY <1>3, <1>6, <3>1, RowsSame
    <3>2. CASE ~(task.kind = "plain" \/ rows[next] = None)
      BY <1>3, <1>6, <2>1, <3>2, RowsReset
    <3> QED BY <3>1, <3>2
  <2>3. Booked
    BY <1>3, <1>4, <2>2 DEF Booked
  <2>4. PICK r : r = [task EXCEPT !.at = "lock", !.key = next, !.queue = @ \ {next},
                                  !.reset = task.kind = "reset"]
    OBVIOUS
  <2>5. "lock" \in Places /\ next \in OrNone(Keys)
    BY <2>1, PlacesOfSync, OrNoneIs
  <2>6. r \in Task /\ r.at = "lock" /\ r.key = next
    BY <2>4, <2>5 DEF Task
  <2>7. Outside(r)
    BY <2>1, <2>6, OutsideWaits
  <2> QED BY <1>6, <2>3, <2>4, <2>7, BookedMove
<1> QED BY <1>1, <1>5, <1>6 DEF GoOn

-----------------------------------------------------------------------------
(* The screens                                                             *)

LEMMA PaidForm ==
    ASSUME PanelsTypeOK, NEW k \in Keys, NEW row \in Row, Paid(k, row)
    PROVE  PaidWell /\ row.until <= paid'[k]
<1>1. row.until \in 0 .. MaxTime /\ row.until \in Nat
  BY RowForm
<1>2. paid \in Terms /\ \A j \in Keys : paid[j] \in Nat
  BY DaysAreNat DEF PanelsTypeOK, Terms
<1>3. PICK d \in 0 .. MaxTime : d = IF row.until > paid[k] THEN row.until ELSE paid[k]
  BY <1>1, <1>2 DEF Terms
<1>4. paid' = [paid EXCEPT ![k] = d]
  BY <1>2, <1>3 DEF Paid, Terms
<1>5. paid' \in Terms /\ \A j \in Keys : paid'[j] = IF j = k THEN d ELSE paid[j]
  BY <1>2, <1>4 DEF Terms
<1>6. row.until <= d /\ paid[k] <= d
  BY <1>1, <1>2, <1>3
<1>7. \A j \in Keys : paid[j] <= paid'[j]
  BY <1>2, <1>5, <1>6
<1> QED BY <1>5, <1>6, <1>7 DEF PaidWell

\* A row that is written with its address and a term that was paid.
LEMMA PaidPut ==
    ASSUME IInv, PaidWell, NEW k \in Keys, NEW row \in Row, rows' = Put(k, row), rows[k] # None,
           row.email = rows[k].email, row.until <= paid'[k]
    PROVE  RowsWellAlone
<1>1. /\ rows' \in RowSet
      /\ \A j \in Keys : rows'[j] = IF j = k THEN row ELSE rows[j]
  BY PutForm DEF IInv
<1>2. ASSUME NEW j \in Keys, rows'[j] # None
      PROVE  rows'[j].email[1] = j /\ rows'[j].until <= paid'[j]
  <2>1. CASE j = k
    <3>1. row.email[1] = k
      BY DEF IInv, RowTrue
    <3> QED BY <1>1, <2>1, <3>1
  <2>2. CASE j # k
    <3>1. PICK old \in Row : old = rows[j] /\ old = rows'[j]
      BY <1>1, <1>2, <2>2, RowOf DEF IInv
    <3>2. old.email[1] = j /\ old.until <= paid[j]
      BY <1>1, <1>2, <2>2, <3>1 DEF IInv, RowTrue
    <3>3. old.until \in Nat
      BY RowForm
    <3>4. paid[j] \in Nat /\ paid'[j] \in Nat /\ paid[j] <= paid'[j]
      BY DaysAreNat DEF IInv, PanelsTypeOK, PaidWell, Terms
    <3> QED BY <3>1, <3>2, <3>3, <3>4
  <2> QED BY <2>1, <2>2
<1> QED BY <1>1, <1>2 DEF RowsWellAlone, RowTrue

LEMMA ExtendForm ==
    ASSUME PanelsTypeOK, NEW row \in Row, NEW span \in Int, extend_vpn_key(row, span).until <= MaxTime
    PROVE  /\ reset_key_traffic_notification(extend_vpn_key(row, span)) \in Row
           /\ reset_key_traffic_notification(extend_vpn_key(row, span)).email = row.email
<1>1. row.until \in Nat /\ MaxTime \in Nat
  BY RowForm, KeyBookAssumption
<1>2. now \in Nat
  BY DaysAreNat DEF PanelsTypeOK
<1>3. PICK base \in Nat : base = IF row.until > now THEN row.until ELSE now
  BY <1>1, <1>2
<1>4. PICK d : d = IF base + span > now THEN base + span ELSE now
  OBVIOUS
<1>5. extend_vpn_key(row, span) = [row EXCEPT !.until = d]
  BY <1>3, <1>4 DEF extend_vpn_key
<1>6. [row EXCEPT !.until = d].until = d
  BY DEF Row
<1>7. d <= MaxTime
  BY <1>5, <1>6
<1>8. d \in 0 .. MaxTime
  BY <1>1, <1>2, <1>3, <1>4, <1>7
<1>9. PICK new : new = [row EXCEPT !.until = d]
  OBVIOUS
<1>10. new \in Row /\ new.email = row.email
  BY <1>8, <1>9 DEF Row
<1>11. 0 \in 0 .. Limit
  BY DEF Limit
<1>12. /\ [new EXCEPT !.used = 0, !.told = FALSE] \in Row
       /\ [new EXCEPT !.used = 0, !.told = FALSE].email = new.email
  BY <1>10, <1>11 DEF Row
<1> QED BY <1>5, <1>9, <1>10, <1>12 DEF reset_key_traffic_notification

LEMMA KeyRenewed ==
    ASSUME IInv, NEW t \in Tasks, NEW op, NEW k \in Keys, NEW span \in Int, renew_key_access(t, op, k, span)
    PROVE  IInv'
<1>1. PanelsTypeOK /\ rows[k] # None
  BY DEF IInv, renew_key_access
<1>2. PICK row \in Row : row = rows[k]
  BY <1>1, RowOf
<1>3. PICK new : new = reset_key_traffic_notification(extend_vpn_key(row, span))
  OBVIOUS
<1>4. rows' = Put(k, new) /\ Paid(k, new)
  BY <1>2, <1>3 DEF renew_key_access
<1>5. new \in Row /\ new.email = row.email
  BY <1>1, <1>2, <1>3, ExtendForm DEF renew_key_access
<1>6. PaidWell /\ new.until <= paid'[k]
  BY <1>1, <1>4, <1>5, PaidForm
<1>7. RowsWellAlone
  BY <1>1, <1>2, <1>4, <1>5, <1>6, PaidPut
<1>8. ops' \subseteq Ops
  BY <1>1, StartIs DEF renew_key_access, Tap
<1>9. EnvWell
  BY <1>1, <1>8 DEF renew_key_access, EnvWell, PanelsTypeOK
<1>10. Booked
  BY <1>6, <1>7, <1>9 DEF renew_key_access, Booked
<1> QED BY <1>10, SyncOut, BookedMove DEF renew_key_access

LEMMA KeyReset == ASSUME IInv, NEW t \in Tasks, NEW k \in Keys, reset_key_traffic(t, k) PROVE IInv'
<1>1. PanelsTypeOK /\ PaidWell
  BY PaidSame DEF IInv, reset_key_traffic, history
<1>2. RowsWellAlone
  BY <1>1, RowsReset DEF reset_key_traffic
<1>3. ops' \subseteq Ops
  BY <1>1, StartIs DEF reset_key_traffic, Tap
<1>4. EnvWell
  BY <1>1, <1>3 DEF reset_key_traffic, EnvWell, PanelsTypeOK
<1>5. Booked
  BY <1>1, <1>2, <1>4 DEF reset_key_traffic, history, Booked
<1> QED BY <1>5, SyncOut, BookedMove DEF reset_key_traffic

LEMMA BanToggled == ASSUME IInv, NEW t \in Tasks, NEW k \in Keys, confirm_ban_toggle(t, k) PROVE IInv'
<1>1. PanelsTypeOK /\ PaidWell
  BY PaidSame DEF IInv, confirm_ban_toggle, history
<1>2. RowsWellAlone
  BY <1>1, RowsSame DEF confirm_ban_toggle
<1>3. ops' \subseteq Ops
  BY <1>1, StartIs DEF confirm_ban_toggle, Tap
<1>4. EnvWell
  BY <1>1, <1>3 DEF confirm_ban_toggle, EnvWell, PanelsTypeOK
<1>5. Booked
  BY <1>1, <1>2, <1>4 DEF confirm_ban_toggle, history, Booked
<1> QED BY <1>5, SyncOut, BookedMove DEF confirm_ban_toggle

LEMMA ReplaceAsked ==
    ASSUME IInv, NEW t \in Tasks, NEW k \in Keys, key_replace_start_handler(t, k) PROVE IInv'
<1>1. ops' \subseteq Ops
  BY TaskIs, StartIs DEF key_replace_start_handler, Tap
<1>2. Quiet
  BY <1>1, TaskIs DEF key_replace_start_handler, book, history, Quiet, PanelsTypeOK
<1>3. PICK rest \in Task : rest = Rest
  BY RestForm
<1>4. PICK r : r = [rest EXCEPT !.at = "confirm", !.key = k]
  OBVIOUS
<1>5. "confirm" \in Places /\ k \in OrNone(Keys)
  BY PlacesOfSync, OrNoneIs
<1>6. r \in Task /\ r.at = "confirm" /\ r.key = k
  BY <1>4, <1>5 DEF Task
<1>7. Outside(r)
  BY <1>6, OutsideWaits
<1> QED BY <1>2, <1>3, <1>4, <1>7, QuietMove DEF key_replace_start_handler

LEMMA DeleteAsked ==
    ASSUME IInv, NEW t \in Tasks, NEW k \in Keys, key_delete_handler(t, k) PROVE IInv'
<1>1. ops' \subseteq Ops
  BY TaskIs, StartIs DEF key_delete_handler, Tap
<1>2. Quiet
  BY <1>1, TaskIs DEF key_delete_handler, book, history, Quiet, PanelsTypeOK
<1>3. PICK rest \in Task : rest = Rest
  BY RestForm
<1>4. PICK r : r = [rest EXCEPT !.at = "forget", !.key = k, !.old = rows[k]]
  OBVIOUS
<1>5. "forget" \in Places /\ k \in OrNone(Keys) /\ rows[k] \in OrNone(Row)
  BY TaskIs, PlacesOfSync, OrNoneIs DEF PanelsTypeOK
<1>6. r \in Task /\ r.at = "forget"
  BY <1>4, <1>5 DEF Task
<1>7. Outside(r)
  BY <1>6, OutsideAt
<1> QED BY <1>2, <1>3, <1>4, <1>7, QuietMove DEF key_delete_handler

\* Rows that stay as they are or go.
LEMMA RowsLost ==
    ASSUME IInv, PaidWell, rows' = [k \in Keys |-> rows'[k]], \A k \in Keys : rows'[k] \in {rows[k], None}
    PROVE  RowsWellAlone
<1>1. rows \in RowSet
  BY DEF IInv, PanelsTypeOK, RowSet
<1>2. \A k \in Keys : rows'[k] \in OrNone(Row)
  BY <1>1, OrNoneIs DEF RowSet
<1>3. rows' \in RowSet
  BY <1>2 DEF RowSet
<1> QED BY <1>3, RowsKept

LEMMA KeyErased ==
    ASSUME IInv, NEW t \in Tasks, NEW k \in Keys, on_key_delete_confirm(t, k) PROVE IInv'
<1>1. PanelsTypeOK /\ PaidWell
  BY PaidSame DEF IInv, on_key_delete_confirm, history
<1>2. rows \in [Keys -> OrNone(Row)] /\ rows' = [rows EXCEPT ![k] = None]
  BY <1>1 DEF PanelsTypeOK, on_key_delete_confirm
<1>3. rows' = [j \in Keys |-> rows'[j]] /\ \A j \in Keys : rows'[j] \in {rows[j], None}
  BY <1>2
<1>4. RowsWellAlone
  BY <1>1, <1>3, RowsLost
<1>5. ops' \subseteq Ops
  BY <1>1, StartIs DEF on_key_delete_confirm, Tap
<1>6. EnvWell
  BY <1>1, <1>5 DEF on_key_delete_confirm, EnvWell, PanelsTypeOK
<1>7. Booked
  BY <1>1, <1>4, <1>6 DEF on_key_delete_confirm, history, Booked
<1>8. PICK rest \in Task : rest = Rest
  BY RestForm
<1>9. PICK r : r = [rest EXCEPT !.at = "erase", !.old = rows[k]]
  OBVIOUS
<1>10. "erase" \in Places /\ rows[k] \in OrNone(Row)
  BY <1>2, PlacesOfSync
<1>11. r \in Task /\ r.at = "erase"
  BY <1>9, <1>10 DEF Task
<1>12. Outside(r)
  BY <1>11, OutsideAt
<1> QED BY <1>7, <1>8, <1>9, <1>12, BookedMove DEF on_key_delete_confirm

LEMMA SweepAsked == ASSUME IInv, NEW t \in Tasks, on_sync_deleted_panel_confirm(t) PROVE IInv'
<1>1. ops' \subseteq Ops
  BY TaskIs, StartIs DEF on_sync_deleted_panel_confirm, Tap
<1>2. Quiet
  BY <1>1, TaskIs DEF on_sync_deleted_panel_confirm, book, history, Quiet, PanelsTypeOK
<1>3. PICK rest \in Task : rest = Rest
  BY RestForm
<1>4. PICK seen : seen = {rows[k].email : k \in {k \in Keys : rows[k] # None}}
  OBVIOUS
<1>5. seen \in SUBSET Emails
  BY <1>4, TaskIs, RowOf, RowForm
<1>6. PICK r : r = [rest EXCEPT !.at = "sweep", !.seen = seen]
  OBVIOUS
<1>7. r \in Task /\ r.at = "sweep"
  BY <1>5, <1>6, PlacesOfSync DEF Task
<1>8. Outside(r)
  BY <1>7, OutsideAt
<1> QED BY <1>2, <1>3, <1>4, <1>6, <1>8, QuietMove DEF on_sync_deleted_panel_confirm

LEMMA MissingAsked ==
    ASSUME IInv, NEW t \in Tasks, NEW s \in Servers, on_sync_db_missing_confirm(t, s) PROVE IInv'
<1>1. ops' \subseteq Ops /\ (slips' = slips \/ Slip)
  BY TaskIs, StartIs DEF on_sync_db_missing_confirm, Tap
<1>2. Quiet
  BY <1>1, TaskIs, SlipIs DEF on_sync_db_missing_confirm, book, history, Quiet, PanelsTypeOK
<1>3. PICK rest \in Task : rest = Rest
  BY RestForm
<1>4. PICK seen : seen = {e \in Emails : At(Presence(s, e)) # {}}
  OBVIOUS
<1>5. seen \in SUBSET Emails /\ s \in OrNone(Row \cup Servers) /\ "missing" \in Places
  BY <1>4, OrNoneIs, PlacesOfSync
<1>6. PICK r : r = [rest EXCEPT !.at = "missing", !.row = s, !.seen = seen]
  OBVIOUS
<1>7. r \in Task /\ r.at = "missing"
  BY <1>5, <1>6 DEF Task
<1>8. Outside(r)
  BY <1>7, OutsideAt
<1>9. Becomes(t, r) \/ Becomes(t, Rest)
  BY <1>3, <1>4, <1>6 DEF on_sync_db_missing_confirm
<1> QED BY <1>2, <1>8, <1>9, RestOut, QuietMove

\* A best-effort deletion of clients on the panels.
Culled == /\ UNCHANGED <<rows, banned, now, mode, meter, remembered, ops>>
          /\ UNCHANGED <<settled, paid, given>>
          /\ slips' \in 0 .. MaxSlips /\ Shrinks

LEMMA CulledMove ==
    ASSUME IInv, NEW t \in Tasks, NEW r, Outside(r), Becomes(t, r), Culled
    PROVE  IInv'
<1>1. EnvWell
  BY TaskIs DEF Culled, EnvWell, PanelsTypeOK
<1>2. tasks' = [tasks EXCEPT ![t] = r]
  BY DEF Becomes
<1> QED BY <1>1, <1>2, QuietStep DEF Culled

LEMMA GoneOrNot ==
    ASSUME PanelsTypeOK, NEW row, \/ panel' = Gone(row) /\ UNCHANGED slips
                                  \/ Slip /\ UNCHANGED panel
    PROVE  Shrinks /\ slips' \in 0 .. MaxSlips
<1>1. slips' = slips \/ Slip
  OBVIOUS
<1>2. slips' \in 0 .. MaxSlips
  BY <1>1, SlipIs
<1> QED BY <1>2, GoneShrinks, PanelSame

LEMMA ClientsGone ==
    ASSUME IInv, NEW t \in Tasks, _delete_old_key_client_best_effort(t) \/ _delete_key_from_panel(t)
    PROVE  IInv'
<1>1. Shrinks /\ slips' \in 0 .. MaxSlips
  BY TaskIs, GoneOrNot DEF _delete_old_key_client_best_effort, _delete_key_from_panel
<1>2. Culled
  BY <1>1 DEF _delete_old_key_client_best_effort, _delete_key_from_panel, history, Culled
<1>3. Becomes(t, Rest)
  BY DEF _delete_old_key_client_best_effort, _delete_key_from_panel
<1> QED BY <1>2, <1>3, RestOut, CulledMove

LEMMA ClientsForgotten == ASSUME IInv, NEW t \in Tasks, ForgetClients(t) PROVE IInv'
<1>1. Shrinks /\ slips' \in 0 .. MaxSlips
  BY TaskIs, GoneOrNot DEF ForgetClients
<1>2. Culled
  BY <1>1 DEF ForgetClients, history, Culled
<1>3. PICK task \in Task : task = tasks[t]
  BY TaskIs
<1>4. PICK r : r = [task EXCEPT !.at = "delete"]
  OBVIOUS
<1>5. r \in Task /\ r.at = "delete"
  BY <1>4, PlacesOfSync DEF Task
<1>6. Outside(r)
  BY <1>5, OutsideAt
<1> QED BY <1>2, <1>3, <1>4, <1>6, CulledMove DEF ForgetClients

LEMMA RowForgotten == ASSUME IInv, NEW t \in Tasks, ForgetRow(t) PROVE IInv'
<1>1. PanelsTypeOK /\ PaidWell
  BY PaidSame DEF IInv, ForgetRow, history
<1>2. PICK k : k = tasks[t].key
  OBVIOUS
<1>3. rows \in [Keys -> OrNone(Row)] /\ rows' = [rows EXCEPT ![k] = None]
  BY <1>1, <1>2 DEF PanelsTypeOK, ForgetRow
<1>4. rows' = [j \in Keys |-> rows'[j]] /\ \A j \in Keys : rows'[j] \in {rows[j], None}
  BY <1>3
<1>5. RowsWellAlone
  BY <1>1, <1>4, RowsLost
<1>6. EnvWell
  BY <1>1 DEF ForgetRow, EnvWell, PanelsTypeOK
<1>7. Booked
  BY <1>1, <1>5, <1>6 DEF ForgetRow, history, Booked
<1> QED BY <1>7, RestOut, BookedMove DEF ForgetRow

LEMMA ServerSwept ==
    ASSUME IInv, NEW t \in Tasks, NEW swept \in SUBSET Servers, SweepServer(t, swept)
    PROVE  IInv'
<1>1. PanelsTypeOK /\ panel \in PanelSet
  BY PanelValues DEF IInv
<1>2. Shrinks
  <2>1. PICK seen : seen = tasks[t].seen
    OBVIOUS
  <2>2. panel' = [s \in Servers |-> [i \in Inbounds |-> [e \in Emails |->
                    IF s \in swept /\ e \notin seen THEN None ELSE panel[s][i][e]]]]
    BY <2>1 DEF SweepServer
  <2>3. \A s \in Servers, i \in Inbounds, e \in Emails :
           panel'[s][i][e] = IF s \in swept /\ e \notin seen THEN None ELSE panel[s][i][e]
    BY <2>2
  <2>4. \A s \in Servers, i \in Inbounds, e \in Emails : panel'[s][i][e] \in OrNone(Client)
    BY <1>1, <2>3, PanelValues, OrNoneIs
  <2>5. panel' \in PanelSet
    BY <2>2, <2>3, <2>4 DEF PanelSet
  <2> QED BY <2>3, <2>5 DEF Shrinks
<1>3. slips' \in 0 .. MaxSlips
  <2>1. slips' = slips \/ Slip
    BY DEF SweepServer
  <2> QED BY <1>1, <2>1, SlipIs
<1>4. Culled
  BY <1>2, <1>3 DEF SweepServer, history, Culled
<1> QED BY <1>4, RestOut, CulledMove DEF SweepServer

LEMMA MissingDeleted == ASSUME IInv, NEW t \in Tasks, DeleteMissing(t) PROVE IInv'
<1>1. PanelsTypeOK /\ PaidWell
  BY PaidSame DEF IInv, DeleteMissing, history
<1>2. rows' = [j \in Keys |-> rows'[j]] /\ \A j \in Keys : rows'[j] \in {rows[j], None}
  BY DEF DeleteMissing
<1>3. RowsWellAlone
  BY <1>1, <1>2, RowsLost
<1>4. EnvWell
  BY <1>1 DEF DeleteMissing, EnvWell, PanelsTypeOK
<1>5. Booked
  BY <1>1, <1>3, <1>4 DEF DeleteMissing, history, Booked
<1> QED BY <1>5, RestOut, BookedMove DEF DeleteMissing

-----------------------------------------------------------------------------
(* Steps of no coroutine                                                   *)

LEMMA AloneMove == ASSUME IInv, UNCHANGED tasks, Booked PROVE IInv'
<1>1. tasks' \in [Tasks -> Task] /\ \A u \in Tasks : tasks'[u] = tasks[u] \/ tasks'[u] = Rest
  BY DEF IInv, PanelsTypeOK
<1> QED BY <1>1, FrameStep DEF Booked

LEMMA ServerForgotten ==
    ASSUME IInv, NEW t \in Tasks, NEW s \in Servers, on_sync_db_unreach_confirm(t, s) PROVE IInv'
<1>1. PanelsTypeOK /\ PaidWell
  BY PaidSame DEF IInv, on_sync_db_unreach_confirm, history
<1>2. rows' = [j \in Keys |-> rows'[j]] /\ \A j \in Keys : rows'[j] \in {rows[j], None}
  BY DEF on_sync_db_unreach_confirm
<1>3. RowsWellAlone
  BY <1>1, <1>2, RowsLost
<1>4. ops' \subseteq Ops
  BY <1>1, StartIs DEF on_sync_db_unreach_confirm, Tap
<1>5. EnvWell
  BY <1>1, <1>4 DEF on_sync_db_unreach_confirm, EnvWell, PanelsTypeOK
<1>6. Booked
  BY <1>1, <1>3, <1>5 DEF on_sync_db_unreach_confirm, history, Booked
<1> QED BY <1>6, AloneMove DEF on_sync_db_unreach_confirm

LEMMA Rewarded == ASSUME IInv, NEW k \in Keys, add_days_to_first_active_key(k) PROVE IInv'
<1>1. PanelsTypeOK /\ rows[k] # None
  BY DEF IInv, add_days_to_first_active_key
<1>2. PICK row \in Row : row = rows[k]
  BY <1>1, RowOf
<1>3. row.until + Day \in 0 .. MaxTime
  BY <1>2, RowForm, KeyBookAssumption DEF add_days_to_first_active_key
<1>4. PICK new : new = [row EXCEPT !.until = @ + Day]
  OBVIOUS
<1>5. new \in Row /\ new.email = row.email
  BY <1>3, <1>4 DEF Row
<1>6. rows' = Put(k, new) /\ Paid(k, new)
  BY <1>2, <1>4 DEF add_days_to_first_active_key
<1>7. PaidWell /\ new.until <= paid'[k]
  BY <1>1, <1>5, <1>6, PaidForm
<1>8. RowsWellAlone
  BY <1>1, <1>2, <1>5, <1>6, <1>7, PaidPut
<1>9. ops' \subseteq Ops
  BY <1>1, StartIs DEF add_days_to_first_active_key
<1>10. EnvWell
  BY <1>1, <1>9 DEF add_days_to_first_active_key, EnvWell, PanelsTypeOK
<1>11. Booked
  BY <1>7, <1>8, <1>10 DEF add_days_to_first_active_key, Booked
<1> QED BY <1>11, AloneMove DEF add_days_to_first_active_key

LEMMA ModeSet == ASSUME IInv, admin_set_bot_mode PROVE IInv'
<1>1. PanelsTypeOK /\ PaidWell
  BY PaidSame DEF IInv, admin_set_bot_mode, history
<1>2. RowsWellAlone
  BY <1>1, RowsSame DEF admin_set_bot_mode
<1>3. ops' \subseteq Ops
  BY <1>1, StartIs DEF admin_set_bot_mode
<1>4. EnvWell
  BY <1>1, <1>3 DEF admin_set_bot_mode, EnvWell, PanelsTypeOK
<1>5. Booked
  BY <1>1, <1>2, <1>4 DEF admin_set_bot_mode, history, Booked
<1> QED BY <1>5, AloneMove DEF admin_set_bot_mode

LEMMA Restarted == ASSUME IInv, Restart PROVE IInv'
<1>1. PanelsTypeOK /\ PaidWell
  BY PaidSame DEF IInv, Restart, history
<1>2. RowsWellAlone
  BY <1>1, RowsSame DEF Restart, book
<1>3. ops' \subseteq Ops
  BY <1>1, StartIs DEF Restart
<1>4. EnvWell
  BY <1>1, <1>3 DEF Restart, book, EnvWell, PanelsTypeOK
<1>5. tasks' \in [Tasks -> Task] /\ \A u \in Tasks : tasks'[u] = tasks[u] \/ tasks'[u] = Rest
  BY RestForm DEF Restart
<1>6. panel' = panel /\ settled' = settled /\ given' = given
  BY DEF Restart, book, history
<1> QED BY <1>1, <1>2, <1>4, <1>5, <1>6, FrameStep

LEMMA MeterReset ==
    ASSUME PanelsTypeOK, NEW s \in Servers, NEW e \in Emails, NEW n \in 0 .. Limit,
           meter' = [meter EXCEPT ![s][e] = n]
    PROVE  meter' \in [Servers -> [Emails -> 0 .. Limit]]
BY DEF PanelsTypeOK

LEMMA TimePasses == ASSUME IInv, Environment PROVE IInv'
<1>1. PanelsTypeOK /\ PaidWell
  BY PaidSame DEF IInv, Environment, history
<1>2. rows' = rows /\ panel' = panel /\ UNCHANGED tasks /\ settled' = settled /\ given' = given
  BY DEF Environment, Tick, Use, history
<1>3. RowsWellAlone
  BY <1>1, <1>2, RowsSame
<1>4. now' \in 0 .. MaxTime
  <2>1. now \in 0 .. MaxTime /\ MaxTime \in Nat
    BY <1>1, KeyBookAssumption DEF PanelsTypeOK
  <2>2. now' = now \/ (now < MaxTime /\ now' = now + 1)
    BY DEF Environment, Tick, Use
  <2>3. CASE now' = now
    BY <2>1, <2>3
  <2>4. CASE now < MaxTime /\ now' = now + 1
    BY <2>1, <2>4
  <2> QED BY <2>2, <2>3, <2>4
<1>5. meter' \in [Servers -> [Emails -> 0 .. Limit]]
  <2>1. CASE Tick
    BY <1>1, <2>1 DEF Tick, PanelsTypeOK
  <2>2. ASSUME NEW s \in Servers, NEW e \in Emails, Use(s, e)
        PROVE  meter' \in [Servers -> [Emails -> 0 .. Limit]]
    <3>1. PICK n : n = meter[s][e] + 1
      OBVIOUS
    <3>2. meter[s][e] \in 0 .. Limit
      BY <1>1 DEF PanelsTypeOK
    <3>3. n \in 0 .. Limit
      BY <2>2, <3>1, <3>2 DEF Use, Limit
    <3>4. meter' = [meter EXCEPT ![s][e] = n]
      BY <1>1, <2>2, <3>1 DEF Use, PanelsTypeOK
    <3> QED BY <1>1, <3>3, <3>4, MeterReset
  <2> QED BY <2>1, <2>2 DEF Environment
<1>6. EnvWell
  <2>1. banned' = banned /\ mode' = mode
    BY DEF Environment, Tick, Use
  <2>2. remembered' = remembered /\ ops' = ops /\ slips' = slips
    BY DEF Environment
  <2> QED BY <1>1, <1>4, <1>5, <2>1, <2>2 DEF EnvWell, PanelsTypeOK
<1>7. Booked
  BY <1>1, <1>2, <1>3, <1>6 DEF Booked
<1> QED BY <1>2, <1>7, AloneMove

-----------------------------------------------------------------------------
(* A synchronisation                                                       *)

\* What HandTrue says of a coroutine that works on clients.
Sound(r) == /\ r.key \in Keys /\ r.row \in Row /\ r.row.email[1] = r.key
            /\ r.row.until <= paid[r.key] /\ settled[r.key] = None
            /\ r.by \in Modes /\ r.here \in Presences
Plans(r) ==
    /\ r.at \in Aiming => r.aim \in Client /\ r.aim.until = r.row.until
    /\ r.at = "fill" => /\ r.aim.on => r.expiry < paid[r.key] + Day
                        /\ \A i \in r.left : r.here[i] = None
    /\ r.at = "trim" /\ ~r.bad => \E m \in Inbounds \ r.left : At(r.here) = r.left \cup {m}
    /\ r.at \in {"reset", "set"} /\ Shared => \E m \in Inbounds : r.left \subseteq {m}

LEMMA WritingIs ==
    ASSUME NEW at, at \in Writing
    PROVE  at \in Inside /\ at \notin {"lock", "confirm", "make", "poll", "write", "list"}
<1>1. at \in {"drop", "fill", "trim", "reset", "set"}
  BY PlacesOfSync
<1> QED BY <1>1, PlacesOfSync

LEMMA HandIs ==
    ASSUME NEW r, HandTrue(r), r.at \in Writing
    PROVE  Sound(r) /\ Plans(r)
<1>1. r.at \in Inside
  BY WritingIs
<1> QED BY <1>1 DEF HandTrue, Sound, Plans

LEMMA HandNext ==
    ASSUME NEW r, r.at \in Writing, Sound(r), Plans(r), settled' = settled, paid' = paid
    PROVE  HandTrue(r)'
<1>1. r.at \in Inside /\ r.at \notin {"lock", "confirm", "make", "poll", "write", "list"}
  BY WritingIs
<1> QED BY <1>1 DEF HandTrue, Sound, Plans

AllFit == \A s \in Servers, i \in Inbounds, e \in Emails :
             panel'[s][i][e] # None => panel'[s][i][e] = panel[s][i][e] \/ Fits(panel'[s][i][e], e)

Synced(t) == /\ RowsWell(t) /\ EnvWell /\ OnlyAt(tasks[t].row.email) /\ AllFit
             /\ settled' = settled /\ paid' = paid /\ given' = given
Continues(t, r) == /\ tasks[t].at \in Writing /\ r \in Task /\ r.at \in Writing
                   /\ r.key = tasks[t].key /\ r.row.email = tasks[t].row.email

LEMMA SyncStep ==
    ASSUME IInv, NEW t \in Tasks, NEW r, Continues(t, r), Becomes(t, r), Sound(r), Plans(r),
           KnownTrue(r)', Synced(t)
    PROVE  IInv'
<1>1. r \in Task /\ r.at \in Inside /\ tasks[t].at \in Inside /\ r.key = tasks[t].key
      /\ r.row.email = tasks[t].row.email /\ r.at # "make" /\ tasks[t].at # "make"
  BY WritingIs DEF Continues
<1>2. Within(t, r)
  BY <1>1 DEF Within, Known
<1>3. HandTrue(r)'
  BY HandNext DEF Continues, Synced
<1>4. Unsettles(t)
  <2>1. settled[tasks[t].key] = None
    BY <1>1 DEF Sound
  <2>2. settled \in SettledSet
    BY DEF IInv, PanelsTypeOK, SettledSet
  <2> QED BY <1>1, <2>1, <2>2 DEF Unsettles, Synced
<1>5. tasks' = [tasks EXCEPT ![t] = r]
  BY DEF Becomes
<1>6. /\ RowsWell(t) /\ EnvWell /\ OnlyAt(tasks[t].row.email) /\ paid' = paid /\ given' = given
      /\ \A s \in Servers, i \in Inbounds, e \in Emails :
             panel'[s][i][e] # None => panel'[s][i][e] = panel[s][i][e] \/ Fits(panel'[s][i][e], e)
  BY DEF Synced, AllFit
<1> QED BY <1>2, <1>3, <1>4, <1>5, <1>6, WithinStep

\* A step that leaves the rows and writes or deletes clients of one address.
Worked == /\ UNCHANGED <<rows, banned, now, mode, meter, remembered, ops>>
          /\ UNCHANGED <<settled, paid, given>> /\ (slips' = slips \/ Slip)

LEMMA WorkedSynced ==
    ASSUME IInv, NEW t \in Tasks, Worked, OnlyAt(tasks[t].row.email), AllFit
    PROVE  Synced(t)
<1>1. EnvWell /\ PaidWell
  BY TaskIs, EnvStays, PaidSame DEF Worked, EnvSame
<1>2. RowsWell(t)
  BY <1>1, RowsSame, AloneWell DEF Worked
<1> QED BY <1>1, <1>2 DEF Worked, Synced

LEMMA ShrinksFit == ASSUME Shrinks, NEW e PROVE AllFit /\ OnlyAt(e)
BY ShrinksOnly DEF Shrinks, AllFit

LEMMA HiddenDropped == ASSUME IInv, NEW t \in Tasks, DropHidden(t) PROVE IInv'
<1>1. PICK task \in Task : task = tasks[t] /\ HandTrue(task) /\ KnownTrue(task) /\ PanelsTypeOK
  BY TaskIs
<1>2. task.at = "drop" /\ task.left # {} /\ task.at \in Writing
  BY <1>1, PlacesOfSync DEF DropHidden
<1>3. Sound(task)
  BY <1>1, <1>2, HandIs
<1>4. PICK i \in Inbounds : i = Least(task.left) /\ i \in task.left
  BY <1>2, TaskFields, LeastInbound
<1>5. Worked
  BY <1>1 DEF DropHidden, Call, Worked, history
<1>6. PICK less : less = [task EXCEPT !.left = @ \ {i}]
  OBVIOUS
<1>7. PICK ill : ill = [less EXCEPT !.bad = TRUE]
  OBVIOUS
<1>8. \/ panel' = delete_client(task.row.server, i, task.row.email) /\ Becomes(t, less)
      \/ panel' = panel /\ Becomes(t, ill)
  BY <1>1, <1>4, <1>6, <1>7 DEF DropHidden, Call
<1>9. less \in Task /\ less.at = "drop" /\ less.key = task.key /\ less.row = task.row
       /\ less.by = task.by /\ less.here = task.here /\ less.left = task.left \ {i} /\ less.bad = task.bad
  BY <1>2, <1>6 DEF Task
<1>10. CASE panel' = delete_client(task.row.server, i, task.row.email) /\ Becomes(t, less)
  <2>1. less \in Task /\ less.at = "drop" /\ less.key = task.key /\ less.row = task.row
        /\ less.by = task.by /\ less.here = task.here /\ less.left = task.left \ {i} /\ less.bad = task.bad
    BY <1>9
  <2>2. Shrinks
    BY <1>1, <1>10, DeleteShrinks
  <2>3. Sound(less) /\ Plans(less)
    BY <1>3, <2>1 DEF Sound, Plans, Aiming
  <2>4. Continues(t, less)
    BY <1>1, <1>2, <2>1, PlacesOfSync DEF Continues
  <2>5. task.row.server \in Servers /\ task.row.email \in Emails
    BY <1>3, RowForm DEF Sound
  <2>6. \A j \in Inbounds : Found(less, j)' = IF j = i THEN None ELSE Found(task, j)
    BY <1>1, <1>10, <2>1, <2>5, DeleteForm DEF Found
  <2>7. KnownTrue(less)'
    BY <1>1, <1>2, <2>1, <2>6 DEF KnownTrue
  <2>8. Synced(t)
    BY <1>5, <2>2, ShrinksFit, WorkedSynced
  <2> QED BY <1>10, <2>3, <2>4, <2>7, <2>8, SyncStep
<1>11. CASE panel' = panel /\ Becomes(t, ill)
  <2>1. ill \in Task /\ ill.at = "drop" /\ ill.key = task.key /\ ill.row = task.row
        /\ ill.by = task.by /\ ill.here = task.here /\ ill.bad
    BY <1>7, <1>9 DEF Task
  <2>2. Sound(ill) /\ Plans(ill)
    BY <1>3, <2>1 DEF Sound, Plans, Aiming
  <2>3. Continues(t, ill)
    BY <1>1, <1>2, <2>1, PlacesOfSync DEF Continues
  <2>4. KnownTrue(ill)'
    BY <2>1 DEF KnownTrue
  <2>5. Synced(t)
    BY <1>1, <1>5, <1>11, PanelSame, ShrinksFit, WorkedSynced
  <2> QED BY <1>11, <2>2, <2>3, <2>4, <2>5, SyncStep
<1> QED BY <1>8, <1>10, <1>11

\* A call that fails, or a client that is not there.
LEMMA IllStep ==
    ASSUME IInv, NEW t \in Tasks, NEW r, Continues(t, r), Becomes(t, r), Sound(r), Plans(r), r.bad,
           Worked, panel' = panel
    PROVE  IInv'
<1>1. KnownTrue(r)'
  BY DEF KnownTrue
<1>2. Synced(t)
  BY TaskIs, PanelSame, ShrinksFit, WorkedSynced
<1> QED BY <1>1, <1>2, SyncStep

LEMMA ClientIs ==
    ASSUME NEW r \in Task, r.aim \in Client
    PROVE  /\ [on |-> r.aim.on, until |-> r.expiry] \in Client
           /\ r.aim.on \in BOOLEAN /\ r.aim.until \in Moments
BY TaskFields DEF Client

LEMMA ClientFilled == ASSUME IInv, NEW t \in Tasks, FillIn(t) PROVE IInv'
<1>1. PICK task \in Task : task = tasks[t] /\ HandTrue(task) /\ KnownTrue(task) /\ PanelsTypeOK
  BY TaskIs
<1>2. task.at = "fill" /\ task.left # {} /\ task.at \in Writing /\ task.at \in Aiming
  BY <1>1, PlacesOfSync DEF FillIn, Aiming
<1>3. Sound(task) /\ Plans(task)
  BY <1>1, <1>2, HandIs
<1>4. PICK i \in Inbounds : i = Least(task.left) /\ i \in task.left
  BY <1>2, TaskFields, LeastInbound
<1>5. PICK client : client = [on |-> task.aim.on, until |-> task.expiry]
  OBVIOUS
<1>6. /\ client \in Client /\ client \in OrNone(Client) /\ task.aim \in Client
      /\ client.on = task.aim.on /\ client.until = task.expiry
  BY <1>2, <1>3, <1>5, ClientIs, OrNoneIs DEF Plans
<1>7. Worked
  BY <1>1 DEF FillIn, Worked, history
<1>8. PICK less : less = [task EXCEPT !.left = @ \ {i}]
  OBVIOUS
<1>9. less \in Task /\ less.at = "fill" /\ less.key = task.key /\ less.row = task.row /\ less.aim = task.aim
      /\ less.by = task.by /\ less.here = task.here /\ less.left = task.left \ {i}
      /\ less.bad = task.bad /\ less.expiry = task.expiry /\ less.fresh = task.fresh
  BY <1>2, <1>8 DEF Task
<1>10. PICK more : more = [less EXCEPT !.here[i] = client, !.fresh = @ \cup {i}]
  OBVIOUS
<1>11. PICK ill : ill = [less EXCEPT !.bad = TRUE]
  OBVIOUS
<1>12. \/ panel' = add_client(task.row.server, i, task.row.email, client) /\ Becomes(t, more)
       \/ panel' = panel /\ Becomes(t, ill)
  BY <1>1, <1>4, <1>5, <1>8, <1>10, <1>11 DEF FillIn
<1>13. CASE panel' = add_client(task.row.server, i, task.row.email, client) /\ Becomes(t, more)
  <2>1. PICK here : here = [less.here EXCEPT ![i] = client]
    OBVIOUS
  <2>2. less.here \in Presences
    BY <1>3, <1>9 DEF Sound
  <2>3. here \in Presences /\ here \in OrNone(Presences)
        /\ \A j \in Inbounds : here[j] = IF j = i THEN client ELSE less.here[j]
    BY <1>6, <2>1, <2>2, OrNoneIs DEF Presences
  <2>4. more = [less EXCEPT !.here = here, !.fresh = @ \cup {i}]
    BY <1>10, <2>1
  <2>5. more \in Task /\ more.at = "fill" /\ more.key = task.key /\ more.row = task.row /\ more.aim = task.aim
        /\ more.by = task.by /\ more.here = here /\ more.left = task.left \ {i}
        /\ more.bad = task.bad /\ more.expiry = task.expiry
    BY <1>9, <2>3, <2>4 DEF Task
  <2>6. Sound(more) /\ Plans(more)
    <3>1. Sound(more)
      BY <1>3, <2>3, <2>5 DEF Sound
    <3>2. \A j \in more.left : more.here[j] = None
      <4>1. more.left \subseteq Inbounds
        BY <2>5, TaskFields
      <4> QED BY <1>2, <1>3, <1>9, <2>3, <2>5, <4>1 DEF Plans
    <3>3. more.aim.on => more.expiry < paid[more.key] + Day
      BY <1>2, <1>3, <2>5 DEF Plans
    <3>4. more.aim \in Client /\ more.aim.until = more.row.until
      BY <1>2, <1>3, <2>5 DEF Plans
    <3> QED BY <2>5, <3>1, <3>2, <3>3, <3>4 DEF Plans
  <2>7. Continues(t, more)
    BY <1>1, <1>2, <2>5, PlacesOfSync DEF Continues
  <2>8. task.row.server \in Servers /\ task.row.email \in Emails
    BY <1>3, RowForm DEF Sound
  <2>9. /\ panel' \in PanelSet
        /\ \A z \in Servers, j \in Inbounds, f \in Emails :
             panel'[z][j][f] = IF z = task.row.server /\ j = i /\ f = task.row.email
                                  /\ panel[task.row.server][i][task.row.email] = None
                               THEN client ELSE panel[z][j][f]
    BY <1>1, <1>6, <1>13, <2>8, AddForm
  <2>10. KnownTrue(more)'
    <3>1. ASSUME ~more.bad, NEW j \in Inbounds, Found(more, j)' # None PROVE Found(more, j)' = more.here[j]
      <4>1. Found(more, j)' = IF j = i /\ Found(task, i) = None THEN client ELSE Found(task, j)
        BY <2>5, <2>8, <2>9 DEF Found
      <4>2. \A l \in Inbounds : Found(task, l) # None => Found(task, l) = task.here[l]
        BY <1>1, <1>2, <2>5, <3>1 DEF KnownTrue
      <4>3. task.here[i] = None
        BY <1>2, <1>3, <1>4 DEF Plans
      <4> QED BY <1>9, <2>3, <2>5, <3>1, <4>1, <4>2, <4>3
    <3> QED BY <2>5, <3>1 DEF KnownTrue
  <2>11. OnlyAt(tasks[t].row.email)
    BY <1>1, <2>9 DEF OnlyAt
  <2>12. AllFit
    <3>1. client.on => client.until < paid'[task.row.email[1]] + Day
      BY <1>2, <1>3, <1>6, <1>7 DEF Plans, Sound, Worked
    <3> QED BY <2>9, <3>1 DEF AllFit, Fits
  <2>13. Synced(t)
    BY <1>7, <2>11, <2>12, WorkedSynced
  <2> QED BY <1>13, <2>6, <2>7, <2>10, <2>13, SyncStep
<1>14. CASE panel' = panel /\ Becomes(t, ill)
  <2>1. ill \in Task /\ ill.at = "fill" /\ ill.key = task.key /\ ill.row = task.row /\ ill.aim = task.aim
        /\ ill.by = task.by /\ ill.here = task.here /\ ill.bad /\ ill.left = task.left \ {i}
        /\ ill.expiry = task.expiry
    BY <1>9, <1>11 DEF Task
  <2>2. Sound(ill) /\ Plans(ill)
    BY <1>2, <1>3, <2>1 DEF Sound, Plans
  <2>3. Continues(t, ill)
    BY <1>1, <1>2, <2>1, PlacesOfSync DEF Continues
  <2> QED BY <1>7, <1>14, <2>1, <2>2, <2>3, IllStep
<1> QED BY <1>12, <1>13, <1>14

LEMMA SurplusCounted == ASSUME IInv, NEW t \in Tasks, CountSurplus(t) PROVE IInv'
<1>1. PICK task \in Task : task = tasks[t] /\ HandTrue(task) /\ KnownTrue(task) /\ PanelsTypeOK
  BY TaskIs
<1>2. task.at = "fill" /\ task.at \in Writing /\ task.at \in Aiming
  BY <1>1, PlacesOfSync DEF CountSurplus, Aiming
<1>3. Sound(task) /\ Plans(task)
  BY <1>1, <1>2, HandIs
<1>4. Worked /\ panel' = panel
  BY DEF CountSurplus, Worked, book, history
<1>5. PICK there : there = At(task.here)
  OBVIOUS
<1>6. there \subseteq Inbounds /\ there # {}
  BY <1>1, <1>5 DEF CountSurplus, At
<1>7. PICK m \in Inbounds : m = Least(there) /\ m \in there
  BY <1>6, LeastInbound
<1>8. PICK r : r = [task EXCEPT !.at = "trim", !.left = there \ {m}]
  OBVIOUS
<1>9. r \in Task /\ r.at = "trim" /\ r.key = task.key /\ r.row = task.row /\ r.aim = task.aim
      /\ r.by = task.by /\ r.here = task.here /\ r.left = there \ {m} /\ r.bad = task.bad
  BY <1>6, <1>8, PlacesOfSync DEF Task
<1>10. Becomes(t, r)
  BY <1>1, <1>5, <1>7, <1>8 DEF CountSurplus
<1>11. Sound(r)
  BY <1>3, <1>9 DEF Sound
<1>12. Plans(r)
  <2>1. At(r.here) = r.left \cup {m} /\ m \in Inbounds \ r.left
    BY <1>5, <1>7, <1>9
  <2> QED BY <1>2, <1>3, <1>9, <2>1 DEF Plans
<1>13. Continues(t, r)
  BY <1>1, <1>2, <1>9, PlacesOfSync DEF Continues
<1>14. \A j \in Inbounds : Found(r, j)' = Found(task, j)
  BY <1>4, <1>9 DEF Found
<1>15. KnownTrue(r)'
  BY <1>1, <1>2, <1>9, <1>14 DEF KnownTrue
<1>16. Synced(t)
  BY <1>1, <1>4, PanelSame, ShrinksFit, WorkedSynced
<1> QED BY <1>10, <1>11, <1>12, <1>13, <1>15, <1>16, SyncStep

LEMMA SurplusTrimmed == ASSUME IInv, NEW t \in Tasks, TrimSurplus(t) PROVE IInv'
<1>1. PICK task \in Task : task = tasks[t] /\ HandTrue(task) /\ KnownTrue(task) /\ PanelsTypeOK
  BY TaskIs
<1>2. task.at = "trim" /\ task.left # {} /\ task.at \in Writing /\ task.at \in Aiming
  BY <1>1, PlacesOfSync DEF TrimSurplus, Aiming
<1>3. Sound(task) /\ Plans(task)
  BY <1>1, <1>2, HandIs
<1>4. PICK i \in Inbounds : i = Least(task.left) /\ i \in task.left
  BY <1>2, TaskFields, LeastInbound
<1>5. Worked
  BY <1>1 DEF TrimSurplus, Worked, history
<1>6. PICK less : less = [task EXCEPT !.left = @ \ {i}, !.here[i] = None]
  OBVIOUS
<1>7. PICK ill : ill = [task EXCEPT !.left = @ \ {i}, !.bad = TRUE]
  OBVIOUS
<1>8. \/ panel' = delete_client(task.row.server, i, task.row.email) /\ Becomes(t, less)
      \/ panel' = panel /\ Becomes(t, ill)
  BY <1>1, <1>4, <1>6, <1>7 DEF TrimSurplus
<1>9. CASE panel' = delete_client(task.row.server, i, task.row.email) /\ Becomes(t, less)
  <2>1. PICK here : here = [task.here EXCEPT ![i] = None]
    OBVIOUS
  <2>2. here \in Presences /\ here \in OrNone(Presences)
        /\ \A j \in Inbounds : here[j] = IF j = i THEN None ELSE task.here[j]
    BY <1>3, <2>1, OrNoneIs DEF Sound, Presences
  <2>3. less = [task EXCEPT !.left = @ \ {i}, !.here = here]
    BY <1>6, <2>1
  <2>4. less \in Task /\ less.at = "trim" /\ less.key = task.key /\ less.row = task.row /\ less.aim = task.aim
        /\ less.by = task.by /\ less.here = here /\ less.left = task.left \ {i} /\ less.bad = task.bad
    BY <1>2, <2>2, <2>3 DEF Task
  <2>5. Sound(less)
    BY <1>3, <2>2, <2>4 DEF Sound
  <2>6. Plans(less)
    <3>1. ASSUME ~less.bad PROVE \E m \in Inbounds \ less.left : At(less.here) = less.left \cup {m}
      <4>1. PICK m \in Inbounds \ task.left : At(task.here) = task.left \cup {m}
        BY <1>2, <1>3, <2>4, <3>1 DEF Plans
      <4>2. At(here) = At(task.here) \ {i}
        BY <2>2 DEF At
      <4>3. At(less.here) = less.left \cup {m}
        BY <1>4, <2>4, <4>1, <4>2
      <4> QED BY <2>4, <4>1, <4>3
    <3> QED BY <1>2, <1>3, <2>4, <3>1 DEF Plans
  <2>7. Continues(t, less)
    BY <1>1, <1>2, <2>4, PlacesOfSync DEF Continues
  <2>8. task.row.server \in Servers /\ task.row.email \in Emails
    BY <1>3, RowForm DEF Sound
  <2>9. \A j \in Inbounds : Found(less, j)' = IF j = i THEN None ELSE Found(task, j)
    BY <1>1, <1>9, <2>4, <2>8, DeleteForm DEF Found
  <2>10. KnownTrue(less)'
    BY <1>1, <1>2, <2>2, <2>4, <2>9 DEF KnownTrue
  <2>11. Synced(t)
    BY <1>1, <1>5, <1>9, DeleteShrinks, ShrinksFit, WorkedSynced
  <2> QED BY <1>9, <2>5, <2>6, <2>7, <2>10, <2>11, SyncStep
<1>10. CASE panel' = panel /\ Becomes(t, ill)
  <2>1. ill \in Task /\ ill.at = "trim" /\ ill.key = task.key /\ ill.row = task.row /\ ill.aim = task.aim
        /\ ill.by = task.by /\ ill.here = task.here /\ ill.bad
    BY <1>2, <1>7 DEF Task
  <2>2. Sound(ill) /\ Plans(ill)
    BY <1>2, <1>3, <2>1 DEF Sound, Plans
  <2>3. Continues(t, ill)
    BY <1>1, <1>2, <2>1, PlacesOfSync DEF Continues
  <2> QED BY <1>5, <1>10, <2>1, <2>2, <2>3, IllStep
<1> QED BY <1>8, <1>9, <1>10

LEMMA TrafficReset == ASSUME IInv, NEW t \in Tasks, ResetTraffic(t) PROVE IInv'
<1>1. PICK task \in Task : task = tasks[t] /\ HandTrue(task) /\ KnownTrue(task) /\ PanelsTypeOK
  BY TaskIs
<1>2. task.at = "reset" /\ task.at \in Writing /\ task.at \in Aiming
  BY <1>1, PlacesOfSync DEF ResetTraffic, Aiming
<1>3. Sound(task) /\ Plans(task)
  BY <1>1, <1>2, HandIs
<1>4. task.row.server \in Servers /\ task.row.email \in Emails
  BY <1>3, RowForm DEF Sound
<1>5. meter' \in [Servers -> [Emails -> 0 .. Limit]]
  <2>1. CASE meter' = meter
    BY <1>1, <2>1 DEF PanelsTypeOK
  <2>2. CASE meter' # meter
    <3>1. 0 \in 0 .. Limit
      BY DEF Limit
    <3>2. meter' = [meter EXCEPT ![task.row.server][task.row.email] = 0]
      BY <1>1, <2>2 DEF ResetTraffic, reset_client_traffic
    <3> QED BY <1>1, <1>4, <3>1, <3>2, MeterReset
  <2> QED BY <2>1, <2>2
<1>6. slips' \in 0 .. MaxSlips
  <2>1. slips' = slips \/ Slip
    BY DEF ResetTraffic
  <2> QED BY <1>1, <2>1, SlipIs
<1>7. EnvWell
  BY <1>1, <1>5, <1>6 DEF ResetTraffic, EnvWell, PanelsTypeOK
<1>8. UNCHANGED <<rows, panel>> /\ settled' = settled /\ paid' = paid /\ given' = given
  BY DEF ResetTraffic, history
<1>9. Synced(t)
  <2>1. PaidWell
    BY <1>1, <1>8, PaidSame
  <2>2. RowsWell(t)
    BY <1>8, <2>1, RowsSame, AloneWell
  <2>3. OnlyAt(tasks[t].row.email) /\ AllFit
    BY <1>1, <1>8, PanelSame, ShrinksFit
  <2> QED BY <1>7, <1>8, <2>2, <2>3 DEF Synced
<1>10. PICK well : well = [task EXCEPT !.at = "set"]
  OBVIOUS
<1>11. PICK ill : ill = [task EXCEPT !.at = "set", !.bad = TRUE]
  OBVIOUS
<1>12. PICK r \in {well, ill} : Becomes(t, r)
  BY <1>1, <1>10, <1>11 DEF ResetTraffic
<1>13. r \in Task /\ r.at = "set" /\ r.key = task.key /\ r.row = task.row /\ r.aim = task.aim
       /\ r.by = task.by /\ r.here = task.here /\ r.left = task.left /\ (r.bad \/ r.bad = task.bad)
  <2>1. "set" \in Places
    BY PlacesOfSync
  <2>2. CASE r = well
    BY <1>10, <2>1, <2>2 DEF Task
  <2>3. CASE r = ill
    BY <1>11, <2>1, <2>3 DEF Task
  <2> QED BY <2>2, <2>3
<1>14. Sound(r)
  BY <1>3, <1>13 DEF Sound
<1>15. Plans(r)
  BY <1>2, <1>3, <1>13 DEF Plans
<1>16. Continues(t, r)
  BY <1>1, <1>2, <1>13, PlacesOfSync DEF Continues
<1>17. \A j \in Inbounds : Found(r, j)' = Found(task, j)
  BY <1>8, <1>13 DEF Found
<1>18. KnownTrue(r)'
  BY <1>1, <1>2, <1>13, <1>17 DEF KnownTrue
<1> QED BY <1>9, <1>12, <1>14, <1>15, <1>16, <1>18, SyncStep

LEMMA ClientWritten == ASSUME IInv, NEW t \in Tasks, WriteClient(t) PROVE IInv'
<1>1. PICK task \in Task : task = tasks[t] /\ HandTrue(task) /\ KnownTrue(task) /\ PanelsTypeOK
  BY TaskIs
<1>2. task.at = "set" /\ task.left # {} /\ task.at \in Writing /\ task.at \in Aiming
  BY <1>1, PlacesOfSync DEF WriteClient, Aiming
<1>3. Sound(task) /\ Plans(task)
  BY <1>1, <1>2, HandIs
<1>4. PICK i \in Inbounds : i = Least(task.left) /\ i \in task.left
  BY <1>2, TaskFields, LeastInbound
<1>5. Worked
  BY <1>1 DEF WriteClient, Worked, history
<1>6. PICK less : less = [task EXCEPT !.left = @ \ {i}]
  OBVIOUS
<1>7. PICK ill : ill = [less EXCEPT !.bad = TRUE]
  OBVIOUS
<1>8. \/ panel' = update_client_full(task.row.server, i, task.row.email, task.aim) /\ Becomes(t, less)
      \/ panel' = panel /\ Becomes(t, ill)
  BY <1>1, <1>4, <1>6, <1>7 DEF WriteClient
<1>9. less \in Task /\ less.at = "set" /\ less.key = task.key /\ less.row = task.row /\ less.aim = task.aim
      /\ less.by = task.by /\ less.here = task.here /\ less.left = task.left \ {i} /\ less.bad = task.bad
  BY <1>2, <1>6 DEF Task
<1>10. Shared => \E m \in Inbounds : less.left \subseteq {m}
  BY <1>2, <1>3, <1>9 DEF Plans
<1>11. task.aim \in Client /\ task.aim.until = task.row.until
  BY <1>2, <1>3 DEF Plans
<1>12. CASE panel' = update_client_full(task.row.server, i, task.row.email, task.aim) /\ Becomes(t, less)
  <2>1. Sound(less) /\ Plans(less)
    BY <1>3, <1>9, <1>10, <1>11 DEF Sound, Plans
  <2>2. Continues(t, less)
    BY <1>1, <1>2, <1>9, PlacesOfSync DEF Continues
  <2>3. task.row.server \in Servers /\ task.row.email \in Emails
    BY <1>3, RowForm DEF Sound
  <2>4. /\ panel' \in PanelSet
        /\ \A z \in Servers, j \in Inbounds, f \in Emails :
             panel'[z][j][f] = IF z = task.row.server /\ (j = i \/ Shared) /\ f = task.row.email
                                  /\ panel[task.row.server][j][task.row.email] # None
                               THEN task.aim ELSE panel[z][j][f]
    BY <1>1, <1>11, <1>12, <2>3, WriteForm
  <2>5. KnownTrue(less)'
    <3>1. ASSUME ~less.bad, NEW j \in Inbounds, Found(less, j)' # None
          PROVE  \/ Found(less, j)' = less.aim \/ j \in less.left \/ (Shared /\ less.left # {})
      <4>1. Found(less, j)' = IF (j = i \/ Shared) /\ Found(task, j) # None THEN task.aim ELSE Found(task, j)
        BY <1>9, <2>3, <2>4 DEF Found
      <4>2. Found(task, j) # None => \/ Found(task, j) = task.aim \/ j \in task.left \/ Shared
        BY <1>1, <1>2, <1>9, <3>1 DEF KnownTrue
      <4> QED BY <1>9, <3>1, <4>1, <4>2
    <3> QED BY <1>9, <3>1 DEF KnownTrue
  <2>6. OnlyAt(tasks[t].row.email)
    BY <1>1, <2>4 DEF OnlyAt
  <2>7. AllFit
    <3>1. task.aim.until < paid'[task.row.email[1]] + Day
      <4>1. task.aim.until = task.row.until /\ task.row.until <= paid[task.key] /\ task.row \in Row
            /\ task.key \in Keys /\ task.row.email[1] = task.key /\ paid' = paid
        BY <1>3, <1>5, <1>11 DEF Sound, Worked
      <4>2. task.row.until \in Nat /\ paid[task.key] \in Nat
        BY <1>1, <4>1, RowForm, DaysAreNat DEF PanelsTypeOK
      <4> QED BY <4>1, <4>2, KeyBookAssumption
    <3> QED BY <2>4, <3>1 DEF AllFit, Fits
  <2>8. Synced(t)
    BY <1>5, <2>6, <2>7, WorkedSynced
  <2> QED BY <1>12, <2>1, <2>2, <2>5, <2>8, SyncStep
<1>13. CASE panel' = panel /\ Becomes(t, ill)
  <2>1. ill \in Task /\ ill.at = "set" /\ ill.key = task.key /\ ill.row = task.row /\ ill.aim = task.aim
        /\ ill.by = task.by /\ ill.here = task.here /\ ill.bad /\ ill.left = less.left
    BY <1>7, <1>9 DEF Task
  <2>2. Sound(ill) /\ Plans(ill)
    BY <1>3, <1>10, <1>11, <2>1 DEF Sound, Plans
  <2>3. Continues(t, ill)
    BY <1>1, <1>2, <2>1, PlacesOfSync DEF Continues
  <2> QED BY <1>5, <1>13, <2>1, <2>2, <2>3, IllStep
<1> QED BY <1>8, <1>12, <1>13

LEMMA AimForm ==
    ASSUME PanelsTypeOK, NEW row \in Row, NEW ban \in BOOLEAN
    PROVE  /\ Aim(row, ban) \in Client /\ Aim(row, ban).until = row.until
           /\ Aim(row, ban).on => row.until > now
<1>1. row.until \in Moments
  BY RowForm
<1> QED BY <1>1 DEF Aim, Client, is_key_active

LEMMA DivFacts ==
    ASSUME NEW a \in Int
    PROVE  (a \div Day) \in Int /\ Day * (a \div Day) <= a /\ a < Day * (a \div Day) + Day
BY KeyBookAssumption, SMTT(30)

LEMMA PaidForLonger ==
    ASSUME NEW end \in Nat, NEW until \in Nat, NEW longer \in Nat,
           end < until + Day, until <= longer
    PROVE  end < longer + Day
BY KeyBookAssumption

\* Days rounded up end less than a day after the term they were counted for.
LEMMA ExpiryForm ==
    ASSUME PanelsTypeOK, NEW row \in Row
    PROVE  /\ Expiry(DaysLeft(row.until)) \in Moments
           /\ row.until > now => Expiry(DaysLeft(row.until)) < row.until + Day
<1>1. row.until \in Nat /\ row.until <= MaxTime /\ now \in Nat /\ now <= MaxTime
      /\ Day \in Nat /\ Day > 0 /\ MaxTime \in Nat
  <2>1. row.until \in 0 .. MaxTime /\ now \in 0 .. MaxTime
    BY RowForm DEF PanelsTypeOK
  <2>2. MaxTime \in Nat /\ Day \in Nat /\ Day > 0
    BY KeyBookAssumption
  <2> QED BY <2>1, <2>2
<1>2. PICK a \in Int : a = row.until - now + Day - 1
  BY <1>1
<1>3. PICK left \in Int : left = a \div Day
  BY DivFacts
<1>4. Day * left <= a /\ a < Day * left + Day
  BY <1>3, DivFacts
<1>5. DaysLeft(row.until) = IF left > 1 THEN left ELSE 1
  BY <1>2, <1>3 DEF DaysLeft
<1>6. CASE left > 1
  <2>1. PICK m \in Int : m = Day * left
    BY <1>1
  <2>2. Expiry(DaysLeft(row.until)) = now + m
    BY <1>5, <1>6, <2>1 DEF Expiry
  <2>3. m >= 0
    BY <1>1, <1>6, <2>1, SMTT(30)
  <2>4. m <= row.until - now + Day - 1
    BY <1>2, <1>4, <2>1
  <2>5. now + m \in 0 .. MaxTime + Day /\ now + m < row.until + Day
    BY <1>1, <2>3, <2>4
  <2> QED BY <2>2, <2>5 DEF Moments
<1>7. CASE ~(left > 1)
  <2>1. Expiry(DaysLeft(row.until)) = now + Day
    BY <1>1, <1>5, <1>7 DEF Expiry
  <2>2. now + Day \in 0 .. MaxTime + Day /\ (row.until > now => now + Day < row.until + Day)
    BY <1>1
  <2> QED BY <2>1, <2>2 DEF Moments
<1> QED BY <1>6, <1>7

LEMMA MissingForm ==
    ASSUME NEW task \in Task, Sound(task)
    PROVE  Missing(task) \subseteq Inbounds
           /\ \A i \in Missing(task) : i \in Visible(task.by) => task.here[i] = None
<1>1. task.row.main \in Inbounds /\ Public \subseteq Inbounds
  BY RowForm, KeyBookAssumption DEF Sound
<1>2. CASE task.by = "subscription"
  BY <1>1, <1>2 DEF Missing, Visible, At
<1>3. CASE task.by # "subscription"
  BY <1>1, <1>3 DEF Missing, Visible, At
<1> QED BY <1>2, <1>3

LEMMA MissingCounted == ASSUME IInv, NEW t \in Tasks, CountMissing(t) PROVE IInv'
<1>1. PICK task \in Task : task = tasks[t] /\ HandTrue(task) /\ KnownTrue(task) /\ PanelsTypeOK
  BY TaskIs
<1>2. task.at = "drop" /\ task.left = {} /\ task.at \in Writing
  BY <1>1, PlacesOfSync DEF CountMissing
<1>3. Sound(task)
  BY <1>1, <1>2, HandIs
<1>4. PICK sub \in BOOLEAN : sub = (task.row.sub \/ task.by = "subscription")
  OBVIOUS
<1>5. PICK row : row = [task.row EXCEPT !.sub = sub]
  OBVIOUS
<1>6. row \in Row /\ row \in OrNone(Row \cup Servers) /\ row.email = task.row.email
      /\ row.server = task.row.server /\ row.until = task.row.until
  <2>1. row \in Row /\ row.email = task.row.email /\ row.server = task.row.server
        /\ row.until = task.row.until
    BY <1>3, <1>5 DEF Sound, Row
  <2> QED BY <2>1, OrNoneIs
<1>7. PICK here : here = [i \in Inbounds |-> IF i \in Visible(task.by) THEN task.here[i] ELSE None]
  OBVIOUS
<1>8. here \in Presences /\ here \in OrNone(Presences)
      /\ \A i \in Inbounds : here[i] = IF i \in Visible(task.by) THEN task.here[i] ELSE None
  BY <1>3, <1>7, OrNoneIs DEF Sound, Presences
<1>9. PICK aim : aim = Aim(task.row, task.ban)
  OBVIOUS
<1>10. PICK end : end = Expiry(DaysLeft(task.row.until))
  OBVIOUS
<1>11. /\ aim \in Client /\ aim \in OrNone(Client) /\ aim.until = task.row.until /\ end \in Moments
       /\ aim.on => end < task.row.until + Day
  <2>1. task.ban \in BOOLEAN /\ task.row \in Row
    BY <1>3, TaskFields DEF Sound
  <2> QED BY <1>1, <1>9, <1>10, <2>1, AimForm, ExpiryForm, OrNoneIs
<1>12. PICK left : left = Missing(task)
  OBVIOUS
<1>13. left \subseteq Inbounds /\ \A i \in left : here[i] = None
  BY <1>3, <1>8, <1>12, MissingForm
<1>14. PICK a : a = [task EXCEPT !.at = "fill", !.left = left, !.row = row]
  OBVIOUS
<1>15. a \in Task /\ a.at = "fill" /\ a.key = task.key /\ a.row = row /\ a.left = left
       /\ a.by = task.by /\ a.bad = task.bad
  BY <1>6, <1>13, <1>14, PlacesOfSync DEF Task
<1>16. PICK r : r = [a EXCEPT !.aim = aim, !.expiry = end, !.here = here]
  OBVIOUS
<1>17. r \in Task /\ r.at = "fill" /\ r.key = task.key /\ r.row = row /\ r.left = left
       /\ r.by = task.by /\ r.bad = task.bad /\ r.aim = aim /\ r.expiry = end /\ r.here = here
  BY <1>8, <1>11, <1>15, <1>16 DEF Task
<1>18. Becomes(t, r)
  BY <1>1, <1>4, <1>5, <1>7, <1>9, <1>10, <1>12, <1>14, <1>16 DEF CountMissing
<1>19. Sound(r)
  BY <1>3, <1>6, <1>8, <1>17 DEF Sound
<1>20. Plans(r)
  <2>1. end \in Nat /\ task.row.until \in Nat /\ paid[task.key] \in Nat
    BY <1>1, <1>3, <1>11, RowForm, DaysAreNat DEF Sound, PanelsTypeOK
  <2>2. task.row.until <= paid[task.key]
    BY <1>3 DEF Sound
  <2>3. r.aim.on => r.expiry < paid[r.key] + Day
    BY <1>11, <1>17, <2>1, <2>2, DaysAreNat
  <2> QED BY <1>6, <1>11, <1>13, <1>17, <2>3 DEF Plans
<1>21. Continues(t, r)
  BY <1>1, <1>2, <1>6, <1>17, PlacesOfSync DEF Continues
<1>22. UNCHANGED <<panel>> /\ settled' = settled /\ paid' = paid /\ given' = given
  BY DEF CountMissing, history
<1>23. KnownTrue(r)'
  <2>1. \A j \in Inbounds : Found(r, j)' = Found(task, j)
    BY <1>6, <1>17, <1>22 DEF Found
  <2> QED BY <1>1, <1>2, <1>8, <1>17, <2>1 DEF KnownTrue
<1>24. PaidWell
  BY <1>1, <1>22, PaidSame
<1>25. RowsWellAlone
  <2>1. PICK k \in Keys : k = task.key
    BY <1>3 DEF Sound
  <2>2. rows' = rows \/ rows' = Put(k, [rows[k] EXCEPT !.sub = TRUE])
    BY <1>1, <2>1 DEF CountMissing
  <2>3. CASE rows' = rows
    BY <1>24, <2>3, RowsSame
  <2>4. CASE rows' = Put(k, [rows[k] EXCEPT !.sub = TRUE])
    <3>1. CASE rows[k] = None
      <4>1. rows' = rows
        BY <1>1, <2>4, <3>1 DEF Put, PanelsTypeOK
      <4> QED BY <1>24, <4>1, RowsSame
    <3>2. CASE rows[k] # None
      <4>1. PICK old \in Row : old = rows[k]
        BY <1>1, <3>2, RowOf
      <4>2. PICK new : new = [old EXCEPT !.sub = TRUE]
        OBVIOUS
      <4>3. new \in Row /\ new.email = old.email /\ new.until = old.until
        BY <4>2 DEF Row
      <4>4. rows' = Put(k, new)
        BY <2>4, <4>1, <4>2
      <4> QED BY <1>1, <1>24, <3>2, <4>1, <4>3, <4>4, PutForm, RowsKept
    <3> QED BY <3>1, <3>2
  <2> QED BY <2>2, <2>3, <2>4
<1>26. EnvWell
  BY <1>1 DEF CountMissing, EnvWell, PanelsTypeOK
<1>27. Synced(t)
  <2>1. RowsWell(t)
    BY <1>25, AloneWell
  <2>2. OnlyAt(tasks[t].row.email) /\ AllFit
    BY <1>1, <1>22, PanelSame, ShrinksFit
  <2> QED BY <1>22, <1>26, <2>1, <2>2 DEF Synced
<1> QED BY <1>18, <1>19, <1>20, <1>21, <1>23, <1>27, SyncStep

\* A row gets the address that is in hand.
LEMMA MovedPut ==
    ASSUME IInv, PaidWell, NEW t \in Tasks, Known(tasks[t]), tasks[t].row \in Row, NEW k \in Keys,
           tasks[t].row.email[1] = k, NEW m \in Inbounds, NEW sub, rows[k] # None => sub \in BOOLEAN,
           rows' = Put(k, update_vpn_key_config(rows[k], tasks[t].row.server, tasks[t].row.email, m, sub))
    PROVE  RowsWell(t)
<1>1. PICK held \in Row : held = tasks[t].row
  OBVIOUS
<1>2. CASE rows[k] = None
  <2>1. rows' = rows
    BY <1>2 DEF Put, IInv, PanelsTypeOK
  <2> QED BY <2>1, RowsSame, AloneWell
<1>3. CASE rows[k] # None
  <2>1. PICK row \in Row : row = rows[k]
    BY <1>3, RowOf DEF IInv
  <2>2. PICK new : new = [row EXCEPT !.server = held.server, !.email = held.email, !.main = m, !.sub = sub]
    OBVIOUS
  <2>3. new \in Row /\ new.email = held.email /\ new.until = row.until
    BY <1>3, <2>2, RowForm DEF Row
  <2>4. rows' = Put(k, new)
    BY <1>1, <2>1, <2>2 DEF update_vpn_key_config
  <2>5. /\ rows' \in RowSet
        /\ \A j \in Keys : rows'[j] = IF j = k THEN new ELSE rows[j]
    BY <1>3, <2>3, <2>4, PutForm DEF IInv
  <2>6. ASSUME NEW j \in Keys, rows'[j] # None
        PROVE  rows'[j].email[1] = j /\ rows'[j].until <= paid'[j]
    <3>1. PICK old \in Row : old = rows[j] /\ rows[j] # None
      BY <1>3, <2>5, <2>6, RowOf DEF IInv
    <3>2. old.email[1] = j /\ old.until <= paid[j]
      BY <3>1 DEF IInv, RowTrue
    <3>3. old.until \in Nat
      BY RowForm
    <3>4. paid[j] \in Nat /\ paid'[j] \in Nat /\ paid[j] <= paid'[j]
      BY DaysAreNat DEF IInv, PanelsTypeOK, PaidWell, Terms
    <3>5. old.until <= paid'[j]
      BY <3>2, <3>3, <3>4
    <3>6. CASE j = k
      BY <1>1, <2>1, <2>3, <2>5, <3>1, <3>5, <3>6
    <3>7. CASE j # k
      BY <2>5, <3>1, <3>2, <3>5, <3>7
    <3> QED BY <3>6, <3>7
  <2>7. ASSUME NEW j \in Keys, rows'[j] # None
        PROVE  \/ rows[j] # None /\ rows'[j].email = rows[j].email
               \/ Known(tasks[t]) /\ rows'[j].email = tasks[t].row.email
    BY <1>1, <2>3, <2>5, <2>7
  <2> QED BY <2>5, <2>6, <2>7 DEF RowsWell, RowTrue, RowSet
<1> QED BY <1>2, <1>3

LEMMA AddressRecorded == ASSUME IInv, NEW t \in Tasks, RecordAddress(t) PROVE IInv'
<1>1. PICK task \in Task : task = tasks[t] /\ HandTrue(task) /\ KnownTrue(task) /\ PanelsTypeOK
  BY TaskIs
<1>2. task.at \in {"fill", "trim"} /\ task.at \in Writing /\ task.at \in Aiming /\ task.left = {}
      /\ (task.by # "subscription" => task.at = "trim")
  BY <1>1, PlacesOfSync DEF RecordAddress, Aiming
<1>3. Sound(task) /\ Plans(task)
  BY <1>1, <1>2, HandIs
<1>4. PICK there : there = At(task.here)
  OBVIOUS
<1>5. there \subseteq Inbounds /\ there # {}
  BY <1>1, <1>4 DEF RecordAddress, At
<1>6. PICK m \in Inbounds : m = Least(there) /\ m \in there
  BY <1>5, LeastInbound
<1>7. PICK written : written = IF task.by = "subscription" THEN there ELSE {m}
  OBVIOUS
<1>8. PICK old : old = {i \in written : _client_needs_panel_update(task, i)}
  OBVIOUS
<1>9. PICK left : left = IF Shared /\ old # {} THEN {m} ELSE old
  OBVIOUS
<1>10. left \subseteq Inbounds /\ (Shared => left \subseteq {m})
  BY <1>5, <1>7, <1>8, <1>9
<1>11. PICK at \in {"reset", "set"} : at = IF task.reset THEN "reset" ELSE "set"
  OBVIOUS
<1>12. at \in Places /\ at \in Writing
  BY <1>11, PlacesOfSync
<1>13. PICK r : r = [task EXCEPT !.at = at, !.left = left]
  OBVIOUS
<1>14. r \in Task /\ r.at = at /\ r.key = task.key /\ r.row = task.row /\ r.aim = task.aim
       /\ r.by = task.by /\ r.here = task.here /\ r.left = left /\ r.bad = task.bad
  BY <1>10, <1>12, <1>13 DEF Task
<1>15. Becomes(t, r)
  BY <1>1, <1>4, <1>6, <1>7, <1>8, <1>9, <1>11, <1>13 DEF RecordAddress
<1>16. Sound(r)
  BY <1>3, <1>14 DEF Sound
<1>17. Plans(r)
  BY <1>2, <1>3, <1>10, <1>11, <1>14 DEF Plans
<1>18. Continues(t, r)
  BY <1>1, <1>2, <1>12, <1>14 DEF Continues
<1>19. UNCHANGED <<panel>> /\ settled' = settled /\ paid' = paid /\ given' = given
  BY DEF RecordAddress, history
<1>20. KnownTrue(r)'
  <2>1. \A j \in Inbounds : Found(r, j)' = Found(task, j)
    BY <1>14, <1>19 DEF Found
  <2>2. ASSUME ~r.bad, NEW j \in Inbounds, Found(task, j) # None
        PROVE  \/ Found(task, j) = task.aim \/ j \in left \/ (Shared /\ left # {})
    <3>1. Found(task, j) = task.here[j] /\ j \in there
      BY <1>1, <1>2, <1>4, <1>14, <2>2 DEF KnownTrue, At
    <3>2. j \in written
      <4>1. CASE task.by = "subscription"
        BY <1>7, <3>1, <4>1
      <4>2. CASE task.by # "subscription"
        <5>1. PICK x \in Inbounds : there = {x}
          BY <1>2, <1>3, <1>4, <1>14, <2>2, <4>2 DEF Plans
        <5> QED BY <1>6, <1>7, <3>1, <4>2, <5>1
      <4> QED BY <4>1, <4>2
    <3>3. CASE j \in old
      BY <1>9, <3>3
    <3>4. CASE j \notin old
      BY <1>8, <3>1, <3>2, <3>4 DEF _client_needs_panel_update
    <3> QED BY <3>3, <3>4
  <2> QED BY <1>11, <1>14, <2>1, <2>2 DEF KnownTrue
<1>21. PaidWell
  BY <1>1, <1>19, PaidSame
<1>22. RowsWell(t)
  <2>1. PICK k \in Keys : k = task.key /\ task.row \in Row /\ task.row.email[1] = k
    BY <1>3 DEF Sound
  <2>2. PICK sub : sub = IF task.by = "subscription" THEN TRUE ELSE rows[k].sub
    OBVIOUS
  <2>3. rows[k] # None => sub \in BOOLEAN
    BY <1>1, <2>2, RowOf DEF Row
  <2>4. rows' = rows
        \/ rows' = Put(k, update_vpn_key_config(rows[k], task.row.server, task.row.email, m, sub))
    BY <1>1, <1>4, <1>6, <2>1, <2>2 DEF RecordAddress
  <2>5. Known(tasks[t])
    BY <1>1, <1>2, WritingIs DEF Known
  <2>6. CASE rows' = rows
    BY <1>21, <2>6, RowsSame, AloneWell
  <2>7. CASE rows' = Put(k, update_vpn_key_config(rows[k], task.row.server, task.row.email, m, sub))
    BY <1>1, <1>21, <2>1, <2>3, <2>5, <2>7, MovedPut
  <2> QED BY <2>4, <2>6, <2>7
<1>23. EnvWell
  BY <1>1 DEF RecordAddress, EnvWell, PanelsTypeOK
<1>24. Synced(t)
  <2>1. OnlyAt(tasks[t].row.email) /\ AllFit
    BY <1>1, <1>19, PanelSame, ShrinksFit
  <2> QED BY <1>19, <1>22, <1>23, <2>1 DEF Synced
<1> QED BY <1>15, <1>16, <1>17, <1>18, <1>20, <1>24, SyncStep

LEMMA ServerListed == ASSUME IInv, NEW t \in Tasks, Listed(t) PROVE IInv'
<1>1. PICK task \in Task : task = tasks[t] /\ HandTrue(task) /\ KnownTrue(task) /\ PanelsTypeOK
  BY TaskIs
<1>2. task.at = "list" /\ task.at \in Inside
  BY <1>1, PlacesOfSync DEF Listed
<1>3. /\ task.key \in Keys /\ task.row \in Row /\ task.row.email[1] = task.key
      /\ task.row.until <= paid[task.key]
  BY <1>1, <1>2 DEF HandTrue
<1>4. task.row.server \in Servers /\ task.row.email \in Emails
  BY <1>3, RowForm
<1>5. slips' = slips \/ Slip
  BY DEF Listed
<1>6. CASE Becomes(t, Unreachable(task)) /\ settled' = settled
  <2>1. Quiet
    BY <1>1, <1>5, <1>6, SlipIs DEF Listed, Quiet, book, PanelsTypeOK
  <2>2. Outside(Over(task))
    BY OverOut
  <2> QED BY <1>6, <2>1, <2>2, QuietMove DEF Unreachable
<1>7. CASE ~(Becomes(t, Unreachable(task)) /\ settled' = settled)
  <2>1. PICK here : here = Presence(task.row.server, task.row.email)
    OBVIOUS
  <2>2. here \in Presences /\ here \in OrNone(Presences)
        /\ \A i \in Inbounds : here[i] = panel[task.row.server][i][task.row.email]
    <3>1. \A i \in Inbounds : panel[task.row.server][i][task.row.email] \in OrNone(Client)
      BY <1>1, <1>4, PanelValues
    <3> QED BY <2>1, <3>1, OrNoneIs DEF Presence, Presences
  <2>3. PICK left : left = At(here) \ Visible(mode)
    OBVIOUS
  <2>4. left \subseteq Inbounds /\ "drop" \in Places /\ mode \in Modes /\ mode \in OrNone(Modes)
    BY <1>1, <2>3, PlacesOfSync, OrNoneIs DEF At, PanelsTypeOK
  <2>5. PICK r : r = [task EXCEPT !.at = "drop", !.here = here, !.by = mode, !.left = left]
    OBVIOUS
  <2>6. r \in Task /\ r.at = "drop" /\ r.key = task.key /\ r.row = task.row /\ r.by = mode
        /\ r.here = here /\ r.left = left
    BY <2>2, <2>4, <2>5 DEF Task
  <2>7. Becomes(t, r) /\ settled' = [settled EXCEPT ![task.key] = None]
    BY <1>1, <1>7, <2>1, <2>3, <2>5 DEF Listed
  <2>8. UNCHANGED <<rows, panel>> /\ paid' = paid /\ given' = given
    BY DEF Listed, book
  <2>9. settled \in SettledSet /\ settled'[task.key] = None
        /\ \A k \in Keys : settled'[k] # None => settled'[k] = settled[k]
    BY <1>1, <1>3, <2>7 DEF PanelsTypeOK, SettledSet
  <2>10. settled' \in SettledSet
    <3>1. None \in OrNone(Settlement)
      BY OrNoneIs
    <3> QED BY <2>7, <2>9, <3>1 DEF SettledSet
  <2>11. r.at \in Inside /\ r.at \in Writing /\ r.at \notin Aiming
         /\ r.at \notin {"lock", "confirm", "make", "fill", "trim", "reset", "set", "poll", "write"}
    BY <2>6, PlacesOfSync DEF Aiming
  <2>12. HandTrue(r)'
    BY <1>3, <2>2, <2>4, <2>6, <2>8, <2>9, <2>11 DEF HandTrue
  <2>13. \A i \in Inbounds : Found(r, i)' = here[i]
    BY <2>2, <2>6, <2>8 DEF Found
  <2>14. KnownTrue(r)'
    BY <2>3, <2>6, <2>13 DEF KnownTrue, At
  <2>15. Within(t, r)
    BY <1>1, <1>2, <2>6, <2>11 DEF Within, Known
  <2>16. Unsettles(t)
    BY <1>1, <1>2, <2>9, <2>10 DEF Unsettles
  <2>17. PaidWell
    BY <1>1, <2>8, PaidSame
  <2>18. RowsWell(t)
    BY <2>8, <2>17, RowsSame, AloneWell
  <2>19. OnlyAt(tasks[t].row.email) /\ AllFit
    BY <1>1, <2>8, PanelSame, ShrinksFit
  <2>20. EnvWell
    BY <1>1, <1>5, EnvStays DEF Listed, book, EnvSame
  <2>21. tasks' = [tasks EXCEPT ![t] = r]
    BY <2>7 DEF Becomes
  <2>22. \A s \in Servers, i \in Inbounds, e \in Emails :
             panel'[s][i][e] # None => panel'[s][i][e] = panel[s][i][e] \/ Fits(panel'[s][i][e], e)
    BY <2>19 DEF AllFit
  <2> QED BY <2>8, <2>12, <2>14, <2>15, <2>16, <2>18, <2>19, <2>20, <2>21, <2>22, WithinStep
<1> QED BY <1>6, <1>7

LEMMA KeyRead == ASSUME IInv, NEW t \in Tasks, ReadKey(t) PROVE IInv'
<1>1. PICK task \in Task : task = tasks[t] /\ HandTrue(task) /\ KnownTrue(task) /\ PanelsTypeOK
  BY TaskIs
<1>2. PICK k \in Keys : k = task.key /\ LockFree(k)
  BY <1>1 DEF ReadKey, HandTrue
<1>3. Quiet
  BY <1>1 DEF ReadKey, Quiet, book, history, PanelsTypeOK
<1>4. CASE rows[k] = None
  <2>1. PICK well : well = [task EXCEPT !.bad = FALSE]
    OBVIOUS
  <2>2. well \in Task
    BY <2>1 DEF Task
  <2>3. Becomes(t, Over(well))
    BY <1>1, <1>2, <1>4, <2>1 DEF ReadKey
  <2> QED BY <1>3, <2>2, <2>3, OverOut, QuietMove
<1>5. CASE rows[k] # None
  <2>1. PICK row \in Row : row = rows[k]
    BY <1>1, <1>5, RowOf
  <2>2. PICK ban \in BOOLEAN : ban = (k \in banned)
    <3>1. (k \in banned) \in BOOLEAN
      OBVIOUS
    <3> QED BY <3>1, Zenon
  <2>3. PICK r : r = Reads(task, row, ban)
    OBVIOUS
  <2>4. r \in Task /\ r.at = "list" /\ r.key = k /\ r.row = row
    BY <1>2, <2>3, ReadsForm
  <2>5. tasks' = [tasks EXCEPT ![t] = r]
    BY <1>1, <1>2, <1>5, <2>1, <2>2, <2>3 DEF ReadKey, Reads, Becomes
  <2>6. rows' = rows /\ panel' = panel /\ settled' = settled /\ paid' = paid /\ given' = given
    BY <1>3 DEF Quiet
  <2>7. PaidWell /\ GivenWell
    BY <1>1, <2>6, PaidSame
  <2>8. RowsWellAlone /\ RowsWell(t)
    BY <2>6, <2>7, RowsSame, AloneWell
  <2>9. EnvWell
    BY <1>1, <1>3 DEF Quiet, EnvWell, PanelsTypeOK
  <2>10. row.email[1] = k /\ row.until <= paid[k]
    BY <1>5, <2>1 DEF IInv, RowTrue
  <2>11. r.at \in Inside
         /\ r.at \notin {"lock", "confirm", "make", "drop", "fill", "trim", "reset", "set", "poll", "write"}
    BY <2>4, PlacesOfSync
  <2>12. HandTrue(r)'
    BY <2>4, <2>6, <2>10, <2>11, PlacesOfSync DEF HandTrue, Aiming
  <2>13. KnownTrue(r)'
    BY <2>4 DEF KnownTrue
  <2>14. PICK e : e \notin Emails
    BY NoSetContainsEverything
  <2>15. OnlyAt(e) /\ Shrinks
    BY <1>1, <2>6, PanelSame, ShrinksOnly
  <2>16. ASSUME NEW u \in Tasks, u # t, tasks[u].at \in Writing
         PROVE  settled'[tasks[u].key] = None /\ tasks[u].row.email # e
    <3>1. tasks[u].at \in Inside /\ HandTrue(tasks[u])
      BY <2>16, WritingIs, TaskIs
    <3> QED BY <2>6, <2>14, <2>16, <3>1, InsideForm DEF HandTrue
  <2>17. tasks' \in [Tasks -> Task] /\ \A u \in Tasks : HandTrue(tasks[u])' /\ KnownTrue(tasks[u])'
    BY <2>4, <2>5, <2>7, <2>12, <2>13, <2>15, <2>16, TasksMove
  <2>18. OneInside'
    <3>1. \A u \in Tasks : u # t => ~(tasks[u].at \in Inside /\ tasks[u].key = r.key)
      BY <1>2, <2>4 DEF LockFree
    <3> QED BY <2>4, <2>5, <3>1, OneMoves
  <2>19. AddressTrue'
    <3>1. r.key \in Keys /\ rows[r.key] # None /\ r.row.email = rows[r.key].email
      BY <1>5, <2>1, <2>4
    <3>2. r.at # "make"
      BY <2>4
    <3>3. \A j \in Keys : settled'[j] # None =>
              \/ settled[j] # None /\ settled'[j].email = settled[j].email
              \/ Known(tasks[t]) /\ settled'[j].email = tasks[t].row.email
      BY <2>6
    <3> QED BY <2>4, <2>5, <2>7, <2>8, <3>1, <3>2, <3>3, AddressMoves
  <2>20. settled' \in SettledSet
    BY <1>1, <2>6 DEF PanelsTypeOK, SettledSet
  <2>21. \A j \in Keys : settled'[j] # None => settled'[j] = settled[j] /\ settled[j].email # e
    <3>1. ASSUME NEW j \in Keys, settled[j] # None PROVE settled[j].email \in Emails
      BY <2>6, <2>20, <3>1, SettlementForm DEF SettledSet, OrNone
    <3> QED BY <2>6, <2>14, <3>1
  <2>22. SettledTrue' /\ LastSyncStands'
    BY <2>7, <2>15, <2>20, <2>21, SettledStays
  <2>23. OverByLessThanADay'
    BY <2>6, <2>7, PaidStays
  <2> QED BY <2>7, <2>8, <2>9, <2>15, <2>17, <2>18, <2>19, <2>20, <2>22, <2>23, Whole
          DEF RowsWellAlone, Shrinks
<1> QED BY <1>4, <1>5

LEMMA SyncEnded == ASSUME IInv, NEW t \in Tasks, EndOfSync(t) PROVE IInv'
<1>1. PICK task \in Task : task = tasks[t] /\ HandTrue(task) /\ KnownTrue(task) /\ PanelsTypeOK
  BY TaskIs
<1>2. task.at = "set" /\ task.left = {} /\ task.at \in Writing /\ task.at \in Aiming /\ task.at \in Inside
  BY <1>1, PlacesOfSync DEF EndOfSync, Aiming
<1>3. Sound(task) /\ Plans(task)
  BY <1>1, <1>2, HandIs
<1>4. PICK r : r = Over(task)
  OBVIOUS
<1>5. Outside(r) /\ r \in Task /\ Becomes(t, r)
  BY <1>1, <1>4, OverOut DEF EndOfSync, Outside
<1>6. CASE task.bad
  <2>1. Quiet
    BY <1>1, <1>6 DEF EndOfSync, book, Quiet, PanelsTypeOK
  <2> QED BY <1>5, <2>1, QuietMove
<1>7. CASE ~task.bad
  <2>1. PICK k \in Keys : k = task.key
    BY <1>3 DEF Sound
  <2>2. task.row \in Row /\ task.row.server \in Servers /\ task.row.email \in Emails /\ task.row.email[1] = k
    BY <1>3, <2>1, RowForm DEF Sound
  <2>3. task.aim \in Client /\ task.aim.on \in BOOLEAN /\ task.aim.until \in Moments
        /\ task.aim = [on |-> task.aim.on, until |-> task.aim.until]
    BY <1>2, <1>3 DEF Plans, Client
  <2>4. PICK st : st = [server |-> task.row.server, email |-> task.row.email,
                        on |-> task.aim.on, until |-> task.aim.until]
    OBVIOUS
  <2>5. st \in Settlement /\ st \in OrNone(Settlement) /\ st.server = task.row.server
        /\ st.email = task.row.email /\ task.aim = [on |-> st.on, until |-> st.until]
    BY <2>2, <2>3, <2>4, OrNoneIs DEF Settlement
  <2>6. settled' = [settled EXCEPT ![k] = st]
    BY <1>1, <1>7, <2>1, <2>4 DEF EndOfSync
  <2>7. settled \in SettledSet
    BY <1>1 DEF PanelsTypeOK, SettledSet
  <2>8. settled' \in SettledSet /\ \A j \in Keys : settled'[j] = IF j = k THEN st ELSE settled[j]
    BY <2>5, <2>6, <2>7 DEF SettledSet
  <2>9. rows' = rows /\ panel' = panel /\ paid' = paid /\ given' = given
    BY DEF EndOfSync, book
  <2>10. PaidWell /\ GivenWell
    BY <1>1, <2>9, PaidSame
  <2>11. RowsWellAlone /\ RowsWell(t)
    BY <2>9, <2>10, RowsSame, AloneWell
  <2>12. EnvWell
    BY <1>1 DEF EndOfSync, book, EnvWell, PanelsTypeOK
  <2>13. PICK e : e \notin Emails
    BY NoSetContainsEverything
  <2>14. OnlyAt(e) /\ Shrinks
    BY <1>1, <2>9, PanelSame, ShrinksOnly
  <2>15. tasks' = [tasks EXCEPT ![t] = r]
    BY <1>5 DEF Becomes
  <2>16. ASSUME NEW u \in Tasks, u # t, tasks[u].at \in Writing
         PROVE  settled'[tasks[u].key] = None /\ tasks[u].row.email # e
    <3>1. tasks[u].at \in Inside /\ HandTrue(tasks[u])
      BY <2>16, WritingIs, TaskIs
    <3>2. tasks[u].key # k
      BY <1>1, <1>2, <2>1, <2>16, <3>1 DEF IInv, OneInside
    <3>3. tasks[u].row.email \in Emails /\ tasks[u].key \in Keys
      BY <3>1, InsideForm
    <3>4. settled[tasks[u].key] = None
      BY <2>16, <3>1 DEF HandTrue
    <3> QED BY <2>8, <2>13, <3>2, <3>3, <3>4
  <2>17. HandTrue(r)' /\ KnownTrue(r)'
    BY <1>5, OutsideHand
  <2>18. tasks' \in [Tasks -> Task] /\ \A u \in Tasks : HandTrue(tasks[u])' /\ KnownTrue(tasks[u])'
    BY <1>5, <2>10, <2>14, <2>15, <2>16, <2>17, TasksMove
  <2>19. ~Known(r)
    BY <1>5 DEF Outside
  <2>20. OneInside'
    BY <1>5, <2>15, <2>19, OneMoves DEF Known
  <2>21. AddressTrue'
    <3>1. \A j \in Keys : settled'[j] # None =>
              \/ settled[j] # None /\ settled'[j].email = settled[j].email
              \/ Known(tasks[t]) /\ settled'[j].email = tasks[t].row.email
      BY <1>1, <1>2, <2>5, <2>8 DEF Known
    <3>2. r.at # "make"
      BY <2>19 DEF Known
    <3> QED BY <1>5, <2>10, <2>11, <2>15, <2>19, <3>1, <3>2, AddressMoves
  <2>22. SettledTrue'
    <3>1. st.until = task.row.until /\ task.row.until <= paid[k]
      BY <1>2, <1>3, <2>1, <2>4 DEF Sound, Plans
    <3> QED BY <2>2, <2>5, <2>8, <2>9, <3>1 DEF IInv, SettledTrue
  <2>23. LastSyncStands'
    <3>1. ASSUME NEW j \in Keys, settled'[j] # None, NEW i \in Inbounds,
                 panel'[settled'[j].server][i][settled'[j].email] # None
          PROVE  panel'[settled'[j].server][i][settled'[j].email]
                    = [on |-> settled'[j].on, until |-> settled'[j].until]
      <4>1. CASE j = k
        <5>1. settled'[j] = st
          BY <2>8, <4>1
        <5>2. Found(task, i) # None
          BY <2>5, <2>9, <3>1, <5>1 DEF Found
        <5>3. Found(task, i) = task.aim
          BY <1>1, <1>2, <1>7, <5>2 DEF KnownTrue
        <5> QED BY <2>5, <2>9, <5>1, <5>3 DEF Found
      <4>2. CASE j # k
        <5>1. settled'[j] = settled[j]
          BY <2>8, <4>2
        <5> QED BY <2>9, <3>1, <5>1 DEF IInv, LastSyncStands
      <4> QED BY <4>1, <4>2
    <3> QED BY <3>1 DEF LastSyncStands
  <2>24. OverByLessThanADay'
    BY <2>9, <2>10, PaidStays
  <2> QED BY <2>8, <2>10, <2>11, <2>12, <2>14, <2>18, <2>20, <2>21, <2>22, <2>23, <2>24, Whole
          DEF RowsWellAlone, Shrinks
<1> QED BY <1>6, <1>7

-----------------------------------------------------------------------------
(* The replacement of a key                                                *)

LEMMA AddressMade ==
    ASSUME IInv, NEW t \in Tasks, NEW r, tasks' = [tasks EXCEPT ![t] = r], rows' = rows, settled' = settled,
           GivenWell, r.row.email \in Emails, given[r.row.email] = "never", given'[r.row.email] # "never"
    PROVE  AddressTrue'
<1>1. tasks \in [Tasks -> Task] /\ AddressTrue
  BY DEF IInv, PanelsTypeOK
<1>2. \A u \in Tasks : tasks'[u] = IF u = t THEN r ELSE tasks[u]
  BY <1>1
<1>3. \A e \in Emails : given[e] # "never" => given'[e] # "never"
  BY DEF GivenWell
<1>4. \A k \in Keys : /\ rows[k] # None => rows[k].email \in Emails /\ given[rows[k].email] # "never"
                      /\ settled[k] # None => settled[k].email \in Emails /\ given[settled[k].email] # "never"
  BY <1>1 DEF AddressTrue, Given
<1>5. \A u \in Tasks : Known(tasks[u]) =>
         tasks[u].row.email \in Emails /\ given[tasks[u].row.email] # "never"
  BY <1>1 DEF AddressTrue, Given
<1>6. \A k \in Keys : /\ rows'[k] # None => rows'[k].email \in Emails /\ given'[rows'[k].email] # "never"
                      /\ settled'[k] # None => settled'[k].email \in Emails /\ given'[settled'[k].email] # "never"
  BY <1>3, <1>4
<1>7. \A u \in Tasks : Known(tasks'[u]) =>
         tasks'[u].row.email \in Emails /\ given'[tasks'[u].row.email] # "never"
  BY <1>2, <1>3, <1>5
<1>8. ASSUME NEW u \in Tasks, tasks'[u].at = "make"
      PROVE  /\ \A k \in Keys : /\ rows'[k] # None => rows'[k].email # tasks'[u].row.email
                                /\ settled'[k] # None => settled'[k].email # tasks'[u].row.email
             /\ \A v \in Tasks \ {u} : Known(tasks'[v]) => tasks'[v].row.email # tasks'[u].row.email
  <2>1. CASE u = t
    <3>1. tasks'[u] = r
      BY <1>2, <2>1
    <3>2. \A v \in Tasks \ {u} : tasks'[v] = tasks[v]
      BY <1>2, <2>1
    <3> QED BY <1>4, <1>5, <3>1, <3>2
  <2>2. CASE u # t
    <3>1. tasks'[u] = tasks[u] /\ tasks[u].at = "make"
      BY <1>2, <1>8, <2>2
    <3>2. /\ \A k \in Keys : /\ rows[k] # None => rows[k].email # tasks[u].row.email
                             /\ settled[k] # None => settled[k].email # tasks[u].row.email
          /\ \A v \in Tasks \ {u} : Known(tasks[v]) => tasks[v].row.email # tasks[u].row.email
      BY <1>1, <3>1 DEF AddressTrue
    <3>3. r.row.email # tasks[u].row.email
      BY <1>5, <3>1 DEF Known
    <3> QED BY <1>2, <3>1, <3>2, <3>3
  <2> QED BY <2>1, <2>2
<1> QED BY <1>6, <1>7, <1>8 DEF AddressTrue, Known, Given

LEMMA ReplaceConfirmed ==
    ASSUME IInv, NEW t \in Tasks, NEW server \in Servers, key_replace_confirm_handler(t, server)
    PROVE  IInv'
<1>1. PICK task \in Task : task = tasks[t] /\ HandTrue(task) /\ KnownTrue(task) /\ PanelsTypeOK
  BY TaskIs
<1>2. PICK k \in Keys : k = task.key
  BY <1>1 DEF key_replace_confirm_handler, HandTrue
<1>3. CASE Becomes(t, Rest) /\ given' = given
  <2>1. Quiet
    BY <1>1, <1>3 DEF key_replace_confirm_handler, book, Quiet, PanelsTypeOK
  <2> QED BY <1>3, <2>1, RestOut, QuietMove
<1>4. CASE ~(Becomes(t, Rest) /\ given' = given)
  <2>1. rows[k] # None
    BY <1>1, <1>2, <1>4 DEF key_replace_confirm_handler
  <2>2. PICK old \in Row : old = rows[k] /\ old \in OrNone(Row)
    BY <1>1, <2>1, RowOf, OrNoneIs
  <2>3. PICK left : left = IF mode = "subscription" THEN Public ELSE {Least(Inbounds)}
    OBVIOUS
  <2>4. left \subseteq Inbounds
    BY <2>3, LeastInbound, KeyBookAssumption
  <2>5. PICK end : end = Expiry(DaysLeft(old.until))
    OBVIOUS
  <2>6. end \in Moments /\ (old.until > now => end < old.until + Day)
    BY <1>1, <2>5, ExpiryForm
  <2>7. PICK email \in generate_unique_email(k) :
          /\ Becomes(t, [Rest EXCEPT !.at = "make", !.key = k, !.old = old,
                                !.row = [old EXCEPT !.server = server, !.email = email],
                                !.expiry = end, !.by = mode, !.left = left])
          /\ given' = [given EXCEPT ![email] = IF InTerm(old) THEN "in term" ELSE "late"]
    BY <1>1, <1>2, <1>4, <2>2, <2>3, <2>5 DEF key_replace_confirm_handler
  <2>8. email \in Emails /\ email[1] = k /\ given[email] = "never"
    BY KeyBookAssumption DEF generate_unique_email, Emails
  <2>9. PICK row : row = [old EXCEPT !.server = server, !.email = email]
    OBVIOUS
  <2>10. row \in Row /\ row \in OrNone(Row \cup Servers) /\ row.email = email
    <3>1. row \in Row /\ row.email = email
      BY <2>8, <2>9 DEF Row
    <3> QED BY <3>1, OrNoneIs
  <2>11. PICK rest \in Task : rest = Rest
    BY RestForm
  <2>12. PICK a : a = [rest EXCEPT !.at = "make", !.key = k, !.old = old, !.row = row]
    OBVIOUS
  <2>13. a \in Task /\ a.at = "make" /\ a.key = k /\ a.row = row
    <3>1. "make" \in Places /\ k \in OrNone(Keys)
      BY PlacesOfSync, OrNoneIs
    <3> QED BY <2>2, <2>10, <2>12, <3>1 DEF Task
  <2>14. PICK r : r = [a EXCEPT !.expiry = end, !.by = mode, !.left = left]
    OBVIOUS
  <2>15. r \in Task /\ r.at = "make" /\ r.key = k /\ r.row = row /\ r.expiry = end
    <3>1. mode \in OrNone(Modes)
      BY <1>1, OrNoneIs DEF PanelsTypeOK
    <3> QED BY <2>4, <2>6, <2>13, <2>14, <3>1 DEF Task
  <2>16. tasks' = [tasks EXCEPT ![t] = r]
    BY <2>7, <2>9, <2>11, <2>12, <2>14 DEF Becomes
  <2>17. rows' = rows /\ panel' = panel /\ settled' = settled /\ paid' = paid
    BY DEF key_replace_confirm_handler, book
  <2>18. PICK g \in {"in term", "late"} : g = IF InTerm(old) THEN "in term" ELSE "late"
    OBVIOUS
  <2>19. given \in Givens /\ given' = [given EXCEPT ![email] = g]
    BY <1>1, <2>7, <2>18 DEF PanelsTypeOK, Givens
  <2>20. given' \in Givens /\ \A e \in Emails : given'[e] = IF e = email THEN g ELSE given[e]
    BY <2>8, <2>18, <2>19 DEF Givens
  <2>21. GivenWell
    BY <2>8, <2>20 DEF GivenWell
  <2>22. PaidWell
    BY <1>1, <2>17, PaidSame
  <2>23. RowsWellAlone
    BY <2>17, <2>22, RowsSame
  <2>24. EnvWell
    BY <1>1 DEF key_replace_confirm_handler, book, EnvWell, PanelsTypeOK
  <2>25. r.at \notin {"list", "drop", "fill", "trim", "reset", "set", "lock", "confirm", "poll", "write"}
    BY <2>15
  <2>26. r.at \notin Inside /\ r.at \notin Writing /\ r.at \notin Aiming
    BY <2>25, PlacesOfSync DEF Aiming
  <2>27. given'[r.row.email] = "late" \/ r.expiry < paid'[r.key] + Day
    <3>1. old.until <= paid[k] /\ old.until \in Nat /\ paid[k] \in Nat /\ end \in Nat
      BY <1>1, <2>1, <2>2, <2>6, RowForm, DaysAreNat DEF IInv, RowTrue, PanelsTypeOK
    <3>2. CASE InTerm(old)
      <4>1. end < old.until + Day
        BY <2>6, <3>2 DEF InTerm
      <4>2. end < paid[k] + Day
        BY <3>1, <4>1, PaidForLonger
      <4> QED BY <2>15, <2>17, <4>2
    <3>3. CASE ~InTerm(old)
      BY <2>8, <2>10, <2>15, <2>18, <2>20, <3>3
    <3> QED BY <3>2, <3>3
  <2>28. HandTrue(r)'
    BY <2>8, <2>10, <2>15, <2>25, <2>26, <2>27 DEF HandTrue
  <2>29. KnownTrue(r)'
    BY <2>15 DEF KnownTrue
  <2>30. PICK e : e \notin Emails
    BY NoSetContainsEverything
  <2>31. OnlyAt(e) /\ Shrinks
    BY <1>1, <2>17, PanelSame, ShrinksOnly
  <2>32. ASSUME NEW u \in Tasks, u # t, tasks[u].at \in Writing
         PROVE  settled'[tasks[u].key] = None /\ tasks[u].row.email # e
    <3>1. tasks[u].at \in Inside /\ HandTrue(tasks[u])
      BY <2>32, WritingIs, TaskIs
    <3> QED BY <2>17, <2>30, <2>32, <3>1, InsideForm DEF HandTrue
  <2>33. tasks' \in [Tasks -> Task] /\ \A u \in Tasks : HandTrue(tasks[u])' /\ KnownTrue(tasks[u])'
    BY <2>15, <2>16, <2>21, <2>22, <2>28, <2>29, <2>31, <2>32, TasksMove
  <2>34. OneInside'
    BY <2>15, <2>16, <2>26, OneMoves
  <2>35. AddressTrue'
    <3>1. r.row.email \in Emails /\ given[r.row.email] = "never" /\ given'[r.row.email] # "never"
      BY <2>8, <2>10, <2>15, <2>18, <2>20
    <3> QED BY <2>16, <2>17, <2>21, <3>1, AddressMade
  <2>36. settled' \in SettledSet
    BY <1>1, <2>17 DEF PanelsTypeOK, SettledSet
  <2>37. \A j \in Keys : settled'[j] # None => settled'[j] = settled[j] /\ settled[j].email # e
    <3>1. ASSUME NEW j \in Keys, settled[j] # None PROVE settled[j].email \in Emails
      BY <2>17, <2>36, <3>1, SettlementForm DEF SettledSet, OrNone
    <3> QED BY <2>17, <2>30, <3>1
  <2>38. SettledTrue' /\ LastSyncStands'
    BY <2>22, <2>31, <2>36, <2>37, SettledStays
  <2>39. OverByLessThanADay'
    BY <2>17, <2>21, <2>22, PaidStays
  <2> QED BY <2>21, <2>22, <2>23, <2>24, <2>31, <2>33, <2>34, <2>35, <2>36, <2>38, <2>39, Whole
          DEF RowsWellAlone, Shrinks
<1> QED BY <1>3, <1>4

LEMMA ClientMade == ASSUME IInv, NEW t \in Tasks, MakeClient(t) PROVE IInv'
<1>1. PICK task \in Task : task = tasks[t] /\ HandTrue(task) /\ KnownTrue(task) /\ PanelsTypeOK
  BY TaskIs
<1>2. task.at = "make" /\ task.left # {}
  BY <1>1 DEF MakeClient
<1>3. /\ task.key \in Keys /\ task.row \in Row /\ task.row.email[1] = task.key
      /\ given[task.row.email] = "late" \/ task.expiry < paid[task.key] + Day
  BY <1>1, <1>2 DEF HandTrue
<1>4. task.row.server \in Servers /\ task.row.email \in Emails
  BY <1>3, RowForm
<1>5. PICK i \in Inbounds : i = Least(task.left) /\ i \in task.left
  BY <1>2, TaskFields, LeastInbound
<1>6. Worked
  BY <1>1 DEF MakeClient, Worked, history
<1>7. PICK client : client = [on |-> TRUE, until |-> task.expiry]
  OBVIOUS
<1>8. client \in Client /\ client.until = task.expiry
  BY <1>7, TaskFields DEF Client
<1>9. PICK less : less = [task EXCEPT !.left = @ \ {i}]
  OBVIOUS
<1>10. less \in Task /\ less.at = "make" /\ less.key = task.key /\ less.row = task.row
       /\ less.expiry = task.expiry
  BY <1>2, <1>9 DEF Task
<1>11. PICK more : more = [less EXCEPT !.fresh = @ \cup {i}]
  OBVIOUS
<1>12. more \in Task /\ more.at = "make" /\ more.key = task.key /\ more.row = task.row
       /\ more.expiry = task.expiry
  BY <1>10, <1>11 DEF Task
<1>13. PICK r : /\ r \in {less, more} /\ Becomes(t, r)
                /\ \/ panel' = add_client(task.row.server, i, task.row.email, client)
                   \/ panel' = panel
  BY <1>1, <1>5, <1>7, <1>9, <1>11 DEF MakeClient
<1>14. r \in Task /\ r.at = "make" /\ r.key = task.key /\ r.row = task.row /\ r.expiry = task.expiry
  BY <1>10, <1>12, <1>13
<1>15. Within(t, r)
  BY <1>1, <1>2, <1>14 DEF Within, Known
<1>16. r.at \notin {"list", "drop", "fill", "trim", "reset", "set", "lock", "confirm", "poll", "write"}
  BY <1>14
<1>17. r.at \notin Inside /\ r.at \notin Writing /\ r.at \notin Aiming
  BY <1>16, PlacesOfSync DEF Aiming
<1>18. HandTrue(r)'
  BY <1>3, <1>6, <1>14, <1>16, <1>17 DEF HandTrue, Worked
<1>19. KnownTrue(r)'
  BY <1>14 DEF KnownTrue
<1>20. Unsettles(t)
  <2>1. settled \in SettledSet
    BY <1>1 DEF PanelsTypeOK, SettledSet
  <2>2. tasks[t].at \notin Inside
    BY <1>1, <1>14, <1>2, <1>17
  <2> QED BY <1>6, <2>1, <2>2 DEF Unsettles, Worked
<1>21. OnlyAt(tasks[t].row.email) /\ AllFit
  <2>1. CASE panel' = panel
    BY <1>1, <2>1, PanelSame, ShrinksFit
  <2>2. CASE panel' = add_client(task.row.server, i, task.row.email, client)
    <3>1. /\ panel' \in PanelSet
          /\ \A z \in Servers, j \in Inbounds, f \in Emails :
               panel'[z][j][f] = IF z = task.row.server /\ j = i /\ f = task.row.email
                                    /\ panel[task.row.server][i][task.row.email] = None
                                 THEN client ELSE panel[z][j][f]
      BY <1>1, <1>4, <1>8, <2>2, AddForm
    <3>2. given'[task.row.email] # "late" => client.until < paid'[task.row.email[1]] + Day
      BY <1>3, <1>6, <1>8 DEF Worked
    <3> QED BY <1>1, <3>1, <3>2 DEF OnlyAt, AllFit, Fits
  <2> QED BY <1>13, <2>1, <2>2
<1>22. Synced(t)
  BY <1>6, <1>21, WorkedSynced
<1>23. tasks' = [tasks EXCEPT ![t] = r]
  BY <1>13 DEF Becomes
<1>24. /\ RowsWell(t) /\ EnvWell /\ OnlyAt(tasks[t].row.email) /\ paid' = paid /\ given' = given
       /\ \A s \in Servers, j \in Inbounds, e \in Emails :
             panel'[s][j][e] # None => panel'[s][j][e] = panel[s][j][e] \/ Fits(panel'[s][j][e], e)
  BY <1>22 DEF Synced, AllFit
<1> QED BY <1>15, <1>18, <1>19, <1>20, <1>23, <1>24, WithinStep

LEMMA KeyMoved == ASSUME IInv, NEW t \in Tasks, _replace_key_panel_config(t) PROVE IInv'
<1>1. PICK task \in Task : task = tasks[t] /\ HandTrue(task) /\ KnownTrue(task) /\ PanelsTypeOK
  BY TaskIs
<1>2. task.at = "make"
  BY <1>1 DEF _replace_key_panel_config
<1>3. PICK k \in Keys : k = task.key /\ task.row \in Row /\ task.row.email[1] = k
  BY <1>1, <1>2 DEF HandTrue
<1>4. panel' = panel /\ settled' = settled /\ given' = given /\ paid' = paid
  BY DEF _replace_key_panel_config, history
<1>5. EnvWell /\ PaidWell
  BY <1>1, <1>4, PaidSame DEF _replace_key_panel_config, EnvWell, PanelsTypeOK
<1>6. CASE task.fresh = {}
  <2>1. RowsWellAlone
    BY <1>1, <1>5, <1>6, RowsSame DEF _replace_key_panel_config
  <2>2. Booked
    BY <1>4, <1>5, <2>1 DEF Booked
  <2>3. Becomes(t, Rest)
    BY <1>1, <1>6 DEF _replace_key_panel_config
  <2> QED BY <2>2, <2>3, RestOut, BookedMove
<1>7. CASE task.fresh # {}
  <2>1. PICK m \in Inbounds : m = Least(task.fresh)
    BY <1>7, TaskFields, LeastInbound
  <2>2. PICK sub \in BOOLEAN : sub = (task.by = "subscription")
    <3>1. (task.by = "subscription") \in BOOLEAN
      OBVIOUS
    <3> QED BY <3>1, Zenon
  <2>3. rows' = Put(k, update_vpn_key_config(rows[k], task.row.server, task.row.email, m, sub))
    BY <1>1, <1>3, <1>7, <2>1, <2>2 DEF _replace_key_panel_config
  <2>4. Known(tasks[t])
    BY <1>1, <1>2 DEF Known
  <2>5. RowsWell(t)
    BY <1>1, <1>3, <1>5, <2>3, <2>4, MovedPut
  <2>6. PICK a : a = [task EXCEPT !.at = "lock", !.then = "unmake", !.row = None]
    OBVIOUS
  <2>7. a \in Task /\ a.at = "lock" /\ a.key = k
    <3>1. "lock" \in Places /\ None \in OrNone(Row \cup Servers)
      BY PlacesOfSync, OrNoneIs
    <3> QED BY <1>3, <2>6, <3>1 DEF Task
  <2>8. PICK r : r = [a EXCEPT !.by = None, !.expiry = 0, !.fresh = {}]
    OBVIOUS
  <2>9. r \in Task /\ r.at = "lock" /\ r.key = k
    <3>1. None \in OrNone(Modes) /\ 0 \in Moments
      BY OrNoneIs, DaysNat
    <3> QED BY <2>7, <2>8, <3>1 DEF Task
  <2>10. tasks' = [tasks EXCEPT ![t] = r]
    BY <1>1, <1>7, <2>6, <2>8 DEF _replace_key_panel_config, Becomes
  <2>11. Outside(r)
    BY <2>9, OutsideWaits
  <2>12. Shrinks
    BY <1>1, <1>4, PanelSame
  <2> QED BY <1>4, <1>5, <2>5, <2>10, <2>11, <2>12, OutsideStep
<1> QED BY <1>6, <1>7

-----------------------------------------------------------------------------
(* The theorems                                                            *)

LEMMA InitInv == ASSUME PanelsInit PROVE IInv
<1>1. PICK home \in Servers, in \in SUBSET Inbounds, term \in {0, 1} :
        /\ rows = [k \in Keys |-> [server |-> home, email |-> <<k, 0>>,
                    main |-> Least(Public),
                    sub |-> mode = "subscription", until |-> term, used |-> 0, told |-> FALSE]]
        /\ panel = [s \in Servers |-> [i \in Inbounds |-> [e \in Emails |->
                    IF s = home /\ i \in in /\ e[2] = 0
                    THEN [on |-> term > 0, until |-> term] ELSE None]]]
  BY DEF PanelsInit, BookInit
<1>2. term \in 0 .. MaxTime /\ term \in Moments /\ term \in Nat
  <2>1. MaxTime \in Nat /\ MaxTime # 0 /\ Day \in Nat
    BY KeyBookAssumption
  <2> QED BY <2>1 DEF Moments
<1>3. Least(Public) \in Inbounds
  BY LeastInbound, KeyBookAssumption
<1>4. \A k \in Keys : /\ <<k, 0>> \in Emails /\ <<k, 0>>[1] = k /\ <<k, 0>>[2] = 0
  BY KeyBookAssumption DEF Emails
<1>5. /\ rows \in [Keys -> OrNone(Row)]
      /\ \A k \in Keys : rows[k].email = <<k, 0>> /\ rows[k].until = term
  <2>1. ASSUME NEW k \in Keys PROVE rows[k] \in Row /\ rows[k].email = <<k, 0>> /\ rows[k].until = term
    <3>1. rows[k] = [server |-> home, email |-> <<k, 0>>, main |-> Least(Public),
                     sub |-> mode = "subscription", until |-> term, used |-> 0, told |-> FALSE]
      BY <1>1
    <3>2. 0 \in 0 .. Limit
      BY DEF Limit
    <3> QED BY <1>2, <1>3, <1>4, <3>1, <3>2 DEF Row
  <2>2. rows = [k \in Keys |-> rows[k]]
    BY <1>1
  <2> QED BY <2>1, <2>2, OrNoneIs
<1>6. \A s \in Servers, i \in Inbounds, e \in Emails :
         panel[s][i][e] = IF s = home /\ i \in in /\ e[2] = 0
                          THEN [on |-> term > 0, until |-> term] ELSE None
  BY <1>1
<1>7. panel \in PanelSet
  <2>1. PICK c \in Client : c = [on |-> term > 0, until |-> term]
    <3>1. PICK c : c = [on |-> term > 0, until |-> term]
      OBVIOUS
    <3>2. c \in Client
      BY <1>2, <3>1 DEF Client
    <3> QED BY <3>1, <3>2, Zenon
  <2>2. \A s \in Servers, i \in Inbounds, e \in Emails : panel[s][i][e] \in OrNone(Client)
    BY <1>6, <2>1, OrNoneIs
  <2> QED BY <1>1, <2>2 DEF PanelSet
<1>8. paid = [k \in Keys |-> rows[k].until] /\ given = [e \in Emails |-> IF e[2] = 0 THEN "in term" ELSE "never"]
      /\ settled = [k \in Keys |-> None] /\ tasks = [t \in Tasks |-> Rest]
  BY DEF PanelsInit
<1>9. /\ paid \in Terms /\ given \in Givens
      /\ \A k \in Keys : paid[k] = term /\ given[<<k, 0>>] = "in term" /\ settled[k] = None
  BY <1>2, <1>4, <1>5, <1>8 DEF Terms, Givens
<1>10. \A t \in Tasks : tasks[t] = Rest /\ Rest \in Task /\ Rest.at = "rest"
  BY <1>8, RestForm
<1>11. PanelsTypeOK
  <2>1. meter \in [Servers -> [Emails -> 0 .. Limit]]
    <3>1. meter = [s \in Servers |-> [e \in Emails |-> 0]]
      BY DEF PanelsInit, BookInit
    <3>2. 0 \in 0 .. Limit
      BY DEF Limit
    <3> QED BY <3>1, <3>2
  <2>2. tasks \in [Tasks -> Task]
    BY <1>8, RestForm
  <2>3. settled \in [Keys -> OrNone(Settlement)]
    BY <1>8, OrNoneIs
  <2>4. /\ banned \subseteq Keys /\ mode \in Modes /\ remembered \subseteq Keys /\ ops \subseteq Ops
    BY DEF PanelsInit, BookInit
  <2>5. now \in 0 .. MaxTime /\ slips \in 0 .. MaxSlips
    <3>1. now = 0 /\ slips = 0
      BY DEF PanelsInit, BookInit
    <3>2. MaxTime \in Nat /\ MaxSlips \in Nat
      BY KeyBookAssumption, PanelsAssumption
    <3> QED BY <3>1, <3>2
  <2> QED BY <1>5, <1>7, <1>9, <2>1, <2>2, <2>3, <2>4, <2>5 DEF PanelsTypeOK, PanelSet, Terms, Givens
<1>12. \A k \in Keys : RowTrue(k)
  <2>1. term <= term
    BY <1>2
  <2>2. ASSUME NEW k \in Keys PROVE rows[k].email[1] = k /\ rows[k].until = term /\ paid[k] = term
    BY <1>4, <1>5, <1>9
  <2> QED BY <2>1, <2>2 DEF RowTrue
<1>13. \A t \in Tasks : ~Known(tasks[t]) /\ tasks[t].at # "make" /\ tasks[t].at \notin Inside
  BY <1>10, PlacesOfSync DEF Known
<1>14. HandTrue(Rest) /\ KnownTrue(Rest)
  <2>1. Rest.at \notin {"list", "drop", "fill", "trim", "reset", "set", "make", "lock", "confirm", "poll", "write"}
    BY RestForm
  <2> QED BY <2>1, PlacesOfSync DEF HandTrue, KnownTrue, Aiming
<1>15. OneInside
  BY <1>13 DEF OneInside
<1>16. AddressTrue
  BY <1>4, <1>5, <1>9, <1>13 DEF AddressTrue, Given
<1>17. SettledTrue /\ LastSyncStands
  BY <1>9 DEF SettledTrue, LastSyncStands
<1>18. OverByLessThanADay
  <2>1. ASSUME NEW s \in Servers, NEW i \in Inbounds, NEW e \in Emails, panel[s][i][e] # None
        PROVE  panel[s][i][e].until < paid[e[1]] + Day
    <3>1. panel[s][i][e].until = term
      BY <1>6, <2>1
    <3>2. e[1] \in Keys
      BY DEF Emails
    <3>3. paid[e[1]] = term
      BY <1>9, <3>2
    <3>4. term < term + Day
      BY <1>2, KeyBookAssumption
    <3> QED BY <3>1, <3>3, <3>4
  <2> QED BY <2>1 DEF OverByLessThanADay
<1> QED BY <1>10, <1>11, <1>12, <1>14, <1>15, <1>16, <1>17, <1>18 DEF IInv

LEMMA SyncSteps ==
    ASSUME IInv, NEW t \in Tasks, ensure_subscription_keys_on_server(t) PROVE IInv'
BY KeyRead, ServerListed, HiddenDropped, MissingCounted, ClientFilled, SurplusCounted, SurplusTrimmed,
   AddressRecorded, TrafficReset, ClientWritten, SyncEnded, EmptySyncEnds
   DEF ensure_subscription_keys_on_server

LEMMA LoopSteps ==
    ASSUME IInv, \/ Traffic \in Loops /\ run_traffic_sync_scheduler
                 \/ Daily \in Loops /\ monthly_traffic_reset
                 \/ Expired \in Loops /\ reconcile_expired_subscription_keys(Expired)
    PROVE  IInv'
<1>1. CASE Traffic \in Loops /\ run_traffic_sync_scheduler
  <2>1. Traffic \in Tasks
    BY <1>1 DEF Tasks
  <2> QED BY <1>1, <2>1, ActiveRead, TrafficPolled, TrafficWritten, UserWarned, UsedUpSynced, CycleEnds
          DEF run_traffic_sync_scheduler, sync_traffic_stats
<1>2. CASE Daily \in Loops /\ monthly_traffic_reset
  <2>1. Daily \in Tasks
    BY <1>2 DEF Tasks
  <2> QED BY <1>2, <2>1, MonthStarts, PanelCompared DEF monthly_traffic_reset
<1>3. CASE Expired \in Loops /\ reconcile_expired_subscription_keys(Expired)
  <2>1. Expired \in Tasks
    BY <1>3 DEF Tasks
  <2> QED BY <1>3, <2>1, Reconciled
<1> QED BY <1>1, <1>2, <1>3

LEMMA ScreenSteps ==
    ASSUME IInv, NEW t \in Screens, ScreenStarts(t) \/ ScreenGoesOn(t) PROVE IInv'
<1>1. t \in Tasks
  BY DEF Tasks
<1>2. CASE ScreenStarts(t)
  <2>1. ASSUME NEW k \in Keys, renew_key_access(t, "renew", k, Day) \/ renew_key_access(t, "shorten", k, -Day)
        PROVE  IInv'
    <3>1. Day \in Int /\ -Day \in Int
      BY DaysAreNat
    <3> QED BY <1>1, <2>1, <3>1, KeyRenewed
  <2>2. ASSUME NEW k \in Keys, \/ reset_key_traffic(t, k) \/ confirm_ban_toggle(t, k)
                               \/ key_replace_start_handler(t, k) \/ key_delete_handler(t, k)
                               \/ on_key_delete_confirm(t, k)
        PROVE  IInv'
    BY <1>1, <2>2, KeyReset, BanToggled, ReplaceAsked, DeleteAsked, KeyErased
  <2>3. CASE on_sync_deleted_panel_confirm(t)
    BY <1>1, <2>3, SweepAsked
  <2>4. ASSUME NEW s \in Servers, on_sync_db_missing_confirm(t, s) \/ on_sync_db_unreach_confirm(t, s)
        PROVE  IInv'
    BY <1>1, <2>4, MissingAsked, ServerForgotten
  <2> QED BY <1>2, <2>1, <2>2, <2>3, <2>4 DEF ScreenStarts
<1>3. CASE ScreenGoesOn(t)
  <2>1. ASSUME NEW s \in Servers, key_replace_confirm_handler(t, s) PROVE IInv'
    BY <1>1, <2>1, ReplaceConfirmed
  <2>2. ASSUME NEW swept \in SUBSET Servers, SweepServer(t, swept) PROVE IInv'
    BY <1>1, <2>2, ServerSwept
  <2>3. CASE \/ MakeClient(t) \/ _replace_key_panel_config(t) \/ _delete_old_key_client_best_effort(t)
             \/ ForgetClients(t) \/ ForgetRow(t) \/ _delete_key_from_panel(t) \/ DeleteMissing(t)
    BY <1>1, <2>3, ClientMade, KeyMoved, ClientsGone, ClientsForgotten, RowForgotten, MissingDeleted
  <2> QED BY <1>3, <2>1, <2>2, <2>3 DEF ScreenGoesOn
<1> QED BY <1>2, <1>3

LEMMA NextInv == ASSUME IInv, PanelsNext PROVE IInv'
<1>1. CASE \E t \in Tasks : ensure_subscription_keys_on_server(t) \/ GoOn(t)
  BY <1>1, SyncSteps, WentOn
<1>2. CASE \/ Traffic \in Loops /\ run_traffic_sync_scheduler
           \/ Daily \in Loops /\ monthly_traffic_reset
           \/ Expired \in Loops /\ reconcile_expired_subscription_keys(Expired)
  BY <1>2, LoopSteps
<1>3. CASE \E t \in Screens : ScreenStarts(t) \/ ScreenGoesOn(t)
  BY <1>3, ScreenSteps
<1>4. CASE \E k \in Keys : add_days_to_first_active_key(k)
  BY <1>4, Rewarded
<1>5. CASE admin_set_bot_mode \/ Restart \/ Environment
  BY <1>5, ModeSet, Restarted, TimePasses
<1> QED BY <1>1, <1>2, <1>3, <1>4, <1>5 DEF PanelsNext

LEMMA StutterInv == ASSUME IInv, UNCHANGED vars PROVE IInv'
<1>1. rows' = rows /\ panel' = panel /\ UNCHANGED tasks /\ settled' = settled /\ given' = given /\ paid' = paid
  BY DEF vars
<1>2. PanelsTypeOK /\ PaidWell
  BY <1>1, PaidSame DEF IInv
<1>3. RowsWellAlone
  BY <1>1, <1>2, RowsSame
<1>4. EnvWell
  BY <1>2 DEF vars, EnvWell, PanelsTypeOK
<1>5. Booked
  BY <1>1, <1>2, <1>3, <1>4 DEF Booked
<1> QED BY <1>1, <1>5, AloneMove

\* The inductive invariant holds of the synchronisation (vpn_api.py), the loops
\* of the scheduler and the screens that touch keys, in whatever order their
\* awaits interleave and whichever calls of a panel fail.
THEOREM InvariantHolds == Spec => []IInv
<1>1. PanelsInit => IInv
  BY InitInv
<1>2. IInv /\ [PanelsNext]_vars => IInv'
  BY NextInv, StutterInv
<1> QED BY <1>1, <1>2, PTL DEF Spec

\* Rows, clients, locals and journals keep their types.
THEOREM TypeCorrect == Spec => []PanelsTypeOK
<1>1. IInv => PanelsTypeOK
  BY DEF IInv
<1> QED BY <1>1, InvariantHolds, PTL

\* What a complete synchronisation wrote to the panel stands until the next one
\* of its key starts, because of the lock of the key (vpn_api.py:774): whatever
\* loops, screens, replacements and cleanings run in between.
THEOREM LastSyncHolds == Spec => []LastSyncStands
<1>1. IInv => LastSyncStands
  BY DEF IInv
<1> QED BY <1>1, InvariantHolds, PTL

\* No client is on for a day longer than the longest term its key was given,
\* and none for longer at all where the last synchronisation of the key was
\* complete, whichever calls failed before and after: a client is made for the
\* days that are left, rounded up (vpn_api.py:310), and its term set right by
\* the writes that follow.  The exception is a client of a replacement that was
\* confirmed after the term (keys.py:439).
THEOREM PaidBoundsClients == Spec => []PaidTimeOnly
<1>1. ASSUME IInv PROVE PaidTimeOnly
  <2>1. ASSUME NEW s \in Servers, NEW i \in Inbounds, NEW e \in Emails, InSync(s, e),
               panel[s][i][e] # None
        PROVE  panel[s][i][e].until <= paid[e[1]]
    <3>1. PICK k \in Keys : k = e[1]
      BY DEF Emails
    <3>2. settled[k] # None /\ settled[k].server = s /\ settled[k].email = e
      BY <2>1, <3>1 DEF InSync
    <3>3. panel[s][i][e] = [on |-> settled[k].on, until |-> settled[k].until]
      BY <1>1, <2>1, <3>2 DEF IInv, LastSyncStands
    <3>4. settled[k].until <= paid[k]
      BY <1>1, <3>2 DEF IInv, SettledTrue
    <3> QED BY <3>1, <3>3, <3>4
  <2>2. OverByLessThanADay
    BY <1>1 DEF IInv
  <2> QED BY <2>1, <2>2 DEF PaidTimeOnly, OverByLessThanADay
<1> QED BY <1>1, InvariantHolds, PTL
=============================================================================
