----------------------------- MODULE Migrations -----------------------------
(***************************************************************************)
(* The schema and the default content of the SQLite database, and the     *)
(* migrations that build and extend them (src/database/migrations.py).    *)
(*                                                                         *)
(* A migration is the sequence of statements it executes.  What matters    *)
(* of a statement is whether it is DDL, because Python's sqlite3 opens a   *)
(* transaction before the first INSERT, UPDATE or DELETE of a connection   *)
(* and before nothing else: DDL that comes earlier is durable at once,     *)
(* everything later is durable with the commit of get_db, and a crash in   *)
(* between keeps the first and loses the second.  Upkeep executes the      *)
(* statements one by one; neighbouring INSERTs, which no crash can tell    *)
(* apart, are one statement with all the names they insert.                *)
(*                                                                         *)
(* A database is a record: "version" is the row of schema_version (0: no   *)
(* table or no row), "objects" are tables, columns and indexes by name,    *)
(* "settings" maps a key to its value, "pages" maps a page to its default  *)
(* and its custom text, "rows" maps the default buttons of the payment     *)
(* page to their rows.                                                     *)
(***************************************************************************)
EXTENDS Naturals, Sequences

INITIAL_VERSION == 21
LATEST_VERSION == 47

----------------------------------------------------------------------------
(* Statements: "do" says what a statement does, "names" to what. *)

Create(o) == [do |-> "create", names |-> {o}]
Drop(objects) == [do |-> "drop", names |-> objects]
Set(keys, value) == [do |-> "set", names |-> keys, value |-> value]
Unset(keys) == [do |-> "unset", names |-> keys]
InsertPages(keys) == [do |-> "page", names |-> keys, refresh |-> FALSE]
UpsertPages(keys) == [do |-> "page", names |-> keys, refresh |-> TRUE]
Button(id, after) == [do |-> "button", id |-> id, after |-> after]
Relayout(rows) == [do |-> "layout", rows |-> rows]

\* Rows of a table that no property is about: they open the transaction.
Seed(table) == [do |-> "seed", table |-> table]

\* CREATE TABLE IF NOT EXISTS: "columns" are those of its columns that
\* databases of older releases may lack.
Table(table, columns) ==
    [do |-> "table", names |-> {table}, columns |-> columns]

IsDDL(s) == s.do \in {"table", "create", "drop"}

Creates(names) == [i \in DOMAIN names |-> Create(names[i])]
Defaults(keys) == Set(keys, "default")

\* ALTER TABLE ... ADD COLUMN whose "duplicate column name" is swallowed.
_add_column(column) == Create(column)

\* The function f with the value at one more, or another, argument.
With(f, x, value) ==
    [y \in DOMAIN f \union {x} |-> IF y = x THEN value ELSE f[y]]

\* The settings of the hidden referral notices and the pages of a key, which
\* the initial migration and a later one share.
ReferralNotices ==
    {"referral_new_ref_notifications_enabled",
     "referral_new_ref_notification_text",
     "referral_purchase_notifications_enabled",
     "referral_purchase_notification_text", "referral_notification_levels"}

KeyRuntimePages ==
    {"key_details", "key_show_unconfigured", "renew_payment_unavailable",
     "key_replace_server_select", "key_replace_inbound_select",
     "key_replace_confirm", "key_rename_prompt", "new_key_server_select",
     "new_key_inbound_select", "new_key_no_servers"}

----------------------------------------------------------------------------
(* The payment page: a new method is inserted below the one it follows. *)

RowsUsed(rows) == {rows[b] : b \in DOMAIN rows}
LastRow(rows) ==
    CHOOSE n \in RowsUsed(rows) : \A m \in RowsUsed(rows) : m <= n

\* Without the button it follows it is put in the row of the way back, which
\* moves down, or in a row of its own.
InsertLast(rows, id) ==
    IF rows = << >> THEN With(rows, id, 0)
    ELSE IF "btn_back_main" \in DOMAIN rows
    THEN With(With(rows, "btn_back_main", rows["btn_back_main"] + 1), id,
              rows["btn_back_main"])
    ELSE With(rows, id, LastRow(rows) + 1)

\* Mistake: the rows below are not moved down.
InsertOnTop(rows, id, after) ==
    IF id \in DOMAIN rows THEN rows
    ELSE IF after \in DOMAIN rows THEN With(rows, id, rows[after] + 1)
    ELSE InsertLast(rows, id)

InsertButton(rows, id, after) ==
    IF id \in DOMAIN rows THEN rows
    ELSE IF after \in DOMAIN rows
    THEN With([b \in DOMAIN rows |->
                  IF rows[b] > rows[after] THEN rows[b] + 1 ELSE rows[b]],
              id, rows[after] + 1)
    ELSE InsertLast(rows, id)

----------------------------------------------------------------------------
(* The effect of a statement on a database *)

\* INSERT OR IGNORE: a key that has a value keeps it.
SetOnce(settings, keys, value) ==
    [k \in DOMAIN settings \union keys |->
        IF k \in DOMAIN settings THEN settings[k] ELSE value]

\* What INSERT OR IGNORE and UPDATE do to pages: the texts of the release
\* are "shipped"; branding (Upkeep) replaces some at every startup.
PagesPut(pages, keys, refresh) ==
    [k \in DOMAIN pages \union keys |->
        IF k \notin DOMAIN pages THEN [deflt |-> "shipped", custom |-> "none"]
        ELSE IF refresh /\ k \in keys
        THEN [deflt |-> "shipped", custom |-> pages[k].custom]
        ELSE pages[k]]

Apply(db, s) ==
    CASE s.do = "table"  -> IF s.names \subseteq db.objects THEN db
                            ELSE [db EXCEPT !.objects =
                                     @ \union s.names \union s.columns]
      [] s.do = "create" -> [db EXCEPT !.objects = @ \union s.names]
      [] s.do = "drop"   -> [db EXCEPT !.objects = @ \ s.names]
      [] s.do = "seed"   -> db
      [] s.do = "set"    -> [db EXCEPT !.settings = SetOnce(@, s.names, s.value)]
      [] s.do = "unset"  -> [db EXCEPT !.settings =
                                [k \in DOMAIN @ \ s.names |-> @[k]]]
      [] s.do = "page"   -> [db EXCEPT !.pages = PagesPut(@, s.names, s.refresh)]
      [] s.do = "layout" -> IF db.rows = << >>
                            THEN [db EXCEPT !.rows = s.rows] ELSE db
      [] s.do = "button" -> IF "prepayment" \in DOMAIN db.pages
                            THEN [db EXCEPT !.rows = InsertButton(@, s.id, s.after)]
                            ELSE db

(* set_version deletes the row and inserts the new one. *)
set_version(db, v) == [db EXCEPT !.version = v]

----------------------------------------------------------------------------
(* migration_initial: version 21 with everything later releases added to   *)
(* it.  The first INSERT opens the transaction, so that of this migration  *)
(* only two tables can survive a crash.                                    *)

InitialSettings ==
    <<Table("schema_version", {}), Table("settings", {}),
      Defaults({"broadcast_filter", "broadcast_in_progress", "notification_days",
                "notification_text", "trial_enabled", "trial_tariff_id",
                "cards_enabled", "cards_provider_token", "yookassa_qr_enabled",
                "yookassa_shop_id", "yookassa_secret_key", "crypto_enabled",
                "crypto_item_url", "crypto_secret_key", "wata_enabled",
                "wata_jwt_token", "stars_enabled", "demo_payment_enabled",
                "traffic_notification_text", "monthly_traffic_reset_enabled",
                "referral_enabled", "referral_reward_type", "usd_rub_rate",
                "update_blocked", "daily_tasks_time", "update_check_time",
                "update_notifications_enabled", "display_timezone",
                "my_keys_item_template"} \union ReferralNotices),
      Set({"bot_mode"}, "subscription")>>

InitialUsers ==
    <<Table("users", {"users.first_name", "users.last_name",
                      "users.is_bot_blocked"}),
      Create("idx_users_telegram_id"), Create("idx_users_is_bot_blocked")>>

InitialTariffs ==
    <<Table("tariffs", {"tariffs.max_ips"}), Seed("tariffs"),
      Table("tariff_groups", {}), Seed("tariff_groups")>>

InitialServers ==
    <<Table("servers", {"servers.api_token", "servers.panel_version",
                        "servers.panel_api_profile", "servers.panel_checked_at"}),
      Table("server_groups", {}), Create("idx_server_groups_group")>>

InitialKeys ==
    <<Table("vpn_keys", {}), Create("idx_vpn_keys_user_id"),
      Create("idx_vpn_keys_expires_at")>>

InitialPayments ==
    <<Table("payments", {"payments.wata_link_id"}),
      Create("idx_payments_user_id"), Create("idx_payments_paid_at"),
      Create("idx_payments_order_id")>>

InitialLogAndReferrals ==
    <<Table("notification_log", {}), Create("idx_notification_log_unique"),
      Create("idx_notification_log_vpn_key"),
      Table("referral_levels", {}), Seed("referral_levels"),
      Table("referral_stats", {})>>

PrepaymentRows ==
    [btn_pay_crypto |-> 0, btn_pay_stars |-> 1, btn_pay_cards |-> 2,
     btn_pay_qr |-> 3, btn_pay_wata |-> 4, btn_pay_demo |-> 5,
     btn_pay_balance |-> 6, btn_back_main |-> 7]

InitialPages ==
    <<Table("pages", {"pages.media_type_default", "pages.media_type_custom"}),
      Relayout(PrepaymentRows),
      InsertPages({"main", "help", "documents", "trial", "prepayment",
                   "renew_payment", "my_keys", "my_keys_empty", "referral",
                   "key_delivery"} \union KeyRuntimePages)>>

migration_initial ==
    InitialSettings \o InitialUsers \o InitialTariffs \o InitialServers \o
    InitialKeys \o InitialPayments \o InitialLogAndReferrals \o InitialPages

----------------------------------------------------------------------------
(* The incremental migrations *)

\* external_id exists only in databases older than the squashed schema.
migration_22 ==
    <<Unset({"crypto_integration_mode"}), Drop({"tariffs.external_id"})>>

migration_23 ==
    <<Defaults({"wata_enabled", "wata_jwt_token"}),
      _add_column("payments.wata_link_id"), Button("btn_pay_wata", "btn_pay_qr")>>

migration_24 ==
    <<Defaults({"platega_enabled", "platega_merchant_id", "platega_secret"}),
      _add_column("payments.platega_transaction_id"),
      Button("btn_pay_platega", "btn_pay_wata")>>

migration_25 ==
    <<Defaults({"cardlink_enabled", "cardlink_shop_id", "cardlink_api_token"}),
      _add_column("payments.cardlink_bill_id"),
      Button("btn_pay_cardlink", "btn_pay_platega")>>

migration_26 == <<Defaults({"daily_tasks_time", "update_check_time"})>>

migration_27 == <<_add_column("servers.api_token")>>

\* A fresh database got "subscription" from migration_initial.
migration_28 ==
    <<_add_column("vpn_keys.sub_id"), Create("idx_vpn_keys_server_email"),
      Set({"bot_mode"}, "key")>>

\* Only the colour of two default buttons.
migration_29 == << >>

migration_30 == <<_add_column("tariffs.max_ips")>>

migration_31 == <<UpsertPages({"renew_payment"})>>

migration_32 ==
    <<_add_column("servers.panel_version"),
      _add_column("servers.panel_api_profile"),
      _add_column("servers.panel_checked_at")>>

migration_33 ==
    <<UpsertPages({"my_keys", "my_keys_empty"}), Defaults({"my_keys_item_template"})>>

migration_34 == <<UpsertPages(KeyRuntimePages)>>

migration_35 ==
    <<_add_column("users.is_bot_blocked"), Create("idx_users_is_bot_blocked")>>

migration_36 == <<Defaults({"display_timezone"})>>

migration_37 ==
    <<_add_column("users.first_name"), _add_column("users.last_name"),
      Defaults(ReferralNotices)>>

migration_38 == <<Defaults({"update_notifications_enabled"})>>

\* The two UPDATEs that follow give pages with a picture its type.
migration_39 ==
    <<_add_column("pages.media_type_default"),
      _add_column("pages.media_type_custom"), Seed("pages")>>

migration_40 ==
    Creates(<<"idx_users_referral_code", "idx_users_referred_by",
              "idx_users_created_at", "idx_users_username_lower",
              "idx_vpn_keys_user_expires", "idx_vpn_keys_server_id",
              "idx_vpn_keys_panel_email_lower", "idx_payments_status_paid_at",
              "idx_payments_key_status_paid_at",
              "idx_payments_yookassa_payment_id", "idx_payments_wata_link_id",
              "idx_payments_platega_transaction_id",
              "idx_payments_cardlink_bill_id">>)

\* Only the label of a default button.
migration_41 == << >>

migration_42 == <<UpsertPages({"documents"})>>

migration_43 ==
    Creates(<<"admin_provisioning", "admin_provisioning_unresolved_user">>)

\* The triggers are created again by every startup.
migration_44 ==
    <<_add_column("vpn_keys.saas_managed"), Create("saas_access_projections"),
      Drop({"trg_access_shadow_outbox_vpn_keys_insert",
            "trg_access_shadow_outbox_vpn_keys_update"})>>

migration_45 ==
    Creates(<<"access_replacements", "access_replacement_unresolved",
              "access_replacement_callbacks">>)

migration_46 ==
    Creates(<<"checkout_intents", "checkout_intent_unresolved",
              "checkout_callbacks">>)

migration_47 == <<Create("checkout_ui")>>

MIGRATIONS == [v \in (INITIAL_VERSION + 1)..LATEST_VERSION |->
    CASE v = 22 -> migration_22 [] v = 23 -> migration_23
      [] v = 24 -> migration_24 [] v = 25 -> migration_25
      [] v = 26 -> migration_26 [] v = 27 -> migration_27
      [] v = 28 -> migration_28 [] v = 29 -> migration_29
      [] v = 30 -> migration_30 [] v = 31 -> migration_31
      [] v = 32 -> migration_32 [] v = 33 -> migration_33
      [] v = 34 -> migration_34 [] v = 35 -> migration_35
      [] v = 36 -> migration_36 [] v = 37 -> migration_37
      [] v = 38 -> migration_38 [] v = 39 -> migration_39
      [] v = 40 -> migration_40 [] v = 41 -> migration_41
      [] v = 42 -> migration_42 [] v = 43 -> migration_43
      [] v = 44 -> migration_44 [] v = 45 -> migration_45
      [] v = 46 -> migration_46 [] v = 47 -> migration_47]

----------------------------------------------------------------------------
(* run_migrations *)

\* The statements that lead to version v, which set_version then records.
Step == [v \in INITIAL_VERSION..LATEST_VERSION |->
            IF v = INITIAL_VERSION THEN migration_initial ELSE MIGRATIONS[v]]

\* A version below 21 cannot be migrated: RuntimeError at every start.
TooOld(current) == current \in 1..(INITIAL_VERSION - 1)

\* Mistake: the version after the one that is found is skipped.
SkipFirst(current) == IF current = 0 THEN INITIAL_VERSION ELSE current + 2

\* The version that is built first on a database at version "current"; the
\* following ones are built up to the newest of the release, if any is left.
run_migrations(current) ==
    IF current = 0 THEN INITIAL_VERSION ELSE current + 1

----------------------------------------------------------------------------
(* Databases: none at all, and those older releases have left *)

Empty == [version |-> 0, objects |-> {}, settings |-> << >>, pages |-> << >>,
          rows |-> << >>]

\* What the statements of version v make, by what they do.
Made(v, do) ==
    UNION {Step[v][i].names : i \in {j \in DOMAIN Step[v] : Step[v][j].do \in do}}

\* What a database has since version v.  The oldest one need not have what
\* the later migrations add to it, although migration_initial creates it.
Since(v, do) ==
    IF v = INITIAL_VERSION
    THEN Made(v, do) \
            UNION {Made(w, do) : w \in (INITIAL_VERSION + 1)..LATEST_VERSION}
    ELSE Made(v, do)

\* What version v of the schema consists of.
Contents ==
    LET Upto(v, do) == UNION {Since(w, do) : w \in INITIAL_VERSION..v}
    IN  [v \in INITIAL_VERSION..LATEST_VERSION |->
            [objects |-> Upto(v, {"table", "create"}),
             settings |-> Upto(v, {"set"}), pages |-> Upto(v, {"page"})]]

Has(db, v) ==
    /\ Contents[v].objects \subseteq db.objects
    /\ Contents[v].settings \subseteq DOMAIN db.settings
    /\ Contents[v].pages \subseteq DOMAIN db.pages

\* The payment page as the release of version 21 laid it out, then with the
\* methods of versions 24 and 25.
OldRows ==
    [btn_pay_crypto |-> 0, btn_pay_stars |-> 1, btn_pay_cards |-> 2,
     btn_pay_qr |-> 3, btn_pay_demo |-> 4, btn_pay_balance |-> 5,
     btn_back_main |-> 6]

PlategaRows ==
    [btn_pay_crypto |-> 0, btn_pay_stars |-> 1, btn_pay_cards |-> 2,
     btn_pay_qr |-> 3, btn_pay_wata |-> 4, btn_pay_platega |-> 5,
     btn_pay_demo |-> 6, btn_pay_balance |-> 7, btn_back_main |-> 8]

NewestRows ==
    [btn_pay_crypto |-> 0, btn_pay_stars |-> 1, btn_pay_cards |-> 2,
     btn_pay_qr |-> 3, btn_pay_wata |-> 4, btn_pay_platega |-> 5,
     btn_pay_cardlink |-> 6, btn_pay_demo |-> 7, btn_pay_balance |-> 8,
     btn_back_main |-> 9]

\* The layouts a database of version v may have: migration_initial has the
\* method of version 23 already.
RowsAt(v) ==
    CASE v = 0 -> {<< >>}
      [] v \in 21..22 -> {OldRows, PrepaymentRows}
      [] v = 23 -> {PrepaymentRows}
      [] v = 24 -> {PlategaRows}
      [] v > 24 -> {NewestRows}

IsDatabase(db) ==
    db = [version |-> db.version, objects |-> db.objects,
          settings |-> db.settings, pages |-> db.pages, rows |-> db.rows]

\* A database an older release has left, at a version that can be migrated.
IsOldDatabase(db) ==
    /\ IsDatabase(db)
    /\ db.version \in INITIAL_VERSION..LATEST_VERSION
    /\ Has(db, db.version)
    /\ db.rows \in RowsAt(db.version)
=============================================================================
