------------------------------- MODULE KeyBook -------------------------------
(* The rows of vpn_keys (database/db_keys.py) and the clients of the 3X-UI   *)
(* panels they describe.  Time passes in parts of a day, one tariff gives    *)
(* every key the same traffic limit, and the traffic of a client is counted  *)
(* up to that limit.  A panel enforces the term and the limit of its clients by    *)
(* itself; whether a client is switched on is up to the bot.                 *)
EXTENDS Integers, FiniteSets

CONSTANTS
    None,
    Keys,           \* ids of vpn_keys
    Servers,
    Inbounds,       \* inbound ids, on every server the same
    Public,         \* the inbounds a subscription may expose
    Shared,         \* the clients API: one record for all inbounds of an email
    Day,            \* the parts of a day
    MaxTime,        \* bound: the last moment
    Replacements    \* bound: addresses a key may get after its first

ASSUME KeyBookAssumption ==
    /\ Inbounds \subseteq Nat /\ IsFiniteSet(Inbounds)
    /\ Public \subseteq Inbounds /\ Public # {}
    /\ Shared \in BOOLEAN
    /\ Day \in Nat \ {0} /\ MaxTime \in Nat \ {0} /\ Replacements \in Nat

VARIABLES
    rows,       \* vpn_keys
    banned,     \* keys whose user has users.is_banned
    now,        \* the time
    mode,       \* the setting bot_mode
    panel,      \* the clients of each inbound, by email
    meter       \* the traffic a panel counted for an email

Limit == 1
Moments == 0 .. MaxTime + Day
Emails == Keys \X (0 .. Replacements)

Row == [server : Servers, email : Emails, main : Inbounds,
        sub : BOOLEAN, until : 0 .. MaxTime, used : 0 .. Limit, told : BOOLEAN]
Client == [on : BOOLEAN, until : Moments]

Least(S) == CHOOSE x \in S : \A y \in S : x <= y

(* The mode decides which inbounds carry a key.                              *)
Modes == {"subscription", "key"}
Visible(by) == IF by = "subscription" THEN Public ELSE Inbounds

is_key_active(row) == row.until > now /\ row.used < Limit
is_traffic_exhausted(row) == row.used >= Limit
InTerm(row) == row.until > now
get_all_active_keys_with_server ==
    {k \in Keys : rows[k] # None /\ InTerm(rows[k])}

(* A write to a row that is gone changes nothing.                            *)
Put(k, row) == [rows EXCEPT ![k] = IF @ = None THEN None ELSE row]

extend_vpn_key(row, span) ==
    LET base == IF row.until > now THEN row.until ELSE now
    IN  [row EXCEPT !.until = IF base + span > now THEN base + span ELSE now]
reset_key_traffic_notification(row) == [row EXCEPT !.used = 0, !.told = FALSE]
update_vpn_key_config(row, server, email, main, sub) ==
    [row EXCEPT !.server = server, !.email = email, !.main = main, !.sub = sub]

\* Mistake: the traffic that was written never falls.
bulk_update_most(got) ==
    [k \in Keys |-> IF rows[k] = None \/ got[k] = None \/ got[k] < rows[k].used THEN rows[k]
                    ELSE [rows[k] EXCEPT !.used = got[k]]]

\* The traffic of many keys is written at once, over what is there.
bulk_update_traffic(got) ==
    [k \in Keys |-> IF rows[k] = None \/ got[k] = None THEN rows[k]
                    ELSE [rows[k] EXCEPT !.used = got[k]]]

(* The calls of the panel client.                                            *)
Presence(server, email) == [i \in Inbounds |-> panel[server][i][email]]
At(here) == {i \in Inbounds : here[i] # None}
add_client(server, i, email, client) ==
    [panel EXCEPT ![server][i][email] = IF @ = None THEN client ELSE @]
delete_client(server, i, email) == [panel EXCEPT ![server][i][email] = None]
delete_clients_by_email_on_server(server, email) ==
    [panel EXCEPT ![server] = [i \in Inbounds |-> [@[i] EXCEPT ![email] = None]]]
update_client_full(server, i, email, client) ==
    [panel EXCEPT ![server] =
        [j \in Inbounds |->
            IF (j = i \/ Shared) /\ @[j][email] # None
            THEN [@[j] EXCEPT ![email] = client] ELSE @[j]]]
reset_client_traffic(server, email) == [meter EXCEPT ![server][email] = 0]

(* External: time passes, and a client that is on and in its term is used.   *)
Tick == now < MaxTime /\ now' = now + 1 /\ UNCHANGED <<rows, banned, mode, panel, meter>>
Use(server, email) ==
    /\ \E i \in Inbounds : LET c == panel[server][i][email]
                           IN  c # None /\ c.on /\ c.until > now
    /\ meter[server][email] < Limit
    /\ meter' = [meter EXCEPT ![server][email] = @ + 1]
    /\ UNCHANGED <<rows, banned, now, mode, panel>>

(* A key is at its first address; an earlier mode or a hand at the panel may *)
(* have left it in any inbounds.                                             *)
BookInit ==
    /\ now = 0 /\ banned = {} /\ mode \in Modes
    /\ \E home \in Servers, in \in SUBSET Inbounds, term \in {0, 1} :
        /\ rows = [k \in Keys |-> [server |-> home, email |-> <<k, 0>>,
                    main |-> Least(Public),
                    sub |-> mode = "subscription", until |-> term, used |-> 0, told |-> FALSE]]
        /\ panel = [s \in Servers |-> [i \in Inbounds |-> [e \in Emails |->
                    IF s = home /\ i \in in /\ e[2] = 0
                    THEN [on |-> term > 0, until |-> term] ELSE None]]]
    /\ meter = [s \in Servers |-> [e \in Emails |-> 0]]
=============================================================================
