----------------------------- MODULE Catalogue -----------------------------
(***************************************************************************)
(* What the bot sells, as the tables servers, tariff_groups, server_groups *)
(* and tariffs hold it, and the functions of database/db_servers.py,       *)
(* db_groups.py and db_tariffs.py that change it, each one transaction.    *)
(*                                                                         *)
(* A server keeps where its settings came from ("answers": which wizard    *)
(* gave each parameter) and how often they were edited; a tariff likewise. *)
(* Group 1 is "Основная".  Identifiers are AUTOINCREMENT: "ids" holds the  *)
(* last one given, none is given twice.  server_groups refers to servers   *)
(* and groups by foreign keys that cascade; tariffs.group_id refers to     *)
(* nothing.                                                                *)
(***************************************************************************)
EXTENDS Naturals, FiniteSets, FiniteSetsExt, TLC

CONSTANT MaxPosition  \* 9999 in the code

ASSUME CatalogueAssumption == MaxPosition \in Nat \ {0}

NoServer == 0
Main == 1

Groups(c) == DOMAIN c.groups
Servers(c) == DOMAIN c.servers
Tariffs(c) == DOMAIN c.tariffs

Without(f, x) == [y \in DOMAIN f \ {x} |-> f[y]]

_normalize_sort_order(n) == Max({1, Min({n, MaxPosition})})

LastPosition(c) == Max({0} \union {c.groups[g] : g \in Groups(c)})

(***************************************************************************)
(* tariff_groups                                                           *)
(***************************************************************************)

add_group(c, position) ==
    LET g == c.ids.group + 1
    IN [c EXCEPT !.ids.group = g,
                 !.groups = @ @@ (g :> _normalize_sort_order(position))]

update_group_sort_order(c, g, position) ==
    [c EXCEPT !.groups = [h \in Groups(c) |->
        IF h = g THEN _normalize_sort_order(position) ELSE @[h]]]

\* Mistake: the servers of the group are left to the cascade.
KeepServersOut(c, g) ==
    [c EXCEPT !.tariffs = [t \in Tariffs(c) |->
                  IF @[t].group = g THEN [@[t] EXCEPT !.group = Main] ELSE @[t]],
              !.placed = {p \in @ : p[2] # g},
              !.groups = Without(@, g)]

\* Tariffs and servers move to the main group, which cannot be deleted; the
\* links of the group go with it (ON DELETE CASCADE).
delete_group(c, g) ==
    [c EXCEPT !.tariffs = [t \in Tariffs(c) |->
                  IF @[t].group = g THEN [@[t] EXCEPT !.group = Main] ELSE @[t]],
              !.placed = {p \in @ : p[2] # g}
                            \union {<<p[1], Main>> : p \in {q \in @ : q[2] = g}},
              !.groups = Without(@, g)]

\* The group changes places with the nearest one above it (any of them, when
\* several share the position); the first one goes past the last.
move_group_up(c, g) ==
    LET above == {h \in Groups(c) : c.groups[h] < c.groups[g]}
        nearest == {h \in above : \A i \in above : c.groups[i] <= c.groups[h]}
    IN IF above # {}
       THEN {[c EXCEPT !.groups[g] = c.groups[h], !.groups[h] = c.groups[g]] : h \in nearest}
       ELSE IF LastPosition(c) # c.groups[g]
            THEN {[c EXCEPT !.groups[g] = LastPosition(c) + 1]}
            ELSE {c}

(***************************************************************************)
(* servers and server_groups                                               *)
(***************************************************************************)

get_server_group_ids(c, s) == {g \in Groups(c) : <<s, g>> \in c.placed}

\* The row and its link are one transaction: a group that is gone refuses both.
CanAddServer(c, g) == g \in Groups(c)

add_server(c, g, answers) ==
    LET s == c.ids.server + 1
    IN [c EXCEPT !.ids.server = s,
                 !.servers = @ @@ (s :> [active |-> TRUE, edits |-> 0, answers |-> answers]),
                 !.placed = @ \union {<<s, g>>}]

update_server_field(c, s) == [c EXCEPT !.servers[s].edits = @ + 1]

toggle_server_active(c, s) == [c EXCEPT !.servers[s].active = ~@]

delete_server(c, s) ==
    [c EXCEPT !.servers = Without(@, s), !.placed = {p \in @ : p[1] # s}]

\* A link to what is gone is refused by the foreign keys, which OR IGNORE
\* does not silence.
toggle_server_group(c, s, g) ==
    IF <<s, g>> \in c.placed
    THEN IF Cardinality(get_server_group_ids(c, s)) <= 1 THEN c
         ELSE [c EXCEPT !.placed = @ \ {<<s, g>>}]
    ELSE IF s \in Servers(c) /\ g \in Groups(c)
         THEN [c EXCEPT !.placed = @ \union {<<s, g>>}] ELSE c

(***************************************************************************)
(* tariffs                                                                 *)
(***************************************************************************)

add_tariff(c, g, answers) ==
    LET t == c.ids.tariff + 1
    IN [c EXCEPT !.ids.tariff = t,
                 !.tariffs = @ @@ (t :> [group |-> g, active |-> TRUE, answers |-> answers])]

\* Of the columns update_tariff writes only the group matters here.
update_tariff(c, t, g) == [c EXCEPT !.tariffs[t].group = g]

toggle_tariff_active(c, t) == [c EXCEPT !.tariffs[t].active = ~@]

(***************************************************************************)
(* What a user is offered (bot/utils/groups.py)                            *)
(***************************************************************************)

get_groups_count(c) == Cardinality(Groups(c))

get_active_servers(c) == {s \in Servers(c) : c.servers[s].active}

get_active_servers_by_group(c, g) ==
    {s \in get_active_servers(c) : <<s, g>> \in c.placed}

get_tariff_group_id(c, t) == c.tariffs[t].group

get_servers_for_key(c, t) ==
    IF get_groups_count(c) <= 1 THEN get_active_servers(c)
    ELSE get_active_servers_by_group(c, get_tariff_group_id(c, t))

(***************************************************************************)
(* The cache of panel clients (vpn_api._clients): a client is built from a *)
(* row and keeps its settings; "row" is how often they had been edited.    *)
(***************************************************************************)

get_client_from_server_data(clients, s, row) ==
    IF s \in DOMAIN clients THEN clients ELSE clients @@ (s :> row)

invalidate_client_cache(clients, s) == Without(clients, s)
=============================================================================
