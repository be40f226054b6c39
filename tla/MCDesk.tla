------------------------------ MODULE MCDesk -------------------------------
(***************************************************************************)
(* Desk for TLC: two groups with a server and a tariff in each, or the     *)
(* main group alone.  The wizards are gone through together, then they and *)
(* the forms each together with the groups.                                *)
(***************************************************************************)
EXTENDS DeskProps

CONSTANTS k1, k2

MCServerParams == <<"name", "panel_url">>
MCAddParams == <<"name", "price_cents", "billing_type">>
MCEditParams == <<"name", "billing_type">>
MCRequired == {"name", "price_cents"}

Whole(asked) == {[param |-> asked[i], wizard |-> 0] : i \in DOMAIN asked}

MCCatalogues ==
    LET server == [active |-> TRUE, edits |-> 0, answers |-> Whole(MCServerParams)]
        tariff == [active |-> TRUE, group |-> 1, answers |-> Whole(MCAddParams)]
        two == [ids |-> [group |-> 2, server |-> 2, tariff |-> 2],
                groups |-> 1 :> 1 @@ 2 :> 2,
                servers |-> 1 :> server @@ 2 :> server,
                placed |-> {<<1, 1>>, <<2, 2>>},
                tariffs |-> 1 :> tariff @@ 2 :> [tariff EXCEPT !.group = 2]]
        alone == [two EXCEPT !.groups = 1 :> 1, !.placed = {<<1, 1>>, <<2, 1>>},
                             !.tariffs = 1 :> tariff @@ 2 :> tariff]
    IN {two, alone}

MCDuties ==
    {[about |-> {"server wizard", "tariff wizard"}, ops |-> 9],
     [about |-> {"server wizard", "groups"}, ops |-> 6],
     [about |-> {"tariff wizard", "groups"}, ops |-> 5],
     [about |-> {"servers", "groups"}, ops |-> 5],
     [about |-> {"tariffs", "groups"}, ops |-> 4],
     [about |-> {"keys", "panels", "restarts"}, ops |-> 5]}

MCKeys == k1 :> [tariff |-> 1, server |-> 1] @@ k2 :> [tariff |-> 2, server |-> 2]
=============================================================================
