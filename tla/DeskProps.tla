----------------------------- MODULE DeskProps -----------------------------
(***************************************************************************)
(* What the desk must keep true although its buttons never expire, one     *)
(* conversation serves every screen, and handlers overlap.                 *)
(***************************************************************************)
EXTENDS Desk

\* Every server is in some existing group and every link is between what
\* exists: no server vanishes from what users of its group are offered because
\* a group was deleted, or left, while a wizard or an old screen still named it.
\* (add_server, toggle_server_group, delete_group; get_active_servers_by_group.)
ServerIsPlaced ==
    /\ cat.placed \subseteq Servers(cat) \X Groups(cat)
    /\ \A s \in Servers(cat) : get_server_group_ids(cat, s) # {}

\* A typed value is stored in what the administrator opened a form on last,
\* even when a handler of another screen ends in between and writes to the same
\* conversation. (edit_server_value, edit_tariff_value, edit_tariff_billing_type
\* and the group handlers take the object from the conversation.)
StoredWhereOpened == edited.on = edited.shown

\* A server or tariff is saved complete, and with the answers of one wizard
\* only, although the save button of an earlier wizard still works and a
\* pending answer of it may move the step of the next. (start_add_server,
\* start_add_tariff, add_server_save, add_tariff_save.)
SavedFromOneWizard ==
    /\ \A s \in Servers(cat) :
          /\ Params(cat.servers[s].answers) = {ServerParams[i] : i \in DOMAIN ServerParams}
          /\ \A d, e \in cat.servers[s].answers : d.wizard = e.wizard
    /\ \A t \in Tariffs(cat) :
          /\ Required \subseteq Params(cat.tariffs[t].answers)
          /\ \A d, e \in cat.tariffs[t].answers : d.wizard = e.wizard

=============================================================================
