-------------------------------- MODULE Desk --------------------------------
(***************************************************************************)
(* The administrators' desk: the screens over servers, tariffs and groups  *)
(* (bot/handlers/admin/servers.py, servers_fast.py, tariffs.py, groups.py),*)
(* the loop that reads the panels of all servers, and the user screens     *)
(* that put a key on another server (bot/handlers/user/keys.py).           *)
(*                                                                         *)
(* A conversation is one state and one dictionary per administrator        *)
(* (MemoryStorage, shared by every screen and lost with the process).  A   *)
(* button stays on its message: pressing one of an old screen runs the     *)
(* handler with the conversation as it is now.  Handlers of one            *)
(* administrator run concurrently and interleave where they await          *)
(* Telegram or a panel: "running" holds the rest of those that have begun. *)
(*                                                                         *)
(* States that no handler asks for (the views, the lists, the menus, the   *)
(* confirmations) are one, "resting".  Refused input changes nothing and   *)
(* is left out.                                                            *)
(***************************************************************************)
EXTENDS Catalogue, Sequences

CONSTANTS
    Admins,        \* the administrators
    Keys,          \* the keys of one user
    ServerParams,  \* what the server wizard asks for, in order
    AddParams,     \* what the tariff wizard asks for, in order
    EditParams,    \* what the tariff editor offers, in order
    Required,      \* the answers add_tariff_save cannot do without
    Catalogues,    \* the catalogues a behaviour starts with
    FirstKeys,     \* the keys it starts with
    Positions,     \* the positions administrators type: a bound
    Duties,        \* what one behaviour may be about, and how many buttons and
                   \* messages it has: a bound
    MaxRunning     \* handlers of one administrator at once: a bound

ASSUME DeskAssumption ==
    /\ MaxRunning \in Nat
    /\ \A d \in Duties : d.ops \in Nat
    /\ Positions \subseteq 1..MaxPosition
    /\ Required \subseteq {AddParams[i] : i \in DOMAIN AddParams}
    /\ Len(ServerParams) <= Len(EditParams)

VARIABLES
    cat,      \* the catalogue
    keys,     \* per key: its tariff and its server
    fsm,      \* per administrator: the conversation
    running,  \* per administrator: handlers that wait in the middle
    buttons,  \* per administrator: buttons without an identifier he has been shown
    wizard,   \* per administrator: the wizard of each kind he opened last, by its number
    opened,   \* per administrator: the form he opened last, and on what
    edited,   \* the last value stored from a form: on what, and what was opened
    choice,   \* the user's conversation about replacing a key
    offered,  \* servers he has been offered
    clients,  \* panel clients in the cache
    scan,     \* rows the loop over the servers has read and not come to
    duty, ops \* the bounds

adminVars == <<fsm, running, buttons, wizard, opened, edited>>
userVars == <<keys, choice, offered>>
panelVars == <<clients, scan>>
vars == <<cat, keys, fsm, running, buttons, wizard, opened, edited, choice, offered,
          clients, scan, duty, ops>>

Silent ==
    [state |-> "resting", server |-> 0, tariff |-> 0, group |-> 0, param |-> 1,
     add_step |-> 1, selected |-> Main, named |-> FALSE,
     server_data |-> {}, tariff_data |-> {}]

NoForm == [form |-> "none", on |-> 0]
NoChoice == [state |-> "none", key |-> CHOOSE k \in Keys : TRUE, server |-> 0]

Init ==
    /\ cat \in Catalogues
    /\ keys = FirstKeys
    /\ fsm = [a \in Admins |-> Silent]
    /\ running = [a \in Admins |-> {}]
    /\ buttons = [a \in Admins |-> {}]
    /\ wizard = [a \in Admins |-> [server |-> 0, tariff |-> 0]]
    /\ opened = [a \in Admins |-> NoForm]
    /\ edited = [on |-> NoForm, shown |-> NoForm]
    /\ choice = NoChoice
    /\ offered = {}
    /\ clients = << >>
    /\ scan = << >>
    /\ duty \in Duties
    /\ ops = 0

(***************************************************************************)
(* What actions are made of                                                *)
(***************************************************************************)

Ids(n) == 1..n   \* every identifier some screen has shown

Press(about) == about \in duty.about /\ ops < duty.ops /\ ops' = ops + 1 /\ UNCHANGED duty

\* The handler writes the conversation and is done at once.
Say(a, said) == fsm' = [fsm EXCEPT ![a] = said]

\* The handler waits in the middle; the rest is still to run.
Wait(a, rest) ==
    /\ Cardinality(running[a]) < MaxRunning
    /\ running' = [running EXCEPT ![a] = @ \union {rest}]

Rest(op, on) == [op |-> op, on |-> on, shown |-> NoForm, position |-> 1]

Resume(a, rest) ==
    /\ rest \in running[a]
    /\ running' = [running EXCEPT ![a] = @ \ {rest}]
    /\ UNCHANGED <<duty, ops>>

Open(a, form, on) == opened' = [opened EXCEPT ![a] = [form |-> form, on |-> on]]

Show(a, button) == buttons' = [buttons EXCEPT ![a] = @ \union {button}]

\* The answer to a parameter replaces the one before; it is known by the
\* wizard it was typed in.
Answered(data, param, w) == {d \in data : d.param # param} \union {[param |-> param, wizard |-> w]}
Params(data) == {d.param : d \in data}

At(a, state) == fsm[a].state = state

(***************************************************************************)
(* Servers: lists and views                                                *)
(***************************************************************************)

ListServers(said) == [said EXCEPT !.state = "resting", !.server_data = {}]

\* Mistake: the view keeps the state of the conversation.
NameOnly(said, s) == [said EXCEPT !.server = s]
render_server_view(said, s) == [said EXCEPT !.state = "resting", !.server = s]

show_servers_list(a) ==
    /\ Press("server wizard")
    /\ Say(a, ListServers(fsm[a]))
    /\ UNCHANGED <<cat, running, buttons, wizard, opened, edited, userVars, panelVars>>

show_server_view(a, s) ==
    /\ Press("servers")
    /\ s \in Servers(cat)
    /\ Say(a, render_server_view(fsm[a], s))
    /\ UNCHANGED <<cat, running, buttons, wizard, opened, edited, userVars, panelVars>>

RenderServer(a, rest) ==
    /\ rest.op = "server view"
    /\ Resume(a, rest)
    /\ Say(a, IF rest.on \in Servers(cat) THEN render_server_view(fsm[a], rest.on) ELSE fsm[a])
    /\ UNCHANGED <<cat, buttons, wizard, opened, edited, userVars, panelVars>>

RelistServers(a, rest) ==
    /\ rest.op = "server list"
    /\ Resume(a, rest)
    /\ Say(a, ListServers(fsm[a]))
    /\ UNCHANGED <<cat, buttons, wizard, opened, edited, userVars, panelVars>>

(***************************************************************************)
(* Servers: the wizard                                                     *)
(***************************************************************************)

\* Mistake: the answers of the wizard before are still there.
KeepAnswers(said) ==
    IF get_groups_count(cat) > 1
    THEN [said EXCEPT !.state = "server_select_group"]
    ELSE [said EXCEPT !.state = "add_server", !.add_step = 1, !.selected = Main]

EmptyServerForm(said) ==
    IF get_groups_count(cat) > 1
    THEN [said EXCEPT !.state = "server_select_group", !.server_data = {}]
    ELSE [said EXCEPT !.state = "add_server", !.server_data = {},
                      !.add_step = 1, !.selected = Main]

start_add_server(a) ==
    /\ Press("server wizard")
    /\ Say(a, EmptyServerForm(fsm[a]))
    /\ Show(a, "server back")
    /\ wizard' = [wizard EXCEPT ![a].server = ops + 1]
    /\ UNCHANGED <<cat, running, opened, edited, userVars, panelVars>>

server_group_selected(a, g) ==
    /\ Press("server wizard")
    /\ At(a, "server_select_group")
    /\ Say(a, [fsm[a] EXCEPT !.state = "add_server", !.add_step = 1, !.selected = g])
    /\ UNCHANGED <<cat, running, buttons, wizard, opened, edited, userVars, panelVars>>

\* "add_step" is also the tariff wizard's: a step no server state has raises.
add_server_back(a) ==
    /\ Press("server wizard")
    /\ "server back" \in buttons[a]
    /\ LET step == fsm[a].add_step
       IN /\ step - 1 <= Len(ServerParams)
          /\ Say(a, IF step <= 1 THEN ListServers(fsm[a])
                    ELSE [fsm[a] EXCEPT !.state = "add_server", !.add_step = step - 1])
    /\ UNCHANGED <<cat, running, buttons, wizard, opened, edited, userVars, panelVars>>

\* The answer is kept before the message is deleted; the step it moves to is
\* computed from the one read before.
process_add_step(a) ==
    /\ Press("server wizard")
    /\ At(a, "add_server") /\ fsm[a].add_step \in DOMAIN ServerParams
    /\ Say(a, [fsm[a] EXCEPT !.server_data =
                  Answered(@, ServerParams[fsm[a].add_step], wizard[a].server)])
    /\ Wait(a, Rest("server step", fsm[a].add_step))
    /\ UNCHANGED <<cat, buttons, wizard, opened, edited, userVars, panelVars>>

NextServerStep(a, rest) ==
    /\ rest.op = "server step"
    /\ Resume(a, rest)
    /\ IF rest.on < Len(ServerParams)
       THEN /\ Say(a, [fsm[a] EXCEPT !.state = "add_server", !.add_step = rest.on + 1])
            /\ UNCHANGED buttons
       ELSE /\ Say(a, [fsm[a] EXCEPT !.state = "resting", !.add_step = Len(ServerParams) + 1])
            /\ Show(a, "server save")
    /\ UNCHANGED <<cat, wizard, opened, edited, userVars, panelVars>>

\* The button asks for no state: it saves what the conversation holds now.
add_server_save(a) ==
    /\ Press("server wizard")
    /\ "server save" \in buttons[a]
    /\ Params(fsm[a].server_data) = {ServerParams[i] : i \in DOMAIN ServerParams}
    /\ CanAddServer(cat, fsm[a].selected)
    /\ cat' = add_server(cat, fsm[a].selected, fsm[a].server_data)
    /\ Wait(a, Rest("server view", cat.ids.server + 1))
    /\ UNCHANGED <<fsm, buttons, wizard, opened, edited, userVars, panelVars>>

(***************************************************************************)
(* Servers: editing, switching, deleting, groups                           *)
(***************************************************************************)

start_edit_server(a, s) ==
    /\ Press("servers")
    /\ s \in Servers(cat)
    /\ Say(a, [fsm[a] EXCEPT !.state = "edit_server", !.server = s, !.param = 1])
    /\ Open(a, "server", s)
    /\ Show(a, "server edit")
    /\ UNCHANGED <<cat, running, wizard, edited, userVars, panelVars>>

edit_server_prev(a) ==
    /\ Press("servers")
    /\ "server edit" \in buttons[a] /\ fsm[a].server \in Servers(cat)
    /\ Say(a, [fsm[a] EXCEPT !.param = Max({1, @ - 1})])
    /\ UNCHANGED <<cat, running, buttons, wizard, opened, edited, userVars, panelVars>>

edit_server_next(a) ==
    /\ Press("servers")
    /\ "server edit" \in buttons[a] /\ fsm[a].server \in Servers(cat)
    /\ Say(a, [fsm[a] EXCEPT !.param = Min({Len(ServerParams), @ + 1})])
    /\ UNCHANGED <<cat, running, buttons, wizard, opened, edited, userVars, panelVars>>

\* The value goes to the server of the conversation, and the cached client
\* is dropped; nothing is written after the handler waits.
edit_server_value(a) ==
    /\ Press("servers")
    /\ At(a, "edit_server") /\ fsm[a].server \in Servers(cat)
    /\ cat' = update_server_field(cat, fsm[a].server)
    /\ edited' = [on |-> [form |-> "server", on |-> fsm[a].server], shown |-> opened[a]]
    /\ clients' = invalidate_client_cache(clients, fsm[a].server)
    /\ UNCHANGED <<fsm, running, buttons, wizard, opened, userVars, scan>>

edit_server_done(a) ==
    /\ Press("servers")
    /\ "server edit" \in buttons[a] /\ fsm[a].server \in Servers(cat)
    /\ Say(a, render_server_view(fsm[a], fsm[a].server))
    /\ UNCHANGED <<cat, running, buttons, wizard, opened, edited, userVars, panelVars>>

toggle_server(a, s) ==
    /\ Press("servers")
    /\ s \in Servers(cat)
    /\ cat' = toggle_server_active(cat, s)
    /\ clients' = invalidate_client_cache(clients, s)
    /\ Wait(a, Rest("server view", s))
    /\ UNCHANGED <<fsm, buttons, wizard, opened, edited, userVars, scan>>

confirm_delete_server(a, s) ==
    /\ Press("servers")
    /\ s \in Servers(cat)
    /\ Say(a, [fsm[a] EXCEPT !.state = "resting"])
    /\ UNCHANGED <<cat, running, buttons, wizard, opened, edited, userVars, panelVars>>

\* The keys of the server are unlinked first, in the same transaction.
execute_delete_server(a, s) ==
    /\ Press("servers")
    /\ s \in Servers(cat)
    /\ cat' = delete_server(cat, s)
    /\ keys' = [k \in Keys |-> IF keys[k].server = s
                               THEN [keys[k] EXCEPT !.server = NoServer] ELSE keys[k]]
    /\ clients' = invalidate_client_cache(clients, s)
    /\ Wait(a, Rest("server list", 0))
    /\ UNCHANGED <<fsm, buttons, wizard, opened, edited, choice, offered, scan>>

server_toggle_group(a, s, g) ==
    /\ Press("groups")
    /\ cat' = toggle_server_group(cat, s, g)
    /\ UNCHANGED <<adminVars, userVars, panelVars>>

(***************************************************************************)
(* Tariffs: lists, views, the wizard                                       *)
(***************************************************************************)

ListTariffs(said) == [said EXCEPT !.state = "resting", !.tariff_data = {}]
render_tariff_view(said, t) == [said EXCEPT !.state = "resting", !.tariff = t]

show_tariffs_list(a) ==
    /\ Press("tariff wizard")
    /\ Say(a, ListTariffs(fsm[a]))
    /\ UNCHANGED <<cat, running, buttons, wizard, opened, edited, userVars, panelVars>>

show_tariff_view(a, t) ==
    /\ Press("tariffs")
    /\ t \in Tariffs(cat)
    /\ Say(a, render_tariff_view(fsm[a], t))
    /\ UNCHANGED <<cat, running, buttons, wizard, opened, edited, userVars, panelVars>>

RenderTariff(a, rest) ==
    /\ rest.op = "tariff view"
    /\ Resume(a, rest)
    /\ Say(a, render_tariff_view(fsm[a], rest.on))
    /\ UNCHANGED <<cat, buttons, wizard, opened, edited, userVars, panelVars>>

toggle_tariff(a, t) ==
    /\ Press("tariffs")
    /\ t \in Tariffs(cat)
    /\ cat' = toggle_tariff_active(cat, t)
    /\ Wait(a, Rest("tariff view", t))
    /\ UNCHANGED <<fsm, buttons, wizard, opened, edited, userVars, panelVars>>

start_add_tariff(a) ==
    /\ Press("tariff wizard")
    /\ Say(a, IF get_groups_count(cat) > 1
              THEN [fsm[a] EXCEPT !.state = "tariff_select_group", !.tariff_data = {}]
              ELSE [fsm[a] EXCEPT !.state = "add_tariff", !.tariff_data = {},
                                  !.add_step = 1, !.selected = Main])
    /\ Show(a, "tariff back")
    /\ wizard' = [wizard EXCEPT ![a].tariff = ops + 1]
    /\ UNCHANGED <<cat, running, opened, edited, userVars, panelVars>>

tariff_group_selected(a, g) ==
    /\ Press("tariff wizard")
    /\ At(a, "tariff_select_group")
    /\ Say(a, [fsm[a] EXCEPT !.state = "add_tariff", !.add_step = 1, !.selected = g])
    /\ UNCHANGED <<cat, running, buttons, wizard, opened, edited, userVars, panelVars>>

add_tariff_back(a) ==
    /\ Press("tariff wizard")
    /\ "tariff back" \in buttons[a]
    /\ LET step == fsm[a].add_step
       IN /\ step - 1 <= Len(AddParams)
          /\ Say(a, IF step <= 1 THEN ListTariffs(fsm[a])
                    ELSE [fsm[a] EXCEPT !.state = "add_tariff", !.add_step = step - 1])
    /\ UNCHANGED <<cat, running, buttons, wizard, opened, edited, userVars, panelVars>>

process_add_tariff_step(a) ==
    /\ Press("tariff wizard")
    /\ At(a, "add_tariff") /\ fsm[a].add_step \in DOMAIN AddParams
    /\ AddParams[fsm[a].add_step] # "billing_type"
    /\ Say(a, [fsm[a] EXCEPT !.tariff_data =
                  Answered(@, AddParams[fsm[a].add_step], wizard[a].tariff)])
    /\ Wait(a, Rest("tariff step", fsm[a].add_step))
    /\ UNCHANGED <<cat, buttons, wizard, opened, edited, userVars, panelVars>>

\* The last step is a button (the billing type), so a typed answer is never
\* the last one.
NextTariffStep(a, rest) ==
    /\ rest.op = "tariff step"
    /\ rest.on < Len(AddParams)
    /\ Resume(a, rest)
    /\ Say(a, [fsm[a] EXCEPT !.state = "add_tariff", !.add_step = rest.on + 1])
    /\ UNCHANGED <<cat, buttons, wizard, opened, edited, userVars, panelVars>>

\* The confirmation names every answer: it is not shown when one is missing.
add_tariff_billing_selected(a) ==
    /\ Press("tariff wizard")
    /\ At(a, "add_tariff") /\ fsm[a].add_step \in DOMAIN AddParams
    /\ AddParams[fsm[a].add_step] = "billing_type"
    /\ Say(a, [fsm[a] EXCEPT !.state = "resting",
                  !.tariff_data = Answered(@, "billing_type", wizard[a].tariff)])
    /\ IF Required \subseteq Params(fsm[a].tariff_data)
       THEN Show(a, "tariff save")
       ELSE UNCHANGED buttons
    /\ UNCHANGED <<cat, running, wizard, opened, edited, userVars, panelVars>>

add_tariff_save(a) ==
    /\ Press("tariff wizard")
    /\ "tariff save" \in buttons[a]
    /\ Required \subseteq Params(fsm[a].tariff_data)
    /\ cat' = add_tariff(cat, fsm[a].selected, fsm[a].tariff_data)
    /\ Wait(a, Rest("tariff view", cat.ids.tariff + 1))
    /\ UNCHANGED <<fsm, buttons, wizard, opened, edited, userVars, panelVars>>

(***************************************************************************)
(* Tariffs: editing and the group                                          *)
(***************************************************************************)

start_edit_tariff(a, t) ==
    /\ Press("tariffs")
    /\ t \in Tariffs(cat)
    /\ Say(a, [fsm[a] EXCEPT !.state = "edit_tariff", !.tariff = t, !.param = 1])
    /\ Open(a, "tariff", t)
    /\ Show(a, "tariff edit")
    /\ UNCHANGED <<cat, running, wizard, edited, userVars, panelVars>>

edit_tariff_prev(a) ==
    /\ Press("tariffs")
    /\ "tariff edit" \in buttons[a] /\ fsm[a].tariff \in Tariffs(cat)
    /\ Say(a, [fsm[a] EXCEPT !.param = Max({1, @ - 1})])
    /\ UNCHANGED <<cat, running, buttons, wizard, opened, edited, userVars, panelVars>>

edit_tariff_next(a) ==
    /\ Press("tariffs")
    /\ "tariff edit" \in buttons[a] /\ fsm[a].tariff \in Tariffs(cat)
    /\ Say(a, [fsm[a] EXCEPT !.param = Min({Len(EditParams), @ + 1})])
    /\ UNCHANGED <<cat, running, buttons, wizard, opened, edited, userVars, panelVars>>

\* The value is stored in the tariff of the conversation.
StoreInTariff(a) ==
    /\ At(a, "edit_tariff") /\ fsm[a].tariff \in Tariffs(cat)
    /\ edited' = [on |-> [form |-> "tariff", on |-> fsm[a].tariff], shown |-> opened[a]]

edit_tariff_value(a) ==
    /\ Press("tariffs")
    /\ EditParams[fsm[a].param] # "billing_type"
    /\ StoreInTariff(a)
    /\ UNCHANGED <<cat, fsm, running, buttons, wizard, opened, userVars, panelVars>>

edit_tariff_billing_type(a) ==
    /\ Press("tariffs")
    /\ "tariff edit" \in buttons[a]
    /\ StoreInTariff(a)
    /\ UNCHANGED <<cat, fsm, running, buttons, wizard, opened, userVars, panelVars>>

edit_tariff_done(a) ==
    /\ Press("tariffs")
    /\ "tariff edit" \in buttons[a] /\ fsm[a].tariff \in Tariffs(cat)
    /\ Say(a, render_tariff_view(fsm[a], fsm[a].tariff))
    /\ UNCHANGED <<cat, running, buttons, wizard, opened, edited, userVars, panelVars>>

\* The screen names a tariff but does not note it in the conversation ...
tariff_change_group_start(a, t) ==
    /\ Press("tariffs")
    /\ t \in Tariffs(cat)
    /\ Show(a, "tariff group")
    /\ UNCHANGED <<cat, fsm, running, wizard, opened, edited, userVars, panelVars>>

\* ... and the button on it moves the tariff the conversation is about.
tariff_change_group_execute(a, g) ==
    /\ Press("tariffs")
    /\ "tariff group" \in buttons[a] /\ fsm[a].tariff \in Tariffs(cat)
    /\ cat' = update_tariff(cat, fsm[a].tariff, g)
    /\ Wait(a, Rest("tariff view", fsm[a].tariff))
    /\ UNCHANGED <<fsm, buttons, wizard, opened, edited, userVars, panelVars>>

(***************************************************************************)
(* Groups                                                                  *)
(***************************************************************************)

ListGroups(said) == [said EXCEPT !.state = "resting"]

show_groups_list(a) ==
    /\ Press("groups")
    /\ Say(a, ListGroups(fsm[a]))
    /\ UNCHANGED <<cat, running, buttons, wizard, opened, edited, userVars, panelVars>>

RelistGroups(a, rest) ==
    /\ rest.op = "group list"
    /\ Resume(a, rest)
    /\ Say(a, ListGroups(fsm[a]))
    /\ UNCHANGED <<cat, buttons, wizard, opened, edited, userVars, panelVars>>

group_add_start(a) ==
    /\ Press("groups")
    /\ Say(a, [fsm[a] EXCEPT !.state = "group_add_name"])
    /\ UNCHANGED <<cat, running, buttons, wizard, opened, edited, userVars, panelVars>>

group_add_name_handler(a) ==
    /\ Press("groups")
    /\ At(a, "group_add_name")
    /\ Wait(a, Rest("group name", 0))
    /\ UNCHANGED <<cat, fsm, buttons, wizard, opened, edited, userVars, panelVars>>

AskPosition(a, rest) ==
    /\ rest.op = "group name"
    /\ Resume(a, rest)
    /\ Say(a, [fsm[a] EXCEPT !.state = "group_add_position", !.named = TRUE])
    /\ UNCHANGED <<cat, buttons, wizard, opened, edited, userVars, panelVars>>

group_add_position_handler(a, position) ==
    /\ Press("groups")
    /\ At(a, "group_add_position") /\ fsm[a].named
    /\ Wait(a, [Rest("group add", 0) EXCEPT !.position = position])
    /\ UNCHANGED <<cat, fsm, buttons, wizard, opened, edited, userVars, panelVars>>

AddGroup(a, rest) ==
    /\ rest.op = "group add"
    /\ Resume(a, rest)
    /\ cat' = add_group(cat, rest.position)
    /\ Say(a, ListGroups(fsm[a]))
    /\ UNCHANGED <<buttons, wizard, opened, edited, userVars, panelVars>>

OpenGroupForm(a, g, state) ==
    /\ Press("groups")
    /\ g \in Groups(cat)
    /\ Say(a, [fsm[a] EXCEPT !.state = state, !.group = g])
    /\ Open(a, "group", g)
    /\ UNCHANGED <<cat, running, buttons, wizard, edited, userVars, panelVars>>

group_edit_position_start(a, g) == OpenGroupForm(a, g, "group_edit_position")
group_edit_start(a, g) == OpenGroupForm(a, g, "group_edit_name")

\* The group is read from the conversation before the message is deleted and
\* changed after.
group_edit_position_handler(a, position) ==
    /\ Press("groups")
    /\ At(a, "group_edit_position")
    /\ Wait(a, [Rest("group position", fsm[a].group) EXCEPT
                   !.shown = opened[a], !.position = position])
    /\ UNCHANGED <<cat, fsm, buttons, wizard, opened, edited, userVars, panelVars>>

group_edit_name_handler(a) ==
    /\ Press("groups")
    /\ At(a, "group_edit_name")
    /\ Wait(a, [Rest("group rename", fsm[a].group) EXCEPT !.shown = opened[a]])
    /\ UNCHANGED <<cat, fsm, buttons, wizard, opened, edited, userVars, panelVars>>

StoreInGroup(rest) ==
    edited' = IF rest.on \in Groups(cat)
              THEN [on |-> [form |-> "group", on |-> rest.on], shown |-> rest.shown]
              ELSE edited

PlaceGroup(a, rest) ==
    /\ rest.op = "group position"
    /\ Resume(a, rest)
    /\ cat' = update_group_sort_order(cat, rest.on, rest.position)
    /\ StoreInGroup(rest)
    /\ Say(a, ListGroups(fsm[a]))
    /\ UNCHANGED <<buttons, wizard, opened, userVars, panelVars>>

RenameGroup(a, rest) ==
    /\ rest.op = "group rename"
    /\ Resume(a, rest)
    /\ StoreInGroup(rest)
    /\ Say(a, ListGroups(fsm[a]))
    /\ UNCHANGED <<cat, buttons, wizard, opened, userVars, panelVars>>

group_delete_confirm(a, g) ==
    /\ Press("groups")
    /\ g # Main /\ g \in Groups(cat)
    /\ cat' = delete_group(cat, g)
    /\ Wait(a, Rest("group list", 0))
    /\ UNCHANGED <<fsm, buttons, wizard, opened, edited, userVars, panelVars>>

group_move_up_handler(a, g) ==
    /\ Press("groups")
    /\ g \in Groups(cat)
    /\ cat' \in move_group_up(cat, g)
    /\ Wait(a, Rest("group list", 0))
    /\ UNCHANGED <<fsm, buttons, wizard, opened, edited, userVars, panelVars>>

(***************************************************************************)
(* The loop over the servers (get_servers_list_text, the scheduler): it    *)
(* reads all rows, then waits for one panel after the other.               *)
(***************************************************************************)

refresh_servers_list ==
    /\ Press("panels")
    /\ scan = << >>
    /\ scan' = [s \in get_active_servers(cat) |-> cat.servers[s].edits]
    /\ UNCHANGED <<cat, clients, adminVars, userVars>>

AskPanel(s) ==
    /\ s \in DOMAIN scan
    /\ clients' = get_client_from_server_data(clients, s, scan[s])
    /\ scan' = Without(scan, s)
    /\ UNCHANGED <<cat, duty, ops, adminVars, userVars>>

(***************************************************************************)
(* The user replaces a key (subscription mode)                             *)
(***************************************************************************)

key_replace_start_handler(k) ==
    /\ Press("keys")
    /\ LET servers == get_servers_for_key(cat, keys[k].tariff)
       IN /\ servers # {}
          /\ offered' = offered \union servers
          /\ choice' = [choice EXCEPT !.state = "users_server", !.key = k]
    /\ UNCHANGED <<cat, keys, adminVars, panelVars>>

\* The server comes from the button, the key from the conversation.
key_replace_server_handler(s) ==
    /\ Press("keys")
    /\ choice.state = "users_server"
    /\ s \in offered /\ s \in Servers(cat)
    /\ choice' = [choice EXCEPT !.state = "confirm", !.server = s]
    /\ UNCHANGED <<cat, keys, offered, adminVars, panelVars>>

key_replace_confirm_handler ==
    /\ Press("keys")
    /\ choice.state = "confirm" /\ choice.server \in Servers(cat)
    /\ keys' = [keys EXCEPT ![choice.key].server = choice.server]
    /\ clients' = get_client_from_server_data(clients, choice.server,
                                              cat.servers[choice.server].edits)
    /\ choice' = NoChoice
    /\ UNCHANGED <<cat, offered, scan, adminVars>>

\* The process is started again; the messages stay.
Restart ==
    /\ Press("restarts")
    /\ fsm' = [a \in Admins |-> Silent]
    /\ running' = [a \in Admins |-> {}]
    /\ choice' = NoChoice
    /\ clients' = << >>
    /\ scan' = << >>
    /\ UNCHANGED <<cat, keys, buttons, wizard, opened, edited, offered>>

Done == ops = duty.ops /\ scan = << >> /\ (\A a \in Admins : running[a] = {}) /\ UNCHANGED vars

Next ==
    \/ \E a \in Admins :
        \/ show_servers_list(a)
        \/ start_add_server(a) \/ add_server_back(a) \/ process_add_step(a) \/ add_server_save(a)
        \/ edit_server_prev(a) \/ edit_server_next(a) \/ edit_server_value(a) \/ edit_server_done(a)
        \/ show_tariffs_list(a)
        \/ start_add_tariff(a) \/ add_tariff_back(a) \/ process_add_tariff_step(a)
        \/ add_tariff_billing_selected(a) \/ add_tariff_save(a)
        \/ edit_tariff_prev(a) \/ edit_tariff_next(a) \/ edit_tariff_value(a)
        \/ edit_tariff_billing_type(a) \/ edit_tariff_done(a)
        \/ show_groups_list(a)
        \/ group_add_start(a) \/ group_add_name_handler(a) \/ group_edit_name_handler(a)
        \/ \E rest \in running[a] :
              \/ RenderServer(a, rest) \/ RelistServers(a, rest) \/ NextServerStep(a, rest)
              \/ RenderTariff(a, rest) \/ NextTariffStep(a, rest)
              \/ RelistGroups(a, rest) \/ AskPosition(a, rest) \/ AddGroup(a, rest)
              \/ PlaceGroup(a, rest) \/ RenameGroup(a, rest)
        \/ \E s \in Ids(cat.ids.server) :
              \/ show_server_view(a, s) \/ start_edit_server(a, s) \/ toggle_server(a, s)
              \/ confirm_delete_server(a, s) \/ execute_delete_server(a, s)
              \/ \E g \in Ids(cat.ids.group) : server_toggle_group(a, s, g)
        \/ \E t \in Ids(cat.ids.tariff) :
              \/ show_tariff_view(a, t) \/ toggle_tariff(a, t)
              \/ start_edit_tariff(a, t) \/ tariff_change_group_start(a, t)
        \/ \E g \in Ids(cat.ids.group) :
              \/ server_group_selected(a, g) \/ tariff_group_selected(a, g)
              \/ tariff_change_group_execute(a, g)
              \/ group_edit_position_start(a, g) \/ group_edit_start(a, g)
              \/ group_delete_confirm(a, g) \/ group_move_up_handler(a, g)
        \/ \E position \in Positions :
              \/ group_add_position_handler(a, position)
              \/ group_edit_position_handler(a, position)
    \/ refresh_servers_list
    \/ \E s \in DOMAIN scan : AskPanel(s)
    \/ \E k \in Keys : key_replace_start_handler(k)
    \/ \E s \in offered : key_replace_server_handler(s)
    \/ key_replace_confirm_handler
    \/ Restart
    \/ Done

Spec == Init /\ [][Next]_vars
=============================================================================
