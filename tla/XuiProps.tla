------------------------------ MODULE XuiProps ------------------------------
(* What the client of a panel owes its callers.                               *)
EXTENDS XuiCalls

XuiTypeOK ==
    /\ pan \in Panel
    /\ cli.session \in Sids \cup {None} /\ cli.csrf \in Sids \cup {None}
    /\ cli.token \in Token \cup {None} /\ cli.mode \in Modes \cup {None}
    /\ cli.profile \in Profiles \cup {None}
    /\ {cli.authed, cli.cookie, cli.verified} \subseteq BOOLEAN
    /\ saved \in [token : Token \cup {None}, profile : Profiles \cup {None}]
    /\ \A t \in Tasks : /\ tasks[t].lvl \in Levels /\ tasks[t].op \in Ops \cup {None}
                        /\ tasks[t].n \in 1 .. Attempts /\ tasks[t].lone \in 0 .. 2
    /\ slips \in 0 .. MaxSlips /\ changes \in 0 .. MaxChanges /\ calm \in Ops \cup {None} /\ crew \in Crews

\* A call ends here, not with the bot.
Ends(t) == tasks[t].at # "rest" /\ tasks'[t].at = "rest" /\ tasks'[t].answer # None

\* It did what it was called for, if there was what it needs.
Did(call, end, clients) ==
    LET i == call.ib
    IN  CASE call.op = "add" -> clients[i] # None /\ end.uuid = clients[i].id
          [] call.op = "update" -> /\ end.answer = "ok" /\ clients[i].on
                                   /\ clients[i].until = MaxUntil /\ clients[i].cap = 1
          [] call.op \in {"extend", "reset", "settings"} -> end.answer = "ok"
          [] call.op = "limit" -> end.answer = "ok" /\ clients[i].cap = 1
          [] call.op = "delete" -> Carrying(clients) = call.had \ {i}
          [] OTHER -> Carrying(clients) = {}
Could(call) == call.op \in {"add", "purge", "settings"} \/ call.ib \in call.had
Fits(call) == call.op = "settings" \/ (call.prof = "clients_api") = (pan.release = 3)

(* However the client was left - its session lost with a restarted panel, its *)
(* CSRF token or its bearer token no longer good, its API profile that of an  *)
(* older release, all of these at once - a call that nothing disturbs does    *)
(* what it is for within the attempts of _request (xui.py:828-946) and        *)
(* add_client (xui.py:1395-1493), and one that asks the panel only once does  *)
(* so when it is the second of two that are undisturbed.  Two are left out: a *)
(* client that takes a 3.x panel for 2.x, as the 403 of its writes is final   *)
(* (xui.py:882), and a call that a login has moved to the new profile too     *)
(* late to be made again by it (xui.py:498).                                  *)
LoneCallDoes ==
    [][\A t \in Tasks : LET call == tasks[t]
          IN  /\ Ends(t) /\ Could(call) /\ Fits(call) /\ (cli.mode = "legacy" => pan.release = 1)
              /\ \/ call.op \in Tried /\ call.lone >= 1
                 \/ call.op \in Asked /\ call.lone = 2
              => Did(call, tasks'[t], pan'.clients)]_vars

(* Whoever adds the client of an inbound - both at once, again after an       *)
(* answer that was lost, or over another API after an upgrade - is told the   *)
(* UUID the panel has, unless the client was deleted meanwhile (xui.py:540).  *)
OneIdentity ==
    \A t \in Tasks : LET task == tasks[t]
        IN  /\ task.at = "rest" /\ task.op = "add" /\ task.uuid # None /\ ~task.spoiled
            => pan.clients[task.ib] # None /\ pan.clients[task.ib].id = task.uuid
=============================================================================
