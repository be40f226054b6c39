------------------------------ MODULE XuiCalls ------------------------------
(* The calls of XUIClient that change clients, on top of its session (Xui),   *)
(* for the client of one email, and what happens on the panel's side.         *)
(* _run_with_stale_profile_retry runs a call a second time when its endpoint  *)
(* turned out to be gone.                                                     *)
EXTENDS Xui

CONSTANTS
    Ops,      \* the calls that are made
    Crews     \* bound: who calls what for which inbound, in one behaviour

ASSUME XuiCallsAssumption ==
    /\ Ops \subseteq {"add", "update", "extend", "limit", "delete", "purge", "reset",
                      "onlines", "settings"}
    /\ \A c \in Crews : c \subseteq Tasks \X Ops \X Inbounds

\* The calls that do their work in requests that are tried again, and the
\* calls that ask once.
Tried == {"add", "update", "extend", "limit", "reset"}
Asked == {"delete", "purge", "settings"}

Back(t, at) == tasks[t].at = at /\ At(t, "back")
Thrown(t, at) == tasks[t].at = at /\ At(t, "thrown")
Ready(t, op) == tasks[t].op = op /\ At(t, "ready")
Goes(t, task) == Becomes(t, task) /\ UNCHANGED <<pan, cli, saved, slips, changes, crew, calm>>

\* A call ends with an answer; of an addition the outcome is kept.
Over(t, answer, uuid) ==
    /\ Becomes(t, IF tasks[t].op = "add"
                  THEN [Idle EXCEPT !.answer = answer, !.uuid = uuid, !.op = "add",
                                    !.ib = tasks[t].ib, !.spoiled = tasks[t].spoiled]
                  ELSE [Idle EXCEPT !.answer = answer])
    /\ calm' = IF tasks[t].lone > 0 /\ tasks[t].op \in Asked THEN tasks[t].op ELSE None
    /\ UNCHANGED <<pan, cli, saved, slips, changes, crew>>
Finish(t, answer) == Over(t, answer, None)
Report(t, uuid) == Over(t, "ok", uuid)

\* Bound: coroutines that call together see failures, but no changes of the
\* panel, its middle release left out, and call in rounds; one that is alone sees
\* changes, and where it calls for several inbounds one less, but failures too.
Callers == Cardinality({c[1] : c \in crew})
Reach == {c[3] : c \in crew}

\* A call is lone while no other runs and nothing is disturbed; the number
\* tells whether the one before it was lone and the same.
Begin(t, op, i) ==
    LET others == \E u \in Tasks \ {t} : tasks[u].at # "rest"
        round == \A u \in Tasks : tasks[u].at = "rest" /\ tasks[u].op # None
        task == [Idle EXCEPT !.op = op, !.ib = i, !.at = "profile",
                             !.lvl = IF op = "settings" THEN "ready" ELSE "profile",
                             !.lone = IF others THEN 0 ELSE IF calm = op THEN 2 ELSE 1,
                             !.had = Carrying(pan.clients)]
    IN  /\ tasks[t].at = "rest" /\ <<t, op, i>> \in crew
        /\ Callers > 1 => tasks[t].op = None \/ round
        /\ tasks' = [u \in Tasks |-> IF u = t THEN task
                                     ELSE IF round THEN Idle
                                     ELSE IF others THEN [tasks[u] EXCEPT !.lone = 0] ELSE tasks[u]]
        /\ UNCHANGED <<pan, cli, saved, slips, changes, crew, calm>>

\* The profile was stale: the call is made once more.
_run_with_stale_profile_retry(t) ==
    /\ At(t, "stale")
    /\ IF tasks[t].again THEN Finish(t, "error")
       ELSE Goes(t, [tasks[t] EXCEPT !.at = IF @ = "nested" THEN "each" ELSE "profile", !.lvl = "profile",
                                     !.again = TRUE, !.tries = 0])

Data(t) == tasks[t].reply.data
One(entries) == entries[CHOOSE i \in Carrying(entries) : TRUE]
ByClients(t) == tasks[t].prof = "clients_api"

(* ------------------------------- add_client ------------------------------ *)
Own(t) == [id |-> <<t, tasks[t].again>>, on |-> TRUE, until |-> 1, cap |-> 0, flow |-> TRUE]

\* The inbounds are read first; a failure counts as an empty list.
AddStart(t) == Ready(t, "add") /\ Goes(t, Ask(tasks[t], "list", tasks[t].ib, None, "listed"))

_find_client_in_inbounds(entries, i) == entries[i]

AddListed(t) ==
    LET task == tasks[t]
        seen == IF At(t, "back") THEN Data(t) ELSE NoReply.data
        found == _find_client_in_inbounds(seen, task.ib)
    IN  /\ Back(t, "listed") \/ Thrown(t, "listed")
        /\ IF ByClients(t) THEN Goes(t, Ask(task, "record", task.ib, None, "looked"))
           ELSE IF found # None THEN Report(t, found.id)
           ELSE Goes(t, Ask(task, "oldAdd", task.ib, Own(t), "posted"))

\* A client that is there gets the flow it lacks.
AddFlow(t, entries) ==
    IF One(entries).flow THEN Report(t, One(entries).id)
    ELSE Goes(t, Ask([tasks[t] EXCEPT !.seen = entries], "flow", tasks[t].ib,
                     [One(entries) EXCEPT !.flow = TRUE], "flowed"))

\* The record of the email decides: attach, or create.
AddLooked(t) ==
    LET task == tasks[t]
    IN  \/ /\ Back(t, "looked")
           /\ IF task.ib \notin Carrying(Data(t))
              THEN Goes(t, Ask([task EXCEPT !.seen = Data(t)], "attach", task.ib, None, "attached"))
              ELSE AddFlow(t, Data(t))
        \/ /\ Thrown(t, "looked")
           /\ Goes(t, Ask(task, "create", task.ib, Own(t), "posted"))

AddAttached(t) == Back(t, "attached") /\ AddFlow(t, tasks[t].seen)
AddFlowed(t) == Back(t, "flowed") /\ Report(t, One(tasks[t].seen).id)

\* What was added is read back where it can be.
AddPosted(t) ==
    /\ Back(t, "posted")
    /\ IF ByClients(t) THEN Goes(t, Ask(tasks[t], "record", tasks[t].ib, None, "confirmed"))
       ELSE Report(t, Own(t).id)
AddConfirmed(t) ==
    \/ Back(t, "confirmed") /\ Report(t, One(Data(t)).id)
    \/ Thrown(t, "confirmed") /\ Report(t, Own(t).id)

\* A write that failed may have been made: the panel is asked.
Writes == {"attached", "flowed", "posted"}
_recover_added_client(t) ==
    LET task == tasks[t]
    IN  /\ task.at \in Writes /\ At(t, "thrown")
        /\ Goes(t, [Ask(task, IF ByClients(t) THEN "record" ELSE "list", task.ib, None, "recovered")
                        EXCEPT !.left = {task.at}])

\* Mistake: what was recovered is reported under the UUID that was sent.
Claimed(t, entries) == Own(t).id

\* The result names the client the panel really has.
_build_add_client_result(t, entries) ==
    IF ByClients(t) THEN One(entries).id ELSE entries[tasks[t].ib].id

\* It was made: done.  It was not: the same write again, Attempts times.
AddRecovered(t) ==
    LET task == tasks[t]
        at == CHOOSE w \in task.left : TRUE
        found == At(t, "back") /\ Data(t)[task.ib] # None
        kind == CASE at = "attached" -> "attach" [] at = "flowed" -> "flow"
                  [] OTHER -> IF ByClients(t) THEN "create" ELSE "oldAdd"
        load == IF at = "flowed" THEN [One(task.seen) EXCEPT !.flow = TRUE]
                ELSE IF at = "posted" THEN Own(t) ELSE None
    IN  /\ Back(t, "recovered") \/ Thrown(t, "recovered")
        /\ IF found THEN Report(t, _build_add_client_result(t, Data(t)))
           ELSE IF task.tries + 1 < Attempts
           THEN Goes(t, Ask([task EXCEPT !.tries = @ + 1, !.left = {}], kind, task.ib, load, at))
           ELSE Finish(t, "error")

(* ----------------------------- delete_client ----------------------------- *)
\* One inbound is to lose the client; a nested call is one of a purge.
DeleteStart(t) ==
    LET task == tasks[t]
    IN  /\ Ready(t, "delete") \/ (Ready(t, "purge") /\ task.at = "each")
        /\ Goes(t, IF ByClients(t) THEN Ask(task, "list", task.ib, None, "found")
                   ELSE Ask(task, "oldDel", task.ib, None, IF task.op = "purge" THEN "nested" ELSE "gone"))

\* An inbound of a purge is done, whether it went well or not.
Deleted(t, answer) ==
    LET task == tasks[t]
    IN  IF task.op = "purge"
        THEN IF task.left = {task.ib} THEN Finish(t, "ok")
             ELSE Goes(t, [task EXCEPT !.left = @ \ {task.ib}, !.at = "next", !.lvl = "rest"])
        ELSE Finish(t, answer)

\* The email of the client is looked up, then its record.
DeleteFound(t) ==
    LET task == tasks[t]
        ask == Ask(task, "record", task.ib, None, "counted")
    IN  \/ /\ Back(t, "found")
           /\ Goes(t, [ask EXCEPT !.req.known = Data(t)[task.ib] # None])
        \/ Thrown(t, "found") /\ Deleted(t, "error")

\* A client of several inbounds is detached from one, else it goes.
DeleteCounted(t) ==
    LET task == tasks[t]
        several == At(t, "back") /\ Cardinality(Carrying(Data(t))) > 1
        ask == Ask(task, IF several THEN "detach" ELSE "del", task.ib, None, "gone")
    IN  /\ Back(t, "counted") \/ Thrown(t, "counted")
        /\ Goes(t, [ask EXCEPT !.req.known = task.req.known])

DeleteGone(t) ==
    \/ (Back(t, "gone") \/ Back(t, "nested")) /\ Deleted(t, "ok")
    \/ (Thrown(t, "gone") \/ Thrown(t, "nested")) /\ Deleted(t, "error")

\* Without a login there is no profile, and no call.
ProfileFailed(t) ==
    /\ Thrown(t, "profile") \/ Thrown(t, "each")
    /\ IF tasks[t].at = "each" THEN Deleted(t, "error") ELSE Finish(t, "error")

(* ------------------- delete_clients_by_email_on_server ------------------- *)
PurgeStart(t) ==
    LET task == tasks[t]
    IN  /\ Ready(t, "purge") /\ task.at = "profile"
        /\ Goes(t, IF ByClients(t) THEN Ask(task, "record", task.ib, None, "purging")
                   ELSE Ask(task, "list", task.ib, None, "purgelist"))

\* No record, or none that could be read: nothing to delete.
PurgeRecord(t) ==
    \/ Back(t, "purging") /\ Goes(t, Ask(tasks[t], "del", tasks[t].ib, None, "purged"))
    \/ Thrown(t, "purging") /\ Finish(t, "none")
PurgeDone(t) ==
    \/ Back(t, "purged") /\ Finish(t, "ok")
    \/ Thrown(t, "purged") /\ Finish(t, "error")

\* Without records the client goes from one inbound after the other.
PurgeListed(t) ==
    LET found == Carrying(Data(t))
    IN  \/ /\ Back(t, "purgelist")
           /\ IF found = {} THEN Finish(t, "none")
              ELSE Goes(t, [tasks[t] EXCEPT !.left = found, !.at = "next", !.lvl = "rest"])
        \/ Thrown(t, "purgelist") /\ Finish(t, "error")
PurgeNext(t) ==
    LET task == tasks[t]
    IN  /\ task.at = "next"
        /\ Goes(t, [task EXCEPT !.ib = CHOOSE i \in task.left : \A j \in task.left : i <= j,
                                !.at = "each", !.lvl = "profile", !.again = FALSE])

(* --------------- update_client_full, extend_client_expiry, --------------- *)
(* --------------- update_client_limit                       --------------- *)
Changing == {"update", "extend", "limit"}

\* The client as it is on the panel is read first.
ChangeStart(t) ==
    LET task == tasks[t]
    IN  /\ task.op \in Changing /\ At(t, "ready")
        /\ Goes(t, IF ByClients(t) THEN Ask(task, "record", task.ib, None, "read")
                   ELSE Ask(task, "list", task.ib, None, "find"))

\* Term, limit and switch are those of the bot, the rest is what was read.
_update_client_full_impl(client, aim) ==
    [client EXCEPT !.until = aim.until, !.on = aim.on, !.cap = aim.cap]

\* The next day, from where the client stands.
_extend_client_expiry_impl(client) ==
    [client EXCEPT !.until = IF @ < MaxUntil THEN @ + 1 ELSE @]
_update_client_limit_impl(client) == [client EXCEPT !.cap = 1]

\* The bot's own wish.
Wish == [on |-> TRUE, until |-> MaxUntil, cap |-> 1]
Loaded(task, client) ==
    IF task.aim # None THEN _update_client_full_impl(client, task.aim)
    ELSE IF task.op = "update" THEN _update_client_full_impl(client, Wish)
    ELSE IF task.op = "extend" THEN _extend_client_expiry_impl(client)
    ELSE _update_client_limit_impl(client)

\* With records, extend and limit hand what they read to update_client_full,
\* which reads again.
Change(t, client) ==
    LET task == tasks[t]
        aim == Loaded(task, client)
    IN  IF ByClients(t) /\ task.op # "update" /\ task.aim = None
        THEN Goes(t, [task EXCEPT !.aim = [on |-> aim.on, until |-> aim.until, cap |-> aim.cap],
                                  !.at = "profile", !.lvl = "profile", !.again = FALSE])
        ELSE Goes(t, Ask(task, IF ByClients(t) THEN "edit" ELSE "oldEdit", task.ib, aim, "written"))

ChangeRead(t) ==
    \/ Back(t, "read") /\ Change(t, One(Data(t)))
    \/ Thrown(t, "read") /\ Goes(t, Ask(tasks[t], "list", tasks[t].ib, None, "find"))
ChangeFound(t) ==
    \/ /\ Back(t, "find")
       /\ IF Data(t)[tasks[t].ib] = None THEN Finish(t, "error")
          ELSE Change(t, Data(t)[tasks[t].ib])
    \/ Thrown(t, "find") /\ Finish(t, "error")
ChangeWritten(t) ==
    \/ Back(t, "written") /\ Finish(t, "ok")
    \/ Thrown(t, "written") /\ Finish(t, "error")

(* ------------- reset_client_traffic, get_online_clients_count ------------ *)
_reset_client_traffic_impl(t) ==
    Ready(t, "reset") /\
    Goes(t, Ask(tasks[t], IF ByClients(t) THEN "reset" ELSE "oldReset", tasks[t].ib, None, "written"))

_get_online_clients_count_impl(t) ==
    Ready(t, "onlines") /\
    Goes(t, Ask(tasks[t], IF ByClients(t) THEN "onlines" ELSE "oldOnlines", tasks[t].ib, None, "written"))

(* --------------------------- get_panel_settings -------------------------- *)
\* The old route first, then the new one.
SettingsStart(t) == Ready(t, "settings")
                    /\ Goes(t, Ask(tasks[t], "settings", tasks[t].ib, None, "old"))
SettingsGot(t) ==
    \/ Back(t, "old") /\ Finish(t, "ok")
    \/ Thrown(t, "old") /\ Goes(t, Ask(tasks[t], "settingsApi", tasks[t].ib, None, "new"))
    \/ Thrown(t, "new") /\ Finish(t, "none")

(* ------------------------------ surroundings ----------------------------- *)
\* What happens beside the calls disturbs all that run.
Disturb ==
    /\ changes < MaxChanges /\ changes' = changes + 1 /\ calm' = None
    /\ UNCHANGED <<slips, crew>>
Shaken(p) == [u \in Tasks |->
    [tasks[u] EXCEPT !.lone = 0, !.spoiled = @ \/ Spoiled(p.clients)]]
PanelBecomes(p) == /\ Disturb /\ pan' = p /\ tasks' = Shaken(p)
                   /\ UNCHANGED <<cli, saved>>

Upgrade == pan.release < 3 /\ PanelBecomes(Upgraded)
RestartPanel == PanelBecomes(Restarted)
Rotate == pan.state = "on" /\ pan.token < MaxTokens /\ PanelBecomes(Rotated)
Revoke == pan.state = "on" /\ pan.token < MaxTokens /\ \E to \in {"off", "gone"} : PanelBecomes(Revoked(to))

\* The bot comes up again, with what the row of the server says.
RestartBot == /\ Disturb /\ cli' = Fresh(saved) /\ tasks' = [t \in Tasks |-> Idle]
              /\ UNCHANGED <<pan, saved>>

Session(t) ==
    \/ Attempt(t) \/ Receive(t) \/ Relogin(t) \/ Unauthorized(t) \/ NotFound(t) \/ Forbidden(t)
    \/ _try_bearer_validate(t) \/ Probe(t) \/ _login_with_cookie(t) \/ _fetch_api_token(t)
    \/ Metadata(t) \/ _raise_if_stale_legacy_profile(t) \/ RefetchCsrf(t) \/ _ensure_api_profile(t)

Call(t) ==
    \/ _run_with_stale_profile_retry(t)
    \/ AddStart(t) \/ AddListed(t) \/ AddLooked(t) \/ AddAttached(t) \/ AddFlowed(t) \/ AddPosted(t)
    \/ AddConfirmed(t) \/ _recover_added_client(t) \/ AddRecovered(t)
    \/ ProfileFailed(t) \/ DeleteStart(t) \/ DeleteFound(t) \/ DeleteCounted(t) \/ DeleteGone(t)
    \/ PurgeStart(t) \/ PurgeRecord(t) \/ PurgeDone(t) \/ PurgeListed(t) \/ PurgeNext(t)
    \/ ChangeStart(t) \/ ChangeRead(t) \/ ChangeFound(t) \/ ChangeWritten(t)
    \/ _reset_client_traffic_impl(t) \/ _get_online_clients_count_impl(t)
    \/ SettingsStart(t) \/ SettingsGot(t)

\* A client from before: it runs out, and has no flow.
Before == [id |-> <<None, FALSE>>, on |-> FALSE, until |-> 0, cap |-> 0, flow |-> FALSE]
Init ==
    /\ crew \in Crews
    /\ pan \in [release : IF Callers > 1 THEN {1, 3} ELSE Releases, logged : {{}}, csrf : {{}}, token : {0}, state : {"gone"},
                clients : {[i \in Inbounds |-> IF i \in S THEN Before ELSE None] :
                              S \in SUBSET Reach}]
    /\ saved = [token |-> None, profile |-> None]
    /\ cli = Fresh(saved)
    /\ tasks = [t \in Tasks |-> Idle]
    /\ calm = None
    /\ slips = IF Callers = 1 /\ Cardinality(Reach) = 1 THEN MaxSlips ELSE 0
    /\ changes = IF Callers > 1 THEN MaxChanges ELSE IF Cardinality(Reach) > 1 THEN 1 ELSE 0

Next ==
    \/ \E t \in Tasks : \/ Session(t) \/ Call(t) \/ Serve(t) \/ Lose(t)
                        \/ \E op \in Ops, i \in Inbounds : Begin(t, op, i)
    \/ Upgrade \/ RestartPanel \/ Rotate \/ Revoke \/ RestartBot

Spec == Init /\ [][Next]_vars
=============================================================================
