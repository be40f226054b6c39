-------------------------------- MODULE Panels --------------------------------
(* The keys of the bot on the panels: the synchronisation of one key          *)
(* (vpn_api.py: ensure_subscription_keys_on_server), the loops that call it   *)
(* (scheduler.py, expired_key_reconciler.py) and the screens that renew,      *)
(* replace, ban, reset, delete and clean up keys.  A task is a coroutine; a   *)
(* step of it ends where the code awaits a panel, Telegram or the key's lock. *)
EXTENDS KeyBook

CONSTANTS
    Screens,        \* tasks that run a handler
    Loops,          \* tasks that run a loop of the process, of these:
    Traffic,        \* run_traffic_sync_scheduler
    Daily,          \* run_daily_tasks, its monthly part
    Expired,        \* run_expired_key_reconciler
    Ops,            \* the operations of people,
    Once,           \* bound: those of them that come once in a behaviour,
    MaxOps,         \* bound: and so many of these in all,
    MaxSlips,       \* bound: calls of a panel that fail
    MaxEvents       \* bound: and so many of both together

Tasks == Screens \cup Loops
Operations == {"renew", "shorten", "reset", "ban", "reward", "replace", "forget",
               "erase", "sweep", "missing", "unreach", "month", "mode", "restart"}

ASSUME PanelsAssumption ==
    /\ Loops \subseteq {Traffic, Daily, Expired} /\ Screens \cap Loops = {}
    /\ Ops \subseteq Operations /\ Once \subseteq Ops
    /\ MaxOps \in Nat /\ MaxSlips \in Nat /\ MaxEvents \in Nat

VARIABLES
    tasks,
    remembered,     \* _reconciled_expired_ids
    ops,            \* operations still to come
    slips,          \* failed calls so far
    settled,        \* history: what the last complete synchronisation of a key wrote
    paid,           \* history: the latest term a key ever had
    given           \* the addresses that were generated, in the term of their key or late

book == <<rows, banned, now, mode, panel, meter>>
history == <<settled, paid, given>>
vars == <<rows, banned, now, mode, panel, meter, tasks, remembered, ops, slips, settled, paid, given>>

(* What a coroutine holds in its locals.                                     *)
Rest == [at |-> "rest", key |-> None, row |-> None, ban |-> FALSE, here |-> None,
         by |-> None, aim |-> None, expiry |-> 0, left |-> {}, fresh |-> {}, reset |-> FALSE, bad |-> FALSE,
         queue |-> {}, kind |-> "plain", then |-> "rest", old |-> None, seen |-> {},
         snap |-> None, got |-> None]

PanelsInit ==
    /\ BookInit
    /\ tasks = [t \in Tasks |-> Rest]
    /\ remembered = {} /\ ops = Ops /\ slips = 0
    /\ settled = [k \in Keys |-> None]
    /\ paid = [k \in Keys |-> rows[k].until]
    /\ given = [e \in Emails |-> IF e[2] = 0 THEN "in term" ELSE "never"]

\* What has come so far, of what is bounded.
Events == Cardinality(Ops \ ops) + slips

Slip == slips < MaxSlips /\ Events < MaxEvents /\ slips' = slips + 1

\* The locals of a synchronisation end with it.
Over(task) == [task EXCEPT !.at = "next", !.row = None, !.ban = FALSE, !.here = None,
                           !.by = None, !.aim = None, !.expiry = 0, !.left = {}, !.fresh = {}, !.reset = FALSE]
Becomes(t, task) == tasks' = [tasks EXCEPT ![t] = task]
Paid(k, row) == paid' = [paid EXCEPT ![k] = IF row.until > @ THEN row.until ELSE @]

\* An operation starts, on a screen or by itself.
Start(op) == /\ op \in ops /\ ops' = IF op \in Once THEN ops \ {op} ELSE ops
             /\ Cardinality(Ops \ ops) < MaxOps /\ Events < MaxEvents
Tap(t, op) == t \in Screens /\ tasks[t].at = "rest" /\ Start(op)

Inside == {"list", "drop", "fill", "trim", "reset", "set"}

\* Mistake: the key is synchronised without its lock.
LockNone(k) == TRUE

(* ------------------- ensure_subscription_keys_on_server ------------------ *)

\* The lock of the key (an asyncio.Lock in _ensure_locks).
LockFree(k) == \A t \in Tasks : tasks[t].at \in Inside => tasks[t].key # k

\* The lock is taken and the key read with the ban of its user.
ReadKey(t) ==
    LET k == tasks[t].key
    IN  /\ tasks[t].at = "lock" /\ LockFree(k)
        /\ Becomes(t, IF rows[k] = None THEN Over([tasks[t] EXCEPT !.bad = FALSE])
                      ELSE [tasks[t] EXCEPT !.at = "list", !.row = rows[k], !.ban = k \in banned,
                                            !.bad = FALSE])
        /\ UNCHANGED <<book, remembered, ops, slips, history>>

\* A server that cannot be listed: neither ok nor an error.
Unreachable(task) == Over(task)

\* All inbounds of the server are listed; clients in hidden ones are to go.
Listed(t) ==
    LET task == tasks[t]
        here == Presence(task.row.server, task.row.email)
    IN  /\ task.at = "list"
        /\ \/ /\ Becomes(t, [task EXCEPT !.at = "drop", !.here = here, !.by = mode,
                                         !.left = At(here) \ Visible(mode)])
              /\ settled' = [settled EXCEPT ![task.key] = None]
              /\ UNCHANGED slips
           \/ Slip /\ Becomes(t, Unreachable(task)) /\ UNCHANGED settled
        /\ UNCHANGED <<book, remembered, ops, paid, given>>

\* One call of the panel for the first inbound left, which may fail.
Call(t, task, done) ==
    \/ panel' = done /\ Becomes(t, task) /\ UNCHANGED slips
    \/ Slip /\ Becomes(t, [task EXCEPT !.bad = TRUE]) /\ UNCHANGED panel

\* A client in a hidden inbound is deleted.
DropHidden(t) ==
    LET task == tasks[t]  i == Least(task.left)
    IN  /\ task.at = "drop" /\ task.left # {}
        /\ Call(t, [task EXCEPT !.left = @ \ {i}],
                delete_client(task.row.server, i, task.row.email))
        /\ UNCHANGED <<rows, banned, now, mode, meter, remembered, ops, history>>

\* The inbounds that lack a client: all of the subscription, the key's own one.
Missing(task) ==
    LET there == At(task.here) \cap Visible(task.by)
    IN  IF task.by = "subscription" THEN Public \ there
        ELSE IF there = {} THEN {task.row.main} ELSE {}

\* Mistake: the ban of the user is forgotten.
AimUnbanned(row, ban) == [on |-> is_key_active(row), until |-> row.until]

\* What the panel should hold of the key.
Aim(row, ban) == [on |-> is_key_active(row) /\ ~ban, until |-> row.until]

\* Mistake: a begun day counts, and one more.
DaysAndOne(until) == (IF until > now THEN (until - now) \div Day ELSE 0) + 1

\* A new client is asked for in whole days: those that are left of the term,
\* rounded up, and one at least.
DaysLeft(until) ==
    LET left == (until - now + Day - 1) \div Day
    IN  IF left > 1 THEN left ELSE 1

\* add_client counts the days from now.  (From here to the last addition no
\* unit of time passes, see Environment.)
Expiry(days) == now + Day * days

\* It is decided whether the key is on; a subscription gets its sub_id, and
\* the missing clients are counted.
CountMissing(t) ==
    LET task == tasks[t]  k == task.key  sub == task.row.sub \/ task.by = "subscription"
    IN  /\ task.at = "drop" /\ task.left = {}
        /\ rows' = IF sub # task.row.sub THEN Put(k, [rows[k] EXCEPT !.sub = TRUE]) ELSE rows
        /\ Becomes(t, [task EXCEPT !.at = "fill", !.left = Missing(task), !.row.sub = sub,
                                   !.aim = Aim(task.row, task.ban), !.expiry = Expiry(DaysLeft(task.row.until)),
                                   !.here = [i \in Inbounds |-> IF i \in Visible(task.by) THEN @[i] ELSE None]])
        /\ UNCHANGED <<banned, now, mode, panel, meter, remembered, ops, slips, history>>

\* A client is created in an inbound that lacks it.
FillIn(t) ==
    LET task == tasks[t]  i == Least(task.left)
        client == [on |-> task.aim.on, until |-> task.expiry]
        less == [task EXCEPT !.left = @ \ {i}]
    IN  /\ task.at = "fill" /\ task.left # {}
        /\ \/ /\ panel' = add_client(task.row.server, i, task.row.email, client)
              /\ Becomes(t, [less EXCEPT !.here[i] = client, !.fresh = @ \cup {i}])
              /\ UNCHANGED slips
           \/ Slip /\ Becomes(t, [less EXCEPT !.bad = TRUE]) /\ UNCHANGED panel
        /\ UNCHANGED <<rows, banned, now, mode, meter, remembered, ops, history>>

\* In the mode of single keys only the client of the first inbound stays.
CountSurplus(t) ==
    /\ tasks[t].at = "fill" /\ tasks[t].left = {} /\ tasks[t].by = "key"
    /\ At(tasks[t].here) # {}
    /\ Becomes(t, [tasks[t] EXCEPT !.at = "trim", !.left = At(tasks[t].here) \ {Least(At(tasks[t].here))}])
    /\ UNCHANGED <<book, remembered, ops, slips, history>>
TrimSurplus(t) ==
    LET task == tasks[t]  i == Least(task.left)
    IN  /\ task.at = "trim" /\ task.left # {}
        /\ \/ /\ panel' = delete_client(task.row.server, i, task.row.email)
              /\ Becomes(t, [task EXCEPT !.left = @ \ {i}, !.here[i] = None])
              /\ UNCHANGED slips
           \/ /\ Slip /\ Becomes(t, [task EXCEPT !.left = @ \ {i}, !.bad = TRUE])
              /\ UNCHANGED panel
        /\ UNCHANGED <<rows, banned, now, mode, meter, remembered, ops, history>>

\* A client that was just created is always written in full.
_client_needs_panel_update(task, i) == i \in task.fresh \/ task.here[i] # task.aim

\* The row gets the address of the first client, and with it the server and
\* the email that were read under the lock.
RecordAddress(t) ==
    LET task == tasks[t]  k == task.key  there == At(task.here)
        written == IF task.by = "subscription" THEN there ELSE {Least(there)}
        old == {i \in written : _client_needs_panel_update(task, i)}
    IN  /\ task.at = (IF task.by = "subscription" THEN "fill" ELSE "trim") /\ task.left = {}
        /\ there # {}
        /\ rows' = IF task.row.main # Least(there) \/ Least(there) \in task.fresh
                   THEN Put(k, update_vpn_key_config(rows[k], task.row.server, task.row.email,
                            Least(there), IF task.by = "subscription" THEN TRUE ELSE rows[k].sub))
                   ELSE rows
        /\ Becomes(t, [task EXCEPT !.at = IF task.reset THEN "reset" ELSE "set",
                                   !.left = IF Shared /\ old # {} THEN {Least(there)} ELSE old])
        /\ UNCHANGED <<banned, now, mode, panel, meter, remembered, ops, slips, history>>

\* The traffic of the email is set back, on request.
ResetTraffic(t) ==
    LET task == tasks[t]
    IN  /\ task.at = "reset"
        /\ \/ /\ meter' = reset_client_traffic(task.row.server, task.row.email)
              /\ Becomes(t, [task EXCEPT !.at = "set"]) /\ UNCHANGED slips
           \/ Slip /\ Becomes(t, [task EXCEPT !.at = "set", !.bad = TRUE]) /\ UNCHANGED meter
        /\ UNCHANGED <<rows, banned, now, mode, panel, remembered, ops, history>>

\* A client that differs is written in full; one that is gone is an error.
WriteClient(t) ==
    LET task == tasks[t]  i == Least(task.left)  s == task.row.server  e == task.row.email
        less == [task EXCEPT !.left = @ \ {i}]
    IN  /\ task.at = "set" /\ task.left # {}
        /\ \/ /\ panel[s][i][e] # None
              /\ panel' = update_client_full(s, i, e, task.aim)
              /\ Becomes(t, less) /\ UNCHANGED slips
           \/ /\ panel[s][i][e] = None
              /\ Becomes(t, [less EXCEPT !.bad = TRUE]) /\ UNCHANGED <<panel, slips>>
           \/ Slip /\ Becomes(t, [less EXCEPT !.bad = TRUE]) /\ UNCHANGED panel
        /\ UNCHANGED <<rows, banned, now, mode, meter, remembered, ops, history>>

\* The end of a synchronisation that found clients.
EndOfSync(t) ==
    LET task == tasks[t]
    IN  /\ task.at = "set" /\ task.left = {}
        /\ Becomes(t, Over(task))
        /\ settled' = IF task.bad THEN settled
                      ELSE [settled EXCEPT ![task.key] =
                              [server |-> task.row.server, email |-> task.row.email,
                               on |-> task.aim.on, until |-> task.aim.until]]
        /\ UNCHANGED <<book, remembered, ops, slips, paid, given>>
EndOfEmptySync(t) ==
    /\ tasks[t].at = "fill" /\ tasks[t].left = {} /\ At(tasks[t].here) = {}
    /\ Becomes(t, Over(tasks[t]))
    /\ UNCHANGED <<book, remembered, ops, slips, history>>

ensure_subscription_keys_on_server(t) ==
    \/ ReadKey(t) \/ Listed(t) \/ DropHidden(t) \/ CountMissing(t) \/ FillIn(t)
    \/ CountSurplus(t) \/ TrimSurplus(t) \/ RecordAddress(t) \/ ResetTraffic(t)
    \/ WriteClient(t) \/ EndOfSync(t) \/ EndOfEmptySync(t)

\* The caller goes on: the reconciler remembers a key without errors, a loop
\* takes its next key (the monthly one sets its traffic back), or is through.
GoOn(t) ==
    LET task == tasks[t]  k == task.key
    IN  /\ task.at = "next"
        /\ remembered' = IF t = Expired /\ k # None /\ ~task.bad
                         THEN remembered \cup {k} ELSE remembered
        /\ \/ /\ task.queue = {}
              /\ Becomes(t, IF task.then = "rest" THEN Rest
                            ELSE [task EXCEPT !.at = task.then, !.key = None, !.bad = FALSE])
              /\ UNCHANGED rows
           \/ \E next \in task.queue :
                /\ rows' = IF task.kind = "plain" \/ rows[next] = None THEN rows
                           ELSE Put(next, reset_key_traffic_notification(rows[next]))
                /\ Becomes(t, [task EXCEPT !.at = "lock", !.key = next, !.queue = @ \ {next},
                                           !.reset = task.kind = "reset"])
        /\ UNCHANGED <<banned, now, mode, panel, meter, ops, slips, history>>

(* ----------------------- the loops of the scheduler ----------------------- *)

\* A loop that has keys to synchronise starts on them.
Each(task, keys, kind, then) ==
    [task EXCEPT !.at = "next", !.queue = keys, !.kind = kind, !.then = then, !.key = None]

\* sync_traffic_stats: the keys in term are read, with their addresses.
ReadActive(t) ==
    /\ t = Traffic /\ tasks[t].at = "rest"
    /\ LET read == get_all_active_keys_with_server
       IN  Becomes(t, IF read = {} THEN [Rest EXCEPT !.at = "cycle"]
                      ELSE [Rest EXCEPT !.at = "poll", !.snap =
                                [k \in Keys |-> IF k \in read THEN rows[k] ELSE None]])
    /\ UNCHANGED <<book, remembered, ops, slips, history>>

\* The traffic a panel answers for a key; a key it does not know is left out.
get_key_traffic_snapshot(row) ==
    IF row = None \/ At(Presence(row.server, row.email)) = {} THEN None
    ELSE meter[row.server][row.email]
PollTraffic(t) ==
    LET task == tasks[t]
    IN  /\ task.at = "poll"
        /\ \/ /\ Becomes(t, [task EXCEPT !.at = "write", !.got =
                    [k \in Keys |-> get_key_traffic_snapshot(task.snap[k])]])
              /\ UNCHANGED slips
           \/ Slip /\ Becomes(t, [task EXCEPT !.at = "write", !.got = [k \in Keys |-> None]])
        /\ UNCHANGED <<book, remembered, ops, history>>

\* The key as it was read, with the traffic that was answered.
Merged(task, k) == IF task.got[k] = None THEN task.snap[k]
                   ELSE [task.snap[k] EXCEPT !.used = task.got[k]]

\* The answers are written back to whatever the rows are by now; who has just
\* used up the traffic is to be told.
WriteTraffic(t) ==
    LET task == tasks[t]
    IN  /\ task.at = "write"
        /\ rows' = bulk_update_traffic(task.got)
        /\ Becomes(t, [task EXCEPT !.at = "warn", !.queue =
                {k \in Keys : task.snap[k] # None /\ ~task.snap[k].told
                              /\ is_traffic_exhausted(Merged(task, k))}])
        /\ UNCHANGED <<banned, now, mode, panel, meter, remembered, ops, slips, history>>

\* The user is told, then the threshold is written (the message may fail).
WarnUser(t) ==
    LET task == tasks[t]
    IN  /\ task.at = "warn"
        /\ \E k \in task.queue :
            /\ rows' = Put(k, [rows[k] EXCEPT !.told = TRUE])
            /\ Becomes(t, [task EXCEPT !.queue = @ \ {k}])
        /\ UNCHANGED <<banned, now, mode, panel, meter, remembered, ops, slips, history>>

\* Subscriptions that are used up or out of their term are synchronised.
SyncUsedUp(t) ==
    LET task == tasks[t]
    IN  /\ task.at = "warn" /\ task.queue = {}
        /\ Becomes(t, Each([task EXCEPT !.snap = None, !.got = None],
                {k \in Keys : /\ task.snap[k] # None /\ task.snap[k].sub
                              /\ \/ is_traffic_exhausted(Merged(task, k))
                                 \/ ~is_key_active(Merged(task, k))},
                "plain", "cycle"))
        /\ UNCHANGED <<book, remembered, ops, slips, history>>
sync_traffic_stats(t) ==
    ReadActive(t) \/ PollTraffic(t) \/ WriteTraffic(t) \/ WarnUser(t) \/ SyncUsedUp(t)

\* Every sixth cycle all keys in term are synchronised.
materialize_subscription_state(t) ==
    /\ tasks[t].at = "cycle"
    /\ Becomes(t, Each(tasks[t], get_all_active_keys_with_server, "plain", "rest"))
    /\ UNCHANGED <<book, remembered, ops, slips, history>>
OtherCycle(t) ==
    /\ tasks[t].at = "cycle" /\ Becomes(t, Rest)
    /\ UNCHANGED <<book, remembered, ops, slips, history>>
run_traffic_sync_scheduler ==
    \/ sync_traffic_stats(Traffic) \/ materialize_subscription_state(Traffic)
    \/ OtherCycle(Traffic)

\* monthly_traffic_reset, part one: the traffic of the keys in term is set back.
MonthlyReset(t) ==
    /\ t = Daily /\ tasks[t].at = "rest" /\ Start("month")
    /\ \/ Becomes(t, Each(Rest, get_all_active_keys_with_server, "reset", "rest"))
       \/ Becomes(t, [Rest EXCEPT !.at = "compare", !.snap =
            [k \in Keys |-> IF k \in get_all_active_keys_with_server THEN rows[k] ELSE None]])
    /\ UNCHANGED <<book, remembered, slips, history>>

\* Part two, without the reset: a key whose panel shows another term, by more
\* than a day, is synchronised.  (With the reset every key already was.)
ComparePanel(t) ==
    LET task == tasks[t]
        Off(row, c) == IF c.until > row.until THEN c.until - row.until > Day
                       ELSE row.until - c.until > Day
    IN  /\ task.at = "compare"
        /\ \/ /\ Becomes(t, Each([task EXCEPT !.snap = None],
                    {k \in Keys : /\ task.snap[k] # None
                                  /\ \E i \in At(Presence(task.snap[k].server, task.snap[k].email)) :
                                        Off(task.snap[k], Presence(task.snap[k].server, task.snap[k].email)[i])},
                    "plain", "rest"))
              /\ UNCHANGED slips
           \/ Slip /\ Becomes(t, Rest)
        /\ UNCHANGED <<book, remembered, ops, history>>
monthly_traffic_reset == MonthlyReset(Daily) \/ ComparePanel(Daily)

\* Subscription keys that are not in term (any more).
_expired_subscription_ids ==
    {k \in Keys : rows[k] # None /\ rows[k].sub /\ k \notin get_all_active_keys_with_server}

\* Expired subscriptions not yet remembered are synchronised.
reconcile_expired_subscription_keys(t) ==
    /\ t = Expired /\ tasks[t].at = "rest"
    /\ IF mode = "subscription"
       THEN /\ remembered' = remembered \cap _expired_subscription_ids
            /\ Becomes(t, Each(Rest, _expired_subscription_ids \ remembered', "plain", "rest"))
       ELSE remembered' = {} /\ UNCHANGED tasks
    /\ UNCHANGED <<book, ops, slips, history>>

(* ------------------------------ the screens ------------------------------- *)

\* A screen waits for the synchronisation of one key.
Sync(k, reset) == [Rest EXCEPT !.at = "lock", !.key = k, !.reset = reset]

\* A renewal, by a payment or the administrator, who may also shorten a term.
renew_key_access(t, op, k, span) ==
    /\ Tap(t, op) /\ rows[k] # None
    /\ extend_vpn_key(rows[k], span).until <= MaxTime
    /\ LET row == reset_key_traffic_notification(extend_vpn_key(rows[k], span))
       IN  rows' = Put(k, row) /\ Paid(k, row)
    /\ Becomes(t, Sync(k, TRUE))
    /\ UNCHANGED <<banned, now, mode, panel, meter, remembered, slips, settled, given>>

\* The administrator sets the traffic of a key back.
reset_key_traffic(t, k) ==
    /\ Tap(t, "reset") /\ rows[k] # None
    /\ rows' = Put(k, reset_key_traffic_notification(rows[k]))
    /\ Becomes(t, Sync(k, TRUE))
    /\ UNCHANGED <<banned, now, mode, panel, meter, remembered, slips, history>>

\* A ban is turned on or off, and the keys of the user synchronised.
confirm_ban_toggle(t, k) ==
    /\ Tap(t, "ban") /\ rows[k] # None
    /\ banned' = IF k \in banned THEN banned \ {k} ELSE banned \cup {k}
    /\ Becomes(t, Sync(k, FALSE))
    /\ UNCHANGED <<rows, now, mode, panel, meter, remembered, slips, history>>

\* A referral reward in days goes to a key in term; nothing is synchronised.
add_days_to_first_active_key(k) ==
    /\ Start("reward")
    /\ rows[k] # None /\ InTerm(rows[k]) /\ rows[k].until + Day <= MaxTime
    /\ LET row == [rows[k] EXCEPT !.until = @ + Day]
       IN  rows' = Put(k, row) /\ Paid(k, row)
    /\ UNCHANGED <<banned, now, mode, panel, meter, tasks, remembered, slips, settled, given>>

\* An address nobody was ever given, with a random suffix.
generate_unique_email(k) == {e \in {k} \X (1 .. Replacements) : given[e] = "never"}

\* The user asks to replace a key in term and confirms on a later screen.
key_replace_start_handler(t, k) ==
    /\ Tap(t, "replace") /\ rows[k] # None /\ InTerm(rows[k])
    /\ generate_unique_email(k) # {}
    /\ Becomes(t, [Rest EXCEPT !.at = "confirm", !.key = k])
    /\ UNCHANGED <<book, remembered, slips, history>>
key_replace_confirm_handler(t, server) ==
    LET k == tasks[t].key
    IN  /\ tasks[t].at = "confirm"
        /\ \/ rows[k] = None /\ Becomes(t, Rest) /\ UNCHANGED given
           \/ /\ rows[k] # None
              /\ \E email \in generate_unique_email(k) :
                    /\ Becomes(t, [Rest EXCEPT !.at = "make", !.key = k, !.old = rows[k],
                                !.row = [rows[k] EXCEPT !.server = server, !.email = email],
                                !.expiry = Expiry(DaysLeft(rows[k].until)), !.by = mode,
                                !.left = IF mode = "subscription" THEN Public ELSE {Least(Inbounds)}])
                    /\ given' = [given EXCEPT ![email] = IF InTerm(rows[k]) THEN "in term" ELSE "late"]
        /\ UNCHANGED <<book, remembered, ops, slips, settled, paid>>

\* The new clients are made, on, for the days that are left.
MakeClient(t) ==
    LET task == tasks[t]  i == Least(task.left)
        client == [on |-> TRUE, until |-> task.expiry]
        less == [task EXCEPT !.left = @ \ {i}]
    IN  /\ task.at = "make" /\ task.left # {}
        /\ \/ /\ panel' = add_client(task.row.server, i, task.row.email, client)
              /\ Becomes(t, [less EXCEPT !.fresh = @ \cup {i}]) /\ UNCHANGED slips
           \/ Slip /\ Becomes(t, less) /\ UNCHANGED panel
        /\ UNCHANGED <<rows, banned, now, mode, meter, remembered, ops, history>>

\* The row moves to the new address and is synchronised there; without a new
\* client nothing moves.
_replace_key_panel_config(t) ==
    LET task == tasks[t]  k == task.key
    IN  /\ task.at = "make" /\ task.left = {}
        /\ IF task.fresh = {} THEN Becomes(t, Rest) /\ UNCHANGED rows
           ELSE /\ rows' = Put(k, update_vpn_key_config(rows[k], task.row.server, task.row.email,
                                    Least(task.fresh), task.by = "subscription"))
                /\ Becomes(t, [task EXCEPT !.at = "lock", !.then = "unmake",
                                           !.row = None, !.by = None, !.expiry = 0, !.fresh = {}])
        /\ UNCHANGED <<banned, now, mode, panel, meter, remembered, ops, slips, history>>

\* The clients of a key that is replaced or deleted go from its panel, if they can.
Gone(row) == IF row.sub THEN delete_clients_by_email_on_server(row.server, row.email)
             ELSE delete_client(row.server, row.main, row.email)
_delete_old_key_client_best_effort(t) ==
    /\ tasks[t].at = "unmake"
    /\ \/ panel' = Gone(tasks[t].old) /\ UNCHANGED slips
       \/ Slip /\ UNCHANGED panel
    /\ Becomes(t, Rest)
    /\ UNCHANGED <<rows, banned, now, mode, meter, remembered, ops, history>>

\* The user deletes a key out of its term: its clients first, then the row.
key_delete_handler(t, k) ==
    /\ Tap(t, "forget") /\ rows[k] # None /\ ~InTerm(rows[k])
    /\ Becomes(t, [Rest EXCEPT !.at = "forget", !.key = k, !.old = rows[k]])
    /\ UNCHANGED <<book, remembered, slips, history>>
ForgetClients(t) ==
    /\ tasks[t].at = "forget"
    /\ \/ panel' = Gone(tasks[t].old) /\ UNCHANGED slips
       \/ Slip /\ UNCHANGED panel
    /\ Becomes(t, [tasks[t] EXCEPT !.at = "delete"])
    /\ UNCHANGED <<rows, banned, now, mode, meter, remembered, ops, history>>
ForgetRow(t) ==
    /\ tasks[t].at = "delete"
    /\ rows' = [rows EXCEPT ![tasks[t].key] = None]
    /\ Becomes(t, Rest)
    /\ UNCHANGED <<banned, now, mode, panel, meter, remembered, ops, slips, history>>

\* The administrator deletes a key: the row first, then its clients.
on_key_delete_confirm(t, k) ==
    /\ Tap(t, "erase") /\ rows[k] # None
    /\ rows' = [rows EXCEPT ![k] = None]
    /\ Becomes(t, [Rest EXCEPT !.at = "erase", !.old = rows[k]])
    /\ UNCHANGED <<banned, now, mode, panel, meter, remembered, slips, history>>
_delete_key_from_panel(t) ==
    /\ tasks[t].at = "erase"
    /\ \/ panel' = Gone(tasks[t].old) /\ UNCHANGED slips
       \/ Slip /\ UNCHANGED panel
    /\ Becomes(t, Rest)
    /\ UNCHANGED <<rows, banned, now, mode, meter, remembered, ops, history>>

\* The panels are cleaned of clients without a row, as the rows were first read.
on_sync_deleted_panel_confirm(t) ==
    /\ Tap(t, "sweep")
    /\ Becomes(t, [Rest EXCEPT !.at = "sweep", !.seen =
            {rows[k].email : k \in {k \in Keys : rows[k] # None}}])
    /\ UNCHANGED <<book, remembered, slips, history>>
SweepServer(t, swept) ==
    /\ tasks[t].at = "sweep" /\ swept \subseteq Servers
    /\ IF swept = Servers THEN UNCHANGED slips ELSE Slip
    /\ panel' = [s \in Servers |-> [i \in Inbounds |-> [e \in Emails |->
                    IF s \in swept /\ e \notin tasks[t].seen THEN None ELSE panel[s][i][e]]]]
    /\ Becomes(t, Rest)
    /\ UNCHANGED <<rows, banned, now, mode, meter, remembered, ops, history>>

\* The base is cleaned of keys that a listed panel does not show.
on_sync_db_missing_confirm(t, server) ==
    /\ Tap(t, "missing")
    /\ \/ /\ Becomes(t, [Rest EXCEPT !.at = "missing", !.row = server, !.seen =
                {e \in Emails : At(Presence(server, e)) # {}}])
          /\ UNCHANGED slips
       \/ Slip /\ Becomes(t, Rest)
    /\ UNCHANGED <<book, remembered, history>>
DeleteMissing(t) ==
    LET task == tasks[t]
    IN  /\ task.at = "missing"
        /\ rows' = [k \in Keys |-> IF /\ rows[k] # None /\ rows[k].server = task.row
                                      /\ rows[k].email \notin task.seen
                                   THEN None ELSE rows[k]]
        /\ Becomes(t, Rest)
        /\ UNCHANGED <<banned, now, mode, panel, meter, remembered, ops, slips, history>>

\* All keys of a server that does not answer are deleted, on confirmation.
on_sync_db_unreach_confirm(t, server) ==
    /\ Tap(t, "unreach")
    /\ rows' = [k \in Keys |-> IF rows[k] # None /\ rows[k].server = server THEN None ELSE rows[k]]
    /\ UNCHANGED <<banned, now, mode, panel, meter, tasks, remembered, slips, history>>

\* The administrator switches the mode of the bot; the loops follow.
admin_set_bot_mode ==
    /\ Start("mode")
    /\ \E other \in Modes \ {mode} : mode' = other
    /\ UNCHANGED <<rows, banned, now, panel, meter, tasks, remembered, slips, history>>

\* The process dies and starts again: the rows stay, the tasks do not.
Restart ==
    /\ Start("restart")
    /\ tasks' = [t \in Tasks |-> Rest] /\ remembered' = {}
    /\ UNCHANGED <<book, slips, history>>

ScreenStarts(t) ==
    \/ \E k \in Keys :
        \/ renew_key_access(t, "renew", k, Day) \/ renew_key_access(t, "shorten", k, -Day)
        \/ reset_key_traffic(t, k) \/ confirm_ban_toggle(t, k)
        \/ key_replace_start_handler(t, k) \/ key_delete_handler(t, k)
        \/ on_key_delete_confirm(t, k)
    \/ on_sync_deleted_panel_confirm(t)
    \/ \E s \in Servers : on_sync_db_missing_confirm(t, s) \/ on_sync_db_unreach_confirm(t, s)
ScreenGoesOn(t) ==
    \/ \E s \in Servers : key_replace_confirm_handler(t, s)
    \/ MakeClient(t) \/ _replace_key_panel_config(t) \/ _delete_old_key_client_best_effort(t)
    \/ ForgetClients(t) \/ ForgetRow(t) \/ _delete_key_from_panel(t)
    \/ \E swept \in SUBSET Servers : SweepServer(t, swept)
    \/ DeleteMissing(t)

\* Bound: to add the clients of a key takes less than a unit of time.
Adding == {"fill", "make"}
Environment ==
    /\ \/ Tick /\ \A t \in Tasks : tasks[t].at \notin Adding
       \/ \E s \in Servers, e \in Emails : Use(s, e)
    /\ UNCHANGED <<tasks, remembered, ops, slips, history>>

PanelsNext ==
    \/ \E t \in Tasks : ensure_subscription_keys_on_server(t) \/ GoOn(t)
    \/ Traffic \in Loops /\ run_traffic_sync_scheduler
    \/ Daily \in Loops /\ monthly_traffic_reset
    \/ Expired \in Loops /\ reconcile_expired_subscription_keys(Expired)
    \/ \E t \in Screens : ScreenStarts(t) \/ ScreenGoesOn(t)
    \/ \E k \in Keys : add_days_to_first_active_key(k)
    \/ admin_set_bot_mode \/ Restart \/ Environment

Spec == PanelsInit /\ [][PanelsNext]_vars
=============================================================================
