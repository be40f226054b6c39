----------------------------- MODULE ShadowOutbox -----------------------------
(***************************************************************************)
(* Reporting one legacy key to the SaaS read model: the outbox that        *)
(* triggers and deletions fill (database/access_shadow_outbox_triggers.py, *)
(* database/db_keys_shadow_outbox.py), its worker                          *)
(* (bot/services/access_shadow_outbox.py), the direct refreshes            *)
(* (bot/services/access_shadow.py, database/db_keys_shadow.py) and the     *)
(* reconciliation at startup (bot/services/access_shadow_reconciliation.py).*)
(*                                                                         *)
(* A version is a committed change of the reported fields: it stands for   *)
(* the row it leaves, the snapshot of that row and the id of its event.    *)
(* Versions may have equal payloads: a payload is named by the first       *)
(* version that had it.                                                    *)
(***************************************************************************)
EXTENDS Naturals, FiniteSets

CONSTANTS MaxVersion,    \* bound on the changes of the row
          MaxGated,      \* and on those with the direct senders at work
          Refreshers,    \* refreshes that handlers and the scheduler start
          Reconciler,    \* the reconciliation at startup
          Worker,
          BatchSize,     \* rows one pass selects
          QuickRetries,  \* retries whose delay may be shorter than the poll
          Refusable,     \* versions SaaS may answer with an error for good
          MaxSlips       \* bound on crashes

Direct == Refreshers \cup {Reconciler}
Versions == 1..MaxVersion

ASSUME OutboxAssumption ==
    /\ MaxVersion \in Nat \ {0} /\ MaxGated \in 0..MaxVersion /\ BatchSize \in Nat \ {0}
    /\ QuickRetries \in Nat /\ MaxSlips \in Nat
    /\ Worker \notin Direct /\ Reconciler \notin Refreshers
    /\ Refusable \subseteq Versions

VARIABLES
    gate,       \* WAVEMESH_ACCESS_SHADOW_SYNC_ENABLED
    up,         \* "down", "starting" before the first update, "running"
    key, last,  \* the row, and its last committed change
    tomb,       \* the change that is the deletion, 0 before
    payload,    \* what each version reports
    outbox, attempts, delay,     \* the events and when they are tried next
    worker, direct,              \* the senders
    network, applied, shadow,    \* POSTs under way; what SaaS has processed
    refused,    \* and what it refuses
    slips

row == <<key, last, tomb, payload>>
events == <<outbox, attempts, delay>>
remote == <<network, applied, shadow, refused>>
vars == <<gate, up, row, events, worker, direct, remote, slips>>

\* "deleting": delete_vpn_key has committed the DELETE, not the tombstone.
Keys == {"none", "legacy", "managed", "deleted", "deleting"}

TypeOK ==
    /\ gate \in BOOLEAN
    /\ up \in {"down", "starting", "running"}
    /\ key \in Keys /\ last \in 0..MaxVersion /\ tomb \in 0..MaxVersion
    /\ payload \in [Versions -> Versions]
    /\ outbox \subseteq Versions
    /\ attempts \in [Versions -> 0..(QuickRetries + 1)]
    /\ delay \in [Versions -> {"due", "short", "long"}]
    /\ worker \in [at : {"off", "poll", "batch", "user", "access"}, batch : SUBSET Versions]
    /\ direct \in [Direct -> [at : {"off", "dashboard", "user", "access"}, snap : 0..MaxVersion]]
    /\ network \subseteq ((Direct \cup {Worker}) \X Versions)
    /\ applied \subseteq Versions
    /\ shadow \in 0..MaxVersion /\ refused \subseteq Refusable
    /\ slips \in 0..MaxSlips

Off == [at |-> "off", snap |-> 0]
Stopped == [at |-> "off", batch |-> {}]

Init ==
    /\ gate \in BOOLEAN
    /\ up = "down" /\ key = "none" /\ last = 0 /\ tomb = 0
    /\ payload = [v \in Versions |-> v]
    /\ outbox = {}
    /\ attempts = [v \in Versions |-> 0] /\ delay = [v \in Versions |-> "due"]
    /\ worker = Stopped /\ direct = [d \in Direct |-> Off]
    /\ network = {} /\ applied = {} /\ shadow = 0 /\ slips = 0
    /\ refused \in SUBSET Refusable

\* delete_vpn_key runs without an await: nothing else of the process does.
Free == up # "down" /\ key # "deleting"

Alive == Free /\ up = "running"

-----------------------------------------------------------------------------
(* The row                                                                 *)

\* The next version reports something new, or what an earlier one reported.
Report ==
    /\ last < IF gate THEN MaxGated ELSE MaxVersion
    /\ last' = last + 1
    /\ \E p \in {payload[v] : v \in 1..last} \cup {last + 1} :
           payload' = [payload EXCEPT ![last + 1] = p]

\* A committed INSERT or UPDATE of reported fields: the trigger adds its event.
Change ==
    /\ Alive /\ key \in {"none", "legacy"}
    /\ Report /\ key' = "legacy"
    /\ outbox' = outbox \cup {last + 1}
    /\ UNCHANGED <<gate, up, tomb, attempts, delay, worker, direct, remote, slips>>

\* A SaaS projection binds the key: saas_managed = 1, so no trigger fires.
Adopt ==
    /\ Alive /\ key = "legacy"
    /\ key' = "managed"
    /\ UNCHANGED <<gate, up, last, tomb, payload, events, worker, direct, remote, slips>>

\* The DELETE is committed by the executescript of the schema check.
Delete ==
    /\ Alive /\ key = "legacy"
    /\ Report /\ key' = "deleting" /\ tomb' = last + 1
    /\ UNCHANGED <<gate, up, events, worker, direct, remote, slips>>

StartWorker == worker' = IF worker.at = "off" THEN [worker EXCEPT !.at = "poll"] ELSE worker

\* A second transaction inserts the tombstone; then the worker is started,
\* whatever the gate says.
Bury ==
    /\ key = "deleting"
    /\ key' = "deleted"
    /\ outbox' = outbox \cup {tomb}
    /\ StartWorker
    /\ UNCHANGED <<gate, up, last, tomb, payload, attempts, delay, direct, remote, slips>>

-----------------------------------------------------------------------------
(* The outbox worker                                                       *)

Oldest(set) == CHOOSE v \in set : \A w \in set : v <= w

\* Mistake: no ORDER BY id ASC.
BatchNewest(due) == {v \in due : Cardinality({w \in due : w > v}) < BatchSize}

Batch(due) == {v \in due : Cardinality({w \in due : w < v}) < BatchSize}

\* A long delay outlasts a poll; a short one ends at any time.
Poll ==
    LET due == {v \in outbox : delay[v] = "due"} IN
    /\ Free /\ worker.at = "poll"
    /\ due # {} \/ \E v \in outbox : delay[v] = "long"
    /\ worker' = [at |-> IF due = {} THEN "poll" ELSE "batch", batch |-> Batch(due)]
    /\ delay' = [v \in Versions |-> IF delay[v] = "long" THEN "short" ELSE delay[v]]
    /\ UNCHANGED <<gate, up, row, outbox, attempts, direct, remote, slips>>

BecomeDue(v) ==
    /\ v \in outbox /\ delay[v] = "short"
    /\ delay' = [delay EXCEPT ![v] = "due"]
    /\ UNCHANGED <<gate, up, row, outbox, attempts, worker, direct, remote, slips>>

Event == Oldest(worker.batch)

\* The next row of the batch, or the next poll.
Proceed ==
    LET rest == worker.batch \ {Event}
    IN  worker' = [at |-> IF rest = {} THEN "poll" ELSE "batch", batch |-> rest]

\* Rows of a bound key are retired unsent.
Take ==
    /\ Free /\ worker.at = "batch"
    /\ IF key = "managed"
       THEN Proceed /\ outbox' = outbox \ {Event}
       ELSE worker' = [worker EXCEPT !.at = "user"] /\ UNCHANGED outbox
    /\ UNCHANGED <<gate, up, row, attempts, delay, direct, remote, slips>>

\* The owner was upserted; the snapshot leaves.
SendEvent ==
    /\ Free /\ worker.at = "user"
    /\ worker' = [worker EXCEPT !.at = "access"]
    /\ network' = network \cup {<<Worker, Event>>}
    /\ UNCHANGED <<gate, up, row, events, direct, applied, shadow, refused, slips>>

\* Mistake: the event is taken off when the call ends, whatever it answered.
MarkDeliveredAnyhow ==
    /\ Free /\ worker.at = "access"
    /\ outbox' = outbox \ {Event}
    /\ Proceed
    /\ UNCHANGED <<gate, up, row, attempts, delay, direct, remote, slips>>

\* SaaS has answered the worker's own request with success: the row is deleted.
MarkDelivered ==
    /\ Free /\ worker.at = "access"
    /\ Event \in applied /\ <<Worker, Event>> \notin network
    /\ outbox' = outbox \ {Event}
    /\ Proceed
    /\ UNCHANGED <<gate, up, row, attempts, delay, direct, remote, slips>>

\* Mistake: the next attempt is not moved.
DelayNone(n) == "due"

Delay(n) == IF n <= QuickRetries THEN "short" ELSE "long"

\* Either call fails; the request is lost, refused, or still under way.  A
\* snapshot that is not refused fails at most QuickRetries + 1 times.
MarkFailed ==
    /\ Free /\ worker.at \in {"user", "access"}
    /\ Event \in refused \/ attempts[Event] <= QuickRetries
    /\ LET n == IF attempts[Event] <= QuickRetries THEN attempts[Event] + 1 ELSE attempts[Event]
       IN  /\ attempts' = [attempts EXCEPT ![Event] = n]
           /\ delay' = [delay EXCEPT ![Event] = Delay(n)]
    /\ network' \in {network, network \ {<<Worker, Event>>}}
    /\ Proceed
    /\ UNCHANGED <<gate, up, row, outbox, direct, applied, shadow, refused, slips>>

-----------------------------------------------------------------------------
(* The direct senders: current row first, then the calls                   *)

Become(d, at, snap) == direct' = [direct EXCEPT ![d] = [at |-> at, snap |-> snap]]

\* Scheduled after a change, or by the list of a user's keys.
Refresh(d) ==
    /\ Alive /\ gate /\ d \in Refreshers
    /\ direct[d].at = "off" /\ key = "legacy"
    /\ Become(d, "user", last)
    /\ UNCHANGED <<gate, up, row, events, worker, remote, slips>>

\* Startup compares the dashboard with the snapshots read before.
Compare(d) ==
    /\ Free /\ direct[d].at = "dashboard"
    /\ \/ /\ ~(shadow # 0 /\ payload[shadow] = payload[direct[d].snap])
          /\ Become(d, "user", direct[d].snap)
       \/ Become(d, "off", 0)
    /\ UNCHANGED <<gate, up, row, events, worker, remote, slips>>

SendDirect(d) ==
    /\ Free /\ direct[d].at = "user"
    /\ Become(d, "access", direct[d].snap)
    /\ network' = network \cup {<<d, direct[d].snap>>}
    /\ UNCHANGED <<gate, up, row, events, worker, applied, shadow, refused, slips>>

\* Any outcome of either call is only logged.
EndDirect(d) ==
    /\ Free /\ direct[d].at \in {"user", "access"}
    /\ network' \in {network, network \ {<<d, direct[d].snap>>}}
    /\ Become(d, "off", 0)
    /\ UNCHANGED <<gate, up, row, events, worker, applied, shadow, refused, slips>>

-----------------------------------------------------------------------------
(* SaaS and the process                                                    *)

\* Mistake: the idempotency key is made of the key id alone.
IdempotencyKeyOfKey(v) == 1

\* The key id and the digest of the payload: a row that returns to an earlier
\* state sends the key of that state again.
IdempotencyKey(v) == payload[v]

\* SaaS answers a repeated idempotency key without writing again.
Land(message) ==
    LET v == message[2] IN
    /\ message \in network /\ v \notin refused
    /\ network' = network \ {message}
    /\ applied' = applied \cup {v}
    /\ shadow' = IF \E w \in applied : IdempotencyKey(w) = IdempotencyKey(v) THEN shadow ELSE v
    /\ UNCHANGED <<gate, up, row, events, worker, direct, refused, slips>>

\* on_startup: when SaaS answers the probe and the gate is open the worker
\* starts, and the snapshots are read before the first update is handled.
Start ==
    /\ up = "down" /\ up' = "starting"
    /\ \E internal_api_ready \in BOOLEAN :
           IF internal_api_ready /\ gate
           THEN /\ StartWorker
                /\ IF key = "legacy" THEN Become(Reconciler, "dashboard", last)
                   ELSE UNCHANGED direct
           ELSE UNCHANGED <<worker, direct>>
    /\ UNCHANGED <<gate, row, events, remote, slips>>

Serve ==
    /\ up = "starting" /\ direct[Reconciler].at = "off"
    /\ up' = "running"
    /\ UNCHANGED <<gate, row, events, worker, direct, remote, slips>>

\* Requests under way may still arrive.
Crash ==
    /\ up # "down" /\ slips < MaxSlips
    /\ up' = "down" /\ slips' = slips + 1
    /\ key' = IF key = "deleting" THEN "deleted" ELSE key
    /\ worker' = Stopped /\ direct' = [d \in Direct |-> Off]
    /\ network' \in SUBSET network
    /\ UNCHANGED <<gate, last, tomb, payload, events, applied, shadow, refused>>

WorkerNext == Poll \/ Take \/ SendEvent \/ MarkDelivered \/ MarkFailed

Next ==
    \/ Change \/ Adopt \/ Delete \/ Bury
    \/ WorkerNext
    \/ \E v \in Versions : BecomeDue(v)
    \/ \E d \in Direct : Refresh(d) \/ Compare(d) \/ SendDirect(d) \/ EndDirect(d)
    \/ \E message \in network : Land(message)
    \/ Start \/ Serve \/ Crash

Spec == Init /\ [][Next]_vars

\* A worker that runs polls for ever, timers end, and what it sends arrives;
\* nobody is obliged to start it, to change a key or to refresh it.
Fairness ==
    /\ WF_vars(WorkerNext) /\ WF_vars(Bury)
    /\ \A v \in Versions : WF_vars(BecomeDue(v)) /\ WF_vars(Land(<<Worker, v>>))

FairSpec == Spec /\ Fairness
=============================================================================
