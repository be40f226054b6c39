--------------------------- MODULE ReplacementProps ---------------------------
(***************************************************************************)
(* What is required of Replacement.                                        *)
(***************************************************************************)
EXTENDS Replacement

\* Whatever is lost, late, or taken over by another process after its lease
\* ran out, an operation's replacement request leaves at most once: after the
\* dispatch marker the worker only reads.
ReplacedOnce == \A op \in Operations : posts[op] <= 1

\* An operation closed as cancelled or stale has not been sent and is about to
\* be sent by nobody, so a replay of its buttons changes no credentials.
WithdrawnUnsent ==
    \A op \in Operations : rows[op].phase = "CANCELLED" =>
        /\ posts[op] = 0
        /\ \A t \in Tasks : ~(At(t, "send") /\ task[t].op = op)

\* A request of the operation may still rotate the credentials.
AtWork(op) ==
    \/ op \in inflight
    \/ cmd[op] = "running"
    \/ \E t \in Tasks : At(t, "send") /\ task[t].op = op

\* The bot has at most one replacement of an access at work, also when an
\* operation was closed and its successor confirmed at once.
OneAtWork == \A a, b \in Operations : AtWork(a) /\ AtWork(b) => a = b

\* An operation shown as successful replaced the credentials itself, and the
\* key row has received at least its version.
DoneIsOwn ==
    \A op \in Operations : rows[op].status = "DONE" =>
        cmd[op] = "succeeded" /\ copy > rows[op].base

\* With payment returns, rotations from other channels and the removal of the
\* key in between, the key row stays a lagging copy of what SaaS issued.
Promise == INSTANCE ProjectionPromise

CopyLags == Promise!Spec

\* A confirmed operation is not forgotten: it is sent, closed or flagged.
QueuedIsServed ==
    \A op \in Operations :
        rows[op].phase = "QUEUED" ~>
            (rows[op].phase # "QUEUED" \/ rows[op].status = "MANUAL_REVIEW")

\* Once SaaS has finished a command, the loop closes its operation or flags it.
Finished(op) == cmd[op] \in {"succeeded", "failed"}

FinishedIsClosed ==
    \A op \in Operations :
        Finished(op) ~> (rows[op].phase = "DONE" \/ rows[op].status = "MANUAL_REVIEW")

-----------------------------------------------------------------------------
(* The inductive invariant                                                 *)

\* The row has no dispatch marker, or it has one.
Unmarked == {"FREE", "PREPARED", "QUEUED", "CANCELLED"}
Marked == {"DISPATCHED", "OBSERVED", "DONE"}

Sending(t, op) == At(t, "send") /\ task[t].op = op

\* The marker precedes the only request, the request the command, and the end
\* of the command that of the row.
RowTrue(op) ==
    /\ rows[op].base < MaxVersion
    /\ rows[op].phase \in Unmarked => posts[op] = 0 /\ \A t \in Tasks : ~Sending(t, op)
    /\ rows[op].phase = "DONE" => Finished(op)
    /\ rows[op].status = "DONE" => cmd[op] = "succeeded" /\ copy > rows[op].base

RequestTrue(op) ==
    /\ posts[op] <= 1
    /\ \A t \in Tasks : Sending(t, op) => posts[op] = 0
    /\ posts[op] = 0 => op \notin inflight /\ cmd[op] = "none"
    /\ op \in inflight => cmd[op] = "none"

OneSender == \A op \in Operations, t, u \in Tasks : Sending(t, op) /\ Sending(u, op) => t = u

Alone == \A a, b \in Active : a = b

\* What a task holds in its locals agrees with the journal and with SaaS.
Reading(r, goal) == r.pc \in {"dashboard", "material"} /\ r.goal = goal

Preparing(r) == r.pc = "insert" \/ Reading(r, "insert")

Fits(r) ==
    /\ Preparing(r) => r.cb # None
    /\ r.pc # "idle" /\ ~Preparing(r) => r.op \in Operations /\ r.phase \in Pending
    /\ r.pc = "dispatch" \/ Reading(r, "dispatch") => r.phase = "QUEUED"
    /\ r.pc = "finalize" \/ Reading(r, "finalize") =>
          /\ r.phase = "OBSERVED" /\ cmd[r.op] = "succeeded"
          /\ r.want = rows[r.op].base + 1
    /\ r.pc \in {"send", "reply", "readback", "observe"} => r.phase # "QUEUED"
    /\ r.pc = "observe" /\ r.seen = "FAILED" => cmd[r.op] = "failed"
    /\ r.pc = "observe" /\ r.seen \in {"READY", "SUPERSEDED"} => cmd[r.op] = "succeeded"
    /\ r.pc = "release" =>
          /\ r.verdict # "DONE"
          /\ r.verdict = "STALE" => r.phase = "QUEUED"
          /\ r.verdict \in {"FAILED", "SUPERSEDED"} => Finished(r.op)

\* The versions read are versions that were issued.
CopyTrue ==
    /\ version > 0 /\ copy \in issued \cup {0}
    /\ \A v \in issued : v <= version
    /\ ready => version \in issued
    /\ \A r \in Readers : reader[r].pc = "project" => reader[r].seen \in issued
    /\ \A t \in Tasks : At(t, "finalize") => task[t].want \in issued

IInv ==
    /\ TypeOK
    /\ \A op \in Operations : RowTrue(op) /\ RequestTrue(op)
    /\ OneSender
    /\ Alone
    /\ \A t \in Tasks : Fits(task[t])
    /\ CopyTrue
=============================================================================
