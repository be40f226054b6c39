------------------------------ MODULE Replacement ------------------------------
(***************************************************************************)
(* Replacing the credentials of one managed access: the journal            *)
(* access_replacements (database/access_replacement.py), the worker        *)
(* (bot/services/access_replacement.py) and the private confirmation       *)
(* (bot/handlers/user/replacement.py), over the projection and the SaaS    *)
(* API.                                                                    *)
(*                                                                         *)
(* A task is the background loop or a handler, of any process on the same  *)
(* file.  Its steps are the journal transactions and the remote reads in   *)
(* the order of the code.  Time is abstract: a lease may run out, and a    *)
(* confirmation grow too old, at any moment; next_attempt only delays.     *)
(***************************************************************************)
EXTENDS Naturals

-----------------------------------------------------------------------------
(* The access: the credentials SaaS holds for it, and their local projection, *)
(* the vpn_keys row with its binding (database/saas_access_projection.py).    *)
(* Credentials are identified with their desired version.                     *)

CONSTANTS Readers,     \* handlers of payment returns
          MaxVersion   \* bound on the desired version

ASSUME VersionBound == MaxVersion \in Nat \ {0}

VARIABLES version,   \* SaaS: the desired version, 0 before the access is managed
          ready,     \* SaaS: the access is managed, enabled and ready at that version
          issued,    \* history: the versions that were ready
          copy,      \* local: the desired_version of the binding, 0 without one
          alive,     \* local: the key row exists and its owner may use it
          reader

projection == <<version, ready, issued, copy, alive, reader>>

Versions == 0..MaxVersion

Reader == [pc : {"idle", "material", "project"}, seen : Versions]

IdleReader == [pc |-> "idle", seen |-> 0]

ProjectionTypeOK ==
    /\ version \in Versions
    /\ ready \in BOOLEAN
    /\ issued \in SUBSET Versions
    /\ copy \in Versions
    /\ alive \in BOOLEAN
    /\ reader \in [Readers -> Reader]

-----------------------------------------------------------------------------
\* Mistake: whatever was read last is written.
MayApplyAny(v) == alive /\ v >= 1

\* apply_ready: not over a newer version, and never a removed key again.
MayApply(v) == alive /\ v >= 1 /\ v >= copy

Apply(v) == copy' = v

\* SaaS rotates the credentials, and Node Agent makes the new ones ready.
Bump == version < MaxVersion /\ version' = version + 1 /\ ready' = FALSE

MakeReady == ready' = TRUE /\ issued' = issued \cup {version}

Rotate ==
    /\ version > 0
    /\ Bump
    /\ UNCHANGED <<issued, copy, alive, reader>>

\* The key row is deleted, or its owner banned.
RemoveKey ==
    /\ alive
    /\ alive' = FALSE
    /\ UNCHANGED <<version, ready, issued, copy, reader>>

-----------------------------------------------------------------------------
(* A payment return: the dashboard and the material are read one after the *)
(* other and must agree; what they said is projected after more awaits.    *)

SetReader(r, pc, seen) == reader' = [reader EXCEPT ![r] = [pc |-> pc, seen |-> seen]]

ReadDashboard(r) ==
    /\ reader[r].pc = "idle" /\ ready
    /\ SetReader(r, "material", version)
    /\ UNCHANGED <<version, ready, issued, copy, alive>>

ReadMaterial(r) ==
    /\ reader[r].pc = "material"
    /\ IF ready /\ version = reader[r].seen THEN SetReader(r, "project", version)
                                            ELSE SetReader(r, "idle", 0)
    /\ UNCHANGED <<version, ready, issued, copy, alive>>

ProjectReady(r) ==
    /\ reader[r].pc = "project"
    /\ IF MayApply(reader[r].seen) THEN Apply(reader[r].seen) ELSE copy' = copy
    /\ SetReader(r, "idle", 0)
    /\ UNCHANGED <<version, ready, issued, alive>>

DropReturn(r) ==
    /\ reader[r].pc # "idle"
    /\ SetReader(r, "idle", 0)
    /\ UNCHANGED <<version, ready, issued, copy, alive>>

ReturnNext(r) == ReadDashboard(r) \/ ReadMaterial(r) \/ ProjectReady(r) \/ DropReturn(r)

-----------------------------------------------------------------------------
(* The journal, its worker and its screens.                                *)

CONSTANTS Operations, Callbacks, Tasks, Loop, None, Scopes,
          Troubles       \* bound: what may go on in one behaviour

ASSUME LoopAssumption == Loop \in Tasks /\ None \notin Operations \cup Callbacks \cup Tasks

\* The operations that are made; what happens outside of the flow (see Disturb); and
\* the number of crashes, failed reads and early lease ends.
Happenings == {"rotate", "remove", "return", "rescope"}

ASSUME TroublesAssumption ==
    Troubles \subseteq [ops : SUBSET Operations, happen : SUBSET Happenings, slips : Nat]

VARIABLES trouble,
          rows, bound, lease,               \* the journal
          task, scope,                      \* the bot
          cmd, inflight, posts,             \* SaaS and the network
          slips

journal == <<rows, bound, lease>>
remote == <<cmd, inflight, posts>>
vars == <<projection, journal, task, scope, trouble, remote, slips>>

Pending == {"QUEUED", "DISPATCHED", "OBSERVED"}
Unresolved == {"PREPARED"} \cup Pending
Phases == Unresolved \cup {"DONE", "CANCELLED"}

\* PENDING stands for PENDING and TIMEOUT, which the worker treats alike.
Statuses == {"CONFIRMATION", "PENDING", "MANUAL_REVIEW", "STALE", "CANCELLED",
             "FAILED", "SUPERSEDED", "DONE"}

Row == [phase : Phases \cup {"FREE"}, status : Statuses, base : Versions,
        scope : Scopes \cup {None}]

FreeRow == [phase |-> "FREE", status |-> "CONFIRMATION", base |-> 0, scope |-> None]

\* phase, base: of the row the task claimed; want: the version its readings
\* must show; goal: what they are for; seen: the readback.
Labels == {"idle", "check", "dashboard", "material", "insert", "dispatch", "send",
           "reply", "readback", "observe", "finalize", "release"}

Results == {"UNCONFIRMED", "PENDING", "READY", "FAILED", "SUPERSEDED"}

Task == [pc : Labels, op : Operations \cup {None}, cb : Callbacks \cup {None},
         phase : Phases \cup {"FREE"}, want : Versions,
         goal : {"insert", "dispatch", "finalize"}, seen : Results, verdict : Statuses]

Idle == [pc |-> "idle", op |-> None, cb |-> None, phase |-> "FREE", want |-> 0,
         goal |-> "insert", seen |-> "UNCONFIRMED", verdict |-> "PENDING"]

TypeOK ==
    /\ ProjectionTypeOK
    /\ rows \in [Operations -> Row]
    /\ bound \in [Callbacks -> Operations \cup {None}]
    /\ lease \in [Operations -> Tasks \cup {None}]
    /\ task \in [Tasks -> Task]
    /\ scope \in Scopes
    /\ trouble \in Troubles
    /\ cmd \in [Operations -> {"none", "running", "succeeded", "failed"}]
    /\ inflight \in SUBSET Operations
    /\ posts \in [Operations -> Nat]
    /\ slips \in 0..trouble.slips

\* The access was delivered: version 1 is ready and projected.
Init ==
    /\ version = 1 /\ ready = TRUE /\ issued = {1} /\ copy = 1 /\ alive = TRUE
    /\ reader = [r \in Readers |-> IdleReader]
    /\ rows = [op \in Operations |-> FreeRow]
    /\ bound = [cb \in Callbacks |-> None]
    /\ lease = [op \in Operations |-> None]
    /\ task = [t \in Tasks |-> Idle]
    /\ scope \in Scopes
    /\ trouble \in Troubles
    /\ cmd = [op \in Operations |-> "none"]
    /\ inflight = {}
    /\ posts = [op \in Operations |-> 0]
    /\ slips = 0

-----------------------------------------------------------------------------
(* The journal                                                             *)

\* Mistake: an operation in flight no longer blocks the next one.
ActiveUndispatched == {op \in Operations : rows[op].phase \in {"PREPARED", "QUEUED"}}

Active == {op \in Operations : rows[op].phase \in Unresolved}

Actor(op) == rows[op].phase # "FREE" /\ rows[op].scope = scope

\* _canonical: the key row is the user's and holds one of these versions.
Canonical(versions) == alive /\ copy \in versions

\* _owned: the fencing token is the task's, and the phase is what it read.
Leased(t) ==
    /\ lease[task[t].op] = t
    /\ rows[task[t].op].phase = task[t].phase

SetRow(op, phase, status) ==
    rows' = [rows EXCEPT ![op].phase = phase, ![op].status = status]

Unlease(op) == lease' = [lease EXCEPT ![op] = None]

\* Confirming an old offer cancels it instead.
Confirm(op) ==
    /\ Actor(op) /\ rows[op].phase = "PREPARED"
    /\ Canonical({rows[op].base})
    /\ SetRow(op, "QUEUED", "PENDING") \/ SetRow(op, "CANCELLED", "STALE")
    /\ UNCHANGED <<projection, bound, lease, task, scope, trouble, remote, slips>>

\* Mistake: a confirmed operation can still be cancelled.
CancelConfirmed(op) ==
    /\ Actor(op) /\ rows[op].phase \in Unresolved
    /\ SetRow(op, "CANCELLED", "CANCELLED")
    /\ UNCHANGED <<projection, bound, lease, task, scope, trouble, remote, slips>>

Cancel(op) ==
    /\ Actor(op) /\ rows[op].phase = "PREPARED"
    /\ SetRow(op, "CANCELLED", "CANCELLED")
    /\ UNCHANGED <<projection, bound, lease, task, scope, trouble, remote, slips>>

-----------------------------------------------------------------------------
(* The tasks                                                               *)

At(t, label) == task[t].pc = label
Become(t, r) == task' = [task EXCEPT ![t] = r]
Goto(t, label) == Become(t, [task[t] EXCEPT !.pc = label])
Stop(t) == Become(t, Idle)

\* The pass ends with release(status); terminal is implied by the status.
Conclude(t, status) == Become(t, [task[t] EXCEPT !.pc = "release", !.verdict = status])

\* ready_data: first the local binding, then dashboard and material.
ReadyData(t, goal, want) ==
    Become(t, [task[t] EXCEPT !.pc = "dashboard", !.goal = goal, !.want = want])

Quiet == UNCHANGED <<projection, journal, scope, trouble, remote, slips>>

\* prepare, up to its first await.  An old message shows its operation; one
\* opened during an operation is bound to it.
Prepare(t, cb) ==
    /\ At(t, "idle") /\ t # Loop
    /\ bound[cb] = None
    /\ alive /\ copy >= 1
    /\ \/ /\ Active = {}
          /\ Become(t, [Idle EXCEPT !.pc = "dashboard", !.cb = cb, !.want = copy])
          /\ UNCHANGED bound
       \/ /\ \E op \in Active : Actor(op) /\ bound' = [bound EXCEPT ![cb] = op]
          /\ UNCHANGED task
    /\ UNCHANGED <<projection, rows, lease, scope, trouble, remote, slips>>

\* The journal's prepare looks all of it up again in one transaction.
Insert(t) ==
    /\ At(t, "insert")
    /\ LET cb == task[t].cb
       IN \/ /\ bound[cb] = None
             /\ Canonical({task[t].want}) /\ task[t].want < MaxVersion
             /\ \/ \E op \in trouble.ops :
                      /\ Active = {} /\ rows[op].phase = "FREE"
                      /\ rows' = [rows EXCEPT ![op] =
                            [phase |-> "PREPARED", status |-> "CONFIRMATION",
                             base |-> task[t].want, scope |-> scope]]
                      /\ bound' = [bound EXCEPT ![cb] = op]
                \/ \E op \in Active :
                      /\ Actor(op)
                      /\ bound' = [bound EXCEPT ![cb] = op]
                      /\ UNCHANGED rows
          \/ UNCHANGED <<rows, bound>>
    /\ Stop(t)
    /\ UNCHANGED <<projection, lease, scope, trouble, remote, slips>>

\* Mistake: the loop only looks after what was sent.
ClaimSent(t, op) ==
    /\ At(t, "idle")
    /\ rows[op].phase \in Pending \ {"QUEUED"}
    /\ lease[op] = None
    /\ t = Loop => rows[op].status = "PENDING"
    /\ lease' = [lease EXCEPT ![op] = t]
    /\ Become(t, [Idle EXCEPT !.pc = "check", !.op = op, !.phase = rows[op].phase])
    /\ UNCHANGED <<projection, rows, bound, scope, trouble, remote, slips>>

\* claim: the loop takes due rows, a confirmation or a check any pending one.
Claim(t, op) ==
    /\ At(t, "idle")
    /\ rows[op].phase \in Pending
    /\ lease[op] = None
    /\ t = Loop => rows[op].status = "PENDING"
    /\ lease' = [lease EXCEPT ![op] = t]
    /\ Become(t, [Idle EXCEPT !.pc = "check", !.op = op, !.phase = rows[op].phase])
    /\ UNCHANGED <<projection, rows, bound, scope, trouble, remote, slips>>

Check(t) ==
    /\ At(t, "check")
    /\ LET row == rows[task[t].op]
       IN IF row.scope # scope \/ ~alive THEN Conclude(t, "MANUAL_REVIEW")
          ELSE IF task[t].phase # "QUEUED" THEN Goto(t, "readback")
          ELSE IF copy # row.base THEN Conclude(t, "MANUAL_REVIEW")
          ELSE ReadyData(t, "dispatch", row.base)
    /\ Quiet

\* What is not ready ends a preparation, and makes a queued operation stale.
NotReady(t) ==
    CASE task[t].goal = "insert" -> Stop(t)
      [] task[t].goal = "dispatch" -> Conclude(t, "STALE")
      [] task[t].goal = "finalize" -> Conclude(t, "MANUAL_REVIEW")

Dashboard(t) ==
    /\ At(t, "dashboard")
    /\ IF ready /\ version = task[t].want THEN Goto(t, "material") ELSE NotReady(t)
    /\ Quiet

Material(t) ==
    /\ At(t, "material")
    /\ IF ready /\ version = task[t].want THEN Goto(t, task[t].goal) ELSE NotReady(t)
    /\ Quiet

\* Mistake: the request leaves before the dispatch is on disk.
DispatchLate(t) ==
    /\ At(t, "dispatch")
    /\ Become(t, [task[t] EXCEPT !.pc = "send"])
    /\ Quiet

Dispatch(t) ==
    /\ At(t, "dispatch")
    /\ IF ~Leased(t) THEN Stop(t) /\ UNCHANGED rows
       ELSE IF ~alive THEN Conclude(t, "MANUAL_REVIEW") /\ UNCHANGED rows
       ELSE IF copy # rows[task[t].op].base THEN Conclude(t, "STALE") /\ UNCHANGED rows
       ELSE /\ SetRow(task[t].op, "DISPATCHED", rows[task[t].op].status)
            /\ Become(t, [task[t] EXCEPT !.pc = "send", !.phase = "DISPATCHED"])
    /\ UNCHANGED <<projection, bound, lease, scope, trouble, remote, slips>>

Send(t) ==
    /\ At(t, "send")
    /\ inflight' = inflight \cup {task[t].op}
    /\ posts' = [posts EXCEPT ![task[t].op] = @ + 1]
    /\ Goto(t, "reply")
    /\ UNCHANGED <<projection, journal, scope, trouble, cmd, slips>>

\* Any outcome of the request leads to the readback; noting the command of a
\* good answer needs the lease.
Reply(t) ==
    /\ At(t, "reply")
    /\ \/ Goto(t, "readback")
       \/ cmd[task[t].op] # "none" /\ ~Leased(t) /\ Stop(t)
    /\ Quiet

\* Mistake: the readback tells any ended command of this version as ready.
ResultEnded(op) ==
    CASE cmd[op] = "none" -> "UNCONFIRMED"
      [] cmd[op] = "running" -> "PENDING"
      [] OTHER -> IF version = rows[op].base + 1 THEN "READY" ELSE "SUPERSEDED"

Result(op) ==
    CASE cmd[op] = "none" -> "UNCONFIRMED"
      [] cmd[op] = "running" -> "PENDING"
      [] cmd[op] = "failed" -> "FAILED"
      [] OTHER -> IF version = rows[op].base + 1 THEN "READY" ELSE "SUPERSEDED"

Readback(t) ==
    /\ At(t, "readback")
    /\ Become(t, [task[t] EXCEPT !.pc = "observe", !.seen = Result(task[t].op)])
    /\ Quiet

Observed(t) == [task[t] EXCEPT !.phase = "OBSERVED"]

Observe(t) ==
    /\ At(t, "observe")
    /\ LET op == task[t].op
           base == rows[op].base
           seen == task[t].seen
       IN IF ~Leased(t) THEN Stop(t) /\ UNCHANGED rows
          ELSE IF seen = "UNCONFIRMED" THEN Conclude(t, "PENDING") /\ UNCHANGED rows
          ELSE /\ SetRow(op, "OBSERVED", rows[op].status)
               /\ IF seen # "READY"
                    THEN Become(t, [Observed(t) EXCEPT !.pc = "release", !.verdict = seen])
                  ELSE IF ~Canonical({base, base + 1})
                    THEN Become(t, [Observed(t) EXCEPT !.pc = "release", !.verdict = "MANUAL_REVIEW"])
                  ELSE Become(t, [Observed(t) EXCEPT !.pc = "dashboard", !.goal = "finalize",
                                                     !.want = base + 1])
    /\ UNCHANGED <<projection, bound, lease, scope, trouble, remote, slips>>

\* The projection and DONE share one transaction.
Finalize(t) ==
    /\ At(t, "finalize")
    /\ LET op == task[t].op
           base == rows[op].base
       IN IF ~Leased(t) THEN Stop(t) /\ UNCHANGED <<rows, lease, copy>>
          ELSE IF Canonical({base, base + 1}) /\ MayApply(base + 1)
            THEN /\ Apply(base + 1)
                 /\ SetRow(op, "DONE", "DONE")
                 /\ Unlease(op)
                 /\ Stop(t)
          ELSE Conclude(t, "MANUAL_REVIEW") /\ UNCHANGED <<rows, lease, copy>>
    /\ UNCHANGED <<version, ready, issued, alive, reader, bound, scope, trouble, remote, slips>>

\* Mistake: a superseded operation stays open.
ClosesFailed(phase, status) ==
    IF status = "STALE" THEN "CANCELLED" ELSE IF status = "FAILED" THEN "DONE" ELSE phase

Closes(phase, status) ==
    IF status = "STALE" THEN "CANCELLED"
    ELSE IF status \in {"FAILED", "SUPERSEDED"} THEN "DONE"
    ELSE phase

Release(t) ==
    /\ At(t, "release")
    /\ LET op == task[t].op
       IN IF Leased(t)
            THEN /\ SetRow(op, Closes(rows[op].phase, task[t].verdict), task[t].verdict)
                 /\ Unlease(op)
            ELSE UNCHANGED <<rows, lease>>
    /\ Stop(t)
    /\ UNCHANGED <<projection, bound, scope, trouble, remote, slips>>

-----------------------------------------------------------------------------
(* Failures                                                                *)

Slip == slips < trouble.slips /\ slips' = slips + 1

\* A remote read or the last commit fails: the pass ends with TIMEOUT, a
\* preparation ends.
Unavailable(t) ==
    /\ task[t].pc \in {"dashboard", "material", "readback", "finalize"}
    /\ Slip
    /\ IF task[t].cb = None THEN Conclude(t, "PENDING") ELSE Stop(t)
    /\ UNCHANGED <<projection, journal, scope, trouble, remote>>

\* The process stops, the task is cancelled, or the journal cannot be written.
Crash(t) ==
    /\ ~At(t, "idle")
    /\ Slip
    /\ Stop(t)
    /\ UNCHANGED <<projection, journal, scope, trouble, remote>>

Holds(t, op) == ~At(t, "idle") /\ task[t].op = op

\* 120 seconds pass: under a task that is still at work, or after its end.
Expire(op) ==
    /\ lease[op] # None
    /\ IF \E t \in Tasks : lease[op] = t /\ Holds(t, op) THEN Slip ELSE UNCHANGED slips
    /\ Unlease(op)
    /\ UNCHANGED <<projection, rows, bound, task, scope, trouble, remote>>

-----------------------------------------------------------------------------
(* SaaS and the network                                                    *)

HandleReplace(op) ==
    /\ op \in inflight
    /\ inflight' = inflight \ {op}
    /\ IF cmd[op] = "none" /\ version = rows[op].base
         THEN cmd' = [cmd EXCEPT ![op] = "running"] /\ Bump
         ELSE UNCHANGED <<cmd, version, ready>>
    /\ UNCHANGED <<issued, copy, alive, reader, journal, task, scope, trouble, posts, slips>>

LoseReplace(op) ==
    /\ op \in inflight
    /\ inflight' = inflight \ {op}
    /\ UNCHANGED <<projection, journal, task, scope, trouble, cmd, posts, slips>>

Newest(op) == version = rows[op].base + 1

\* Node Agent ends the command.
Succeed(op) ==
    /\ cmd[op] = "running"
    /\ cmd' = [cmd EXCEPT ![op] = "succeeded"]
    /\ IF Newest(op) THEN MakeReady ELSE UNCHANGED <<ready, issued>>
    /\ UNCHANGED <<version, copy, alive, reader, journal, task, scope, trouble, inflight, posts, slips>>

FailCommand(op) ==
    /\ cmd[op] = "running"
    /\ cmd' = [cmd EXCEPT ![op] = "failed"]
    /\ UNCHANGED <<projection, journal, task, scope, trouble, inflight, posts, slips>>

\* Another channel's credentials become ready.
Materialise ==
    /\ ~ready /\ version > 0
    /\ \A op \in Operations : cmd[op] = "running" => ~Newest(op)
    /\ MakeReady
    /\ UNCHANGED <<version, copy, alive, reader>>

\* Other channels rotate the credentials, payment returns project them, the
\* key is removed, the bot restarts with other SaaS credentials.
Disturb ==
    \/ /\ \/ "rotate" \in trouble.happen /\ (Rotate \/ Materialise)
          \/ "remove" \in trouble.happen /\ RemoveKey
          \/ "return" \in trouble.happen /\ \E r \in Readers : ReturnNext(r)
       /\ UNCHANGED <<journal, task, scope, trouble, remote, slips>>
    \/ /\ "rescope" \in trouble.happen /\ scope' \in Scopes \ {scope}
       /\ UNCHANGED <<projection, journal, task, trouble, remote, slips>>

-----------------------------------------------------------------------------
Work(t) ==
    \/ Insert(t) \/ Check(t) \/ Dashboard(t) \/ Material(t) \/ Dispatch(t) \/ Send(t)
    \/ Reply(t) \/ Readback(t) \/ Observe(t) \/ Finalize(t) \/ Release(t)

Next ==
    \/ \E t \in Tasks :
          \/ Work(t) \/ Unavailable(t) \/ Crash(t)
          \/ \E op \in Operations : Claim(t, op)
          \/ \E cb \in Callbacks : Prepare(t, cb)
    \/ \E op \in Operations :
          \/ Confirm(op) \/ Cancel(op) \/ Expire(op)
          \/ HandleReplace(op) \/ LoseReplace(op) \/ Succeed(op) \/ FailCommand(op)
    \/ Disturb

\* asyncio runs every task on; the loop passes over all due rows, oldest
\* first, every five seconds; a lease ends.  Nothing remote is fair.
Fairness ==
    /\ \A t \in Tasks : WF_vars(Work(t))
    /\ \A op \in Operations : SF_vars(Claim(Loop, op)) /\ WF_vars(Expire(op))

Spec == Init /\ [][Next]_vars
FairSpec == Spec /\ Fairness
=============================================================================
