-------------------------- MODULE ReplacementProofs --------------------------
(***************************************************************************)
(* The safety of ReplacementProps for any number of operations, tasks,     *)
(* buttons, versions, readers and slips.                                   *)
(***************************************************************************)
EXTENDS ReplacementProps, TLAPS

-----------------------------------------------------------------------------
(* Locals of a task                                                        *)

Goals == {"insert", "dispatch", "finalize"}

LEMMA LabelLiterals ==
    /\ "idle" \in Labels /\ "check" \in Labels /\ "dashboard" \in Labels
    /\ "material" \in Labels /\ "insert" \in Labels /\ "dispatch" \in Labels
    /\ "send" \in Labels /\ "reply" \in Labels /\ "readback" \in Labels
    /\ "observe" \in Labels /\ "finalize" \in Labels /\ "release" \in Labels
BY DEF Labels

LEMMA StatusLiterals ==
    /\ "CONFIRMATION" \in Statuses /\ "PENDING" \in Statuses /\ "MANUAL_REVIEW" \in Statuses
    /\ "STALE" \in Statuses /\ "CANCELLED" \in Statuses /\ "FAILED" \in Statuses
    /\ "SUPERSEDED" \in Statuses /\ "DONE" \in Statuses
BY DEF Statuses

AnyPhase == Phases \cup {"FREE"}

LEMMA PhaseLiterals ==
    /\ "FREE" \in AnyPhase /\ "PREPARED" \in AnyPhase /\ "QUEUED" \in AnyPhase
    /\ "DISPATCHED" \in AnyPhase /\ "OBSERVED" \in AnyPhase /\ "DONE" \in AnyPhase
    /\ "CANCELLED" \in AnyPhase
BY DEF AnyPhase, Phases, Unresolved, Pending

LEMMA ResultLiterals ==
    /\ "UNCONFIRMED" \in Results /\ "PENDING" \in Results /\ "READY" \in Results
    /\ "FAILED" \in Results /\ "SUPERSEDED" \in Results
BY DEF Results

\* A task goes to a label; ends with a verdict; starts its readings; keeps a
\* readback; notes a phase.
LEMMA GoesForm == ASSUME NEW r \in Task, NEW l \in Labels PROVE [r EXCEPT !.pc = l] \in Task
BY DEF Task

LEMMA EndsForm ==
    ASSUME NEW r \in Task, NEW l \in Labels, NEW v \in Statuses
    PROVE  [r EXCEPT !.pc = l, !.verdict = v] \in Task
BY DEF Task

LEMMA ReadsForm ==
    ASSUME NEW r \in Task, NEW l \in Labels, NEW g \in Goals, NEW w \in Versions
    PROVE  [r EXCEPT !.pc = l, !.goal = g, !.want = w] \in Task
BY DEF Task, Goals

LEMMA SeesForm ==
    ASSUME NEW r \in Task, NEW l \in Labels, NEW s \in Results
    PROVE  [r EXCEPT !.pc = l, !.seen = s] \in Task
BY DEF Task

LEMMA NotesForm ==
    ASSUME NEW r \in Task, NEW l \in Labels, NEW p \in AnyPhase
    PROVE  [r EXCEPT !.pc = l, !.phase = p] \in Task /\ [r EXCEPT !.phase = p] \in Task
BY DEF Task, AnyPhase

LEMMA IdleTask == Idle \in Task
BY VersionBound, LabelLiterals, StatusLiterals, PhaseLiterals, ResultLiterals
DEF Task, Idle, Goals, AnyPhase, Versions

-----------------------------------------------------------------------------
(* Frames                                                                  *)

LEMMA Moved ==
    ASSUME TypeOK, NEW t \in Tasks, NEW r, Become(t, r)
    PROVE  \A u \in Tasks : task'[u] = IF u = t THEN r ELSE task[u]
BY DEF TypeOK, Become

LEMMA MovedType ==
    ASSUME TypeOK, NEW t \in Tasks, NEW r \in Task, Become(t, r)
    PROVE  task' \in [Tasks -> Task]
BY DEF TypeOK, Become

\* What a step must leave alone for the locals of a task to stay justified.
EndsKept == \A op \in Operations :
    Finished(op) => cmd'[op] = cmd[op] /\ rows'[op].base = rows[op].base

LEMMA FitsStay ==
    ASSUME NEW r \in Task, Fits(r), EndsKept
    PROVE  Fits(r)'
BY DEF Fits, EndsKept, Finished, Preparing, Reading

\* All tasks fit after one of them has become r.
LEMMA FitsMoved ==
    ASSUME IInv, NEW t \in Tasks, NEW r \in Task, Become(t, r), Fits(r), EndsKept
    PROVE  \A u \in Tasks : Fits(task[u])'
<1> SUFFICES ASSUME NEW u \in Tasks PROVE Fits(task[u])'
  OBVIOUS
<1>1. task'[u] = IF u = t THEN r ELSE task[u]
  BY Moved DEF IInv
<1>2. task[u] \in Task /\ Fits(task[u])
  BY DEF IInv, TypeOK
<1>3. CASE u = t
  <2>1. Fits(r)'
    BY FitsStay
  <2> QED BY <1>1, <1>3, <2>1 DEF Fits
<1>4. CASE u # t
  <2> DEFINE old == task[u]
  <2>1. task'[u] = old
    BY <1>1, <1>4
  <2>2. old \in Task /\ Fits(old)
    BY <1>2
  <2> QED BY <2>1, <2>2 DEF Fits, EndsKept, Finished, Preparing, Reading
<1> QED BY <1>3, <1>4

\* All tasks fit when none has moved.
LEMMA FitsUnmoved ==
    ASSUME IInv, task' = task, EndsKept
    PROVE  \A u \in Tasks : Fits(task[u])'
BY DEF IInv, Fits, EndsKept, Finished, Preparing, Reading

\* A task goes on, but not to send, and what it now holds agrees with the rest.
LEMMA TaskMoves ==
    ASSUME IInv, TypeOK', NEW t \in Tasks, NEW r \in Task, Become(t, r),
           r.pc # "send", Fits(r), r.pc = "finalize" => r.want \in issued,
           UNCHANGED <<rows, cmd, inflight, posts, version, ready, issued, copy, reader>>
    PROVE  IInv'
<1>1. \A u \in Tasks : task'[u] = IF u = t THEN r ELSE task[u]
  BY Moved DEF IInv
<1>2. \A u \in Tasks, op \in Operations : Sending(u, op)' => Sending(u, op)
  BY <1>1 DEF Sending, At
<1>3. \A op \in Operations : RowTrue(op)' /\ RequestTrue(op)'
  BY <1>2 DEF IInv, RowTrue, RequestTrue, Finished
<1>4. OneSender' /\ Alone'
  BY <1>2 DEF IInv, OneSender, Alone, Active
<1>5. \A u \in Tasks : Fits(task[u])'
  BY FitsMoved DEF EndsKept
<1>6. CopyTrue'
  BY <1>1 DEF IInv, CopyTrue, At
<1> QED BY <1>3, <1>4, <1>5, <1>6 DEF IInv

\* A task moves on by itself, at the price of a slip or of none.
Alike == UNCHANGED <<projection, journal, scope, trouble, remote>> /\ (UNCHANGED slips \/ Slip)

LEMMA AlikeMoves ==
    ASSUME IInv, Alike, NEW t \in Tasks, NEW r \in Task, Become(t, r),
           r.pc # "send", Fits(r), r.pc = "finalize" => r.want \in issued
    PROVE  IInv'
<1>1. slips' \in 0..trouble.slips
  <2>1. trouble.slips \in Nat /\ slips \in 0..trouble.slips
    BY TroublesAssumption DEF IInv, TypeOK
  <2> QED BY <2>1 DEF Alike, Slip
<1>2. TypeOK'
  <2>1. task' \in [Tasks -> Task]
    BY MovedType DEF IInv
  <2> QED BY <1>1, <2>1 DEF IInv, TypeOK, ProjectionTypeOK, Alike, projection, journal, remote
<1> QED BY <1>2, TaskMoves DEF Alike, projection, journal, remote

LEMMA QuietIsAlike == Quiet => Alike
BY DEF Quiet, Alike

LEMMA IdleFits == Idle.pc # "send" /\ Idle.pc # "finalize" /\ Fits(Idle)
BY DEF Idle, Fits, Preparing, Reading

\* A pass ends with a status that its locals justify.
LEMMA Concludes ==
    ASSUME NEW r \in Task, r.op \in Operations, r.phase \in Pending,
           NEW s \in Statuses, s # "DONE", s = "STALE" => r.phase = "QUEUED",
           s \in {"FAILED", "SUPERSEDED"} => Finished(r.op)
    PROVE  LET q == [r EXCEPT !.pc = "release", !.verdict = s]
           IN  q \in Task /\ q.pc # "send" /\ q.pc # "finalize" /\ Fits(q)
<1> DEFINE q == [r EXCEPT !.pc = "release", !.verdict = s]
<1>1. q \in Task
  BY EndsForm, LabelLiterals
<1>2. q.pc = "release" /\ q.verdict = s /\ q.op = r.op /\ q.phase = r.phase
  BY DEF Task
<1>3. Fits(q)
  BY <1>2 DEF Fits, Preparing, Reading
<1> QED BY <1>1, <1>2, <1>3

\* What a task at work, and not preparing, knows.
LEMMA Works ==
    ASSUME IInv, NEW t \in Tasks
    PROVE  /\ task[t] \in Task /\ Fits(task[t])
           /\ task[t].pc # "idle" /\ ~Preparing(task[t]) =>
                 task[t].op \in Operations /\ task[t].phase \in Pending
           /\ At(t, "finalize") => task[t].want \in issued
BY DEF IInv, TypeOK, CopyTrue, Fits

-----------------------------------------------------------------------------
(* The steps of a task that write nothing                                  *)

LEMMA StopKeeps ==
    ASSUME IInv, Alike, NEW t \in Tasks, Stop(t)
    PROVE  IInv'
BY IdleTask, IdleFits, AlikeMoves DEF Stop

LEMMA ConcludeKeeps ==
    ASSUME IInv, Alike, NEW t \in Tasks, task[t].pc # "idle", ~Preparing(task[t]),
           NEW s \in Statuses, s # "DONE", s = "STALE" => task[t].phase = "QUEUED",
           s \in {"FAILED", "SUPERSEDED"} => Finished(task[t].op), Conclude(t, s)
    PROVE  IInv'
<1> DEFINE q == [task[t] EXCEPT !.pc = "release", !.verdict = s]
<1>1. q \in Task /\ q.pc # "send" /\ q.pc # "finalize" /\ Fits(q)
  BY Works, Concludes
<1>2. Become(t, q)
  BY DEF Conclude
<1> HIDE DEF q
<1> QED BY <1>1, <1>2, AlikeMoves

LEMMA CheckKeeps ==
    ASSUME IInv, NEW t \in Tasks, Check(t)
    PROVE  IInv'
<1>1. At(t, "check") /\ Alike
  BY QuietIsAlike DEF Check
<1>2. task[t].pc # "idle" /\ ~Preparing(task[t])
  BY <1>1 DEF At, Preparing, Reading
<1>3. task[t] \in Task /\ task[t].op \in Operations /\ task[t].phase \in Pending
  BY <1>2, Works
<1>4. CASE Conclude(t, "MANUAL_REVIEW")
  BY <1>1, <1>2, <1>4, ConcludeKeeps, StatusLiterals
<1>5. CASE Goto(t, "readback") /\ task[t].phase # "QUEUED"
  <2> DEFINE q == [task[t] EXCEPT !.pc = "readback"]
  <2>1. q \in Task
    BY <1>3, GoesForm, LabelLiterals
  <2>2. q.pc = "readback" /\ q.op = task[t].op /\ q.phase = task[t].phase
    BY <1>3 DEF Task
  <2>3. Fits(q)
    BY <1>3, <1>5, <2>2 DEF Fits, Preparing, Reading
  <2>4. Become(t, q)
    BY <1>5 DEF Goto
  <2> HIDE DEF q
  <2> QED BY <1>1, <2>1, <2>2, <2>3, <2>4, AlikeMoves
<1>6. CASE /\ task[t].phase = "QUEUED"
           /\ ReadyData(t, "dispatch", rows[task[t].op].base)
  <2> DEFINE w == rows[task[t].op].base
             q == [task[t] EXCEPT !.pc = "dashboard", !.goal = "dispatch", !.want = w]
  <2>1. w \in Versions
    BY <1>3 DEF IInv, TypeOK, Row
  <2>2. q \in Task
    BY <1>3, <2>1, ReadsForm, LabelLiterals DEF Goals
  <2>3. q.pc = "dashboard" /\ q.goal = "dispatch" /\ q.op = task[t].op /\ q.phase = task[t].phase
    BY <1>3 DEF Task
  <2>4. Fits(q)
    BY <1>3, <1>6, <2>3 DEF Fits, Preparing, Reading
  <2>5. Become(t, q)
    BY <1>6 DEF ReadyData
  <2> HIDE DEF q
  <2> QED BY <1>1, <2>2, <2>3, <2>4, <2>5, AlikeMoves
<1> QED BY <1>4, <1>5, <1>6 DEF Check

\* Readings that found the access not ready end as their goal demands.
LEMMA NotReadyKeeps ==
    ASSUME IInv, Alike, NEW t \in Tasks, task[t].pc \in {"dashboard", "material"}, NotReady(t)
    PROVE  IInv'
<1>1. task[t] \in Task /\ Fits(task[t]) /\ task[t].goal \in Goals
  BY Works DEF Task, Goals
<1>2. CASE task[t].goal = "insert"
  <2>1. Stop(t)
    BY <1>2 DEF NotReady
  <2> QED BY <2>1, StopKeeps
<1>3. CASE task[t].goal = "dispatch"
  <2>1. Conclude(t, "STALE")
    BY <1>3 DEF NotReady
  <2>2. task[t].phase = "QUEUED" /\ ~Preparing(task[t])
    BY <1>1, <1>3 DEF Fits, Preparing, Reading
  <2> QED BY <2>1, <2>2, ConcludeKeeps, StatusLiterals
<1>4. CASE task[t].goal = "finalize"
  <2>1. Conclude(t, "MANUAL_REVIEW")
    BY <1>4 DEF NotReady
  <2>2. ~Preparing(task[t])
    BY <1>4 DEF Preparing, Reading
  <2> QED BY <2>1, <2>2, ConcludeKeeps, StatusLiterals
<1> QED BY <1>1, <1>2, <1>3, <1>4 DEF Goals

LEMMA DashboardKeeps ==
    ASSUME IInv, NEW t \in Tasks, Dashboard(t)
    PROVE  IInv'
<1>1. At(t, "dashboard") /\ Alike
  BY QuietIsAlike DEF Dashboard
<1>2. CASE NotReady(t)
  BY <1>1, <1>2, NotReadyKeeps DEF At
<1>3. CASE Goto(t, "material")
  <2> DEFINE q == [task[t] EXCEPT !.pc = "material"]
  <2>1. task[t] \in Task /\ Fits(task[t])
    BY Works
  <2>2. q \in Task
    BY <2>1, GoesForm, LabelLiterals
  <2>3. /\ q.pc = "material" /\ q.op = task[t].op /\ q.phase = task[t].phase
        /\ q.goal = task[t].goal /\ q.want = task[t].want /\ q.cb = task[t].cb
    BY <2>1 DEF Task
  <2>4. Fits(q)
    BY <1>1, <2>1, <2>3 DEF Fits, Preparing, Reading, At
  <2>5. Become(t, q)
    BY <1>3 DEF Goto
  <2> HIDE DEF q
  <2> QED BY <1>1, <2>2, <2>3, <2>4, <2>5, AlikeMoves
<1> QED BY <1>2, <1>3 DEF Dashboard

LEMMA MaterialKeeps ==
    ASSUME IInv, NEW t \in Tasks, Material(t)
    PROVE  IInv'
<1>1. At(t, "material") /\ Alike
  BY QuietIsAlike DEF Material
<1>2. CASE NotReady(t)
  BY <1>1, <1>2, NotReadyKeeps DEF At
<1>3. CASE ready /\ version = task[t].want /\ Goto(t, task[t].goal)
  <2> DEFINE q == [task[t] EXCEPT !.pc = task[t].goal]
  <2>1. task[t] \in Task /\ Fits(task[t]) /\ task[t].goal \in Goals
    BY Works DEF Task, Goals
  <2>2. q \in Task
    BY <2>1, GoesForm, LabelLiterals DEF Goals
  <2>3. /\ q.pc = task[t].goal /\ q.op = task[t].op /\ q.phase = task[t].phase
        /\ q.want = task[t].want /\ q.cb = task[t].cb
    BY <2>1 DEF Task
  <2>4. Fits(q)
    BY <1>1, <2>1, <2>3 DEF Fits, Preparing, Reading, At, Goals
  <2>5. Become(t, q)
    BY <1>3 DEF Goto
  <2>6. q.pc # "send" /\ q.want \in issued
    BY <1>3, <2>1, <2>3 DEF Goals, IInv, CopyTrue
  <2> HIDE DEF q
  <2> QED BY <1>1, <2>2, <2>4, <2>5, <2>6, AlikeMoves
<1> QED BY <1>2, <1>3 DEF Material

LEMMA ReplyKeeps ==
    ASSUME IInv, NEW t \in Tasks, Reply(t)
    PROVE  IInv'
<1>1. At(t, "reply") /\ Alike
  BY QuietIsAlike DEF Reply
<1>2. CASE Stop(t)
  BY <1>1, <1>2, StopKeeps
<1>3. CASE Goto(t, "readback")
  <2> DEFINE q == [task[t] EXCEPT !.pc = "readback"]
  <2>1. task[t] \in Task /\ Fits(task[t])
    BY Works
  <2>2. q \in Task
    BY <2>1, GoesForm, LabelLiterals
  <2>3. q.pc = "readback" /\ q.op = task[t].op /\ q.phase = task[t].phase
    BY <2>1 DEF Task
  <2>4. Fits(q)
    BY <1>1, <2>1, <2>3 DEF Fits, Preparing, Reading, At
  <2>5. Become(t, q)
    BY <1>3 DEF Goto
  <2> HIDE DEF q
  <2> QED BY <1>1, <2>2, <2>3, <2>4, <2>5, AlikeMoves
<1> QED BY <1>2, <1>3 DEF Reply

\* What the readback of an operation says is true of its command.
LEMMA ResultTrue ==
    ASSUME IInv, NEW op \in Operations
    PROVE  /\ Result(op) \in Results
           /\ Result(op) = "FAILED" => cmd[op] = "failed"
           /\ Result(op) \in {"READY", "SUPERSEDED"} => cmd[op] = "succeeded"
BY DEF IInv, TypeOK, Result, Results

LEMMA ReadbackKeeps ==
    ASSUME IInv, NEW t \in Tasks, Readback(t)
    PROVE  IInv'
<1> DEFINE s == Result(task[t].op)
           q == [task[t] EXCEPT !.pc = "observe", !.seen = s]
<1>1. At(t, "readback") /\ Alike /\ Become(t, q)
  BY QuietIsAlike DEF Readback
<1>2. task[t] \in Task /\ Fits(task[t]) /\ task[t].op \in Operations
  BY <1>1, Works DEF At, Preparing, Reading
<1>3. /\ s \in Results
      /\ s = "FAILED" => cmd[task[t].op] = "failed"
      /\ s \in {"READY", "SUPERSEDED"} => cmd[task[t].op] = "succeeded"
  BY <1>2, ResultTrue
<1> HIDE DEF s
<1>4. q \in Task
  BY <1>2, <1>3, SeesForm, LabelLiterals
<1>5. q.pc = "observe" /\ q.seen = s /\ q.op = task[t].op /\ q.phase = task[t].phase
  BY <1>2 DEF Task
<1>6. Fits(q)
  BY <1>1, <1>2, <1>3, <1>5 DEF Fits, Preparing, Reading, At
<1> HIDE DEF q
<1> QED BY <1>1, <1>4, <1>5, <1>6, AlikeMoves

LEMMA UnavailableKeeps ==
    ASSUME IInv, NEW t \in Tasks, Unavailable(t)
    PROVE  IInv'
<1>1. task[t].pc \in {"dashboard", "material", "readback", "finalize"} /\ Alike
  BY DEF Unavailable, Alike
<1>2. CASE task[t].cb = None /\ Conclude(t, "PENDING")
  <2>1. task[t].pc # "idle" /\ ~Preparing(task[t])
    BY <1>1, <1>2, Works DEF Fits
  <2> QED BY <1>1, <1>2, <2>1, ConcludeKeeps, StatusLiterals
<1>3. CASE Stop(t)
  BY <1>1, <1>3, StopKeeps
<1> QED BY <1>2, <1>3 DEF Unavailable

LEMMA CrashKeeps ==
    ASSUME IInv, NEW t \in Tasks, Crash(t)
    PROVE  IInv'
BY StopKeeps DEF Crash, Alike

-----------------------------------------------------------------------------
(* Steps that begin something                                              *)

LEMMA PrepareKeeps ==
    ASSUME IInv, NEW t \in Tasks, NEW cb \in Callbacks, Prepare(t, cb)
    PROVE  IInv'
<1>1. UNCHANGED <<rows, cmd, inflight, posts, version, ready, issued, copy, reader>>
  BY DEF Prepare, remote, projection
<1>2. copy \in Versions
  BY DEF IInv, TypeOK, ProjectionTypeOK
<1>3. CASE UNCHANGED bound /\ Become(t, [Idle EXCEPT !.pc = "dashboard", !.cb = cb, !.want = copy])
  <2> DEFINE q == [Idle EXCEPT !.pc = "dashboard", !.cb = cb, !.want = copy]
  <2>1. q \in Task
    BY <1>2, IdleTask, LabelLiterals DEF Task
  <2>2. q.pc = "dashboard" /\ q.cb = cb /\ q.goal = "insert"
    BY DEF Idle
  <2>3. Fits(q)
    BY <2>2, LoopAssumption DEF Fits, Preparing, Reading
  <2> HIDE DEF q
  <2>4. Become(t, q)
    BY <1>3 DEF q
  <2>5. TypeOK'
    <3>1. task' \in [Tasks -> Task]
      BY <2>1, <2>4, MovedType DEF IInv
    <3> QED BY <1>1, <1>3, <3>1 DEF IInv, TypeOK, ProjectionTypeOK, Prepare, projection, remote
  <2> QED BY <1>1, <2>1, <2>2, <2>3, <2>4, <2>5, TaskMoves
<1>4. CASE /\ UNCHANGED task
           /\ \E op \in Active : Actor(op) /\ bound' = [bound EXCEPT ![cb] = op]
  <2>1. TypeOK'
    BY <1>1, <1>4 DEF IInv, TypeOK, ProjectionTypeOK, Prepare, projection, remote, Active
  <2>2. \A u \in Tasks : Fits(task[u])'
    BY <1>1, <1>4, FitsUnmoved DEF EndsKept
  <2>3. \A op \in Operations : RowTrue(op)' /\ RequestTrue(op)'
    BY <1>1, <1>4 DEF IInv, RowTrue, RequestTrue, Finished, Sending, At
  <2>4. OneSender' /\ Alone' /\ CopyTrue'
    BY <1>1, <1>4 DEF IInv, OneSender, Alone, Active, Sending, At, CopyTrue
  <2> QED BY <2>1, <2>2, <2>3, <2>4 DEF IInv
<1> QED BY <1>3, <1>4 DEF Prepare

LEMMA ClaimKeeps ==
    ASSUME IInv, NEW t \in Tasks, NEW op \in Operations, Claim(t, op)
    PROVE  IInv'
<1> DEFINE p == rows[op].phase
           q == [Idle EXCEPT !.pc = "check", !.op = op, !.phase = p]
<1>1. UNCHANGED <<rows, cmd, inflight, posts, version, ready, issued, copy, reader>>
  BY DEF Claim, remote, projection
<1>2. p \in Pending /\ p \in AnyPhase
  BY DEF Claim, AnyPhase, Phases, Unresolved
<1>3. q \in Task
  <2> HIDE DEF p
  <2> QED BY <1>2, IdleTask, LabelLiterals DEF Task, AnyPhase
<1>4. q.pc = "check" /\ q.op = op /\ q.phase = p
  BY DEF Idle
<1>5. Fits(q)
  BY <1>2, <1>4 DEF Fits, Preparing, Reading
<1>6. Become(t, q) /\ lease' = [lease EXCEPT ![op] = t]
  BY DEF Claim
<1> HIDE DEF q
<1>7. TypeOK'
  <2>1. task' \in [Tasks -> Task]
    BY <1>3, <1>6, MovedType DEF IInv
  <2> QED BY <1>1, <1>6, <2>1 DEF IInv, TypeOK, ProjectionTypeOK, Claim, projection, remote
<1> QED BY <1>1, <1>3, <1>4, <1>5, <1>6, <1>7, TaskMoves

-----------------------------------------------------------------------------
(* Steps that write a row                                                  *)

LEMMA RowSet ==
    ASSUME TypeOK, NEW op \in Operations, NEW p \in AnyPhase, NEW s \in Statuses,
           SetRow(op, p, s)
    PROVE  /\ rows' \in [Operations -> Row]
           /\ rows'[op].phase = p /\ rows'[op].status = s /\ rows'[op].base = rows[op].base
           /\ \A o \in Operations \ {op} : rows'[o] = rows[o]
<1>1. rows[op] \in Row /\ rows \in [Operations -> Row]
  BY DEF TypeOK
<1> DEFINE q == [rows[op] EXCEPT !.phase = p, !.status = s]
<1>2. q \in Row /\ q.phase = p /\ q.status = s /\ q.base = rows[op].base
  BY <1>1 DEF Row, AnyPhase
<1>3. rows' = [rows EXCEPT ![op] = q]
  BY <1>1 DEF SetRow
<1> HIDE DEF q
<1> QED BY <1>1, <1>2, <1>3

\* One row changes and one task moves.  An unmarked row was so before, and
\* nobody is about to send for it; a row closes and succeeds for good reasons;
\* a row is only opened when none is; who is about to send has marked the row,
\* as the only one.
LEMMA RowMoves ==
    ASSUME IInv, TypeOK', NEW op \in Operations, NEW t \in Tasks, NEW r \in Task, Become(t, r),
           UNCHANGED <<cmd, inflight, posts, version, ready, issued, reader>>,
           copy' \in issued \cup {0}, copy' >= copy,
           \A o \in Operations \ {op} : rows'[o] = rows[o],
           rows'[op].base = rows[op].base \/ rows[op].phase = "FREE",
           rows'[op].base < MaxVersion,
           rows'[op].phase \in Unmarked => rows[op].phase \in Unmarked,
           rows'[op].phase = "DONE" => Finished(op),
           rows'[op].status = "DONE" => cmd[op] = "succeeded" /\ copy' > rows'[op].base,
           rows'[op].phase \in Unresolved => rows[op].phase \in Unresolved \/ Active = {},
           r.pc = "send" => /\ r.op = op /\ rows[op].phase \in Unmarked
                            /\ rows'[op].phase \notin Unmarked,
           Fits(r), r.pc = "finalize" => r.want \in issued
    PROVE  IInv'
<1>1. \A u \in Tasks : task'[u] = IF u = t THEN r ELSE task[u]
  BY Moved DEF IInv
<1>2. EndsKept
  <2>1. rows[op].phase = "FREE" => ~Finished(op)
    BY DEF IInv, RowTrue, RequestTrue, Finished, Unmarked
  <2> QED BY <2>1 DEF EndsKept
<1>3. \A u \in Tasks : Fits(task[u])'
  BY <1>2, FitsMoved
<1>4. \A u \in Tasks, o \in Operations :
         Sending(u, o)' => Sending(u, o) \/ (u = t /\ o = op /\ r.pc = "send")
  BY <1>1 DEF Sending, At
<1>5. \A o \in Operations : RowTrue(o)'
  <2>1. ASSUME NEW o \in Operations, o # op PROVE RowTrue(o)'
    <3>1. rows'[o] = rows[o] /\ rows[o] \in Row /\ copy \in Nat /\ copy' \in Nat
      BY <2>1 DEF IInv, TypeOK, ProjectionTypeOK, Versions
    <3>2. rows[o].base \in Nat
      BY <3>1 DEF Row, Versions
    <3> QED BY <1>4, <2>1, <3>1, <3>2 DEF IInv, RowTrue, Finished
  <2>2. RowTrue(op)'
    BY <1>4 DEF IInv, RowTrue, Finished
  <2> QED BY <2>1, <2>2
<1>6. \A o \in Operations : RequestTrue(o)'
  <2>1. r.pc = "send" => posts[op] = 0
    BY DEF IInv, RowTrue
  <2> QED BY <1>4, <2>1 DEF IInv, RequestTrue
<1>7. OneSender'
  <2>1. r.pc = "send" => \A u \in Tasks : ~Sending(u, op)
    BY DEF IInv, RowTrue
  <2> QED BY <1>4, <2>1 DEF IInv, OneSender
<1>8. Alone'
  BY DEF IInv, Alone, Active
<1>9. CopyTrue'
  BY <1>1 DEF IInv, CopyTrue, At
<1> QED BY <1>3, <1>5, <1>6, <1>7, <1>8, <1>9 DEF IInv

\* The same when no task moves.
LEMMA RowMovesAlone ==
    ASSUME IInv, NEW op \in Operations, NEW p \in {"QUEUED", "CANCELLED"}, NEW s \in Statuses,
           s # "DONE", rows[op].phase = "PREPARED", SetRow(op, p, s),
           UNCHANGED <<projection, bound, lease, task, scope, trouble, remote, slips>>
    PROVE  IInv'
<1>1. /\ rows' \in [Operations -> Row]
      /\ rows'[op].phase = p /\ rows'[op].status = s /\ rows'[op].base = rows[op].base
      /\ \A o \in Operations \ {op} : rows'[o] = rows[o]
  BY RowSet, PhaseLiterals DEF IInv
<1>2. TypeOK'
  BY <1>1 DEF IInv, TypeOK, ProjectionTypeOK, projection, remote
<1>3. UNCHANGED <<cmd, inflight, posts, version, ready, issued, reader, copy, task>>
  BY DEF projection, remote
<1>4. \A u \in Tasks, o \in Operations : Sending(u, o)' <=> Sending(u, o)
  BY <1>3 DEF Sending, At
<1>5. \A u \in Tasks : Fits(task[u])'
  BY <1>1, <1>3, FitsUnmoved DEF EndsKept
<1>6. \A o \in Operations : RowTrue(o)' /\ RequestTrue(o)'
  BY <1>1, <1>3, <1>4 DEF IInv, RowTrue, RequestTrue, Finished, Unmarked
<1>7. OneSender' /\ Alone' /\ CopyTrue'
  BY <1>1, <1>3, <1>4
  DEF IInv, OneSender, Alone, Active, CopyTrue, At, Unresolved, Pending
<1> QED BY <1>2, <1>5, <1>6, <1>7 DEF IInv

LEMMA ConfirmKeeps ==
    ASSUME IInv, NEW op \in Operations, Confirm(op)
    PROVE  IInv'
BY RowMovesAlone, StatusLiterals DEF Confirm

LEMMA CancelKeeps ==
    ASSUME IInv, NEW op \in Operations, Cancel(op)
    PROVE  IInv'
BY RowMovesAlone, StatusLiterals DEF Cancel

LEMMA InsertKeeps ==
    ASSUME IInv, NEW t \in Tasks, Insert(t)
    PROVE  IInv'
<1>1. At(t, "insert") /\ Become(t, Idle)
  BY DEF Insert, Stop
<1>2. /\ UNCHANGED <<cmd, inflight, posts, version, ready, issued, copy, reader, alive>>
      /\ UNCHANGED <<lease, scope, trouble, slips>>
  BY DEF Insert, projection, remote
<1>3. task[t] \in Task /\ Fits(task[t]) /\ task[t].cb \in Callbacks
  BY <1>1, Works DEF At, Fits, Preparing, Task
<1>4. task' \in [Tasks -> Task]
  BY <1>1, IdleTask, MovedType DEF IInv
<1>5. trouble.ops \subseteq Operations
  BY TroublesAssumption DEF IInv, TypeOK
<1>6. CASE UNCHANGED rows /\ bound' \in [Callbacks -> Operations \cup {None}]
  <2>1. TypeOK'
    BY <1>2, <1>4, <1>6 DEF IInv, TypeOK, ProjectionTypeOK
  <2> QED BY <1>1, <1>2, <1>6, <2>1, IdleTask, IdleFits, TaskMoves
<1>7. ASSUME NEW op \in trouble.ops, Active = {}, rows[op].phase = "FREE", task[t].want < MaxVersion,
             bound' = [bound EXCEPT ![task[t].cb] = op],
             rows' = [rows EXCEPT ![op] =
                        [phase |-> "PREPARED", status |-> "CONFIRMATION",
                         base |-> task[t].want, scope |-> scope]]
      PROVE  IInv'
  <2> DEFINE new == [phase |-> "PREPARED", status |-> "CONFIRMATION",
                     base |-> task[t].want, scope |-> scope]
  <2>1. new \in Row /\ op \in Operations
    BY <1>3, <1>5, <1>7, PhaseLiterals, StatusLiterals DEF Row, Task, AnyPhase, IInv, TypeOK
  <2>2. /\ rows' \in [Operations -> Row] /\ rows'[op] = new
        /\ \A o \in Operations \ {op} : rows'[o] = rows[o]
    BY <1>7, <2>1 DEF IInv, TypeOK
  <2>3. TypeOK'
    BY <1>2, <1>3, <1>4, <1>7, <2>1, <2>2 DEF IInv, TypeOK, ProjectionTypeOK
  <2>4. copy \in issued \cup {0} /\ copy \in Nat
    BY DEF IInv, CopyTrue, TypeOK, ProjectionTypeOK, Versions
  <2> QED BY <1>1, <1>2, <1>7, <2>1, <2>2, <2>3, <2>4, IdleTask, IdleFits, RowMoves
          DEF Unmarked, Unresolved, Pending
<1>8. ASSUME NEW op \in Active, bound' = [bound EXCEPT ![task[t].cb] = op]
      PROVE  bound' \in [Callbacks -> Operations \cup {None}]
  BY <1>8 DEF IInv, TypeOK, Active
<1>9. CASE UNCHANGED <<rows, bound>>
  BY <1>6, <1>9 DEF IInv, TypeOK
<1> QED BY <1>6, <1>7, <1>8, <1>9 DEF Insert

LEMMA DispatchKeeps ==
    ASSUME IInv, NEW t \in Tasks, Dispatch(t)
    PROVE  IInv'
<1> DEFINE op == task[t].op
           q == [task[t] EXCEPT !.pc = "send", !.phase = "DISPATCHED"]
<1>1. At(t, "dispatch") /\ UNCHANGED <<projection, bound, lease, scope, trouble, remote, slips>>
  BY DEF Dispatch
<1>2. /\ task[t] \in Task /\ Fits(task[t]) /\ op \in Operations /\ task[t].phase = "QUEUED"
      /\ ~Preparing(task[t]) /\ task[t].pc # "idle"
  BY <1>1, Works DEF At, Fits, Preparing, Reading
<1>3. UNCHANGED rows => Alike
  BY <1>1 DEF Alike, journal
<1>4. CASE Stop(t) /\ UNCHANGED rows
  BY <1>3, <1>4, StopKeeps
<1>5. CASE Conclude(t, "MANUAL_REVIEW") /\ UNCHANGED rows
  BY <1>2, <1>3, <1>5, ConcludeKeeps, StatusLiterals
<1>6. CASE Conclude(t, "STALE") /\ UNCHANGED rows
  BY <1>2, <1>3, <1>6, ConcludeKeeps, StatusLiterals
<1>7. CASE Leased(t) /\ SetRow(op, "DISPATCHED", rows[op].status) /\ Become(t, q)
  <2>1. rows[op].phase = "QUEUED" /\ rows[op].status \in Statuses
    BY <1>2, <1>7 DEF Leased, IInv, TypeOK, Row
  <2>2. /\ rows' \in [Operations -> Row]
        /\ rows'[op].phase = "DISPATCHED" /\ rows'[op].status = rows[op].status
        /\ rows'[op].base = rows[op].base /\ \A o \in Operations \ {op} : rows'[o] = rows[o]
    BY <1>2, <1>7, <2>1, RowSet, PhaseLiterals DEF IInv
  <2>3. q \in Task
    BY <1>2, NotesForm, LabelLiterals, PhaseLiterals
  <2>4. q.pc = "send" /\ q.op = op /\ q.phase = "DISPATCHED"
    BY <1>2 DEF Task
  <2>5. Fits(q)
    BY <1>2, <2>4 DEF Fits, Preparing, Reading, Pending
  <2> HIDE DEF q
  <2>6. TypeOK'
    <3>1. task' \in [Tasks -> Task]
      BY <1>7, <2>3, MovedType DEF IInv
    <3> QED BY <1>1, <2>2, <3>1 DEF IInv, TypeOK, ProjectionTypeOK, projection, remote
  <2>7. /\ copy \in issued \cup {0} /\ copy \in Nat /\ rows[op].base < MaxVersion
        /\ rows[op].status = "DONE" => cmd[op] = "succeeded" /\ copy > rows[op].base
    BY <1>2 DEF IInv, RowTrue, CopyTrue, TypeOK, ProjectionTypeOK, Versions
  <2>8. UNCHANGED <<cmd, inflight, posts, version, ready, issued, reader, copy>>
    BY <1>1 DEF projection, remote
  <2> HIDE DEF op
  <2> QED BY <1>2, <1>7, <2>1, <2>2, <2>3, <2>4, <2>5, <2>6, <2>7, <2>8, RowMoves
          DEF Unmarked, Unresolved, Pending
<1> QED BY <1>4, <1>5, <1>6, <1>7 DEF Dispatch

LEMMA ObserveKeeps ==
    ASSUME IInv, NEW t \in Tasks, Observe(t)
    PROVE  IInv'
<1> DEFINE op == task[t].op
           seen == task[t].seen
<1>1. At(t, "observe") /\ UNCHANGED <<projection, bound, lease, scope, trouble, remote, slips>>
  BY DEF Observe
<1>2. /\ task[t] \in Task /\ Fits(task[t]) /\ op \in Operations /\ seen \in Results
      /\ task[t].phase \in Pending \ {"QUEUED"} /\ ~Preparing(task[t]) /\ task[t].pc # "idle"
  BY <1>1, Works DEF At, Fits, Preparing, Reading, Task
<1>3. UNCHANGED rows => Alike
  BY <1>1 DEF Alike, journal
<1>4. CASE Stop(t) /\ UNCHANGED rows
  BY <1>3, <1>4, StopKeeps
<1>5. CASE Conclude(t, "PENDING") /\ UNCHANGED rows
  BY <1>2, <1>3, <1>5, ConcludeKeeps, StatusLiterals
<1>6. ASSUME Leased(t), seen # "UNCONFIRMED", SetRow(op, "OBSERVED", rows[op].status),
             NEW r \in Task, Become(t, r), Fits(r), r.pc \in {"release", "dashboard"}
      PROVE  IInv'
  <2>1. rows[op].phase \in {"DISPATCHED", "OBSERVED"} /\ rows[op].status \in Statuses
    BY <1>2, <1>6 DEF Leased, Pending, IInv, TypeOK, Row
  <2>2. /\ rows' \in [Operations -> Row]
        /\ rows'[op].phase = "OBSERVED" /\ rows'[op].status = rows[op].status
        /\ rows'[op].base = rows[op].base /\ \A o \in Operations \ {op} : rows'[o] = rows[o]
    BY <1>2, <1>6, <2>1, RowSet, PhaseLiterals DEF IInv
  <2>3. TypeOK'
    <3>1. task' \in [Tasks -> Task]
      BY <1>6, MovedType DEF IInv
    <3> QED BY <1>1, <2>2, <3>1 DEF IInv, TypeOK, ProjectionTypeOK, projection, remote
  <2>4. /\ copy \in issued \cup {0} /\ copy \in Nat /\ rows[op].base < MaxVersion
        /\ rows[op].status = "DONE" => cmd[op] = "succeeded" /\ copy > rows[op].base
    BY <1>2 DEF IInv, RowTrue, CopyTrue, TypeOK, ProjectionTypeOK, Versions
  <2>5. UNCHANGED <<cmd, inflight, posts, version, ready, issued, reader, copy>>
    BY <1>1 DEF projection, remote
  <2> HIDE DEF op, seen
  <2> QED BY <1>2, <1>6, <2>1, <2>2, <2>3, <2>4, <2>5, RowMoves
          DEF Unmarked, Unresolved, Pending
<1>7. Observed(t) \in Task /\ Observed(t).phase = "OBSERVED" /\ Observed(t).op = op
  BY <1>2, NotesForm, PhaseLiterals, LabelLiterals DEF Observed, Task
<1>8. ASSUME NEW v \in Statuses, v \notin {"DONE", "STALE"},
             v \in {"FAILED", "SUPERSEDED"} => Finished(op)
      PROVE  LET r == [Observed(t) EXCEPT !.pc = "release", !.verdict = v]
             IN  r \in Task /\ Fits(r) /\ r.pc = "release"
  <2> DEFINE r == [Observed(t) EXCEPT !.pc = "release", !.verdict = v]
  <2>1. r \in Task /\ Fits(r)
    <3> DEFINE b == Observed(t)
    <3>1. b \in Task /\ b.op \in Operations /\ b.phase \in Pending /\ b.op = op
      BY <1>2, <1>7 DEF Pending
    <3>2. r = [b EXCEPT !.pc = "release", !.verdict = v]
      OBVIOUS
    <3> HIDE DEF b, r
    <3> QED BY <1>8, <3>1, <3>2, Concludes
  <2>2. r.pc = "release"
    BY <1>7 DEF Task
  <2> QED BY <2>1, <2>2
<1>9. CASE /\ Leased(t) /\ SetRow(op, "OBSERVED", rows[op].status)
           /\ seen \notin {"UNCONFIRMED", "READY"}
           /\ Become(t, [Observed(t) EXCEPT !.pc = "release", !.verdict = seen])
  <2>1. seen \in Statuses /\ seen \notin {"DONE", "STALE"}
    BY <1>2, <1>9, StatusLiterals DEF Results
  <2>2. seen \in {"FAILED", "SUPERSEDED"} => Finished(op)
    BY <1>1, <1>2 DEF Fits, Finished, At
  <2> HIDE DEF seen, op
  <2> QED BY <1>6, <1>8, <1>9, <2>1, <2>2
<1>10. CASE /\ Leased(t) /\ SetRow(op, "OBSERVED", rows[op].status) /\ seen = "READY"
            /\ Become(t, [Observed(t) EXCEPT !.pc = "release", !.verdict = "MANUAL_REVIEW"])
  <2> HIDE DEF seen, op
  <2> QED BY <1>6, <1>8, <1>10, StatusLiterals
<1>11. CASE /\ Leased(t) /\ SetRow(op, "OBSERVED", rows[op].status) /\ seen = "READY"
            /\ Become(t, [Observed(t) EXCEPT !.pc = "dashboard", !.goal = "finalize",
                                             !.want = rows[op].base + 1])
  <2> DEFINE w == rows[op].base + 1
             b == Observed(t)
             r == [b EXCEPT !.pc = "dashboard", !.goal = "finalize", !.want = w]
  <2>1. w \in Versions /\ w = rows[op].base + 1
    BY <1>2, VersionBound DEF IInv, RowTrue, TypeOK, Row, Versions
  <2>2. cmd[op] = "succeeded"
    BY <1>1, <1>2, <1>11 DEF Fits, At
  <2>3. b \in Task /\ b.phase = "OBSERVED" /\ b.op = op
    BY <1>7
  <2>4. Become(t, r)
    BY <1>11
  <2> HIDE DEF w, b
  <2>5. r \in Task
    BY <2>1, <2>3, ReadsForm, LabelLiterals DEF Goals
  <2>6. /\ r.pc = "dashboard" /\ r.goal = "finalize" /\ r.want = w
        /\ r.op = op /\ r.phase = "OBSERVED"
    BY <2>3 DEF Task
  <2>7. Fits(r)
    BY <1>2, <2>1, <2>2, <2>6 DEF Fits, Preparing, Reading, Pending
  <2> HIDE DEF r
  <2> QED BY <1>6, <1>11, <2>4, <2>5, <2>6, <2>7
<1> QED BY <1>4, <1>5, <1>9, <1>10, <1>11 DEF Observe

LEMMA FinalizeKeeps ==
    ASSUME IInv, NEW t \in Tasks, Finalize(t)
    PROVE  IInv'
<1> DEFINE op == task[t].op
           base == rows[op].base
<1>1. /\ At(t, "finalize")
      /\ UNCHANGED <<version, ready, issued, alive, reader, bound, scope, trouble, remote, slips>>
  BY DEF Finalize
<1>2. /\ task[t] \in Task /\ op \in Operations /\ task[t].phase = "OBSERVED"
      /\ cmd[op] = "succeeded" /\ base + 1 \in issued
      /\ ~Preparing(task[t]) /\ task[t].pc # "idle"
  BY <1>1, Works DEF At, Fits, Preparing, Reading
<1>3. UNCHANGED <<rows, lease, copy>> => Alike
  BY <1>1 DEF Alike, journal, projection
<1>4. CASE Stop(t) /\ UNCHANGED <<rows, lease, copy>>
  BY <1>3, <1>4, StopKeeps
<1>5. CASE Conclude(t, "MANUAL_REVIEW") /\ UNCHANGED <<rows, lease, copy>>
  BY <1>2, <1>3, <1>5, ConcludeKeeps, StatusLiterals
<1>6. CASE /\ Leased(t) /\ MayApply(base + 1) /\ Apply(base + 1)
           /\ SetRow(op, "DONE", "DONE") /\ Unlease(op) /\ Stop(t)
  <2>1. rows[op].phase = "OBSERVED"
    BY <1>2, <1>6 DEF Leased
  <2>2. /\ rows' \in [Operations -> Row]
        /\ rows'[op].phase = "DONE" /\ rows'[op].status = "DONE"
        /\ rows'[op].base = rows[op].base /\ \A o \in Operations \ {op} : rows'[o] = rows[o]
    BY <1>2, <1>6, RowSet, PhaseLiterals, StatusLiterals DEF IInv
  <2>3. base = rows[op].base /\ base \in Nat /\ base < MaxVersion /\ base + 1 \in Versions
    BY <1>2, VersionBound DEF IInv, RowTrue, TypeOK, Row, Versions
  <2>4. copy' = base + 1 /\ copy' >= copy
    BY <1>6, <2>3 DEF MayApply, Apply
  <2>5. TypeOK'
    <3>1. task' \in [Tasks -> Task]
      BY <1>6, IdleTask, MovedType DEF IInv, Stop
    <3> QED BY <1>1, <1>6, <2>2, <2>3, <2>4, <3>1
            DEF IInv, TypeOK, ProjectionTypeOK, remote, Unlease
  <2>6. Become(t, Idle) /\ UNCHANGED <<cmd, inflight, posts, version, ready, issued, reader>>
    BY <1>1, <1>6 DEF remote, Stop
  <2>7. Finished(op)
    BY <1>2 DEF Finished
  <2> HIDE DEF op, base
  <2> QED BY <1>2, <2>1, <2>2, <2>3, <2>4, <2>5, <2>6, <2>7, IdleTask, IdleFits, RowMoves
          DEF Unmarked, Unresolved, Pending
<1> QED BY <1>4, <1>5, <1>6 DEF Finalize

LEMMA ReleaseKeeps ==
    ASSUME IInv, NEW t \in Tasks, Release(t)
    PROVE  IInv'
<1> DEFINE op == task[t].op
           p == Closes(rows[op].phase, task[t].verdict)
           v == task[t].verdict
<1>1. At(t, "release") /\ Stop(t) /\ UNCHANGED <<projection, bound, scope, trouble, remote, slips>>
  BY DEF Release
<1>2. /\ task[t] \in Task /\ Fits(task[t]) /\ op \in Operations /\ task[t].phase \in Pending
      /\ v \in Statuses
  BY <1>1, Works DEF At, Preparing, Reading, Task
<1>3. CASE UNCHANGED <<rows, lease>>
  BY <1>1, <1>3, StopKeeps DEF Alike, journal
<1>4. CASE Leased(t) /\ SetRow(op, p, v) /\ Unlease(op)
  <2>1. rows[op].phase = task[t].phase /\ rows[op].phase \in Pending
    BY <1>2, <1>4 DEF Leased
  <2>2. /\ v # "DONE"
        /\ v = "STALE" => rows[op].phase = "QUEUED"
        /\ v \in {"FAILED", "SUPERSEDED"} => Finished(op)
    BY <1>1, <1>2, <2>1 DEF Fits, At
  <2>3. /\ p \in AnyPhase
        /\ p \in Unmarked => rows[op].phase \in Unmarked
        /\ p = "DONE" => Finished(op)
    BY <2>1, <2>2, PhaseLiterals DEF Closes, Unmarked, Pending
  <2>4. /\ rows' \in [Operations -> Row]
        /\ rows'[op].phase = p /\ rows'[op].status = v /\ rows'[op].base = rows[op].base
        /\ \A o \in Operations \ {op} : rows'[o] = rows[o]
    <3> HIDE DEF p, v
    <3> QED BY <1>2, <1>4, <2>3, RowSet DEF IInv
  <2>5. /\ copy \in issued \cup {0} /\ copy \in Nat /\ rows[op].base < MaxVersion
    BY <1>2 DEF IInv, RowTrue, CopyTrue, TypeOK, ProjectionTypeOK, Versions
  <2>6. TypeOK'
    <3>1. task' \in [Tasks -> Task]
      BY <1>1, IdleTask, MovedType DEF IInv, Stop
    <3> QED BY <1>1, <1>4, <2>4, <3>1
            DEF IInv, TypeOK, ProjectionTypeOK, projection, remote, Unlease
  <2>7. Become(t, Idle) /\ UNCHANGED <<cmd, inflight, posts, version, ready, issued, reader, copy>>
    BY <1>1 DEF projection, remote, Stop
  <2> HIDE DEF op, p, v
  <2> QED BY <1>2, <2>1, <2>2, <2>3, <2>4, <2>5, <2>6, <2>7, IdleTask, IdleFits, RowMoves
          DEF Unresolved, Pending
<1> QED BY <1>3, <1>4 DEF Release

-----------------------------------------------------------------------------
(* Requests, commands, leases and the outside                              *)

LEMMA SendKeeps ==
    ASSUME IInv, NEW t \in Tasks, Send(t)
    PROVE  IInv'
<1> DEFINE op == task[t].op
           q == [task[t] EXCEPT !.pc = "reply"]
<1>1. /\ At(t, "send") /\ Become(t, q)
      /\ inflight' = inflight \cup {op} /\ posts' = [posts EXCEPT ![op] = @ + 1]
      /\ UNCHANGED <<projection, journal, scope, trouble, cmd, slips>>
  BY DEF Send, Goto
<1>2. task[t] \in Task /\ Fits(task[t]) /\ op \in Operations
  BY <1>1, Works DEF At, Preparing, Reading
<1>3. /\ q \in Task
      /\ q.pc = "reply" /\ q.op = op /\ q.phase = task[t].phase
  BY <1>2, GoesForm, LabelLiterals DEF Task
<1>4. Fits(q)
  BY <1>1, <1>2, <1>3 DEF Fits, Preparing, Reading, At
<1> HIDE DEF q
<1>5. \A u \in Tasks : task'[u] = IF u = t THEN q ELSE task[u]
  BY <1>1, <1>3, Moved DEF IInv
<1>6. UNCHANGED <<rows, bound, lease, version, ready, issued, copy, alive, reader>>
  BY <1>1 DEF projection, journal
<1>7. Sending(t, op)
  BY <1>1 DEF Sending
<1>8. \A u \in Tasks, o \in Operations : Sending(u, o)' => Sending(u, o) /\ o # op
  BY <1>3, <1>5, <1>7 DEF Sending, At, IInv, OneSender
<1>9. posts[op] = 0 /\ cmd[op] = "none" /\ rows[op].phase \notin Unmarked
  BY <1>2, <1>7 DEF IInv, RowTrue, RequestTrue
<1>10. TypeOK'
  <2>1. task' \in [Tasks -> Task]
    BY <1>1, <1>3, MovedType DEF IInv
  <2> QED BY <1>1, <1>2, <1>6, <2>1 DEF IInv, TypeOK, ProjectionTypeOK
<1>11. \A o \in Operations : posts'[o] = IF o = op THEN 1 ELSE posts[o]
  BY <1>1, <1>9 DEF IInv, TypeOK
<1>12. \A o \in Operations : RowTrue(o)' /\ RequestTrue(o)'
  BY <1>1, <1>6, <1>8, <1>9, <1>11 DEF IInv, RowTrue, RequestTrue, Finished
<1>13. \A u \in Tasks : Fits(task[u])'
  BY <1>1, <1>3, <1>4, <1>6, FitsMoved DEF EndsKept
<1>14. OneSender' /\ Alone' /\ CopyTrue'
  BY <1>3, <1>5, <1>6, <1>8 DEF IInv, OneSender, Alone, Active, CopyTrue, At
<1> QED BY <1>10, <1>12, <1>13, <1>14 DEF IInv

\* Only the lease is given up, at the price of a slip or of none.
LEMMA ExpireKeeps ==
    ASSUME IInv, NEW op \in Operations, Expire(op)
    PROVE  IInv'
<1>1. /\ UNCHANGED <<projection, rows, bound, task, scope, trouble, remote>>
      /\ lease' = [lease EXCEPT ![op] = None] /\ (UNCHANGED slips \/ Slip)
  BY DEF Expire, Unlease
<1>2. UNCHANGED <<rows, bound, task, cmd, inflight, posts>>
  BY <1>1 DEF remote
<1>3. UNCHANGED <<version, ready, issued, copy, alive, reader>>
  BY <1>1 DEF projection
<1>4. slips' \in 0..trouble.slips
  <2>1. trouble.slips \in Nat /\ slips \in 0..trouble.slips
    BY TroublesAssumption DEF IInv, TypeOK
  <2> QED BY <1>1, <2>1 DEF Slip
<1>5. TypeOK'
  BY <1>1, <1>2, <1>3, <1>4 DEF IInv, TypeOK, ProjectionTypeOK
<1>6. \A u \in Tasks : Fits(task[u])'
  BY <1>2, FitsUnmoved DEF EndsKept
<1> QED BY <1>2, <1>3, <1>5, <1>6
        DEF IInv, RowTrue, RequestTrue, Finished, Sending, At, OneSender, Alone, Active, CopyTrue

\* A step outside of the bot: requests only disappear, commands are started for
\* one of them and end, versions are issued in order, the copy follows them.
LEMMA OutsideMoves ==
    ASSUME IInv, TypeOK', UNCHANGED <<rows, task, posts>>,
           inflight' \subseteq inflight,
           \A o \in Operations :
              \/ cmd'[o] = cmd[o]
              \/ cmd[o] = "none" /\ o \in inflight \ inflight'
              \/ cmd[o] = "running" /\ o \notin inflight',
           copy' \in issued' \cup {0}, copy' >= copy, issued \subseteq issued',
           version' > 0, \A v \in issued' : v <= version', ready' => version' \in issued',
           \A r \in Readers : reader'[r].pc = "project" => reader'[r].seen \in issued'
    PROVE  IInv'
<1>1. EndsKept
  BY DEF EndsKept, Finished
<1>2. \A u \in Tasks : Fits(task[u])'
  BY <1>1, FitsUnmoved
<1>3. \A u \in Tasks, o \in Operations : Sending(u, o)' <=> Sending(u, o)
  BY DEF Sending, At
<1>4. \A o \in Operations : RowTrue(o)'
  <2> SUFFICES ASSUME NEW o \in Operations PROVE RowTrue(o)'
    OBVIOUS
  <2>1. rows[o].base \in Nat /\ copy \in Nat /\ copy' \in Nat
    BY DEF IInv, TypeOK, ProjectionTypeOK, Row, Versions
  <2> QED BY <1>3, <2>1 DEF IInv, RowTrue, Finished
<1>5. \A o \in Operations : RequestTrue(o)'
  BY <1>3 DEF IInv, RequestTrue
<1>6. OneSender' /\ Alone' /\ CopyTrue'
  BY <1>3 DEF IInv, OneSender, Alone, Active, CopyTrue, At
<1> QED BY <1>2, <1>4, <1>5, <1>6 DEF IInv

\* What CopyTrue says, with the types of the numbers.
LEMMA Copies ==
    ASSUME IInv
    PROVE  /\ version \in Nat \ {0} /\ copy \in Nat /\ issued \subseteq Nat
           /\ copy \in issued \cup {0} /\ \A v \in issued : v <= version
           /\ ready => version \in issued
           /\ \A r \in Readers : reader[r].pc = "project" => reader[r].seen \in issued
BY DEF IInv, CopyTrue, TypeOK, ProjectionTypeOK, Versions

LEMMA BumpTyped ==
    ASSUME version \in Versions, Bump
    PROVE  version' \in Versions /\ ready' \in BOOLEAN
<1>1. ready' \in BOOLEAN
  BY DEF Bump
<1>2. version \in Nat /\ version < MaxVersion /\ version' = version + 1
  BY VersionBound DEF Versions, Bump
<1>3. version' \in Nat /\ version' <= MaxVersion
  BY <1>2, VersionBound
<1> QED BY <1>1, <1>3, VersionBound DEF Versions

LEMMA HandleReplaceKeeps ==
    ASSUME IInv, NEW op \in Operations, HandleReplace(op)
    PROVE  IInv'
<1>1. UNCHANGED <<issued, copy, alive, reader, rows, bound, lease, task, scope, trouble, posts, slips>>
  BY DEF HandleReplace, journal
<1>2. op \in inflight /\ inflight' = inflight \ {op}
  BY DEF HandleReplace
<1>3. \/ cmd[op] = "none" /\ cmd' = [cmd EXCEPT ![op] = "running"] /\ Bump
      \/ UNCHANGED <<cmd, version, ready>>
  BY DEF HandleReplace
<1>4. TypeOK'
  <2>1. version' \in Versions /\ ready' \in BOOLEAN
    BY <1>3, BumpTyped DEF IInv, TypeOK, ProjectionTypeOK
  <2>2. cmd' \in [Operations -> {"none", "running", "succeeded", "failed"}]
    BY <1>3 DEF IInv, TypeOK
  <2> QED BY <1>1, <1>2, <2>1, <2>2 DEF IInv, TypeOK, ProjectionTypeOK
<1>5. /\ version' > 0 /\ \A v \in issued : v <= version'
      /\ ready' => version' \in issued
  BY <1>3, Copies DEF Bump
<1>6. \A o \in Operations : cmd'[o] = cmd[o] \/ (cmd[o] = "none" /\ o \in inflight \ inflight')
  BY <1>2, <1>3 DEF IInv, TypeOK
<1>7. copy \in Nat /\ copy \in issued \cup {0}
  BY Copies
<1> QED BY <1>1, <1>2, <1>4, <1>5, <1>6, <1>7, Copies, OutsideMoves

LEMMA LoseReplaceKeeps ==
    ASSUME IInv, NEW op \in Operations, LoseReplace(op)
    PROVE  IInv'
<1>1. UNCHANGED <<projection, rows, bound, lease, task, scope, trouble, cmd, posts, slips>>
  BY DEF LoseReplace, journal
<1>2. UNCHANGED <<version, ready, issued, copy, alive, reader>>
  BY <1>1 DEF projection
<1>3. TypeOK' /\ inflight' \subseteq inflight
  BY <1>1, <1>2 DEF LoseReplace, IInv, TypeOK, ProjectionTypeOK
<1> QED BY <1>1, <1>2, <1>3, Copies, OutsideMoves

LEMMA SucceedKeeps ==
    ASSUME IInv, NEW op \in Operations, Succeed(op)
    PROVE  IInv'
<1>1. /\ UNCHANGED <<version, copy, alive, reader, rows, bound, lease, task, scope, trouble>>
      /\ UNCHANGED <<inflight, posts, slips>>
  BY DEF Succeed, journal
<1>2. cmd[op] = "running" /\ cmd' = [cmd EXCEPT ![op] = "succeeded"]
  BY DEF Succeed
<1>3. MakeReady \/ UNCHANGED <<ready, issued>>
  BY DEF Succeed
<1>4. TypeOK'
  BY <1>1, <1>2, <1>3 DEF IInv, TypeOK, ProjectionTypeOK, MakeReady
<1>5. \A o \in Operations : cmd'[o] = cmd[o] \/ (cmd[o] = "running" /\ o \notin inflight')
  BY <1>1, <1>2 DEF IInv, TypeOK, RequestTrue
<1>6. /\ issued \subseteq issued' /\ \A v \in issued' : v <= version'
      /\ ready' => version' \in issued'
  BY <1>1, <1>3, Copies DEF MakeReady
<1> QED BY <1>1, <1>4, <1>5, <1>6, Copies, OutsideMoves

LEMMA FailCommandKeeps ==
    ASSUME IInv, NEW op \in Operations, FailCommand(op)
    PROVE  IInv'
<1>1. /\ UNCHANGED <<projection, rows, bound, lease, task, scope, trouble, inflight, posts, slips>>
      /\ cmd[op] = "running" /\ cmd' = [cmd EXCEPT ![op] = "failed"]
  BY DEF FailCommand, journal
<1>2. UNCHANGED <<version, ready, issued, copy, alive, reader>>
  BY <1>1 DEF projection
<1>3. TypeOK'
  BY <1>1, <1>2 DEF IInv, TypeOK, ProjectionTypeOK
<1>4. \A o \in Operations : cmd'[o] = cmd[o] \/ (cmd[o] = "running" /\ o \notin inflight')
  BY <1>1 DEF IInv, TypeOK, RequestTrue
<1> QED BY <1>1, <1>2, <1>3, <1>4, Copies, OutsideMoves

\* A payment return writes what it has seen issued.
LEMMA ReturnKeeps ==
    ASSUME IInv, NEW r \in Readers, ReturnNext(r),
           UNCHANGED <<journal, task, scope, trouble, remote, slips>>
    PROVE  IInv'
<1>1. UNCHANGED <<rows, bound, lease, task, cmd, inflight, posts, version, ready, issued, alive>>
  BY DEF journal, remote, ReturnNext, ReadDashboard, ReadMaterial, ProjectReady, DropReturn
<1>2. /\ reader' \in [Readers -> Reader] /\ copy' \in Versions
      /\ copy' \in issued \cup {0} /\ copy' >= copy
      /\ \A s \in Readers : reader'[s].pc = "project" => reader'[s].seen \in issued
  <2>1. reader \in [Readers -> Reader] /\ version \in Versions /\ copy \in Versions /\ 0 \in Versions
    BY VersionBound DEF IInv, TypeOK, ProjectionTypeOK, Versions
  <2>2. ASSUME NEW pc \in {"idle", "material", "project"}, NEW seen \in Versions,
               SetReader(r, pc, seen), pc = "project" => seen \in issued
        PROVE  /\ reader' \in [Readers -> Reader]
               /\ \A s \in Readers : reader'[s].pc = "project" => reader'[s].seen \in issued
    <3> DEFINE new == [pc |-> pc, seen |-> seen]
    <3>1. new \in Reader /\ new.pc = pc /\ new.seen = seen
      BY DEF Reader
    <3>2. reader' = [reader EXCEPT ![r] = new]
      BY <2>2 DEF SetReader
    <3> HIDE DEF new
    <3> QED BY <2>1, <2>2, <3>1, <3>2, Copies
  <2>3. CASE ReadDashboard(r)
    BY <2>1, <2>2, <2>3, Copies DEF ReadDashboard
  <2>4. CASE ReadMaterial(r)
    BY <2>1, <2>2, <2>4, Copies DEF ReadMaterial
  <2>5. CASE ProjectReady(r)
    <3>1. reader[r].seen \in Versions /\ reader[r].seen \in issued
      BY <2>1, <2>5, Copies DEF ProjectReady, Reader
    <3>2. copy' \in {copy, reader[r].seen} /\ copy' >= copy
      BY <2>1, <2>5, <3>1, Copies DEF ProjectReady, MayApply, Apply
    <3>3. SetReader(r, "idle", 0)
      BY <2>5 DEF ProjectReady
    <3> QED BY <2>1, <2>2, <3>1, <3>2, <3>3, Copies
  <2>6. CASE DropReturn(r)
    BY <2>1, <2>2, <2>6, Copies DEF DropReturn
  <2> QED BY <2>3, <2>4, <2>5, <2>6 DEF ReturnNext
<1>3. TypeOK'
  BY <1>1, <1>2 DEF IInv, TypeOK, ProjectionTypeOK
<1> QED BY <1>1, <1>2, <1>3, Copies, OutsideMoves

LEMMA DisturbKeeps ==
    ASSUME IInv, Disturb
    PROVE  IInv'
<1>1. CASE Rotate /\ UNCHANGED <<journal, task, scope, trouble, remote, slips>>
  <2>1. /\ UNCHANGED <<rows, bound, lease, task, cmd, inflight, posts, issued, copy, alive, reader>>
        /\ Bump
    BY <1>1 DEF journal, remote, Rotate
  <2>2. TypeOK'
    BY <1>1, <2>1, BumpTyped DEF IInv, TypeOK, ProjectionTypeOK
  <2>3. version' > 0 /\ ~ready' /\ \A v \in issued : v <= version'
    BY <2>1, Copies DEF Bump
  <2> QED BY <2>1, <2>2, <2>3, Copies, OutsideMoves
<1>2. CASE Materialise /\ UNCHANGED <<journal, task, scope, trouble, remote, slips>>
  <2>1. /\ UNCHANGED <<rows, bound, lease, task, cmd, inflight, posts, version, copy, alive, reader>>
        /\ MakeReady
    BY <1>2 DEF journal, remote, Materialise
  <2>2. TypeOK'
    BY <1>2, <2>1 DEF IInv, TypeOK, ProjectionTypeOK, MakeReady
  <2>3. /\ issued \subseteq issued' /\ version' \in issued' /\ \A v \in issued' : v <= version'
    BY <2>1, Copies DEF MakeReady
  <2> QED BY <2>1, <2>2, <2>3, Copies, OutsideMoves
<1>3. CASE RemoveKey /\ UNCHANGED <<journal, task, scope, trouble, remote, slips>>
  <2>1. /\ UNCHANGED <<rows, bound, lease, task, cmd, inflight, posts, version, ready, issued, copy, reader>>
        /\ alive' = FALSE
    BY <1>3 DEF journal, remote, RemoveKey
  <2>2. TypeOK'
    BY <1>3, <2>1 DEF IInv, TypeOK, ProjectionTypeOK
  <2> QED BY <2>1, <2>2, Copies, OutsideMoves
<1>4. CASE /\ scope' \in Scopes
           /\ UNCHANGED <<projection, journal, task, trouble, remote, slips>>
  <2>1. /\ UNCHANGED <<rows, bound, lease, task, cmd, inflight, posts>>
        /\ UNCHANGED <<version, ready, issued, copy, alive, reader>>
    BY <1>4 DEF journal, remote, projection
  <2>2. TypeOK'
    BY <1>4, <2>1 DEF IInv, TypeOK, ProjectionTypeOK
  <2> QED BY <2>1, <2>2, Copies, OutsideMoves
<1> QED BY <1>1, <1>2, <1>3, <1>4, ReturnKeeps DEF Disturb

-----------------------------------------------------------------------------
(* The theorems                                                            *)

LEMMA InitInv == Init => IInv
<1> SUFFICES ASSUME Init PROVE IInv
  OBVIOUS
<1>1. TypeOK
  <2>1. 0 \in Versions /\ 1 \in Versions
    BY VersionBound DEF Versions
  <2>2. FreeRow \in Row /\ IdleReader \in Reader
    BY <2>1, StatusLiterals DEF FreeRow, Row, IdleReader, Reader
  <2>3. Idle \in Task
    BY IdleTask
  <2>4. 0 \in 0..trouble.slips
    BY TroublesAssumption DEF Init
  <2> QED BY <2>1, <2>2, <2>3, <2>4 DEF Init, TypeOK, ProjectionTypeOK
<1>2. \A op \in Operations : RowTrue(op) /\ RequestTrue(op)
  BY VersionBound DEF Init, RowTrue, RequestTrue, FreeRow, Unmarked, Sending, At, Idle
<1>3. OneSender /\ Alone
  BY DEF Init, OneSender, Alone, Sending, At, Idle, Active, FreeRow, Unresolved, Pending
<1>4. \A t \in Tasks : Fits(task[t])
  BY IdleFits DEF Init
<1>5. CopyTrue
  BY DEF Init, CopyTrue, IdleReader, At, Idle
<1> QED BY <1>1, <1>2, <1>3, <1>4, <1>5 DEF IInv

LEMMA StepInv == IInv /\ [Next]_vars => IInv'
<1> SUFFICES ASSUME IInv, [Next]_vars PROVE IInv'
  OBVIOUS
<1>1. ASSUME NEW t \in Tasks, Work(t) PROVE IInv'
  BY <1>1, InsertKeeps, CheckKeeps, DashboardKeeps, MaterialKeeps, DispatchKeeps, SendKeeps,
     ReplyKeeps, ReadbackKeeps, ObserveKeeps, FinalizeKeeps, ReleaseKeeps
  DEF Work
<1>2. ASSUME NEW t \in Tasks, Unavailable(t) \/ Crash(t) PROVE IInv'
  BY <1>2, UnavailableKeeps, CrashKeeps
<1>3. ASSUME NEW t \in Tasks, NEW op \in Operations, Claim(t, op) PROVE IInv'
  BY <1>3, ClaimKeeps
<1>4. ASSUME NEW t \in Tasks, NEW cb \in Callbacks, Prepare(t, cb) PROVE IInv'
  BY <1>4, PrepareKeeps
<1>5. ASSUME NEW op \in Operations, Confirm(op) \/ Cancel(op) \/ Expire(op) PROVE IInv'
  BY <1>5, ConfirmKeeps, CancelKeeps, ExpireKeeps
<1>6. ASSUME NEW op \in Operations,
             HandleReplace(op) \/ LoseReplace(op) \/ Succeed(op) \/ FailCommand(op)
      PROVE  IInv'
  BY <1>6, HandleReplaceKeeps, LoseReplaceKeeps, SucceedKeeps, FailCommandKeeps
<1>7. CASE Disturb
  BY <1>7, DisturbKeeps
<1>8. CASE UNCHANGED vars
  <2>1. UNCHANGED <<version, ready, issued, copy, alive, reader, rows, bound, lease>>
    BY <1>8 DEF vars, projection, journal
  <2>2. UNCHANGED <<task, scope, trouble, cmd, inflight, posts, slips>>
    BY <1>8 DEF vars, remote
  <2>3. TypeOK'
    BY <2>1, <2>2 DEF IInv, TypeOK, ProjectionTypeOK
  <2>4. copy' >= copy
    BY <2>1, Copies
  <2> QED BY <2>1, <2>2, <2>3, <2>4, Copies, OutsideMoves
<1> QED BY <1>1, <1>2, <1>3, <1>4, <1>5, <1>6, <1>7, <1>8 DEF Next

\* The journal, the locals of every worker and what SaaS has been asked agree
\* in every reachable state.
THEOREM InvariantHolds == Spec => []IInv
BY InitInv, StepInv, PTL DEF Spec

\* Every variable keeps its type.
THEOREM TypeCorrect == Spec => []TypeOK
<1>1. IInv => TypeOK
  BY DEF IInv
<1> QED BY <1>1, InvariantHolds, PTL

\* However often the worker is cancelled, overtaken or started again on the
\* same row, it sends the replacement request of an operation at most once.
THEOREM SentOnce == Spec => []ReplacedOnce
<1>1. IInv => ReplacedOnce
  BY DEF IInv, ReplacedOnce, RequestTrue
<1> QED BY <1>1, InvariantHolds, PTL

\* The replay of a cancelled or stale confirmation rotates no credentials.
THEOREM WithdrawnStays == Spec => []WithdrawnUnsent
<1>1. IInv => WithdrawnUnsent
  BY DEF IInv, WithdrawnUnsent, RowTrue, Sending, Unmarked
<1> QED BY <1>1, InvariantHolds, PTL

\* While a request may still rotate the credentials, the row of its operation
\* is active, and the journal has one active row.
THEOREM OneRotation == Spec => []OneAtWork
<1>1. ASSUME IInv, NEW op \in Operations, AtWork(op) PROVE op \in Active
  <2>1. rows[op].phase \in Unmarked \cup Marked
    BY <1>1 DEF IInv, TypeOK, Row, Phases, Unresolved, Pending, Unmarked, Marked
  <2>2. RowTrue(op) /\ RequestTrue(op)
    BY <1>1 DEF IInv
  <2>3. posts[op] # 0 \/ \E t \in Tasks : Sending(t, op)
    BY <1>1, <2>2 DEF AtWork, RequestTrue, Sending
  <2>4. rows[op].phase \in Marked
    BY <2>1, <2>2, <2>3 DEF RowTrue
  <2>5. ~Finished(op)
    BY <1>1, <2>2 DEF AtWork, RequestTrue, Finished, Sending
  <2> QED BY <2>2, <2>4, <2>5 DEF RowTrue, Marked, Active, Unresolved, Pending
<1>2. IInv => OneAtWork
  BY <1>1 DEF IInv, Alone, OneAtWork
<1> QED BY <1>2, InvariantHolds, PTL

\* A replacement shown as done is the one that SaaS carried out for this
\* operation, and the key row holds its credentials or newer ones.
THEOREM DoneOwn == Spec => []DoneIsOwn
<1>1. IInv => DoneIsOwn
  BY DEF IInv, DoneIsOwn, RowTrue
<1> QED BY <1>1, InvariantHolds, PTL

-----------------------------------------------------------------------------
(* The key row implements its promise                                      *)

PromiseStep == Promise!Next \/ UNCHANGED <<issued, copy, alive>>

\* SaaS issues a version that is newer than all, or has been issued already.
LEMMA IssueStep ==
    ASSUME IInv, MakeReady, UNCHANGED <<copy, alive>>
    PROVE  PromiseStep
<1>1. version \in Versions \ {0} /\ issued' = issued \cup {version}
  BY DEF IInv, TypeOK, ProjectionTypeOK, CopyTrue, MakeReady, Versions
<1>2. CASE version \in issued
  <2>1. issued' = issued
    BY <1>1, <1>2
  <2> QED BY <2>1 DEF PromiseStep
<1>3. CASE version \notin issued
  <2>1. \A w \in issued : w < version
    BY <1>3, Copies
  <2> QED BY <1>1, <2>1 DEF PromiseStep, Promise!Next, Promise!Issue
<1> QED BY <1>2, <1>3

LEMMA CopyStep ==
    ASSUME NEW v, v \in issued, MayApply(v), Apply(v), UNCHANGED <<issued, alive>>
    PROVE  PromiseStep
BY DEF MayApply, Apply, PromiseStep, Promise!Next, Promise!Copy

\* The only writer of the journal's tasks is the end of a replacement.
LEMMA WorkStep == ASSUME IInv, NEW t \in Tasks, Work(t) PROVE PromiseStep
<1>1. CASE Finalize(t)
  <2>1. UNCHANGED <<issued, alive>>
    BY <1>1 DEF Finalize
  <2>2. CASE copy' = copy
    BY <2>1, <2>2 DEF PromiseStep
  <2>3. CASE copy' # copy
    <3> DEFINE v == rows[task[t].op].base + 1
    <3>1. Apply(v) /\ MayApply(v)
      BY <1>1, <2>3 DEF Finalize
    <3>2. Fits(task[t]) /\ task[t].want \in issued /\ task[t].pc = "finalize"
      BY <1>1 DEF IInv, CopyTrue, Finalize, At
    <3>3. v \in issued
      BY <3>2 DEF Fits
    <3> QED BY <2>1, <3>1, <3>3, CopyStep
  <2> QED BY <2>2, <2>3
<1>2. CASE ~Finalize(t)
  BY <1>2 DEF Work, Insert, Check, Dashboard, Material, Dispatch, Send, Reply, Readback,
              Observe, Release, Quiet, projection, PromiseStep
<1> QED BY <1>1, <1>2

LEMMA DisturbStep == ASSUME IInv, Disturb PROVE PromiseStep
<1>1. CASE Rotate
  BY <1>1 DEF Rotate, PromiseStep
<1>2. CASE Materialise
  BY <1>2, IssueStep DEF Materialise
<1>3. CASE RemoveKey
  BY <1>3 DEF RemoveKey, PromiseStep, Promise!Next, Promise!Remove
<1>4. ASSUME NEW r \in Readers, ReturnNext(r) PROVE PromiseStep
  <2>1. CASE ProjectReady(r)
    <3>1. reader[r].seen \in issued
      BY <2>1 DEF ProjectReady, IInv, CopyTrue
    <3>2. UNCHANGED <<issued, alive>>
      BY <2>1 DEF ProjectReady
    <3>3. CASE copy' = copy
      BY <3>2, <3>3 DEF PromiseStep
    <3>4. CASE copy' # copy
      <4>1. MayApply(reader[r].seen) /\ Apply(reader[r].seen)
        BY <2>1, <3>4 DEF ProjectReady
      <4> QED BY <3>1, <3>2, <4>1, CopyStep
    <3> QED BY <3>3, <3>4
  <2>2. CASE ~ProjectReady(r)
    BY <1>4, <2>2 DEF ReturnNext, ReadDashboard, ReadMaterial, DropReturn, PromiseStep
  <2> QED BY <2>1, <2>2
<1>5. CASE UNCHANGED projection
  BY <1>5 DEF projection, PromiseStep
<1> QED BY <1>1, <1>2, <1>3, <1>4, <1>5 DEF Disturb

\* Replacements, payment returns, rotations from other channels and the removal
\* of the key together write only issued credentials into the key row, never
\* older ones than it holds, and nothing after the removal.
THEOREM CopyImplemented == Spec => CopyLags
<1>1. Init => Promise!Init
  BY DEF Init, Promise!Init
<1>2. IInv /\ [Next]_vars => [Promise!Next]_<<issued, copy, alive>>
  <2> SUFFICES ASSUME IInv, [Next]_vars PROVE PromiseStep
    BY DEF PromiseStep
  <2>1. ASSUME NEW t \in Tasks, Work(t) PROVE PromiseStep
    BY <2>1, WorkStep
  <2>2. ASSUME NEW t \in Tasks,
               \/ Unavailable(t) \/ Crash(t)
               \/ \E op \in Operations : Claim(t, op)
               \/ \E cb \in Callbacks : Prepare(t, cb)
        PROVE  PromiseStep
    BY <2>2 DEF Unavailable, Crash, Claim, Prepare, projection, PromiseStep
  <2>3. ASSUME NEW op \in Operations, Succeed(op) PROVE PromiseStep
    BY <2>3, IssueStep DEF Succeed, PromiseStep
  <2>4. ASSUME NEW op \in Operations,
               \/ Confirm(op) \/ Cancel(op) \/ Expire(op)
               \/ HandleReplace(op) \/ LoseReplace(op) \/ FailCommand(op)
        PROVE  PromiseStep
    BY <2>4 DEF Confirm, Cancel, Expire, HandleReplace, LoseReplace, FailCommand, projection,
                PromiseStep
  <2>5. CASE Disturb
    BY <2>5, DisturbStep
  <2>6. CASE UNCHANGED vars
    BY <2>6 DEF vars, projection, PromiseStep
  <2> QED BY <2>1, <2>2, <2>3, <2>4, <2>5, <2>6 DEF Next
<1> QED BY <1>1, <1>2, InvariantHolds, PTL DEF Spec, CopyLags, Promise!Spec
=============================================================================
