-------------------------- MODULE ProvisioningProofs --------------------------
(***************************************************************************)
(* The safety of ProvisioningProps for any number of operations, messages, *)
(* tasks, versions and slips.                                              *)
(***************************************************************************)
EXTENDS ProvisioningProps, TLAPS

-----------------------------------------------------------------------------
(* Phases and their ranks                                                  *)

LEMMA RankedIs ==
    /\ DOMAIN Ranked = 1..8
    /\ Ranked[1] = "PREPARED" /\ Ranked[2] = "USER_DISPATCHED" /\ Ranked[3] = "USER_SYNCED"
    /\ Ranked[4] = "SHADOW_DISPATCHED" /\ Ranked[5] = "SUBMIT_READY"
    /\ Ranked[6] = "SUBMIT_DISPATCHED" /\ Ranked[7] = "OBSERVED" /\ Ranked[8] = "DONE"
BY DEF Ranked

LEMMA PhaseSet ==
    Phases = {"FREE", "PREPARED", "USER_DISPATCHED", "USER_SYNCED", "SHADOW_DISPATCHED",
              "SUBMIT_READY", "SUBMIT_DISPATCHED", "OBSERVED", "DONE"}
<1>1. \A i : i \in 1..8 <=> i \in {1, 2, 3, 4, 5, 6, 7, 8}
  OBVIOUS
<1> QED BY <1>1, RankedIs DEF Phases

LEMMA RankAt ==
    ASSUME NEW i \in 1..8, \A j \in 1..8 : Ranked[j] = Ranked[i] => j = i, Ranked[i] # "FREE"
    PROVE  Rank(Ranked[i]) = i
<1>1. (CHOOSE j \in DOMAIN Ranked : Ranked[j] = Ranked[i]) = i
  BY RankedIs
<1> QED BY <1>1 DEF Rank

LEMMA RankIs ==
    /\ Rank("FREE") = 0 /\ Rank("PREPARED") = 1 /\ Rank("USER_DISPATCHED") = 2
    /\ Rank("USER_SYNCED") = 3 /\ Rank("SHADOW_DISPATCHED") = 4 /\ Rank("SUBMIT_READY") = 5
    /\ Rank("SUBMIT_DISPATCHED") = 6 /\ Rank("OBSERVED") = 7 /\ Rank("DONE") = 8
<1>1. Rank("FREE") = 0
  BY DEF Rank
<1>2. \A i, j \in 1..8 : Ranked[j] = Ranked[i] => j = i
  <2>1. \A i : i \in 1..8 <=> i \in {1, 2, 3, 4, 5, 6, 7, 8}
    OBVIOUS
  <2> QED BY <2>1, RankedIs
<1>3. \A i \in 1..8 : Ranked[i] # "FREE"
  <2>1. \A i : i \in 1..8 <=> i \in {1, 2, 3, 4, 5, 6, 7, 8}
    OBVIOUS
  <2> QED BY <2>1, RankedIs
<1>4. \A i \in 1..8 : Rank(Ranked[i]) = i
  BY <1>2, <1>3, RankAt
<1>5. 1 \in 1..8 /\ 2 \in 1..8 /\ 3 \in 1..8 /\ 4 \in 1..8 /\ 5 \in 1..8 /\ 6 \in 1..8
      /\ 7 \in 1..8 /\ 8 \in 1..8
  OBVIOUS
<1> QED BY <1>1, <1>4, <1>5, RankedIs

LEMMA RankNat == \A p \in Phases : Rank(p) \in Nat
BY PhaseSet, RankIs

LEMMA KindIs ==
    /\ KindOf("USER_DISPATCHED") = "user" /\ KindOf("SHADOW_DISPATCHED") = "shadow"
    /\ KindOf("SUBMIT_DISPATCHED") = "create"
    /\ Mark("user") = 2 /\ Mark("shadow") = 4 /\ Mark("create") = 6
BY DEF KindOf, Mark

-----------------------------------------------------------------------------
(* Locals of a task, and rows                                              *)

LEMMA LabelLiterals ==
    /\ "idle" \in Labels /\ "check" \in Labels /\ "dispatch" \in Labels /\ "send" \in Labels
    /\ "reply" \in Labels /\ "readUser" \in Labels /\ "syncUser" \in Labels
    /\ "readShadow" \in Labels /\ "submitReady" \in Labels /\ "readback" \in Labels
    /\ "observe" \in Labels /\ "readAccess" \in Labels /\ "material" \in Labels
    /\ "finalize" \in Labels /\ "release" \in Labels
BY DEF Labels

LEMMA StatusLiterals ==
    /\ "PENDING" \in Statuses /\ "FAILED" \in Statuses /\ "TIMEOUT" \in Statuses
    /\ "MANUAL_REVIEW" \in Statuses /\ "DONE" \in Statuses
BY DEF Statuses

LEMMA PhaseLiterals ==
    /\ "FREE" \in Phases /\ "PREPARED" \in Phases /\ "USER_DISPATCHED" \in Phases
    /\ "USER_SYNCED" \in Phases /\ "SHADOW_DISPATCHED" \in Phases /\ "SUBMIT_READY" \in Phases
    /\ "SUBMIT_DISPATCHED" \in Phases /\ "OBSERVED" \in Phases /\ "DONE" \in Phases
BY PhaseSet

\* A task goes to a label; ends with a verdict; binds an owner; has seen a
\* version; advances with its row.
LEMMA GoesForm == ASSUME NEW r \in Task, NEW l \in Labels PROVE [r EXCEPT !.pc = l] \in Task
BY DEF Task

LEMMA EndsForm ==
    ASSUME NEW r \in Task, NEW l \in Labels, NEW v \in Statuses
    PROVE  [r EXCEPT !.pc = l, !.verdict = v] \in Task
BY DEF Task

LEMMA BindsForm ==
    ASSUME NEW r \in Task, NEW l \in Labels, NEW o \in Owners \cup {None}
    PROVE  [r EXCEPT !.pc = l, !.owner = o] \in Task
BY DEF Task

LEMMA SeesForm ==
    ASSUME NEW r \in Task, NEW l \in Labels, NEW v \in Versions
    PROVE  [r EXCEPT !.pc = l, !.seen = v] \in Task
BY DEF Task

LEMMA AdvancesForm ==
    ASSUME NEW r \in Task, NEW l \in Labels, NEW p \in Phases, NEW o \in Owners \cup {None}
    PROVE  [r EXCEPT !.pc = l, !.phase = p, !.owner = o] \in Task
BY DEF Task

LEMMA ClaimsForm ==
    ASSUME NEW r \in Task, NEW l \in Labels, NEW op \in Operations, NEW p \in Phases,
           NEW o \in Owners \cup {None}
    PROVE  [r EXCEPT !.pc = l, !.op = op, !.phase = p, !.owner = o] \in Task
BY DEF Task

LEMMA IdleTask == Idle \in Task
BY ProvisioningAssumption, LabelLiterals, PhaseLiterals, StatusLiterals DEF Task, Idle

LEMMA FreeRowIs == FreeRow \in Row
BY PhaseLiterals, StatusLiterals DEF FreeRow, Row

-----------------------------------------------------------------------------
(* Frames                                                                  *)

LEMMA Moved ==
    ASSUME TypeOK, NEW t \in Tasks, NEW r, Become(t, r)
    PROVE  \A u \in Tasks : task'[u] = IF u = t THEN r ELSE task[u]
BY DEF TypeOK, Become

LEMMA MovedType ==
    ASSUME TypeOK, NEW t \in Tasks, NEW r \in Task, Become(t, r)
    PROVE  task' \in [Tasks -> Task]
BY DEF TypeOK, Become

LEMMA RowTypes ==
    ASSUME TypeOK, NEW op \in Operations
    PROVE  /\ rows[op] \in Row /\ rows[op].phase \in Phases /\ rows[op].status \in Statuses
           /\ rows[op].owner \in Owners \cup {None} /\ Rank(rows[op].phase) \in Nat
BY RankNat DEF TypeOK, Row

\* Rows never go back, nor does what SaaS did for them.
Onward ==
    \A op \in Operations :
        /\ Rank(rows[op].phase) <= Rank(rows'[op].phase)
        /\ Rank(rows[op].phase) >= 3 => rows'[op].owner = rows[op].owner
        /\ access[op] # "none" => access'[op] # "none"
        /\ access[op] = "managed" => access'[op] = "managed"
        /\ issued[op] \subseteq issued'[op]

RowsOnward ==
    \A op \in Operations :
        /\ Rank(rows[op].phase) <= Rank(rows'[op].phase)
        /\ Rank(rows[op].phase) >= 3 => rows'[op].owner = rows[op].owner

LEMMA SameRowsOnward == ASSUME TypeOK, UNCHANGED rows PROVE RowsOnward
BY RowTypes DEF RowsOnward

LEMMA SameIsOnward ==
    ASSUME TypeOK, UNCHANGED <<rows, access, issued>>
    PROVE  Onward
BY RowTypes DEF Onward

LEMMA FitsStay ==
    ASSUME TypeOK, TypeOK', NEW r \in Task, Fits(r), Onward
    PROVE  Fits(r)'
<1>1. CASE r.pc # "idle"
  <2>1. r.op \in Operations /\ Rank(r.phase) \in Nat
    BY <1>1, RankNat DEF Fits, Task
  <2>2. Rank(rows[r.op].phase) \in Nat /\ Rank(rows'[r.op].phase) \in Nat
    BY <2>1, RankNat DEF TypeOK, Row
  <2>3. Rank(r.phase) <= Rank(rows[r.op].phase)
    BY <1>1 DEF Fits
  <2>4. Rank(r.phase) <= Rank(rows'[r.op].phase)
    BY <2>1, <2>2, <2>3 DEF Onward
  <2>5. Rank(r.phase) >= 3 => r.owner = rows'[r.op].owner
    BY <1>1, <2>1, <2>2, <2>3 DEF Onward, Fits
  <2> QED BY <1>1, <2>1, <2>4, <2>5 DEF Fits, Onward
<1>2. CASE r.pc = "idle"
  BY <1>2 DEF Fits
<1> QED BY <1>1, <1>2

\* All tasks fit after one of them has become r.
LEMMA FitsMoved ==
    ASSUME IInv, TypeOK', NEW t \in Tasks, NEW r \in Task, Become(t, r), Fits(r)', Onward
    PROVE  \A u \in Tasks : Fits(task[u])'
<1> SUFFICES ASSUME NEW u \in Tasks PROVE Fits(task[u])'
  OBVIOUS
<1>1. task'[u] = IF u = t THEN r ELSE task[u]
  BY Moved DEF IInv
<1>2. CASE u = t
  BY <1>1, <1>2 DEF Fits
<1>3. CASE u # t
  <2>1. PICK old \in Task : old = task[u]
    BY DEF IInv, TypeOK
  <2>2. Fits(old)
    BY <2>1 DEF IInv
  <2>3. Fits(old)'
    BY <2>2, FitsStay DEF IInv
  <2>4. task'[u] = old
    BY <1>1, <1>3, <2>1
  <2> QED BY <2>3, <2>4 DEF Fits
<1> QED BY <1>2, <1>3

\* Who is about to send has its mark on the row.
LEMMA SenderMarked ==
    ASSUME IInv, NEW t \in Tasks, NEW kind \in Kinds, NEW op \in Operations, Sending(t, kind, op)
    PROVE  Rank(rows[op].phase) >= Mark(kind)
<1>1. /\ Fits(task[t]) /\ task[t].pc = "send" /\ task[t].op = op
      /\ KindOf(task[t].phase) = kind
  BY DEF IInv, Sending, At
<1>2. /\ task[t].phase \in {"USER_DISPATCHED", "SHADOW_DISPATCHED", "SUBMIT_DISPATCHED"}
      /\ Rank(task[t].phase) <= Rank(rows[op].phase)
  BY <1>1 DEF Fits
<1>3. Rank(task[t].phase) = Mark(kind)
  BY <1>1, <1>2, KindIs, RankIs
<1>4. Rank(rows[op].phase) \in Nat
  BY RowTypes DEF IInv
<1> QED BY <1>2, <1>3, <1>4, KindIs DEF Kinds

\* A task goes on, but not to send, and what it now holds agrees with the rest.
LEMMA TaskMoves ==
    ASSUME IInv, TypeOK', NEW t \in Tasks, NEW r \in Task, Become(t, r), r.pc # "send", Fits(r),
           UNCHANGED <<rows, access, version, ready, issued, inflight, posts>>,
           \A op \in Operations : rows[op].phase \in {"FREE", "DONE"} => lease'[op] = None
    PROVE  IInv'
<1>1. \A u \in Tasks : task'[u] = IF u = t THEN r ELSE task[u]
  BY Moved DEF IInv
<1>2. \A u \in Tasks, kind \in Kinds, op \in Operations :
         Sending(u, kind, op)' => Sending(u, kind, op)
  BY <1>1 DEF Sending, At
<1>3. Onward
  BY SameIsOnward DEF IInv
<1>4. Fits(r)'
  BY <1>3, FitsStay DEF IInv
<1>5. \A u \in Tasks : Fits(task[u])'
  BY <1>3, <1>4, FitsMoved
<1>6. \A op \in Operations : RowTrue(op)' /\ AccessTrue(op)'
  BY DEF IInv, RowTrue, AccessTrue
<1>7. \A op \in Operations, kind \in Kinds : RequestTrue(kind, op)'
  BY <1>2 DEF IInv, RequestTrue
<1>8. OneSender' /\ Alone'
  BY <1>2 DEF IInv, OneSender, Alone, Unresolved
<1> QED BY <1>5, <1>6, <1>7, <1>8 DEF IInv

\* A task moves on by itself, at the price of a slip or of none.
Alike == UNCHANGED <<journal, scope, saas, network, late, trouble>> /\ (UNCHANGED slips \/ Slip)

LEMMA AlikeMoves ==
    ASSUME IInv, Alike, NEW t \in Tasks, NEW r \in Task, Become(t, r), r.pc # "send", Fits(r)
    PROVE  IInv'
<1>1. /\ UNCHANGED <<rows, lease, alive, copy, scope, link, known, access, failed>>
      /\ UNCHANGED <<version, ready, issued, inflight, posts, late, trouble>>
  BY DEF Alike, journal, saas, network
<1>2. slips' \in 0..trouble.slips
  <2>1. trouble.slips \in Nat /\ slips \in 0..trouble.slips
    BY TroublesAssumption DEF IInv, TypeOK
  <2> QED BY <2>1 DEF Alike, Slip
<1>3. task' \in [Tasks -> Task]
  BY MovedType DEF IInv
<1>4. TypeOK'
  BY <1>1, <1>2, <1>3 DEF IInv, TypeOK
<1>5. \A op \in Operations : rows[op].phase \in {"FREE", "DONE"} => lease'[op] = None
  BY <1>1 DEF IInv, RowTrue
<1> QED BY <1>1, <1>4, <1>5, TaskMoves

LEMMA QuietIsAlike == Quiet => Alike
BY DEF Quiet, Outside, Alike

LEMMA IdleFits == Idle.pc = "idle" /\ Fits(Idle)
BY DEF Idle, Fits

\* One row changes and one task moves with it.  Who is about to send has just
\* written its mark.
LEMMA RowMoves ==
    ASSUME IInv, TypeOK', Onward, NEW op \in Operations, NEW t \in Tasks, NEW r \in Task,
           Become(t, r), Fits(r)',
           UNCHANGED <<access, version, ready, issued, inflight, posts>>,
           \A o \in Operations \ {op} : rows'[o] = rows[o] /\ lease'[o] = lease[o],
           RowTrue(op)',
           op \in Unresolved \/ rows'[op].status = "DONE",
           r.pc = "send" => /\ r.op = op
                            /\ Rank(rows[op].phase) < Mark(KindOf(r.phase))
                            /\ Rank(rows'[op].phase) >= Mark(KindOf(r.phase))
    PROVE  IInv'
<1>1. \A u \in Tasks : task'[u] = IF u = t THEN r ELSE task[u]
  BY Moved DEF IInv
<1>2. \A u \in Tasks, kind \in Kinds, o \in Operations :
         Sending(u, kind, o)' =>
            \/ Sending(u, kind, o)
            \/ u = t /\ o = op /\ Rank(rows[op].phase) < Mark(kind)
  BY <1>1 DEF Sending, At
<1>3. \A u \in Tasks : Fits(task[u])'
  BY FitsMoved
<1>4. \A o \in Operations : RowTrue(o)'
  BY DEF IInv, RowTrue
<1>5. \A o \in Operations : AccessTrue(o)'
  BY DEF IInv, AccessTrue
<1>6. \A o \in Operations, kind \in Kinds : RequestTrue(kind, o)'
  <2> SUFFICES ASSUME NEW o \in Operations, NEW kind \in Kinds PROVE RequestTrue(kind, o)'
    OBVIOUS
  <2>1. Rank(rows[o].phase) \in Nat /\ Rank(rows'[o].phase) \in Nat
    BY RankNat DEF IInv, TypeOK, Row
  <2>2. Rank(rows[o].phase) <= Rank(rows'[o].phase)
    BY DEF Onward
  <2>3. Mark(kind) \in Nat
    BY KindIs DEF Kinds
  <2>4. Rank(rows'[o].phase) < Mark(kind) => Rank(rows[o].phase) < Mark(kind)
    BY <2>1, <2>2, <2>3
  <2>5. RequestTrue(kind, o)
    BY DEF IInv
  <2> QED BY <1>2, <2>4, <2>5 DEF RequestTrue
<1>7. OneSender'
  <2> SUFFICES ASSUME NEW o \in Operations, NEW kind \in Kinds, NEW u \in Tasks, NEW v \in Tasks,
                      Sending(u, kind, o)', Sending(v, kind, o)'
               PROVE  u = v
    BY DEF OneSender
  <2>1. \/ Sending(u, kind, o)
        \/ u = t /\ o = op /\ Rank(rows[op].phase) < Mark(kind)
    BY <1>2
  <2>2. \/ Sending(v, kind, o)
        \/ v = t /\ o = op /\ Rank(rows[op].phase) < Mark(kind)
    BY <1>2
  <2>3. Mark(kind) \in Nat /\ Rank(rows[o].phase) \in Nat
    BY KindIs, RowTypes DEF Kinds, IInv
  <2>4. CASE Sending(u, kind, o) /\ Sending(v, kind, o)
    BY <2>4 DEF IInv, OneSender
  <2>5. CASE o = op /\ Rank(rows[op].phase) < Mark(kind)
    <3>1. ~Sending(u, kind, o) /\ ~Sending(v, kind, o)
      BY <2>3, <2>5, SenderMarked
    <3> QED BY <2>1, <2>2, <3>1
  <2> QED BY <2>1, <2>2, <2>4, <2>5
<1>8. Alone'
  BY DEF IInv, Alone, Unresolved, RowTrue
<1> QED BY <1>3, <1>4, <1>5, <1>6, <1>7, <1>8 DEF IInv

\* What a task at work knows.
LEMMA Works ==
    ASSUME IInv, NEW t \in Tasks
    PROVE  /\ task[t] \in Task /\ Fits(task[t])
           /\ task[t].pc # "idle" =>
                 task[t].op \in Operations /\ task[t].phase \in Phases \ {"FREE", "DONE"}
BY DEF IInv, TypeOK, Fits, Task

-----------------------------------------------------------------------------
(* The steps of a task that write nothing                                  *)

LEMMA StopKeeps ==
    ASSUME IInv, Alike, NEW t \in Tasks, Stop(t)
    PROVE  IInv'
BY IdleTask, IdleFits, AlikeMoves DEF Stop

LEMMA ConcludeKeeps ==
    ASSUME IInv, Alike, NEW t \in Tasks, task[t].pc \notin {"idle", "syncUser"},
           NEW s \in Statuses, s # "DONE", Conclude(t, s)
    PROVE  IInv'
<1> DEFINE q == [task[t] EXCEPT !.pc = "release", !.verdict = s]
<1>1. task[t] \in Task /\ Fits(task[t])
  BY Works
<1>2. q \in Task
  BY <1>1, EndsForm, LabelLiterals
<1>3. /\ q.pc = "release" /\ q.verdict = s /\ q.op = task[t].op /\ q.phase = task[t].phase
      /\ q.owner = task[t].owner
  BY <1>1 DEF Task
<1>4. Fits(q)
  BY <1>1, <1>3 DEF Fits
<1>5. Become(t, q)
  BY DEF Conclude
<1> HIDE DEF q
<1> QED BY <1>2, <1>3, <1>4, <1>5, AlikeMoves

LEMMA LaterKeeps ==
    ASSUME IInv, Alike, NEW t \in Tasks, task[t].pc \notin {"idle", "syncUser"}, Later(t)
    PROVE  IInv'
<1>1. Conclude(t, "PENDING") \/ Conclude(t, "TIMEOUT")
  BY DEF Later, Unfinished
<1> QED BY <1>1, ConcludeKeeps, StatusLiterals

\* A task hops to a label that its phase and what it knows permit.
LEMMA HopKeeps ==
    ASSUME IInv, Alike, NEW t \in Tasks, task[t].pc \notin {"idle", "syncUser"},
           NEW l \in Labels \ {"send", "idle", "reply"}, Goto(t, l),
           l = "dispatch" => task[t].phase \in {"PREPARED", "USER_SYNCED", "SUBMIT_READY"},
           l \in {"readUser", "syncUser"} => task[t].phase = "USER_DISPATCHED",
           l \in {"readShadow", "submitReady"} => task[t].phase = "SHADOW_DISPATCHED",
           l = "submitReady" => access[task[t].op] # "none",
           l \in {"readback", "observe"} => task[t].phase \in {"SUBMIT_DISPATCHED", "OBSERVED"},
           l \in {"readAccess", "material", "finalize"} => task[t].phase = "OBSERVED",
           l \in {"observe", "readAccess", "material", "finalize"} =>
                access[task[t].op] = "managed",
           l = "finalize" => task[t].seen \in issued[task[t].op]
    PROVE  IInv'
<1> DEFINE q == [task[t] EXCEPT !.pc = l]
<1>1. task[t] \in Task /\ Fits(task[t])
  BY Works
<1>2. q \in Task
  BY <1>1, GoesForm
<1>3. /\ q.pc = l /\ q.op = task[t].op /\ q.phase = task[t].phase /\ q.owner = task[t].owner
      /\ q.verdict = task[t].verdict /\ q.seen = task[t].seen
  BY <1>1 DEF Task
<1>4. Fits(q)
  BY <1>1, <1>3 DEF Fits
<1>5. Become(t, q)
  BY DEF Goto
<1> HIDE DEF q
<1> QED BY <1>2, <1>3, <1>4, <1>5, AlikeMoves

\* A row is taken up where its phase left it.
LEMMA TakeUpKeeps ==
    ASSUME IInv, Alike, NEW t \in Tasks, task[t].pc \notin {"idle", "syncUser"},
           Goto(t, TakeUp(task[t].phase))
    PROVE  IInv'
<1>1. task[t].phase \in {"PREPARED", "USER_DISPATCHED", "USER_SYNCED", "SHADOW_DISPATCHED",
                         "SUBMIT_READY", "SUBMIT_DISPATCHED", "OBSERVED"}
  BY Works, PhaseSet
<1>2. CASE /\ task[t].phase \in {"PREPARED", "USER_SYNCED", "SUBMIT_READY"}
           /\ TakeUp(task[t].phase) = "dispatch"
  BY <1>2, HopKeeps, LabelLiterals
<1>3. CASE task[t].phase = "USER_DISPATCHED" /\ TakeUp(task[t].phase) = "readUser"
  BY <1>3, HopKeeps, LabelLiterals
<1>4. CASE task[t].phase = "SHADOW_DISPATCHED" /\ TakeUp(task[t].phase) = "readShadow"
  BY <1>4, HopKeeps, LabelLiterals
<1>5. CASE /\ task[t].phase \in {"SUBMIT_DISPATCHED", "OBSERVED"}
           /\ TakeUp(task[t].phase) = "readback"
  BY <1>5, HopKeeps, LabelLiterals
<1> QED BY <1>1, <1>2, <1>3, <1>4, <1>5 DEF TakeUp

LEMMA CheckKeeps == ASSUME IInv, NEW t \in Tasks, Check(t) PROVE IInv'
<1>1. task[t].pc = "check" /\ Alike
  BY QuietIsAlike DEF Check, At
<1> QED BY <1>1, ConcludeKeeps, TakeUpKeeps, StatusLiterals DEF Check

LEMMA ReplyKeeps == ASSUME IInv, NEW t \in Tasks, Reply(t) PROVE IInv'
<1>1. task[t].pc = "reply" /\ Alike
  BY QuietIsAlike DEF Reply, At
<1> QED BY <1>1, LaterKeeps, TakeUpKeeps DEF Reply

LEMMA ReadUserKeeps == ASSUME IInv, NEW t \in Tasks, ReadUser(t) PROVE IInv'
<1>1. task[t].pc = "readUser" /\ Alike
  BY QuietIsAlike DEF ReadUser, At
<1>2. CASE Later(t) \/ Conclude(t, "MANUAL_REVIEW")
  BY <1>1, <1>2, LaterKeeps, ConcludeKeeps, StatusLiterals
<1>3. CASE Become(t, [task[t] EXCEPT !.pc = "syncUser", !.owner = link])
  <2> DEFINE q == [task[t] EXCEPT !.pc = "syncUser", !.owner = link]
  <2>1. task[t] \in Task /\ Fits(task[t]) /\ link \in Owners
    BY Works DEF IInv, TypeOK
  <2>2. q \in Task
    BY <2>1, BindsForm, LabelLiterals
  <2>3. /\ q.pc = "syncUser" /\ q.op = task[t].op /\ q.phase = task[t].phase
        /\ q.verdict = task[t].verdict
    BY <2>1 DEF Task
  <2>4. q.phase = "USER_DISPATCHED"
    BY <1>1, <2>1, <2>3 DEF Fits
  <2>5. Fits(q)
    BY <1>1, <2>1, <2>3, <2>4, RankIs DEF Fits
  <2> HIDE DEF q
  <2> QED BY <1>1, <1>3, <2>2, <2>3, <2>5, AlikeMoves DEF q
<1> QED BY <1>2, <1>3 DEF ReadUser

LEMMA ReadShadowKeeps == ASSUME IInv, NEW t \in Tasks, ReadShadow(t) PROVE IInv'
<1>1. task[t].pc = "readShadow" /\ Alike
  BY QuietIsAlike DEF ReadShadow, At
<1>2. CASE Conclude(t, "MANUAL_REVIEW")
  BY <1>1, <1>2, ConcludeKeeps, StatusLiterals
<1>3. CASE access[task[t].op] = "legacy" /\ Goto(t, "submitReady")
  <2>1. task[t].phase = "SHADOW_DISPATCHED"
    BY <1>1, Works DEF Fits
  <2> QED BY <1>1, <1>3, <2>1, HopKeeps, LabelLiterals
<1> QED BY <1>2, <1>3 DEF ReadShadow

LEMMA ReadbackKeeps == ASSUME IInv, NEW t \in Tasks, Readback(t) PROVE IInv'
<1>1. task[t].pc = "readback" /\ Alike
  BY QuietIsAlike DEF Readback, At
<1>2. CASE Later(t) \/ Conclude(t, "TIMEOUT") \/ Conclude(t, "MANUAL_REVIEW")
  BY <1>1, <1>2, LaterKeeps, ConcludeKeeps, StatusLiterals
<1>3. ASSUME access[task[t].op] = "managed", NEW s \in {"FAILED", "PENDING"},
             Become(t, [task[t] EXCEPT !.pc = "observe", !.verdict = s])
      PROVE  IInv'
  <2> DEFINE q == [task[t] EXCEPT !.pc = "observe", !.verdict = s]
  <2>1. task[t] \in Task /\ Fits(task[t])
    BY Works
  <2>2. q \in Task
    BY <1>3, <2>1, EndsForm, LabelLiterals, StatusLiterals
  <2>3. /\ q.pc = "observe" /\ q.op = task[t].op /\ q.phase = task[t].phase
        /\ q.verdict = s /\ q.owner = task[t].owner
    BY <2>1 DEF Task
  <2>4. Fits(q)
    BY <1>1, <1>3, <2>1, <2>3 DEF Fits
  <2>5. Become(t, q)
    BY <1>3
  <2> HIDE DEF q
  <2> QED BY <1>1, <2>2, <2>3, <2>4, <2>5, AlikeMoves
<1>4. CASE access[task[t].op] = "managed" /\ Become(t, [task[t] EXCEPT !.pc = "observe", !.verdict =
                            IF task[t].op \in failed THEN "FAILED" ELSE "PENDING"])
  <2>1. CASE task[t].op \in failed
    BY <1>3, <1>4, <2>1
  <2>2. CASE task[t].op \notin failed
    BY <1>3, <1>4, <2>2
  <2> QED BY <2>1, <2>2
<1> QED BY <1>2, <1>4 DEF Readback

LEMMA ReadAccessKeeps == ASSUME IInv, NEW t \in Tasks, ReadAccess(t) PROVE IInv'
<1>1. task[t].pc = "readAccess" /\ Alike
  BY QuietIsAlike DEF ReadAccess, At
<1>2. CASE Conclude(t, "MANUAL_REVIEW")
  BY <1>1, <1>2, ConcludeKeeps, StatusLiterals
<1>3. CASE Become(t, [task[t] EXCEPT !.pc = "material",
                        !.seen = IF ready[task[t].op] THEN version[task[t].op] ELSE 0])
  <2> DEFINE v == IF ready[task[t].op] THEN version[task[t].op] ELSE 0
             q == [task[t] EXCEPT !.pc = "material", !.seen = v]
  <2>1. task[t] \in Task /\ Fits(task[t]) /\ task[t].op \in Operations
    BY <1>1, Works
  <2>2. v \in Versions
    BY <2>1, ProvisioningAssumption DEF IInv, TypeOK
  <2>3. Become(t, q)
    BY <1>3
  <2> HIDE DEF v
  <2>4. q \in Task
    BY <2>1, <2>2, SeesForm, LabelLiterals
  <2>5. /\ q.pc = "material" /\ q.op = task[t].op /\ q.phase = task[t].phase
        /\ q.verdict = task[t].verdict /\ q.owner = task[t].owner
    BY <2>1 DEF Task
  <2>6. Fits(q)
    BY <1>1, <2>1, <2>5 DEF Fits
  <2> HIDE DEF q
  <2> QED BY <1>1, <2>3, <2>4, <2>5, <2>6, AlikeMoves
<1> QED BY <1>2, <1>3 DEF ReadAccess

LEMMA MaterialKeeps == ASSUME IInv, NEW t \in Tasks, Material(t) PROVE IInv'
<1>1. task[t].pc = "material" /\ Alike
  BY QuietIsAlike DEF Material, At
<1>2. CASE Later(t) \/ Conclude(t, "MANUAL_REVIEW")
  BY <1>1, <1>2, LaterKeeps, ConcludeKeeps, StatusLiterals
<1>3. CASE /\ ready[task[t].op] /\ version[task[t].op] = task[t].seen
           /\ Goto(t, "finalize")
  <2>1. task[t].phase = "OBSERVED" /\ access[task[t].op] = "managed" /\ task[t].op \in Operations
    BY <1>1, Works DEF Fits
  <2>2. task[t].seen \in issued[task[t].op]
    BY <1>3, <2>1 DEF IInv, AccessTrue
  <2> QED BY <1>1, <1>3, <2>1, <2>2, HopKeeps, LabelLiterals
<1> QED BY <1>2, <1>3 DEF Material

LEMMA UnavailableKeeps == ASSUME IInv, NEW t \in Tasks, Unavailable(t) PROVE IInv'
<1>1. task[t].pc \notin {"idle", "syncUser"} /\ Alike
  BY DEF Unavailable, Alike
<1> QED BY <1>1, LaterKeeps DEF Unavailable

LEMMA CrashKeeps == ASSUME IInv, NEW t \in Tasks, Crash(t) PROVE IInv'
BY StopKeeps DEF Crash, Alike

-----------------------------------------------------------------------------
(* The steps of a task that write the journal or send                      *)

LEMMA ClaimKeeps ==
    ASSUME IInv, NEW t \in Tasks, NEW op \in Operations, Claim(t, op)
    PROVE  IInv'
<1> DEFINE p == rows[op].phase
           o == rows[op].owner
           q == [Idle EXCEPT !.pc = "check", !.op = op, !.phase = p, !.owner = o]
<1>1. /\ UNCHANGED <<rows, alive, copy, scope, link, known, access, failed>>
      /\ UNCHANGED <<version, ready, issued, inflight, posts, late, trouble, slips>>
  BY DEF Claim, Outside, saas, network
<1>2. /\ p \in Phases \ {"FREE", "DONE"} /\ o \in Owners \cup {None}
      /\ Rank(p) \in Nat /\ (Rank(p) < 3 => o = None)
  BY RowTypes DEF Claim, IInv, RowTrue
<1>3. Become(t, q) /\ lease' = [lease EXCEPT ![op] = t]
  BY DEF Claim
<1>4. p = rows[op].phase /\ o = rows[op].owner
  OBVIOUS
<1> HIDE DEF p, o
<1>5. q \in Task
  BY <1>2, IdleTask, ClaimsForm, LabelLiterals
<1>6. q.pc = "check" /\ q.op = op /\ q.phase = p /\ q.owner = o /\ q.verdict = "PENDING"
  BY DEF Idle
<1>7. Fits(q)
  BY <1>2, <1>4, <1>6 DEF Fits
<1> HIDE DEF q
<1>8. TypeOK'
  <2>1. task' \in [Tasks -> Task]
    BY <1>3, <1>5, MovedType DEF IInv
  <2> QED BY <1>1, <1>3, <2>1 DEF IInv, TypeOK
<1>9. \A x \in Operations : rows[x].phase \in {"FREE", "DONE"} => lease'[x] = None
  BY <1>2, <1>3, <1>4 DEF IInv, RowTrue, TypeOK
<1> QED BY <1>1, <1>3, <1>5, <1>6, <1>7, <1>8, <1>9, TaskMoves

\* The new phase is later than the one the task read; what it needs from SaaS
\* is there; the task goes on with what the phase asks for.
LEMMA AdvanceKeeps ==
    ASSUME IInv, NEW t \in Tasks, task[t].pc # "idle", NEW p \in Phases \ {"FREE", "DONE"},
           NEW o \in Owners \cup {None}, NEW l \in {"dispatch", "send", "readAccess", "release"},
           Advance(t, p, o, l),
           Rank(task[t].phase) <= Rank(p),
           Rank(task[t].phase) >= 3 => o = task[t].owner,
           Rank(p) < 3 => o = None,
           Rank(p) >= 5 => access[task[t].op] # "none",
           Rank(p) >= 7 => access[task[t].op] = "managed",
           l = "dispatch" => p \in {"PREPARED", "USER_SYNCED", "SUBMIT_READY"},
           l = "send" => /\ p \in {"USER_DISPATCHED", "SHADOW_DISPATCHED", "SUBMIT_DISPATCHED"}
                         /\ Rank(task[t].phase) < Rank(p),
           l = "readAccess" => p = "OBSERVED"
    PROVE  IInv' /\ RowsOnward
<1>1. /\ UNCHANGED <<lease, alive, copy, scope, link, known, access, failed>>
      /\ UNCHANGED <<version, ready, issued, inflight, posts, late, trouble, slips>>
  BY DEF Advance, Outside, saas, network
<1>2. task[t] \in Task /\ Fits(task[t]) /\ task[t].op \in Operations
  BY Works
<1>3. CASE Stop(t) /\ UNCHANGED rows
  <2>1. Alike
    BY <1>1, <1>3 DEF Alike, journal, saas, network
  <2> QED BY <1>3, <2>1, StopKeeps, SameRowsOnward DEF IInv
<1>4. ASSUME Leased(t), rows[task[t].op].phase = task[t].phase,
             rows' = [rows EXCEPT ![task[t].op].phase = p, ![task[t].op].owner = o],
             Become(t, [task[t] EXCEPT !.pc = l, !.phase = p, !.owner = o])
      PROVE  IInv' /\ RowsOnward
  <2>1. PICK op \in Operations : op = task[t].op
    BY <1>2
  <2>2. PICK q \in Task : q = [task[t] EXCEPT !.pc = l, !.phase = p, !.owner = o]
    BY <1>2, AdvancesForm, LabelLiterals
  <2> DEFINE w == [rows[op] EXCEPT !.phase = p, !.owner = o]
  <2>3. q.pc = l /\ q.op = op /\ q.phase = p /\ q.owner = o /\ q.verdict = task[t].verdict
    BY <1>2, <2>2, <2>1 DEF Task
  <2>4. rows[op] \in Row /\ rows \in [Operations -> Row]
    BY <1>2 DEF IInv, TypeOK
  <2>5. w \in Row /\ w.phase = p /\ w.owner = o /\ w.status = rows[op].status
    BY <2>4 DEF Row
  <2>6. rows' = [rows EXCEPT ![op] = w]
    BY <1>4, <2>4, <2>1
  <2>7. Become(t, q)
    BY <1>4, <2>2
  <2> HIDE DEF w
  <2>8. /\ rows' \in [Operations -> Row] /\ rows'[op] = w
        /\ \A x \in Operations \ {op} : rows'[x] = rows[x]
    BY <2>4, <2>5, <2>6, <2>1
  <2>9. TypeOK'
    <3>1. task' \in [Tasks -> Task]
      BY <2>2, <2>7, MovedType DEF IInv
    <3> QED BY <1>1, <2>8, <3>1 DEF IInv, TypeOK
  <2>10. /\ rows[op].phase = task[t].phase /\ rows[op].phase \notin {"FREE", "DONE"}
         /\ rows[op].status # "DONE" /\ op \in Unresolved
         /\ (Rank(rows[op].phase) >= 3 => o = rows[op].owner)
    BY <1>2, <1>4, <2>1 DEF Fits, IInv, RowTrue, Unresolved
  <2>11. Rank(p) \in Nat /\ Rank(rows[op].phase) \in Nat
    BY <2>1, RankNat, RowTypes DEF IInv
  <2>12. Onward
    <3> SUFFICES ASSUME NEW x \in Operations
                 PROVE  /\ Rank(rows[x].phase) <= Rank(rows'[x].phase)
                        /\ Rank(rows[x].phase) >= 3 => rows'[x].owner = rows[x].owner
      BY <1>1 DEF Onward
    <3>1. CASE x = op
      BY <2>5, <2>8, <2>10, <3>1
    <3>2. CASE x # op
      <4>1. Rank(rows[x].phase) \in Nat /\ rows'[x] = rows[x]
        BY <2>8, <3>2, RowTypes DEF IInv
      <4> QED BY <4>1
    <3> QED BY <3>1, <3>2
  <2>13. RowTrue(op)'
    <3>1. /\ rows'[op].phase = p /\ rows'[op].owner = o /\ rows'[op].status # "DONE"
          /\ p \notin {"FREE", "DONE"}
      BY <2>5, <2>8, <2>10
    <3>2. /\ Rank(p) >= 5 => access'[op] # "none"
          /\ Rank(p) >= 7 => access'[op] = "managed"
      BY <1>1, <2>1
    <3> QED BY <3>1, <3>2 DEF RowTrue
  <2>14. Fits(q)'
    <3>1. q.verdict # "DONE"
      BY <1>2, <2>3 DEF Fits
    <3>2. Rank(p) >= 7 => access'[op] = "managed"
      BY <1>1, <2>1
    <3>3. p = "OBSERVED" => access'[op] = "managed"
      BY <3>2, RankIs
    <3>4. /\ rows'[op].phase = p /\ rows'[op].owner = o /\ Rank(p) <= Rank(p)
          /\ p \notin {"FREE", "DONE"}
      BY <2>5, <2>8, <2>11
    <3> QED BY <2>3, <2>1, <3>1, <3>3, <3>4 DEF Fits
  <2>15. q.pc = "send" => /\ q.op = op
                          /\ Rank(rows[op].phase) < Mark(KindOf(q.phase))
                          /\ Rank(rows'[op].phase) >= Mark(KindOf(q.phase))
    <3>1. q.pc = "send" => Mark(KindOf(p)) = Rank(p)
      BY <2>3, KindIs, RankIs
    <3>2. rows'[op].phase = p /\ q.phase = p /\ q.op = op
      BY <2>3, <2>5, <2>8
    <3>3. q.pc = "send" => Rank(rows[op].phase) < Rank(p)
      BY <2>3, <2>10
    <3> QED BY <2>11, <3>1, <3>2, <3>3
  <2>16. \A x \in Operations \ {op} : rows'[x] = rows[x] /\ lease'[x] = lease[x]
    BY <1>1, <2>8
  <2> QED BY <1>1, <2>2, <2>7, <2>1, <2>9, <2>10, <2>12, <2>13, <2>14, <2>15, <2>16, RowMoves
     DEF Onward, RowsOnward
<1> QED BY <1>3, <1>4 DEF Advance

LEMMA DispatchKeeps == ASSUME IInv, NEW t \in Tasks, Dispatch(t) PROVE IInv' /\ RowsOnward
<1> DEFINE p == Dispatched(task[t].phase)
<1>1. task[t].pc = "dispatch" /\ Advance(t, p, task[t].owner, "send")
  BY DEF Dispatch, At
<1>2. /\ task[t] \in Task /\ Fits(task[t]) /\ task[t].op \in Operations
      /\ task[t].owner \in Owners \cup {None}
  BY <1>1, Works DEF Task
<1>3. task[t].phase \in {"PREPARED", "USER_SYNCED", "SUBMIT_READY"}
  BY <1>1, <1>2 DEF Fits
<1>4. CASE task[t].phase = "PREPARED" /\ p = "USER_DISPATCHED"
  <2>1. task[t].owner = None
    BY <1>1, <1>2, <1>4, RankIs DEF Fits
  <2> QED BY <1>1, <1>2, <1>4, <2>1, AdvanceKeeps, RankIs, PhaseLiterals
<1>5. CASE task[t].phase = "USER_SYNCED" /\ p = "SHADOW_DISPATCHED"
  BY <1>1, <1>2, <1>5, AdvanceKeeps, RankIs, PhaseLiterals
<1>6. CASE task[t].phase = "SUBMIT_READY" /\ p = "SUBMIT_DISPATCHED"
  <2>1. Rank(rows[task[t].op].phase) >= 5 /\ access[task[t].op] # "none"
    BY <1>1, <1>2, <1>6, RankIs DEF Fits, IInv, RowTrue
  <2> QED BY <1>1, <1>2, <1>6, <2>1, AdvanceKeeps, RankIs, PhaseLiterals
<1> QED BY <1>3, <1>4, <1>5, <1>6 DEF Dispatched

LEMMA SyncUserKeeps == ASSUME IInv, NEW t \in Tasks, SyncUser(t) PROVE IInv' /\ RowsOnward
<1>1. task[t].pc = "syncUser" /\ Advance(t, "USER_SYNCED", task[t].owner, "dispatch")
  BY DEF SyncUser, At
<1>2. task[t].owner \in Owners \cup {None} /\ task[t].phase = "USER_DISPATCHED"
  BY <1>1, Works DEF Task, Fits
<1> QED BY <1>1, <1>2, AdvanceKeeps, RankIs, PhaseLiterals

LEMMA SubmitReadyKeeps == ASSUME IInv, NEW t \in Tasks, SubmitReady(t) PROVE IInv' /\ RowsOnward
<1>1. task[t].pc = "submitReady" /\ Advance(t, "SUBMIT_READY", task[t].owner, "dispatch")
  BY DEF SubmitReady, At
<1>2. /\ task[t].owner \in Owners \cup {None} /\ task[t].phase = "SHADOW_DISPATCHED"
      /\ access[task[t].op] # "none"
  BY <1>1, Works DEF Task, Fits
<1> QED BY <1>1, <1>2, AdvanceKeeps, RankIs, PhaseLiterals

LEMMA ObserveKeeps == ASSUME IInv, NEW t \in Tasks, Observe(t) PROVE IInv' /\ RowsOnward
<1> DEFINE l == IF task[t].verdict = "FAILED" THEN "release" ELSE "readAccess"
<1>1. task[t].pc = "observe" /\ Advance(t, "OBSERVED", task[t].owner, l)
  BY DEF Observe, At
<1>2. /\ task[t].owner \in Owners \cup {None} /\ access[task[t].op] = "managed"
      /\ task[t].phase \in {"SUBMIT_DISPATCHED", "OBSERVED"}
  BY <1>1, Works DEF Task, Fits
<1>3. l \in {"release", "readAccess"}
  OBVIOUS
<1> HIDE DEF l
<1> QED BY <1>1, <1>2, <1>3, AdvanceKeeps, RankIs, PhaseLiterals

LEMMA FinalizeKeeps == ASSUME IInv, NEW t \in Tasks, Finalize(t) PROVE IInv' /\ RowsOnward
<1>1. /\ UNCHANGED <<alive, scope, link, known, access, failed>>
      /\ UNCHANGED <<version, ready, issued, inflight, posts, late, trouble, slips>>
      /\ task[t].pc = "finalize"
  BY DEF Finalize, Outside, saas, network, At
<1>2. /\ task[t] \in Task /\ Fits(task[t]) /\ task[t].op \in Operations
      /\ access[task[t].op] = "managed"
  BY <1>1, Works DEF Fits
<1>3. CASE UNCHANGED <<rows, lease, copy>> /\ (Stop(t) \/ Conclude(t, "MANUAL_REVIEW"))
  <2>1. Alike
    BY <1>1, <1>3 DEF Alike, journal, saas, network
  <2>2. RowsOnward
    BY <1>3, SameRowsOnward DEF IInv
  <2> QED BY <1>1, <1>3, <2>1, <2>2, StopKeeps, ConcludeKeeps, StatusLiterals
<1>4. ASSUME Leased(t), rows[task[t].op].phase = "OBSERVED",
             copy' = [copy EXCEPT ![task[t].op] = task[t].seen],
             rows' = [rows EXCEPT ![task[t].op].phase = "DONE", ![task[t].op].status = "DONE"],
             Unlease(task[t].op), Stop(t)
      PROVE  IInv' /\ RowsOnward
  <2>1. PICK op \in Operations : op = task[t].op
    BY <1>2
  <2>2. rows[op] \in Row /\ rows \in [Operations -> Row] /\ task[t].seen \in Versions
    BY <1>2 DEF IInv, TypeOK, Task
  <2> DEFINE w == [rows[op] EXCEPT !.phase = "DONE", !.status = "DONE"]
  <2>3. w \in Row /\ w.phase = "DONE" /\ w.status = "DONE" /\ w.owner = rows[op].owner
    BY <2>2, PhaseLiterals, StatusLiterals DEF Row
  <2>4. rows' = [rows EXCEPT ![op] = w]
    BY <1>4, <2>1, <2>2
  <2> HIDE DEF w
  <2>5. /\ rows' \in [Operations -> Row] /\ rows'[op] = w
        /\ \A x \in Operations \ {op} : rows'[x] = rows[x]
    BY <2>2, <2>3, <2>4
  <2>6. /\ lease' \in [Operations -> Tasks \cup {None}] /\ lease'[op] = None
        /\ \A x \in Operations \ {op} : lease'[x] = lease[x]
    BY <1>4, <2>1 DEF Unlease, IInv, TypeOK
  <2>7. Become(t, Idle)
    BY <1>4 DEF Stop
  <2>8. TypeOK'
    <3>1. task' \in [Tasks -> Task]
      BY <2>7, IdleTask, MovedType DEF IInv
    <3>2. copy' \in [Operations -> Versions]
      BY <1>4, <2>2 DEF IInv, TypeOK
    <3> QED BY <1>1, <2>5, <2>6, <3>1, <3>2 DEF IInv, TypeOK
  <2>9. Onward
    <3> SUFFICES ASSUME NEW x \in Operations
                 PROVE  /\ Rank(rows[x].phase) <= Rank(rows'[x].phase)
                        /\ rows'[x].owner = rows[x].owner
      BY <1>1 DEF Onward
    <3>1. CASE x = op
      BY <1>4, <2>1, <2>3, <2>5, <3>1, RankIs
    <3>2. CASE x # op
      <4>1. Rank(rows[x].phase) \in Nat /\ rows'[x] = rows[x]
        BY <2>5, <3>2, RowTypes DEF IInv
      <4> QED BY <4>1
    <3> QED BY <3>1, <3>2
  <2>10. RowTrue(op)'
    BY <1>1, <1>2, <2>1, <2>3, <2>5, <2>6, RankIs DEF RowTrue
  <2>11. Fits(Idle)' /\ Idle.pc = "idle"
    BY DEF Fits, Idle
  <2>12. rows'[op].status = "DONE"
    BY <2>3, <2>5
  <2> QED BY <1>1, <2>5, <2>6, <2>7, <2>8, <2>9, <2>10, <2>11, <2>12, IdleTask, RowMoves
     DEF Onward, RowsOnward
<1> QED BY <1>3, <1>4 DEF Finalize

LEMMA ReleaseKeeps == ASSUME IInv, NEW t \in Tasks, Release(t) PROVE IInv' /\ RowsOnward
<1>1. /\ UNCHANGED <<alive, copy, scope, link, known, access, failed>>
      /\ UNCHANGED <<version, ready, issued, inflight, posts, late, trouble, slips>>
      /\ task[t].pc = "release" /\ Stop(t)
  BY DEF Release, Outside, saas, network, At
<1>2. task[t] \in Task /\ Fits(task[t]) /\ task[t].op \in Operations
  BY <1>1, Works
<1>3. CASE UNCHANGED <<rows, lease>>
  <2>1. Alike
    BY <1>1, <1>3 DEF Alike, journal, saas, network
  <2> QED BY <1>1, <1>3, <2>1, StopKeeps, SameRowsOnward DEF IInv
<1>4. ASSUME Leased(t), rows' = [rows EXCEPT ![task[t].op].status = task[t].verdict],
             Unlease(task[t].op)
      PROVE  IInv' /\ RowsOnward
  <2>1. PICK op \in Operations : op = task[t].op
    BY <1>2
  <2>2. PICK s \in Statuses : s = task[t].verdict
    BY <1>2 DEF Task
  <2>3. rows[op] \in Row /\ rows \in [Operations -> Row] /\ s # "DONE"
    BY <1>2, <2>2 DEF IInv, TypeOK, Fits
  <2> DEFINE w == [rows[op] EXCEPT !.status = s]
  <2>4. w \in Row /\ w.phase = rows[op].phase /\ w.status = s /\ w.owner = rows[op].owner
    BY <2>3 DEF Row
  <2>5. rows' = [rows EXCEPT ![op] = w]
    BY <1>4, <2>1, <2>2, <2>3
  <2> HIDE DEF w
  <2>6. /\ rows' \in [Operations -> Row] /\ rows'[op] = w
        /\ \A x \in Operations \ {op} : rows'[x] = rows[x]
    BY <2>3, <2>4, <2>5
  <2>7. /\ lease' \in [Operations -> Tasks \cup {None}] /\ lease'[op] = None
        /\ \A x \in Operations \ {op} : lease'[x] = lease[x]
    BY <1>4, <2>1 DEF Unlease, IInv, TypeOK
  <2>8. Become(t, Idle)
    BY <1>1 DEF Stop
  <2>9. TypeOK'
    <3>1. task' \in [Tasks -> Task]
      BY <2>8, IdleTask, MovedType DEF IInv
    <3> QED BY <1>1, <2>6, <2>7, <3>1 DEF IInv, TypeOK
  <2>10. Onward
    <3>1. \A x \in Operations : /\ Rank(rows[x].phase) \in Nat
                                /\ rows'[x].phase = rows[x].phase
                                /\ rows'[x].owner = rows[x].owner
      BY <2>4, <2>6, RowTypes DEF IInv
    <3> QED BY <1>1, <3>1 DEF Onward
  <2>11. rows[op].phase \notin {"FREE", "DONE"} /\ op \in Unresolved
    <3>1. lease[op] # None
      BY <1>4, <2>1, ProvisioningAssumption DEF Leased
    <3> QED BY <3>1 DEF IInv, RowTrue, Unresolved
  <2>12. RowTrue(op)'
    <3>1. /\ rows'[op].phase = rows[op].phase /\ rows'[op].status = s
          /\ rows'[op].owner = rows[op].owner
      BY <2>4, <2>6
    <3> QED BY <1>1, <2>3, <2>7, <2>11, <3>1 DEF IInv, RowTrue
  <2>13. Fits(Idle)' /\ Idle.pc = "idle"
    BY DEF Fits, Idle
  <2> QED BY <1>1, <2>6, <2>7, <2>8, <2>9, <2>10, <2>11, <2>12, <2>13, IdleTask, RowMoves
     DEF Onward, RowsOnward
<1> QED BY <1>3, <1>4 DEF Release

LEMMA SendKeeps == ASSUME IInv, NEW t \in Tasks, Send(t) PROVE IInv'
<1>1. /\ UNCHANGED <<rows, lease, alive, copy, scope, link, known, access, failed>>
      /\ UNCHANGED <<version, ready, issued, late, trouble, slips>>
      /\ task[t].pc = "send"
  BY DEF Send, Outside, saas, journal, At
<1>2. /\ task[t] \in Task /\ Fits(task[t]) /\ task[t].op \in Operations
      /\ task[t].phase \in {"USER_DISPATCHED", "SHADOW_DISPATCHED", "SUBMIT_DISPATCHED"}
  BY <1>1, Works DEF Fits
<1>3. PICK op \in Operations : op = task[t].op
  BY <1>2
<1>4. PICK kind \in Kinds : kind = KindOf(task[t].phase)
  BY <1>2, KindIs DEF Kinds
<1>5. PICK r \in Task : r = [task[t] EXCEPT !.pc = "reply"]
  BY <1>2, GoesForm, LabelLiterals
<1>6. /\ r.pc = "reply" /\ r.op = op /\ r.phase = task[t].phase /\ r.owner = task[t].owner
      /\ r.verdict = task[t].verdict
  BY <1>2, <1>3, <1>5 DEF Task
<1>7. Become(t, r)
  BY <1>5 DEF Send, Goto
<1>8. /\ inflight' = inflight \cup {<<kind, op>>}
      /\ posts' = [posts EXCEPT ![<<kind, op>>] = @ + 1]
  BY <1>3, <1>4 DEF Send
<1>9. Sending(t, kind, op) /\ posts[<<kind, op>>] = 0
  BY <1>1, <1>3, <1>4 DEF Sending, At, IInv, RequestTrue
<1>10. posts' \in [Kinds \X Operations -> Nat] /\ inflight' \in SUBSET (Kinds \X Operations)
  BY <1>8, <1>9 DEF IInv, TypeOK
<1>11. TypeOK'
  <2>1. task' \in [Tasks -> Task]
    BY <1>7, MovedType DEF IInv
  <2> QED BY <1>1, <1>10, <2>1 DEF IInv, TypeOK
<1>12. Onward
  BY <1>1, SameIsOnward DEF IInv
<1>13. \A u \in Tasks : Fits(task[u])'
  <2>1. Fits(r)
    BY <1>1, <1>2, <1>3, <1>6 DEF Fits
  <2>2. Fits(r)'
    BY <1>11, <1>12, <2>1, FitsStay DEF IInv
  <2> QED BY <1>7, <1>11, <1>12, <2>2, FitsMoved
<1>14. \A u \in Tasks : task'[u] = IF u = t THEN r ELSE task[u]
  BY <1>7, Moved DEF IInv
<1>15. \A u \in Tasks, k \in Kinds, o \in Operations :
          Sending(u, k, o)' => Sending(u, k, o) /\ u # t
  BY <1>6, <1>14 DEF Sending, At
<1>16. \A k \in Kinds, o \in Operations :
          IF k = kind /\ o = op THEN posts'[<<k, o>>] = 1
          ELSE /\ posts'[<<k, o>>] = posts[<<k, o>>]
               /\ <<k, o>> \in inflight' <=> <<k, o>> \in inflight
  BY <1>8, <1>9 DEF IInv, TypeOK
<1>17. \A o \in Operations, k \in Kinds : RequestTrue(k, o)'
  <2> SUFFICES ASSUME NEW o \in Operations, NEW k \in Kinds PROVE RequestTrue(k, o)'
    OBVIOUS
  <2>1. CASE k = kind /\ o = op
    <3>1. posts'[<<k, o>>] = 1
      BY <1>16, <2>1
    <3>2. ~(Rank(rows[o].phase) < Mark(k))
      <4>1. Rank(rows[o].phase) >= Mark(k)
        BY <1>9, <2>1, SenderMarked
      <4> QED BY <4>1, RowTypes, KindIs DEF IInv, Kinds
    <3>3. \A u \in Tasks : ~Sending(u, k, o)'
      BY <1>9, <1>15, <2>1 DEF IInv, OneSender
    <3> QED BY <1>1, <3>1, <3>2, <3>3 DEF RequestTrue
  <2>2. CASE ~(k = kind /\ o = op)
    <3>1. /\ posts'[<<k, o>>] = posts[<<k, o>>]
          /\ <<k, o>> \in inflight' <=> <<k, o>> \in inflight
      BY <1>16, <2>2
    <3>2. RequestTrue(k, o)
      BY DEF IInv
    <3> QED BY <1>1, <1>15, <3>1, <3>2 DEF RequestTrue
  <2> QED BY <2>1, <2>2
<1>18. \A o \in Operations : RowTrue(o)'
  BY <1>1 DEF IInv, RowTrue
<1>19. \A o \in Operations : AccessTrue(o)'
  <2> SUFFICES ASSUME NEW o \in Operations PROVE AccessTrue(o)'
    OBVIOUS
  <2>1. AccessTrue(o) /\ "create" \in Kinds
    BY DEF IInv, Kinds
  <2>2. access[o] = "managed" => ~(kind = "create" /\ o = op)
    BY <1>9, <2>1 DEF AccessTrue
  <2>3. access[o] = "managed" => /\ posts'[<<"create", o>>] = 1
                                 /\ <<"create", o>> \notin inflight'
    BY <1>16, <2>1, <2>2 DEF AccessTrue
  <2> QED BY <1>1, <2>1, <2>3 DEF AccessTrue
<1>20. OneSender' /\ Alone'
  BY <1>1, <1>15 DEF IInv, OneSender, Alone, Unresolved
<1> QED BY <1>11, <1>13, <1>17, <1>18, <1>19, <1>20 DEF IInv

-----------------------------------------------------------------------------
(* Steps of nobody's task                                                  *)

\* Neither a row nor a task moves: leases end, requests disappear, and SaaS
\* goes on from what is true.
LEMMA OutsideMoves ==
    ASSUME IInv, TypeOK', UNCHANGED <<rows, task, posts>>, inflight' \subseteq inflight,
           \A op \in Operations :
              /\ lease'[op] \in {lease[op], None}
              /\ access[op] # "none" => access'[op] # "none"
              /\ access[op] = "managed" => access'[op] = "managed"
              /\ issued[op] \subseteq issued'[op]
              /\ AccessTrue(op)'
    PROVE  IInv'
<1>1. Onward
  BY RowTypes DEF IInv, Onward
<1>2. \A u \in Tasks : Fits(task[u])'
  <2> SUFFICES ASSUME NEW u \in Tasks PROVE Fits(task[u])'
    OBVIOUS
  <2>1. PICK r \in Task : r = task[u]
    BY DEF IInv, TypeOK
  <2>2. Fits(r)
    BY <2>1 DEF IInv
  <2>3. Fits(r)'
    BY <1>1, <2>2, FitsStay DEF IInv
  <2> QED BY <2>1, <2>3 DEF Fits
<1>3. \A u \in Tasks, kind \in Kinds, op \in Operations :
         Sending(u, kind, op)' <=> Sending(u, kind, op)
  BY DEF Sending, At
<1>4. \A op \in Operations : RowTrue(op)'
  BY DEF IInv, RowTrue
<1>5. \A op \in Operations, kind \in Kinds : RequestTrue(kind, op)'
  BY <1>3 DEF IInv, RequestTrue
<1>6. OneSender' /\ Alone'
  BY <1>3 DEF IInv, OneSender, Alone, Unresolved
<1> QED BY <1>2, <1>4, <1>5, <1>6 DEF IInv

\* The same while SaaS rests.
LEMMA SaasRests ==
    ASSUME IInv, TypeOK', UNCHANGED <<rows, task, posts, access, version, ready, issued>>,
           inflight' \subseteq inflight,
           \A op \in Operations : lease'[op] \in {lease[op], None}
    PROVE  IInv'
<1>1. \A op \in Operations : AccessTrue(op)'
  BY DEF IInv, AccessTrue
<1> QED BY <1>1, OutsideMoves

LEMMA ExpireKeeps == ASSUME IInv, NEW op \in Operations, Expire(op) PROVE IInv'
<1>1. /\ UNCHANGED <<rows, alive, copy, task, scope, link, known, access, failed>>
      /\ UNCHANGED <<version, ready, issued, inflight, posts, late, trouble>>
      /\ lease' = [lease EXCEPT ![op] = None]
  BY DEF Expire, Unlease, bot, saas, network
<1>2. slips' \in 0..trouble.slips
  <2>1. trouble.slips \in Nat /\ slips \in 0..trouble.slips
    BY TroublesAssumption DEF IInv, TypeOK
  <2> QED BY <2>1 DEF Expire, Slip
<1>3. TypeOK' /\ \A o \in Operations : lease'[o] \in {lease[o], None}
  BY <1>1, <1>2 DEF IInv, TypeOK
<1> QED BY <1>1, <1>3, SaasRests

LEMMA LocalKeeps ==
    ASSUME IInv, NEW op \in Operations, GrowLate(op) \/ RemoveKey(op) \/ ReturnProject(op) \/ Rescope
    PROVE  IInv'
<1>1. /\ UNCHANGED <<rows, lease, task, link, known, access, failed>>
      /\ UNCHANGED <<version, ready, issued, inflight, posts, trouble, slips>>
  BY DEF GrowLate, RemoveKey, ReturnProject, Rescope, journal, bot, saas, network
<1>2. /\ alive' \in [Operations -> BOOLEAN] /\ scope' \in Scopes /\ late' \in SUBSET Operations
      /\ copy' \in [Operations -> Versions]
  BY DEF IInv, TypeOK, GrowLate, RemoveKey, ReturnProject, Rescope, journal, bot, Unresolved
<1>3. TypeOK'
  BY <1>1, <1>2 DEF IInv, TypeOK
<1> QED BY <1>1, <1>3, SaasRests

LEMMA LoseKeeps == ASSUME IInv, NEW q \in inflight, Lose(q) PROVE IInv'
<1>1. /\ UNCHANGED <<rows, lease, alive, copy, task, scope, link, known, access, failed>>
      /\ UNCHANGED <<version, ready, issued, posts, late, trouble, slips>>
      /\ inflight' \subseteq inflight
  BY DEF Lose, Bot, journal, bot, saas
<1>2. TypeOK'
  BY <1>1 DEF IInv, TypeOK
<1> QED BY <1>1, <1>2, SaasRests

LEMMA HandleKeeps == ASSUME IInv, NEW q \in inflight, Handle(q) PROVE IInv'
<1>1. /\ UNCHANGED <<rows, lease, alive, copy, task, scope, link, failed>>
      /\ UNCHANGED <<ready, issued, posts, late, trouble, slips>>
      /\ inflight' = inflight \ {q}
  BY DEF Handle, Bot, journal, bot
<1>2. PICK kind \in Kinds, op \in Operations : q = <<kind, op>>
  BY DEF IInv, TypeOK
<1>3. \/ kind = "user" /\ known' = TRUE /\ UNCHANGED <<access, version>>
      \/ /\ kind = "shadow" /\ access[op] = "none"
         /\ access' = [access EXCEPT ![op] = "legacy"] /\ UNCHANGED <<known, version>>
      \/ /\ kind = "create" /\ access[op] = "legacy"
         /\ access' = [access EXCEPT ![op] = "managed"]
         /\ version' = [version EXCEPT ![op] = 1] /\ UNCHANGED known
  BY <1>2 DEF Handle
<1>4. TypeOK'
  <2>1. version' \in [Operations -> Versions]
    BY <1>3, ProvisioningAssumption DEF IInv, TypeOK
  <2>2. access' \in [Operations -> {"none", "legacy", "managed"}] /\ known' \in BOOLEAN
    BY <1>3 DEF IInv, TypeOK
  <2> QED BY <1>1, <2>1, <2>2 DEF IInv, TypeOK
<1>5. \A o \in Operations : /\ access[o] # "none" => access'[o] # "none"
                            /\ access[o] = "managed" => access'[o] = "managed"
  BY <1>3 DEF IInv, TypeOK
<1>6. \A o \in Operations : AccessTrue(o)'
  <2> SUFFICES ASSUME NEW o \in Operations PROVE AccessTrue(o)'
    OBVIOUS
  <2>1. AccessTrue(o)
    BY DEF IInv
  <2>2. CASE access'[o] = access[o] /\ version'[o] = version[o]
    BY <1>1, <2>1, <2>2 DEF AccessTrue
  <2>3. CASE access[o] = "none" /\ access'[o] = "legacy" /\ version'[o] = version[o]
    BY <1>1, <2>1, <2>3 DEF AccessTrue
  <2>4. CASE /\ o = op /\ kind = "create" /\ access[o] = "legacy" /\ access'[o] = "managed"
             /\ version'[o] = 1
    <3>1. RequestTrue("create", o)
      BY DEF IInv, Kinds
    <3>2. posts[<<"create", o>>] = 1
      BY <1>2, <2>4, <3>1 DEF RequestTrue
    <3>3. <<"create", o>> \notin inflight'
      BY <1>1, <1>2, <2>4
    <3>4. issued[o] = {} /\ ~ready[o]
      BY <2>1, <2>4 DEF AccessTrue
    <3> QED BY <1>1, <2>4, <3>2, <3>3, <3>4 DEF AccessTrue
  <2> QED BY <1>3, <2>2, <2>3, <2>4 DEF IInv, TypeOK
<1> QED BY <1>1, <1>4, <1>5, <1>6, OutsideMoves

LEMMA ElsewhereKeeps == ASSUME IInv, NEW op \in Operations, ShadowElsewhere(op) PROVE IInv'
<1>1. /\ UNCHANGED <<rows, lease, alive, copy, task, scope, link, known, failed, version>>
      /\ UNCHANGED <<ready, issued, inflight, posts, late, trouble, slips>>
      /\ access[op] = "none" /\ access' = [access EXCEPT ![op] = "legacy"]
  BY DEF ShadowElsewhere, Bot, journal, bot, network
<1>2. TypeOK'
  BY <1>1 DEF IInv, TypeOK
<1>3. \A o \in Operations : /\ access[o] # "none" => access'[o] # "none"
                            /\ access[o] = "managed" <=> access'[o] = "managed"
  BY <1>1 DEF IInv, TypeOK
<1>4. \A o \in Operations : AccessTrue(o)'
  BY <1>1, <1>3 DEF IInv, AccessTrue
<1> QED BY <1>1, <1>2, <1>3, <1>4, OutsideMoves

LEMMA MaterialiseKeeps == ASSUME IInv, NEW op \in Operations, Materialise(op) PROVE IInv'
<1>1. /\ UNCHANGED <<rows, lease, alive, copy, task, scope, link, known, access, failed>>
      /\ UNCHANGED <<version, inflight, posts, late, trouble, slips>>
      /\ access[op] = "managed" /\ ready' = [ready EXCEPT ![op] = TRUE]
      /\ issued' = [issued EXCEPT ![op] = @ \cup {version[op]}]
  BY DEF Materialise, Bot, journal, bot, network
<1>2. TypeOK'
  BY <1>1 DEF IInv, TypeOK
<1>3. \A o \in Operations : /\ version[o] \in Nat
                            /\ IF o = op THEN ready'[o] /\ issued'[o] = issued[o] \cup {version[o]}
                               ELSE ready'[o] = ready[o] /\ issued'[o] = issued[o]
  BY <1>1, ProvisioningAssumption DEF IInv, TypeOK
<1>4. \A o \in Operations : AccessTrue(o)'
  <2> SUFFICES ASSUME NEW o \in Operations PROVE AccessTrue(o)'
    OBVIOUS
  <2>1. AccessTrue(o) /\ version[o] \in Nat
    BY <1>3 DEF IInv
  <2>2. CASE o = op
    BY <1>1, <1>3, <2>1, <2>2 DEF AccessTrue
  <2>3. CASE o # op
    BY <1>1, <1>3, <2>1, <2>3 DEF AccessTrue
  <2> QED BY <2>2, <2>3
<1>5. \A o \in Operations : issued[o] \subseteq issued'[o]
  BY <1>3
<1> QED BY <1>1, <1>2, <1>4, <1>5, OutsideMoves

LEMMA RotateKeeps == ASSUME IInv, NEW op \in Operations, Rotate(op) PROVE IInv'
<1>1. /\ UNCHANGED <<rows, lease, alive, copy, task, scope, link, known, access, failed>>
      /\ UNCHANGED <<issued, inflight, posts, late, trouble, slips>>
      /\ ready' = [ready EXCEPT ![op] = FALSE]
      /\ version' = [version EXCEPT ![op] = @ + 1] /\ version[op] + 1 \in Versions
  BY DEF Rotate, Bot, journal, bot, network
<1>2. TypeOK'
  BY <1>1 DEF IInv, TypeOK
<1>3. \A o \in Operations :
         /\ version[o] \in Nat /\ issued[o] \subseteq Nat
         /\ IF o = op THEN ~ready'[o] /\ version'[o] = version[o] + 1
            ELSE ready'[o] = ready[o] /\ version'[o] = version[o]
  BY <1>1, ProvisioningAssumption DEF IInv, TypeOK
<1>4. \A o \in Operations : AccessTrue(o)'
  <2> SUFFICES ASSUME NEW o \in Operations PROVE AccessTrue(o)'
    OBVIOUS
  <2>1. AccessTrue(o)
    BY DEF IInv
  <2>2. \A v \in issued[o] : v <= version'[o]
    <3> SUFFICES ASSUME NEW v \in issued[o] PROVE v <= version'[o]
      OBVIOUS
    <3>1. v \in Nat /\ v <= version[o] /\ version[o] \in Nat
      BY <1>3, <2>1 DEF AccessTrue
    <3> QED BY <1>3, <3>1
  <2>3. version[o] > 0 => version'[o] > 0
    BY <1>3
  <2> QED BY <1>1, <1>3, <2>1, <2>2, <2>3 DEF AccessTrue
<1> QED BY <1>1, <1>2, <1>4, OutsideMoves

LEMMA FailKeeps == ASSUME IInv, NEW op \in Operations, Fail(op) \/ Relink PROVE IInv'
<1>1. /\ UNCHANGED <<rows, lease, alive, copy, task, scope, known, access, version>>
      /\ UNCHANGED <<issued, inflight, posts, late, trouble, slips>>
  BY DEF Fail, Relink, Bot, journal, bot, network
<1>2. /\ link' \in Owners /\ failed' \in SUBSET Operations
      /\ ready' \in [Operations -> BOOLEAN] /\ \A o \in Operations : ready'[o] => ready[o]
  BY DEF Fail, Relink, IInv, TypeOK
<1>3. TypeOK'
  BY <1>1, <1>2 DEF IInv, TypeOK
<1>4. \A o \in Operations : AccessTrue(o)'
  BY <1>1, <1>2 DEF IInv, AccessTrue
<1> QED BY <1>1, <1>3, <1>4, OutsideMoves

\* A new operation takes a free row while no other is unfinished.
LEMMA ConfirmKeeps ==
    ASSUME IInv, NEW k \in Keys, NEW op \in Operations, Confirm(k, op)
    PROVE  IInv' /\ RowsOnward
<1>1. /\ UNCHANGED <<lease, alive, copy, task, scope, link, known, access, failed>>
      /\ UNCHANGED <<version, ready, issued, inflight, posts, late, trouble, slips>>
  BY DEF Confirm, bot, saas, network
<1>2. CASE Reuse(k, op)
  <2>1. UNCHANGED rows
    BY <1>2 DEF Reuse
  <2>2. TypeOK'
    BY <1>1, <2>1 DEF IInv, TypeOK
  <2> QED BY <1>1, <2>1, <2>2, SaasRests, SameRowsOnward DEF IInv
<1>3. CASE Create(k, op)
  <2> DEFINE w == [FreeRow EXCEPT !.phase = "PREPARED", !.key = k, !.scope = scope]
  <2>1. Unresolved = {} /\ rows[op].phase = "FREE" /\ rows' = [rows EXCEPT ![op] = w]
    BY <1>3 DEF Create
  <2>2. scope \in Scopes /\ rows \in [Operations -> Row] /\ k \in Keys \cup {None}
    BY DEF IInv, TypeOK
  <2>3. w \in Row /\ w.phase = "PREPARED" /\ w.status = "PENDING" /\ w.owner = None
    BY <2>2, FreeRowIs, PhaseLiterals DEF Row, FreeRow
  <2> HIDE DEF w
  <2>4. /\ rows' \in [Operations -> Row] /\ rows'[op] = w
        /\ \A o \in Operations \ {op} : rows'[o] = rows[o]
    BY <2>1, <2>2, <2>3
  <2>5. TypeOK'
    BY <1>1, <2>4 DEF IInv, TypeOK
  <2>6. Onward
    <3> SUFFICES ASSUME NEW o \in Operations
                 PROVE  /\ Rank(rows[o].phase) <= Rank(rows'[o].phase)
                        /\ Rank(rows[o].phase) >= 3 => rows'[o].owner = rows[o].owner
      BY <1>1 DEF Onward
    <3>1. CASE o = op
      BY <2>1, <2>3, <2>4, <3>1, RankIs
    <3>2. CASE o # op
      <4>1. Rank(rows[o].phase) \in Nat /\ rows'[o] = rows[o]
        BY <2>4, <3>2, RowTypes DEF IInv
      <4> QED BY <4>1
    <3> QED BY <3>1, <3>2
  <2>7. \A u \in Tasks : Fits(task[u])'
    <3> SUFFICES ASSUME NEW u \in Tasks PROVE Fits(task[u])'
      OBVIOUS
    <3>1. PICK r \in Task : r = task[u]
      BY DEF IInv, TypeOK
    <3>2. Fits(r)
      BY <3>1 DEF IInv
    <3>3. Fits(r)'
      BY <2>5, <2>6, <3>2, FitsStay DEF IInv
    <3> QED BY <1>1, <3>1, <3>3 DEF Fits
  <2>8. \A o \in Operations : RowTrue(o)'
    <3>1. RowTrue(op)'
      BY <1>1, <2>1, <2>3, <2>4, RankIs DEF IInv, RowTrue
    <3>2. \A o \in Operations \ {op} : RowTrue(o)'
      BY <1>1, <2>4 DEF IInv, RowTrue
    <3> QED BY <3>1, <3>2
  <2>9. \A o \in Operations : AccessTrue(o)'
    BY <1>1 DEF IInv, AccessTrue
  <2>10. \A u \in Tasks, kind \in Kinds, o \in Operations :
            Sending(u, kind, o)' <=> Sending(u, kind, o)
    BY <1>1 DEF Sending, At
  <2>11. \A o \in Operations, kind \in Kinds : RequestTrue(kind, o)'
    <3> SUFFICES ASSUME NEW o \in Operations, NEW kind \in Kinds PROVE RequestTrue(kind, o)'
      OBVIOUS
    <3>1. RequestTrue(kind, o)
      BY DEF IInv
    <3>2. Rank(rows'[o].phase) < Mark(kind) => Rank(rows[o].phase) < Mark(kind)
      <4>1. Rank(rows[o].phase) \in Nat /\ Rank(rows'[o].phase) \in Nat /\ Mark(kind) \in Nat
        BY <2>5, RankNat, KindIs DEF IInv, TypeOK, Row, Kinds
      <4> QED BY <2>6, <4>1 DEF Onward
    <3> QED BY <1>1, <2>10, <3>1, <3>2 DEF RequestTrue
  <2>12. OneSender' /\ Alone'
    <3>1. Alone'
      BY <2>1, <2>4 DEF Alone, Unresolved
    <3> QED BY <2>10, <3>1 DEF IInv, OneSender
  <2> QED BY <2>5, <2>6, <2>7, <2>8, <2>9, <2>11, <2>12 DEF IInv, Onward, RowsOnward
<1> QED BY <1>2, <1>3 DEF Confirm

-----------------------------------------------------------------------------
(* The theorems                                                            *)

LEMMA InitInv == Init => IInv
<1> SUFFICES ASSUME Init PROVE IInv
  OBVIOUS
<1>1. \A op \in Operations : rows[op] = FreeRow /\ lease[op] = None /\ access[op] = "none"
  BY DEF Init
<1>2. TypeOK
  <2>1. FirstOwner \in Owners /\ FirstScope \in Scopes
    BY ProvisioningAssumption DEF FirstOwner, FirstScope
  <2>2. 0 \in Versions /\ 0 \in 0..trouble.slips
    BY ProvisioningAssumption, TroublesAssumption DEF Init
  <2> QED BY <2>1, <2>2, FreeRowIs, IdleTask DEF Init, TypeOK
<1>3. \A op \in Operations : RowTrue(op)
  BY <1>1, RankIs DEF RowTrue, FreeRow
<1>4. \A op \in Operations : AccessTrue(op)
  BY DEF Init, AccessTrue
<1>5. \A op \in Operations, kind \in Kinds : RequestTrue(kind, op)
  BY DEF Init, RequestTrue, Sending, At, Idle
<1>6. OneSender /\ Alone
  BY DEF Init, OneSender, Alone, Sending, At, Idle, Unresolved, FreeRow
<1>7. \A t \in Tasks : Fits(task[t])
  BY IdleFits DEF Init
<1> QED BY <1>2, <1>3, <1>4, <1>5, <1>6, <1>7 DEF IInv

\* Every step keeps the invariant, and no row goes back.
LEMMA StepInv == IInv /\ [Next]_vars => IInv' /\ RowsOnward
<1> SUFFICES ASSUME IInv, [Next]_vars PROVE IInv' /\ RowsOnward
  OBVIOUS
<1>1. ASSUME UNCHANGED rows, IInv' PROVE IInv' /\ RowsOnward
  BY <1>1, SameRowsOnward DEF IInv
<1>2. ASSUME NEW t \in Tasks,
             \/ Check(t) \/ Send(t) \/ Reply(t) \/ ReadUser(t) \/ ReadShadow(t)
             \/ Readback(t) \/ ReadAccess(t) \/ Material(t) \/ Unavailable(t) \/ Crash(t)
      PROVE  IInv' /\ RowsOnward
  <2>1. UNCHANGED rows
    BY <1>2 DEF Check, Send, Reply, ReadUser, ReadShadow, Readback, ReadAccess, Material,
                Unavailable, Crash, Quiet, journal
  <2>2. IInv'
    BY <1>2, CheckKeeps, SendKeeps, ReplyKeeps, ReadUserKeeps, ReadShadowKeeps, ReadbackKeeps,
       ReadAccessKeeps, MaterialKeeps, UnavailableKeeps, CrashKeeps
  <2> QED BY <1>1, <2>1, <2>2
<1>3. ASSUME NEW t \in Tasks, Work(t) PROVE IInv' /\ RowsOnward
  BY <1>2, <1>3, DispatchKeeps, SyncUserKeeps, SubmitReadyKeeps, ObserveKeeps, FinalizeKeeps,
     ReleaseKeeps
  DEF Work
<1>4. ASSUME NEW t \in Tasks, NEW op \in Operations, Claim(t, op) PROVE IInv' /\ RowsOnward
  BY <1>1, <1>4, ClaimKeeps DEF Claim
<1>5. ASSUME NEW op \in Operations,
             \/ Expire(op) \/ GrowLate(op) \/ Materialise(op) \/ RemoveKey(op)
             \/ ReturnProject(op) \/ ShadowElsewhere(op) \/ Rotate(op) \/ Fail(op)
      PROVE  IInv' /\ RowsOnward
  <2>1. UNCHANGED rows
    BY <1>5 DEF Expire, GrowLate, Materialise, RemoveKey, ReturnProject, ShadowElsewhere,
                Rotate, Fail, Bot, journal
  <2>2. IInv'
    BY <1>5, ExpireKeeps, LocalKeeps, MaterialiseKeeps, ElsewhereKeeps, RotateKeeps, FailKeeps
  <2> QED BY <1>1, <2>1, <2>2
<1>6. ASSUME NEW op \in Operations, Disturb(op) PROVE IInv' /\ RowsOnward
  BY <1>5, <1>6 DEF Disturb
<1>7. ASSUME NEW q \in inflight, Lose(q) \/ Handle(q) PROVE IInv' /\ RowsOnward
  <2>1. UNCHANGED rows
    BY <1>7 DEF Lose, Handle, Bot, journal
  <2> QED BY <1>1, <1>7, <2>1, LoseKeeps, HandleKeeps
<1>8. CASE Rescope \/ Relink \/ UNCHANGED vars
  <2>1. UNCHANGED <<rows, lease, alive, copy, task, known, access, failed, version, ready, issued>>
        /\ UNCHANGED <<inflight, posts, late, trouble, slips>>
    BY <1>8 DEF Rescope, Relink, vars, Bot, journal, bot, saas, network
  <2>2. TypeOK'
    BY <1>8, <2>1 DEF IInv, TypeOK, Rescope, Relink, vars, Bot, bot, saas
  <2> QED BY <1>1, <2>1, <2>2, SaasRests
<1>9. ASSUME NEW k \in Keys, NEW op \in Operations, Confirm(k, op) PROVE IInv' /\ RowsOnward
  BY <1>9, ConfirmKeeps
<1> QED BY <1>2, <1>3, <1>4, <1>5, <1>6, <1>7, <1>8, <1>9 DEF Next, Progress

\* Rows, locals, requests under way and what SaaS did for them agree in every
\* reachable state.
THEOREM InvariantHolds == Spec => []IInv
<1>1. IInv /\ [Next]_vars => IInv'
  BY StepInv
<1> QED BY <1>1, InitInv, PTL DEF Spec

\* Every variable keeps its type.
THEOREM TypeCorrect == Spec => []TypeOK
<1>1. IInv => TypeOK
  BY DEF IInv
<1> QED BY <1>1, InvariantHolds, PTL

\* Whatever crashes, lost leases and lost answers do to the worker, it sends
\* each of the three writes of an operation at most once.
THEOREM WritesLeaveOnce == Spec => []DispatchedOnce
<1>1. IInv => DispatchedOnce
  <2> SUFFICES ASSUME IInv, NEW kind \in Kinds, NEW op \in Operations
               PROVE  posts[<<kind, op>>] <= 1
    BY DEF DispatchedOnce
  <2> QED BY DEF IInv, RequestTrue
<1> QED BY <1>1, InvariantHolds, PTL

\* The create request is not sent before SaaS holds the snapshot of the key.
THEOREM CreatedOnSnapshot == Spec => []CreateOnSnapshot
<1>1. IInv => CreateOnSnapshot
  <2> SUFFICES ASSUME IInv, NEW op \in Operations, posts[<<"create", op>>] > 0
               PROVE  access[op] # "none"
    BY DEF CreateOnSnapshot
  <2>1. RequestTrue("create", op) /\ RowTrue(op) /\ Rank(rows[op].phase) \in Nat
    BY RowTypes DEF IInv, Kinds
  <2>2. ~(Rank(rows[op].phase) < 6)
    BY <2>1, KindIs DEF RequestTrue
  <2> QED BY <2>1, <2>2 DEF RowTrue
<1> QED BY <1>1, InvariantHolds, PTL

\* At most one grant to the user is under way, however operations end.
THEOREM OneGrant == Spec => []OneGrantAtWork
<1>1. ASSUME IInv, NEW op \in Operations, Granting(op) PROVE op \in Unresolved
  <2>1. RequestTrue("create", op) /\ RowTrue(op) /\ AccessTrue(op) /\ Rank(rows[op].phase) \in Nat
    BY <1>1, RowTypes DEF IInv, Kinds
  <2>2. /\ ~(Rank(rows[op].phase) < 6)
        /\ access[op] # "managed"
    <3>1. CASE <<"create", op>> \in inflight
      BY <2>1, <3>1, KindIs DEF RequestTrue, AccessTrue
    <3>2. ASSUME NEW t \in Tasks, Sending(t, "create", op)
          PROVE  ~(Rank(rows[op].phase) < 6) /\ access[op] # "managed"
      <4>1. Rank(rows[op].phase) >= 6
        BY <1>1, <3>2, SenderMarked, KindIs DEF Kinds
      <4> QED BY <2>1, <3>2, <4>1 DEF RequestTrue, AccessTrue
    <3> QED BY <1>1, <3>1, <3>2, KindIs DEF Granting, Sending
  <2>3. rows[op].phase \notin {"FREE", "DONE"}
    BY <2>1, <2>2, RankIs DEF RowTrue
  <2> QED BY <2>1, <2>3 DEF Unresolved, RowTrue
<1>2. IInv => OneGrantAtWork
  BY <1>1 DEF IInv, Alone, OneGrantAtWork
<1> QED BY <1>2, InvariantHolds, PTL

\* No task, however late, takes an operation back to a phase it has passed or
\* to another SaaS user.
THEOREM PhasesAdvance == Spec => PhaseNeverBack
<1> DEFINE A == \A op \in Operations :
        /\ Rank(rows'[op].phase) >= Rank(rows[op].phase)
        /\ rows[op].owner # None => rows'[op].owner = rows[op].owner
<1>1. IInv /\ IInv' /\ [Next]_vars => [A]_vars
  <2> SUFFICES ASSUME IInv, IInv', [Next]_vars, NEW op \in Operations
               PROVE  /\ Rank(rows'[op].phase) >= Rank(rows[op].phase)
                      /\ rows[op].owner # None => rows'[op].owner = rows[op].owner
    BY DEF IInv
  <2>1. /\ Rank(rows[op].phase) <= Rank(rows'[op].phase)
        /\ Rank(rows[op].phase) >= 3 => rows'[op].owner = rows[op].owner
    BY StepInv DEF RowsOnward
  <2>2. Rank(rows[op].phase) \in Nat /\ Rank(rows'[op].phase) \in Nat
    BY RankNat DEF IInv, TypeOK, Row
  <2>3. rows[op].owner # None => Rank(rows[op].phase) >= 3
    BY <2>2 DEF IInv, RowTrue
  <2> QED BY <2>1, <2>2, <2>3
<1> QED BY <1>1, InvariantHolds, PTL DEF Spec, PhaseNeverBack

-----------------------------------------------------------------------------
(* The key rows implement their promises                                   *)

CopyStep ==
    \A op \in Operations : Promise(op)!Next \/ UNCHANGED <<issued[op], copy[op], alive[op]>>

LEMMA RestingCopies == ASSUME UNCHANGED <<issued, copy, alive>> PROVE CopyStep
BY DEF CopyStep

\* What is written into the key row was issued, and is not older than it.
LEMMA WriteStep ==
    ASSUME IInv, NEW op \in Operations, NEW v \in issued[op], MayApply(op, v),
           copy' = [copy EXCEPT ![op] = v], UNCHANGED <<issued, alive>>
    PROVE  CopyStep
<1> SUFFICES ASSUME NEW o \in Operations
             PROVE  Promise(o)!Next \/ UNCHANGED <<issued[o], copy[o], alive[o]>>
  BY DEF CopyStep
<1>1. CASE o = op
  BY <1>1 DEF MayApply, IInv, TypeOK, Promise!Next, Promise!Copy
<1>2. CASE o # op
  BY <1>2 DEF IInv, TypeOK
<1> QED BY <1>1, <1>2

LEMMA FinalizeStep == ASSUME IInv, NEW t \in Tasks, Finalize(t) PROVE CopyStep
<1>1. UNCHANGED <<issued, alive>>
  BY DEF Finalize, Outside, saas
<1>2. CASE UNCHANGED copy
  BY <1>1, <1>2, RestingCopies
<1>3. CASE /\ MayApply(task[t].op, task[t].seen)
           /\ copy' = [copy EXCEPT ![task[t].op] = task[t].seen]
  <2>1. task[t].pc = "finalize"
    BY DEF Finalize, At
  <2>2. task[t].op \in Operations /\ task[t].seen \in issued[task[t].op]
    BY <2>1, Works DEF Fits
  <2> QED BY <1>1, <1>3, <2>2, WriteStep
<1> QED BY <1>2, <1>3 DEF Finalize

LEMMA IssueStep == ASSUME IInv, NEW op \in Operations, Materialise(op) PROVE CopyStep
<1>1. /\ UNCHANGED <<copy, alive>> /\ access[op] = "managed"
      /\ issued' = [issued EXCEPT ![op] = @ \cup {version[op]}]
  BY DEF Materialise, Bot, journal
<1> SUFFICES ASSUME NEW o \in Operations
             PROVE  Promise(o)!Next \/ UNCHANGED <<issued[o], copy[o], alive[o]>>
  BY DEF CopyStep
<1>2. issued \in [Operations -> SUBSET Versions] /\ version[op] \in Versions
  BY DEF IInv, TypeOK
<1>3. CASE o # op \/ version[op] \in issued[op]
  <2>1. issued'[o] = issued[o]
    BY <1>1, <1>2, <1>3
  <2> QED BY <1>1, <2>1
<1>4. CASE o = op /\ version[op] \notin issued[op]
  <2>1. version[op] > 0 /\ \A w \in issued[op] : w <= version[op]
    BY <1>1 DEF IInv, AccessTrue
  <2>2. version[op] \in Nat /\ issued[op] \subseteq Nat
    BY <1>2, ProvisioningAssumption
  <2>3. version[op] \in Versions \ {0} /\ \A w \in issued[op] : w < version[op]
    BY <1>2, <1>4, <2>1, <2>2
  <2>4. issued'[op] = issued[op] \cup {version[op]}
    BY <1>1, <1>2
  <2>5. Promise(op)!Issue(version[op])
    BY <1>1, <2>3, <2>4 DEF Promise!Issue
  <2> QED BY <1>4, <2>3, <2>5 DEF Promise!Next
<1> QED BY <1>3, <1>4

LEMMA RemoveStep == ASSUME IInv, NEW op \in Operations, RemoveKey(op) PROVE CopyStep
<1>1. UNCHANGED <<issued, copy>> /\ alive' = [alive EXCEPT ![op] = FALSE]
  BY DEF RemoveKey, saas
<1> SUFFICES ASSUME NEW o \in Operations
             PROVE  Promise(o)!Next \/ UNCHANGED <<issued[o], copy[o], alive[o]>>
  BY DEF CopyStep
<1>2. CASE o = op
  BY <1>1, <1>2 DEF IInv, TypeOK, Promise!Next, Promise!Remove
<1>3. CASE o # op
  BY <1>1, <1>3 DEF IInv, TypeOK
<1> QED BY <1>2, <1>3

\* The worker's own projection, payment returns, rotations and the removal of
\* the keys together write only issued credentials into a key row, never older
\* ones than it holds, and nothing after the removal.
THEOREM CopiesImplemented == Spec => CopyLags
<1>1. Init => \A op \in Operations : Promise(op)!Init
  BY DEF Init, Promise!Init
<1>2. IInv /\ [Next]_vars => [CopyStep]_vars
  <2> SUFFICES ASSUME IInv, Next PROVE CopyStep
    OBVIOUS
  <2>1. ASSUME NEW t \in Tasks, Work(t) PROVE CopyStep
    <3>1. CASE Finalize(t)
      BY <3>1, FinalizeStep
    <3>2. CASE ~Finalize(t)
      <4>1. UNCHANGED <<issued, copy, alive>>
        BY <2>1, <3>2 DEF Work, Check, Dispatch, Send, Reply, ReadUser, SyncUser, ReadShadow,
           SubmitReady, Readback, Observe, ReadAccess, Material, Release, Advance, Quiet, Outside,
           journal, saas
      <4> QED BY <4>1, RestingCopies
    <3> QED BY <3>1, <3>2
  <2>2. ASSUME NEW t \in Tasks, \/ Unavailable(t) \/ Crash(t)
                                \/ \E op \in Operations : Claim(t, op)
        PROVE  CopyStep
    BY <2>2, RestingCopies DEF Unavailable, Crash, Claim, Outside, journal, saas
  <2>3. ASSUME NEW op \in Operations,
               Expire(op) \/ GrowLate(op) \/ ShadowElsewhere(op) \/ Rotate(op) \/ Fail(op)
        PROVE  CopyStep
    BY <2>3, RestingCopies DEF Expire, GrowLate, ShadowElsewhere, Rotate, Fail, Bot, journal, saas
  <2>4. ASSUME NEW op \in Operations, ReturnProject(op) PROVE CopyStep
    BY <2>4, WriteStep DEF ReturnProject, saas
  <2>5. ASSUME NEW op \in Operations, Materialise(op) \/ Disturb(op) PROVE CopyStep
    BY <2>3, <2>4, <2>5, IssueStep, RemoveStep DEF Disturb
  <2>6. ASSUME NEW q \in inflight, Lose(q) \/ Handle(q) PROVE CopyStep
    BY <2>6, RestingCopies DEF Lose, Handle, Bot, journal, saas
  <2>7. CASE Rescope \/ Relink
    BY <2>7, RestingCopies DEF Rescope, Relink, Bot, journal, saas
  <2>8. ASSUME NEW k \in Keys, NEW op \in Operations, Confirm(k, op) PROVE CopyStep
    BY <2>8, RestingCopies DEF Confirm, saas
  <2> QED BY <2>1, <2>2, <2>3, <2>5, <2>6, <2>7, <2>8 DEF Next, Progress
<1> QED BY <1>1, <1>2, InvariantHolds, PTL DEF Spec, CopyLags, CopyStep
=============================================================================
