---------------------------- MODULE CheckoutProofs ----------------------------
(***************************************************************************)
(* Proofs about Checkout for any sets of tasks, operations, callbacks,     *)
(* orders and owners.                                                      *)
(***************************************************************************)
EXTENDS CheckoutProps, TLAPS

\* A register a task may enter without having sent or learned anything new.
Harmless(r) ==
    /\ r \in Task
    /\ r.pc \notin {"post", "reply"}
    /\ Aimed(r)
    /\ r.original \in OrderStatus =>
         /\ r.op # None
         /\ order[r.op] # "NONE"
         /\ r.original = "FINAL" => order[r.op] = "FINAL"
    /\ r.pc = "prove" /\ r.proof => r.op \in fenced

\* A step that changes one task's register, and of the rest at most the
\* callbacks, preserves the invariant.
LEMMA TaskStep ==
    ASSUME IInv, NEW t \in Tasks, NEW r, Harmless(r), Become(t, r),
           UNCHANGED <<intents, saas>>,
           callbacks' \in [Callbacks -> Operations \cup {None}]
    PROVE  IInv'
<1> USE DEF IInv, Harmless, Become, saas
<1>1. TypeOK'
  BY DEF TypeOK, JournalTypeOK, SaasTypeOK
<1>2. TasksAimed'
  BY DEF TasksAimed, TypeOK
<1>3. UnsentUntilClaimed'
  BY DEF UnsentUntilClaimed, Unsent, At, TypeOK
<1>4. OneUnresolved'
  BY DEF OneUnresolved, Active
<1>5. OneSender'
  BY DEF OneSender, At, TypeOK
<1>6. SentOnce' /\ FenceHolds' /\ RowTrue'
  BY DEF SentOnce, FenceHolds, RowTrue
<1>7. ReadsTrue'
  BY DEF ReadsTrue, At, TypeOK
<1> QED BY <1>1, <1>2, <1>3, <1>4, <1>5, <1>6, <1>7

\* Every step's name is a label: kept apart, for the provers are slow when
\* they see the whole set with every register.
LEMMA LabelsListed ==
    \A label \in {"idle", "select", "confirm", "cancel", "reject", "recoverContext",
                   "recoverRow", "getOriginal", "getCurrent", "observe", "getRejection",
                   "prove", "selected", "attach", "prepareContext", "prepareDiscover",
                   "prepareAttach", "prepareCurrent", "insert", "confirmCurrent", "claim", "post", "reply",
                   "fenceContext", "fence", "fenceReply"} : label \in Labels
BY DEF Labels

\* A register that keeps the operation and what was read of it is harmless.
LEMMA KeepHarmless ==
    ASSUME IInv, NEW t \in Tasks, NEW r \in Task,
           r.pc \notin {"post", "reply", "prove"},
           r.pc \in OperationLabels => r.op # None,
           r.pc \in CallbackLabels => r.cb # None,
           r.next \in {"idle", task[t].next}, r.cb = task[t].cb,
           task[t].op # None => r.op = task[t].op,
           r.original \in {task[t].original, "NULL", "MISSING"}
    PROVE  Harmless(r)
BY DEF Harmless, Aimed, IInv, ReadsTrue, TasksAimed, OrderStatus

\* A register that starts anew is harmless.
LEMMA FreshHarmless ==
    ASSUME NEW r \in Task,
           r.pc \notin {"post", "reply", "prove"},
           Aimed(r),
           r.original = "NULL"
    PROVE  Harmless(r)
BY DEF Harmless, OrderStatus

LEMMA IdleType == Idle \in Task
BY LabelsListed DEF Idle, Task

HarmlessMove(t) == \E r : Harmless(r) /\ Become(t, r)

LEMMA MoveStep ==
    ASSUME IInv, NEW t \in Tasks, HarmlessMove(t), UNCHANGED <<intents, saas>>,
           callbacks' \in [Callbacks -> Operations \cup {None}]
    PROVE  IInv'
BY TaskStep DEF HarmlessMove

LEMMA StopMoves ==
    ASSUME IInv, NEW t \in Tasks, Stop(t)
    PROVE  HarmlessMove(t)
<1>1. Harmless(Idle)
  BY IdleType, FreshHarmless DEF Idle, Aimed, OperationLabels, CallbackLabels
<1> QED BY <1>1 DEF HarmlessMove, Stop

LEMMA RecoverOnlyMoves ==
    ASSUME IInv, NEW t \in Tasks, NEW op \in Operations \cup {None}, RecoverOnly(t, op)
    PROVE  HarmlessMove(t)
<1> DEFINE r == [Idle EXCEPT !.pc = "recoverContext", !.op = op]
<1>1. r \in Task
  BY IdleType, LabelsListed DEF Task
<1>2. r.pc = "recoverContext" /\ r.next = "idle" /\ r.original = "NULL"
  BY DEF Idle
<1>3. Harmless(r)
  BY <1>1, <1>2, FreshHarmless DEF Aimed, OperationLabels, CallbackLabels
<1> QED BY <1>3 DEF HarmlessMove, RecoverOnly

LEMMA GotoMoves ==
    ASSUME IInv, NEW t \in Tasks, NEW label \in Labels \ {"post", "reply", "prove"},
           label \in OperationLabels => task[t].op # None,
           label \in CallbackLabels => task[t].cb # None,
           Goto(t, label)
    PROVE  HarmlessMove(t)
<1> DEFINE r == [task[t] EXCEPT !.pc = label]
<1>1. task[t] \in Task
  BY DEF IInv, TypeOK
<1>2. r \in Task /\ r.pc = label /\ r.next = task[t].next /\ r.op = task[t].op
      /\ r.original = task[t].original /\ r.cb = task[t].cb
  BY <1>1 DEF Task
<1>3. Harmless(r)
  BY <1>2, KeepHarmless
<1> QED BY <1>3 DEF HarmlessMove, Goto

LEMMA ReturnMoves ==
    ASSUME IInv, NEW t \in Tasks, Return(t)
    PROVE  HarmlessMove(t)
<1> DEFINE r == [task[t] EXCEPT !.pc = task[t].next, !.next = "idle", !.fresh = None,
                                !.original = "NULL", !.present = FALSE, !.proof = FALSE]
<1>1. task[t] \in Task /\ task[t].next \in Labels
      /\ task[t].next \in {"idle", "selected", "fenceContext"}
  BY LabelsListed DEF IInv, TypeOK, Task
<1>2. r \in Task
  BY <1>1 DEF Task
<1>3. r.pc = task[t].next /\ r.next = "idle" /\ r.op = task[t].op /\ r.original = "NULL"
      /\ r.cb = task[t].cb
  BY <1>1 DEF Task
<1>4. Aimed(r)
  BY <1>1, <1>3 DEF IInv, TasksAimed, Aimed, OperationLabels, CallbackLabels
<1>5. Harmless(r)
  <2>1. r.pc \notin {"post", "reply", "prove"}
    BY <1>1, <1>3
  <2> QED BY <1>2, <1>3, <1>4, <2>1, FreshHarmless DEF Aimed
<1> QED BY <1>5, StopMoves DEF HarmlessMove, Return

LEMMA FoundMoves ==
    ASSUME IInv, NEW t \in Tasks, NEW op \in Operations \cup {None}, Found(t, op)
    PROVE  HarmlessMove(t)
BY StopMoves, RecoverOnlyMoves DEF Found

LEMMA RecoverMoves ==
    ASSUME IInv, NEW t \in Tasks, NEW op \in Operations \cup {None},
           NEW next \in {"idle", "selected", "fenceContext"}, Recover(t, op, next),
           next = "fenceContext" => op # None,
           next = "selected" => task[t].cb # None
    PROVE  HarmlessMove(t)
<1> DEFINE r == [Idle EXCEPT !.pc = "recoverContext", !.op = op, !.next = next,
                             !.cb = task[t].cb, !.previous = task[t].previous,
                             !.own = task[t].own]
<1>1. task[t] \in Task
  BY DEF IInv, TypeOK
<1>2. r \in Task
  BY <1>1, IdleType, LabelsListed DEF Task
<1>3. r.pc = "recoverContext" /\ r.next = next /\ r.original = "NULL" /\ r.op = op
      /\ r.cb = task[t].cb
  BY DEF Idle
<1>4. Harmless(r)
  BY <1>2, <1>3, FreshHarmless DEF Aimed, OperationLabels, CallbackLabels
<1> QED BY <1>4 DEF HarmlessMove, Recover

-----------------------------------------------------------------------------
(* The steps of a task that change no row *)

LEMMA TapStep == ASSUME IInv, NEW t \in Tasks, Tap(t) PROVE IInv'
<1>0. callbacks' \in [Callbacks -> Operations \cup {None}] /\ UNCHANGED <<intents, saas>>
  BY DEF Tap, IInv, TypeOK, JournalTypeOK, journal
<1>1. ASSUME NEW cb \in Callbacks, NEW previous \in {None} \cup {o \in Orders : order[o] = "FINAL"},
             Become(t, [Idle EXCEPT !.pc = "select", !.cb = cb, !.previous = previous, !.own = link])
      PROVE  IInv'
  <2> DEFINE r == [Idle EXCEPT !.pc = "select", !.cb = cb, !.previous = previous, !.own = link]
  <2>1. link \in Owners
    BY DEF IInv, TypeOK, SaasTypeOK
  <2>2. r \in Task
    BY <2>1, IdleType, LabelsListed DEF Task
  <2>3. r.pc = "select" /\ r.next = "idle" /\ r.original = "NULL" /\ r.cb # None
    BY OrdersAssumption DEF Idle
  <2>4. Harmless(r)
    BY <2>2, <2>3, FreshHarmless DEF Aimed, OperationLabels, CallbackLabels
  <2> QED BY <2>4, <1>0, <1>1, TaskStep
<1>2. ASSUME NEW op \in Operations, NEW kind \in {"confirm", "cancel", "reject"},
             Become(t, [Idle EXCEPT !.pc = kind, !.op = op, !.own = link])
      PROVE  IInv'
  <2> DEFINE r == [Idle EXCEPT !.pc = kind, !.op = op, !.own = link]
  <2>1. link \in Owners /\ kind \in Labels
    BY LabelsListed DEF IInv, TypeOK, SaasTypeOK
  <2>2. r \in Task
    BY <2>1, IdleType DEF Task
  <2>3. r.pc = kind /\ r.next = "idle" /\ r.original = "NULL" /\ r.op # None
        /\ r.pc \notin CallbackLabels
    BY OrdersAssumption DEF Idle, CallbackLabels
  <2>4. Harmless(r)
    BY <2>2, <2>3, FreshHarmless DEF Aimed
  <2> QED BY <2>4, <1>0, <1>2, TaskStep
<1>3. ASSUME NEW op \in Operations \cup {None}, RecoverOnly(t, op) PROVE IInv'
  BY <1>0, <1>3, RecoverOnlyMoves, MoveStep
<1> QED BY <1>1, <1>2, <1>3 DEF Tap

LEMMA ContextSteps ==
    ASSUME IInv, NEW t \in Tasks,
           \/ RecoverContext(t) \/ PrepareContext(t) \/ GetCurrent(t) \/ GetRejection(t)
    PROVE  IInv'
<1>0. /\ callbacks' \in [Callbacks -> Operations \cup {None}] /\ UNCHANGED <<intents, saas>>
      /\ task[t] \in Task /\ link \in Owners /\ Aimed(task[t])
  BY DEF TasksAimed, RecoverContext, PrepareContext, GetCurrent, GetRejection, IInv, TypeOK,
         JournalTypeOK, SaasTypeOK, journal
<1>1. CASE RecoverContext(t)
  <2> DEFINE r == [task[t] EXCEPT !.pc = "recoverRow", !.fresh = link]
  <2>1. r \in Task /\ r.pc = "recoverRow" /\ r.next = task[t].next /\ r.op = task[t].op
        /\ r.original = task[t].original /\ r.cb = task[t].cb
    BY <1>0, LabelsListed DEF Task
  <2>2. Harmless(r)
    BY <2>1, KeepHarmless DEF Aimed, OperationLabels, CallbackLabels
  <2> QED BY <1>0, <1>1, <2>2, TaskStep DEF RecoverContext
<1>2. CASE PrepareContext(t)
  <2> DEFINE r == [task[t] EXCEPT !.pc = "prepareDiscover", !.own = link]
  <2>1. r \in Task /\ r.pc = "prepareDiscover" /\ r.next = task[t].next /\ r.op = task[t].op
        /\ r.original = task[t].original /\ r.cb = task[t].cb
    BY <1>0, LabelsListed DEF Task
  <2>2. task[t].cb # None
    BY <1>0, <1>2 DEF PrepareContext, At, Aimed, CallbackLabels
  <2>3. Harmless(r)
    BY <2>1, <2>2, KeepHarmless DEF OperationLabels
  <2> QED BY <1>0, <1>2, <2>3, TaskStep DEF PrepareContext
<1>3. CASE GetCurrent(t)
  <2> DEFINE fits == Fits(task[t].fresh, task[t].previous)
             present == current[task[t].fresh] # None
             r == [task[t] EXCEPT !.pc = "observe", !.fits = fits, !.present = present]
  <2>1. fits \in BOOLEAN /\ present \in BOOLEAN
    BY DEF Fits
  <2>2. r \in Task /\ r.pc = "observe" /\ r.next = task[t].next /\ r.op = task[t].op
        /\ r.original = task[t].original /\ r.cb = task[t].cb
    <3> HIDE DEF fits, present
    <3> QED BY <1>0, <2>1, LabelsListed DEF Task
  <2>3. Harmless(r)
    <3> HIDE DEF fits, present
    <3> QED BY <2>2, KeepHarmless DEF Aimed, OperationLabels, CallbackLabels
  <2> QED BY <1>0, <1>3, <2>3, TaskStep DEF GetCurrent
<1>4. CASE GetRejection(t)
  <2> DEFINE proof == task[t].op \in fenced
             r == [task[t] EXCEPT !.pc = "prove", !.proof = proof]
  <2>1. proof \in BOOLEAN
    OBVIOUS
  <2>2. r \in Task /\ r.pc = "prove" /\ r.next = task[t].next /\ r.op = task[t].op
        /\ r.original = task[t].original /\ r.cb = task[t].cb /\ r.proof = proof
    <3> HIDE DEF proof
    <3> QED BY <1>0, <2>1, LabelsListed DEF Task
  <2>3. task[t].op # None
    BY <1>4 DEF GetRejection, At, IInv, TasksAimed, Aimed, OperationLabels
  <2>4. Harmless(r)
    BY <1>0, <2>2, <2>3 DEF Harmless, IInv, ReadsTrue, Aimed, CallbackLabels
  <2> QED BY <1>0, <1>4, <2>4, TaskStep DEF GetRejection
<1> QED BY <1>1, <1>2, <1>3, <1>4

LEMMA RowReads ==
    ASSUME IInv, NEW t \in Tasks,
           \/ RecoverRow(t) \/ GetOriginal(t) \/ FenceContext(t) \/ PrepareDiscover(t)
    PROVE  IInv'
<1>0. /\ callbacks' \in [Callbacks -> Operations \cup {None}] /\ UNCHANGED <<intents, saas>>
      /\ task[t] \in Task /\ link \in Owners /\ Aimed(task[t])
  BY DEF TasksAimed, RecoverRow, GetOriginal, FenceContext, PrepareDiscover, IInv, TypeOK,
         JournalTypeOK, SaasTypeOK, journal
<1>1. CASE RecoverRow(t)
  <2>1. ASSUME NEW op \in RowFor(t), NEW label \in {"getCurrent", "getOriginal"},
               Become(t, [task[t] EXCEPT !.op = op, !.pc = label])
        PROVE  IInv'
    <3> DEFINE r == [task[t] EXCEPT !.op = op, !.pc = label]
    <3>1. op \in Operations /\ (task[t].op # None => op = task[t].op) /\ label \in Labels
      BY <1>0, LabelsListed DEF RowFor, Active, Task
    <3>2. r \in Task /\ r.pc = label /\ r.next = task[t].next /\ r.op = op
          /\ r.original = task[t].original /\ r.cb = task[t].cb
      BY <1>0, <3>1 DEF Task
    <3>3. Harmless(r)
      BY <3>1, <3>2, KeepHarmless, OrdersAssumption DEF CallbackLabels
    <3> QED BY <1>0, <2>1, <3>3, TaskStep
  <2>2. ASSUME Goto(t, "getCurrent") PROVE IInv'
    BY <1>0, <2>2, GotoMoves, MoveStep, LabelsListed DEF Aimed, OperationLabels, CallbackLabels
  <2> QED BY <1>0, <1>1, <2>1, <2>2, StopMoves, MoveStep DEF RecoverRow
<1>2. CASE GetOriginal(t)
  <2> DEFINE original == IF order[task[t].op] = "NONE" THEN "MISSING" ELSE order[task[t].op]
             r == [task[t] EXCEPT !.pc = "getCurrent", !.original = original]
  <2>1. task[t].op # None /\ task[t].op \in Orders
    BY <1>0, <1>2, OrdersAssumption DEF GetOriginal, At, IInv, TasksAimed, Aimed, OperationLabels, Task
  <2>2. /\ original \in OrderStatus \cup {"MISSING"}
        /\ original \in OrderStatus => order[task[t].op] = original /\ original # "NONE"
    BY <2>1 DEF IInv, TypeOK, SaasTypeOK, OrderStatus
  <2>3. r \in Task /\ r.pc = "getCurrent" /\ r.next = task[t].next /\ r.op = task[t].op
        /\ r.original = original /\ r.cb = task[t].cb
    <3> HIDE DEF original
    <3> QED BY <1>0, <2>2, LabelsListed DEF Task
  <2>4. Harmless(r)
    <3> HIDE DEF original
    <3> QED BY <1>0, <2>1, <2>2, <2>3 DEF Harmless, Aimed, CallbackLabels
  <2> QED BY <1>0, <1>2, <2>4, TaskStep DEF GetOriginal
<1>3. CASE FenceContext(t)
  <2> DEFINE r == [task[t] EXCEPT !.pc = "fence", !.fresh = link]
  <2>1. r \in Task /\ r.pc = "fence" /\ r.next = task[t].next /\ r.op = task[t].op
        /\ r.original = task[t].original /\ r.cb = task[t].cb
    BY <1>0, LabelsListed DEF Task
  <2>2. task[t].op # None
    BY <1>3 DEF FenceContext, At, IInv, TasksAimed, Aimed, OperationLabels
  <2>3. Harmless(r)
    BY <2>1, <2>2, KeepHarmless DEF CallbackLabels
  <2> QED BY <1>0, <1>3, <2>3, StopMoves, MoveStep, TaskStep DEF FenceContext
<1>4. CASE PrepareDiscover(t)
  <2>1. ASSUME NEW op \in Active, 
               Become(t, [task[t] EXCEPT !.pc = "prepareAttach", !.op = op, !.original = "NULL"])
        PROVE  IInv'
    <3> DEFINE r == [task[t] EXCEPT !.pc = "prepareAttach", !.op = op, !.original = "NULL"]
    <3>1. op \in Operations /\ op # None
      BY OrdersAssumption DEF Active
    <3>2. r \in Task /\ r.pc = "prepareAttach" /\ r.next = task[t].next /\ r.op = op
          /\ r.original = "NULL" /\ r.cb = task[t].cb
      BY <1>0, <3>1, LabelsListed DEF Task
    <3>3. Harmless(r)
      BY <1>0, <1>4, <3>1, <3>2, FreshHarmless DEF PrepareDiscover, At, Aimed, CallbackLabels
    <3> QED BY <1>0, <2>1, <3>3, TaskStep
  <2>2. ASSUME Goto(t, "prepareCurrent") PROVE IInv'
    BY <1>0, <1>4, <2>2, GotoMoves, MoveStep, LabelsListed
       DEF PrepareDiscover, At, Aimed, OperationLabels, CallbackLabels
  <2>3. ASSUME Found(t, callbacks[task[t].cb]) PROVE IInv'
    <3>1. callbacks[task[t].cb] \in Operations \cup {None}
      BY <1>0, <1>4 DEF PrepareDiscover, At, Aimed, CallbackLabels, Task, IInv, TypeOK,
                        JournalTypeOK
    <3> QED BY <1>0, <2>3, <3>1, FoundMoves, MoveStep
  <2> QED BY <1>0, <1>4, <2>1, <2>2, <2>3, StopMoves, MoveStep DEF PrepareDiscover
<1> QED BY <1>1, <1>2, <1>3, <1>4

\* The steps of the prepare, confirm and reject entries that only decide.
LEMMA DecisionSteps ==
    ASSUME IInv, NEW t \in Tasks,
           \/ Select(t) \/ Selected(t) \/ AttachMessage(t) \/ PrepareCurrent(t)
           \/ Confirm(t) \/ ConfirmCurrent(t) \/ Reject(t) \/ FenceReply(t) \/ Abort(t)
    PROVE  IInv'
<1>0. /\ UNCHANGED <<intents, saas>> /\ task[t] \in Task /\ Aimed(task[t])
      /\ None \notin Operations \cup Callbacks
      /\ callbacks \in [Callbacks -> Operations \cup {None}]
  BY OrdersAssumption
     DEF Select, Selected, AttachMessage, Attach, PrepareCurrent, Confirm, ConfirmCurrent,
         Reject, FenceReply, Abort, IInv, TypeOK, journal, JournalTypeOK, TasksAimed
<1>1. /\ task[t].op \in Operations \cup {None}
      /\ task[t].cb \in Callbacks \cup {None}
  BY <1>0 DEF Task
<1>2. CASE Select(t)
  <2>1. task[t].cb # None /\ callbacks[task[t].cb] \in Operations \cup {None}
    BY <1>0, <1>1, <1>2 DEF Select, At, Aimed, CallbackLabels
  <2>2. callbacks' = callbacks
    BY <1>2 DEF Select, journal
  <2>3. CASE Recover(t, None, "selected")
    BY <1>0, <2>1, <2>2, <2>3, RecoverMoves, MoveStep
  <2>4. CASE RecoverOnly(t, callbacks[task[t].cb])
    BY <1>0, <2>1, <2>2, <2>4, RecoverOnlyMoves, MoveStep
  <2>5. CASE Stop(t)
    BY <1>0, <2>2, <2>5, StopMoves, MoveStep
  <2> QED BY <1>2, <2>3, <2>4, <2>5 DEF Select
<1>3. CASE Selected(t)
  <2>1. task[t].cb # None /\ callbacks' = callbacks
    BY <1>0, <1>3 DEF Selected, At, Aimed, CallbackLabels, journal
  <2>2. CASE task[t].op # None /\ Goto(t, "attach")
    BY <1>0, <2>1, <2>2, GotoMoves, MoveStep, LabelsListed
  <2>3. CASE Goto(t, "prepareContext")
    BY <1>0, <2>1, <2>3, GotoMoves, MoveStep, LabelsListed DEF OperationLabels
  <2>4. CASE Stop(t)
    BY <1>0, <2>1, <2>4, StopMoves, MoveStep
  <2> QED BY <1>3, <2>2, <2>3, <2>4 DEF Selected
<1>4. CASE AttachMessage(t)
  <2>1. task[t].cb # None /\ task[t].op # None
    BY <1>0, <1>4 DEF AttachMessage, At, Aimed, CallbackLabels, OperationLabels
  <2>2. callbacks' \in [Callbacks -> Operations \cup {None}]
    BY <1>0, <1>1, <1>4, <2>1 DEF AttachMessage, Attach, Bind, journal
  <2> QED BY <1>0, <1>1, <1>4, <2>1, <2>2, StopMoves, FoundMoves, MoveStep DEF AttachMessage
<1>5. CASE PrepareCurrent(t)
  <2>1. task[t].cb # None /\ callbacks' = callbacks
    BY <1>0, <1>5 DEF PrepareCurrent, At, Aimed, CallbackLabels, journal
  <2>2. CASE Goto(t, "insert")
    BY <1>0, <2>1, <2>2, GotoMoves, MoveStep, LabelsListed DEF OperationLabels
  <2> QED BY <1>0, <1>5, <2>1, <2>2, StopMoves, MoveStep DEF PrepareCurrent
<1>6. CASE Confirm(t)
  <2>1. task[t].op # None /\ callbacks' = callbacks
    BY <1>0, <1>6 DEF Confirm, At, Aimed, OperationLabels, journal
  <2>2. CASE Goto(t, "confirmCurrent")
    BY <1>0, <2>1, <2>2, GotoMoves, MoveStep, LabelsListed DEF CallbackLabels
  <2>3. CASE RecoverOnly(t, task[t].op)
    BY <1>0, <1>1, <2>1, <2>3, RecoverOnlyMoves, MoveStep
  <2> QED BY <1>0, <1>6, <2>1, <2>2, <2>3, StopMoves, MoveStep DEF Confirm
<1>7. CASE ConfirmCurrent(t)
  <2>1. task[t].op # None /\ callbacks' = callbacks
    BY <1>0, <1>7 DEF ConfirmCurrent, At, Aimed, OperationLabels, journal
  <2>2. CASE Goto(t, "claim")
    BY <1>0, <2>1, <2>2, GotoMoves, MoveStep, LabelsListed DEF CallbackLabels
  <2> QED BY <1>0, <1>7, <2>1, <2>2, StopMoves, MoveStep DEF ConfirmCurrent
<1>8. CASE Reject(t)
  <2>1. task[t].op # None /\ callbacks' = callbacks
    BY <1>0, <1>8 DEF Reject, At, Aimed, OperationLabels, journal
  <2>2. CASE RecoverOnly(t, task[t].op)
    BY <1>0, <1>1, <2>1, <2>2, RecoverOnlyMoves, MoveStep
  <2>3. CASE Recover(t, task[t].op, "fenceContext")
    BY <1>0, <1>1, <2>1, <2>3, RecoverMoves, MoveStep
  <2> QED BY <1>0, <1>8, <2>1, <2>2, <2>3, StopMoves, MoveStep DEF Reject
<1>9. CASE FenceReply(t)
  BY <1>0, <1>1, <1>9, RecoverOnlyMoves, MoveStep DEF FenceReply, journal
<1>10. CASE Abort(t)
  BY <1>0, <1>10, StopMoves, MoveStep DEF Abort, journal
<1> QED BY <1>2, <1>3, <1>4, <1>5, <1>6, <1>7, <1>8, <1>9, <1>10

-----------------------------------------------------------------------------
(* The steps of a task that write a row *)

\* A row that says nothing untrue of its operation.
RowFine(op, row) ==
    /\ row \in Intent
    /\ row.phase \in {"FREE", "PREPARED", "CANCELLED"} => Unsent(op) /\ row.status = "NULL"
    /\ row.phase \in Unresolved => Active \subseteq {op}
    /\ row.status = "NOT_ADMITTED" => op \in fenced /\ row.phase = "TERMINAL"
    /\ row.status \in OrderStatus => order[op] # "NONE"
    /\ row.phase = "TERMINAL" /\ row.status # "NOT_ADMITTED"
         => order[op] = "FINAL" /\ row.status = "FINAL"

LEMMA RowStep ==
    ASSUME IInv, NEW t \in Tasks, NEW r, Harmless(r), Become(t, r),
           NEW op \in Operations, NEW row, RowFine(op, row),
           intents' = [intents EXCEPT ![op] = row],
           UNCHANGED saas,
           callbacks' \in [Callbacks -> Operations \cup {None}]
    PROVE  IInv'
<1> USE DEF IInv, Harmless, Become, saas
<1>1. TypeOK'
  BY DEF TypeOK, JournalTypeOK, SaasTypeOK, RowFine
<1>2. TasksAimed'
  BY DEF TasksAimed, TypeOK
<1>0. intents'[op] = row /\ \A q \in Operations \ {op} : intents'[q] = intents[q]
  BY DEF TypeOK, JournalTypeOK
<1>3. UnsentUntilClaimed'
  BY <1>0 DEF UnsentUntilClaimed, Unsent, At, TypeOK, RowFine
<1>4. OneUnresolved'
  BY <1>0 DEF OneUnresolved, Active, RowFine
<1>5. OneSender'
  BY DEF OneSender, At, TypeOK
<1>6. SentOnce' /\ FenceHolds'
  BY DEF SentOnce, FenceHolds
<1>7. RowTrue'
  BY <1>0 DEF RowTrue, RowFine
<1>8. ReadsTrue'
  BY DEF ReadsTrue, At, TypeOK
<1> QED BY <1>1, <1>2, <1>3, <1>4, <1>5, <1>6, <1>7, <1>8

LEMMA PhaseRow ==
    ASSUME IInv, NEW op \in Operations, NEW phase \in Phases, SetPhase(op, phase)
    PROVE  \E row \in Intent : /\ row.phase = phase /\ row.status = intents[op].status
                               /\ intents' = [intents EXCEPT ![op] = row]
<1> DEFINE row == [intents[op] EXCEPT !.phase = phase]
<1>1. intents[op] \in Intent
  BY DEF IInv, TypeOK, JournalTypeOK
<1>2. row \in Intent /\ row.phase = phase /\ row.status = intents[op].status
  BY <1>1 DEF Intent
<1> QED BY <1>2 DEF SetPhase

LEMMA WriterKnows ==
    ASSUME IInv, NEW t \in Tasks
    PROVE  /\ task[t] \in Task /\ Aimed(task[t])
           /\ task[t].op \in Operations \cup {None} /\ task[t].cb \in Callbacks \cup {None}
           /\ None \notin Operations \cup Callbacks
           /\ callbacks \in [Callbacks -> Operations \cup {None}]
           /\ intents \in [Operations -> Intent]
BY OrdersAssumption DEF IInv, TypeOK, JournalTypeOK, TasksAimed, Task

LEMMA ObserveStep == ASSUME IInv, NEW t \in Tasks, ObserveOriginal(t) PROVE IInv'
<1> DEFINE op == task[t].op
           original == task[t].original
<1>0. UNCHANGED saas
  BY DEF ObserveOriginal
<1>1. CASE UNCHANGED journal /\ (Return(t) \/ Stop(t))
  BY <1>0, <1>1, WriterKnows, ReturnMoves, StopMoves, MoveStep DEF journal
<1>2. CASE /\ op # None
           /\ Observe(op, task[t].fresh, Told(t))
           /\ IF original = "MISSING" THEN Goto(t, "getRejection") ELSE Return(t)
  <2>1. op \in Operations /\ original \in OrderStatus \cup {"NULL", "MISSING"}
    BY <1>2, WriterKnows DEF Task
  <2>2. HarmlessMove(t)
    <3>1. CASE Goto(t, "getRejection")
      BY <1>2, <3>1, GotoMoves, LabelsListed DEF CallbackLabels
    <3> QED BY <1>2, <3>1, ReturnMoves
  <2>3. callbacks' \in [Callbacks -> Operations \cup {None}]
    BY <1>2, WriterKnows DEF Observe
  <2>4. CASE original \in {"NULL", "MISSING"}
    BY <1>0, <1>2, <2>2, <2>3, <2>4, MoveStep DEF Told, Observe
  <2>5. CASE original \in OrderStatus
    <3> DEFINE phase == IF original = "FINAL" THEN "TERMINAL" ELSE intents[op].phase
               row == [intents[op] EXCEPT !.phase = phase, !.status = original]
    <3>1. MayObserve(op, task[t].fresh, original) /\ intents' = [intents EXCEPT ![op] = row]
      BY <1>2, <2>5, WriterKnows, <2>1 DEF Told, Observe, OrderStatus
    <3>2. /\ row \in Intent /\ row.status = original
          /\ row.phase = phase
      <4>1. intents[op] \in Intent /\ phase \in Phases \cup {"FREE"}
        BY <2>1, WriterKnows DEF Intent, Phases
      <4> HIDE DEF phase
      <4> QED BY <2>5, <4>1 DEF Intent
    <3>3. intents[op].phase \in {"DISPATCHED", "REJECTED", "TERMINAL"}
      BY <2>1, <2>5, <3>1, WriterKnows
         DEF MayObserve, Owned, Intent, Phases, Unresolved, OrderStatus
    <3>4. order[op] # "NONE" /\ (original = "FINAL" => order[op] = "FINAL")
      BY <2>5 DEF IInv, ReadsTrue
    <3>5. intents[op].phase \in Unresolved => Active \subseteq {op}
      BY <2>1 DEF IInv, OneUnresolved, Active
    <3>6. RowFine(op, row)
      <4> HIDE DEF row
      <4> QED BY <2>5, <3>1, <3>2, <3>3, <3>4, <3>5
              DEF RowFine, MayObserve, Unresolved, OrderStatus
    <3> HIDE DEF row
    <3> QED BY <1>0, <2>1, <2>2, <2>3, <3>1, <3>6, RowStep DEF HarmlessMove
  <2> QED BY <2>1, <2>4, <2>5
<1> QED BY <1>1, <1>2 DEF ObserveOriginal

LEMMA ProveStep == ASSUME IInv, NEW t \in Tasks, Prove(t) PROVE IInv'
<1> DEFINE op == task[t].op
<1>0. UNCHANGED saas /\ op \in Operations
  BY WriterKnows DEF Prove, At, Aimed, OperationLabels
<1>1. CASE UNCHANGED journal /\ (Return(t) \/ Stop(t))
  BY <1>0, <1>1, WriterKnows, ReturnMoves, StopMoves, MoveStep DEF journal
<1>2. CASE At(t, "prove") /\ task[t].proof /\ ProveRejected(op, task[t].fresh) /\ Return(t)
  <2> DEFINE row == [intents[op] EXCEPT !.phase = "TERMINAL", !.status = "NOT_ADMITTED"]
  <2>1. row \in Intent /\ row.phase = "TERMINAL" /\ row.status = "NOT_ADMITTED"
    BY <1>0, WriterKnows DEF Intent, Phases
  <2>2. op \in fenced
    BY <1>2 DEF IInv, ReadsTrue
  <2>3. RowFine(op, row)
    BY <2>1, <2>2 DEF RowFine, Unresolved, OrderStatus
  <2>4. intents' = [intents EXCEPT ![op] = row]
    BY <1>0, <1>2, WriterKnows DEF ProveRejected
  <2>5. callbacks' \in [Callbacks -> Operations \cup {None}]
    BY <1>2, WriterKnows DEF ProveRejected
  <2> HIDE DEF row
  <2> QED BY <1>0, <1>2, <2>3, <2>4, <2>5, ReturnMoves, RowStep DEF HarmlessMove
<1> QED BY <1>1, <1>2 DEF Prove

LEMMA InsertStep == ASSUME IInv, NEW t \in Tasks, Insert(t) PROVE IInv'
<1> DEFINE cb == task[t].cb
           own == task[t].own
<1>0. UNCHANGED saas /\ cb \in Callbacks
  BY WriterKnows DEF Insert, At, Aimed, CallbackLabels
<1>1. CASE UNCHANGED journal /\ (Stop(t) \/ Found(t, callbacks[cb]))
  BY <1>0, <1>1, WriterKnows, StopMoves, FoundMoves, MoveStep DEF journal
<1>2. ASSUME NEW op \in Operations, Reuse(op, cb, own), RecoverOnly(t, op)
      PROVE  IInv'
  <2>1. intents' = intents /\ callbacks' \in [Callbacks -> Operations \cup {None}]
    BY <1>0, <1>2, WriterKnows DEF Reuse, Bind
  <2> QED BY <1>0, <1>2, <2>1, RecoverOnlyMoves, MoveStep
<1>3. ASSUME NEW op \in Operations, Allocate(op, cb, own, task[t].previous), RecoverOnly(t, op)
      PROVE  IInv'
  <2> DEFINE row == [phase |-> "PREPARED", owner |-> own, previous |-> task[t].previous,
                     status |-> "NULL"]
  <2>1. row \in Intent
    BY WriterKnows DEF Intent, Phases, Unresolved, Task
  <2>2. Unsent(op) /\ Active = {}
    BY <1>3 DEF Allocate, IInv, UnsentUntilClaimed
  <2>3. RowFine(op, row)
    BY <2>1, <2>2 DEF RowFine, OrderStatus
  <2>4. intents' = [intents EXCEPT ![op] = row]
        /\ callbacks' \in [Callbacks -> Operations \cup {None}]
    BY <1>0, <1>3, WriterKnows DEF Allocate, Bind
  <2> HIDE DEF row
  <2> QED BY <1>0, <1>3, <2>3, <2>4, RecoverOnlyMoves, RowStep DEF HarmlessMove
<1> QED BY <1>1, <1>2, <1>3 DEF Insert

LEMMA CancelStep == ASSUME IInv, NEW t \in Tasks, Cancel(t) PROVE IInv'
<1> DEFINE op == task[t].op
<1>0. UNCHANGED saas /\ op \in Operations
  BY WriterKnows DEF Cancel, At, Aimed, OperationLabels
<1>1. CASE UNCHANGED journal /\ (RecoverOnly(t, op) \/ Stop(t))
  BY <1>0, <1>1, WriterKnows, RecoverOnlyMoves, StopMoves, MoveStep DEF journal
<1>2. CASE CancelIntent(op, task[t].own) /\ RecoverOnly(t, op)
  <2>1. PICK row \in Intent : /\ row.phase = "CANCELLED" /\ row.status = intents[op].status
                              /\ intents' = [intents EXCEPT ![op] = row]
    BY <1>0, <1>2, PhaseRow DEF CancelIntent, Phases
  <2>2. Unsent(op)
    BY <1>0, <1>2 DEF CancelIntent, IInv, UnsentUntilClaimed
  <2>3. RowFine(op, row)
    BY <2>1, <2>2 DEF RowFine, Unsent, Unresolved, OrderStatus
  <2>4. callbacks' \in [Callbacks -> Operations \cup {None}]
    BY <1>2, WriterKnows DEF CancelIntent, SetPhase
  <2> QED BY <1>0, <1>2, <2>1, <2>3, <2>4, RecoverOnlyMoves, RowStep DEF HarmlessMove
<1> QED BY <1>1, <1>2 DEF Cancel

LEMMA ReplyStep == ASSUME IInv, NEW t \in Tasks, Reply(t) PROVE IInv'
<1> DEFINE op == task[t].op
<1>0. UNCHANGED saas /\ op \in Operations /\ RecoverOnly(t, op)
  BY WriterKnows DEF Reply, At, Aimed, OperationLabels
<1>1. CASE UNCHANGED journal
  BY <1>0, <1>1, WriterKnows, RecoverOnlyMoves, MoveStep DEF journal
<1>2. CASE Rejected(op, task[t].own)
  <2>1. PICK row \in Intent : /\ row.phase = "REJECTED" /\ row.status = intents[op].status
                              /\ intents' = [intents EXCEPT ![op] = row]
    BY <1>0, <1>2, PhaseRow DEF Rejected, Phases, Unresolved
  <2>2. /\ Active \subseteq {op}
        /\ row.status # "NOT_ADMITTED"
        /\ row.status \in OrderStatus => order[op] # "NONE"
    BY <1>0, <1>2, <2>1 DEF Rejected, IInv, OneUnresolved, Active, Unresolved, RowTrue
  <2>3. RowFine(op, row)
    BY <2>1, <2>2 DEF RowFine
  <2>4. callbacks' \in [Callbacks -> Operations \cup {None}]
    BY <1>2, WriterKnows DEF Rejected, SetPhase
  <2> QED BY <1>0, <1>2, <2>1, <2>3, <2>4, RecoverOnlyMoves, RowStep DEF HarmlessMove
<1> QED BY <1>1, <1>2 DEF Reply

\* The claim makes its task the only sender of a still unsent operation.
LEMMA ClaimStep == ASSUME IInv, NEW t \in Tasks, Claim(t) PROVE IInv'
<1> DEFINE op == task[t].op
<1>0. UNCHANGED saas /\ op \in Operations
  BY WriterKnows DEF Claim, At, Aimed, OperationLabels
<1>1. CASE UNCHANGED journal /\ (RecoverOnly(t, op) \/ Stop(t))
  BY <1>0, <1>1, WriterKnows, RecoverOnlyMoves, StopMoves, MoveStep DEF journal
<1>2. CASE ClaimConfirmed(op, task[t].own) /\ Goto(t, "post")
  <2> DEFINE r == [task[t] EXCEPT !.pc = "post"]
  <2>1. PICK row \in Intent : /\ row.phase = "DISPATCHED" /\ row.status = intents[op].status
                              /\ intents' = [intents EXCEPT ![op] = row]
    BY <1>0, <1>2, PhaseRow DEF ClaimConfirmed, Phases, Unresolved
  <2>2. Unsent(op) /\ Active \subseteq {op}
    BY <1>0, <1>2
       DEF ClaimConfirmed, IInv, UnsentUntilClaimed, OneUnresolved, Active, Unresolved
  <2>3. /\ r \in Task /\ r.pc = "post" /\ r.op = op /\ r.original = task[t].original
        /\ r.next = task[t].next /\ r.cb = task[t].cb
    BY WriterKnows, LabelsListed DEF Task
  <2>4. task' = [task EXCEPT ![t] = r] /\ callbacks' = callbacks
    BY <1>2 DEF Goto, Become, ClaimConfirmed, SetPhase
  <2>5. intents'[op] = row /\ \A q \in Operations \ {op} : intents'[q] = intents[q]
    BY <1>0, <2>1, WriterKnows
  <2>6. task'[t] = r /\ \A u \in Tasks \ {t} : task'[u] = task[u]
    BY <2>4 DEF IInv, TypeOK
  <2> HIDE DEF r
  <2> USE DEF IInv, saas
  <2>10. TypeOK'
    BY <1>0, <2>1, <2>3, <2>4 DEF TypeOK, JournalTypeOK, SaasTypeOK
  <2>11. TasksAimed'
    BY <1>0, <2>3, <2>6, WriterKnows
       DEF TasksAimed, Aimed, OperationLabels, CallbackLabels
  <2>12. UnsentUntilClaimed'
    <3>1. \A u \in Tasks, q \in Operations \ {op} :
             task'[u].op = q => task[u].op = q /\ task'[u].pc = task[u].pc
      BY <2>3, <2>6
    <3> QED BY <1>0, <2>1, <2>5, <3>1 DEF UnsentUntilClaimed, Unsent, At
  <2>13. OneUnresolved'
    BY <2>2, <2>5 DEF OneUnresolved, Active
  <2>14. OneSender'
    BY <1>0, <2>2, <2>3, <2>6 DEF OneSender, At, Unsent
  <2>15. SentOnce' /\ FenceHolds'
    BY <1>0 DEF SentOnce, FenceHolds
  <2>16. RowTrue'
    BY <1>0, <2>1, <2>2, <2>5 DEF RowTrue, Unsent, OrderStatus
  <2>17. ReadsTrue'
    BY <1>0, <2>3, <2>6 DEF ReadsTrue, At
  <2> QED BY <2>10, <2>11, <2>12, <2>13, <2>14, <2>15, <2>16, <2>17
<1> QED BY <1>1, <1>2 DEF Claim

\* The send uses up the claim.
LEMMA PostStep == ASSUME IInv, NEW t \in Tasks, Post(t) PROVE IInv'
<1> DEFINE op == task[t].op
           r == [task[t] EXCEPT !.pc = "reply"]
<1>0. At(t, "post") /\ op \in Operations
  BY WriterKnows DEF Post, At, Aimed, OperationLabels
<1>1. /\ UNCHANGED <<intents, callbacks, order, current, fenced, link, rejects>>
      /\ inflight' = inflight \cup {op} /\ posts' = [posts EXCEPT ![op] = @ + 1]
      /\ task' = [task EXCEPT ![t] = r]
  BY DEF Post, journal, Goto, Become
<1>2. /\ r \in Task /\ r.pc = "reply" /\ r.op = op /\ r.original = task[t].original
      /\ r.next = task[t].next /\ r.cb = task[t].cb
  BY WriterKnows, LabelsListed DEF Task
<1>3. task'[t] = r /\ \A u \in Tasks \ {t} : task'[u] = task[u]
  BY <1>1 DEF IInv, TypeOK
<1>4. posts[op] = 0 /\ order[op] = "NONE" /\ posts \in [Operations -> Nat]
      /\ \A u \in Tasks \ {t} : task[u].op = op => ~At(u, "post")
  BY <1>0 DEF IInv, OneSender, SentOnce, TypeOK, SaasTypeOK
<1>5. posts'[op] = 1 /\ \A q \in Operations \ {op} : posts'[q] = posts[q]
  BY <1>0, <1>1, <1>4
<1>6. intents[op].phase \notin {"FREE", "PREPARED", "CANCELLED"}
  BY <1>0 DEF IInv, UnsentUntilClaimed, Unsent
<1> HIDE DEF r
<1> USE DEF IInv
<1>10. TypeOK'
  BY <1>0, <1>1, <1>2, <1>4 DEF TypeOK, JournalTypeOK, SaasTypeOK
<1>11. TasksAimed'
  BY <1>1, <1>2, <1>3, <1>0, WriterKnows DEF TasksAimed, Aimed, OperationLabels, CallbackLabels
<1>12. UnsentUntilClaimed'
  <2>1. \A u \in Tasks, q \in Operations \ {op} :
           task'[u].op = q => task[u].op = q /\ task'[u].pc = task[u].pc
    BY <1>2, <1>3
  <2> QED BY <1>1, <1>5, <1>6, <2>1 DEF UnsentUntilClaimed, Unsent, At
<1>13. OneUnresolved' /\ FenceHolds' /\ RowTrue'
  BY <1>1 DEF OneUnresolved, Active, FenceHolds, RowTrue
<1>14. OneSender'
  <2>1. \A u \in Tasks : task'[u].pc = "post" =>
           u # t /\ task[u].pc = "post" /\ task'[u].op = task[u].op /\ task[u].op # op
    BY <1>2, <1>3, <1>4 DEF At
  <2>2. \A u \in Tasks : task[u].pc = "post" => task[u].op \in Operations
    BY WriterKnows DEF Aimed, OperationLabels
  <2> QED BY <1>5, <2>1, <2>2 DEF OneSender, At
<1>15. SentOnce'
  BY <1>1, <1>4, <1>5 DEF SentOnce
<1>16. ReadsTrue'
  BY <1>1, <1>2, <1>3 DEF ReadsTrue, At
<1> QED BY <1>10, <1>11, <1>12, <1>13, <1>14, <1>15, <1>16

LEMMA FenceStep == ASSUME IInv, NEW t \in Tasks, Fence(t) PROVE IInv'
<1> DEFINE op == task[t].op
<1>0. /\ UNCHANGED <<journal, order, current, fenced, link, inflight, posts>>
      /\ op \in Operations /\ At(t, "fence")
  BY WriterKnows DEF Fence, At, Aimed, OperationLabels
<1>1. CASE rejects' = rejects /\ Stop(t)
  BY <1>0, <1>1, WriterKnows, StopMoves, MoveStep DEF journal, saas
<1>2. CASE Undecided(op) /\ rejects' = rejects \cup {op} /\ Goto(t, "fenceReply")
  <2>1. PICK r : Harmless(r) /\ Become(t, r)
    BY <1>0, <1>2, WriterKnows, GotoMoves, LabelsListed DEF HarmlessMove, CallbackLabels
  <2> USE <1>0, <1>2, <2>1 DEF IInv, journal, Harmless, Become
  <2>2. TypeOK'
    BY DEF TypeOK, JournalTypeOK, SaasTypeOK
  <2>3. TasksAimed'
    BY DEF TasksAimed, TypeOK
  <2>4. UnsentUntilClaimed'
    BY DEF UnsentUntilClaimed, Unsent, At, TypeOK, Undecided
  <2>5. OneUnresolved' /\ SentOnce' /\ FenceHolds' /\ RowTrue'
    BY DEF OneUnresolved, Active, SentOnce, FenceHolds, RowTrue
  <2>6. OneSender' /\ ReadsTrue'
    BY DEF OneSender, ReadsTrue, At, TypeOK
  <2> QED BY <2>2, <2>3, <2>4, <2>5, <2>6
<1> QED BY <1>1, <1>2 DEF Fence

-----------------------------------------------------------------------------
(* The steps of the server, the network and the provider *)

LEMMA SaasStep == ASSUME IInv, SaasNext, UNCHANGED task PROVE IInv'
<1>0. UNCHANGED journal
  BY DEF SaasNext, Admit, Refuse, LoseCreate, HandleReject, LoseReject, Settle,
         OrderElsewhere, Relink
<1> USE DEF IInv, journal
<1>1. UNCHANGED posts /\ TasksAimed' /\ OneUnresolved' /\ OneSender'
  BY <1>0 DEF TasksAimed, OneUnresolved, Active, OneSender, At, SaasNext, Admit, Refuse,
              LoseCreate, HandleReject, LoseReject, Settle, OrderElsewhere, Relink
<1>2. \A op \in Operations : order[op] # "NONE" \/ op \in inflight \cup rejects
          => intents[op].phase \notin {"FREE", "PREPARED", "CANCELLED"}
  BY DEF UnsentUntilClaimed, Unsent
<1>3. ASSUME NEW op \in Operations,
             Refuse(op) \/ LoseCreate(op) \/ HandleReject(op) \/ LoseReject(op)
      PROVE  IInv'
  <2> USE <1>3 DEF Refuse, LoseCreate, HandleReject, LoseReject
  <2>1. TypeOK'
    BY <1>0 DEF TypeOK, JournalTypeOK, SaasTypeOK
  <2>2. UnsentUntilClaimed'
    BY <1>0, <1>2 DEF UnsentUntilClaimed, Unsent, At
  <2>3. SentOnce' /\ FenceHolds'
    BY DEF SentOnce, FenceHolds
  <2>4. RowTrue' /\ ReadsTrue'
    BY <1>0 DEF RowTrue, ReadsTrue, At
  <2> QED BY <1>1, <2>1, <2>2, <2>3, <2>4
<1>4. ASSUME NEW o \in Orders, NEW own, order[o] = "NONE",
             Open(o, own), UNCHANGED <<fenced, link, rejects>>,
             \/ o \notin Operations /\ UNCHANGED inflight
             \/ o \in inflight \ fenced /\ inflight' = inflight \ {o}
      PROVE  IInv'
  <2>1. /\ order' = [order EXCEPT ![o] = "PENDING"]
        /\ order'[o] = "PENDING" /\ \A q \in Orders \ {o} : order'[q] = order[q]
    BY <1>4 DEF Open, TypeOK, SaasTypeOK
  <2>2. TypeOK'
    BY <1>0, <1>1, <1>4, <2>1 DEF Open, TypeOK, JournalTypeOK, SaasTypeOK, OrderStatus
  <2>3. UnsentUntilClaimed'
    BY <1>0, <1>1, <1>2, <1>4, <2>1, OrdersAssumption DEF UnsentUntilClaimed, Unsent, At
  <2>4. SentOnce' /\ FenceHolds'
    BY <1>1, <1>4, <2>1, <2>2, OrdersAssumption
       DEF SentOnce, FenceHolds, TypeOK, SaasTypeOK
  <2>5. RowTrue'
    BY <1>0, <1>4, <2>1, OrdersAssumption DEF RowTrue, OrderStatus
  <2>6. ReadsTrue'
    BY <1>0, <1>4, <2>1, WriterKnows, OrdersAssumption DEF ReadsTrue, At
  <2> QED BY <1>1, <2>2, <2>3, <2>4, <2>5, <2>6
<1>5. ASSUME NEW o \in Orders, Settle(o) PROVE IInv'
  <2>1. /\ order[o] = "PENDING" /\ order'[o] = "FINAL"
        /\ \A q \in Orders \ {o} : order'[q] = order[q]
        /\ order' = [order EXCEPT ![o] = "FINAL"]
        /\ UNCHANGED <<current, fenced, link, inflight, rejects>>
    BY <1>5 DEF Settle, TypeOK, SaasTypeOK
  <2>2. TypeOK'
    BY <1>0, <1>1, <2>1 DEF TypeOK, JournalTypeOK, SaasTypeOK, OrderStatus
  <2>3. UnsentUntilClaimed'
    BY <1>0, <1>1, <2>1, OrdersAssumption DEF UnsentUntilClaimed, Unsent, At
  <2>4. SentOnce' /\ FenceHolds'
    BY <1>1, <2>1, OrdersAssumption DEF SentOnce, FenceHolds, TypeOK, SaasTypeOK
  <2>5. RowTrue'
    BY <1>0, <2>1, OrdersAssumption DEF RowTrue, OrderStatus
  <2>6. ReadsTrue'
    BY <1>0, <2>1, WriterKnows, OrdersAssumption DEF ReadsTrue, At
  <2> QED BY <1>1, <2>2, <2>3, <2>4, <2>5, <2>6
<1>6. CASE Relink
  <2> USE <1>6 DEF Relink
  <2>1. TypeOK'
    BY <1>0 DEF TypeOK, JournalTypeOK, SaasTypeOK
  <2>2. UnsentUntilClaimed' /\ SentOnce' /\ FenceHolds' /\ RowTrue' /\ ReadsTrue'
    BY <1>0 DEF UnsentUntilClaimed, Unsent, SentOnce, FenceHolds, RowTrue, ReadsTrue, At
  <2> QED BY <1>1, <2>1, <2>2
<1>7. ASSUME NEW op \in Operations, Admit(op) PROVE IInv'
  BY <1>4, <1>7, OrdersAssumption DEF Admit
<1>8. ASSUME NEW o \in WebOrders, NEW own \in Owners, OrderElsewhere(o, own) PROVE IInv'
  BY <1>4, <1>8 DEF OrderElsewhere, WebOrders
<1> QED BY <1>3, <1>5, <1>6, <1>7, <1>8 DEF SaasNext

-----------------------------------------------------------------------------
(* The theorems *)

LEMMA InitHolds == Init => IInv
<1> SUFFICES ASSUME Init PROVE IInv
  OBVIOUS
<1> USE DEF Init, JournalInit, SaasInit
<1>1. \A t \in Tasks : task[t] = Idle
  OBVIOUS
<1>2. \A op \in Operations : intents[op] = FreeIntent /\ posts[op] = 0 /\ order[op] = "NONE"
  BY OrdersAssumption
<1>3. FreeIntent \in Intent
  BY DEF FreeIntent, Intent
<1>4. TypeOK
  BY <1>3, IdleType DEF TypeOK, JournalTypeOK, SaasTypeOK
<1>5. TasksAimed /\ OneSender /\ ReadsTrue
  BY <1>1 DEF Idle, TasksAimed, Aimed, OneSender, ReadsTrue, At, OperationLabels,
              CallbackLabels, OrderStatus
<1>6. UnsentUntilClaimed
  BY <1>1, <1>2 DEF UnsentUntilClaimed, Unsent, FreeIntent, Idle, At
<1>7. OneUnresolved /\ SentOnce /\ FenceHolds /\ RowTrue
  BY <1>2 DEF OneUnresolved, Active, SentOnce, FenceHolds, RowTrue, FreeIntent, Unresolved,
              OrderStatus
<1> QED BY <1>4, <1>5, <1>6, <1>7 DEF IInv

LEMMA StepHolds == IInv /\ [Next]_vars => IInv'
<1> SUFFICES ASSUME IInv, [Next]_vars PROVE IInv'
  OBVIOUS
<1>1. CASE UNCHANGED vars
  BY <1>1 DEF vars, journal, saas, IInv, TypeOK, JournalTypeOK, SaasTypeOK, TasksAimed,
              UnsentUntilClaimed, Unsent, OneUnresolved, Active, OneSender, SentOnce,
              FenceHolds, RowTrue, ReadsTrue, At
<1>2. ASSUME NEW t \in Tasks, TaskNext(t) PROVE IInv'
  BY <1>2, TapStep, ContextSteps, RowReads, DecisionSteps, ObserveStep, ProveStep, InsertStep,
     CancelStep, ReplyStep, ClaimStep, PostStep, FenceStep DEF TaskNext
<1>3. CASE SaasNext /\ UNCHANGED task
  BY <1>3, SaasStep
<1> QED BY <1>1, <1>2, <1>3 DEF Next

\* The whole state invariant, on any number of handlers, operations, buttons,
\* orders and owners (checkout_intents.py under checkout_coordinator.py).
THEOREM InvariantHolds == Spec => []IInv
BY InitHolds, StepHolds, PTL DEF Spec

\* Rows, messages on the network and handlers stay within their types.
THEOREM TypeCorrect == Spec => []TypeOK
<1>1. IInv => TypeOK
  BY DEF IInv
<1> QED BY <1>1, InvariantHolds, PTL

\* No operation's create request is ever sent twice (claim_confirmed).
THEOREM PostedOnce == Spec => []AtMostOnePost
<1>1. IInv => AtMostOnePost
  BY DEF IInv, SentOnce, AtMostOnePost
<1> QED BY <1>1, InvariantHolds, PTL

\* What was cancelled or proved refused has no order and gets none (cancel,
\* prove_rejected).
THEOREM ClosedStaysWithoutOrder == Spec => []ClosedWithoutOrder
<1>1. IInv => ClosedWithoutOrder
  BY DEF IInv, UnsentUntilClaimed, Unsent, FenceHolds, RowTrue, ClosedWithoutOrder
<1> QED BY <1>1, InvariantHolds, PTL

\* What observe closed is settled on the server.
THEOREM SettledStaysTrue == Spec => []SettledIsTrue
<1>1. IInv => SettledIsTrue
  BY DEF IInv, RowTrue, SettledIsTrue
<1> QED BY <1>1, InvariantHolds, PTL

\* Of all purchases of a user at most one can be paid or can still come to be
\* payable (the index checkout_intent_unresolved).
THEOREM OneLiveAlways == Spec => []OneLivePurchase
<1>1. ASSUME IInv, NEW op \in Operations, Live(op) PROVE op \in Active
  <2> USE DEF IInv
  <2>1. order[op] = "PENDING" \/ (order[op] = "NONE" /\ op \notin fenced)
    BY <1>1 DEF Live, OneSender, SentOnce, TypeOK, SaasTypeOK, OrderStatus
  <2>2. intents[op].phase \notin {"FREE", "PREPARED", "CANCELLED"}
    BY <1>1 DEF Live, UnsentUntilClaimed, Unsent, At
  <2>3. intents[op].phase # "TERMINAL"
    BY <1>1, <2>1 DEF RowTrue, FenceHolds
  <2>4. intents[op].phase \in Phases \cup {"FREE"}
    BY <1>1 DEF TypeOK, JournalTypeOK, Intent
  <2> QED BY <2>2, <2>3, <2>4 DEF Active, Phases, Unresolved
<1>2. IInv => OneLivePurchase
  BY <1>1 DEF OneLivePurchase, IInv, OneUnresolved
<1> QED BY <1>2, InvariantHolds, PTL

\* A bound message button is never bound again (prepare, attach).
THEOREM CallbacksStayBound == Spec => CallbackKept
<1>1. ASSUME IInv, [Next]_vars, NEW cb \in Callbacks, callbacks[cb] # None
      PROVE  callbacks'[cb] = callbacks[cb]
  <2>1. CASE UNCHANGED callbacks
    BY <2>1
  <2>2. ASSUME NEW own, NEW op, NEW key, NEW previous,
               \/ Attach(op, key, own) \/ Reuse(op, key, own) \/ Allocate(op, key, own, previous)
        PROVE  callbacks'[cb] = callbacks[cb]
    BY <1>1, <2>2 DEF Attach, Reuse, Allocate, Bind, IInv, TypeOK, JournalTypeOK
  <2>3. ASSUME NEW t \in Tasks, TaskNext(t) PROVE callbacks'[cb] = callbacks[cb]
    <3>1. CASE AttachMessage(t)
      BY <2>1, <2>2, <3>1 DEF AttachMessage, journal
    <3>2. CASE Insert(t)
      BY <2>1, <2>2, <3>2 DEF Insert, journal
    <3>3. CASE ~AttachMessage(t) /\ ~Insert(t)
      BY <2>1, <2>3, <3>3
         DEF TaskNext, journal, Tap, Abort, RecoverContext, RecoverRow, GetOriginal, GetCurrent,
             ObserveOriginal, Observe, GetRejection, Prove, ProveRejected, Select, Selected,
             PrepareContext, PrepareDiscover, PrepareCurrent, Confirm, ConfirmCurrent, Claim,
             ClaimConfirmed, SetPhase, Post, Reply, Rejected, Cancel, CancelIntent, Reject,
             FenceContext, Fence, FenceReply
    <3> QED BY <3>1, <3>2, <3>3
  <2>4. CASE SaasNext
    BY <2>1, <2>4 DEF SaasNext, journal, Admit, Refuse, LoseCreate, HandleReject, LoseReject,
                      Settle, OrderElsewhere, Relink
  <2> QED BY <1>1, <2>1, <2>3, <2>4 DEF Next, vars, journal
<1>2. IInv /\ [Next]_vars
        => [\A cb \in Callbacks : callbacks[cb] # None => callbacks'[cb] = callbacks[cb]]_vars
  BY <1>1
<1> QED BY <1>2, InvariantHolds, PTL DEF Spec, CallbackKept

-----------------------------------------------------------------------------
(* The refinement: Checkout implements CheckoutPromise.                        *)

\* Nothing an intent's life depends on changed.
LEMMA Stutter ==
    ASSUME UNCHANGED <<intents, order>> PROVE UNCHANGED <<life, ordered>>
BY DEF life, ordered

\* The lives of the other intents, and the orders, stay as they are when one
\* row is written.
LEMMA OneLifeMoves ==
    ASSUME IInv, NEW op \in Operations, NEW row,
           intents' = [intents EXCEPT ![op] = row], UNCHANGED order
    PROVE  /\ ordered' = ordered
           /\ \A q \in Operations \ {op} : life'[q] = life[q]
           /\ life' = [life EXCEPT ![op] = life'[op]]
           /\ intents'[op] = row
<1>1. intents'[op] = row /\ \A q \in Operations \ {op} : intents'[q] = intents[q]
  BY DEF IInv, TypeOK, JournalTypeOK
<1>2. \A q \in Operations \ {op} : life'[q] = life[q]
  BY <1>1 DEF life
<1>3. life' = [life EXCEPT ![op] = life'[op]]
  <2>1. life = [q \in Operations |-> life[q]] /\ life' = [q \in Operations |-> life'[q]]
    BY DEF life
  <2> QED BY <1>2, <2>1, Zenon
<1> QED BY <1>1, <1>2, <1>3 DEF ordered

LEMMA RowsExist == ASSUME IInv, NEW op \in Operations PROVE intents[op] \in Intent
BY DEF IInv, TypeOK, JournalTypeOK

\* An unused or withdrawn or offered intent is no order.
LEMMA LifeOf ==
    ASSUME IInv, NEW op \in Operations
    PROVE  /\ intents[op].phase = "FREE" => life[op] = "Unused"
           /\ intents[op].phase = "PREPARED" => life[op] = "Offered" /\ order[op] = "NONE"
           /\ intents[op].phase = "CANCELLED" => life[op] = "Withdrawn"
           /\ intents[op].phase \in {"DISPATCHED", "REJECTED"}
                => life[op] = IF order[op] = "NONE" THEN "Committed" ELSE "Ordered"
           /\ intents[op].phase = "TERMINAL"
                => life[op] = IF intents[op].status = "NOT_ADMITTED" THEN "Refused" ELSE "Settled"
           /\ life[op] \in {"Offered", "Committed", "Ordered"} <=> op \in Active
<1>1. intents[op].phase \in {"FREE", "PREPARED", "DISPATCHED", "REJECTED", "TERMINAL", "CANCELLED"}
  BY RowsExist DEF Intent, Phases, Unresolved
<1>2. intents[op].phase = "PREPARED" => order[op] = "NONE"
  BY DEF IInv, UnsentUntilClaimed, Unsent
<1> QED BY <1>1, <1>2 DEF life, Active, Unresolved

\* The effect of each write on the promise: it is a step of it, or none.
PromiseStep == Promise!Next \/ UNCHANGED <<life, ordered>>

LEMMA MoveIsStep ==
    ASSUME NEW op \in Operations, NEW from, NEW to,
           life[op] = from, life' = [life EXCEPT ![op] = to], ordered' = ordered,
           \/ from = "Unused" /\ to = "Offered" /\ Promise!OpenIntents = {}
           \/ from = "Offered" /\ to \in {"Withdrawn", "Committed"}
           \/ from = "Committed" /\ to = "Refused"
           \/ from = "Ordered" /\ to = "Settled"
    PROVE  Promise!Next
<1>1. life'[op] = to
  <2>1. DOMAIN life = Operations
    BY DEF life
  <2> QED BY <2>1
<1>2. Promise!Move(op, from, to)
  BY <1>1 DEF Promise!Move
<1> QED BY <1>2 DEF Promise!Next, Promise!Offer, Promise!Withdraw, Promise!Commit,
                    Promise!Refuse, Promise!Settle

LEMMA AllocateIsOffer ==
    ASSUME IInv, IInv', NEW op \in Operations, NEW cb, NEW own, NEW previous,
           Allocate(op, cb, own, previous), UNCHANGED order
    PROVE  Promise!Next
<1> DEFINE row == [phase |-> "PREPARED", owner |-> own, previous |-> previous, status |-> "NULL"]
<1>1. intents' = [intents EXCEPT ![op] = row] /\ intents[op].phase = "FREE" /\ Active = {}
  BY DEF Allocate
<1>2. ordered' = ordered /\ life' = [life EXCEPT ![op] = life'[op]] /\ intents'[op] = row
  BY <1>1, OneLifeMoves
<1>3. life[op] = "Unused" /\ life'[op] = "Offered"
  BY <1>1, <1>2, LifeOf DEF life
<1>4. Promise!OpenIntents = {}
  BY <1>1, LifeOf DEF Promise!OpenIntents
<1> QED BY <1>2, <1>3, <1>4, MoveIsStep

LEMMA SetPhaseIsStep ==
    ASSUME IInv, NEW op \in Operations, NEW own, UNCHANGED order,
           ClaimConfirmed(op, own) \/ CancelIntent(op, own) \/ Rejected(op, own)
    PROVE  PromiseStep
<1> DEFINE to == intents'[op].phase
<1>1. PICK row \in Intent : /\ row.phase \in {"DISPATCHED", "CANCELLED", "REJECTED"}
                            /\ row.status = intents[op].status
                            /\ intents' = [intents EXCEPT ![op] = row]
                            /\ row.phase = "REJECTED" <=> intents[op].phase = "DISPATCHED"
                            /\ row.phase # "REJECTED" => intents[op].phase = "PREPARED"
  BY PhaseRow DEF ClaimConfirmed, CancelIntent, Rejected, Phases, Unresolved
<1>2. ordered' = ordered /\ life' = [life EXCEPT ![op] = life'[op]] /\ intents'[op] = row
  BY <1>1, OneLifeMoves
<1>3. CASE row.phase # "REJECTED"
  <2>1. life[op] = "Offered" /\ order[op] = "NONE"
    BY <1>1, <1>3, LifeOf
  <2>2. life'[op] \in {"Withdrawn", "Committed"}
    BY <1>1, <1>2, <1>3, <2>1 DEF life
  <2> QED BY <1>2, <2>1, <2>2, MoveIsStep DEF PromiseStep
<1>4. CASE row.phase = "REJECTED"
  <2>1. life'[op] = life[op]
    BY <1>1, <1>2, <1>4 DEF life
  <2>2. life = [life EXCEPT ![op] = life[op]]
    BY DEF life
  <2>3. life' = life
    BY <1>2, <2>1, <2>2, Zenon
  <2> QED BY <1>2, <2>3 DEF PromiseStep
<1> QED BY <1>3, <1>4

LEMMA ProofIsRefusal ==
    ASSUME IInv, NEW t \in Tasks, At(t, "prove"), task[t].proof,
           ProveRejected(task[t].op, task[t].fresh), UNCHANGED order
    PROVE  PromiseStep
<1> DEFINE op == task[t].op
           row == [intents[op] EXCEPT !.phase = "TERMINAL", !.status = "NOT_ADMITTED"]
<1>1. op \in Operations /\ order[op] = "NONE"
  BY WriterKnows DEF At, Aimed, OperationLabels, IInv, ReadsTrue, FenceHolds
<1>2. intents' = [intents EXCEPT ![op] = row]
  BY <1>1, WriterKnows DEF ProveRejected
<1>3. row.phase = "TERMINAL" /\ row.status = "NOT_ADMITTED"
  BY <1>1, WriterKnows DEF Intent
<1> HIDE DEF row
<1>4. ordered' = ordered /\ life' = [life EXCEPT ![op] = life'[op]] /\ intents'[op] = row
  BY <1>1, <1>2, OneLifeMoves
<1>5. life'[op] = "Refused"
  BY <1>1, <1>3, <1>4 DEF life
<1>6. life[op] \in {"Committed", "Refused"}
  BY <1>1, LifeOf DEF ProveRejected, MayProveRejected, Undecided
<1>7. CASE life[op] = "Committed"
  BY <1>1, <1>4, <1>5, <1>7, MoveIsStep DEF PromiseStep
<1>8. CASE life[op] = "Refused"
  <2>1. life = [life EXCEPT ![op] = life[op]]
    BY DEF life
  <2>2. life' = life
    BY <1>4, <1>5, <1>8, <2>1, Zenon
  <2> QED BY <1>4, <2>2 DEF PromiseStep
<1> QED BY <1>6, <1>7, <1>8

LEMMA ObservationSettles ==
    ASSUME IInv, NEW t \in Tasks, task[t].op # None, Told(t) = "MISSING" \/ Told(t) = task[t].original,
           Told(t) \in OrderStatus \cup {"MISSING"},
           Observe(task[t].op, task[t].fresh, Told(t)), UNCHANGED order
    PROVE  PromiseStep
<1> DEFINE op == task[t].op
           phase == IF Told(t) = "FINAL" THEN "TERMINAL" ELSE intents[op].phase
           row == [intents[op] EXCEPT !.phase = phase, !.status = Told(t)]
<1>1. op \in Operations
  BY WriterKnows
<1>2. CASE Told(t) = "MISSING"
  BY <1>2, Stutter DEF Observe, PromiseStep
<1>3. CASE Told(t) \in OrderStatus
  <2>1. intents' = [intents EXCEPT ![op] = row] /\ MayObserve(op, task[t].fresh, Told(t))
    BY <1>3, <1>1, WriterKnows DEF Observe, OrderStatus
  <2>2. row.phase = phase /\ row.status = Told(t)
    <3>1. intents[op] \in Intent
      BY <1>1, RowsExist
    <3> HIDE DEF phase
    <3> QED BY <3>1 DEF Intent
  <2> HIDE DEF row
  <2>3. ordered' = ordered /\ life' = [life EXCEPT ![op] = life'[op]] /\ intents'[op] = row
    BY <1>1, <2>1, OneLifeMoves
  <2>4. intents[op].phase \in {"DISPATCHED", "REJECTED", "TERMINAL"}
        /\ intents[op].status # "NOT_ADMITTED"
        /\ (intents[op].phase = "TERMINAL" => Told(t) = "FINAL")
    BY <1>1, <1>3, <2>1, RowsExist
       DEF MayObserve, Owned, Intent, Phases, Unresolved, OrderStatus
  <2>5. order[op] # "NONE"
    BY <1>3 DEF IInv, ReadsTrue, OrderStatus
  <2>6. life[op] = IF intents[op].phase = "TERMINAL" THEN "Settled" ELSE "Ordered"
    BY <1>1, <2>4, <2>5, LifeOf
  <2>7. life'[op] = IF phase = "TERMINAL" THEN "Settled" ELSE "Ordered"
    BY <1>1, <1>3, <2>2, <2>3, <2>4, <2>5 DEF life, OrderStatus
  <2>8. life = [q \in Operations |-> life[q]]
    BY DEF life
  <2>9. CASE life'[op] = life[op]
    BY <1>1, <2>3, <2>8, <2>9 DEF PromiseStep
  <2>10. CASE life[op] = "Ordered" /\ life'[op] = "Settled"
    BY <1>1, <2>3, <2>10, MoveIsStep DEF PromiseStep
  <2> QED BY <2>4, <2>6, <2>7, <2>9, <2>10
<1> QED BY <1>2, <1>3

\* A task's step.
LEMMA TaskStepKept == ASSUME IInv, IInv', NEW t \in Tasks, TaskNext(t) PROVE PromiseStep
<1>1. CASE UNCHANGED <<intents, order>>
  BY <1>1, Stutter DEF PromiseStep
<1>2. CASE ObserveOriginal(t)
  <2>1. UNCHANGED order
    BY <1>2 DEF ObserveOriginal, saas
  <2>2. Told(t) = "MISSING" \/ Told(t) = task[t].original
    BY DEF Told
  <2>3. Told(t) \in OrderStatus \cup {"MISSING"}
    BY WriterKnows DEF Told, Task
  <2> QED BY <1>1, <1>2, <2>1, <2>2, <2>3, ObservationSettles DEF ObserveOriginal, journal
<1>3. CASE Prove(t)
  BY <1>1, <1>3, ProofIsRefusal DEF Prove, journal, saas
<1>4. CASE Insert(t)
  <2>1. UNCHANGED order
    BY <1>4 DEF Insert, saas
  <2> QED BY <1>1, <1>4, <2>1, AllocateIsOffer DEF Insert, Reuse, journal, PromiseStep
<1>5. CASE Claim(t) \/ Reply(t) \/ Cancel(t)
  <2>1. UNCHANGED order /\ task[t].op \in Operations
    BY <1>5, WriterKnows DEF Claim, Reply, Cancel, saas, At, Aimed, OperationLabels
  <2> QED BY <1>1, <1>5, <2>1, SetPhaseIsStep DEF Claim, Reply, Cancel, journal
<1>6. CASE ~ObserveOriginal(t) /\ ~Prove(t) /\ ~Insert(t) /\ ~Claim(t) /\ ~Reply(t) /\ ~Cancel(t)
  <2>1. UNCHANGED <<intents, order>>
    BY <1>6
       DEF TaskNext, journal, saas, Tap, Abort, RecoverContext, RecoverRow, GetOriginal,
           GetCurrent, GetRejection, Select, Selected, AttachMessage, Attach, PrepareContext,
           PrepareDiscover, PrepareCurrent, Confirm, ConfirmCurrent, Post, Reject, FenceContext,
           Fence, FenceReply
  <2> QED BY <1>1, <2>1
<1> QED BY <1>2, <1>3, <1>4, <1>5, <1>6

\* The server's steps: an admission is the order, the rest is out of sight.
LEMMA SaasStepKept == ASSUME IInv, SaasNext, UNCHANGED task PROVE PromiseStep
<1>1. UNCHANGED intents
  BY DEF SaasNext, journal, Admit, Refuse, LoseCreate, HandleReject, LoseReject, Settle,
         OrderElsewhere, Relink
<1>2. ASSUME NEW op \in Operations, Admit(op) PROVE Promise!Next
  <2>1. order[op] = "NONE" /\ order'[op] = "PENDING" /\ op \notin fenced
        /\ \A q \in Operations \ {op} : order'[q] = order[q]
    BY <1>2, OrdersAssumption DEF Admit, Open, IInv, TypeOK, SaasTypeOK
  <2>2. intents[op].phase \in {"DISPATCHED", "REJECTED"}
    <3>1. intents[op].phase \notin {"FREE", "PREPARED", "CANCELLED"}
      BY <1>2 DEF Admit, IInv, UnsentUntilClaimed, Unsent
    <3>2. intents[op].phase # "TERMINAL"
      BY <1>2, <2>1 DEF IInv, RowTrue
    <3> QED BY <3>1, <3>2, RowsExist DEF Intent, Phases, Unresolved
  <2>3. life[op] = "Committed" /\ life'[op] = "Ordered"
    BY <1>1, <2>1, <2>2 DEF life
  <2>4. \A q \in Operations \ {op} : life'[q] = life[q]
    BY <1>1, <2>1 DEF life
  <2>5. life = [q \in Operations |-> life[q]] /\ life' = [q \in Operations |-> life'[q]]
    BY DEF life
  <2>6. life' = [life EXCEPT ![op] = "Ordered"]
    BY <2>3, <2>4, <2>5, Zenon
  <2>7. ordered' = ordered \cup {op}
    BY <2>1 DEF ordered
  <2> QED BY <2>3, <2>6, <2>7 DEF Promise!Next, Promise!Order, Promise!Move
<1>3. ASSUME NEW o \in Orders, \/ Settle(o)
                               \/ \E own \in Owners : o \in WebOrders /\ OrderElsewhere(o, own)
      PROVE  UNCHANGED <<life, ordered>>
  <2>1. \A q \in Operations : order'[q] = "NONE" <=> order[q] = "NONE"
    BY <1>3, OrdersAssumption
       DEF Settle, OrderElsewhere, Open, WebOrders, IInv, TypeOK, SaasTypeOK
  <2> QED BY <1>1, <2>1 DEF life, ordered
<1>4. CASE UNCHANGED order
  BY <1>1, <1>4, Stutter DEF PromiseStep
<1> QED BY <1>2, <1>3, <1>4
        DEF SaasNext, PromiseStep, WebOrders, Refuse, LoseCreate, HandleReject, LoseReject, Relink

\* The durable checkout implements its promise: the coordinator's and the
\* journal's steps, the crashes and the network's losses together never offer
\* two undecided intents, commit one twice, or order a withdrawn one.
THEOREM PromiseImplemented == Spec => PromiseKept
<1>1. Init => Promise!Init
  <2> SUFFICES ASSUME Init PROVE Promise!Init
    OBVIOUS
  <2>1. \A op \in Operations : intents[op].phase = "FREE" /\ order[op] = "NONE"
    BY OrdersAssumption DEF Init, JournalInit, SaasInit, FreeIntent
  <2> QED BY <2>1 DEF Promise!Init, life, ordered
<1>2. IInv /\ IInv' /\ [Next]_vars => [Promise!Next]_<<life, ordered>>
  <2>1. CASE UNCHANGED vars
    BY <2>1, Stutter DEF vars, journal, saas
  <2>2. CASE Next /\ IInv /\ IInv'
    BY <2>2, TaskStepKept, SaasStepKept DEF Next, PromiseStep
  <2> QED BY <2>1, <2>2
<1> QED BY <1>1, <1>2, InvariantHolds, PTL DEF Spec, PromiseKept, Promise!Spec
=============================================================================
