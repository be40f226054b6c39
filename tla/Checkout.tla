------------------------------- MODULE Checkout -------------------------------
(***************************************************************************)
(* The shared checkout coordinator (bot/services/checkout_coordinator.py)  *)
(* driven by the private checkout screen                                   *)
(* (bot/handlers/user/payments/checkout.py), over the journal and the SaaS *)
(* API.                                                                    *)
(*                                                                         *)
(* A task is one handler of one tap.  Its steps are the remote calls and   *)
(* the journal transactions, in the order of the code; anything may happen *)
(* between two of them: another tap of the same user, another bot process  *)
(* on the same file, the server, the provider.  A task that dies (an       *)
(* exception, a timeout, a cancellation, a crash of the process) takes     *)
(* Abort and leaves the journal as it is.  A value read before an await is *)
(* kept in the task and used after it, stale or not.                       *)
(***************************************************************************)
EXTENDS SaasCheckout

CONSTANTS Tasks,
          Rounds    \* bound: what may go on in one behaviour

Kinds == {"select", "confirm", "cancel", "reject", "check", "current"}

\* The kinds of taps the user makes and the message buttons there are; whether
\* the account is relinked; and whether one handler runs at a time.
Round == [taps : SUBSET Kinds, buttons : SUBSET Callbacks, relink : BOOLEAN, alone : BOOLEAN]

ASSUME RoundsAssumption == Rounds \subseteq Round

VARIABLES task, round

vars == <<journal, saas, task, round>>

\* pc names the next step; own, fresh: the owner context() resolved, and
\* resolved again inside recover; fits, present: what the last read of the
\* current checkout said; original, proof: what the reads by key said.
Labels == {"idle", "select", "confirm", "cancel", "reject",
           "recoverContext", "recoverRow", "getOriginal", "getCurrent",
           "observe", "getRejection", "prove",
           "selected", "attach", "prepareContext", "prepareDiscover", "prepareAttach",
           "prepareCurrent", "insert",
           "confirmCurrent", "claim", "post", "reply",
           "fenceContext", "fence", "fenceReply"}

Task == [pc : Labels,
         op : Operations \cup {None},
         cb : Callbacks \cup {None},
         previous : Orders \cup {None},
         own : Owners \cup {None},
         fresh : Owners \cup {None},
         next : {"idle", "selected", "fenceContext"},
         original : OrderStatus \cup {"NULL", "MISSING"},
         fits : BOOLEAN,
         present : BOOLEAN,
         proof : BOOLEAN]

Idle == [pc |-> "idle", op |-> None, cb |-> None, previous |-> None, own |-> None,
         fresh |-> None, next |-> "idle", original |-> "NULL", fits |-> FALSE,
         present |-> FALSE, proof |-> FALSE]

TypeOK == JournalTypeOK /\ SaasTypeOK /\ task \in [Tasks -> Task]

Init == JournalInit /\ SaasInit /\ task = [t \in Tasks |-> Idle] /\ round \in Rounds

-----------------------------------------------------------------------------
At(t, label) == task[t].pc = label

Become(t, r) == task' = [task EXCEPT ![t] = r]

Goto(t, label) == Become(t, [task[t] EXCEPT !.pc = label])

\* The handler returns, or raises into the screen's failure text.
Stop(t) == Become(t, Idle)

\* Call recover for the operation, or for whatever is active if it is None,
\* and continue at next.
Recover(t, op, next) ==
    Become(t, [Idle EXCEPT !.pc = "recoverContext", !.op = op, !.next = next,
                           !.cb = task[t].cb, !.previous = task[t].previous,
                           !.own = task[t].own])

RecoverOnly(t, op) ==
    Become(t, [Idle EXCEPT !.pc = "recoverContext", !.op = op])

\* recover returns to its caller, which uses the row and the current checkout.
Return(t) ==
    IF task[t].next = "idle" THEN Stop(t)
    ELSE Become(t, [task[t] EXCEPT !.pc = task[t].next, !.next = "idle", !.fresh = None,
                                   !.original = "NULL", !.present = FALSE, !.proof = FALSE])

\* A tap.  Every entry of the coordinator begins by reading the dashboard.
\* A confirm, cancel, reject or check button names a written operation; a
\* choice button carries the current checkout it was rendered over.
Tap(t) ==
    /\ At(t, "idle")
    /\ round.alone => \A u \in Tasks : At(u, "idle")
    /\ \/ /\ "select" \in round.taps
          /\ \E cb \in Callbacks \cap round.buttons, previous \in {None} \cup {o \in Orders : order[o] = "FINAL"} :
               Become(t, [Idle EXCEPT !.pc = "select", !.cb = cb,
                                      !.previous = previous, !.own = link])
       \/ \E op \in Operations, kind \in round.taps \cap {"confirm", "cancel", "reject"} :
             /\ intents[op].phase # "FREE"
             /\ Become(t, [Idle EXCEPT !.pc = kind, !.op = op, !.own = link])
       \/ /\ "check" \in round.taps
          /\ \E op \in Operations : intents[op].phase # "FREE" /\ RecoverOnly(t, op)
       \/ "current" \in round.taps /\ RecoverOnly(t, None)
    /\ UNCHANGED <<journal, saas>>

Abort(t) ==
    /\ ~At(t, "idle")
    /\ Stop(t)
    /\ UNCHANGED <<journal, saas>>

-----------------------------------------------------------------------------
(* recover                                                                 *)

RecoverContext(t) ==
    /\ At(t, "recoverContext")
    /\ Become(t, [task[t] EXCEPT !.pc = "recoverRow", !.fresh = link])
    /\ UNCHANGED <<journal, saas>>

\* The row asked for, or the active one.  A foreign row raises.
RowFor(t) ==
    IF task[t].op # None THEN {task[t].op} ELSE Active

RecoverRow(t) ==
    /\ At(t, "recoverRow")
    /\ \/ \E op \in RowFor(t) :
             /\ Owned(op, task[t].fresh)
             /\ Become(t, [task[t] EXCEPT
                    !.op = op,
                    !.pc = IF intents[op].phase \in {"PREPARED", "CANCELLED"}
                             THEN "getCurrent" ELSE "getOriginal"])
       \/ RowFor(t) = {} /\ Goto(t, "getCurrent")
       \/ (\E op \in RowFor(t) : ~Owned(op, task[t].fresh)) /\ Stop(t)
    /\ UNCHANGED <<journal, saas>>

GetOriginal(t) ==
    /\ At(t, "getOriginal")
    /\ Become(t, [task[t] EXCEPT
           !.pc = "getCurrent",
           !.original = IF order[task[t].op] = "NONE" THEN "MISSING" ELSE order[task[t].op]])
    /\ UNCHANGED <<journal, saas>>

GetCurrent(t) ==
    /\ At(t, "getCurrent")
    /\ Become(t, [task[t] EXCEPT
           !.pc = "observe",
           !.fits = Fits(task[t].fresh, task[t].previous),
           !.present = current[task[t].fresh] # None])
    /\ UNCHANGED <<journal, saas>>

\* What a row that was not asked for by key is told: original stays None.
Told(t) == IF task[t].original = "NULL" THEN "MISSING" ELSE task[t].original

ObserveOriginal(t) ==
    /\ At(t, "observe")
    /\ \/ /\ task[t].op = None
          /\ Return(t)
          /\ UNCHANGED journal
       \/ /\ task[t].op # None
          /\ task[t].original \in OrderStatus => task[t].present
          /\ Observe(task[t].op, task[t].fresh, Told(t))
          /\ IF task[t].original = "MISSING" THEN Goto(t, "getRejection") ELSE Return(t)
       \/ /\ task[t].op # None
          /\ \/ task[t].original \in OrderStatus /\ ~task[t].present
             \/ ~MayObserve(task[t].op, task[t].fresh, Told(t))
          /\ Stop(t)
          /\ UNCHANGED journal
    /\ UNCHANGED saas

\* Mistake: a missing order is taken for a refusal.
GetRejectionTrusting(t) ==
    /\ At(t, "getRejection")
    /\ Become(t, [task[t] EXCEPT !.pc = "prove", !.proof = TRUE])
    /\ UNCHANGED <<journal, saas>>

GetRejection(t) ==
    /\ At(t, "getRejection")
    /\ Become(t, [task[t] EXCEPT !.pc = "prove", !.proof = task[t].op \in fenced])
    /\ UNCHANGED <<journal, saas>>

Prove(t) ==
    /\ At(t, "prove")
    /\ \/ /\ task[t].proof
          /\ ProveRejected(task[t].op, task[t].fresh)
          /\ Return(t)
       \/ /\ task[t].proof
          /\ ~MayProveRejected(task[t].op, task[t].fresh)
          /\ Stop(t)
          /\ UNCHANGED journal
       \/ /\ ~task[t].proof
          /\ Return(t)
          /\ UNCHANGED journal
    /\ UNCHANGED saas

-----------------------------------------------------------------------------
(* select, and prepare                                                     *)

\* A bound callback only shows its operation; a new one looks for an
\* unresolved operation first.
Select(t) ==
    /\ At(t, "select")
    /\ LET op == callbacks[task[t].cb]
       IN \/ op = None /\ Recover(t, None, "selected")
          \/ op # None /\ Owned(op, task[t].own) /\ RecoverOnly(t, op)
          \/ op # None /\ ~Owned(op, task[t].own) /\ Stop(t)
    /\ UNCHANGED <<journal, saas>>

Selected(t) ==
    /\ At(t, "selected")
    /\ \/ task[t].op # None /\ Goto(t, "attach")
       \/ task[t].op = None /\ task[t].fits /\ Goto(t, "prepareContext")
       \/ task[t].op = None /\ ~task[t].fits /\ Stop(t)
    /\ UNCHANGED <<journal, saas>>

\* A row found for this message: the screen only shows it, prepare's caller
\* recovers it.  A foreign row raises.
Found(t, op) ==
    IF Owned(op, task[t].own) /\ ~At(t, "attach") THEN RecoverOnly(t, op) ELSE Stop(t)

AttachMessage(t) ==
    /\ task[t].pc \in {"attach", "prepareAttach"}
    /\ LET cb == task[t].cb
       IN \/ Attach(task[t].op, cb, task[t].own) /\ Found(t, task[t].op)
          \/ /\ callbacks[cb] # None
             /\ Found(t, callbacks[cb])
             /\ UNCHANGED journal
          \/ ~Owned(task[t].op, task[t].own) /\ Stop(t) /\ UNCHANGED journal
    /\ UNCHANGED saas

PrepareContext(t) ==
    /\ At(t, "prepareContext")
    /\ Become(t, [task[t] EXCEPT !.pc = "prepareDiscover", !.own = link])
    /\ UNCHANGED <<journal, saas>>

PrepareDiscover(t) ==
    /\ At(t, "prepareDiscover")
    /\ LET bound == callbacks[task[t].cb]
       IN \/ bound # None /\ Found(t, bound)
          \/ /\ bound = None
             /\ \E op \in Active : IF Owned(op, task[t].own)
                                    THEN Become(t, [task[t] EXCEPT !.pc = "prepareAttach",
                                                                   !.op = op, !.original = "NULL"])
                                    ELSE Stop(t)
          \/ bound = None /\ Active = {} /\ Goto(t, "prepareCurrent")
    /\ UNCHANGED <<journal, saas>>

PrepareCurrent(t) ==
    /\ At(t, "prepareCurrent")
    /\ IF Fits(task[t].own, task[t].previous) THEN Goto(t, "insert") ELSE Stop(t)
    /\ UNCHANGED <<journal, saas>>

\* The catalog was read in between; then the journal's prepare transaction.
Insert(t) ==
    /\ At(t, "insert")
    /\ LET cb == task[t].cb
           own == task[t].own
       IN \/ \E op \in Operations :
                /\ Allocate(op, cb, own, task[t].previous) \/ Reuse(op, cb, own)
                /\ RecoverOnly(t, op)
          \/ callbacks[cb] # None /\ Found(t, callbacks[cb]) /\ UNCHANGED journal
          \/ (\E op \in Active : ~Owned(op, own)) /\ Stop(t) /\ UNCHANGED journal
    /\ UNCHANGED saas

-----------------------------------------------------------------------------
(* confirm and cancel                                                      *)

Confirm(t) ==
    /\ At(t, "confirm")
    /\ LET op == task[t].op
       IN IF ~Owned(op, task[t].own) THEN Stop(t)
          ELSE IF intents[op].phase = "PREPARED" THEN Goto(t, "confirmCurrent")
          ELSE RecoverOnly(t, op)
    /\ UNCHANGED <<journal, saas>>

ConfirmCurrent(t) ==
    /\ At(t, "confirmCurrent")
    /\ IF Fits(task[t].own, intents[task[t].op].previous) THEN Goto(t, "claim") ELSE Stop(t)
    /\ UNCHANGED <<journal, saas>>

\* The commit that decides which confirmation may send.
Claim(t) ==
    /\ At(t, "claim")
    /\ LET op == task[t].op
       IN \/ ClaimConfirmed(op, task[t].own) /\ Goto(t, "post")
          \/ /\ intents[op].phase # "PREPARED"
             /\ RecoverOnly(t, op)
             /\ UNCHANGED journal
          \/ ~Owned(op, task[t].own) /\ Stop(t) /\ UNCHANGED journal
    /\ UNCHANGED saas

\* The only create request of the operation leaves.
Post(t) ==
    /\ At(t, "post")
    /\ inflight' = inflight \cup {task[t].op}
    /\ posts' = [posts EXCEPT ![task[t].op] = @ + 1]
    /\ Goto(t, "reply")
    /\ UNCHANGED <<journal, order, current, fenced, link, rejects>>

\* A received refusal (CHECKOUT_ADMISSION_REQUIRED) is noted, as no proof; any
\* other answer, or none, changes nothing.
Reply(t) ==
    /\ At(t, "reply")
    /\ LET op == task[t].op
       IN /\ \/ op \notin inflight /\ order[op] = "NONE" /\ Rejected(op, task[t].own)
             \/ UNCHANGED journal
          /\ RecoverOnly(t, op)
    /\ UNCHANGED saas

Cancel(t) ==
    /\ At(t, "cancel")
    /\ LET op == task[t].op
       IN \/ CancelIntent(op, task[t].own) /\ RecoverOnly(t, op)
          \/ Owned(op, task[t].own) /\ intents[op].phase # "PREPARED"
             /\ RecoverOnly(t, op) /\ UNCHANGED journal
          \/ ~Owned(op, task[t].own) /\ Stop(t) /\ UNCHANGED journal
    /\ UNCHANGED saas

-----------------------------------------------------------------------------
(* reject_unadmitted                                                       *)

Reject(t) ==
    /\ At(t, "reject")
    /\ LET op == task[t].op
       IN IF ~Owned(op, task[t].own) THEN Stop(t)
          ELSE IF intents[op].phase = "TERMINAL" /\ intents[op].status = "NOT_ADMITTED"
            THEN RecoverOnly(t, op)
          ELSE IF Undecided(op) THEN Recover(t, op, "fenceContext")
          ELSE Stop(t)
    /\ UNCHANGED <<journal, saas>>

\* Only if the recovery found neither order nor proof.
FenceContext(t) ==
    /\ At(t, "fenceContext")
    /\ IF Undecided(task[t].op)
         THEN Become(t, [task[t] EXCEPT !.pc = "fence", !.fresh = link])
         ELSE Stop(t)
    /\ UNCHANGED <<journal, saas>>

Fence(t) ==
    /\ At(t, "fence")
    /\ LET op == task[t].op
       IN IF task[t].fresh = task[t].own /\ Owned(op, task[t].own) /\ Undecided(op)
            THEN rejects' = rejects \cup {op} /\ Goto(t, "fenceReply")
            ELSE rejects' = rejects /\ Stop(t)
    /\ UNCHANGED <<journal, order, current, fenced, link, inflight, posts>>

FenceReply(t) ==
    /\ At(t, "fenceReply")
    /\ RecoverOnly(t, task[t].op)
    /\ UNCHANGED <<journal, saas>>

-----------------------------------------------------------------------------
TaskNext(t) ==
    \/ Tap(t) \/ Abort(t)
    \/ RecoverContext(t) \/ RecoverRow(t) \/ GetOriginal(t) \/ GetCurrent(t)
    \/ ObserveOriginal(t) \/ GetRejection(t) \/ Prove(t)
    \/ Select(t) \/ Selected(t) \/ AttachMessage(t) \/ PrepareContext(t)
    \/ PrepareDiscover(t) \/ PrepareCurrent(t) \/ Insert(t)
    \/ Confirm(t) \/ ConfirmCurrent(t) \/ Claim(t) \/ Post(t) \/ Reply(t)
    \/ Cancel(t)
    \/ Reject(t) \/ FenceContext(t) \/ Fence(t) \/ FenceReply(t)

Next ==
    /\ \/ \E t \in Tasks : TaskNext(t)
       \/ SaasNext /\ UNCHANGED task
    /\ round.relink \/ UNCHANGED link
    /\ UNCHANGED round

Spec == Init /\ [][Next]_vars
=============================================================================
