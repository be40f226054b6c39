---------------------------- MODULE CheckoutProps ----------------------------
(***************************************************************************)
(* What is required of Checkout.                                           *)
(***************************************************************************)
EXTENDS Checkout

\* However many confirmations race, from however many devices and restarts,
\* an operation's create request is sent at most once: claim_confirmed lets
\* one of them through and nothing ever reopens it.
AtMostOnePost == \A op \in Operations : posts[op] <= 1

\* An operation closed locally without an order, cancelled before it was sent
\* or proved NOT_ADMITTED, has no order and gets none later: its delayed
\* create request, if the network still carries one, finds the fence.
ClosedWithoutOrder ==
    \A op \in Operations :
        \/ intents[op].phase = "CANCELLED"
        \/ intents[op].status = "NOT_ADMITTED"
        => /\ order[op] = "NONE"
           /\ op \in inflight => op \in fenced

\* observe closes an operation only over an order the provider has settled.
SettledIsTrue ==
    \A op \in Operations :
        intents[op].phase = "TERMINAL" /\ intents[op].status # "NOT_ADMITTED"
            => order[op] = "FINAL"

\* A payable order exists for the operation, or may still come to exist.
Live(op) ==
    \/ order[op] = "PENDING"
    \/ op \in inflight \ fenced
    \/ \E t \in Tasks : At(t, "post") /\ task[t].op = op /\ op \notin fenced

\* The bot never works on two purchases of a user at once, not even when the
\* account was relinked to another SaaS user in between (the index
\* checkout_intent_unresolved and the lookups before prepare).
OneLivePurchase == \A a, b \in Operations : Live(a) /\ Live(b) => a = b

\* A message button names the same operation for ever, through cancellation
\* and completion: no replay allocates or adopts another operation.
CallbackKept ==
    [][\A cb \in Callbacks : callbacks[cb] # None => callbacks'[cb] = callbacks[cb]]_vars

\* The whole of it implements the promise.
life == [op \in Operations |->
    CASE intents[op].phase = "FREE" -> "Unused"
      [] intents[op].phase = "CANCELLED" -> "Withdrawn"
      [] intents[op].phase = "PREPARED" -> "Offered"
      [] intents[op].phase = "TERMINAL" ->
            IF intents[op].status = "NOT_ADMITTED" THEN "Refused" ELSE "Settled"
      [] OTHER -> IF order[op] = "NONE" THEN "Committed" ELSE "Ordered"]

ordered == {op \in Operations : order[op] # "NONE"}

Promise == INSTANCE CheckoutPromise

PromiseKept == Promise!Spec

-----------------------------------------------------------------------------
(* The inductive invariant                                                 *)

\* Before the claim nothing of an operation has left the bot.
Unsent(op) ==
    /\ posts[op] = 0
    /\ op \notin inflight \cup rejects \cup fenced
    /\ order[op] = "NONE"
    /\ intents[op].status = "NULL"
    /\ \A t \in Tasks : task[t].op = op => ~At(t, "post") /\ ~At(t, "reply")

UnsentUntilClaimed ==
    \A op \in Operations : intents[op].phase \in {"FREE", "PREPARED", "CANCELLED"} => Unsent(op)

OneUnresolved == \A a, b \in Active : a = b

\* The winner of the claim is the only task about to send.
OneSender ==
    \A t \in Tasks : At(t, "post") =>
        /\ posts[task[t].op] = 0
        /\ \A u \in Tasks : At(u, "post") /\ task[u].op = task[t].op => u = t

SentOnce ==
    \A op \in Operations :
        /\ posts[op] <= 1
        /\ op \in inflight => posts[op] = 1 /\ order[op] = "NONE"
        /\ order[op] # "NONE" => posts[op] = 1

FenceHolds == \A op \in fenced : order[op] = "NONE"

RowTrue ==
    \A op \in Operations :
        /\ intents[op].status = "NOT_ADMITTED" => op \in fenced /\ intents[op].phase = "TERMINAL"
        /\ intents[op].status \in OrderStatus => order[op] # "NONE"
        /\ intents[op].phase = "TERMINAL" /\ intents[op].status # "NOT_ADMITTED"
             => order[op] = "FINAL" /\ intents[op].status = "FINAL"

\* What a task holds of an operation was true when read, and stays so.
ReadsTrue ==
    \A t \in Tasks :
        /\ task[t].original \in OrderStatus =>
             /\ task[t].op # None
             /\ order[task[t].op] # "NONE"
             /\ task[t].original = "FINAL" => order[task[t].op] = "FINAL"
        /\ At(t, "prove") /\ task[t].proof => task[t].op \in fenced

\* The steps that work on an operation, or on a message, have one.
OperationLabels == {"confirm", "cancel", "reject", "getOriginal", "getRejection", "prove",
                    "attach", "prepareAttach", "confirmCurrent", "claim", "post", "reply",
                    "fenceContext", "fence", "fenceReply"}

CallbackLabels == {"select", "selected", "attach", "prepareContext", "prepareDiscover",
                   "prepareAttach", "prepareCurrent", "insert"}

Aimed(r) ==
    /\ r.pc \in OperationLabels \/ r.next = "fenceContext" => r.op # None
    /\ r.pc \in CallbackLabels \/ r.next = "selected" => r.cb # None

TasksAimed == \A t \in Tasks : Aimed(task[t])

IInv ==
    /\ TypeOK
    /\ TasksAimed
    /\ UnsentUntilClaimed
    /\ OneUnresolved
    /\ OneSender
    /\ SentOnce
    /\ FenceHolds
    /\ RowTrue
    /\ ReadsTrue
=============================================================================
