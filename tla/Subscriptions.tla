---------------------------- MODULE Subscriptions ----------------------------
(***************************************************************************)
(* One recurring YooKassa subscription of the legacy mode                  *)
(* (database/db_subscriptions.py), the billing loop that charges it        *)
(* (bot/services/subscription_billing.py), the payments at YooKassa, and   *)
(* the user, who may renew the key by hand or unlink the card.             *)
(*                                                                         *)
(* The process is one asyncio thread: the user acts only while the loop    *)
(* waits for something, a crash comes between any two transactions.  Time  *)
(* is abstract: the next charge becomes due at any moment after it was     *)
(* set, and the grace period ends at any moment.  Ends of access count     *)
(* what was granted, in half periods, without gaps: period n ends at 2n    *)
(* and its grace at 2n + 1.                                                *)
(***************************************************************************)
EXTENDS Naturals, FiniteSets

CONSTANTS MaxOrders,         \* bound on the orders of the subscription
          MaxFailures,       \* MAX_FAILED_ATTEMPTS
          MaxRenewals,       \* bound on renewals by hand
          MaxSlips           \* bound on crashes and lost answers

ASSUME BoundsAssumption ==
    /\ MaxOrders \in Nat /\ MaxFailures \in Nat \ {0}
    /\ MaxRenewals \in Nat /\ MaxSlips \in Nat

VARIABLES sub,       \* the row of subscriptions
          orders,    \* its rows of payments
          keyEnd,    \* vpn_keys.expires_at
          loop,      \* the billing loop
          charge,    \* YooKassa: the payment of each order's idempotence key
          inflight,  \* create requests on their way
          late,      \* those sent since the card was unlinked, 2 for more
          renewals, slips

local == <<sub, orders, keyEnd>>
remote == <<charge, inflight, late>>
vars == <<local, loop, remote, renewals, slips>>

Orders == 1..MaxOrders

Period(n) == 2 * n
Grace(n) == 2 * n + 1

\* card: payment_method_id is set; stop: cancel_at_period_end; due:
\* next_charge_at has come; periods: those that end at period_end_at.
Subscription == [status : {"active", "payment_failed", "expired"}, card : BOOLEAN,
                 stop : BOOLEAN, due : BOOLEAN, attempts : 0..MaxFailures,
                 periods : Nat]

\* tagged: subscription_id and is_recurring are set; known: the payment id is.
Order == [status : {"none", "pending", "paid", "failed"}, tagged : BOOLEAN, known : BOOLEAN]

Charges == {"none", "pending", "succeeded", "canceled"}

Labels == {"idle", "wait", "tag", "send", "reply", "get", "save", "finalize", "fail",
           "count", "access", "move", "grace"}

Loop == [pc : Labels, order : 0..MaxOrders, seen : Charges]

Idle == [pc |-> "idle", order |-> 0, seen |-> "none"]

TypeOK ==
    /\ sub \in Subscription
    /\ orders \in [Orders -> Order]
    /\ keyEnd \in Nat
    /\ loop \in Loop
    /\ charge \in [Orders -> Charges]
    /\ inflight \in SUBSET Orders /\ late \in 0..2
    /\ renewals \in 0..MaxRenewals /\ slips \in 0..MaxSlips

\* create_subscription, after the first payment.
Init ==
    /\ sub = [status |-> "active", card |-> TRUE, stop |-> FALSE, due |-> FALSE,
              attempts |-> 0, periods |-> 1]
    /\ orders = [o \in Orders |-> [status |-> "none", tagged |-> FALSE, known |-> FALSE]]
    /\ keyEnd = Period(1)
    /\ loop = Idle
    /\ charge = [o \in Orders |-> "none"]
    /\ inflight = {} /\ late = 0 /\ renewals = 0 /\ slips = 0

At(pc) == loop.pc = pc
Goto(pc) == loop' = [loop EXCEPT !.pc = pc]
Stop == loop' = Idle
Slip == slips < MaxSlips /\ slips' = slips + 1

\* Where the loop awaits, and other coroutines run.
Awaiting == loop.pc \in {"idle", "wait", "reply", "get"}

Unused == {o \in Orders : orders[o].status = "none"}

-----------------------------------------------------------------------------
(* The billing loop                                                        *)

\* Mistake: the user's decision is not looked at.
DueAnyway == sub.due /\ sub.status # "expired"

\* get_due_subscriptions
Due == sub.due /\ sub.status \in {"active", "payment_failed"} /\ ~sub.stop /\ sub.card

\* Mistake: orders whose payment is known are not looked for.
OpenUnknown == {o \in Orders : orders[o].tagged /\ orders[o].status = "pending" /\ ~orders[o].known}

\* Mistake: only orders whose payment is known are looked for.
OpenKnown == {o \in Orders : orders[o].tagged /\ orders[o].status = "pending" /\ orders[o].known}

\* get_open_recurring_order
Open == {o \in Orders : orders[o].tagged /\ orders[o].status = "pending"}

\* The batch is read; earlier subscriptions of it may be charged first.
Tick ==
    /\ At("idle") /\ Due
    /\ Open \cup Unused # {}
    /\ Goto("wait")
    /\ UNCHANGED <<local, remote, renewals, slips>>

\* The newest open order is taken up, or one is created.
Begin ==
    /\ At("wait")
    /\ \/ \E o \in Open :
            /\ \A p \in Open : p <= o
            /\ loop' = [Idle EXCEPT !.pc = IF orders[o].known THEN "get" ELSE "send", !.order = o]
            /\ UNCHANGED orders
       \/ /\ Open = {}
          /\ \E o \in Unused :
                /\ \A p \in Unused : o <= p
                /\ orders' = [orders EXCEPT ![o].status = "pending"]
                /\ loop' = [Idle EXCEPT !.pc = "tag", !.order = o]
    /\ UNCHANGED <<sub, keyEnd, remote, renewals, slips>>

\* save_order_subscription_context, a transaction of its own.
Tag ==
    /\ At("tag")
    /\ orders' = [orders EXCEPT ![loop.order].tagged = TRUE]
    /\ Goto("send")
    /\ UNCHANGED <<sub, keyEnd, remote, renewals, slips>>

\* The request carries the order's idempotence key.
Send ==
    /\ At("send")
    /\ inflight' = inflight \cup {loop.order}
    /\ late' = IF sub.card \/ late = 2 THEN late ELSE late + 1
    /\ Goto("reply")
    /\ UNCHANGED <<local, charge, renewals, slips>>

\* A payment object is the answer to a create or a get request.
Answered ==
    /\ loop.pc \in {"reply", "get"}
    /\ charge[loop.order] # "none"
    /\ loop' = [loop EXCEPT !.pc = "save", !.seen = charge[loop.order]]
    /\ UNCHANGED <<local, remote, renewals, slips>>

\* A definitive error (retryable is false), which says nothing of a payment
\* that the order already has, nor of an earlier request still on its way.
Refused ==
    /\ loop.pc \in {"reply", "get"}
    /\ Slip
    /\ inflight' \in {inflight, inflight \ {loop.order}}
    /\ Goto("fail")
    /\ UNCHANGED <<local, charge, late, renewals>>

\* A timeout, a broken connection or a retryable error.
Unanswered ==
    /\ loop.pc \in {"reply", "get"}
    /\ Slip
    /\ Goto("move")
    /\ UNCHANGED <<local, remote, renewals>>

\* Mistake: only a cancelled payment is told from the others.
NextByCancel(seen) == IF seen = "canceled" THEN "fail" ELSE "finalize"

\* _handle_payment
NextBy(seen) ==
    CASE seen = "succeeded" -> "finalize"
      [] seen = "canceled" -> "fail"
      [] OTHER -> "move"

\* save_yookassa_payment_id
SavePayment ==
    /\ At("save")
    /\ orders' = [orders EXCEPT ![loop.order].known = TRUE]
    /\ Goto(NextBy(loop.seen))
    /\ UNCHANGED <<sub, keyEnd, remote, renewals, slips>>

\* finalize_recurring_payment: one transaction.  The card is set again, from
\* the payment or from the batch, and the subscription goes on.
Finalize ==
    /\ At("finalize")
    /\ orders' = [orders EXCEPT ![loop.order].status = "paid"]
    /\ sub' = [status |-> "active", card |-> TRUE, stop |-> FALSE, due |-> FALSE,
               attempts |-> 0, periods |-> sub.periods + 1]
    /\ keyEnd' = Period(sub.periods + 1)
    /\ Stop
    /\ UNCHANGED <<remote, renewals, slips>>

\* _record_definitive_failure: the order first ...
FailOrder ==
    /\ At("fail")
    /\ orders' = [orders EXCEPT ![loop.order].status = "failed"]
    /\ Goto("count")
    /\ UNCHANGED <<sub, keyEnd, remote, renewals, slips>>

Final == sub.attempts + 1 >= MaxFailures

\* ... then record_subscription_payment_failure ...
RecordFailure ==
    /\ At("count")
    /\ sub' = [sub EXCEPT !.attempts = @ + 1, !.due = FALSE, !.stop = Final,
                          !.status = IF Final THEN "expired" ELSE "payment_failed"]
    /\ Goto("access")
    /\ UNCHANGED <<orders, keyEnd, remote, renewals, slips>>

\* ... then _apply_failure_access, to the end of the grace period or of the
\* period.
ApplyFailureAccess ==
    /\ At("access")
    /\ \/ sub.status # "expired" /\ keyEnd' = Grace(sub.periods)
       \/ keyEnd' = Period(sub.periods)
    /\ Stop
    /\ UNCHANGED <<sub, orders, remote, renewals, slips>>

\* reschedule_subscription_check, mark_subscription_transient_error
Reschedule ==
    /\ At("move")
    /\ sub' = [sub EXCEPT !.due = FALSE]
    /\ Goto("grace")
    /\ UNCHANGED <<orders, keyEnd, remote, renewals, slips>>

\* _ensure_grace_access, unless the grace period is over.
EnsureGrace ==
    /\ At("grace")
    /\ keyEnd' \in {keyEnd, Grace(sub.periods)}
    /\ Stop
    /\ UNCHANGED <<sub, orders, remote, renewals, slips>>

LoopNext ==
    \/ Tick \/ Begin \/ Tag \/ Send \/ Answered \/ Refused \/ Unanswered
    \/ SavePayment \/ Finalize \/ FailOrder \/ RecordFailure \/ ApplyFailureAccess
    \/ Reschedule \/ EnsureGrace

Crash ==
    /\ ~At("idle")
    /\ Slip
    /\ Stop
    /\ UNCHANGED <<local, remote, renewals>>

BecomeDue ==
    /\ ~sub.due
    /\ sub' = [sub EXCEPT !.due = TRUE]
    /\ UNCHANGED <<orders, keyEnd, loop, remote, renewals, slips>>

-----------------------------------------------------------------------------
(* The user                                                                *)

\* unlink_subscription_payment_method_by_key
Unlink ==
    /\ Awaiting
    /\ sub.status # "expired" /\ sub.card
    /\ sub' = [sub EXCEPT !.card = FALSE, !.stop = TRUE]
    /\ late' = 0
    /\ UNCHANGED <<orders, keyEnd, loop, charge, inflight, renewals, slips>>

\* extend_vpn_key, after a payment by hand; the subscription is not told.
Renew ==
    /\ Awaiting
    /\ renewals < MaxRenewals
    /\ renewals' = renewals + 1
    /\ keyEnd' = keyEnd + Period(1)
    /\ UNCHANGED <<sub, orders, loop, remote, slips>>

-----------------------------------------------------------------------------
(* YooKassa                                                                *)

\* One payment per idempotence key, however often it is asked for.
HandleCreate(o) ==
    /\ o \in inflight
    /\ inflight' = inflight \ {o}
    /\ IF charge[o] = "none"
         THEN charge' \in {[charge EXCEPT ![o] = c] : c \in Charges \ {"none"}}
         ELSE UNCHANGED charge
    /\ UNCHANGED <<local, loop, late, renewals, slips>>

Settle(o) ==
    /\ charge[o] = "pending"
    /\ charge' \in {[charge EXCEPT ![o] = c] : c \in {"succeeded", "canceled"}}
    /\ UNCHANGED <<local, loop, inflight, late, renewals, slips>>

-----------------------------------------------------------------------------
Next ==
    \/ LoopNext \/ Crash \/ BecomeDue
    \/ Unlink \/ Renew
    \/ \E o \in Orders : HandleCreate(o) \/ Settle(o)

\* The loop runs every five minutes, and time passes.  Nothing remote is fair.
Fairness == WF_vars(LoopNext) /\ WF_vars(BecomeDue)

Spec == Init /\ [][Next]_vars
FairSpec == Spec /\ Fairness
=============================================================================
