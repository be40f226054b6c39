------------------------- MODULE SubscriptionsProofs -------------------------
(***************************************************************************)
(* What SubscriptionsProps requires, for any number of orders, failures,   *)
(* renewals and slips.                                                     *)
(***************************************************************************)
EXTENDS SubscriptionsProps, FiniteSetTheorems, TLAPS

USE BoundsAssumption

Paid == {o \in Orders : orders[o].status = "paid"}

LEMMA PaidFinite == IsFiniteSet(Paid)
<1>1. IsFiniteSet(Orders)
  BY FS_Interval DEF Orders
<1> QED BY <1>1, FS_Subset DEF Paid

\* Periods stay paid where neither they nor the paid orders change, and no
\* success is taken back.
LEMMA PaidKept ==
    ASSUME PeriodsArePaid, sub'.periods = sub.periods, Paid' = Paid,
           \A o \in Orders : charge[o] = "succeeded" => charge'[o] = "succeeded"
    PROVE  PeriodsArePaid'
BY DEF PeriodsArePaid, Paid

\* The loop's register at the start of a charge.
LEMMA IdleSet ==
    ASSUME NEW pc \in Labels, NEW o \in Orders
    PROVE  [Idle EXCEPT !.pc = pc, !.order = o] \in Loop
<1>1. Idle \in Loop
  BY DEF Idle, Loop, Labels, Charges
<1>2. o \in 0..MaxOrders
  BY DEF Orders
<1> QED BY <1>1, <1>2 DEF Loop

-----------------------------------------------------------------------------
\* The first state satisfies the invariant.
LEMMA InitInv == Init => IInv
<1> SUFFICES ASSUME Init PROVE IInv
  OBVIOUS
<1> USE DEF Init
<1>1. TypeOK
  BY DEF TypeOK, Subscription, Order, Charges, Loop, Labels, Idle, Period
<1>2. OrdersTrue /\ OneOpen /\ LoopTrue /\ AttemptsCounted
  BY DEF OrdersTrue, OneOpen, Open, LoopTrue, At, Charging, AttemptsCounted, Idle
<1>3. Paid = {}
  BY DEF Paid
<1>4. sub.periods = 1 + Cardinality(Paid)
  BY <1>3, FS_EmptySet
<1>5. PeriodsArePaid
  BY <1>3, <1>4 DEF PeriodsArePaid, Paid
<1> QED BY <1>1, <1>2, <1>5 DEF IInv
-----------------------------------------------------------------------------
(* One lemma per kind of step.                                             *)

\* Most steps of the loop leave the orders and the payments alone.
LEMMA QuietStep ==
    ASSUME IInv, UNCHANGED <<orders, charge>>, sub'.periods = sub.periods,
           TypeOK', LoopTrue', AttemptsCounted', inflight' \subseteq inflight
    PROVE  IInv'
<1>1. OrdersTrue'
  BY DEF IInv, OrdersTrue
<1>2. OneOpen'
  BY DEF IInv, OneOpen, Open
<1>3. PeriodsArePaid'
  BY PaidKept DEF IInv, Paid
<1> QED BY <1>1, <1>2, <1>3 DEF IInv

\* Steps that change neither the subscription's status and attempts, nor where
\* the loop is.
LEMMA LoopRests ==
    ASSUME IInv, UNCHANGED <<loop, orders>>,
           sub'.status = sub.status, sub'.attempts = sub.attempts,
           \A o \in Orders : charge[o] = "succeeded" => charge'[o] = "succeeded"
    PROVE  LoopTrue' /\ AttemptsCounted'
BY DEF IInv, TypeOK, LoopTrue, AttemptsCounted, At, Charging, Open

LEMMA TickInv == IInv /\ Tick => IInv'
<1> SUFFICES ASSUME IInv, Tick PROVE IInv'
  OBVIOUS
<1>1. TypeOK'
  BY DEF IInv, Tick, Goto, TypeOK, Loop, Labels, local, remote
<1>2. LoopTrue' /\ AttemptsCounted'
  BY DEF IInv, TypeOK, Loop, Tick, Due, Goto, LoopTrue, AttemptsCounted, At, Charging, local
<1> QED BY <1>1, <1>2, QuietStep DEF Tick, local, remote

LEMMA BeginInv == IInv /\ Begin => IInv'
<1> SUFFICES ASSUME IInv, Begin PROVE IInv'
  OBVIOUS
<1> USE DEF Begin, remote
<1>1. ASSUME NEW o \in Open, UNCHANGED orders,
             loop' = [Idle EXCEPT !.pc = IF orders[o].known THEN "get" ELSE "send", !.order = o]
      PROVE  IInv'
  <2>1. o \in Orders /\ loop'.order = o /\ loop'.pc \in {"get", "send"} /\ loop'.seen = "none"
    BY <1>1 DEF Open, Idle
  <2>2. loop' \in Loop
    BY <1>1, <2>1, IdleSet DEF Labels
  <2>3. TypeOK'
    BY <1>1, <2>2 DEF IInv, TypeOK
  <2>4. LoopTrue' /\ AttemptsCounted'
    BY <1>1, <2>1 DEF IInv, LoopTrue, AttemptsCounted, At, Charging, Open
  <2> QED BY <1>1, <2>3, <2>4, QuietStep
<1>2. ASSUME NEW o \in Unused, Open = {},
             orders' = [orders EXCEPT ![o].status = "pending"],
             loop' = [Idle EXCEPT !.pc = "tag", !.order = o]
      PROVE  IInv'
  <2>1. o \in Orders /\ ~orders[o].tagged /\ orders[o].status = "none"
    BY <1>2 DEF Unused, IInv, OrdersTrue
  <2>2. TypeOK'
    <3>1. loop' \in Loop
      BY <1>2, <2>1, IdleSet DEF Labels
    <3>2. orders' \in [Orders -> Order]
      BY <1>2, <2>1 DEF IInv, TypeOK, Order
    <3> QED BY <3>1, <3>2 DEF IInv, TypeOK
  <2>3. OrdersTrue'
    BY <1>2, <2>1 DEF IInv, TypeOK, OrdersTrue, Order
  <2>4. Open' = {}
    BY <1>2, <2>1 DEF IInv, TypeOK, Open, Order
  <2>5. OneOpen' /\ LoopTrue'
    BY <1>2, <2>1, <2>4 DEF OneOpen, LoopTrue, At, Charging, Idle, IInv, TypeOK, Order
  <2>6. AttemptsCounted'
    BY <1>2 DEF IInv, AttemptsCounted, At
  <2>7. Paid' = Paid
    BY <1>2, <2>1 DEF Paid, IInv, TypeOK, Order
  <2> QED BY <2>2, <2>3, <2>5, <2>6, <2>7, PaidKept DEF IInv
<1> QED BY <1>1, <1>2

LEMMA TagInv == IInv /\ Tag => IInv'
<1> SUFFICES ASSUME IInv, Tag PROVE IInv'
  OBVIOUS
<1> USE DEF Tag, Goto, remote
<1>1. loop.order \in Orders /\ Open = {} /\ orders[loop.order].status = "pending"
  BY DEF IInv, LoopTrue
<1>2. TypeOK'
  BY <1>1 DEF IInv, TypeOK, Loop, Labels, Order
<1>3. OrdersTrue'
  BY <1>1 DEF IInv, TypeOK, OrdersTrue, Order
<1>4. Open' = {loop.order}
  BY <1>1 DEF IInv, TypeOK, Open, Order
<1>5. OneOpen' /\ LoopTrue'
  BY <1>4 DEF OneOpen, LoopTrue, At, Charging, IInv, TypeOK, Loop
<1>6. AttemptsCounted'
  BY DEF IInv, AttemptsCounted, At
<1>7. Paid' = Paid
  BY <1>1 DEF Paid, IInv, TypeOK, Order
<1> QED BY <1>2, <1>3, <1>5, <1>6, <1>7, PaidKept DEF IInv

LEMMA SendInv == IInv /\ Send => IInv'
<1> SUFFICES ASSUME IInv, Send PROVE IInv'
  OBVIOUS
<1> USE DEF Send, Goto, local
<1>1. loop.order \in Open /\ loop.order \in Orders /\ orders[loop.order].tagged
  BY DEF IInv, LoopTrue, At, Charging, Open
<1>2. TypeOK'
  BY <1>1 DEF IInv, TypeOK, Loop, Labels
<1>3. OrdersTrue'
  BY <1>1 DEF IInv, OrdersTrue
<1>4. OneOpen' /\ LoopTrue' /\ AttemptsCounted'
  BY <1>1 DEF IInv, TypeOK, Loop, OneOpen, LoopTrue, AttemptsCounted, Open, At, Charging
<1>5. PeriodsArePaid'
  BY PaidKept DEF IInv, Paid
<1> QED BY <1>2, <1>3, <1>4, <1>5 DEF IInv

LEMMA AnsweredInv == IInv /\ Answered => IInv'
<1> SUFFICES ASSUME IInv, Answered PROVE IInv'
  OBVIOUS
<1> USE DEF Answered, local, remote
<1>1. loop.order \in Open
  BY DEF IInv, LoopTrue, Charging
<1>2. TypeOK'
  BY <1>1 DEF IInv, TypeOK, Loop, Labels, Open
<1>3. LoopTrue' /\ AttemptsCounted'
  BY <1>1 DEF IInv, TypeOK, Loop, LoopTrue, AttemptsCounted, Open, At, Charging
<1> QED BY <1>2, <1>3, QuietStep

LEMMA RefusedInv == IInv /\ Refused => IInv'
<1> SUFFICES ASSUME IInv, Refused PROVE IInv'
  OBVIOUS
<1> USE DEF Refused, Goto, local, Slip
<1>1. TypeOK'
  BY DEF IInv, TypeOK, Loop, Labels
<1>2. LoopTrue' /\ AttemptsCounted'
  BY DEF IInv, TypeOK, Loop, LoopTrue, AttemptsCounted, Open, At, Charging
<1> QED BY <1>1, <1>2, QuietStep

LEMMA UnansweredInv == IInv /\ Unanswered => IInv'
<1> SUFFICES ASSUME IInv, Unanswered PROVE IInv'
  OBVIOUS
<1> USE DEF Unanswered, Goto, local, remote, Slip
<1>1. TypeOK'
  BY DEF IInv, TypeOK, Loop, Labels
<1>2. LoopTrue' /\ AttemptsCounted'
  BY DEF IInv, TypeOK, Loop, LoopTrue, AttemptsCounted, At, Charging
<1> QED BY <1>1, <1>2, QuietStep

LEMMA SavePaymentInv == IInv /\ SavePayment => IInv'
<1> SUFFICES ASSUME IInv, SavePayment PROVE IInv'
  OBVIOUS
<1> USE DEF SavePayment, Goto, remote
<1>1. loop.order \in Open /\ loop.order \in Orders
  BY DEF IInv, LoopTrue, At, Charging, Open
<1>2. NextBy(loop.seen) \in {"finalize", "fail", "move"}
      /\ (NextBy(loop.seen) = "finalize" => loop.seen = "succeeded")
  BY DEF NextBy
<1>3. TypeOK'
  BY <1>1, <1>2 DEF IInv, TypeOK, Loop, Labels, Order
<1>4. \A o \in Orders : orders'[o].status = orders[o].status /\ orders'[o].tagged = orders[o].tagged
  BY <1>1 DEF IInv, TypeOK, Order
<1>5. Open' = Open /\ Paid' = Paid
  BY <1>4 DEF Open, Paid
<1>6. OrdersTrue' /\ OneOpen' /\ AttemptsCounted'
  BY <1>2, <1>4, <1>5 DEF IInv, OrdersTrue, OneOpen, AttemptsCounted, At
<1>7. LoopTrue'
  BY <1>1, <1>2, <1>5 DEF IInv, TypeOK, Loop, LoopTrue, At, Charging
<1> QED BY <1>3, <1>5, <1>6, <1>7, PaidKept DEF IInv

LEMMA FinalizeInv == IInv /\ Finalize => IInv'
<1> SUFFICES ASSUME IInv, Finalize PROVE IInv'
  OBVIOUS
<1> USE DEF Finalize, Stop, remote
<1>1. loop.order \in Open /\ loop.order \in Orders /\ charge[loop.order] = "succeeded"
      /\ orders[loop.order].status = "pending" /\ orders[loop.order].tagged
  BY DEF IInv, LoopTrue, At, Charging, Open
<1>2. TypeOK'
  BY <1>1 DEF IInv, TypeOK, Loop, Labels, Order, Subscription, Idle, Period, Charges
<1>3. OrdersTrue'
  BY <1>1 DEF IInv, TypeOK, OrdersTrue, Order
<1>4. Open' \subseteq Open
  BY <1>1 DEF IInv, TypeOK, Open, Order
<1>5. OneOpen' /\ LoopTrue' /\ AttemptsCounted'
  BY <1>4 DEF IInv, OneOpen, LoopTrue, AttemptsCounted, At, Charging, Idle
<1>6. Paid' = Paid \cup {loop.order} /\ loop.order \notin Paid
  BY <1>1 DEF IInv, TypeOK, Paid, Order
<1>7. Cardinality(Paid') = Cardinality(Paid) + 1 /\ Cardinality(Paid) \in Nat
  BY <1>6, PaidFinite, FS_AddElement, FS_CardinalityType
<1>8. PeriodsArePaid'
  BY <1>1, <1>6, <1>7 DEF IInv, PeriodsArePaid, Paid
<1> QED BY <1>2, <1>3, <1>5, <1>8 DEF IInv

LEMMA FailOrderInv == IInv /\ FailOrder => IInv'
<1> SUFFICES ASSUME IInv, FailOrder PROVE IInv'
  OBVIOUS
<1> USE DEF FailOrder, Goto, remote
<1>1. loop.order \in Orders /\ orders[loop.order].status = "pending" /\ orders[loop.order].tagged
  BY DEF IInv, LoopTrue, At, Charging, Open
<1>2. TypeOK'
  BY <1>1 DEF IInv, TypeOK, Loop, Labels, Order
<1>3. OrdersTrue'
  BY <1>1 DEF IInv, TypeOK, OrdersTrue, Order
<1>4. Open' \subseteq Open /\ Paid' = Paid
  BY <1>1 DEF IInv, TypeOK, Open, Paid, Order
<1>5. OneOpen' /\ LoopTrue' /\ AttemptsCounted'
  BY <1>4 DEF IInv, TypeOK, Loop, OneOpen, LoopTrue, AttemptsCounted, At, Charging
<1> QED BY <1>2, <1>3, <1>4, <1>5, PaidKept DEF IInv

LEMMA RecordFailureInv == IInv /\ RecordFailure => IInv'
<1> SUFFICES ASSUME IInv, RecordFailure PROVE IInv'
  OBVIOUS
<1> USE DEF RecordFailure, Goto, remote, Final
<1>1. sub.attempts < MaxFailures
  BY DEF IInv, AttemptsCounted, At
<1>2. TypeOK'
  <2>1. sub.attempts + 1 \in 0..MaxFailures /\ sub \in Subscription
    BY <1>1 DEF IInv, TypeOK, Subscription
  <2>2. sub' \in Subscription
    <3> DEFINE n == sub.attempts + 1
               b == n >= MaxFailures
               status == IF b THEN "expired" ELSE "payment_failed"
    <3>1. sub' = [sub EXCEPT !.attempts = n, !.due = FALSE, !.stop = b, !.status = status]
      OBVIOUS
    <3>2. n \in 0..MaxFailures /\ b \in BOOLEAN
          /\ status \in {"active", "payment_failed", "expired"}
      BY <2>1
    <3> HIDE DEF n, b, status
    <3> QED BY <2>1, <3>1, <3>2 DEF Subscription
  <2>3. loop' \in Loop
    BY DEF IInv, TypeOK, Loop, Labels
  <2> QED BY <2>2, <2>3 DEF IInv, TypeOK
<1>3. LoopTrue' /\ AttemptsCounted'
  BY <1>1 DEF IInv, TypeOK, Subscription, Loop, LoopTrue, AttemptsCounted, At, Charging
<1>4. sub'.periods = sub.periods
  BY DEF IInv, TypeOK, Subscription
<1> QED BY <1>2, <1>3, <1>4, QuietStep

LEMMA ApplyFailureAccessInv == IInv /\ ApplyFailureAccess => IInv'
<1> SUFFICES ASSUME IInv, ApplyFailureAccess PROVE IInv'
  OBVIOUS
<1> USE DEF ApplyFailureAccess, Stop, remote
<1>1. TypeOK'
  BY DEF IInv, TypeOK, Loop, Labels, Idle, Charges, Subscription, Period, Grace
<1>2. LoopTrue' /\ AttemptsCounted'
  BY DEF IInv, LoopTrue, AttemptsCounted, At, Charging, Idle
<1> QED BY <1>1, <1>2, QuietStep

LEMMA RescheduleInv == IInv /\ Reschedule => IInv'
<1> SUFFICES ASSUME IInv, Reschedule PROVE IInv'
  OBVIOUS
<1> USE DEF Reschedule, Goto, remote
<1>1. TypeOK'
  BY DEF IInv, TypeOK, Loop, Labels, Subscription
<1>2. LoopTrue' /\ AttemptsCounted' /\ sub'.periods = sub.periods
  BY DEF IInv, TypeOK, Subscription, Loop, LoopTrue, AttemptsCounted, At, Charging
<1> QED BY <1>1, <1>2, QuietStep

LEMMA EnsureGraceInv == IInv /\ EnsureGrace => IInv'
<1> SUFFICES ASSUME IInv, EnsureGrace PROVE IInv'
  OBVIOUS
<1> USE DEF EnsureGrace, Stop, remote
<1>1. TypeOK'
  BY DEF IInv, TypeOK, Loop, Labels, Idle, Charges, Subscription, Grace
<1>2. LoopTrue' /\ AttemptsCounted'
  BY DEF IInv, LoopTrue, AttemptsCounted, At, Charging, Idle
<1> QED BY <1>1, <1>2, QuietStep

LEMMA CrashInv == IInv /\ Crash => IInv'
<1> SUFFICES ASSUME IInv, Crash PROVE IInv'
  OBVIOUS
<1> USE DEF Crash, Stop, local, remote, Slip
<1>1. TypeOK'
  BY DEF IInv, TypeOK, Loop, Labels, Idle, Charges
<1>2. LoopTrue' /\ AttemptsCounted'
  BY DEF IInv, LoopTrue, AttemptsCounted, At, Charging, Idle
<1> QED BY <1>1, <1>2, QuietStep

\* Time and the user change neither orders nor payments.
LEMMA OutsideInv == IInv /\ (BecomeDue \/ Unlink \/ Renew) => IInv'
<1> SUFFICES ASSUME IInv, BecomeDue \/ Unlink \/ Renew PROVE IInv'
  OBVIOUS
<1> USE DEF BecomeDue, Unlink, Renew, remote
<1>1. TypeOK'
  <2>1. CASE BecomeDue
    BY <2>1 DEF IInv, TypeOK, Subscription
  <2>2. CASE Unlink
    <3>1. sub' \in Subscription
      BY <2>2 DEF IInv, TypeOK, Subscription
    <3> QED BY <2>2, <3>1 DEF IInv, TypeOK
  <2>3. CASE Renew
    BY <2>3 DEF IInv, TypeOK, Period
  <2> QED BY <2>1, <2>2, <2>3
<1>2. UNCHANGED <<loop, orders, charge, inflight>>
  OBVIOUS
<1>3. sub'.status = sub.status /\ sub'.attempts = sub.attempts /\ sub'.periods = sub.periods
  BY DEF IInv, TypeOK, Subscription
<1>4. LoopTrue' /\ AttemptsCounted'
  BY <1>2, <1>3, LoopRests
<1> QED BY <1>1, <1>2, <1>3, <1>4, QuietStep

\* YooKassa takes no success back, and knows only orders that were sent.
LEMMA RemoteInv ==
    ASSUME IInv, NEW o \in Orders, HandleCreate(o) \/ Settle(o)
    PROVE  IInv'
<1> USE DEF HandleCreate, Settle, local
<1>1. TypeOK'
  BY DEF IInv, TypeOK, Charges
<1>2. UNCHANGED <<loop, orders, sub>>
  OBVIOUS
<1>3. \A p \in Orders : charge[p] = "succeeded" => charge'[p] = "succeeded"
  BY DEF IInv, TypeOK
<1>4. \A p \in Orders : charge'[p] # "none" \/ p \in inflight' => orders[p].tagged
  BY DEF IInv, TypeOK, OrdersTrue
<1>5. OrdersTrue'
  BY <1>2, <1>3, <1>4 DEF IInv, OrdersTrue
<1>6. OneOpen'
  BY <1>2 DEF IInv, OneOpen, Open
<1>7. LoopTrue' /\ AttemptsCounted'
  BY <1>2, <1>3, LoopRests
<1>8. PeriodsArePaid'
  BY <1>2, <1>3, PaidKept DEF IInv, Paid
<1> QED BY <1>1, <1>5, <1>6, <1>7, <1>8 DEF IInv

LEMMA NextInv == IInv /\ [Next]_vars => IInv'
<1> SUFFICES ASSUME IInv, [Next]_vars PROVE IInv'
  OBVIOUS
<1>1. ASSUME LoopNext PROVE IInv'
  BY <1>1, TickInv, BeginInv, TagInv, SendInv, AnsweredInv, RefusedInv, UnansweredInv,
     SavePaymentInv, FinalizeInv, FailOrderInv, RecordFailureInv, ApplyFailureAccessInv,
     RescheduleInv, EnsureGraceInv DEF LoopNext
<1>2. ASSUME UNCHANGED vars PROVE IInv'
  <2>1. TypeOK'
    BY <1>2 DEF vars, local, remote, IInv, TypeOK
  <2>2. LoopTrue' /\ AttemptsCounted'
    BY <1>2, LoopRests DEF vars, local, remote
  <2> QED BY <1>2, <2>1, <2>2, QuietStep DEF vars, local, remote
<1> QED BY <1>1, <1>2, CrashInv, OutsideInv, RemoteInv DEF Next

-----------------------------------------------------------------------------
\* The invariant holds in every reachable state: the order the loop works on
\* is the only open one, and nothing is charged for an order that a restart
\* would not find.
THEOREM InvariantHolds == Spec => []IInv
BY InitInv, NextInv, PTL DEF Spec

\* Every reachable state has the declared shape.
THEOREM TypeCorrect == Spec => []TypeOK
<1>1. IInv => TypeOK
  BY DEF IInv
<1> QED BY <1>1, InvariantHolds, PTL

\* While the outcome of a charge is unknown, the subscription is not charged
\* for another order.
THEOREM ChargedOnce == Spec => []OneChargeAtATime
<1>1. IInv => OneChargeAtATime
  <2> SUFFICES ASSUME IInv, NEW o \in Orders, NEW p \in Orders, Owed(o), Owed(p), o # p,
                      orders[o].status # "failed", orders[p].status # "failed"
               PROVE  FALSE
    BY DEF OneChargeAtATime
  <2>1. \A q \in Orders : Owed(q) /\ orders[q].status # "failed" => q \in Open
    BY DEF IInv, TypeOK, Order, OrdersTrue, Owed, Open
  <2> QED BY <2>1 DEF IInv, OneOpen
<1> QED BY <1>1, InvariantHolds, PTL

\* Every period of the subscription was paid for, once.
THEOREM PeriodsStayPaid == Spec => []PeriodsArePaid
<1>1. IInv => PeriodsArePaid
  BY DEF IInv
<1> QED BY <1>1, InvariantHolds, PTL

\* The loop starts a charge only with a card, sends one request for it, and
\* starts the next one from get_due_subscriptions again.
LEMMA UnlinkInv == TypeOK /\ UnlinkTrue /\ [Next]_vars => UnlinkTrue'
<1> SUFFICES ASSUME TypeOK, UnlinkTrue, [Next]_vars PROVE UnlinkTrue'
  OBVIOUS
<1> USE DEF UnlinkTrue
<1>1. CASE Tick
  BY <1>1 DEF Tick, Due, local, remote
<1>2. CASE Begin \/ Tag
  BY <1>2 DEF Begin, Tag, Idle, At, Goto, TypeOK, Loop, remote
<1>3. CASE Send
  BY <1>3 DEF Send, At, Goto, TypeOK, Loop, local
<1>4. CASE Answered \/ Refused \/ Unanswered \/ SavePayment
  <2>1. loop'.pc \in {"save", "fail", "move", "finalize"} /\ UNCHANGED <<sub, late>>
    BY <1>4 DEF Answered, Refused, Unanswered, SavePayment, NextBy, Goto, TypeOK, Loop, local,
                remote
  <2> QED BY <2>1
<1>5. CASE Finalize
  BY <1>5 DEF Finalize
<1>6. CASE FailOrder \/ RecordFailure \/ ApplyFailureAccess \/ Reschedule \/ EnsureGrace
  <2>1. loop'.pc \in {"count", "access", "grace", "idle"} /\ UNCHANGED late
    BY <1>6 DEF FailOrder, RecordFailure, ApplyFailureAccess, Reschedule, EnsureGrace, Goto,
                Stop, Idle, TypeOK, Loop, remote
  <2>2. sub'.card = sub.card
    BY <1>6 DEF FailOrder, RecordFailure, ApplyFailureAccess, Reschedule, EnsureGrace, TypeOK,
                Subscription
  <2> QED BY <2>1, <2>2
<1>7. CASE Crash
  BY <1>7 DEF Crash, Stop, Idle, local, remote
<1>8. CASE Unlink
  BY <1>8 DEF Unlink
<1>9. CASE BecomeDue \/ Renew
  BY <1>9 DEF BecomeDue, Renew, remote, TypeOK, Subscription
<1>10. ASSUME NEW o \in Orders, HandleCreate(o) \/ Settle(o) PROVE UnlinkTrue'
  BY <1>10 DEF HandleCreate, Settle, local
<1>11. CASE UNCHANGED vars
  BY <1>11 DEF vars, local, remote
<1> QED BY <1>1, <1>2, <1>3, <1>4, <1>5, <1>6, <1>7, <1>8, <1>9, <1>10, <1>11 DEF Next, LoopNext

\* A user who has unlinked the card is asked for money at most once more, also
\* by a batch that was read before, by a repeated request or after a restart.
THEOREM OneMoreCharge == Spec => []OneMoreAtMost
<1>1. Init => UnlinkTrue
  BY DEF Init, UnlinkTrue
<1>2. Spec => []UnlinkTrue
  BY <1>1, UnlinkInv, TypeCorrect, PTL DEF Spec
<1>3. UnlinkTrue => OneMoreAtMost
  BY DEF UnlinkTrue, OneMoreAtMost
<1> QED BY <1>2, <1>3, PTL
=============================================================================
