-------------------------- MODULE SubscriptionsProps --------------------------
(***************************************************************************)
(* What is required of Subscriptions.                                      *)
(***************************************************************************)
EXTENDS Subscriptions

\* Money may be taken for the order, and has not been credited.
Owed(o) ==
    /\ charge[o] \in {"pending", "succeeded"} \/ o \in inflight
    /\ orders[o].status # "paid"

\* While the outcome of a charge is unknown, whatever crashes and timeouts do,
\* the subscription is not charged for another order: a second charge is only
\* possible after a definitive answer to the first one.
OneChargeAtATime ==
    \A o, p \in Orders :
        Owed(o) /\ Owed(p) /\ o # p => "failed" \in {orders[o].status, orders[p].status}

\* Every period was paid: as many as there are paid orders, and each of them
\* by a payment that has succeeded.
PeriodsArePaid ==
    LET paid == {o \in Orders : orders[o].status = "paid"} IN
    /\ sub.periods = 1 + Cardinality(paid)
    /\ \A o \in paid : charge[o] = "succeeded"

\* After the user has unlinked the card, and as long as it stays unlinked, at
\* most one more request for money leaves, wherever the loop was: the one of a
\* batch that was read before.
OneMoreAtMost == ~sub.card => late <= 1

\* A payment that has succeeded is credited, unless YooKassa gave a definitive
\* error in its place or the user unlinked the card meanwhile.
SucceededIsCredited ==
    \A o \in Orders :
        charge[o] = "succeeded" ~> (orders[o].status \in {"paid", "failed"} \/ ~sub.card)

-----------------------------------------------------------------------------
(* The inductive invariant                                                 *)

\* An order is tagged before its request may leave, and stays so.
OrdersTrue ==
    \A o \in Orders :
        /\ orders[o].status = "none" => ~orders[o].tagged
        /\ charge[o] # "none" \/ o \in inflight => orders[o].tagged
        /\ orders[o].status = "paid" => charge[o] = "succeeded"

OneOpen == \A o, p \in Open : o = p

\* Where the loop works on an order, it is the open one; a new one is only
\* created without an open one; and success was seen where there is success.
Charging == {"send", "reply", "get", "save", "finalize", "fail"}

LoopTrue ==
    /\ At("tag") => loop.order \in Orders /\ Open = {} /\ orders[loop.order].status = "pending"
    /\ loop.pc \in Charging => loop.order \in Open
    /\ At("save") /\ loop.seen = "succeeded" => charge[loop.order] = "succeeded"
    /\ At("finalize") => charge[loop.order] = "succeeded"

\* The subscription ends with its last attempt, and is not charged after it.
AttemptsCounted ==
    /\ sub.status # "expired" => sub.attempts < MaxFailures
    /\ sub.status = "expired" => loop.pc \in {"idle", "access"}

IInv ==
    /\ TypeOK
    /\ OrdersTrue
    /\ OneOpen
    /\ LoopTrue
    /\ AttemptsCounted
    /\ PeriodsArePaid

\* The loop starts a charge with a card, and sends one request for it.
UnlinkTrue ==
    ~sub.card => late <= 1 /\ (loop.pc \in {"wait", "tag", "send"} => late = 0)
=============================================================================
