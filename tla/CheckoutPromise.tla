--------------------------- MODULE CheckoutPromise ---------------------------
(***************************************************************************)
(* What the durable checkout promises one Telegram user, whatever crashes, *)
(* races or is lost (docs/durable-checkout-adapter.md): an intent is       *)
(* committed at most once, after it was offered; only a committed intent   *)
(* becomes an order; a withdrawn or refused one never does; and no new     *)
(* intent is offered while an earlier one is undecided.                    *)
(***************************************************************************)
CONSTANT Operations

VARIABLES life,      \* where each intent stands
          ordered    \* the intents that exist as orders

Lives == {"Unused", "Offered", "Withdrawn", "Committed", "Ordered", "Refused", "Settled"}

OpenIntents == {op \in Operations : life[op] \in {"Offered", "Committed", "Ordered"}}

Init ==
    /\ life = [op \in Operations |-> "Unused"]
    /\ ordered = {}

\* (The second conjunct follows from the third, and is decided sooner.)
Move(op, from, to) ==
    life[op] = from /\ life'[op] = to /\ life' = [life EXCEPT ![op] = to]

Offer(op)    == Move(op, "Unused", "Offered") /\ OpenIntents = {} /\ UNCHANGED ordered
Withdraw(op) == Move(op, "Offered", "Withdrawn") /\ UNCHANGED ordered
Commit(op)   == Move(op, "Offered", "Committed") /\ UNCHANGED ordered
Order(op)    == Move(op, "Committed", "Ordered") /\ ordered' = ordered \cup {op}
Refuse(op)   == Move(op, "Committed", "Refused") /\ UNCHANGED ordered
Settle(op)   == Move(op, "Ordered", "Settled") /\ UNCHANGED ordered

Next == \E op \in Operations : Offer(op) \/ Withdraw(op) \/ Commit(op)
                                 \/ Order(op) \/ Refuse(op) \/ Settle(op)

Spec == Init /\ [][Next]_<<life, ordered>>
=============================================================================
