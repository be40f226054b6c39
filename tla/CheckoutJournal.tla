--------------------------- MODULE CheckoutJournal ---------------------------
(***************************************************************************)
(* The durable journal of one Telegram user's checkouts                    *)
(* (database/checkout_intents.py): the tables checkout_intents and         *)
(* checkout_callbacks, and one operator per transaction on them.           *)
(*                                                                         *)
(* An operation is an intent to buy; a callback key names the message      *)
(* button that asked for it.  An owner stands for the pair (credential     *)
(* scope, SaaS user) the row was written under.  An intent that became a   *)
(* SaaS order is identified with that order, so that Orders contains       *)
(* Operations.  order_id is set exactly when status is an order status.    *)
(***************************************************************************)

CONSTANTS Operations, Callbacks, Owners, Orders, None

ASSUME OrdersAssumption ==
    /\ Operations \subseteq Orders
    /\ None \notin Orders \cup Owners \cup Callbacks

VARIABLES intents, callbacks

journal == <<intents, callbacks>>

\* PENDING stands for PREPARING and PENDING, FINAL for the contract's TERMINAL
\* set PAID, CANCELLED and REFUNDED: nothing here tells their members apart.
OrderStatus == {"PENDING", "FINAL"}
Unresolved == {"PREPARED", "DISPATCHED", "REJECTED"}
Phases == Unresolved \cup {"TERMINAL", "CANCELLED"}

\* A row, or the FREE slot of an identifier uuid4 has not drawn yet.
Intent == [phase : Phases \cup {"FREE"},
           owner : Owners \cup {None},
           previous : Orders \cup {None},
           status : OrderStatus \cup {"NOT_ADMITTED", "NULL"}]

FreeIntent == [phase |-> "FREE", owner |-> None, previous |-> None, status |-> "NULL"]

JournalTypeOK ==
    /\ intents \in [Operations -> Intent]
    /\ callbacks \in [Callbacks -> Operations \cup {None}]

JournalInit ==
    /\ intents = [op \in Operations |-> FreeIntent]
    /\ callbacks = [cb \in Callbacks |-> None]

-----------------------------------------------------------------------------
\* The row exists and was written under the caller's scope and SaaS owner.
Owned(op, own) == intents[op].phase # "FREE" /\ intents[op].owner = own

\* What the unique index checkout_intent_unresolved ranges over.
Active == {op \in Operations : intents[op].phase \in Unresolved}

\* Neither an order nor a proof of refusal was recorded after the dispatch.
Undecided(op) ==
    intents[op].phase \in {"DISPATCHED", "REJECTED"} /\ intents[op].status = "NULL"

Bind(cb, op) == callbacks' = [callbacks EXCEPT ![cb] = op]

\* Mistake: the new operation is written without another look for an
\* unresolved one.
AllocateUnseen(op, cb, own, previous) ==
    /\ callbacks[cb] = None
    /\ intents[op].phase = "FREE"
    /\ intents' = [intents EXCEPT ![op] = [phase |-> "PREPARED", owner |-> own,
                                           previous |-> previous, status |-> "NULL"]]
    /\ Bind(cb, op)

(***************************************************************************)
(* prepare: a callback already bound names its operation for ever; an      *)
(* unresolved operation of the user is reused, whatever was selected; only *)
(* otherwise is a new operation written.                                   *)
(***************************************************************************)
Allocate(op, cb, own, previous) ==
    /\ callbacks[cb] = None
    /\ Active = {}
    /\ intents[op].phase = "FREE"
    /\ intents' = [intents EXCEPT ![op] = [phase |-> "PREPARED", owner |-> own,
                                           previous |-> previous, status |-> "NULL"]]
    /\ Bind(cb, op)

Reuse(op, cb, own) ==
    /\ callbacks[cb] = None
    /\ op \in Active /\ Owned(op, own)
    /\ Bind(cb, op)
    /\ UNCHANGED intents

\* attach: bind a message to an operation found earlier, finished or not.
Attach(op, cb, own) ==
    /\ callbacks[cb] = None
    /\ Owned(op, own)
    /\ Bind(cb, op)
    /\ UNCHANGED intents

SetPhase(op, phase) ==
    /\ intents' = [intents EXCEPT ![op].phase = phase]
    /\ UNCHANGED callbacks

\* Mistake: a second confirmation of a dispatched operation claims it again.
ClaimAgain(op, own) ==
    Owned(op, own) /\ intents[op].phase \in {"PREPARED", "DISPATCHED"} /\ SetPhase(op, "DISPATCHED")

\* claim_confirmed, cancel and rejected: compare-and-set on the phase.
ClaimConfirmed(op, own) ==
    Owned(op, own) /\ intents[op].phase = "PREPARED" /\ SetPhase(op, "DISPATCHED")

CancelIntent(op, own) ==
    Owned(op, own) /\ intents[op].phase = "PREPARED" /\ SetPhase(op, "CANCELLED")

Rejected(op, own) ==
    Owned(op, own) /\ intents[op].phase = "DISPATCHED" /\ SetPhase(op, "REJECTED")

\* prove_rejected: anything but an undecided dispatch, or the same conclusion
\* reached before, is CHECKOUT_REJECTION_CONTRADICTED.
MayProveRejected(op, own) ==
    /\ Owned(op, own)
    /\ \/ Undecided(op)
       \/ intents[op].phase = "TERMINAL" /\ intents[op].status = "NOT_ADMITTED"

ProveRejected(op, own) ==
    /\ MayProveRejected(op, own)
    /\ intents' = [intents EXCEPT ![op].phase = "TERMINAL", ![op].status = "NOT_ADMITTED"]
    /\ UNCHANGED callbacks

\* observe: what the original-key read may tell this row without a conflict.
\* "MISSING" is CHECKOUT_NOT_FOUND.
MayObserve(op, own, original) ==
    /\ Owned(op, own)
    /\ IF original = "MISSING"
         THEN intents[op].status \notin OrderStatus
         ELSE /\ intents[op].phase \notin {"PREPARED", "CANCELLED"}
              /\ intents[op].status # "NOT_ADMITTED"
              /\ intents[op].phase = "TERMINAL" => original = "FINAL"

Observe(op, own, original) ==
    /\ MayObserve(op, own, original)
    /\ intents' = IF original = "MISSING" THEN intents
                  ELSE [intents EXCEPT
                          ![op].phase = IF original = "FINAL" THEN "TERMINAL" ELSE @,
                          ![op].status = original]
    /\ UNCHANGED callbacks
=============================================================================
