----------------------------- MODULE SaasCheckout -----------------------------
(***************************************************************************)
(* The WaveMesh SaaS checkout API as the bot relies on it, and the network *)
(* between them.  External: nothing of it is in the repository.  It is     *)
(* read from bot/services/internal_api.py, from the contract in            *)
(* docs/durable-checkout-adapter.md and from the fixture of                *)
(* tests/test_checkout_coordinator.py:                                     *)
(*  - POST bot/orders is idempotent on its request key and admits an order *)
(*    only over the predecessor the request names;                         *)
(*  - POST bot/orders/checkout/reject-unadmitted fences a key that has no  *)
(*    order, for ever, and a fenced key is never admitted;                 *)
(*  - the reads answer from the server's state at one instant.             *)
(* Other channels (the web site) order, pay, cancel and refund at any      *)
(* time, and the Telegram account may be relinked to another SaaS user.    *)
(***************************************************************************)
EXTENDS CheckoutJournal, Naturals

VARIABLES order,     \* status of each order, "NONE" before it exists
          current,   \* the current checkout of each SaaS user, or None
          fenced,    \* operations whose key has a final NOT_ADMITTED proof
          link,      \* the SaaS user the Telegram account is linked to
          inflight,  \* create requests the network carries
          rejects,   \* reject-unadmitted requests the network carries
          posts      \* history: create requests sent per operation

saas == <<order, current, fenced, link, inflight, rejects, posts>>

WebOrders == Orders \ Operations

SaasTypeOK ==
    /\ order \in [Orders -> OrderStatus \cup {"NONE"}]
    /\ current \in [Owners -> Orders \cup {None}]
    /\ fenced \in SUBSET Operations
    /\ link \in Owners
    /\ inflight \in SUBSET Operations
    /\ rejects \in SUBSET Operations
    /\ posts \in [Operations -> Nat]

SaasInit ==
    /\ order = [o \in Orders |-> "NONE"]
    /\ current = [own \in Owners |-> None]
    /\ fenced = {}
    /\ link \in Owners
    /\ inflight = {}
    /\ rejects = {}
    /\ posts = [op \in Operations |-> 0]

-----------------------------------------------------------------------------
\* The owner has exactly the predecessor the purchase was offered over: no
\* current checkout, or the named one in a final status.  Both the
\* coordinator and the server apply this test.
Fits(own, previous) ==
    /\ current[own] = previous
    /\ previous # None => order[previous] = "FINAL"

Open(o, own) ==
    /\ order' = [order EXCEPT ![o] = "PENDING"]
    /\ current' = [current EXCEPT ![own] = o]

\* POST bot/orders reaches the server: it creates the order, ...
Admit(op) ==
    /\ op \in inflight
    /\ order[op] = "NONE"
    /\ op \notin fenced
    /\ Fits(intents[op].owner, intents[op].previous)
    /\ Open(op, intents[op].owner)
    /\ inflight' = inflight \ {op}
    /\ UNCHANGED <<journal, fenced, link, rejects, posts>>

\* ... or refuses it for good, ...
Refuse(op) ==
    /\ op \in inflight
    /\ order[op] = "NONE"
    /\ fenced' = fenced \cup {op}
    /\ inflight' = inflight \ {op}
    /\ UNCHANGED <<journal, order, current, link, rejects, posts>>

\* ... or refuses it without a proof, or it is lost on the way.
LoseCreate(op) ==
    /\ op \in inflight
    /\ inflight' = inflight \ {op}
    /\ UNCHANGED <<journal, order, current, fenced, link, rejects, posts>>

HandleReject(op) ==
    /\ op \in rejects
    /\ rejects' = rejects \ {op}
    /\ fenced' = IF order[op] = "NONE" THEN fenced \cup {op} ELSE fenced
    /\ UNCHANGED <<journal, order, current, link, inflight, posts>>

LoseReject(op) ==
    /\ op \in rejects
    /\ rejects' = rejects \ {op}
    /\ UNCHANGED <<journal, order, current, fenced, link, inflight, posts>>

\* The provider pays or cancels an order.
Settle(o) ==
    /\ order[o] = "PENDING"
    /\ order' = [order EXCEPT ![o] = "FINAL"]
    /\ UNCHANGED <<journal, current, fenced, link, inflight, rejects, posts>>

\* A purchase of the same SaaS user from another channel.
OrderElsewhere(o, own) ==
    /\ order[o] = "NONE"
    /\ Fits(own, current[own])
    /\ Open(o, own)
    /\ UNCHANGED <<journal, fenced, link, inflight, rejects, posts>>

\* Relinking, or a restart with other credentials.
Relink ==
    /\ link' \in Owners \ {link}
    /\ UNCHANGED <<journal, order, current, fenced, inflight, rejects, posts>>

SaasNext ==
    \/ \E op \in Operations :
          \/ Admit(op) \/ Refuse(op) \/ LoseCreate(op)
          \/ HandleReject(op) \/ LoseReject(op)
    \/ \E o \in Orders : Settle(o)
    \/ \E o \in WebOrders, own \in Owners : OrderElsewhere(o, own)
    \/ Relink
=============================================================================
