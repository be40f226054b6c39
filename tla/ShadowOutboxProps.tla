--------------------------- MODULE ShadowOutboxProps ---------------------------
(***************************************************************************)
(* What is required of ShadowOutbox.                                       *)
(***************************************************************************)
EXTENDS ShadowOutbox

\* As long as the bot owns the key, every committed change waits in the outbox
\* or has been processed by SaaS, through crashes, lost answers, failures and
\* a dead worker; the deletion is the exception (DeletionAnnounced).
NothingLost ==
    key # "managed" => (1..last) \ {tomb} \subseteq outbox \cup applied

\* The worker sends a change before an older one only when the older one has
\* failed and waits for its next attempt.
OvertakesOnlyFailed ==
    worker.at \in {"user", "access"} =>
        \A v \in outbox : v < Event => attempts[v] > 0

\* With the outbox as the only sender and no failed delivery, once everything
\* is delivered, SaaS shows the newest payload that no earlier change had
\* reported: crashes and repeated deliveries leave nothing older behind.  A
\* return to an earlier payload has that payload's idempotency key and is not
\* written.
Settled ==
    /\ outbox = {} /\ network = {} /\ key \in {"legacy", "deleted"}
    /\ ~gate /\ \A v \in Versions : attempts[v] = 0
    /\ tomb # 0 => tomb \in applied

NewPayloads == {v \in 1..last : payload[v] = v}

QuietShowsNewest ==
    Settled => shadow \in NewPayloads /\ \A v \in NewPayloads : v <= shadow

\* A worker delivers every event that SaaS accepts, also behind one that it
\* refuses for good, unless it is killed first.
NobodyBlocks ==
    \A v \in Versions :
        (worker.at # "off" /\ v \in outbox /\ v \notin refused)
            ~> (worker.at = "off" \/ v \notin outbox)

\* "The local delete cannot commit without the tombstone event"
\* (docs/ACCESS_SHADOW_DURABLE_OUTBOX.md:14).
DeletionAnnounced == key = "deleted" => tomb \in outbox \cup applied

-----------------------------------------------------------------------------
(* The inductive invariant                                                 *)

\* A pass works on events of the outbox, and on older ones before newer ones
\* that have never failed.
BatchTrue ==
    /\ worker.batch # {} <=> worker.at \in {"batch", "user", "access"}
    /\ worker.batch \subseteq outbox
    /\ \A v \in outbox \ worker.batch, w \in worker.batch : v < w => attempts[v] > 0

DelayTrue == \A v \in Versions : delay[v] # "due" => attempts[v] > 0

\* Events are those of changes, of every change of a key of the bot; a deletion
\* is the last change, and announced after it.  A payload has the name of its
\* first version.
EventsTrue ==
    /\ outbox \subseteq 1..last
    /\ key # "managed" => 1..last \subseteq outbox \cup applied \cup {tomb}
    /\ tomb = IF key \in {"deleting", "deleted"} THEN last ELSE 0
    /\ key = "deleting" => tomb \notin outbox
    /\ \A v \in Versions : /\ payload[v] <= v /\ payload[payload[v]] = payload[v]
                           /\ v > last => payload[v] = v

\* A direct sender holds a snapshot of a row that existed, and only with the
\* gate open.
DirectTrue ==
    /\ key # "none" => last # 0
    /\ \A d \in Direct : direct[d].at # "off" => gate /\ direct[d].snap # 0

Quietly == ~gate /\ key # "managed" /\ \A v \in Versions : attempts[v] = 0

\* Without failures and other senders SaaS processes the changes in their
\* order: nothing under way is older than what it has processed.
InOrder ==
    /\ applied \subseteq 1..last
    /\ key = "deleting" => tomb \notin applied
    /\ \A a \in applied, v \in outbox \ applied : a < v
    /\ \A m \in network : /\ m[2] \in outbox \cup applied
                          /\ m[2] \in applied \/ \A v \in outbox \ applied : m[2] <= v
    /\ IF applied = {} THEN shadow = 0
       ELSE /\ shadow \in applied /\ payload[shadow] = shadow
            /\ \A a \in applied : payload[a] = a => a <= shadow

IInv ==
    /\ TypeOK
    /\ BatchTrue /\ DelayTrue /\ EventsTrue /\ DirectTrue
    /\ Quietly => InOrder
=============================================================================
