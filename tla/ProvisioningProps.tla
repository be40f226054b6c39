--------------------------- MODULE ProvisioningProps ---------------------------
(***************************************************************************)
(* What is required of Provisioning.                                       *)
(***************************************************************************)
EXTENDS Provisioning

\* Each of an operation's three writes leaves at most once, also when its task
\* crashed, or lost its lease while the request was under way and another task
\* took the operation over.
DispatchedOnce == \A q \in Kinds \X Operations : posts[q] <= 1

\* A create request of the operation may still grant an access.
Granting(op) ==
    \/ <<"create", op>> \in inflight
    \/ \E t \in Tasks : At(t, "send") /\ task[t].op = op /\ task[t].phase = "SUBMIT_DISPATCHED"

\* Failed, overdue and doubtful operations block the next grant to the user,
\* so that no two grants are ever under way.
OneGrantAtWork == \A a, b \in Operations : Granting(a) /\ Granting(b) => a = b

\* The create request is only sent for an access that SaaS knows as a snapshot
\* of the draft key.
CreateOnSnapshot == \A op \in Operations : posts[<<"create", op>>] > 0 => access[op] # "none"

\* An operation that reached a phase never returns to an earlier one, and keeps
\* the SaaS user it was bound to: not even a task whose lease ran out while it
\* waited can write its old phase.
Rank(phase) == IF phase = "FREE" THEN 0 ELSE CHOOSE i \in DOMAIN Ranked : Ranked[i] = phase

PhaseNeverBack ==
    [][\A op \in Operations :
        /\ Rank(rows'[op].phase) >= Rank(rows[op].phase)
        /\ rows[op].owner # None => rows'[op].owner = rows[op].owner]_vars

\* The key row of every operation is a lagging copy of what SaaS issued, with
\* payment returns and the removal of the key in between.
Promise(op) == INSTANCE ProjectionPromise WITH
    issued <- issued[op], copy <- copy[op], alive <- alive[op]

CopyLags ==
    /\ \A op \in Operations : Promise(op)!Init
    /\ [][\A op \in Operations :
            Promise(op)!Next \/ UNCHANGED <<issued[op], copy[op], alive[op]>>]_vars

\* A grant is not processed for ever: it is done, or shown to the administrator
\* as failed, overdue or in need of a review.
PendingEnds ==
    \A op \in Operations :
        (rows[op].phase # "FREE" /\ rows[op].status = "PENDING") ~> rows[op].status # "PENDING"

-----------------------------------------------------------------------------
(* The inductive invariant                                                 *)

\* The rank of the phase that is on disk before a write of this kind is sent.
Mark(kind) ==
    CASE kind = "user" -> 2
      [] kind = "shadow" -> 4
      [] kind = "create" -> 6

Sending(t, kind, op) == At(t, "send") /\ task[t].op = op /\ KindOf(task[t].phase) = kind

\* The mark precedes the only request.
RequestTrue(kind, op) ==
    /\ posts[<<kind, op>>] <= 1
    /\ Rank(rows[op].phase) < Mark(kind) => posts[<<kind, op>>] = 0
    /\ \A t \in Tasks : Sending(t, kind, op) => posts[<<kind, op>>] = 0
    /\ <<kind, op>> \in inflight => posts[<<kind, op>>] = 1

OneSender ==
    \A op \in Operations, kind \in Kinds, t, u \in Tasks :
        Sending(t, kind, op) /\ Sending(u, kind, op) => t = u

\* A row that is done is held by nobody; a later phase is one that SaaS has
\* reached as well.
RowTrue(op) ==
    /\ rows[op].phase = "DONE" <=> rows[op].status = "DONE"
    /\ rows[op].phase \in {"FREE", "DONE"} => lease[op] = None
    /\ Rank(rows[op].phase) < 3 => rows[op].owner = None
    /\ Rank(rows[op].phase) >= 5 => access[op] # "none"
    /\ Rank(rows[op].phase) >= 7 => access[op] = "managed"

\* An access is managed after the only create request, and at no version before.
AccessTrue(op) ==
    /\ access[op] = "managed" =>
          posts[<<"create", op>>] = 1 /\ <<"create", op>> \notin inflight /\ version[op] > 0
    /\ access[op] # "managed" => issued[op] = {} /\ ~ready[op]
    /\ \A v \in issued[op] : v <= version[op]
    /\ ready[op] => version[op] \in issued[op]

\* Unfinished operations exclude each other.
Alone == \A a, b \in Unresolved : a = b

\* What a task holds in its locals is what the row was, or has become since.
Fits(r) ==
    /\ r.verdict # "DONE"
    /\ r.pc # "idle" =>
          /\ r.op \in Operations /\ r.phase \notin {"FREE", "DONE"}
          /\ Rank(r.phase) <= Rank(rows[r.op].phase)
          /\ Rank(r.phase) < 3 /\ r.pc # "syncUser" => r.owner = None
          /\ Rank(r.phase) >= 3 => r.owner = rows[r.op].owner
    /\ r.pc = "dispatch" => r.phase \in {"PREPARED", "USER_SYNCED", "SUBMIT_READY"}
    /\ r.pc \in {"send", "reply"} =>
          r.phase \in {"USER_DISPATCHED", "SHADOW_DISPATCHED", "SUBMIT_DISPATCHED"}
    /\ r.pc \in {"readUser", "syncUser"} => r.phase = "USER_DISPATCHED"
    /\ r.pc \in {"readShadow", "submitReady"} => r.phase = "SHADOW_DISPATCHED"
    /\ r.pc = "submitReady" => access[r.op] # "none"
    /\ r.pc \in {"readback", "observe"} => r.phase \in {"SUBMIT_DISPATCHED", "OBSERVED"}
    /\ r.pc \in {"readAccess", "material", "finalize"} => r.phase = "OBSERVED"
    /\ r.pc \in {"observe", "readAccess", "material", "finalize"} => access[r.op] = "managed"
    /\ r.pc = "finalize" => r.seen \in issued[r.op]

IInv ==
    /\ TypeOK
    /\ \A op \in Operations :
          RowTrue(op) /\ AccessTrue(op) /\ \A kind \in Kinds : RequestTrue(kind, op)
    /\ OneSender
    /\ Alone
    /\ \A t \in Tasks : Fits(task[t])
=============================================================================
