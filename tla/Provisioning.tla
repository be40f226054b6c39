----------------------------- MODULE Provisioning -----------------------------
(***************************************************************************)
(* Administrative grants to one Telegram user: the journal                 *)
(* admin_provisioning (database/admin_provisioning.py), the restartable    *)
(* worker (bot/services/admin_provisioning.py) and the confirmation        *)
(* (bot/handlers/admin/provisioning.py), over the SaaS API.                *)
(*                                                                         *)
(* A task is the background loop or an administrator's reconcile button,   *)
(* in any process on the same file.  Its steps are the journal             *)
(* transactions and the remote calls, in the order of the code.  Time is   *)
(* abstract: a lease may run out, and a grant become 900 seconds old, at   *)
(* any moment; next_attempt only delays.  Each operation has a draft key   *)
(* of its own, so the access of an operation is named by the operation.    *)
(***************************************************************************)
EXTENDS Naturals, FiniteSets

CONSTANTS Operations, Admins, Messages, Tasks, Loop, Owners, Scopes, None,
          Versions,      \* the desired versions of an access, from 0: not managed
          Troubles       \* bound: what may go on in one behaviour

ASSUME ProvisioningAssumption ==
    /\ Loop \in Tasks
    /\ None \notin Operations \cup Tasks \cup Owners
    /\ {0, 1} \subseteq Versions /\ Versions \subseteq Nat
    /\ Owners # {} /\ Scopes # {}

\* The operations that are made; what happens outside of the flow (see Disturb); and
\* the number of crashes, failed reads and early lease ends.
Happenings == {"remove", "return", "outbox", "rotate", "fail", "relink", "rescope"}

ASSUME TroublesAssumption ==
    Troubles \subseteq [ops : SUBSET Operations, happen : SUBSET Happenings, slips : Nat]

VARIABLES rows, lease, alive,                  \* the journal, and the draft keys
          copy,                                \* version a key was projected at
          task, scope,                         \* the bot
          link, known, access, failed,         \* SaaS
          version, ready, issued,
          inflight, posts,                     \* the network
          late, trouble, slips

journal == <<rows, lease, alive, copy>>
bot == <<task, scope>>
saas == <<link, known, access, failed, version, ready, issued>>
network == <<inflight, posts>>
vars == <<journal, bot, saas, network, late, trouble, slips>>

\* The replay identity of a confirmation: administrator and message.
Keys == Admins \X Messages

Ranked == <<"PREPARED", "USER_DISPATCHED", "USER_SYNCED", "SHADOW_DISPATCHED",
            "SUBMIT_READY", "SUBMIT_DISPATCHED", "OBSERVED", "DONE">>

Phases == {Ranked[i] : i \in DOMAIN Ranked} \cup {"FREE"}
Statuses == {"PENDING", "FAILED", "TIMEOUT", "MANUAL_REVIEW", "DONE"}

Row == [phase : Phases, status : Statuses, key : Keys \cup {None},
        scope : Scopes \cup {None}, owner : Owners \cup {None}]

FreeRow == [phase |-> "FREE", status |-> "PENDING", key |-> None, scope |-> None, owner |-> None]

\* The three writes, and the phase that is on disk before each is sent.
Kinds == {"user", "shadow", "create"}

KindOf(phase) ==
    CASE phase = "USER_DISPATCHED" -> "user"
      [] phase = "SHADOW_DISPATCHED" -> "shadow"
      [] OTHER -> "create"

Labels == {"idle", "check", "dispatch", "send", "reply", "readUser", "syncUser",
           "readShadow", "submitReady", "readback", "observe", "readAccess",
           "material", "finalize", "release"}

\* phase, owner: of the row the task claimed; seen: the version it read.
Task == [pc : Labels, op : Operations \cup {None}, phase : Phases,
         owner : Owners \cup {None}, seen : Versions, verdict : Statuses]

Idle == [pc |-> "idle", op |-> None, phase |-> "FREE", owner |-> None, seen |-> 0,
         verdict |-> "PENDING"]

TypeOK ==
    /\ rows \in [Operations -> Row]
    /\ lease \in [Operations -> Tasks \cup {None}]
    /\ alive \in [Operations -> BOOLEAN]
    /\ copy \in [Operations -> Versions]
    /\ task \in [Tasks -> Task]
    /\ scope \in Scopes
    /\ link \in Owners
    /\ known \in BOOLEAN
    /\ access \in [Operations -> {"none", "legacy", "managed"}]
    /\ failed \in SUBSET Operations
    /\ version \in [Operations -> Versions]
    /\ ready \in [Operations -> BOOLEAN]
    /\ issued \in [Operations -> SUBSET Versions]
    /\ inflight \in SUBSET (Kinds \X Operations)
    /\ posts \in [Kinds \X Operations -> Nat]
    /\ late \in SUBSET Operations
    /\ trouble \in Troubles /\ slips \in 0..trouble.slips

\* Which SaaS user and which credentials are the first does not matter.
FirstOwner == CHOOSE o \in Owners : TRUE
FirstScope == CHOOSE s \in Scopes : TRUE

Init ==
    /\ rows = [op \in Operations |-> FreeRow]
    /\ lease = [op \in Operations |-> None]
    /\ alive = [op \in Operations |-> TRUE]
    /\ copy = [op \in Operations |-> 0]
    /\ task = [t \in Tasks |-> Idle]
    /\ scope = FirstScope
    /\ link = FirstOwner
    /\ known \in BOOLEAN
    /\ access = [op \in Operations |-> "none"]
    /\ failed = {}
    /\ version = [op \in Operations |-> 0]
    /\ ready = [op \in Operations |-> FALSE]
    /\ issued = [op \in Operations |-> {}]
    /\ inflight = {}
    /\ posts = [q \in Kinds \X Operations |-> 0]
    /\ late = {}
    /\ trouble \in Troubles
    /\ slips = 0

-----------------------------------------------------------------------------
(* The journal                                                             *)

\* Mistake: only what the loop still works on blocks the next grant.
UnresolvedPending == {op \in Operations : rows[op].phase # "FREE" /\ rows[op].status = "PENDING"}

Unresolved == {op \in Operations : rows[op].phase # "FREE" /\ rows[op].status # "DONE"}

OfKey(k) == {op \in Operations : rows[op].key = k}

\* _owned: the fencing token is the task's and its lease has not run out.
Leased(t) == lease[task[t].op] = t

Unlease(op) == lease' = [lease EXCEPT ![op] = None]

(***************************************************************************)
(* confirm: a message that created an operation shows it for ever; an      *)
(* unresolved operation of the user is shown to its administrator; else    *)
(* the draft key and the operation are written together.                   *)
(***************************************************************************)
Create(k, op) ==
    /\ OfKey(k) \cup Unresolved = {}
    /\ op \in trouble.ops /\ rows[op].phase = "FREE"
    /\ rows' = [rows EXCEPT ![op] = [FreeRow EXCEPT !.phase = "PREPARED", !.key = k,
                                                    !.scope = scope]]

Reuse(k, op) ==
    /\ op \in OfKey(k) \/ (OfKey(k) = {} /\ op \in Unresolved)
    /\ rows[op].scope = scope /\ rows[op].key[1] = k[1]
    /\ UNCHANGED rows

Confirm(k, op) ==
    /\ Create(k, op) \/ Reuse(k, op)
    /\ UNCHANGED <<lease, alive, copy, bot, saas, network, late, trouble, slips>>

-----------------------------------------------------------------------------
(* The worker                                                              *)

At(t, label) == task[t].pc = label
Become(t, r) == task' = [task EXCEPT ![t] = r]
Goto(t, label) == Become(t, [task[t] EXCEPT !.pc = label])
Stop(t) == Become(t, Idle)
Conclude(t, status) == Become(t, [task[t] EXCEPT !.pc = "release", !.verdict = status])

\* Mistake: a grant is pending however old it is.
UnfinishedForever(op) == "PENDING"

\* After 900 seconds an unfinished pass ends with TIMEOUT.
Unfinished(op) == IF op \in late THEN "TIMEOUT" ELSE "PENDING"
Later(t) == Conclude(t, Unfinished(task[t].op))

Outside == UNCHANGED <<scope, saas, late, trouble, slips>>
Quiet == Outside /\ UNCHANGED <<journal, network>>

Claim(t, op) ==
    /\ At(t, "idle")
    /\ rows[op].phase # "FREE" /\ rows[op].status # "DONE"
    /\ lease[op] = None
    /\ t = Loop => rows[op].status = "PENDING"
    /\ lease' = [lease EXCEPT ![op] = t]
    /\ Become(t, [Idle EXCEPT !.pc = "check", !.op = op, !.phase = rows[op].phase,
                              !.owner = rows[op].owner])
    /\ Outside /\ UNCHANGED <<rows, alive, copy, network>>

\* Where a row of this phase is taken up: the writes wait for no answer, they
\* are read back.
TakeUp(phase) ==
    CASE phase \in {"PREPARED", "USER_SYNCED", "SUBMIT_READY"} -> "dispatch"
      [] phase = "USER_DISPATCHED" -> "readUser"
      [] phase = "SHADOW_DISPATCHED" -> "readShadow"
      [] OTHER -> "readback"

Check(t) ==
    /\ At(t, "check")
    /\ IF rows[task[t].op].scope # scope \/ ~alive[task[t].op]
         THEN Conclude(t, "MANUAL_REVIEW")
         ELSE Goto(t, TakeUp(task[t].phase))
    /\ Quiet

\* advance, by the lease holder, from the phase it read, to phase; the task
\* continues at label.
Advance(t, phase, owner, label) ==
    /\ IF Leased(t) /\ rows[task[t].op].phase = task[t].phase
         THEN /\ rows' = [rows EXCEPT ![task[t].op].phase = phase,
                                      ![task[t].op].owner = owner]
              /\ Become(t, [task[t] EXCEPT !.pc = label, !.phase = phase, !.owner = owner])
         ELSE Stop(t) /\ UNCHANGED rows
    /\ Outside /\ UNCHANGED <<lease, alive, copy, network>>

Dispatched(phase) ==
    CASE phase = "PREPARED" -> "USER_DISPATCHED"
      [] phase = "USER_SYNCED" -> "SHADOW_DISPATCHED"
      [] phase = "SUBMIT_READY" -> "SUBMIT_DISPATCHED"

\* Mistake: the request leaves before the dispatch is on disk.
DispatchLate(t) ==
    /\ At(t, "dispatch")
    /\ Become(t, [task[t] EXCEPT !.pc = "send", !.phase = Dispatched(@)])
    /\ Quiet

Dispatch(t) ==
    /\ At(t, "dispatch")
    /\ Advance(t, Dispatched(task[t].phase), task[t].owner, "send")

Send(t) ==
    /\ At(t, "send")
    /\ LET q == <<KindOf(task[t].phase), task[t].op>>
       IN inflight' = inflight \cup {q} /\ posts' = [posts EXCEPT ![q] = @ + 1]
    /\ Goto(t, "reply")
    /\ Outside /\ UNCHANGED journal

\* The write took effect.
Done(kind, op) ==
    CASE kind = "user" -> known
      [] kind = "shadow" -> access[op] # "none"
      [] kind = "create" -> access[op] = "managed"

\* A good answer, or any error.
Reply(t) ==
    /\ At(t, "reply")
    /\ \/ Done(KindOf(task[t].phase), task[t].op) /\ Goto(t, TakeUp(task[t].phase))
       \/ Later(t)
    /\ Quiet

\* The dashboard must name the SaaS user the row was bound to.
OwnerKept(t) == task[t].owner \in {None, link}

ReadUser(t) ==
    /\ At(t, "readUser")
    /\ IF ~known THEN Later(t)
       ELSE IF ~OwnerKept(t) THEN Conclude(t, "MANUAL_REVIEW")
       ELSE Become(t, [task[t] EXCEPT !.pc = "syncUser", !.owner = link])
    /\ Quiet

SyncUser(t) ==
    /\ At(t, "syncUser")
    /\ Advance(t, "USER_SYNCED", task[t].owner, "dispatch")

\* Mistake: the dashboard is not asked what it holds.
ReadShadowAny(t) ==
    /\ At(t, "readShadow")
    /\ IF OwnerKept(t) THEN Goto(t, "submitReady") ELSE Conclude(t, "MANUAL_REVIEW")
    /\ Quiet

ReadShadow(t) ==
    /\ At(t, "readShadow")
    /\ IF OwnerKept(t) /\ access[task[t].op] = "legacy"
         THEN Goto(t, "submitReady")
         ELSE Conclude(t, "MANUAL_REVIEW")
    /\ Quiet

SubmitReady(t) ==
    /\ At(t, "submitReady")
    /\ Advance(t, "SUBMIT_READY", task[t].owner, "dispatch")

\* Only the readback under the original key says whether the grant exists.
Readback(t) ==
    /\ At(t, "readback")
    /\ IF access[task[t].op] = "managed"
         THEN Become(t, [task[t] EXCEPT !.pc = "observe", !.verdict =
                            IF task[t].op \in failed THEN "FAILED" ELSE "PENDING"])
       ELSE Later(t) \/ Conclude(t, "TIMEOUT") \/ Conclude(t, "MANUAL_REVIEW")
    /\ Quiet

\* The status came with the readback.
Observe(t) ==
    /\ At(t, "observe")
    /\ Advance(t, "OBSERVED", task[t].owner,
               IF task[t].verdict = "FAILED" THEN "release" ELSE "readAccess")

ReadAccess(t) ==
    /\ At(t, "readAccess")
    /\ LET op == task[t].op
       IN IF ~OwnerKept(t) THEN Conclude(t, "MANUAL_REVIEW")
          ELSE Become(t, [task[t] EXCEPT !.pc = "material",
                                         !.seen = IF ready[op] THEN version[op] ELSE 0])
    /\ Quiet

Material(t) ==
    /\ At(t, "material")
    /\ LET op == task[t].op
       IN IF ~ready[op] THEN Later(t)
          ELSE IF version[op] # task[t].seen THEN Conclude(t, "MANUAL_REVIEW")
          ELSE Goto(t, "finalize")
    /\ Quiet

MayApply(op, v) == alive[op] /\ v >= 1 /\ v >= copy[op]

\* The projection and DONE share one transaction.
Finalize(t) ==
    /\ At(t, "finalize")
    /\ LET op == task[t].op
       IN IF ~Leased(t) THEN Stop(t) /\ UNCHANGED <<rows, lease, copy>>
          ELSE IF rows[op].phase = "OBSERVED" /\ MayApply(op, task[t].seen)
            THEN /\ copy' = [copy EXCEPT ![op] = task[t].seen]
                 /\ rows' = [rows EXCEPT ![op].phase = "DONE", ![op].status = "DONE"]
                 /\ Unlease(op)
                 /\ Stop(t)
          ELSE Conclude(t, "MANUAL_REVIEW") /\ UNCHANGED <<rows, lease, copy>>
    /\ Outside /\ UNCHANGED <<alive, network>>

Release(t) ==
    /\ At(t, "release")
    /\ IF Leased(t)
         THEN rows' = [rows EXCEPT ![task[t].op].status = task[t].verdict] /\ Unlease(task[t].op)
         ELSE UNCHANGED <<rows, lease>>
    /\ Stop(t)
    /\ Outside /\ UNCHANGED <<alive, copy, network>>

-----------------------------------------------------------------------------
(* Failures                                                                *)

Slip == slips < trouble.slips /\ slips' = slips + 1

\* A remote read or the last commit fails.
Unavailable(t) ==
    /\ task[t].pc \in {"readUser", "readShadow", "readback", "readAccess", "material", "finalize"}
    /\ Slip /\ Later(t)
    /\ UNCHANGED <<journal, scope, saas, network, late, trouble>>

Crash(t) ==
    /\ ~At(t, "idle")
    /\ Slip /\ Stop(t)
    /\ UNCHANGED <<journal, scope, saas, network, late, trouble>>

\* 120 seconds pass: under a task that is still at work, or after its end.
Expire(op) ==
    /\ lease[op] # None
    /\ IF \E t \in Tasks : lease[op] = t /\ ~At(t, "idle") /\ task[t].op = op
         THEN Slip ELSE UNCHANGED slips
    /\ Unlease(op)
    /\ UNCHANGED <<rows, alive, copy, bot, saas, network, late, trouble>>

GrowLate(op) ==
    /\ op \in Unresolved \ late
    /\ late' = late \cup {op}
    /\ UNCHANGED <<journal, bot, saas, network, trouble, slips>>

\* The draft key is deleted, the bot restarts with other SaaS credentials.
RemoveKey(op) ==
    /\ rows[op].phase # "FREE" /\ alive[op]
    /\ alive' = [alive EXCEPT ![op] = FALSE]
    /\ UNCHANGED <<rows, lease, copy, bot, saas, network, late, trouble, slips>>

Rescope ==
    /\ scope' \in Scopes \ {scope}
    /\ UNCHANGED <<journal, task, saas, network, late, trouble, slips>>

\* A payment return projects what it verified earlier.
ReturnProject(op) ==
    /\ \E v \in issued[op] : MayApply(op, v) /\ copy' = [copy EXCEPT ![op] = v]
    /\ UNCHANGED <<rows, lease, alive, bot, saas, network, late, trouble, slips>>

-----------------------------------------------------------------------------
(* SaaS and the network: external                                          *)

Bot == <<journal, bot, late, trouble, slips>>

Lose(q) ==
    /\ inflight' = inflight \ {q}
    /\ UNCHANGED <<Bot, saas, posts>>

Handle(q) ==
    /\ inflight' = inflight \ {q}
    /\ LET op == q[2]
       IN \/ /\ q[1] = "user" /\ known' = TRUE
             /\ UNCHANGED <<access, version>>
          \/ /\ q[1] = "shadow" /\ access[op] = "none"
             /\ access' = [access EXCEPT ![op] = "legacy"]
             /\ UNCHANGED <<known, version>>
          \/ /\ q[1] = "create" /\ access[op] = "legacy"
             /\ access' = [access EXCEPT ![op] = "managed"]
             /\ version' = [version EXCEPT ![op] = 1]
             /\ UNCHANGED known
    /\ UNCHANGED <<Bot, link, failed, ready, issued, posts>>

\* The shadow outbox reports the draft key as well.
ShadowElsewhere(op) ==
    /\ rows[op].phase # "FREE" /\ known /\ access[op] = "none"
    /\ access' = [access EXCEPT ![op] = "legacy"]
    /\ UNCHANGED <<Bot, link, known, failed, version, ready, issued, network>>

Materialise(op) ==
    /\ access[op] = "managed" /\ op \notin failed /\ ~ready[op]
    /\ ready' = [ready EXCEPT ![op] = TRUE]
    /\ issued' = [issued EXCEPT ![op] = @ \cup {version[op]}]
    /\ UNCHANGED <<Bot, link, known, access, failed, version, network>>

Rotate(op) ==
    /\ ready[op] /\ version[op] + 1 \in Versions
    /\ version' = [version EXCEPT ![op] = @ + 1]
    /\ ready' = [ready EXCEPT ![op] = FALSE]
    /\ UNCHANGED <<Bot, link, known, access, failed, issued, network>>

Fail(op) ==
    /\ access[op] = "managed" /\ op \notin failed
    /\ failed' = failed \cup {op}
    /\ ready' = [ready EXCEPT ![op] = FALSE]
    /\ UNCHANGED <<Bot, link, known, access, version, issued, network>>

Relink ==
    /\ link' \in Owners \ {link}
    /\ UNCHANGED <<Bot, known, access, failed, version, ready, issued, network>>

Disturb(op) ==
    \/ "remove" \in trouble.happen /\ RemoveKey(op)
    \/ "return" \in trouble.happen /\ ReturnProject(op)
    \/ "outbox" \in trouble.happen /\ ShadowElsewhere(op)
    \/ "rotate" \in trouble.happen /\ Rotate(op)
    \/ "fail" \in trouble.happen /\ Fail(op)

-----------------------------------------------------------------------------
Work(t) ==
    \/ Check(t) \/ Dispatch(t) \/ Send(t) \/ Reply(t) \/ ReadUser(t) \/ SyncUser(t)
    \/ ReadShadow(t) \/ SubmitReady(t) \/ Readback(t) \/ Observe(t) \/ ReadAccess(t)
    \/ Material(t) \/ Finalize(t) \/ Release(t)

\* Everything but the confirmations.
Progress ==
    \/ \E t \in Tasks :
          \/ Work(t) \/ Unavailable(t) \/ Crash(t)
          \/ \E op \in Operations : Claim(t, op)
    \/ \E op \in Operations :
          \/ Expire(op) \/ GrowLate(op) \/ Materialise(op) \/ Disturb(op)
    \/ \E q \in inflight : Lose(q) \/ Handle(q)
    \/ "rescope" \in trouble.happen /\ Rescope
    \/ "relink" \in trouble.happen /\ Relink

Next == Progress \/ \E k \in Keys, op \in Operations : Confirm(k, op)

\* asyncio runs every task on; the loop passes over all due rows every five
\* seconds; leases end and grants grow old.  Nothing remote is fair.
Fairness ==
    /\ \A t \in Tasks : WF_vars(Work(t))
    /\ \A op \in Operations :
          SF_vars(Claim(Loop, op)) /\ WF_vars(Expire(op)) /\ WF_vars(GrowLate(op))

Spec == Init /\ [][Next]_vars
FairSpec == Spec /\ Fairness
=============================================================================
