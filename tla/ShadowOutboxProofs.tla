-------------------------- MODULE ShadowOutboxProofs --------------------------
(***************************************************************************)
(* The safety of ShadowOutboxProps for any number of changes, refreshers,  *)
(* retries and crashes and any size of a batch.                            *)
(***************************************************************************)
EXTENDS ShadowOutboxProps, TLAPS, WellFoundedInduction, FiniteSetTheorems

-----------------------------------------------------------------------------
(* The oldest events of a set                                              *)

LEMMA NatMin ==
    ASSUME NEW S, S \subseteq Nat, S # {}
    PROVE  \E x \in S : \A y \in S : x <= y
<1> DEFINE R == OpToRel(<, Nat)
<1>1. IsWellFoundedOn(R, Nat)
  BY NatLessThanWellFounded
<1>2. \A x, y \in Nat : <<y, x>> \in R <=> y < x
  BY DEF OpToRel
<1> HIDE DEF R
<1>3. PICK x \in S : \A y \in S : ~(<<y, x>> \in R)
  BY <1>1, WFMin
<1>4. \A y \in S : ~(y < x)
  BY <1>2, <1>3
<1> QED BY <1>4

LEMMA VersionsNat == Versions \subseteq Nat /\ \A v \in Versions : v \in Nat /\ v > 0
BY OutboxAssumption DEF Versions

LEMMA VersionsFinite == IsFiniteSet(Versions)
BY OutboxAssumption, FS_Interval DEF Versions

LEMMA OldestOf ==
    ASSUME NEW S, S \subseteq Versions, S # {}
    PROVE  Oldest(S) \in S /\ \A w \in S : Oldest(S) <= w
<1>1. \E v \in S : \A w \in S : v <= w
  BY VersionsNat, NatMin
<1> QED BY <1>1 DEF Oldest

\* A batch holds the oldest events that are due: whatever is older than one
\* of its events and due is in it too.
LEMMA BatchOldest ==
    ASSUME NEW due, due \subseteq Versions
    PROVE  /\ Batch(due) \subseteq due
           /\ \A v \in due, w \in Batch(due) : v < w => v \in Batch(due)
           /\ due # {} => Batch(due) # {}
<1> DEFINE Older(v) == {w \in due : w < v}
<1>1. \A v \in due : IsFiniteSet(Older(v)) /\ Cardinality(Older(v)) \in Nat
  <2> TAKE v \in due
  <2> DEFINE S == Older(v)
  <2>1. S \in SUBSET Versions
    OBVIOUS
  <2> HIDE DEF S
  <2>2. IsFiniteSet(S)
    BY <2>1, VersionsFinite, FS_Subset
  <2>3. Cardinality(S) \in Nat
    BY <2>2, FS_CardinalityType
  <2> QED BY <2>2, <2>3 DEF S
<1>2. \A v \in due, w \in Batch(due) : v < w => v \in Batch(due)
  <2> SUFFICES ASSUME NEW v \in due, NEW w \in Batch(due), v < w
               PROVE  v \in Batch(due)
    OBVIOUS
  <2>1. w \in due /\ Cardinality(Older(w)) < BatchSize
    BY DEF Batch
  <2>2. v \in Nat /\ w \in Nat /\ \A u \in due : u \in Nat
    BY <2>1, VersionsNat
  <2>3. \A u \in due : u < v => u < w
    BY <2>2
  <2>4. Older(v) \in SUBSET Older(w)
    BY <2>3
  <2>5. Cardinality(Older(v)) <= Cardinality(Older(w))
    <3> DEFINE S == Older(w)
    <3>          T == Older(v)
    <3>1. IsFiniteSet(S) /\ T \in SUBSET S
      BY <1>1, <2>1, <2>4
    <3> HIDE DEF S, T
    <3>2. Cardinality(T) <= Cardinality(S)
      BY <3>1, FS_Subset
    <3> QED BY <3>2 DEF S, T
  <2>6. Cardinality(Older(v)) < BatchSize
    BY <1>1, <2>1, <2>5, OutboxAssumption
  <2> QED BY <2>6 DEF Batch
<1>3. ASSUME due # {} PROVE Batch(due) # {}
  <2>1. PICK v \in due : \A w \in due : v <= w
    BY <1>3, VersionsNat, NatMin
  <2>2. \A w \in due : ~(w < v)
    <3>1. v \in Nat /\ \A w \in due : w \in Nat
      BY VersionsNat
    <3> QED BY <2>1, <3>1
  <2>3. Cardinality(Older(v)) = 0
    <3>1. Older(v) = {}
      BY <2>2
    <3> QED BY <3>1, FS_EmptySet
  <2>4. Cardinality(Older(v)) < BatchSize
    BY <2>3, OutboxAssumption
  <2> QED BY <2>4 DEF Batch
<1> QED BY <1>2, <1>3 DEF Batch

\* At work on an event, the worker holds the oldest one of its batch.
LEMMA EventTrue ==
    ASSUME IInv, worker.at \in {"batch", "user", "access"}
    PROVE  /\ Event \in worker.batch /\ Event \in outbox /\ Event \in Versions
           /\ \A v \in worker.batch : Event <= v
           /\ \A v \in outbox : v < Event => attempts[v] > 0
<1>1. worker.batch # {} /\ worker.batch \subseteq outbox /\ outbox \subseteq Versions
  BY DEF IInv, BatchTrue, TypeOK
<1>2. Event \in worker.batch /\ \A v \in worker.batch : Event <= v
  BY <1>1, OldestOf DEF Event
<1>3. \A v \in worker.batch : ~(v < Event)
  <2>1. Event \in Nat /\ \A v \in worker.batch : v \in Nat
    BY <1>1, <1>2, VersionsNat
  <2> QED BY <1>2, <2>1
<1>4. \A v \in outbox : v < Event => attempts[v] > 0
  BY <1>2, <1>3 DEF IInv, BatchTrue
<1> QED BY <1>1, <1>2, <1>4

\* Without failures no event of the outbox is older than the one at work.
LEMMA EventFirst ==
    ASSUME IInv, Quietly, worker.at \in {"batch", "user", "access"}
    PROVE  \A v \in outbox : Event <= v
<1>1. outbox \subseteq Versions
  BY DEF IInv, TypeOK
<1>2. \A v \in outbox : ~(v < Event)
  BY <1>1, EventTrue DEF Quietly
<1>3. Event \in Versions
  BY EventTrue
<1> QED BY <1>1, <1>2, <1>3, VersionsNat

\* The pass goes on to the rest of its batch.
LEMMA ProceedKeeps ==
    ASSUME IInv, worker.at \in {"batch", "user", "access"}, Proceed
    PROVE  /\ worker' \in [at : {"off", "poll", "batch", "user", "access"}, batch : SUBSET Versions]
           /\ worker'.batch # {} <=> worker'.at \in {"batch", "user", "access"}
           /\ worker'.batch = worker.batch \ {Event}
BY EventTrue DEF IInv, TypeOK, Proceed

-----------------------------------------------------------------------------
(* The steps                                                               *)

LEMMA InitInv == Init => IInv
<1> SUFFICES ASSUME Init PROVE IInv
  OBVIOUS
<1>1. TypeOK
  BY OutboxAssumption DEF Init, TypeOK, Keys, Stopped, Off
<1>2. BatchTrue /\ DelayTrue /\ EventsTrue /\ DirectTrue
  <2>1. EventsTrue
    BY VersionsNat DEF Init, EventsTrue
  <2>2. BatchTrue /\ DelayTrue /\ DirectTrue
    BY DEF Init, BatchTrue, DelayTrue, DirectTrue, Stopped, Off
  <2> QED BY <2>1, <2>2
<1>3. InOrder
  BY DEF Init, InOrder
<1> QED BY <1>1, <1>2, <1>3 DEF IInv

-----------------------------------------------------------------------------
(* Frames                                                                  *)

\* A step that takes nothing off the outbox and lets SaaS process nothing
\* keeps the order; requests under way may be lost, attempts may be counted.
LEMMA OrderStays ==
    ASSUME IInv, UNCHANGED <<gate, key, last, tomb, payload, outbox, applied, shadow>>,
           network' \subseteq network,
           \A v \in Versions : attempts'[v] = 0 => attempts[v] = 0
    PROVE  Quietly' => InOrder'
BY DEF IInv, Quietly, InOrder

\* The events and the pass stay as they are.
LEMMA EventsStay ==
    ASSUME IInv, UNCHANGED <<key, last, tomb, payload, events, worker>>, applied \subseteq applied'
    PROVE  BatchTrue' /\ DelayTrue' /\ EventsTrue'
BY DEF IInv, BatchTrue, DelayTrue, EventsTrue, events

\* The worker is started: it has no batch yet.
LEMMA StartKeeps ==
    ASSUME IInv, StartWorker \/ UNCHANGED worker
    PROVE  /\ worker' \in [at : {"off", "poll", "batch", "user", "access"}, batch : SUBSET Versions]
           /\ worker'.batch # {} <=> worker'.at \in {"batch", "user", "access"}
           /\ worker'.batch = worker.batch
BY DEF IInv, TypeOK, BatchTrue, StartWorker

-----------------------------------------------------------------------------
(* The row                                                                 *)

\* What the next version reports has the name of its first version again.
LEMMA ReportKeeps ==
    ASSUME IInv, Report
    PROVE  /\ last \in Nat /\ last + 1 \in Versions /\ last' = last + 1
           /\ payload' \in [Versions -> Versions]
           /\ \A v \in 1..last : payload'[v] = payload[v]
           /\ \A v \in Versions : /\ payload'[v] <= v /\ payload'[payload'[v]] = payload'[v]
                                  /\ v > last' => payload'[v] = v
<1>1. last \in Nat /\ last + 1 \in Versions /\ last' = last + 1 /\ last \in 0..MaxVersion
  <2>1. last < MaxGated \/ last < MaxVersion
    BY DEF Report
  <2>2. last \in 0..MaxVersion /\ last' = last + 1
    BY DEF IInv, TypeOK, Report
  <2> QED BY <2>1, <2>2, OutboxAssumption DEF Versions
<1>2. PICK p \in {payload[v] : v \in 1..last} \cup {last + 1} :
             payload' = [payload EXCEPT ![last + 1] = p]
  BY DEF Report
<1>3. \A v \in 1..last : v \in Versions /\ v # last + 1
  BY <1>1, OutboxAssumption DEF Versions
<1>4. /\ payload \in [Versions -> Versions]
      /\ \A v \in Versions : /\ payload[v] <= v /\ payload[payload[v]] = payload[v]
                             /\ v > last => payload[v] = v
      /\ \A v \in Versions : v \in Nat /\ v > 0 /\ payload[v] \in Nat /\ payload[v] > 0
  BY VersionsNat DEF IInv, TypeOK, EventsTrue
<1>5. p = last + 1 \/ (p \in 1..last /\ payload[p] = p)
  <2>1. ASSUME NEW v \in 1..last, p = payload[v] PROVE p \in 1..last /\ payload[p] = p
    <3>1. v \in Versions
      BY <1>3
    <3>2. payload[v] <= v /\ payload[payload[v]] = payload[v] /\ payload[v] \in Nat /\ payload[v] > 0
      BY <1>4, <3>1
    <3>3. payload[v] \in 1..last
      BY <1>1, <3>2
    <3> QED BY <2>1, <3>2, <3>3
  <2>2. p = last + 1 \/ \E v \in 1..last : p = payload[v]
    BY <1>2
  <2>3. CASE p = last + 1
    BY <2>3
  <2>4. CASE \E v \in 1..last : p = payload[v]
    <3>1. PICK v \in 1..last : p = payload[v]
      BY <2>4
    <3> QED BY <2>1, <3>1
  <2> QED BY <2>2, <2>3, <2>4
<1>6. p \in Versions /\ p <= last + 1
  BY <1>1, <1>3, <1>5
<1>7. \A v \in Versions : payload'[v] = IF v = last + 1 THEN p ELSE payload[v]
  BY <1>2, <1>4
<1>8. \A v \in 1..last : payload'[v] = payload[v]
  BY <1>3, <1>7
<1>9. payload' \in [Versions -> Versions]
  BY <1>2, <1>4, <1>6
<1>10. ASSUME NEW v \in Versions
       PROVE  /\ payload'[v] <= v /\ payload'[payload'[v]] = payload'[v]
              /\ v > last' => payload'[v] = v
  <2>1. CASE v = last + 1
    <3>1. payload'[v] = p
      BY <1>7, <2>1
    <3>2. payload'[p] = p
      BY <1>1, <1>5, <1>7, <1>8, <2>1
    <3> QED BY <1>1, <1>6, <2>1, <3>1, <3>2
  <2>2. CASE v # last + 1
    <3>1. payload'[v] = payload[v]
      BY <1>7, <2>2
    <3>2. payload[v] # last + 1
      <4>1. payload[v] <= v /\ (v > last => payload[v] = v) /\ v \in Nat /\ payload[v] \in Nat
        BY <1>4
      <4> QED BY <1>1, <2>2, <4>1
    <3>3. payload[v] \in Versions /\ payload'[payload[v]] = payload[payload[v]]
      BY <1>4, <1>7, <3>2
    <3>4. payload[v] <= v /\ payload[payload[v]] = payload[v] /\ (v > last => payload[v] = v)
      BY <1>4
    <3>5. v > last' => v > last
      BY <1>1, <1>4
    <3> QED BY <3>1, <3>3, <3>4, <3>5
  <2> QED BY <2>1, <2>2
<1> QED BY <1>1, <1>8, <1>9, <1>10

LEMMA ChangeKeeps == ASSUME IInv, Change PROVE IInv'
<1>1. /\ last \in Nat /\ last + 1 \in Versions /\ last' = last + 1
      /\ payload' \in [Versions -> Versions]
      /\ \A v \in 1..last : payload'[v] = payload[v]
      /\ \A v \in Versions : /\ payload'[v] <= v /\ payload'[payload'[v]] = payload'[v]
                             /\ v > last' => payload'[v] = v
  BY ReportKeeps DEF Change
<1>2. TypeOK'
  <2>1. last' \in 0..MaxVersion
    BY <1>1 DEF Versions
  <2>2. payload' \in [Versions -> Versions] /\ last + 1 \in Versions
    BY <1>1
  <2> QED BY <2>1, <2>2 DEF IInv, TypeOK, Change, Keys, remote
<1>3. BatchTrue' /\ DelayTrue' /\ EventsTrue'
  <2>1. \A w \in worker.batch : w < last + 1
    <3>1. \A w \in worker.batch : w \in 1..last
      BY DEF IInv, BatchTrue, EventsTrue
    <3> QED BY <1>1, <3>1
  <2>2. BatchTrue'
    <3>1. \A w \in worker.batch : w \in Nat
      BY VersionsNat DEF IInv, TypeOK
    <3>2. \A w \in worker.batch : ~(last + 1 < w)
      BY <1>1, <2>1, <3>1
    <3> QED BY <3>2 DEF IInv, BatchTrue, Change
  <2>3. DelayTrue'
    BY DEF IInv, DelayTrue, Change
  <2>4. EventsTrue'
    <3>1. /\ outbox' = outbox \cup {last + 1} /\ key' = "legacy" /\ key \in {"none", "legacy"}
          /\ tomb' = tomb /\ applied' = applied
      BY DEF Change, remote
    <3>2. outbox' \subseteq 1..last' /\ 1..last' \subseteq outbox' \cup applied' \cup {tomb'}
      <4>1. outbox \subseteq 1..last /\ 1..last \subseteq outbox \cup applied \cup {tomb}
        BY <3>1 DEF IInv, EventsTrue
      <4>2. 1..last' = (1..last) \cup {last + 1}
        BY <1>1
      <4> QED BY <3>1, <4>1, <4>2
    <3>3. tomb' = 0
      BY <3>1 DEF IInv, EventsTrue
    <3> QED BY <1>1, <3>1, <3>2, <3>3 DEF EventsTrue
  <2> QED BY <2>2, <2>3, <2>4
<1>4. DirectTrue'
  BY <1>1 DEF IInv, DirectTrue, Change
<1>5. Quietly' => InOrder'
  <2> SUFFICES ASSUME Quietly' PROVE InOrder'
    OBVIOUS
  <2>1. InOrder /\ tomb = 0 /\ outbox \subseteq 1..last
    BY DEF IInv, Quietly, Change, EventsTrue
  <2>2. applied' = applied /\ network' = network /\ shadow' = shadow /\ tomb' = tomb
        /\ key' = "legacy" /\ outbox' = outbox \cup {last + 1}
    BY DEF Change, remote
  <2>3. applied' \subseteq 1..last'
    BY <1>1, <2>1, <2>2 DEF InOrder
  <2>4. \A a \in applied', v \in outbox' \ applied' : a < v
    BY <1>1, <2>1, <2>2 DEF InOrder
  <2>5. \A m \in network' : /\ m[2] \in outbox' \cup applied'
                            /\ m[2] \in applied' \/ \A v \in outbox' \ applied' : m[2] <= v
    <3> TAKE m \in network'
    <3>1. /\ m[2] \in outbox \cup applied
          /\ m[2] \in applied \/ \A v \in outbox \ applied : m[2] <= v
      BY <2>1, <2>2 DEF InOrder
    <3>2. m[2] \in 1..last
      BY <2>1, <3>1 DEF InOrder
    <3>3. m[2] <= last + 1
      BY <1>1, <3>2
    <3> QED BY <2>2, <3>1, <3>3
  <2>6. IF applied' = {} THEN shadow' = 0
        ELSE /\ shadow' \in applied' /\ payload'[shadow'] = shadow'
             /\ \A a \in applied' : payload'[a] = a => a <= shadow'
    BY <1>1, <2>1, <2>2 DEF InOrder
  <2> QED BY <2>2, <2>3, <2>4, <2>5, <2>6 DEF InOrder
<1> QED BY <1>2, <1>3, <1>4, <1>5 DEF IInv

LEMMA AdoptKeeps == ASSUME IInv, Adopt PROVE IInv'
<1>1. TypeOK'
  BY DEF IInv, TypeOK, Adopt, Keys, events, remote
<1>2. BatchTrue' /\ DelayTrue' /\ EventsTrue' /\ DirectTrue'
  BY DEF IInv, BatchTrue, DelayTrue, EventsTrue, DirectTrue, Adopt, events
<1>3. ~Quietly'
  BY DEF Quietly, Adopt
<1> QED BY <1>1, <1>2, <1>3 DEF IInv

LEMMA DeleteKeeps == ASSUME IInv, Delete PROVE IInv'
<1>1. /\ last \in Nat /\ last + 1 \in Versions /\ last' = last + 1
      /\ payload' \in [Versions -> Versions]
      /\ \A v \in 1..last : payload'[v] = payload[v]
      /\ \A v \in Versions : /\ payload'[v] <= v /\ payload'[payload'[v]] = payload'[v]
                             /\ v > last' => payload'[v] = v
  BY ReportKeeps DEF Delete
<1>2. /\ last' = last + 1 /\ tomb' = last + 1 /\ key' = "deleting" /\ key = "legacy"
      /\ UNCHANGED <<gate, outbox, attempts, delay, worker, direct, network, applied, shadow>>
  BY <1>1 DEF Delete, events, remote
<1>3. TypeOK'
  <2>1. last' \in 0..MaxVersion /\ tomb' \in 0..MaxVersion
    BY <1>1, <1>2 DEF Versions
  <2>2. payload' \in [Versions -> Versions]
    BY <1>1
  <2> QED BY <1>2, <2>1, <2>2 DEF IInv, TypeOK, Delete, Keys, remote
<1>4. BatchTrue' /\ DelayTrue' /\ EventsTrue' /\ DirectTrue'
  <2>1. BatchTrue' /\ DelayTrue' /\ DirectTrue'
    BY <1>1, <1>2 DEF IInv, BatchTrue, DelayTrue, DirectTrue
  <2>2. outbox \subseteq 1..last /\ 1..last \subseteq outbox \cup applied \cup {0}
    BY <1>2 DEF IInv, EventsTrue
  <2>3. 1..last' = (1..last) \cup {last + 1} /\ 0 \notin 1..last
    BY <1>1
  <2>4. /\ outbox' \subseteq 1..last' /\ 1..last' \subseteq outbox' \cup applied' \cup {tomb'}
        /\ tomb' = last' /\ tomb' \notin outbox'
    <3>1. last + 1 \notin outbox
      BY <1>1, <2>2
    <3> QED BY <1>1, <1>2, <2>2, <2>3, <3>1
  <2> QED BY <1>1, <1>2, <2>1, <2>4 DEF EventsTrue
<1>5. Quietly' => InOrder'
  <2> SUFFICES ASSUME Quietly' PROVE InOrder'
    OBVIOUS
  <2>1. InOrder /\ tomb = 0
    BY <1>2 DEF IInv, Quietly, EventsTrue
  <2>2. applied \subseteq 1..(last + 1) /\ last + 1 \notin applied
    BY <1>1, <2>1 DEF InOrder
  <2>3. IF applied = {} THEN shadow = 0
        ELSE /\ shadow \in applied /\ payload'[shadow] = shadow
             /\ \A a \in applied : payload'[a] = a => a <= shadow
    BY <1>1, <2>1 DEF InOrder
  <2> QED BY <1>2, <2>1, <2>2, <2>3 DEF InOrder
<1> QED BY <1>3, <1>4, <1>5 DEF IInv

LEMMA BuryKeeps == ASSUME IInv, Bury PROVE IInv'
<1>1. /\ tomb = last /\ tomb \notin outbox /\ key = "deleting" /\ key' = "deleted"
      /\ outbox' = outbox \cup {tomb} /\ last # 0
      /\ UNCHANGED <<gate, last, tomb, payload, attempts, delay, direct, network, applied, shadow>>
  BY DEF IInv, EventsTrue, DirectTrue, Bury, remote
<1>2. last \in Nat /\ last \in Versions
  BY <1>1, OutboxAssumption DEF IInv, TypeOK, Versions
<1>3. /\ worker' \in [at : {"off", "poll", "batch", "user", "access"}, batch : SUBSET Versions]
      /\ worker'.batch # {} <=> worker'.at \in {"batch", "user", "access"}
      /\ worker'.batch = worker.batch
  BY StartKeeps DEF Bury
<1>4. TypeOK'
  BY <1>1, <1>2, <1>3 DEF IInv, TypeOK, Bury, Keys, remote
<1>5. \A w \in worker.batch : ~(last < w)
  <2>1. \A w \in worker.batch : w \in 1..last
    BY DEF IInv, BatchTrue, EventsTrue
  <2> QED BY <1>2, <2>1
<1>6. BatchTrue'
  BY <1>1, <1>3, <1>5 DEF IInv, BatchTrue
<1>7. DelayTrue' /\ EventsTrue' /\ DirectTrue'
  <2>1. DelayTrue' /\ DirectTrue'
    BY <1>1, <1>2 DEF IInv, DelayTrue, DirectTrue
  <2>2. outbox' \subseteq 1..last'
    BY <1>1, <1>2 DEF IInv, EventsTrue
  <2> QED BY <1>1, <2>1, <2>2 DEF IInv, EventsTrue
<1>8. Quietly' => InOrder'
  <2> SUFFICES ASSUME Quietly' PROVE InOrder'
    OBVIOUS
  <2>1. InOrder /\ tomb \notin applied /\ outbox \subseteq 1..last
    BY <1>1 DEF IInv, Quietly, InOrder, EventsTrue
  <2>2. \A a \in applied' : a < last
    BY <1>1, <1>2, <2>1 DEF InOrder
  <2>3. \A a \in applied', v \in outbox' \ applied' : a < v
    BY <1>1, <2>1, <2>2 DEF InOrder
  <2>4. \A m \in network' : /\ m[2] \in outbox' \cup applied'
                            /\ m[2] \in applied' \/ \A v \in outbox' \ applied' : m[2] <= v
    <3> TAKE m \in network'
    <3>1. /\ m[2] \in outbox \cup applied
          /\ m[2] \in applied \/ \A v \in outbox \ applied : m[2] <= v
      BY <1>1, <2>1 DEF InOrder
    <3>2. m[2] \in 1..last
      BY <2>1, <3>1 DEF InOrder
    <3>3. m[2] <= last
      BY <1>2, <3>2
    <3> QED BY <1>1, <3>1, <3>3
  <2> QED BY <1>1, <2>1, <2>3, <2>4 DEF InOrder
<1> QED BY <1>4, <1>6, <1>7, <1>8 DEF IInv

-----------------------------------------------------------------------------
(* The worker                                                              *)

\* The pass has an event the less, and that event is kept only with a failure.
LEMMA PassKeeps ==
    ASSUME IInv, worker.at \in {"batch", "user", "access"}, Proceed,
           UNCHANGED <<key, last, tomb, payload, applied>>,
           key = "managed" \/ outbox \subseteq outbox' \cup applied,
           \/ outbox' = outbox \ {Event} /\ UNCHANGED attempts
           \/ /\ outbox' = outbox
              /\ \A v \in Versions : IF v = Event THEN attempts'[v] > 0
                                     ELSE attempts'[v] = attempts[v]
    PROVE  BatchTrue' /\ EventsTrue'
<1>1. /\ worker'.batch # {} <=> worker'.at \in {"batch", "user", "access"}
      /\ worker'.batch = worker.batch \ {Event}
  BY ProceedKeeps
<1>2. /\ worker.batch \subseteq outbox /\ outbox \subseteq Versions
      /\ \A v \in outbox \ worker.batch, w \in worker.batch : v < w => attempts[v] > 0
  BY DEF IInv, BatchTrue, TypeOK
<1>3. worker'.batch \subseteq outbox' /\ outbox' \subseteq outbox
  BY <1>1, <1>2
<1>4. \A v \in outbox' \ worker'.batch, w \in worker'.batch : v < w => attempts'[v] > 0
  <2> TAKE v \in outbox' \ worker'.batch, w \in worker'.batch
  <2>1. v \in Versions /\ w \in worker.batch
    BY <1>1, <1>2, <1>3
  <2>2. CASE v = Event
    BY <2>1, <2>2
  <2>3. CASE v # Event
    <3>1. v \in outbox \ worker.batch /\ attempts'[v] = attempts[v]
      BY <1>1, <1>3, <2>1, <2>3
    <3> QED BY <1>2, <2>1, <3>1
  <2> QED BY <2>2, <2>3
<1>5. BatchTrue'
  BY <1>1, <1>3, <1>4 DEF BatchTrue
<1>6. EventsTrue'
  BY <1>3 DEF IInv, EventsTrue
<1> QED BY <1>5, <1>6

LEMMA PollKeeps == ASSUME IInv, Poll PROVE IInv'
<1> DEFINE due == {v \in outbox : delay[v] = "due"}
<1>1. /\ worker.at = "poll"
      /\ worker' = [at |-> IF due = {} THEN "poll" ELSE "batch", batch |-> Batch(due)]
      /\ delay' = [v \in Versions |-> IF delay[v] = "long" THEN "short" ELSE delay[v]]
      /\ UNCHANGED <<gate, up, key, last, tomb, payload, outbox, attempts, direct, network, applied,
                     shadow, refused, slips>>
  BY DEF Poll, row, remote
<1>2. outbox \subseteq Versions /\ due \subseteq Versions /\ due \subseteq outbox
      /\ \A v \in outbox : v \in due <=> delay[v] = "due"
  BY DEF IInv, TypeOK
<1> HIDE DEF due
<1>3. /\ Batch(due) \subseteq due
      /\ \A v \in due, w \in Batch(due) : v < w => v \in Batch(due)
      /\ due # {} => Batch(due) # {}
  BY <1>2, BatchOldest
<1>4. TypeOK'
  <2>1. worker' \in [at : {"off", "poll", "batch", "user", "access"}, batch : SUBSET Versions]
    BY <1>1, <1>2, <1>3
  <2>2. delay' \in [Versions -> {"due", "short", "long"}]
    BY <1>1 DEF IInv, TypeOK
  <2> QED BY <1>1, <2>1, <2>2 DEF IInv, TypeOK
<1>5. BatchTrue'
  <2>1. worker'.batch = Batch(due) /\ worker'.at = IF due = {} THEN "poll" ELSE "batch"
    BY <1>1
  <2>2. \A v \in outbox \ Batch(due), w \in Batch(due) : v < w => attempts[v] > 0
    BY <1>2, <1>3 DEF IInv, DelayTrue
  <2>3. worker'.batch # {} <=> worker'.at \in {"batch", "user", "access"}
    BY <1>3, <2>1
  <2> QED BY <1>1, <1>2, <1>3, <2>1, <2>2, <2>3 DEF BatchTrue
<1>6. DelayTrue'
  BY <1>1 DEF IInv, DelayTrue
<1>7. EventsTrue' /\ DirectTrue'
  BY <1>1 DEF IInv, EventsTrue, DirectTrue
<1>8. Quietly' => InOrder'
  BY <1>1, OrderStays
<1> QED BY <1>4, <1>5, <1>6, <1>7, <1>8 DEF IInv

LEMMA BecomeDueKeeps == ASSUME IInv, NEW v \in Versions, BecomeDue(v) PROVE IInv'
<1>1. TypeOK'
  BY DEF IInv, TypeOK, BecomeDue, row, remote
<1>2. BatchTrue' /\ DelayTrue' /\ EventsTrue' /\ DirectTrue'
  BY DEF IInv, TypeOK, BatchTrue, DelayTrue, EventsTrue, DirectTrue, BecomeDue, row, remote
<1>3. Quietly' => InOrder'
  BY OrderStays DEF BecomeDue, row, remote
<1> QED BY <1>1, <1>2, <1>3 DEF IInv

LEMMA TakeKeeps == ASSUME IInv, Take PROVE IInv'
<1>1. worker.at = "batch" /\ UNCHANGED <<gate, up, key, last, tomb, payload, attempts, delay, direct,
                                         network, applied, shadow, refused, slips>>
  BY DEF Take, row, remote
<1>2. DelayTrue' /\ DirectTrue'
  BY <1>1 DEF IInv, DelayTrue, DirectTrue
<1>3. CASE key = "managed"
  <2>1. Proceed /\ outbox' = outbox \ {Event}
    BY <1>3 DEF Take
  <2>2. BatchTrue' /\ EventsTrue'
    BY <1>1, <1>3, <2>1, PassKeeps
  <2>3. TypeOK'
    BY <1>1, <2>1, ProceedKeeps DEF IInv, TypeOK
  <2>4. ~Quietly'
    BY <1>1, <1>3 DEF Quietly
  <2> QED BY <1>2, <2>2, <2>3, <2>4 DEF IInv
<1>4. CASE key # "managed"
  <2>1. worker' = [worker EXCEPT !.at = "user"] /\ outbox' = outbox
    BY <1>4 DEF Take
  <2>2. TypeOK'
    BY <1>1, <2>1 DEF IInv, TypeOK
  <2>3. worker'.at = "user" /\ worker'.batch = worker.batch
    BY <2>1 DEF IInv, TypeOK
  <2>4. BatchTrue' /\ EventsTrue'
    BY <1>1, <2>1, <2>3 DEF IInv, BatchTrue, EventsTrue
  <2>5. Quietly' => InOrder'
    BY <1>1, <2>1, OrderStays
  <2> QED BY <1>2, <2>2, <2>4, <2>5 DEF IInv
<1> QED BY <1>3, <1>4

LEMMA SendEventKeeps == ASSUME IInv, SendEvent PROVE IInv'
<1>1. /\ worker.at = "user" /\ worker' = [worker EXCEPT !.at = "access"]
      /\ network' = network \cup {<<Worker, Event>>}
      /\ UNCHANGED <<gate, up, key, last, tomb, payload, outbox, attempts, delay, direct, applied,
                     shadow, refused, slips>>
  BY DEF SendEvent, row, events
<1>2. Event \in outbox /\ Event \in Versions
  BY <1>1, EventTrue
<1>3. worker'.at = "access" /\ worker'.batch = worker.batch
  BY <1>1 DEF IInv, TypeOK
<1>4. TypeOK'
  BY <1>1, <1>2 DEF IInv, TypeOK
<1>5. BatchTrue' /\ DelayTrue' /\ EventsTrue' /\ DirectTrue'
  BY <1>1, <1>3 DEF IInv, BatchTrue, DelayTrue, EventsTrue, DirectTrue
<1>6. Quietly' => InOrder'
  <2> SUFFICES ASSUME Quietly' PROVE InOrder'
    OBVIOUS
  <2>1. Quietly /\ InOrder
    BY <1>1 DEF IInv, Quietly
  <2>2. \A v \in outbox : Event <= v
    BY <1>1, <2>1, EventFirst
  <2>3. \A m \in network' : /\ m[2] \in outbox' \cup applied'
                            /\ m[2] \in applied' \/ \A v \in outbox' \ applied' : m[2] <= v
    <3> TAKE m \in network'
    <3>1. CASE m \in network
      BY <1>1, <2>1, <3>1 DEF InOrder
    <3>2. CASE m = <<Worker, Event>>
      <4>1. m[2] = Event
        BY <3>2
      <4> QED BY <1>1, <1>2, <2>2, <4>1
    <3> QED BY <1>1, <3>1, <3>2
  <2> QED BY <1>1, <2>1, <2>3 DEF InOrder
<1> QED BY <1>4, <1>5, <1>6 DEF IInv

LEMMA MarkDeliveredKeeps == ASSUME IInv, MarkDelivered PROVE IInv'
<1>1. /\ worker.at = "access" /\ Event \in applied /\ Proceed /\ outbox' = outbox \ {Event}
      /\ UNCHANGED <<gate, up, key, last, tomb, payload, attempts, delay, direct, network, applied,
                     shadow, refused, slips>>
  BY DEF MarkDelivered, row, remote
<1>2. TypeOK'
  BY <1>1, ProceedKeeps DEF IInv, TypeOK
<1>3. BatchTrue' /\ EventsTrue'
  BY <1>1, PassKeeps
<1>4. DelayTrue' /\ DirectTrue'
  BY <1>1 DEF IInv, DelayTrue, DirectTrue
<1>5. Quietly' => InOrder'
  <2> SUFFICES ASSUME Quietly' PROVE InOrder'
    OBVIOUS
  <2>1. InOrder
    BY <1>1 DEF IInv, Quietly
  <2>2. outbox' \ applied' = outbox \ applied /\ outbox' \cup applied' = outbox \cup applied
    BY <1>1
  <2> QED BY <1>1, <2>1, <2>2 DEF InOrder
<1> QED BY <1>2, <1>3, <1>4, <1>5 DEF IInv

LEMMA MarkFailedKeeps == ASSUME IInv, MarkFailed PROVE IInv'
<1>1. /\ worker.at \in {"batch", "user", "access"} /\ Proceed /\ network' \subseteq network
      /\ UNCHANGED <<gate, up, key, last, tomb, payload, outbox, direct, applied, shadow, refused, slips>>
  BY DEF MarkFailed, row
<1>2. Event \in Versions
  BY <1>1, EventTrue
<1>3. PICK n \in 1..(QuickRetries + 1) :
            /\ attempts' = [attempts EXCEPT ![Event] = n]
            /\ delay' = [delay EXCEPT ![Event] = Delay(n)]
  <2>1. attempts[Event] \in 0..(QuickRetries + 1)
    BY <1>2 DEF IInv, TypeOK
  <2> DEFINE n == IF attempts[Event] <= QuickRetries THEN attempts[Event] + 1
                  ELSE attempts[Event]
  <2>2. n \in 1..(QuickRetries + 1)
    BY <2>1, OutboxAssumption
  <2>3. attempts' = [attempts EXCEPT ![Event] = n] /\ delay' = [delay EXCEPT ![Event] = Delay(n)]
    BY DEF MarkFailed
  <2> HIDE DEF n
  <2> QED BY <2>2, <2>3
<1>4. n > 0 /\ n \in 0..(QuickRetries + 1) /\ Delay(n) \in {"due", "short", "long"}
  BY <1>3, OutboxAssumption DEF Delay
<1>5. \A v \in Versions : IF v = Event THEN attempts'[v] = n /\ delay'[v] = Delay(n)
                          ELSE attempts'[v] = attempts[v] /\ delay'[v] = delay[v]
  BY <1>2, <1>3 DEF IInv, TypeOK
<1>6. TypeOK'
  <2>1. attempts' \in [Versions -> 0..(QuickRetries + 1)]
    BY <1>2, <1>3, <1>4 DEF IInv, TypeOK
  <2>2. delay' \in [Versions -> {"due", "short", "long"}]
    BY <1>2, <1>3, <1>4 DEF IInv, TypeOK
  <2> QED BY <1>1, <2>1, <2>2, ProceedKeeps DEF IInv, TypeOK
<1>7. BatchTrue' /\ EventsTrue'
  BY <1>1, <1>4, <1>5, PassKeeps
<1>8. DelayTrue'
  BY <1>4, <1>5 DEF IInv, DelayTrue
<1>9. DirectTrue'
  BY <1>1 DEF IInv, DirectTrue
<1>10. Quietly' => InOrder'
  BY <1>2, <1>4, <1>5 DEF Quietly
<1> QED BY <1>6, <1>7, <1>8, <1>9, <1>10 DEF IInv

-----------------------------------------------------------------------------
(* The direct senders                                                      *)

LEMMA BecomeForm ==
    ASSUME IInv, NEW d \in Direct, NEW at \in {"off", "dashboard", "user", "access"},
           NEW snap \in 0..MaxVersion, Become(d, at, snap)
    PROVE  /\ direct' \in [Direct -> [at : {"off", "dashboard", "user", "access"},
                                      snap : 0..MaxVersion]]
           /\ \A e \in Direct : direct'[e] = IF e = d THEN [at |-> at, snap |-> snap]
                                             ELSE direct[e]
BY DEF IInv, TypeOK, Become

\* A direct sender moves, and sends at most what it holds.
LEMMA DirectKeeps ==
    ASSUME IInv, NEW d \in Direct, NEW at \in {"off", "dashboard", "user", "access"},
           NEW snap \in 0..MaxVersion, Become(d, at, snap),
           at # "off" => gate /\ snap # 0,
           \/ network' \subseteq network
           \/ gate /\ snap # 0 /\ network' = network \cup {<<d, snap>>},
           UNCHANGED <<gate, up, row, events, worker, applied, shadow, refused, slips>>
    PROVE  IInv'
<1>1. UNCHANGED <<gate, up, key, last, tomb, payload, outbox, attempts, delay, worker, applied, shadow,
                  refused, slips>>
  BY DEF row, events
<1>2. network' \subseteq ((Direct \cup {Worker}) \X Versions)
  <2>1. network \subseteq ((Direct \cup {Worker}) \X Versions)
    BY DEF IInv, TypeOK
  <2>2. snap # 0 => snap \in Versions
    BY OutboxAssumption DEF Versions
  <2> QED BY <2>1, <2>2
<1>3. TypeOK'
  BY <1>1, <1>2, BecomeForm DEF IInv, TypeOK
<1>4. BatchTrue' /\ DelayTrue' /\ EventsTrue'
  BY <1>1, EventsStay DEF events
<1>5. DirectTrue'
  <2>1. \A e \in Direct : direct'[e] = IF e = d THEN [at |-> at, snap |-> snap] ELSE direct[e]
    BY BecomeForm
  <2>2. direct'[d].at = at /\ direct'[d].snap = snap
    BY <2>1
  <2>3. \A e \in Direct : e # d => direct'[e] = direct[e]
    BY <2>1
  <2> QED BY <1>1, <2>2, <2>3 DEF IInv, DirectTrue
<1>6. Quietly' => InOrder'
  BY <1>1, OrderStays DEF Quietly
<1> QED BY <1>3, <1>4, <1>5, <1>6 DEF IInv

LEMMA RefreshKeeps == ASSUME IInv, NEW d \in Direct, Refresh(d) PROVE IInv'
<1>1. last # 0 /\ last \in 0..MaxVersion
  BY DEF IInv, TypeOK, DirectTrue, Refresh
<1>2. Become(d, "user", last) /\ gate /\ network' \subseteq network
      /\ UNCHANGED <<gate, up, row, events, worker, applied, shadow, refused, slips>>
  BY DEF Refresh, remote
<1> QED BY <1>1, <1>2, DirectKeeps

LEMMA CompareKeeps == ASSUME IInv, NEW d \in Direct, Compare(d) PROVE IInv'
<1>1. /\ gate /\ direct[d].snap # 0 /\ direct[d].snap \in 0..MaxVersion
  BY DEF IInv, TypeOK, DirectTrue, Compare
<1>2. network' \subseteq network
      /\ UNCHANGED <<gate, up, row, events, worker, applied, shadow, refused, slips>>
  BY DEF Compare, remote
<1>3. ASSUME Become(d, "user", direct[d].snap) PROVE IInv'
  BY <1>1, <1>2, <1>3, DirectKeeps
<1>4. ASSUME Become(d, "off", 0) PROVE IInv'
  <2>1. PICK z \in 0..MaxVersion : z = 0
    BY OutboxAssumption
  <2>2. Become(d, "off", z)
    BY <1>4, <2>1
  <2> QED BY <1>2, <2>2, DirectKeeps
<1>5. Become(d, "user", direct[d].snap) \/ Become(d, "off", 0)
  BY DEF Compare
<1> QED BY <1>3, <1>4, <1>5

LEMMA SendDirectKeeps == ASSUME IInv, NEW d \in Direct, SendDirect(d) PROVE IInv'
<1>1. /\ gate /\ direct[d].snap # 0 /\ direct[d].snap \in 0..MaxVersion
  BY DEF IInv, TypeOK, DirectTrue, SendDirect
<1>2. Become(d, "access", direct[d].snap) /\ network' = network \cup {<<d, direct[d].snap>>}
      /\ UNCHANGED <<gate, up, row, events, worker, applied, shadow, refused, slips>>
  BY DEF SendDirect
<1> QED BY <1>1, <1>2, DirectKeeps

LEMMA EndDirectKeeps == ASSUME IInv, NEW d \in Direct, EndDirect(d) PROVE IInv'
<1>1. PICK z \in 0..MaxVersion : z = 0
  BY OutboxAssumption
<1>2. network' \subseteq network
      /\ UNCHANGED <<gate, up, row, events, worker, applied, shadow, refused, slips>>
  BY DEF EndDirect
<1>3. Become(d, "off", z)
  BY <1>1 DEF EndDirect
<1> QED BY <1>1, <1>2, <1>3, DirectKeeps

-----------------------------------------------------------------------------
(* SaaS and the process                                                    *)

\* Without failures a snapshot lands when SaaS has processed all earlier ones:
\* it is written when its payload is new, and ignored when it is not.
LEMMA FirstLanding ==
    ASSUME IInv, Quietly, InOrder, NEW v \in Versions, v \in outbox, v \notin applied,
           \A w \in outbox \ applied : v <= w,
           applied' = applied \cup {v},
           shadow' = IF \E w \in applied : payload[w] = payload[v] THEN shadow ELSE v
    PROVE  /\ shadow' \in applied' /\ payload[shadow'] = shadow'
           /\ \A a \in applied' : payload[a] = a => a <= shadow'
<1>1. /\ \A w \in Versions : w \in Nat /\ w > 0 /\ payload[w] \in Versions /\ payload[w] <= w
      /\ \A w \in Versions : payload[payload[w]] = payload[w]
      /\ applied \subseteq Versions /\ outbox \subseteq Versions /\ last \in Nat
  BY VersionsNat, OutboxAssumption DEF IInv, TypeOK, EventsTrue
<1>2. \A a \in applied : a < v
  BY DEF InOrder
<1>3. v \in 1..last /\ 1..last \subseteq outbox \cup applied \cup {tomb}
  BY DEF IInv, EventsTrue, Quietly
<1>4. CASE payload[v] = v
  <2>1. \A w \in applied : payload[w] # payload[v]
    <3>1. \A w \in applied : payload[w] <= w /\ w < v /\ payload[w] \in Nat /\ w \in Nat /\ v \in Nat
      BY <1>1, <1>2
    <3>2. \A w \in applied : payload[w] # v
      BY <3>1
    <3> QED BY <1>4, <3>2
  <2>2. shadow' = v
    BY <2>1
  <2>3. \A a \in applied' : a <= v
    BY <1>1, <1>2
  <2> QED BY <1>4, <2>2, <2>3
<1>5. CASE payload[v] # v
  <2>1. payload[v] < v /\ payload[v] \in 1..last /\ payload[v] \in Versions
    <3>1. payload[v] \in Versions /\ payload[v] <= v
      BY <1>1
    <3>2. payload[v] \in Nat /\ payload[v] > 0 /\ v \in Nat
      BY <1>1, <3>1
    <3> QED BY <1>1, <1>3, <1>5, <3>1, <3>2
  <2>2. payload[v] \notin outbox \ applied
    BY <1>1, <2>1
  <2>3. payload[v] # tomb
    <3>1. tomb = 0 \/ tomb = last
      BY DEF IInv, EventsTrue
    <3> QED BY <1>1, <1>3, <2>1, <3>1
  <2>4. payload[v] \in applied
    BY <1>3, <2>1, <2>2, <2>3
  <2>5. shadow' = shadow
    BY <1>1, <2>4
  <2>6. /\ shadow \in applied /\ payload[shadow] = shadow
        /\ \A a \in applied : payload[a] = a => a <= shadow
    BY <2>4 DEF InOrder
  <2> QED BY <1>5, <2>5, <2>6
<1> QED BY <1>4, <1>5

LEMMA LandKeeps == ASSUME IInv, NEW message \in network, Land(message) PROVE IInv'
<1> DEFINE v == message[2]
<1>1. /\ network' = network \ {message} /\ applied' = applied \cup {v}
      /\ shadow' = IF \E w \in applied : payload[w] = payload[v] THEN shadow ELSE v
      /\ UNCHANGED <<gate, up, key, last, tomb, payload, outbox, attempts, delay, worker, direct,
                     refused, slips>>
  BY DEF Land, IdempotencyKey, row, events
<1>2. v \in Versions
  BY DEF IInv, TypeOK
<1> HIDE DEF v
<1>3. TypeOK'
  <2>1. shadow' \in 0..MaxVersion
    BY <1>1, <1>2 DEF IInv, TypeOK, Versions
  <2> QED BY <1>1, <1>2, <2>1 DEF IInv, TypeOK
<1>4. BatchTrue' /\ DelayTrue' /\ EventsTrue'
  BY <1>1, EventsStay DEF events
<1>5. DirectTrue'
  BY <1>1 DEF IInv, DirectTrue
<1>6. Quietly' => InOrder'
  <2> SUFFICES ASSUME Quietly' PROVE InOrder'
    OBVIOUS
  <2>1. Quietly /\ InOrder
    BY <1>1 DEF IInv, Quietly
  <2>2. /\ v \in outbox \cup applied
        /\ v \in applied \/ \A w \in outbox \ applied : v <= w
    BY <2>1 DEF InOrder, v
  <2>3. outbox \subseteq 1..last /\ (key = "deleting" => tomb \notin outbox)
    BY DEF IInv, EventsTrue
  <2>4. outbox \subseteq Versions /\ applied \subseteq Versions
    BY DEF IInv, TypeOK
  <2>5. /\ applied' \subseteq 1..last'
        /\ key' = "deleting" => tomb' \notin applied'
    BY <1>1, <2>1, <2>2, <2>3 DEF InOrder
  <2>6. \A a \in applied', w \in outbox' \ applied' : a < w
    <3> TAKE a \in applied', w \in outbox' \ applied'
    <3>1. w \in outbox \ applied /\ w # v /\ w \in Nat /\ v \in Nat
      BY <1>1, <1>2, <2>4, VersionsNat
    <3>2. CASE a \in applied
      BY <2>1, <3>1, <3>2 DEF InOrder
    <3>3. CASE a \notin applied
      <4>1. a = v /\ v <= w
        BY <1>1, <2>2, <3>1, <3>3
      <4> QED BY <3>1, <4>1
    <3> QED BY <3>2, <3>3
  <2>7. \A m \in network' : /\ m[2] \in outbox' \cup applied'
                            /\ m[2] \in applied' \/ \A w \in outbox' \ applied' : m[2] <= w
    BY <1>1, <2>1 DEF InOrder
  <2>8. /\ shadow' \in applied' /\ payload[shadow'] = shadow'
        /\ \A a \in applied' : payload[a] = a => a <= shadow'
    <3>1. CASE v \in applied
      BY <1>1, <2>1, <3>1 DEF InOrder
    <3>2. CASE v \notin applied
      BY <1>1, <1>2, <2>1, <2>2, <3>2, FirstLanding
    <3> QED BY <3>1, <3>2
  <2> QED BY <1>1, <2>5, <2>6, <2>7, <2>8 DEF InOrder
<1> QED BY <1>3, <1>4, <1>5, <1>6 DEF IInv

LEMMA StartUpKeeps == ASSUME IInv, Start PROVE IInv'
<1>1. /\ UNCHANGED <<gate, key, last, tomb, payload, outbox, attempts, delay, network, applied, shadow,
                     refused, slips>>
      /\ up' = "starting"
      /\ StartWorker \/ UNCHANGED worker
      /\ \/ gate /\ key = "legacy" /\ Become(Reconciler, "dashboard", last)
         \/ direct' = direct
  BY DEF Start, row, events, remote
<1>2. /\ worker' \in [at : {"off", "poll", "batch", "user", "access"}, batch : SUBSET Versions]
      /\ worker'.batch # {} <=> worker'.at \in {"batch", "user", "access"}
      /\ worker'.batch = worker.batch
  <2>1. StartWorker \/ UNCHANGED worker
    BY DEF Start
  <2> QED BY <2>1, StartKeeps
<1>3. /\ direct' \in [Direct -> [at : {"off", "dashboard", "user", "access"}, snap : 0..MaxVersion]]
      /\ DirectTrue'
  <2>1. CASE direct' = direct
    BY <1>1, <2>1 DEF IInv, TypeOK, DirectTrue
  <2>2. CASE gate /\ key = "legacy" /\ Become(Reconciler, "dashboard", last)
    <3>1. Reconciler \in Direct /\ last \in 0..MaxVersion /\ last # 0
      BY <2>2 DEF IInv, TypeOK, DirectTrue, Direct
    <3>2. /\ direct' \in [Direct -> [at : {"off", "dashboard", "user", "access"},
                                      snap : 0..MaxVersion]]
          /\ \A e \in Direct : direct'[e] = IF e = Reconciler
                                             THEN [at |-> "dashboard", snap |-> last]
                                             ELSE direct[e]
      BY <2>2, <3>1, BecomeForm
    <3>3. /\ direct'[Reconciler].snap = last
          /\ \A e \in Direct : e # Reconciler => direct'[e] = direct[e]
      BY <3>1, <3>2
    <3> QED BY <1>1, <2>2, <3>1, <3>2, <3>3 DEF IInv, DirectTrue
  <2>3. direct' = direct \/ (gate /\ key = "legacy" /\ Become(Reconciler, "dashboard", last))
    BY DEF Start
  <2> QED BY <2>1, <2>2, <2>3
<1>4. TypeOK'
  <2>1. up' = "starting"
    BY DEF Start
  <2> QED BY <1>1, <1>2, <1>3, <2>1 DEF IInv, TypeOK
<1>5. BatchTrue' /\ DelayTrue' /\ EventsTrue'
  BY <1>1, <1>2 DEF IInv, BatchTrue, DelayTrue, EventsTrue
<1>6. Quietly' => InOrder'
  BY <1>1, OrderStays
<1> QED BY <1>3, <1>4, <1>5, <1>6 DEF IInv

LEMMA ServeKeeps == ASSUME IInv, Serve PROVE IInv'
<1>1. TypeOK'
  BY DEF IInv, TypeOK, Serve, row, events, remote
<1>2. BatchTrue' /\ DelayTrue' /\ EventsTrue'
  BY EventsStay DEF Serve, row, remote
<1>3. DirectTrue'
  BY DEF IInv, DirectTrue, Serve, row
<1>4. Quietly' => InOrder'
  BY OrderStays DEF Serve, row, events, remote
<1> QED BY <1>1, <1>2, <1>3, <1>4 DEF IInv

LEMMA CrashKeeps == ASSUME IInv, Crash PROVE IInv'
<1>1. /\ key' = IF key = "deleting" THEN "deleted" ELSE key
      /\ worker' = Stopped /\ direct' = [d \in Direct |-> Off] /\ up' = "down"
      /\ network' \subseteq network /\ slips < MaxSlips /\ slips' = slips + 1
      /\ UNCHANGED <<gate, last, tomb, payload, outbox, attempts, delay, applied, shadow, refused>>
  BY DEF Crash, events
<1>2. slips' \in 0..MaxSlips /\ 0 \in 0..MaxVersion
  BY <1>1, OutboxAssumption DEF IInv, TypeOK
<1>3. TypeOK'
  BY <1>1, <1>2 DEF IInv, TypeOK, Keys, Stopped, Off
<1>4. BatchTrue' /\ DelayTrue' /\ EventsTrue' /\ DirectTrue'
  BY <1>1 DEF IInv, BatchTrue, DelayTrue, EventsTrue, DirectTrue, Stopped, Off
<1>5. Quietly' => InOrder'
  BY <1>1 DEF IInv, Quietly, InOrder
<1> QED BY <1>3, <1>4, <1>5 DEF IInv

-----------------------------------------------------------------------------
(* The theorems                                                            *)

LEMMA StepInv == IInv /\ [Next]_vars => IInv'
<1> SUFFICES ASSUME IInv, [Next]_vars PROVE IInv'
  OBVIOUS
<1>1. CASE Change \/ Adopt \/ Delete \/ Bury
  BY <1>1, ChangeKeeps, AdoptKeeps, DeleteKeeps, BuryKeeps
<1>2. CASE WorkerNext
  BY <1>2, PollKeeps, TakeKeeps, SendEventKeeps, MarkDeliveredKeeps, MarkFailedKeeps
  DEF WorkerNext
<1>3. CASE \E v \in Versions : BecomeDue(v)
  BY <1>3, BecomeDueKeeps
<1>4. CASE \E d \in Direct : Refresh(d) \/ Compare(d) \/ SendDirect(d) \/ EndDirect(d)
  BY <1>4, RefreshKeeps, CompareKeeps, SendDirectKeeps, EndDirectKeeps
<1>5. CASE \E message \in network : Land(message)
  BY <1>5, LandKeeps
<1>6. CASE Start \/ Serve \/ Crash
  BY <1>6, StartUpKeeps, ServeKeeps, CrashKeeps
<1>7. CASE UNCHANGED vars
  <2>1. UNCHANGED <<gate, up, key, last, tomb, payload, outbox, attempts, delay, worker, direct, network,
                    applied, shadow, refused, slips>>
    BY <1>7 DEF vars, row, events, remote
  <2> QED BY <2>1 DEF IInv, TypeOK, BatchTrue, DelayTrue, EventsTrue, DirectTrue, Quietly, InOrder
<1> QED BY <1>1, <1>2, <1>3, <1>4, <1>5, <1>6, <1>7 DEF Next

\* The pass, the events and, without failures, what SaaS has processed stay
\* in the order of the changes through every interleaving of triggers,
\* deletions, worker, refreshes, lost answers and crashes.
THEOREM InvariantHolds == Spec => []IInv
BY InitInv, StepInv, PTL DEF Spec

THEOREM TypeCorrect == Spec => []TypeOK
<1>1. IInv => TypeOK
  BY DEF IInv
<1> QED BY <1>1, InvariantHolds, PTL

\* ORDER BY id over the events that are due (access_shadow_outbox.py): an
\* older event is overtaken only while it waits for another attempt.
THEOREM FailedAreOvertaken == Spec => []OvertakesOnlyFailed
<1>1. IInv => OvertakesOnlyFailed
  BY EventTrue DEF OvertakesOnlyFailed
<1> QED BY <1>1, InvariantHolds, PTL

\* The outbox alone, without failures, leaves SaaS with the newest payload of
\* the key that no earlier change had, however often the process was killed and
\* a delivery repeated.
THEOREM QuietEndsCurrent == Spec => []QuietShowsNewest
<1>1. IInv => QuietShowsNewest
  <2> SUFFICES ASSUME IInv, Settled
               PROVE  shadow \in NewPayloads /\ \A v \in NewPayloads : v <= shadow
    BY DEF QuietShowsNewest
  <2>1. /\ InOrder /\ last \in Nat /\ last # 0 /\ outbox = {} /\ (tomb # 0 => tomb \in applied)
        /\ 1..last \subseteq applied \cup {tomb}
    BY OutboxAssumption DEF IInv, Settled, Quietly, TypeOK, DirectTrue, EventsTrue
  <2>2. applied \subseteq 1..last /\ 1..last \subseteq applied
    <3>1. tomb = 0 \/ tomb \in applied
      BY <2>1
    <3> QED BY <2>1, <3>1 DEF InOrder
  <2>3. last \in applied
    BY <2>1, <2>2
  <2> QED BY <2>1, <2>2, <2>3 DEF InOrder, NewPayloads
<1> QED BY <1>1, InvariantHolds, PTL

\* A change leaves the outbox only by its own success or for a projection that
\* has bound the key, and comes to it with its commit: at no time is one missing
\* from both the outbox and what SaaS has processed.
THEOREM LostIsNothing == Spec => []NothingLost
<1>1. IInv => NothingLost
  BY DEF IInv, EventsTrue, NothingLost
<1> QED BY <1>1, InvariantHolds, PTL
=============================================================================
