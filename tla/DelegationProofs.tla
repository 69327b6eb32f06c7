--------------------------- MODULE DelegationProofs -------------------------
(***************************************************************************)
(* Proofs about delegation: the subagent pool, for any number of delegates *)
(* and messages, any size and any limit of turns, and the Python objects   *)
(* an application delegates through, the engine handles, the team, the     *)
(* node handle and the event relay, for any coroutines, states, engines,   *)
(* messages and events.                                                    *)
(***************************************************************************)
EXTENDS SubagentPool, Delegation, SequenceTheorems, FiniteSetTheorems, TLAPS

-----------------------------------------------------------------------------
(* SubagentPool *)

(* What the constants stand for.  Uuids do not run out: there are as many  *)
(* identities as engines ever exist at once.                               *)
ConstantsOK ==
  /\ IsFiniteSet(Tasks) /\ Messages \subseteq Tasks /\ Nobody \notin Messages
  /\ Nobody # "populate" /\ NoEngine \notin Engines
  /\ Size \in Nat
  /\ IsFiniteSet(Engines) => Cardinality(Engines) >= 2 * Size

-----------------------------------------------------------------------------
(* The inductive invariant *)

(* The semaphore's queue holds delegates that wait, once each.             *)
LineUpInv ==
  /\ \A i \in 1..Len(waiting) : stage[waiting[i]] = "waiting"
  /\ \A i, j \in 1..Len(waiting) : waiting[i] = waiting[j] => i = j

(* Permits are with the semaphore or with a delegate().                    *)
At(S) == {t \in Tasks : stage[t] \in S}
PermitInv == permits + Cardinality(At(Holding)) = Size

(* The delegates that have an engine or are getting one.                   *)
WithSlot == {"running", "recycle"}
Working == WithSlot \cup {"build"}

SlotInv == \A t \in Tasks : slot[t] # NoEngine <=> stage[t] \in WithSlot

(* What is idle and what is worked with fits the pool.                     *)
SizeInv ==
  /\ Len(idle) <= Size /\ (lock = "populate" => populated)
  /\ Len(idle) + Cardinality(At(Working)) <= IF populated THEN 2 * Size ELSE Size

(* Only a State of successful runs is kept, and none without its engine.   *)
HistInv ==
  \A e \in Engines :
    /\ e \notin live => hist[e] = {}
    /\ \A t \in hist[e] : ended[t] = "ok"

EndedInv ==
  \A t \in Tasks :
    ended[t] = "none" <=> stage[t] \in {"out", "waiting", "granted", "build", "running"}

(* A message is queued, being served or answered.                          *)
MessageInv ==
  /\ \A i \in 1..Len(inbox) : stage[inbox[i]] = "out" /\ inbox[i] # serving
  /\ \A i, j \in 1..Len(inbox) : inbox[i] = inbox[j] => i = j
  /\ \A m \in Messages :
       /\ Len(replies[m]) <= 1
       /\ stage[m] # "returned" \/ serving = m => replies[m] = <<>>

IInv ==
  /\ TypeOK /\ LineUpInv /\ PermitInv /\ SlotInv /\ SizeInv /\ SlotExclusive
  /\ HistInv /\ EndedInv /\ MessageInv

(* handle_delegate_msg answers no message twice.                           *)
AnsweredOnce == \A m \in Messages : Len(replies[m]) <= 1
-----------------------------------------------------------------------------
(* Counting delegates *)

LEMMA AtFinite ==
  ASSUME ConstantsOK, NEW A, A \subseteq Tasks
  PROVE  IsFiniteSet(A) /\ Cardinality(A) \in Nat
BY FS_Subset, FS_CardinalityType DEF ConstantsOK

LEMMA CountMono ==
  ASSUME ConstantsOK, NEW A, NEW B, A \subseteq B, B \subseteq Tasks
  PROVE  Cardinality(A) <= Cardinality(B)
BY AtFinite, FS_Subset

LEMMA CountAdd ==
  ASSUME ConstantsOK, NEW A, A \subseteq Tasks, NEW t \in Tasks, t \notin A
  PROVE  Cardinality(A \cup {t}) = Cardinality(A) + 1
BY AtFinite, FS_AddElement

LEMMA CountRemove ==
  ASSUME ConstantsOK, NEW A, A \subseteq Tasks, NEW t \in A
  PROVE  Cardinality(A \ {t}) = Cardinality(A) - 1
BY AtFinite, FS_RemoveElement

(* One delegate moves from one stage to another.                           *)
LEMMA MoveCount ==
  ASSUME ConstantsOK, stage \in [Tasks -> Stages], NEW t \in Tasks, NEW to,
         stage' = [stage EXCEPT ![t] = to], NEW CONSTANT S
  PROVE  /\ stage[t] \in S /\ to \in S => Cardinality(At(S))' = Cardinality(At(S))
         /\ stage[t] \notin S /\ to \notin S => Cardinality(At(S))' = Cardinality(At(S))
         /\ stage[t] \in S /\ to \notin S => Cardinality(At(S))' = Cardinality(At(S)) - 1
         /\ stage[t] \notin S /\ to \in S => Cardinality(At(S))' = Cardinality(At(S)) + 1
<1>1. At(S) \subseteq Tasks /\ (t \in At(S) <=> stage[t] \in S)
  BY DEF At
<1>2. At(S)' = IF to \in S THEN At(S) \cup {t} ELSE At(S) \ {t}
  BY DEF At
<1>3. stage[t] \in S /\ to \in S => At(S)' = At(S)
  BY <1>1, <1>2
<1>4. stage[t] \notin S /\ to \notin S => At(S)' = At(S)
  BY <1>1, <1>2
<1> QED
  BY <1>1, <1>2, <1>3, <1>4, CountAdd, CountRemove

(* A permit that is dropped goes to the first who waits, or back.          *)
Untouched(t) ==
  \A u \in Tasks : u # t =>
    stage'[u] = stage[u] \/ (stage[u] = "waiting" /\ stage'[u] = "granted")

LEMMA HandOverFacts ==
  ASSUME ConstantsOK, stage \in [Tasks -> Stages], waiting \in Seq(Tasks), permits \in Nat,
         LineUpInv, PermitInv, NEW t \in Tasks, stage[t] \in Holding, HandOver(t, "returned")
  PROVE  /\ stage' \in [Tasks -> Stages] /\ waiting' \in Seq(Tasks) /\ permits' \in Nat
         /\ LineUpInv' /\ PermitInv'
         /\ stage'[t] = "returned" /\ Untouched(t)
<1>1. CASE waiting = <<>>
  <2>1. stage' = [stage EXCEPT ![t] = "returned"] /\ permits' = permits + 1 /\ waiting' = waiting
    BY <1>1 DEF HandOver
  <2>2. Cardinality(At(Holding))' = Cardinality(At(Holding)) - 1
    <3>1. "returned" \notin Holding
      BY DEF Holding
    <3> QED
      BY <2>1, <3>1, MoveCount
  <2>3. Cardinality(At(Holding)) \in Nat
    BY AtFinite DEF At
  <2>4. LineUpInv'
    BY <1>1, <2>1 DEF LineUpInv
  <2> QED
    BY <2>1, <2>2, <2>3, <2>4, <1>1 DEF PermitInv, Untouched, Stages
<1>2. CASE waiting # <<>>
  <2> DEFINE w == Head(waiting)
  <2>1. /\ w \in Tasks /\ w = waiting[1] /\ stage[w] = "waiting" /\ w # t
    BY <1>2 DEF LineUpInv, Holding
  <2>2. /\ stage' = [stage EXCEPT ![t] = "returned", ![w] = "granted"]
        /\ waiting' = Tail(waiting) /\ permits' = permits
    BY <1>2 DEF HandOver
  <2>3. /\ stage' \in [Tasks -> Stages] /\ stage'[t] = "returned" /\ stage'[w] = "granted"
        /\ \A u \in Tasks : u # t /\ u # w => stage'[u] = stage[u]
    BY <2>1, <2>2 DEF Stages
  <2>4. PermitInv'
    <3>1. At(Holding)' = (At(Holding) \ {t}) \cup {w}
      BY <2>1, <2>3 DEF At, Holding
    <3>2. t \in At(Holding) /\ w \notin At(Holding) /\ At(Holding) \subseteq Tasks
      BY <2>1 DEF At, Holding
    <3>3. Cardinality(At(Holding) \ {t}) = Cardinality(At(Holding)) - 1
      BY <3>2, CountRemove
    <3>4. Cardinality((At(Holding) \ {t}) \cup {w}) = Cardinality(At(Holding) \ {t}) + 1
      BY <2>1, <3>2, CountAdd
    <3>5. Cardinality(At(Holding)) \in Nat
      BY <3>2, AtFinite
    <3> QED
      BY <2>2, <3>1, <3>3, <3>4, <3>5 DEF PermitInv
  <2>5. /\ waiting' \in Seq(Tasks) /\ Len(waiting') = Len(waiting) - 1 /\ Len(waiting) \in Nat
        /\ \A i \in 1..Len(waiting') : i + 1 \in 1..Len(waiting) /\ waiting'[i] = waiting[i + 1]
    BY <1>2, <2>2
  <2>6. LineUpInv'
    <3>1. ASSUME NEW i \in 1..Len(waiting') PROVE stage'[waiting'[i]] = "waiting"
      <4>1. waiting[i + 1] # w /\ stage[waiting[i + 1]] = "waiting" /\ waiting[i + 1] \in Tasks
        <5>1. i + 1 # 1 /\ 1 \in 1..Len(waiting)
          BY <2>5
        <5> QED
          BY <2>1, <2>5, <5>1 DEF LineUpInv
      <4> QED
        BY <2>3, <2>5, <4>1 DEF Holding
    <3>2. ASSUME NEW i \in 1..Len(waiting'), NEW j \in 1..Len(waiting'), waiting'[i] = waiting'[j]
          PROVE  i = j
      <4>1. i + 1 = j + 1
        BY <2>5, <3>2 DEF LineUpInv
      <4> QED
        BY <2>5, <4>1
    <3> QED
      BY <3>1, <3>2 DEF LineUpInv
  <2> QED
    BY <2>1, <2>2, <2>3, <2>4, <2>5, <2>6 DEF Untouched
<1> QED
  BY <1>1, <1>2

-----------------------------------------------------------------------------
(* Counting engines *)

LEMMA LiveCount ==
  ASSUME ConstantsOK, TypeOK, SlotInv, SlotExclusive
  PROVE  /\ IsFiniteSet(live) /\ Cardinality(live) \in Nat
         /\ Cardinality(live) <= Len(idle) + Cardinality(At(WithSlot))
<1> DEFINE A == At(WithSlot)
           f == [t \in A |-> slot[t]]
           img == {slot[t] : t \in A}
<1>1. idle \in Seq(Engines) /\ Len(idle) \in Nat /\ DOMAIN idle = 1..Len(idle)
  BY DEF TypeOK
<1>2. IsFiniteSet(Idle) /\ Cardinality(Idle) <= Len(idle)
  <2>1. idle \in Surjection(1..Len(idle), Idle)
    BY <1>1 DEF Surjection, Idle
  <2>2. IsFiniteSet(1..Len(idle)) /\ Cardinality(1..Len(idle)) = Len(idle)
    BY <1>1, FS_Interval, SMTT(30)
  <2> QED
    BY <2>1, <2>2, FS_Surjection
<1>3. IsFiniteSet(A) /\ Cardinality(A) \in Nat
  BY AtFinite DEF At
<1>4. IsFiniteSet(img) /\ Cardinality(img) <= Cardinality(A)
  <2>1. f \in Surjection(A, img)
    BY DEF Surjection
  <2> QED
    BY <1>3, <2>1, FS_Surjection
<1>5. live \subseteq Idle \cup img
  BY DEF SlotExclusive, SlotInv, At
<1>6. /\ IsFiniteSet(Idle \cup img)
      /\ Cardinality(Idle \cup img) = Cardinality(Idle) + Cardinality(img) - Cardinality(Idle \cap img)
  BY <1>2, <1>4, FS_Union
<1>7. IsFiniteSet(Idle \cap img) /\ Cardinality(Idle \cap img) \in Nat
      /\ Cardinality(Idle) \in Nat /\ Cardinality(img) \in Nat
  BY <1>2, <1>4, FS_Intersection, FS_CardinalityType
<1>8. IsFiniteSet(live) /\ Cardinality(live) <= Cardinality(Idle \cup img) /\ Cardinality(live) \in Nat
  BY <1>5, <1>6, FS_Subset, FS_CardinalityType
<1> QED
  BY <1>1, <1>2, <1>3, <1>4, <1>6, <1>7, <1>8

LEMMA WorkingCount ==
  ASSUME ConstantsOK
  PROVE  /\ Cardinality(At(Working)) = Cardinality(At(WithSlot)) + Cardinality(At({"build"}))
         /\ Cardinality(At(Working)) \in Nat /\ Cardinality(At(WithSlot)) \in Nat
         /\ Cardinality(At({"build"})) \in Nat
<1>1. At(Working) = At(WithSlot) \cup At({"build"}) /\ At(WithSlot) \cap At({"build"}) = {}
  BY DEF At, Working, WithSlot
<1>2. IsFiniteSet(At(WithSlot)) /\ IsFiniteSet(At({"build"})) /\ Cardinality(At(Working)) \in Nat
      /\ Cardinality(At(WithSlot)) \in Nat /\ Cardinality(At({"build"})) \in Nat
  BY AtFinite DEF At
<1>3. Cardinality(At(WithSlot) \cup At({"build"}))
        = Cardinality(At(WithSlot)) + Cardinality(At({"build"})) - Cardinality(At(WithSlot) \cap At({"build"}))
  BY <1>2, FS_Union
<1>4. Cardinality(At(WithSlot) \cap At({"build"})) = 0
  BY <1>1, FS_EmptySet
<1> QED
  BY <1>1, <1>2, <1>3, <1>4

(* While an engine is being built there is an identity for it.             *)
LEMMA FreshFacts ==
  ASSUME ConstantsOK, IInv,
         At({"build"}) # {} \/ (lock = "populate" /\ Len(idle) < Size)
  PROVE  Fresh \in Engines /\ Fresh \notin live
<1>1. /\ IsFiniteSet(live) /\ Cardinality(live) \in Nat
      /\ Cardinality(live) <= Len(idle) + Cardinality(At(WithSlot))
  BY LiveCount DEF IInv
<1>2. Len(idle) \in Nat /\ Size \in Nat /\ live \subseteq Engines /\ permits \in Nat
  BY DEF IInv, TypeOK, ConstantsOK
<1>3. Cardinality(live) < 2 * Size
  <2>1. CASE At({"build"}) # {}
    <3>1. Cardinality(At({"build"})) > 0
      BY <2>1, AtFinite, FS_EmptySet DEF At
    <3> QED
      BY <1>1, <1>2, <3>1, WorkingCount DEF IInv, SizeInv
  <2>2. CASE lock = "populate" /\ Len(idle) < Size
    <3>1. Cardinality(At(WithSlot)) <= Cardinality(At(Holding))
      BY CountMono DEF At, WithSlot, Holding
    <3>2. Cardinality(At(Holding)) <= Size /\ Cardinality(At(Holding)) \in Nat
      BY <1>2, AtFinite DEF IInv, PermitInv, At
    <3> QED
      BY <1>1, <1>2, <2>2, <3>1, <3>2, WorkingCount
  <2> QED
    BY <2>1, <2>2
<1>4. live # Engines
  BY <1>1, <1>2, <1>3 DEF ConstantsOK
<1>5. \E e \in Engines : e \notin live
  BY <1>2, <1>4
<1> QED
  BY <1>5 DEF Fresh
-----------------------------------------------------------------------------
(* The semaphore *)

QueueInv ==
  /\ stage \in [Tasks -> Stages] /\ waiting \in Seq(Tasks) /\ permits \in Nat
  /\ LineUpInv /\ PermitInv

LEMMA ConcatFacts ==
  ASSUME NEW S, NEW p \in Seq(S), NEW q \in Seq(S)
  PROVE  /\ p \o q \in Seq(S) /\ Len(p \o q) = Len(p) + Len(q)
         /\ \A i \in 1..Len(p) : (p \o q)[i] = p[i]
         /\ \A i \in 1..Len(q) : (p \o q)[Len(p) + i] = q[i]
OBVIOUS

(* The queue without its i-th entry.                                       *)
LEMMA RemoveAtFacts ==
  ASSUME NEW S, NEW q \in Seq(S), NEW i \in 1..Len(q)
  PROVE  /\ RemoveAt(q, i) \in Seq(S) /\ Len(RemoveAt(q, i)) = Len(q) - 1 /\ Len(q) \in Nat
         /\ \A j \in 1..(Len(q) - 1) : RemoveAt(q, i)[j] = IF j < i THEN q[j] ELSE q[j + 1]
<1> DEFINE a == SubSeq(q, 1, i - 1)
           b == SubSeq(q, i + 1, Len(q))
<1>1. a \in Seq(S) /\ Len(a) = i - 1 /\ \A j \in 1..(i - 1) : a[j] = q[j]
  OBVIOUS
<1>2. b \in Seq(S) /\ Len(b) = Len(q) - i /\ \A j \in 1..(Len(q) - i) : b[j] = q[i + j]
  OBVIOUS
<1> HIDE DEF a, b
<1>3. /\ a \o b \in Seq(S) /\ Len(a \o b) = Len(a) + Len(b)
      /\ \A j \in 1..Len(a) : (a \o b)[j] = a[j]
      /\ \A j \in 1..Len(b) : (a \o b)[Len(a) + j] = b[j]
  <2>1. a \in Seq(S) /\ b \in Seq(S)
    BY <1>1, <1>2
  <2> QED
    BY <2>1, ConcatFacts
<1>4. ASSUME NEW j \in 1..(Len(q) - 1)
      PROVE  (a \o b)[j] = IF j < i THEN q[j] ELSE q[j + 1]
  <2>1. CASE j < i
    BY <1>1, <1>3, <2>1
  <2>2. CASE ~(j < i)
    <3> DEFINE k == j - (i - 1)
    <3>1. k \in 1..Len(b) /\ k \in 1..(Len(q) - i) /\ Len(a) + k = j /\ i + k = j + 1
      BY <1>1, <1>2, <2>2
    <3>2. (a \o b)[Len(a) + k] = b[k] /\ b[k] = q[i + k]
      BY <1>2, <1>3, <3>1
    <3> QED
      BY <2>2, <3>1, <3>2
  <2> QED
    BY <2>1, <2>2
<1>5. RemoveAt(q, i) = a \o b
  BY DEF RemoveAt, a, b
<1>6. Len(a) + Len(b) = Len(q) - 1 /\ Len(q) \in Nat
  BY <1>1, <1>2
<1> QED
  BY <1>3, <1>4, <1>5, <1>6

(* A delegate that neither waits nor gains or loses its permit moves on.   *)
LEMMA QueueMove ==
  ASSUME ConstantsOK, QueueInv, NEW t \in Tasks, NEW to \in Stages, stage[t] # "waiting",
         stage[t] \in Holding <=> to \in Holding,
         stage' = [stage EXCEPT ![t] = to], waiting' = waiting, permits' = permits
  PROVE  QueueInv'
<1>1. stage' \in [Tasks -> Stages]
  BY DEF QueueInv
<1>2. Cardinality(At(Holding))' = Cardinality(At(Holding))
  BY MoveCount DEF QueueInv
<1>3. LineUpInv'
  BY DEF QueueInv, LineUpInv
<1> QED
  BY <1>1, <1>2, <1>3 DEF QueueInv, PermitInv

LEMMA QueueStep ==
  ASSUME ConstantsOK, IInv, [Next]_vars
  PROVE  QueueInv'
<1>a. QueueInv /\ permits \in Nat /\ slot \in [Tasks -> Engines \cup {NoEngine}]
  BY DEF IInv, TypeOK, QueueInv, ConstantsOK
<1>b. Messages \subseteq Tasks
  BY DEF ConstantsOK
<1>c. CASE UNCHANGED <<stage, waiting, permits>>
  BY <1>a, <1>c DEF QueueInv, LineUpInv, PermitInv, At
<1>d. ASSUME NEW t \in Tasks, stage[t] \in Holding, HandOver(t, "returned") PROVE QueueInv'
  BY <1>a, <1>d, HandOverFacts DEF QueueInv
<1> USE DEF poolVars, busVars
<1>1. ASSUME NEW t \in Tasks, Delegate(t) PROVE QueueInv'
  <2>1. stage[t] = "out" /\ stage \in [Tasks -> Stages] /\ waiting \in Seq(Tasks)
    BY <1>1, <1>a DEF Delegate, QueueInv
  <2>2. CASE permits > 0 /\ waiting = <<>> /\ permits' = permits - 1 /\ waiting' = waiting
             /\ stage' = [stage EXCEPT ![t] = "granted"]
    <3>1. "out" \notin Holding /\ "granted" \in Holding
      BY DEF Holding
    <3>2. Cardinality(At(Holding))' = Cardinality(At(Holding)) + 1
      BY <2>1, <2>2, <3>1, MoveCount
    <3>3. Cardinality(At(Holding)) \in Nat
      BY AtFinite DEF At
    <3> QED
      BY <1>a, <2>1, <2>2, <3>2, <3>3 DEF QueueInv, LineUpInv, PermitInv, Stages
  <2>3. CASE waiting' = Append(waiting, t) /\ permits' = permits
             /\ stage' = [stage EXCEPT ![t] = "waiting"]
    <3>1. "out" \notin Holding /\ "waiting" \notin Holding
      BY DEF Holding
    <3>2. Cardinality(At(Holding))' = Cardinality(At(Holding))
      BY <2>1, <2>3, <3>1, MoveCount
    <3>3. /\ waiting' \in Seq(Tasks) /\ Len(waiting') = Len(waiting) + 1 /\ Len(waiting) \in Nat
          /\ \A i \in 1..Len(waiting) : waiting'[i] = waiting[i]
          /\ waiting'[Len(waiting) + 1] = t
      BY <2>1, <2>3
    <3>4. \A i \in 1..Len(waiting) : waiting[i] # t /\ waiting[i] \in Tasks
      BY <1>a, <2>1 DEF QueueInv, LineUpInv
    <3>5. \A i \in 1..Len(waiting') : i = Len(waiting) + 1 \/ i \in 1..Len(waiting)
      BY <3>3
    <3>6. LineUpInv'
      BY <1>a, <2>1, <2>3, <3>3, <3>4, <3>5 DEF QueueInv, LineUpInv
    <3> QED
      BY <1>a, <2>1, <2>3, <3>2, <3>3, <3>6 DEF QueueInv, PermitInv, Stages
  <2> QED
    BY <1>1, <2>2, <2>3 DEF Delegate
<1>2. ASSUME NEW t \in Tasks, TakeSlot(t) \/ BuildSlot(t) \/ RunOk(t) \/ RunErr(t) \/ RecycleSlot(t)
      PROVE  QueueInv'
  <2>1. /\ waiting' = waiting /\ permits' = permits
        /\ stage[t] \in {"granted", "build", "running", "recycle"}
        /\ \E to \in {"running", "build", "recycle", "count"} : stage' = [stage EXCEPT ![t] = to]
    BY <1>2 DEF TakeSlot, BuildSlot, RunOk, RunErr, RecycleSlot
  <2>2. PICK to \in {"running", "build", "recycle", "count"} : stage' = [stage EXCEPT ![t] = to]
    BY <2>1
  <2>3. to \in Stages /\ to \in Holding /\ stage[t] \in Holding /\ stage[t] # "waiting"
    BY <2>1 DEF Stages, Holding
  <2> QED
    BY <1>a, <2>1, <2>2, <2>3, QueueMove
<1>3. ASSUME NEW t \in Tasks, BuildFails(t) \/ Return(t) PROVE QueueInv'
  BY <1>3, <1>d DEF BuildFails, Return, Holding
<1>4. ASSUME NEW t \in Tasks, Cancel(t) PROVE QueueInv'
  <2>1. CASE stage[t] \in Holding
    BY <1>4, <1>d, <2>1 DEF Cancel, Holding
  <2>2. CASE stage[t] = "waiting"
    <3>1. PICK i \in DOMAIN waiting : waiting[i] = t /\ waiting' = RemoveAt(waiting, i)
      BY <1>4, <2>2 DEF Cancel, Holding
    <3>2. stage' = [stage EXCEPT ![t] = "returned"] /\ permits' = permits
      BY <1>4, <2>2 DEF Cancel, Holding
    <3>3. "waiting" \notin Holding /\ "returned" \notin Holding /\ "returned" \in Stages
      BY DEF Holding, Stages
    <3>4. Cardinality(At(Holding))' = Cardinality(At(Holding))
      BY <1>a, <2>2, <3>2, <3>3, MoveCount DEF QueueInv
    <3>5. /\ waiting' \in Seq(Tasks) /\ Len(waiting') = Len(waiting) - 1 /\ Len(waiting) \in Nat
          /\ \A j \in 1..Len(waiting') : waiting'[j] = IF j < i THEN waiting[j] ELSE waiting[j + 1]
      <4>1. waiting \in Seq(Tasks) /\ i \in 1..Len(waiting)
        BY <1>a, <3>1 DEF QueueInv
      <4>2. /\ RemoveAt(waiting, i) \in Seq(Tasks) /\ Len(RemoveAt(waiting, i)) = Len(waiting) - 1
            /\ Len(waiting) \in Nat
            /\ \A j \in 1..(Len(waiting) - 1) :
                 RemoveAt(waiting, i)[j] = IF j < i THEN waiting[j] ELSE waiting[j + 1]
        BY <4>1, RemoveAtFacts
      <4> QED
        BY <3>1, <4>2
    <3>6. LineUpInv'
      <4> DEFINE at(j) == IF j < i THEN j ELSE j + 1
      <4>1. \A j \in 1..Len(waiting') :
              at(j) \in 1..Len(waiting) /\ at(j) # i /\ waiting'[j] = waiting[at(j)]
        BY <1>a, <3>1, <3>5 DEF QueueInv
      <4>2. \A j, k \in 1..Len(waiting') : at(j) = at(k) => j = k
        BY <3>1, <3>5
      <4> HIDE DEF at
      <4>3. \A j \in 1..Len(waiting) : j # i => waiting[j] # t /\ waiting[j] \in Tasks
        BY <1>a, <3>1 DEF QueueInv, LineUpInv
      <4> QED
        BY <1>a, <3>2, <4>1, <4>2, <4>3, SMTT(30) DEF QueueInv, LineUpInv
    <3> QED
      BY <1>a, <3>2, <3>3, <3>4, <3>5, <3>6 DEF QueueInv, PermitInv
  <2> QED
    BY <1>4, <2>1, <2>2 DEF Cancel
<1>5. CASE PopulateStart \/ PopulateStep \/ Shutdown
  BY <1>5, <1>c DEF PopulateStart, PopulateStep, PopulateBuild, PopulateEnd, Shutdown
<1>6. ASSUME NEW m \in Messages, SendDelegate(m) \/ Reply(m) PROVE QueueInv'
  BY <1>6, <1>c DEF SendDelegate, Reply
<1>7. CASE Listen
  BY <1>7, <1>c DEF Listen
<1>8. ASSUME NEW m \in Messages, Refuse(m) PROVE QueueInv'
  <2>1. stage[m] = "out" /\ stage' = [stage EXCEPT ![m] = "returned"]
        /\ waiting' = waiting /\ permits' = permits
    BY <1>8 DEF Refuse
  <2>2. "out" \notin Holding /\ "returned" \notin Holding /\ "returned" \in Stages
    BY DEF Holding, Stages
  <2> QED
    BY <1>a, <1>b, <2>1, <2>2, QueueMove
<1>9. CASE UNCHANGED vars
  BY <1>9, <1>c DEF vars
<1> QED
  BY <1>1, <1>2, <1>3, <1>4, <1>5, <1>6, <1>7, <1>8, <1>9, <1>b DEF Next, DelegateStep, ListenerStep
(* What BuildFails, Return and Cancel do to the stages.                    *)
LEMMA DropsPermit ==
  ASSUME ConstantsOK, IInv, NEW t \in Tasks, BuildFails(t) \/ Return(t) \/ Cancel(t)
  PROVE  /\ stage[t] # "returned" /\ stage[t] # "out"
         /\ stage'[t] = "returned" /\ Untouched(t)
<1>1. CASE stage[t] \in Holding
  <2>1. HandOver(t, "returned")
    BY <1>1 DEF BuildFails, Return, Cancel, Holding
  <2>2. stage \in [Tasks -> Stages] /\ waiting \in Seq(Tasks) /\ permits \in Nat
        /\ LineUpInv /\ PermitInv
    BY DEF IInv, TypeOK, ConstantsOK
  <2> QED
    BY <1>1, <2>1, <2>2, HandOverFacts DEF Holding
<1>2. CASE stage[t] = "waiting"
  BY <1>2 DEF BuildFails, Return, Cancel, Holding, IInv, TypeOK, Untouched
<1> QED
  BY <1>1, <1>2 DEF BuildFails, Return, Cancel, Holding

-----------------------------------------------------------------------------
(* Slots *)

LEMMA SlotStep ==
  ASSUME ConstantsOK, IInv, [Next]_vars
  PROVE  SlotInv' /\ slot' \in [Tasks -> Engines \cup {NoEngine}]
<1>a. /\ stage \in [Tasks -> Stages] /\ slot \in [Tasks -> Engines \cup {NoEngine}]
      /\ SlotInv /\ idle \in Seq(Engines) /\ NoEngine \notin Engines /\ Messages \subseteq Tasks
  BY DEF IInv, TypeOK, ConstantsOK
<1> USE DEF poolVars, busVars, WithSlot
<1>1. ASSUME NEW t \in Tasks, Delegate(t) \/ RunOk(t) \/ RunErr(t)
      PROVE  SlotInv' /\ slot' \in [Tasks -> Engines \cup {NoEngine}]
  BY <1>1, <1>a DEF Delegate, RunOk, RunErr, SlotInv
<1>2. ASSUME NEW t \in Tasks, TakeSlot(t)
      PROVE  SlotInv' /\ slot' \in [Tasks -> Engines \cup {NoEngine}]
  <2>1. idle # <<>> => Head(idle) \in Engines
    BY <1>a
  <2> QED
    BY <1>2, <1>a, <2>1 DEF TakeSlot, SlotInv
<1>3. ASSUME NEW t \in Tasks, BuildSlot(t)
      PROVE  SlotInv' /\ slot' \in [Tasks -> Engines \cup {NoEngine}]
  <2>1. Fresh \in Engines
    BY <1>3, FreshFacts DEF BuildSlot, At
  <2> QED
    BY <1>3, <1>a, <2>1 DEF BuildSlot, SlotInv
<1>4. ASSUME NEW t \in Tasks, BuildFails(t) \/ Return(t)
      PROVE  SlotInv' /\ slot' \in [Tasks -> Engines \cup {NoEngine}]
  <2>1. slot' = slot /\ slot[t] = NoEngine
    BY <1>4, <1>a DEF BuildFails, Return, SlotInv
  <2>2. stage'[t] = "returned" /\ Untouched(t)
    BY <1>4, DropsPermit
  <2> QED
    BY <1>a, <2>1, <2>2 DEF SlotInv, Untouched
<1>5. ASSUME NEW t \in Tasks, Cancel(t)
      PROVE  SlotInv' /\ slot' \in [Tasks -> Engines \cup {NoEngine}]
  <2>1. slot' = [slot EXCEPT ![t] = NoEngine]
    BY <1>5 DEF Cancel
  <2>2. stage'[t] = "returned" /\ Untouched(t)
    BY <1>5, DropsPermit
  <2> QED
    BY <1>a, <2>1, <2>2 DEF SlotInv, Untouched
<1>6. ASSUME NEW t \in Tasks, RecycleSlot(t)
      PROVE  SlotInv' /\ slot' \in [Tasks -> Engines \cup {NoEngine}]
  BY <1>6, <1>a DEF RecycleSlot, SlotInv
<1>7. CASE PopulateStart \/ PopulateStep \/ Shutdown \/ Listen
  BY <1>7, <1>a DEF PopulateStart, PopulateStep, PopulateBuild, PopulateEnd, Shutdown, Listen, SlotInv
<1>8. ASSUME NEW m \in Messages, SendDelegate(m) \/ Refuse(m) \/ Reply(m)
      PROVE  SlotInv' /\ slot' \in [Tasks -> Engines \cup {NoEngine}]
  BY <1>8, <1>a DEF SendDelegate, Refuse, Reply, SlotInv
<1>9. CASE UNCHANGED vars
  BY <1>9, <1>a DEF vars, SlotInv
<1> QED
  BY <1>1, <1>2, <1>3, <1>4, <1>5, <1>6, <1>7, <1>8, <1>9, <1>a DEF Next, DelegateStep, ListenerStep

(* The idle queue gives its head or gets one more.                         *)
LEMMA IdleTail ==
  ASSUME idle \in Seq(Engines), IsInjective(idle), idle # <<>>, idle' = Tail(idle)
  PROVE  /\ idle' \in Seq(Engines) /\ IsInjective(idle') /\ Len(idle') = Len(idle) - 1
         /\ Idle' = Idle \ {Head(idle)} /\ Head(idle) \in Idle /\ Head(idle) \in Engines
<1>1. /\ idle' \in Seq(Engines) /\ Len(idle') = Len(idle) - 1 /\ Len(idle) \in Nat
      /\ DOMAIN idle = 1..Len(idle) /\ DOMAIN idle' = 1..(Len(idle) - 1)
      /\ Head(idle) = idle[1] /\ 1 \in 1..Len(idle)
      /\ \A i \in 1..(Len(idle) - 1) : idle'[i] = idle[i + 1]
  OBVIOUS
<1>2. \A i, j \in 1..Len(idle) : idle[i] = idle[j] => i = j
  BY <1>1 DEF IsInjective
<1>3. IsInjective(idle')
  <2> SUFFICES ASSUME NEW i \in DOMAIN idle', NEW j \in DOMAIN idle', idle'[i] = idle'[j]
               PROVE  i = j
    BY DEF IsInjective
  <2>1. i + 1 = j + 1
    BY <1>1, <1>2
  <2> QED
    BY <1>1, <2>1
<1>4. ASSUME NEW e \in Idle' PROVE e \in Idle \ {Head(idle)}
  <2>1. PICK i \in DOMAIN idle' : e = idle'[i]
    BY <1>4 DEF Idle
  <2>2. i + 1 \in DOMAIN idle /\ e = idle[i + 1] /\ i + 1 # 1
    BY <1>1, <2>1
  <2> QED
    BY <1>1, <1>2, <2>2 DEF Idle
<1>5. ASSUME NEW e \in Idle, e # Head(idle) PROVE e \in Idle'
  <2>1. PICK i \in DOMAIN idle : e = idle[i]
    BY DEF Idle
  <2>2. i - 1 \in DOMAIN idle' /\ idle'[i - 1] = e
    BY <1>1, <1>5, <2>1
  <2> QED
    BY <2>2 DEF Idle
<1>6. Head(idle) \in Idle /\ Head(idle) \in Engines
  BY <1>1 DEF Idle
<1> QED
  BY <1>1, <1>3, <1>4, <1>5, <1>6

LEMMA IdleAppend ==
  ASSUME idle \in Seq(Engines), IsInjective(idle), NEW e \in Engines, e \notin Idle,
         idle' = Append(idle, e)
  PROVE  /\ idle' \in Seq(Engines) /\ IsInjective(idle') /\ Len(idle') = Len(idle) + 1
         /\ Idle' = Idle \cup {e}
<1> DEFINE k == Len(idle) + 1
<1>1. /\ idle' \in Seq(Engines) /\ Len(idle') = k /\ Len(idle) \in Nat
      /\ DOMAIN idle = 1..Len(idle) /\ DOMAIN idle' = 1..k
      /\ idle'[k] = e /\ \A i \in 1..Len(idle) : idle'[i] = idle[i]
  OBVIOUS
<1>2. \A i \in DOMAIN idle : idle[i] # e
  BY DEF Idle
<1>3. \A i \in DOMAIN idle' : i = k \/ i \in DOMAIN idle
  BY <1>1
<1>4. IsInjective(idle')
  BY <1>1, <1>2, <1>3 DEF IsInjective
<1>5. Idle' = Idle \cup {e}
  BY <1>1, <1>3 DEF Idle
<1> QED
  BY <1>1, <1>4, <1>5

LEMMA ExclusiveStep ==
  ASSUME ConstantsOK, IInv, [Next]_vars
  PROVE  SlotExclusive' /\ idle' \in Seq(Engines) /\ live' \subseteq Engines
<1>a. /\ slot \in [Tasks -> Engines \cup {NoEngine}] /\ SlotInv /\ SlotExclusive
      /\ idle \in Seq(Engines) /\ NoEngine \notin Engines /\ live \subseteq Engines
      /\ Messages \subseteq Tasks
  BY DEF IInv, TypeOK, ConstantsOK
<1>b. Idle \subseteq Engines /\ NoEngine \notin Idle
  BY <1>a DEF Idle
<1>c. UNCHANGED <<slot, idle, live>> =>
        SlotExclusive' /\ idle' \in Seq(Engines) /\ live' \subseteq Engines
  BY <1>a DEF SlotExclusive, Idle
<1> USE DEF poolVars, busVars
<1>1. ASSUME NEW t \in Tasks, Delegate(t) \/ RunOk(t) \/ RunErr(t) \/ BuildFails(t) \/ Return(t)
      PROVE  UNCHANGED <<slot, idle, live>>
  BY <1>1 DEF Delegate, RunOk, RunErr, BuildFails, Return
<1>2. ASSUME NEW t \in Tasks, TakeSlot(t)
      PROVE  SlotExclusive' /\ idle' \in Seq(Engines) /\ live' \subseteq Engines
  <2>1. CASE idle = <<>>
    BY <1>2, <1>c, <2>1 DEF TakeSlot
  <2>2. CASE idle # <<>>
    <3>1. idle' = Tail(idle) /\ slot' = [slot EXCEPT ![t] = Head(idle)] /\ live' = live
      BY <1>2, <2>2 DEF TakeSlot
    <3>2. slot[t] = NoEngine
      BY <1>2, <1>a DEF TakeSlot, SlotInv, WithSlot
    <3>3. /\ idle' \in Seq(Engines) /\ IsInjective(idle')
          /\ Idle' = Idle \ {Head(idle)} /\ Head(idle) \in Idle /\ Head(idle) \in Engines
      BY <1>a, <2>2, <3>1, IdleTail DEF SlotExclusive
    <3>4. \A u \in Tasks : slot'[u] = IF u = t THEN Head(idle) ELSE slot[u]
      BY <1>a, <3>1
    <3>5. \A u \in Tasks : slot'[u] \notin Idle'
      BY <1>a, <3>3, <3>4 DEF SlotExclusive
    <3>6. \A u, v \in Tasks : slot'[u] = slot'[v] => u = v \/ slot'[u] = NoEngine
      BY <1>a, <3>3, <3>4 DEF SlotExclusive
    <3>7. live' = (Idle' \cup {slot'[u] : u \in Tasks}) \ {NoEngine}
      BY <1>a, <1>b, <3>1, <3>2, <3>3, <3>4 DEF SlotExclusive
    <3> QED
      BY <1>a, <3>1, <3>3, <3>5, <3>6, <3>7 DEF SlotExclusive
  <2> QED
    BY <2>1, <2>2
<1>3. ASSUME NEW t \in Tasks, BuildSlot(t)
      PROVE  SlotExclusive' /\ idle' \in Seq(Engines) /\ live' \subseteq Engines
  <2>1. Fresh \in Engines /\ Fresh \notin live
    BY <1>3, FreshFacts DEF BuildSlot, At
  <2>2. slot' = [slot EXCEPT ![t] = Fresh] /\ live' = live \cup {Fresh} /\ idle' = idle
    BY <1>3 DEF BuildSlot
  <2>3. slot[t] = NoEngine
    BY <1>3, <1>a DEF BuildSlot, SlotInv, WithSlot
  <2>4. \A u \in Tasks : slot'[u] = IF u = t THEN Fresh ELSE slot[u]
    BY <1>a, <2>2
  <2>5. Fresh \notin Idle /\ \A u \in Tasks : slot[u] # Fresh
    BY <1>a, <1>b, <2>1 DEF SlotExclusive
  <2>6. Idle' = Idle
    BY <2>2 DEF Idle
  <2>7. live' = (Idle' \cup {slot'[u] : u \in Tasks}) \ {NoEngine}
    BY <1>a, <2>1, <2>2, <2>3, <2>4, <2>6 DEF SlotExclusive
  <2>8. \A u \in Tasks : slot'[u] \notin Idle'
    BY <1>a, <2>4, <2>5, <2>6 DEF SlotExclusive
  <2>9. \A u, v \in Tasks : slot'[u] = slot'[v] => u = v \/ slot'[u] = NoEngine
    BY <1>a, <2>4, <2>5 DEF SlotExclusive
  <2> QED
    BY <1>a, <2>1, <2>2, <2>7, <2>8, <2>9 DEF SlotExclusive
<1>4. ASSUME NEW t \in Tasks, slot' = [slot EXCEPT ![t] = NoEngine], live' = live \ {slot[t]},
             idle' = idle
      PROVE  SlotExclusive' /\ idle' \in Seq(Engines) /\ live' \subseteq Engines
  <2>1. \A u \in Tasks : slot'[u] = IF u = t THEN NoEngine ELSE slot[u]
    BY <1>a, <1>4
  <2>2. Idle' = Idle
    BY <1>4 DEF Idle
  <2>3. live' = (Idle' \cup {slot'[u] : u \in Tasks}) \ {NoEngine}
    BY <1>a, <1>b, <1>4, <2>1, <2>2 DEF SlotExclusive
  <2> QED
    BY <1>a, <1>b, <1>4, <2>1, <2>2, <2>3 DEF SlotExclusive
<1>5. ASSUME NEW t \in Tasks, Cancel(t)
      PROVE  SlotExclusive' /\ idle' \in Seq(Engines) /\ live' \subseteq Engines
  <2>1. slot' = [slot EXCEPT ![t] = NoEngine] /\ idle' = idle
    BY <1>5 DEF Cancel
  <2>2. live' = live \ {slot[t]}
    <3>1. CASE stage[t] = "waiting"
      <4>1. slot[t] = NoEngine /\ live' = live
        BY <1>5, <1>a, <3>1 DEF Cancel, SlotInv, WithSlot, Holding
      <4> QED
        BY <1>a, <4>1
    <3>2. CASE stage[t] # "waiting"
      BY <1>5, <3>2 DEF Cancel, Discard
    <3> QED
      BY <3>1, <3>2
  <2> QED
    BY <1>4, <2>1, <2>2
<1>6. ASSUME NEW t \in Tasks, RecycleSlot(t)
      PROVE  SlotExclusive' /\ idle' \in Seq(Engines) /\ live' \subseteq Engines
  <2>1. CASE Len(idle) < Size /\ idle' = Append(idle, slot[t]) /\ live' = live
    <3>1. slot[t] \in Engines /\ slot[t] \notin Idle
      BY <1>6, <1>a DEF RecycleSlot, SlotInv, WithSlot, SlotExclusive
    <3>2. slot' = [slot EXCEPT ![t] = NoEngine]
      BY <1>6 DEF RecycleSlot
    <3>3. idle' \in Seq(Engines) /\ IsInjective(idle') /\ Idle' = Idle \cup {slot[t]}
      BY <1>a, <2>1, <3>1, IdleAppend DEF SlotExclusive
    <3>4. \A u \in Tasks : slot'[u] = IF u = t THEN NoEngine ELSE slot[u]
      BY <1>a, <3>2
    <3>5. \A u \in Tasks : slot'[u] \notin Idle'
      BY <1>a, <1>b, <3>1, <3>3, <3>4 DEF SlotExclusive
    <3>6. live' = (Idle' \cup {slot'[u] : u \in Tasks}) \ {NoEngine}
      BY <1>a, <1>b, <2>1, <3>1, <3>3, <3>4 DEF SlotExclusive
    <3> QED
      BY <1>a, <2>1, <3>3, <3>4, <3>5, <3>6 DEF SlotExclusive
  <2> QED
    BY <1>4, <1>6, <2>1 DEF RecycleSlot, Discard
<1>7. CASE PopulateBuild
  <2>1. CASE idle' = Append(idle, Fresh) /\ live' = live \cup {Fresh}
    <3>1. Fresh \in Engines /\ Fresh \notin live
      BY <1>7, FreshFacts DEF PopulateBuild
    <3>2. Fresh \notin Idle /\ \A u \in Tasks : slot[u] # Fresh
      BY <1>a, <1>b, <3>1 DEF SlotExclusive
    <3>3. idle' \in Seq(Engines) /\ IsInjective(idle') /\ Idle' = Idle \cup {Fresh}
      BY <1>a, <2>1, <3>1, <3>2, IdleAppend DEF SlotExclusive
    <3>4. slot' = slot
      BY <1>7 DEF PopulateBuild
    <3> QED
      BY <1>a, <1>b, <2>1, <3>1, <3>2, <3>3, <3>4 DEF SlotExclusive
  <2> QED
    BY <1>7, <1>c, <2>1 DEF PopulateBuild
<1>8. CASE Shutdown
  <2>1. idle' = <<>> /\ live' = live \ Idle /\ slot' = slot
    BY <1>8 DEF Shutdown, Discard
  <2>2. Idle' = {} /\ IsInjective(idle') /\ idle' \in Seq(Engines)
    BY <2>1 DEF Idle, IsInjective
  <2> QED
    BY <1>a, <1>b, <2>1, <2>2 DEF SlotExclusive
<1>9. CASE PopulateStart \/ PopulateEnd \/ Listen
  BY <1>9, <1>c DEF PopulateStart, PopulateEnd, Listen
<1>10. ASSUME NEW m \in Messages, SendDelegate(m) \/ Refuse(m) \/ Reply(m)
       PROVE  UNCHANGED <<slot, idle, live>>
  BY <1>10 DEF SendDelegate, Refuse, Reply
<1>11. CASE UNCHANGED vars
  BY <1>11, <1>c DEF vars
<1> QED
  BY <1>1, <1>2, <1>3, <1>5, <1>6, <1>7, <1>8, <1>9, <1>10, <1>11, <1>a, <1>c
     DEF Next, DelegateStep, ListenerStep, PopulateStep
-----------------------------------------------------------------------------
(* The size of the pool *)

LEMMA SizeStep ==
  ASSUME ConstantsOK, IInv, [Next]_vars
  PROVE  SizeInv' /\ lock' \in {Nobody, "populate"} /\ populated' \in BOOLEAN
<1> DEFINE w == Cardinality(At(Working))
           Goal == SizeInv' /\ lock' \in {Nobody, "populate"} /\ populated' \in BOOLEAN
<1>a. /\ stage \in [Tasks -> Stages] /\ idle \in Seq(Engines) /\ Len(idle) \in Nat /\ Size \in Nat
      /\ lock \in {Nobody, "populate"} /\ populated \in BOOLEAN /\ Nobody # "populate"
      /\ SizeInv /\ Messages \subseteq Tasks /\ IsInjective(idle)
  BY DEF IInv, TypeOK, ConstantsOK, SlotExclusive
<1>b. w \in Nat /\ w' \in Nat /\ w <= Size /\ w' <= Size
  <2>1. w \in Nat /\ w' \in Nat /\ Cardinality(At(Holding)) \in Nat /\ Cardinality(At(Holding))' \in Nat
    BY AtFinite DEF At
  <2>2. w <= Cardinality(At(Holding)) /\ w' <= Cardinality(At(Holding))'
    BY CountMono DEF At, Working, WithSlot, Holding
  <2>3. Cardinality(At(Holding)) <= Size
    <3>1. permits \in Nat /\ PermitInv
      BY DEF IInv, TypeOK, ConstantsOK
    <3> QED
      BY <1>a, <2>1, <3>1 DEF PermitInv
  <2>4. Cardinality(At(Holding))' <= Size
    <3>1. permits' \in Nat /\ PermitInv'
      BY QueueStep DEF QueueInv
    <3> QED
      BY <1>a, <2>1, <3>1 DEF PermitInv
  <2> QED
    BY <1>a, <2>1, <2>2, <2>3, <2>4
<1>c. ASSUME UNCHANGED <<idle, lock, populated>>, w' <= w PROVE Goal
  BY <1>a, <1>b, <1>c DEF SizeInv
<1>d. UNCHANGED <<stage, idle, lock, populated>> => Goal
  BY <1>a, <1>b, <1>c DEF At
<1>e. ASSUME NEW t \in Tasks, NEW to, stage' = [stage EXCEPT ![t] = to],
             stage[t] \in Working \/ to \notin Working
      PROVE  w' <= w
  <2>1. \/ w' = w
        \/ w' = w - 1
    BY <1>a, <1>e, MoveCount
  <2> QED
    BY <1>b, <2>1
<1>f. ASSUME NEW t \in Tasks, stage'[t] = "returned", Untouched(t) PROVE w' <= w
  <2>1. At(Working)' \subseteq At(Working) /\ At(Working) \subseteq Tasks
    BY <1>f DEF At, Working, WithSlot, Untouched
  <2> QED
    BY <2>1, CountMono
<1> SUFFICES Goal
  OBVIOUS
<1> HIDE DEF w, Goal
<1> USE DEF poolVars, busVars
<1>1. ASSUME NEW t \in Tasks, Delegate(t) PROVE Goal
  <2>1. "granted" \notin Working /\ "waiting" \notin Working
    BY DEF Working, WithSlot
  <2>2. w' <= w
    BY <1>1, <1>e, <2>1 DEF Delegate
  <2> QED
    BY <1>1, <1>c, <2>2 DEF Delegate
<1>2. ASSUME NEW t \in Tasks, TakeSlot(t) PROVE Goal
  <2>1. CASE idle = <<>>
    <3>1. UNCHANGED <<idle, lock, populated>> /\ Len(idle) = 0
      BY <1>2, <2>1 DEF TakeSlot
    <3> QED
      BY <1>a, <1>b, <3>1 DEF SizeInv, w, Goal
  <2>2. CASE idle # <<>>
    <3>1. idle' = Tail(idle) /\ stage' = [stage EXCEPT ![t] = "running"]
          /\ UNCHANGED <<lock, populated>> /\ stage[t] = "granted"
      BY <1>2, <2>2 DEF TakeSlot
    <3>2. Len(idle') = Len(idle) - 1
      BY <1>a, <2>2, <3>1
    <3>3. w' = w + 1
      <4>1. "granted" \notin Working /\ "running" \in Working
        BY DEF Working, WithSlot
      <4> QED
        BY <1>a, <3>1, <4>1, MoveCount DEF w
    <3> QED
      BY <1>a, <1>b, <3>1, <3>2, <3>3 DEF SizeInv, w, Goal
  <2> QED
    BY <2>1, <2>2
<1>3. ASSUME NEW t \in Tasks, BuildSlot(t) \/ RunOk(t) \/ RunErr(t) PROVE Goal
  <2>1. "build" \in Working /\ "running" \in Working
    BY DEF Working, WithSlot
  <2>2. w' <= w
    BY <1>3, <1>e, <2>1 DEF BuildSlot, RunOk, RunErr
  <2> QED
    BY <1>3, <1>c, <2>2 DEF BuildSlot, RunOk, RunErr
<1>4. ASSUME NEW t \in Tasks, BuildFails(t) \/ Return(t) \/ Cancel(t) PROVE Goal
  <2>1. w' <= w
    BY <1>4, <1>f, DropsPermit
  <2> QED
    BY <1>4, <1>c, <2>1 DEF BuildFails, Return, Cancel
<1>5. ASSUME NEW t \in Tasks, RecycleSlot(t) PROVE Goal
  <2>1. stage' = [stage EXCEPT ![t] = "count"] /\ stage[t] = "recycle" /\ UNCHANGED <<lock, populated>>
    BY <1>5 DEF RecycleSlot
  <2>2. "recycle" \in Working /\ "count" \notin Working
    BY DEF Working, WithSlot
  <2>3. w' = w - 1
    BY <1>a, <2>1, <2>2, MoveCount DEF w
  <2>4. CASE Len(idle) < Size /\ idle' = Append(idle, slot[t])
    <3>1. Len(idle') = Len(idle) + 1
      BY <1>a, <2>4
    <3> QED
      BY <1>a, <1>b, <2>1, <2>3, <2>4, <3>1 DEF SizeInv, w, Goal
  <2>5. CASE idle' = idle
    BY <1>b, <1>c, <2>1, <2>3, <2>5 DEF w
  <2> QED
    BY <1>5, <2>4, <2>5 DEF RecycleSlot
<1>6. CASE PopulateStart
  <2>1. lock' = "populate" /\ populated' = TRUE /\ UNCHANGED <<stage, idle>>
    BY <1>6 DEF PopulateStart
  <2> QED
    BY <1>a, <1>b, <2>1 DEF SizeInv, w, Goal
<1>7. CASE PopulateBuild
  <2>1. lock = "populate" /\ Len(idle) < Size /\ UNCHANGED <<stage, populated>>
    BY <1>7 DEF PopulateBuild
  <2>2. CASE idle' = Append(idle, Fresh) /\ lock' = lock
    <3>1. Len(idle') = Len(idle) + 1
      BY <1>a, <2>2
    <3> QED
      BY <1>a, <1>b, <2>1, <2>2, <3>1 DEF SizeInv, w, Goal
  <2>3. CASE lock' = Nobody /\ idle' = idle
    <3>1. w' = w
      BY <2>1 DEF w, At
    <3> QED
      BY <1>a, <1>b, <2>1, <2>3, <3>1 DEF SizeInv, w, Goal
  <2> QED
    BY <1>7, <2>2, <2>3 DEF PopulateBuild
<1>8. CASE PopulateEnd
  <2>1. lock' = Nobody /\ UNCHANGED <<stage, idle, populated>>
    BY <1>8 DEF PopulateEnd
  <2>2. w' = w
    BY <2>1 DEF w, At
  <2> QED
    BY <1>a, <1>b, <2>1, <2>2 DEF SizeInv, w, Goal
<1>9. CASE Shutdown
  <2>1. idle' = <<>> /\ UNCHANGED <<stage, lock, populated>> /\ Len(idle') = 0
    BY <1>9 DEF Shutdown
  <2> QED
    BY <1>a, <1>b, <2>1 DEF SizeInv, w, Goal
<1>10. ASSUME NEW m \in Messages, SendDelegate(m) \/ Reply(m) PROVE Goal
  BY <1>10, <1>d DEF SendDelegate, Reply
<1>11. CASE Listen
  BY <1>11, <1>d DEF Listen
<1>12. ASSUME NEW m \in Messages, Refuse(m) PROVE Goal
  <2>1. "returned" \notin Working /\ m \in Tasks
    BY <1>a DEF Working, WithSlot
  <2>2. w' <= w
    BY <1>12, <1>e, <2>1 DEF Refuse
  <2> QED
    BY <1>12, <1>c, <2>2 DEF Refuse
<1>13. CASE UNCHANGED vars
  BY <1>13, <1>d DEF vars
<1> QED
  BY <1>1, <1>2, <1>3, <1>4, <1>5, <1>6, <1>7, <1>8, <1>9, <1>10, <1>11, <1>12, <1>13, <1>a
     DEF Next, DelegateStep, ListenerStep, PopulateStep
-----------------------------------------------------------------------------
(* How tasks end and what their engines keep of them *)

LEMMA EndedStep ==
  ASSUME ConstantsOK, IInv, [Next]_vars
  PROVE  EndedInv' /\ ended' \in [Tasks -> {"none", "ok", "err"}]
<1> DEFINE Goal == EndedInv' /\ ended' \in [Tasks -> {"none", "ok", "err"}]
<1>a. /\ stage \in [Tasks -> Stages] /\ ended \in [Tasks -> {"none", "ok", "err"}]
      /\ EndedInv /\ Messages \subseteq Tasks
  BY DEF IInv, TypeOK, ConstantsOK
<1>b. UNCHANGED <<stage, ended>> => Goal
  BY <1>a DEF EndedInv
<1> SUFFICES Goal
  OBVIOUS
<1> USE DEF poolVars, busVars
<1>1. ASSUME NEW t \in Tasks, Delegate(t) PROVE Goal
  BY <1>1, <1>a DEF Delegate, EndedInv
<1>2. ASSUME NEW t \in Tasks, TakeSlot(t) \/ BuildSlot(t) PROVE Goal
  BY <1>2, <1>a DEF TakeSlot, BuildSlot, EndedInv
<1>3. ASSUME NEW t \in Tasks, RunOk(t) \/ RunErr(t) PROVE Goal
  BY <1>3, <1>a DEF RunOk, RunErr, EndedInv
<1>4. ASSUME NEW t \in Tasks, RecycleSlot(t) PROVE Goal
  BY <1>4, <1>a DEF RecycleSlot, EndedInv
<1>5. ASSUME NEW t \in Tasks, BuildFails(t) \/ Return(t) \/ Cancel(t) PROVE Goal
  <2>1. stage'[t] = "returned" /\ Untouched(t)
    BY <1>5, DropsPermit
  <2>2. CASE BuildFails(t)
    BY <2>1, <2>2, <1>a DEF BuildFails, EndedInv, Untouched
  <2>3. CASE Return(t)
    <3>1. ended[t] # "none"
      BY <2>3 DEF Return, IInv, EndedInv
    <3> QED
      BY <2>1, <2>3, <3>1, <1>a DEF Return, EndedInv, Untouched
  <2>4. CASE Cancel(t)
    <3>1. ended' = [ended EXCEPT ![t] = IF @ = "none" THEN "err" ELSE @]
      BY <2>4 DEF Cancel
    <3> QED
      BY <2>1, <3>1, <1>a DEF EndedInv, Untouched
  <2> QED
    BY <1>5, <2>2, <2>3, <2>4
<1>6. CASE PopulateStart \/ PopulateStep \/ Shutdown \/ Listen
  BY <1>6, <1>b DEF PopulateStart, PopulateStep, PopulateBuild, PopulateEnd, Shutdown, Listen
<1>7. ASSUME NEW m \in Messages, SendDelegate(m) \/ Reply(m) PROVE Goal
  BY <1>7, <1>b DEF SendDelegate, Reply
<1>8. ASSUME NEW m \in Messages, Refuse(m) PROVE Goal
  BY <1>8, <1>a DEF Refuse, EndedInv
<1>9. CASE UNCHANGED vars
  BY <1>9, <1>b DEF vars
<1> HIDE DEF Goal
<1> QED
  BY <1>1, <1>2, <1>3, <1>4, <1>5, <1>6, <1>7, <1>8, <1>9, <1>a DEF Next, DelegateStep, ListenerStep

LEMMA HistStep ==
  ASSUME ConstantsOK, IInv, [Next]_vars
  PROVE  HistInv' /\ hist' \in [Engines -> SUBSET Tasks]
<1> DEFINE Goal == HistInv' /\ hist' \in [Engines -> SUBSET Tasks]
<1>a. /\ hist \in [Engines -> SUBSET Tasks] /\ ended \in [Tasks -> {"none", "ok", "err"}]
      /\ HistInv /\ EndedInv /\ Messages \subseteq Tasks
  BY DEF IInv, TypeOK, ConstantsOK
<1>b. ASSUME hist' = hist, live \subseteq live', UNCHANGED ended PROVE Goal
  BY <1>a, <1>b DEF HistInv
(* A task that had not ended is in no State.                               *)
<1>c. \A t \in Tasks : ended[t] = "none" => \A e \in Engines : t \notin hist[e]
  BY <1>a DEF HistInv
<1> SUFFICES Goal
  OBVIOUS
<1> USE DEF poolVars, busVars
<1>1. ASSUME NEW t \in Tasks, Delegate(t) \/ TakeSlot(t) \/ BuildSlot(t) \/ Return(t) PROVE Goal
  <2>1. hist' = hist /\ ended' = ended /\ live \subseteq live'
    BY <1>1 DEF Delegate, TakeSlot, BuildSlot, Return
  <2> QED
    BY <1>b, <2>1
<1>2. ASSUME NEW t \in Tasks, ended[t] = "none", ended' = [ended EXCEPT ![t] = "err"],
             UNCHANGED <<hist, live>>
      PROVE  Goal
  BY <1>2, <1>a, <1>c DEF HistInv
<1>3. ASSUME NEW t \in Tasks, BuildFails(t) PROVE Goal
  <2>1. ended[t] = "none"
    BY <1>3, <1>a DEF BuildFails, EndedInv
  <2> QED
    BY <1>2, <1>3, <2>1 DEF BuildFails
<1>4. ASSUME NEW t \in Tasks, RunOk(t) \/ RunErr(t) PROVE Goal
  <2>1. ended[t] = "none" /\ live' = live
    BY <1>4, <1>a DEF RunOk, RunErr, EndedInv
  <2>2. slot[t] \in Engines /\ slot[t] \in live
    <3>1. slot[t] # NoEngine /\ slot[t] \in Engines \cup {NoEngine}
      BY <1>4 DEF RunOk, RunErr, IInv, SlotInv, WithSlot, TypeOK
    <3> QED
      BY <3>1 DEF IInv, SlotExclusive
  <2>3. CASE RunOk(t)
    BY <2>1, <2>2, <2>3, <1>a, <1>c DEF RunOk, HistInv
  <2>4. CASE RunErr(t)
    BY <2>1, <2>2, <2>4, <1>a, <1>c DEF RunErr, HistInv
  <2> QED
    BY <1>4, <2>3, <2>4
<1>5. ASSUME NEW S, Discard(S), ended' = ended PROVE Goal
  BY <1>5, <1>a DEF Discard, HistInv
<1>6. ASSUME NEW t \in Tasks, RecycleSlot(t) PROVE Goal
  <2>1. ended' = ended
    BY <1>6 DEF RecycleSlot
  <2>2. CASE UNCHANGED <<live, hist>>
    BY <1>b, <2>1, <2>2
  <2>3. CASE Discard({slot[t]})
    BY <1>5, <2>1, <2>3
  <2> QED
    BY <1>6, <2>2, <2>3 DEF RecycleSlot
<1>7. ASSUME NEW t \in Tasks, Cancel(t) PROVE Goal
  <2>1. ended' = [ended EXCEPT ![t] = IF @ = "none" THEN "err" ELSE @]
    BY <1>7 DEF Cancel
  <2>2. \A u \in Tasks : ended[u] = "ok" => ended'[u] = "ok"
    BY <1>a, <2>1
  <2>3. CASE UNCHANGED <<live, hist>>
    BY <1>a, <2>2, <2>3 DEF HistInv
  <2>4. CASE Discard({slot[t]})
    BY <1>a, <2>2, <2>4 DEF Discard, HistInv
  <2> QED
    BY <1>7, <2>3, <2>4 DEF Cancel
<1>8. CASE PopulateStart \/ PopulateStep \/ Listen
  <2>1. hist' = hist /\ ended' = ended /\ live \subseteq live'
    BY <1>8 DEF PopulateStart, PopulateStep, PopulateBuild, PopulateEnd, Listen
  <2> QED
    BY <1>b, <2>1
<1>9. CASE Shutdown
  BY <1>5, <1>9 DEF Shutdown
<1>10. ASSUME NEW m \in Messages, SendDelegate(m) \/ Reply(m) PROVE Goal
  BY <1>10, <1>b DEF SendDelegate, Reply
<1>11. ASSUME NEW m \in Messages, Refuse(m) PROVE Goal
  <2>1. ended[m] = "none" /\ m \in Tasks
    BY <1>11, <1>a DEF Refuse, EndedInv
  <2> QED
    BY <1>2, <1>11, <2>1 DEF Refuse
<1>12. CASE UNCHANGED vars
  BY <1>12, <1>b DEF vars
<1> HIDE DEF Goal
<1> QED
  BY <1>1, <1>3, <1>4, <1>6, <1>7, <1>8, <1>9, <1>10, <1>11, <1>12, <1>a
     DEF Next, DelegateStep, ListenerStep
-----------------------------------------------------------------------------
(* The listener *)

BusTypeInv ==
  /\ inbox \in Seq(Messages) /\ serving \in Messages \cup {Nobody}
  /\ replies \in [Messages -> Seq({"ok", "err"})]

LEMMA MessageStep ==
  ASSUME ConstantsOK, IInv, [Next]_vars
  PROVE  MessageInv' /\ BusTypeInv'
<1> DEFINE Goal == MessageInv' /\ BusTypeInv'
<1>a. /\ stage \in [Tasks -> Stages] /\ ended \in [Tasks -> {"none", "ok", "err"}]
      /\ MessageInv /\ EndedInv /\ Messages \subseteq Tasks /\ Nobody \notin Messages /\ BusTypeInv
  BY DEF IInv, TypeOK, ConstantsOK, BusTypeInv
<1>b. inbox \in Seq(Messages) /\ Len(inbox) \in Nat /\ \A i \in 1..Len(inbox) : inbox[i] \in Messages
  BY <1>a DEF BusTypeInv
(* delegate() runs: a message leaves "out" only while it is served.        *)
<1>c. ASSUME UNCHANGED busVars,
             \A m \in Messages : stage[m] = "out" => stage'[m] = "out" \/ serving = m,
             \A m \in Messages : stage[m] = "returned" => stage'[m] = "returned"
      PROVE  Goal
  <2>1. BusTypeInv' /\ UNCHANGED <<inbox, serving, replies>>
    BY <1>a, <1>c DEF BusTypeInv, busVars
  <2> QED
    BY <1>a, <1>b, <1>c, <2>1 DEF MessageInv
<1> SUFFICES Goal
  OBVIOUS
<1> HIDE DEF Goal
<1>1. ASSUME NEW t \in Tasks, Delegate(t) PROVE Goal
  BY <1>1, <1>a, <1>c DEF Delegate
<1>2. ASSUME NEW t \in Tasks, TakeSlot(t) \/ BuildSlot(t) \/ RunOk(t) \/ RunErr(t) \/ RecycleSlot(t)
      PROVE  Goal
  <2>1. UNCHANGED busVars /\ stage[t] # "out" /\ stage[t] # "returned"
    BY <1>2 DEF TakeSlot, BuildSlot, RunOk, RunErr, RecycleSlot
  <2>2. \A u \in Tasks : u # t => stage'[u] = stage[u]
    BY <1>2, <1>a DEF TakeSlot, BuildSlot, RunOk, RunErr, RecycleSlot
  <2> QED
    BY <1>a, <1>c, <2>1, <2>2
<1>3. ASSUME NEW t \in Tasks, BuildFails(t) \/ Return(t) \/ Cancel(t) PROVE Goal
  <2>1. UNCHANGED busVars
    BY <1>3 DEF BuildFails, Return, Cancel
  <2>2. stage[t] # "out" /\ stage'[t] = "returned" /\ Untouched(t)
    BY <1>3, DropsPermit
  <2> QED
    BY <1>a, <1>c, <2>1, <2>2 DEF Untouched
<1>4. CASE PopulateStart \/ PopulateStep \/ Shutdown
  <2>1. UNCHANGED <<stage, busVars>>
    BY <1>4 DEF PopulateStart, PopulateStep, PopulateBuild, PopulateEnd, Shutdown
  <2> QED
    BY <1>c, <2>1
<1>5. ASSUME NEW m \in Messages, SendDelegate(m) PROVE Goal
  <2> DEFINE k == Len(inbox) + 1
  <2>1. /\ stage[m] = "out" /\ serving # m /\ inbox' = Append(inbox, m)
        /\ UNCHANGED <<stage, serving, replies>>
        /\ \A i \in 1..Len(inbox) : inbox[i] # m
    BY <1>5 DEF SendDelegate, Contains
  <2>2. /\ inbox' \in Seq(Messages) /\ Len(inbox') = k /\ inbox'[k] = m
        /\ \A i \in 1..Len(inbox) : inbox'[i] = inbox[i]
        /\ \A i \in 1..Len(inbox') : i = k \/ i \in 1..Len(inbox)
    BY <1>b, <2>1
  <2>3. BusTypeInv'
    BY <1>a, <2>1, <2>2 DEF BusTypeInv
  <2>4. \A i \in 1..Len(inbox') : stage'[inbox'[i]] = "out" /\ inbox'[i] # serving'
    BY <1>a, <2>1, <2>2 DEF MessageInv
  <2>5. \A i, j \in 1..Len(inbox') : inbox'[i] = inbox'[j] => i = j
    BY <1>a, <2>1, <2>2 DEF MessageInv
  <2> QED
    BY <1>a, <2>1, <2>3, <2>4, <2>5 DEF Goal, MessageInv
<1>6. CASE Listen
  <2>1. /\ inbox # <<>> /\ serving' = Head(inbox) /\ inbox' = Tail(inbox) /\ UNCHANGED <<stage, replies>>
    BY <1>6 DEF Listen
  <2>2. /\ inbox' \in Seq(Messages) /\ Len(inbox') = Len(inbox) - 1
        /\ serving' = inbox[1] /\ 1 \in 1..Len(inbox)
        /\ \A i \in 1..Len(inbox') : i + 1 \in 1..Len(inbox) /\ i + 1 # 1 /\ inbox'[i] = inbox[i + 1]
    BY <1>b, <2>1
  <2>3. BusTypeInv'
    BY <1>a, <1>b, <2>1, <2>2 DEF BusTypeInv
  <2>4. \A i \in 1..Len(inbox') : stage'[inbox'[i]] = "out" /\ inbox'[i] # serving'
    BY <1>a, <2>1, <2>2 DEF MessageInv
  <2>5. ASSUME NEW i \in 1..Len(inbox'), NEW j \in 1..Len(inbox'), inbox'[i] = inbox'[j]
        PROVE  i = j
    <3>0. i + 1 \in 1..Len(inbox) /\ j + 1 \in 1..Len(inbox) /\ inbox[i + 1] = inbox[j + 1]
      BY <2>2, <2>5
    <3>1. i + 1 = j + 1
      BY <1>a, <3>0, Zenon DEF MessageInv
    <3> QED
      BY <1>b, <2>2, <3>1
  <2>6. stage[serving'] = "out"
    BY <1>a, <2>2 DEF MessageInv
  <2> QED
    BY <1>a, <2>1, <2>3, <2>4, <2>5, <2>6 DEF Goal, MessageInv
<1>7. ASSUME NEW m \in Messages, Refuse(m) PROVE Goal
  BY <1>7, <1>a, <1>c DEF Refuse
<1>8. ASSUME NEW m \in Messages, Reply(m) PROVE Goal
  <2>1. /\ serving = m /\ stage[m] = "returned" /\ serving' = Nobody
        /\ replies' = [replies EXCEPT ![m] = Append(@, ended[m])] /\ UNCHANGED <<stage, inbox>>
    BY <1>8 DEF Reply
  <2>2. replies[m] = <<>> /\ ended[m] \in {"ok", "err"}
    BY <1>a, <2>1 DEF MessageInv, EndedInv
  <2>3. Append(replies[m], ended[m]) \in Seq({"ok", "err"}) /\ Len(Append(replies[m], ended[m])) = 1
    BY <2>2
  <2>4. /\ replies' \in [Messages -> Seq({"ok", "err"})] /\ Len(replies'[m]) = 1
        /\ \A n \in Messages : n # m => replies'[n] = replies[n]
    BY <1>a, <2>1, <2>3 DEF BusTypeInv
  <2>5. BusTypeInv'
    BY <1>b, <2>1, <2>4 DEF BusTypeInv
  <2> QED
    BY <1>a, <1>b, <2>1, <2>4, <2>5 DEF Goal, MessageInv
<1>9. CASE UNCHANGED vars
  BY <1>9, <1>c DEF vars
<1> QED
  BY <1>1, <1>2, <1>3, <1>4, <1>5, <1>6, <1>7, <1>8, <1>9, <1>a DEF Next, DelegateStep, ListenerStep

-----------------------------------------------------------------------------
(* The theorems *)

LEMMA Initially ==
  ASSUME ConstantsOK, Init
  PROVE  IInv
<1>1. TypeOK
  <2>1. <<>> \in Seq(Tasks) /\ <<>> \in Seq(Engines) /\ <<>> \in Seq(Messages) /\ <<>> \in Seq({"ok", "err"})
    OBVIOUS
  <2>2. permits \in 0..Size
    BY DEF ConstantsOK, Init
  <2> QED
    BY <2>1, <2>2 DEF Init, TypeOK, Stages
<1>2. Idle = {}
  BY DEF Init, Idle
<1>3. LineUpInv /\ SlotInv /\ HistInv /\ EndedInv /\ MessageInv
  BY DEF ConstantsOK, Init, LineUpInv, SlotInv, WithSlot, HistInv, EndedInv, MessageInv
<1>4. SlotExclusive
  BY <1>2 DEF Init, SlotExclusive, IsInjective
<1>5. At(Holding) = {} /\ At(Working) = {} /\ Len(idle) = 0
  BY DEF Init, At, Holding, Working, WithSlot
<1>6. PermitInv /\ SizeInv
  BY <1>5, FS_EmptySet DEF ConstantsOK, Init, PermitInv, SizeInv
<1> QED
  BY <1>1, <1>3, <1>4, <1>6 DEF IInv

LEMMA Inductive ==
  ASSUME ConstantsOK, IInv, [Next]_vars
  PROVE  IInv'
<1>1. permits' \in 0..Size
  <2>1. permits' \in Nat /\ PermitInv' /\ Cardinality(At(Holding))' \in Nat
    BY QueueStep, AtFinite DEF QueueInv, At
  <2> QED
    BY <2>1 DEF PermitInv, ConstantsOK
<1>2. TypeOK'
  BY <1>1, QueueStep, SlotStep, ExclusiveStep, SizeStep, EndedStep, HistStep, MessageStep
     DEF TypeOK, QueueInv, BusTypeInv
<1> QED
  BY <1>2, QueueStep, SlotStep, ExclusiveStep, SizeStep, EndedStep, HistStep, MessageStep
     DEF IInv, QueueInv

LEMMA Invariance ==
  ASSUME ConstantsOK
  PROVE  Spec => []IInv
BY Initially, Inductive, PTL DEF Spec

(* Every variable keeps its type; no permit is lost or made.               *)
THEOREM SubagentTypeCorrect ==
  ASSUME ConstantsOK
  PROVE  Spec => []TypeOK
BY Invariance, PTL DEF IInv

(* A slot in the idle queue has no State of a run that failed or that its  *)
(* caller dropped: reset_state and the drop of the slot see to it.         *)
THEOREM NoFailureInherited ==
  ASSUME ConstantsOK
  PROVE  Spec => []NoInheritedFailure
<1>1. IInv => NoInheritedFailure
  BY DEF IInv, HistInv, NoInheritedFailure, TypeOK, Idle
<1> QED
  BY <1>1, Invariance, PTL

(* No two tasks run in one engine and none runs in an idle one.            *)
THEOREM SlotsAreExclusive ==
  ASSUME ConstantsOK
  PROVE  Spec => []SlotExclusive
BY Invariance, PTL DEF IInv

(* The pool has at most `size` engines, twice that beside a populate(),    *)
(* whatever delegates fail or are dropped.                                 *)
THEOREM EnginesAreBounded ==
  ASSUME ConstantsOK
  PROVE  Spec => []EnginesBounded
<1>1. ASSUME IInv PROVE EnginesBounded
  <2>1. {t \in Tasks : stage[t] = "build"} = At({"build"})
    BY DEF At
  <2>2. Len(idle) \in Nat /\ Size \in Nat /\ SizeInv
    BY <1>1 DEF IInv, TypeOK, ConstantsOK
  <2>3. Cardinality(live) \in Nat /\ Cardinality(live) <= Len(idle) + Cardinality(At(WithSlot))
    BY <1>1, LiveCount DEF IInv
  <2>4. Cardinality(live) + Cardinality(At({"build"})) <= Len(idle) + Cardinality(At(Working))
    BY <2>2, <2>3, WorkingCount
  <2>5. Len(idle) + Cardinality(At(Working)) <= IF populated THEN 2 * Size ELSE Size
    BY <2>2 DEF SizeInv
  <2>6. /\ Cardinality(live) + Cardinality(At({"build"})) \in Nat
        /\ Len(idle) + Cardinality(At(Working)) \in Nat
    BY <2>2, <2>3, WorkingCount
  <2>7. Cardinality(live) + Cardinality(At({"build"})) <= IF populated THEN 2 * Size ELSE Size
    BY <2>2, <2>4, <2>5, <2>6
  <2> QED
    BY <2>1, <2>7 DEF EnginesBounded
<1> QED
  BY <1>1, Invariance, PTL

(* handle_delegate_msg answers no message twice.                           *)
THEOREM AnsweredAtMostOnce ==
  ASSUME ConstantsOK
  PROVE  Spec => []AnsweredOnce
<1>1. IInv => AnsweredOnce
  BY DEF IInv, MessageInv, AnsweredOnce
<1> QED
  BY <1>1, Invariance, PTL

-----------------------------------------------------------------------------
(* Handles *)

Phases == {"new", "lock", "running", "putback", "returned", "raised", "cancelled"}
Active == {"lock", "running", "putback"}

HandType ==
  /\ engine \in [PyEngines -> BOOLEAN]
  /\ state \in [PyStates -> Seq(Calls) \cup {None}] /\ default \in [HandleIds -> Seq(Calls)]
  /\ holder \in Calls \cup {None} /\ pc \in [Calls -> Phases]
  /\ what \in [Calls -> [op : {"none", "run", "chat", "chat_with_state"},
                         engine : PyEngines \cup {None},
                         cell : PyStates \cup HandleIds \cup {None}]]
  /\ mine \in [Calls -> Seq(Calls)] /\ turns \in [PyStates -> Seq(Calls)]

(* The coroutine c has the State of the PyState s.                         *)
Carries(c, s) ==
  pc[c] \in Active /\ what[c].op \in {"run", "chat_with_state"} /\ what[c].cell = s

(* A State is in its cell or with one coroutine, and has every turn.       *)
CarryInv ==
  /\ \A c \in Calls : pc[c] \in Active => what[c].op # "none"
  /\ \A c \in Calls, s \in PyStates : Carries(c, s) =>
       state[s] = None /\ mine[c] = IF pc[c] = "putback" THEN Append(turns[s], c) ELSE turns[s]
  /\ \A c, d \in Calls, s \in PyStates : Carries(c, s) /\ Carries(d, s) => c = d
  /\ Hand!TurnsKept

(* An engine is in its cell or with one run(), and behind the mutex with   *)
(* the one who holds that.                                                 *)
RunsIn(c, e) == pc[c] \in Active /\ what[c].op = "run" /\ what[c].engine = e

EngineInv ==
  /\ \A c \in Calls : pc[c] \in Active /\ what[c].op = "run" => what[c].engine \in PyEngines
  /\ \A c \in Calls, e \in PyEngines : RunsIn(c, e) => ~engine[e]
  /\ \A c, d \in Calls, e \in PyEngines : RunsIn(c, e) /\ RunsIn(d, e) => c = d
  /\ \A c \in Calls : pc[c] = "running" /\ what[c].op # "run" => holder = c

HandInv == HandType /\ CarryInv /\ EngineInv

(* No engine is run by two coroutines at once.                             *)
OneRunPerEngine ==
  \A c, d \in Calls : pc[c] = "running" /\ pc[d] = "running" /\ c # d =>
    \/ what[c].op = "run" /\ what[d].op # "run"
    \/ what[c].op # "run" /\ what[d].op = "run"
    \/ what[c].op = "run" /\ what[d].op = "run" /\ what[c].engine # what[d].engine

LEMMA HandTypeStep ==
  ASSUME HandType, [Hand!Next]_(Hand!vars)
  PROVE  HandType'
<1> USE DEF Phases, Hand!Raise, Hand!Op
(* A State is taken out of its cell.                                       *)
<1>a. ASSUME NEW c \in Calls, NEW s \in PyStates, NEW w, NEW phase \in Phases, state[s] # None,
             w.op \in {"run", "chat_with_state"}, w.engine \in PyEngines \cup {None}, w.cell = s,
             w = [op |-> w.op, engine |-> w.engine, cell |-> w.cell],
             state' = [state EXCEPT ![s] = None], mine' = [mine EXCEPT ![c] = state[s]],
             what' = [what EXCEPT ![c] = w], pc' = [pc EXCEPT ![c] = phase],
             engine' \in [PyEngines -> BOOLEAN], UNCHANGED <<default, holder, turns>>
      PROVE  HandType'
  <2>1. mine' \in [Calls -> Seq(Calls)] /\ state' \in [PyStates -> Seq(Calls) \cup {None}]
    BY <1>a DEF HandType
  <2>2. what' \in [Calls -> [op : {"none", "run", "chat", "chat_with_state"},
                            engine : PyEngines \cup {None},
                            cell : PyStates \cup HandleIds \cup {None}]]
    BY <1>a DEF HandType
  <2> QED
    BY <1>a, <2>1, <2>2 DEF HandType
<1>1. ASSUME NEW c \in Calls, NEW e \in PyEngines, NEW s \in PyStates, Hand!Run(c, e, s) PROVE HandType'
  <2>1. engine' \in [PyEngines -> BOOLEAN]
    BY <1>1 DEF HandType, Hand!Run
  <2>2. CASE Hand!Raise(c)
    BY <2>1, <2>2 DEF HandType
  <2>3. CASE ~Hand!Raise(c)
    <3>1. /\ state[s] # None /\ state' = [state EXCEPT ![s] = None]
          /\ mine' = [mine EXCEPT ![c] = state[s]]
          /\ what' = [what EXCEPT ![c] = [op |-> "run", engine |-> e, cell |-> s]]
          /\ pc' = [pc EXCEPT ![c] = "running"] /\ UNCHANGED <<default, holder, turns>>
      BY <1>1, <2>3 DEF Hand!Run
    <3> QED
      BY <1>a, <2>1, <3>1
  <2> QED
    BY <2>2, <2>3
<1>2. ASSUME NEW c \in Calls, NEW h \in HandleIds, Hand!Chat(c, h) PROVE HandType'
  <2>1. <<>> \in Seq(Calls)
    OBVIOUS
  <2> QED
    BY <1>2, <2>1 DEF HandType, Hand!Chat
<1>3. ASSUME NEW c \in Calls, NEW s \in PyStates, Hand!ChatWithState(c, s) PROVE HandType'
  <2>1. CASE Hand!Raise(c)
    BY <1>3, <2>1 DEF HandType, Hand!ChatWithState
  <2>2. CASE ~Hand!Raise(c)
    <3>1. /\ state[s] # None /\ state' = [state EXCEPT ![s] = None]
          /\ mine' = [mine EXCEPT ![c] = state[s]]
          /\ what' = [what EXCEPT ![c] = [op |-> "chat_with_state", engine |-> None, cell |-> s]]
          /\ pc' = [pc EXCEPT ![c] = "lock"] /\ UNCHANGED <<default, holder, turns, engine>>
      BY <1>3, <2>2 DEF Hand!ChatWithState
    <3> QED
      BY <1>a, <3>1 DEF HandType
  <2> QED
    BY <2>1, <2>2
<1>4. ASSUME NEW c \in Calls, Hand!Locked(c) \/ Hand!Cancel(c) PROVE HandType'
  BY <1>4 DEF HandType, Hand!Locked, Hand!Cancel
<1>5. ASSUME NEW c \in Calls, Hand!RunEnds(c) PROVE HandType'
  <2>1. Append(mine[c], c) \in Seq(Calls)
    BY DEF HandType
  <2> QED
    BY <1>5, <2>1 DEF HandType, Hand!RunEnds
<1>6. ASSUME NEW c \in Calls, Hand!PutBack(c) PROVE HandType'
  <2>1. \A s \in PyStates : Append(turns[s], c) \in Seq(Calls)
    BY DEF HandType
  <2>2. /\ state' \in [PyStates -> Seq(Calls) \cup {None}] /\ default' \in [HandleIds -> Seq(Calls)]
        /\ turns' \in [PyStates -> Seq(Calls)]
    <3> DEFINE w == what[c]
    <3>1. mine[c] \in Seq(Calls)
      BY DEF HandType
    <3> HIDE DEF w
    <3>2. \/ default' = [default EXCEPT ![w.cell] = mine[c]] /\ UNCHANGED <<state, turns>>
          \/ /\ state' = [state EXCEPT ![w.cell] = mine[c]]
             /\ turns' = [turns EXCEPT ![w.cell] = Append(@, c)] /\ UNCHANGED default
      BY <1>6 DEF Hand!PutBack, w
    <3>3. CASE default' = [default EXCEPT ![w.cell] = mine[c]] /\ UNCHANGED <<state, turns>>
      BY <3>1, <3>3 DEF HandType
    <3>4. CASE /\ state' = [state EXCEPT ![w.cell] = mine[c]]
               /\ turns' = [turns EXCEPT ![w.cell] = Append(@, c)] /\ UNCHANGED default
      <4>1. state' \in [PyStates -> Seq(Calls) \cup {None}]
        BY <3>1, <3>4 DEF HandType
      <4>2. turns' \in [PyStates -> Seq(Calls)]
        BY <2>1, <3>4 DEF HandType
      <4> QED
        BY <3>4, <4>1, <4>2 DEF HandType
    <3> QED
      BY <3>2, <3>3, <3>4
  <2> QED
    BY <1>6, <2>2 DEF HandType, Hand!PutBack
<1>7. CASE UNCHANGED Hand!vars
  BY <1>7 DEF HandType, Hand!vars
<1> QED
  BY <1>1, <1>2, <1>3, <1>4, <1>5, <1>6, <1>7 DEF Hand!Next, Hand!Step

(* What is left alone of the others when the coroutine c moves.            *)
Others(c) == \A d \in Calls \ {c} : pc'[d] = pc[d] /\ what'[d] = what[d] /\ mine'[d] = mine[d]

(* c takes the State of s.                                                 *)
LEMMA TakesState ==
  ASSUME HandType, CarryInv, NEW c \in Calls, NEW s \in PyStates, state[s] # None, Others(c),
         state' = [state EXCEPT ![s] = None], mine'[c] = state[s],
         pc'[c] \in {"lock", "running"}, what'[c].op \in {"run", "chat_with_state"},
         what'[c].cell = s, turns' = turns
  PROVE  CarryInv'
<1>1. \A d \in Calls : ~Carries(d, s)
  BY DEF CarryInv
<1>2. \A d \in Calls \ {c}, t \in PyStates : Carries(d, t)' <=> Carries(d, t)
  BY DEF Others, Carries
<1>3. \A t \in PyStates : Carries(c, t)' => t = s
  BY DEF Carries
<1>4. state[s] = turns[s] /\ pc'[c] # "putback"
  BY DEF CarryInv, Hand!TurnsKept
<1>5. \A d \in Calls : pc'[d] \in Active => what'[d].op # "none"
  BY DEF CarryInv, Others
<1>6. ASSUME NEW d \in Calls, NEW t \in PyStates, Carries(d, t)'
      PROVE  /\ state'[t] = None
             /\ mine'[d] = IF pc'[d] = "putback" THEN Append(turns'[t], d) ELSE turns'[t]
  <2>1. CASE d = c
    BY <1>3, <1>4, <1>6, <2>1 DEF HandType
  <2>2. CASE d # c
    <3>1. Carries(d, t) /\ t # s
      BY <1>1, <1>2, <1>6, <2>2
    <3>2. state'[t] = state[t] /\ pc'[d] = pc[d] /\ mine'[d] = mine[d]
      BY <2>2, <3>1 DEF HandType, Others
    <3> QED
      BY <3>1, <3>2 DEF CarryInv
  <2> QED
    BY <2>1, <2>2
<1>7. \A d, e \in Calls, t \in PyStates : Carries(d, t)' /\ Carries(e, t)' => d = e
  BY <1>1, <1>2, <1>3 DEF CarryInv
<1>8. Hand!TurnsKept'
  BY DEF HandType, CarryInv, Hand!TurnsKept
<1> QED
  BY <1>5, <1>6, <1>7, <1>8 DEF CarryInv

(* c goes on or leaves, with what it carries.                              *)
LEMMA GoesOn ==
  ASSUME HandType, CarryInv, NEW c \in Calls, Others(c), UNCHANGED <<state, turns>>,
         what'[c] = what[c] \/ what'[c].op = "chat",
         \/ pc'[c] \notin Active
         \/ what'[c].op = "chat"
         \/ pc[c] = "lock" /\ pc'[c] = "running" /\ mine'[c] = mine[c]
         \/ pc[c] = "running" /\ pc'[c] = "putback" /\ mine'[c] = Append(mine[c], c)
  PROVE  CarryInv'
<1>2. \A d \in Calls \ {c}, t \in PyStates : Carries(d, t)' <=> Carries(d, t)
  BY DEF Others, Carries
<1>3. \A t \in PyStates : Carries(c, t)' =>
        /\ Carries(c, t) /\ pc'[c] \in {"running", "putback"}
        /\ pc'[c] = "running" => pc[c] = "lock" /\ mine'[c] = mine[c]
        /\ pc'[c] = "putback" => pc[c] = "running" /\ mine'[c] = Append(mine[c], c)
  BY DEF Carries, Active
<1>5. \A d \in Calls : pc'[d] \in Active => what'[d].op # "none"
  BY DEF CarryInv, Others, Active
<1>6. ASSUME NEW d \in Calls, NEW t \in PyStates, Carries(d, t)'
      PROVE  /\ state'[t] = None
             /\ mine'[d] = IF pc'[d] = "putback" THEN Append(turns'[t], d) ELSE turns'[t]
  <2>1. CASE d = c
    <3>1. state[t] = None /\ mine[c] = turns[t]
      BY <1>3, <1>6, <2>1 DEF CarryInv
    <3> QED
      BY <1>3, <1>6, <2>1, <3>1
  <2>2. CASE d # c
    <3>1. Carries(d, t)
      BY <1>2, <1>6, <2>2
    <3> QED
      BY <2>2, <3>1 DEF CarryInv, Others
  <2> QED
    BY <2>1, <2>2
<1>7. \A d, e \in Calls, t \in PyStates : Carries(d, t)' /\ Carries(e, t)' => d = e
  BY <1>2, <1>3 DEF CarryInv
<1>8. Hand!TurnsKept'
  BY DEF CarryInv, Hand!TurnsKept
<1> QED
  BY <1>5, <1>6, <1>7, <1>8 DEF CarryInv

LEMMA CarryStep ==
  ASSUME HandType, CarryInv, [Hand!Next]_(Hand!vars)
  PROVE  CarryInv'
<1> USE DEF Hand!Op
<1>a. ASSUME NEW c \in Calls, Hand!Raise(c) PROVE CarryInv'
  BY <1>a, GoesOn DEF Hand!Raise, HandType, Others, Active
<1>1. ASSUME NEW c \in Calls, NEW e \in PyEngines, NEW s \in PyStates, Hand!Run(c, e, s) PROVE CarryInv'
  <2>1. CASE ~Hand!Raise(c)
    <3>1. /\ state[s] # None /\ state' = [state EXCEPT ![s] = None]
          /\ mine' = [mine EXCEPT ![c] = state[s]]
          /\ what' = [what EXCEPT ![c] = [op |-> "run", engine |-> e, cell |-> s]]
          /\ pc' = [pc EXCEPT ![c] = "running"] /\ turns' = turns
      BY <1>1, <2>1 DEF Hand!Run
    <3>2. Others(c) /\ mine'[c] = state[s] /\ pc'[c] = "running"
          /\ what'[c].op = "run" /\ what'[c].cell = s
      BY <3>1 DEF HandType, Others
    <3> QED
      BY <3>1, <3>2, TakesState
  <2> QED
    BY <1>a, <2>1
<1>2. ASSUME NEW c \in Calls, NEW h \in HandleIds, Hand!Chat(c, h) PROVE CarryInv'
  <2>1. Others(c) /\ what'[c].op = "chat" /\ UNCHANGED <<state, turns>>
    BY <1>2 DEF Hand!Chat, HandType, Others
  <2> QED
    BY <2>1, GoesOn
<1>3. ASSUME NEW c \in Calls, NEW s \in PyStates, Hand!ChatWithState(c, s) PROVE CarryInv'
  <2>1. CASE ~Hand!Raise(c)
    <3>1. /\ state[s] # None /\ state' = [state EXCEPT ![s] = None]
          /\ mine' = [mine EXCEPT ![c] = state[s]]
          /\ what' = [what EXCEPT ![c] = [op |-> "chat_with_state", engine |-> None, cell |-> s]]
          /\ pc' = [pc EXCEPT ![c] = "lock"] /\ turns' = turns
      BY <1>3, <2>1 DEF Hand!ChatWithState
    <3>2. Others(c) /\ mine'[c] = state[s] /\ pc'[c] = "lock"
          /\ what'[c].op = "chat_with_state" /\ what'[c].cell = s
      BY <3>1 DEF HandType, Others
    <3> QED
      BY <3>1, <3>2, TakesState
  <2> QED
    BY <1>a, <2>1
<1>4. ASSUME NEW c \in Calls, Hand!Locked(c) \/ Hand!Cancel(c) \/ Hand!RunEnds(c) PROVE CarryInv'
  <2>1. Others(c) /\ UNCHANGED <<state, turns, what>>
    BY <1>4 DEF Hand!Locked, Hand!Cancel, Hand!RunEnds, HandType, Others
  <2>2. \/ pc'[c] \notin Active
        \/ pc[c] = "lock" /\ pc'[c] = "running" /\ mine'[c] = mine[c]
        \/ pc[c] = "running" /\ pc'[c] = "putback" /\ mine'[c] = Append(mine[c], c)
    BY <1>4 DEF Hand!Locked, Hand!Cancel, Hand!RunEnds, HandType, Active
  <2> QED
    BY <2>1, <2>2, GoesOn
<1>5. ASSUME NEW c \in Calls, Hand!PutBack(c) PROVE CarryInv'
  <2> DEFINE s == what[c].cell
  <2>1. pc[c] = "putback" /\ pc'[c] = "returned" /\ Others(c) /\ what' = what /\ mine' = mine
    BY <1>5 DEF Hand!PutBack, HandType, Others
  <2>2. CASE what[c].op = "chat"
    BY <1>5, <2>1, <2>2, GoesOn DEF Hand!PutBack, Active
  <2>3. CASE what[c].op # "chat"
    <3>1. state' = [state EXCEPT ![s] = mine[c]] /\ turns' = [turns EXCEPT ![s] = Append(@, c)]
      BY <1>5, <2>3 DEF Hand!PutBack
    <3>2. what[c].op \in {"run", "chat_with_state"}
      BY <2>1, <2>3 DEF CarryInv, HandType, Active
    <3>3. s \in PyStates => Carries(c, s) /\ mine[c] = Append(turns[s], c)
      BY <2>1, <3>2 DEF CarryInv, Carries, Active
    <3>4. \A d \in Calls, t \in PyStates : Carries(d, t)' => Carries(d, t) /\ d # c
      BY <2>1 DEF Others, Carries, Active
    <3> HIDE DEF s
    <3>5. \A t \in PyStates : t # s => state'[t] = state[t] /\ turns'[t] = turns[t]
      BY <3>1 DEF HandType
    <3>6. s \in PyStates => state'[s] = turns'[s]
      BY <3>1, <3>3 DEF HandType
    <3>7. \A d \in Calls, t \in PyStates : Carries(d, t)' =>
            Carries(d, t) /\ t # s /\ pc'[d] = pc[d] /\ mine'[d] = mine[d]
      BY <2>1, <3>3, <3>4 DEF CarryInv, Others
    <3>8. \A d \in Calls : pc'[d] \in Active => what'[d].op # "none"
      BY <2>1 DEF CarryInv, Others, Active
    <3>9. \A d \in Calls, t \in PyStates : Carries(d, t)' =>
            /\ state'[t] = None
            /\ mine'[d] = IF pc'[d] = "putback" THEN Append(turns'[t], d) ELSE turns'[t]
      BY <3>5, <3>7 DEF CarryInv
    <3>10. \A d, e \in Calls, t \in PyStates : Carries(d, t)' /\ Carries(e, t)' => d = e
      BY <3>7 DEF CarryInv
    <3>11. Hand!TurnsKept'
      BY <3>5, <3>6 DEF CarryInv, Hand!TurnsKept
    <3> QED
      BY <3>8, <3>9, <3>10, <3>11 DEF CarryInv
  <2> QED
    BY <2>2, <2>3
<1>6. CASE UNCHANGED Hand!vars
  BY <1>6 DEF Hand!vars, CarryInv, Carries, Hand!TurnsKept
<1> QED
  BY <1>1, <1>2, <1>3, <1>4, <1>5, <1>6 DEF Hand!Next, Hand!Step

LEMMA EngineStep ==
  ASSUME None \notin Calls, HandType, CarryInv, EngineInv, [Hand!Next]_(Hand!vars)
  PROVE  EngineInv'
<1> USE DEF Hand!Op
<1>a. ASSUME NEW c \in Calls, pc'[c] \notin Active, Others(c), UNCHANGED <<what, holder>>,
             \A e \in PyEngines : engine'[e] => engine[e]
      PROVE  EngineInv'
  BY <1>a DEF EngineInv, RunsIn, Others, Active
<1>1. ASSUME NEW c \in Calls, NEW e \in PyEngines, NEW s \in PyStates, Hand!Run(c, e, s) PROVE EngineInv'
  <2>1. CASE Hand!Raise(c)
    <3>1. /\ pc'[c] \notin Active /\ Others(c) /\ UNCHANGED <<what, holder>>
          /\ \A f \in PyEngines : engine'[f] => engine[f]
      BY <1>1, <2>1 DEF Hand!Run, Hand!Raise, HandType, Others, Active
    <3> QED
      BY <1>a, <3>1
  <2>2. CASE ~Hand!Raise(c)
    <3>1. /\ engine[e] /\ engine' = [engine EXCEPT ![e] = FALSE] /\ holder' = holder
          /\ what' = [what EXCEPT ![c] = [op |-> "run", engine |-> e, cell |-> s]]
          /\ pc' = [pc EXCEPT ![c] = "running"] /\ mine' = [mine EXCEPT ![c] = state[s]]
      BY <1>1, <2>2 DEF Hand!Run
    <3>2. /\ Others(c) /\ what'[c].op = "run" /\ what'[c].engine = e
          /\ \A f \in PyEngines : engine'[f] <=> (engine[f] /\ f # e)
      BY <3>1 DEF HandType, Others
    <3>3. \A d \in Calls : ~RunsIn(d, e)
      BY <3>1 DEF EngineInv
    <3> QED
      BY <3>1, <3>2, <3>3 DEF EngineInv, RunsIn, Others
  <2> QED
    BY <2>1, <2>2
<1>2. ASSUME NEW c \in Calls, pc[c] = "new", pc'[c] = "lock", what'[c].op # "run", Others(c),
             UNCHANGED <<engine, holder>>
      PROVE  EngineInv'
  BY <1>2 DEF EngineInv, RunsIn, Others, Active
<1>3. ASSUME NEW c \in Calls, NEW h \in HandleIds, Hand!Chat(c, h) PROVE EngineInv'
  BY <1>2, <1>3 DEF Hand!Chat, HandType, Others
<1>4. ASSUME NEW c \in Calls, NEW s \in PyStates, Hand!ChatWithState(c, s) PROVE EngineInv'
  <2>1. CASE Hand!Raise(c)
    <3>1. /\ pc'[c] \notin Active /\ Others(c) /\ UNCHANGED <<what, holder, engine>>
      BY <1>4, <2>1 DEF Hand!ChatWithState, Hand!Raise, HandType, Others, Active
    <3> QED
      BY <1>a, <3>1
  <2>2. CASE ~Hand!Raise(c)
    <3>1. /\ pc[c] = "new" /\ UNCHANGED <<engine, holder>>
          /\ what' = [what EXCEPT ![c] = [op |-> "chat_with_state", engine |-> None, cell |-> s]]
          /\ pc' = [pc EXCEPT ![c] = "lock"] /\ mine' = [mine EXCEPT ![c] = state[s]]
      BY <1>4, <2>2 DEF Hand!ChatWithState
    <3>2. Others(c) /\ what'[c].op # "run" /\ pc'[c] = "lock"
      BY <3>1 DEF HandType, Others
    <3> QED
      BY <1>2, <3>1, <3>2
  <2> QED
    BY <2>1, <2>2
<1>5. ASSUME NEW c \in Calls, Hand!Locked(c) PROVE EngineInv'
  BY <1>5 DEF Hand!Locked, HandType, EngineInv, RunsIn, Active
<1>6. ASSUME NEW c \in Calls, Hand!RunEnds(c) PROVE EngineInv'
  BY <1>6 DEF Hand!RunEnds, HandType, EngineInv, RunsIn, Active
<1>7. ASSUME NEW c \in Calls, Hand!Cancel(c) PROVE EngineInv'
  BY <1>7 DEF Hand!Cancel, HandType, EngineInv, RunsIn, Active
<1>8. ASSUME NEW c \in Calls, Hand!PutBack(c) PROVE EngineInv'
  <2>1. /\ pc[c] = "putback" /\ pc'[c] = "returned" /\ Others(c) /\ UNCHANGED <<what, holder>>
    BY <1>8 DEF Hand!PutBack, HandType, Others
  <2>2. CASE what[c].op # "run"
    BY <1>8, <1>a, <2>1, <2>2 DEF Hand!PutBack, Active
  <2>3. CASE what[c].op = "run"
    <3>1. engine' = [engine EXCEPT ![what[c].engine] = TRUE]
      BY <1>8, <2>3 DEF Hand!PutBack
    <3>2. \A d \in Calls, f \in PyEngines : RunsIn(d, f)' => RunsIn(d, f) /\ d # c
      BY <2>1 DEF RunsIn, Others, Active
    <3>3. \A d \in Calls, f \in PyEngines : RunsIn(d, f)' => f # what[c].engine
      BY <2>1, <2>3, <3>2 DEF EngineInv, RunsIn, Active
    <3>4. \A d \in Calls, f \in PyEngines : RunsIn(d, f)' => ~engine'[f]
      BY <3>1, <3>2, <3>3 DEF EngineInv, HandType
    <3>5. \A d, e \in Calls, f \in PyEngines : RunsIn(d, f)' /\ RunsIn(e, f)' => d = e
      BY <3>2 DEF EngineInv
    <3>6. \A d \in Calls : pc'[d] = "running" /\ what'[d].op # "run" => holder' = d
      BY <2>1 DEF EngineInv, Others
    <3>7. \A d \in Calls : pc'[d] \in Active /\ what'[d].op = "run" => what'[d].engine \in PyEngines
      BY <2>1 DEF EngineInv, Others, Active
    <3> QED
      BY <3>4, <3>5, <3>6, <3>7 DEF EngineInv
  <2> QED
    BY <2>2, <2>3
<1>9. CASE UNCHANGED Hand!vars
  BY <1>9 DEF Hand!vars, EngineInv, RunsIn
<1> QED
  BY <1>1, <1>3, <1>4, <1>5, <1>6, <1>7, <1>8, <1>9 DEF Hand!Next, Hand!Step

LEMMA HandInitially ==
  ASSUME Hand!Init
  PROVE  HandInv
<1>1. <<>> \in Seq(Calls)
  OBVIOUS
<1>2. HandType
  BY <1>1 DEF Hand!Init, Hand!Op, HandType, Phases
<1>3. CarryInv /\ EngineInv
  BY DEF Hand!Init, CarryInv, EngineInv, Carries, RunsIn, Active, Hand!TurnsKept
<1> QED
  BY <1>2, <1>3 DEF HandInv

LEMMA HandInvariance ==
  ASSUME None \notin Calls
  PROVE  Hand!Spec => []HandInv
<1>1. HandInv /\ [Hand!Next]_(Hand!vars) => HandInv'
  BY HandTypeStep, CarryStep, EngineStep DEF HandInv
<1> QED
  BY <1>1, HandInitially, PTL DEF Hand!Spec

(* A PyState in its cell has every turn that was put back into it, once    *)
(* and in order: run() and chat_with_state() take it out before they       *)
(* await, so no coroutine overwrites the turn of another.                  *)
THEOREM TurnsAreKept ==
  ASSUME None \notin Calls
  PROVE  Hand!Spec => []TurnsKept
<1>1. HandInv => TurnsKept
  BY DEF HandInv, CarryInv, TurnsKept
<1> QED
  BY <1>1, HandInvariance, PTL

(* Engine::run is not entered twice on one engine, neither through run()   *)
(* of a PyEngine nor through the mutex of its handles.                     *)
THEOREM EnginesRunOnce ==
  ASSUME None \notin Calls
  PROVE  Hand!Spec => []OneRunPerEngine
<1>1. HandInv => OneRunPerEngine
  <2> SUFFICES ASSUME HandInv, NEW c \in Calls, NEW d \in Calls,
                      pc[c] = "running", pc[d] = "running", c # d
               PROVE  \/ what[c].op = "run" /\ what[d].op # "run"
                      \/ what[c].op # "run" /\ what[d].op = "run"
                      \/ what[c].op = "run" /\ what[d].op = "run" /\ what[c].engine # what[d].engine
    BY DEF OneRunPerEngine
  <2>1. CASE what[c].op = "run" /\ what[d].op = "run"
    BY <2>1 DEF HandInv, HandType, EngineInv, RunsIn, Active
  <2>2. CASE what[c].op # "run" /\ what[d].op # "run"
    BY <2>2 DEF HandInv, EngineInv
  <2> QED
    BY <2>1, <2>2
<1> QED
  BY <1>1, HandInvariance, PTL

-----------------------------------------------------------------------------
(* Team *)

Requests == [cid : Nat, task : Texts]

TeamType ==
  /\ node \in [Team!Nodes -> {"off", "on", "zombie"}]
  /\ building = None \/ building \subseteq Team!TeamEngines
  /\ roster \subseteq Team!TeamEngines /\ handles \subseteq Team!TeamEngines
  /\ callPc \in [Callers -> {"new", "wait", "ok", "raised"}]
  /\ request \in [Callers -> Requests \cup {Team!NoRequest}] /\ got \in [Callers -> Texts \cup {None}]
  /\ sent \in Nat /\ asked \subseteq Requests /\ results \in Seq(Requests)

(* A delegate() that waits has the subscription, whose node is online.     *)
WaitInv == \A c \in Callers : callPc[c] = "wait" => owner = c /\ node[Team!Me] = "on"

(* The requests the pool works on and the results in the subscription.     *)
Known == asked \cup {results[i] : i \in DOMAIN results}

(* Of these the one with the id a call waits for is that call's: late ones *)
(* have the ids of earlier calls.                                          *)
IdInv ==
  /\ \A r \in Known : r.cid <= sent
  /\ \A c \in Callers : callPc[c] = "wait" =>
       \A r \in Known : r.cid = request[c].cid => r.task = request[c].task

TeamInv == TeamType /\ WaitInv /\ IdInv /\ Team!OwnResult

(* At most one delegate() of a pool handle waits; the others raise.        *)
OneSubscriber == \A c, d \in Callers : callPc[c] = "wait" /\ callPc[d] = "wait" => c = d

LEMMA TeamStep ==
  ASSUME NumEngines \in Nat, TeamInv, [Team!Next]_(Team!vars)
  PROVE  TeamInv'
<1>a. /\ TeamType /\ WaitInv /\ IdInv /\ Team!OwnResult
      /\ Team!Me \in Team!Nodes /\ Team!Me \notin Team!TeamEngines /\ Team!TeamEngines \subseteq Team!Nodes
  BY DEF TeamInv, Team!Me, Team!Nodes, Team!TeamEngines
<1> DEFINE calling == <<owner, results, asked, callPc, request, got, sent>>
<1> USE DEF Team!teamVars, Team!callVars
(* The team's own steps touch neither the calls nor their node.            *)
<1>b. ASSUME UNCHANGED calling, node'[Team!Me] = node[Team!Me], TeamType' PROVE TeamInv'
  BY <1>a, <1>b DEF TeamInv, WaitInv, IdInv, Known, Team!OwnResult
<1>c. ASSUME NEW ns \in SUBSET Team!TeamEngines
      PROVE  /\ Team!Drop(ns) \in [Team!Nodes -> {"off", "on", "zombie"}]
             /\ Team!Drop(ns)[Team!Me] = node[Team!Me]
  BY <1>a DEF TeamType, Team!Drop
<1>1. CASE Team!Build \/ Team!BuildDone \/ Team!Start \/ Team!ConnectPool
  <2>1. TeamType' /\ UNCHANGED <<node, calling>>
    BY <1>a, <1>1 DEF Team!Build, Team!BuildDone, Team!Start, Team!ConnectPool, TeamType
  <2> QED
    BY <1>b, <2>1
<1>2. CASE Team!BuildEngine
  <2>1. UNCHANGED <<roster, handles, calling>>
    BY <1>2 DEF Team!BuildEngine
  <2>2. PICK n \in Team!TeamEngines \ building :
          node' = [node EXCEPT ![n] = "on"] /\ building' = building \cup {n}
    BY <1>2 DEF Team!BuildEngine
  <2>3. building \subseteq Team!TeamEngines
    BY <1>2, <1>a DEF Team!BuildEngine, TeamType
  <2>4. TeamType' /\ node'[Team!Me] = node[Team!Me]
    BY <1>a, <2>1, <2>2, <2>3 DEF TeamType
  <2> QED
    BY <1>b, <2>1, <2>4
<1>3. CASE Team!BuildFails
  <2>1. building \subseteq Team!TeamEngines /\ node' = Team!Drop(building) /\ building' = None
        /\ UNCHANGED <<roster, handles, calling>>
    BY <1>3, <1>a DEF Team!BuildFails, TeamType
  <2> QED
    BY <1>a, <1>b, <1>c, <2>1 DEF TeamType
<1>4. CASE Team!Stop
  <2>1. roster \ handles \in SUBSET Team!TeamEngines /\ node' = Team!Drop(roster \ handles)
        /\ roster' = {} /\ UNCHANGED <<building, handles, calling>>
    BY <1>4, <1>a DEF Team!Stop, TeamType
  <2> QED
    BY <1>a, <1>b, <1>c, <2>1 DEF TeamType
<1>5. ASSUME NEW n \in Team!TeamEngines, Team!TakeHandle(n) PROVE TeamInv'
  <2>1. TeamType' /\ UNCHANGED <<node, calling>>
    BY <1>a, <1>5 DEF Team!TakeHandle, TeamType
  <2> QED
    BY <1>b, <2>1
<1>6. ASSUME NEW n \in Team!TeamEngines, Team!DropHandle(n) PROVE TeamInv'
  <2>1. node' = node \/ node' = Team!Drop({n})
    BY <1>6 DEF Team!DropHandle
  <2>2. handles' \subseteq Team!TeamEngines /\ UNCHANGED <<building, roster, calling>>
    BY <1>6, <1>a DEF Team!DropHandle, TeamType
  <2>3. node' \in [Team!Nodes -> {"off", "on", "zombie"}] /\ node'[Team!Me] = node[Team!Me]
    BY <1>a, <1>c, <2>1 DEF TeamType
  <2> QED
    BY <1>a, <1>b, <2>2, <2>3 DEF TeamType
<1>7. ASSUME NEW n \in Team!Nodes, Team!Evict(n) PROVE TeamInv'
  <2>1. node[n] = "zombie" /\ node' = [node EXCEPT ![n] = "off"]
        /\ UNCHANGED <<building, roster, handles, calling>>
    BY <1>7 DEF Team!Evict
  <2>2. TeamType' /\ (node[Team!Me] = "on" => node'[Team!Me] = "on")
    BY <1>a, <2>1 DEF TeamType
  <2> QED
    BY <1>a, <2>1, <2>2 DEF TeamInv, WaitInv, IdInv, Known, Team!OwnResult
<1>8. ASSUME NEW c \in Callers, Team!Delegate(c) PROVE TeamInv'
  <2>1. UNCHANGED <<building, roster, handles, got>> /\ callPc[c] # "wait"
    BY <1>8 DEF Team!Delegate
  <2>2. CASE callPc' = [callPc EXCEPT ![c] = "raised"]
             /\ UNCHANGED <<node, owner, results, asked, request, sent>>
    BY <1>a, <2>1, <2>2 DEF TeamInv, TeamType, WaitInv, IdInv, Known, Team!OwnResult
  <2>3. ASSUME node[Team!Me] = "off", node' = [node EXCEPT ![Team!Me] = "on"], owner' = c,
               callPc' = [callPc EXCEPT ![c] = "wait"], results' = <<>>, sent' = sent + 1,
               NEW user_message \in Texts,
               request' = [request EXCEPT ![c] = [cid |-> Team!NewId, task |-> user_message]],
               asked' = asked \cup {request'[c]}
        PROVE  TeamInv'
    <3>1. \A d \in Callers : callPc[d] # "wait"
      BY <1>a, <2>3 DEF WaitInv
    <3>2. request'[c] = [cid |-> sent + 1, task |-> user_message] /\ request'[c] \in Requests
      BY <1>a, <2>3 DEF TeamType, Team!NewId, Requests
    <3>3. request' \in [Callers -> Requests \cup {Team!NoRequest}] /\ asked' \subseteq Requests
      BY <1>a, <2>3, <3>2 DEF TeamType
    <3>4. TeamType'
      BY <1>a, <2>1, <2>3, <3>3 DEF TeamType
    <3>5. Known' = asked \cup {request'[c]}
      BY <2>3 DEF Known
    <3>6. \A r \in asked : r.cid \in Nat /\ r.cid <= sent
      BY <1>a DEF TeamType, IdInv, Known, Requests
    <3>7. \A r \in Known' : r.cid <= sent' /\ (r.cid = request'[c].cid => r = request'[c])
      BY <1>a, <2>3, <3>2, <3>5, <3>6 DEF TeamType
    <3>8. WaitInv' /\ \A d \in Callers : d # c => callPc'[d] # "wait"
      BY <1>a, <2>3, <3>1 DEF TeamType, WaitInv
    <3>9. IdInv'
      BY <3>7, <3>8 DEF IdInv
    <3>10. Team!OwnResult'
      BY <1>a, <2>1, <2>3 DEF TeamType, Team!OwnResult
    <3> QED
      BY <3>4, <3>8, <3>9, <3>10 DEF TeamInv
  <2> QED
    BY <1>8, <2>2, <2>3 DEF Team!Delegate
<1>9. CASE Team!PoolReplies
  <2>1. PICK r \in asked : /\ asked' = asked \ {r}
                           /\ results' = results \/ results' = Append(results, r)
    BY <1>9 DEF Team!PoolReplies
  <2>2. UNCHANGED <<node, building, roster, handles, owner, callPc, request, got, sent>>
    BY <1>9 DEF Team!PoolReplies
  <2>3. results \in Seq(Requests) /\ r \in Requests
    BY <1>a, <2>1 DEF TeamType
  <2>4. results' \in Seq(Requests) /\ {results'[i] : i \in DOMAIN results'} \subseteq Known
    <3>1. CASE results' = results
      BY <2>3, <3>1 DEF Known
    <3>2. CASE results' = Append(results, r)
      <4>1. results' \in Seq(Requests) /\ DOMAIN results' = 1..(Len(results) + 1)
        BY <2>3, <3>2
      <4>2. \A i \in DOMAIN results' : results'[i] = r \/ (i \in DOMAIN results /\ results'[i] = results[i])
        BY <2>3, <3>2
      <4> QED
        BY <2>1, <4>1, <4>2 DEF Known
    <3> QED
      BY <2>1, <3>1, <3>2
  <2>5. Known' \subseteq Known
    BY <2>1, <2>4 DEF Known
  <2>6. TeamType'
    BY <1>a, <2>1, <2>2, <2>4 DEF TeamType
  <2> QED
    BY <1>a, <2>2, <2>5, <2>6 DEF TeamInv, WaitInv, IdInv, Team!OwnResult
<1>10. ASSUME NEW c \in Callers, NEW how \in {"ok", "raised"}, callPc[c] = "wait", Team!Leave(c, how),
              \/ got' = [got EXCEPT ![c] = request[c].task] /\ request[c].task \in Texts
              \/ how = "raised" /\ got' = got,
              UNCHANGED <<building, roster, handles, asked, request, sent>>
       PROVE  TeamInv'
  <2>1. \A d \in Callers : d # c => callPc[d] # "wait"
    BY <1>a, <1>10 DEF WaitInv
  <2>2. callPc' = [callPc EXCEPT ![c] = how] /\ node' = Team!Drop({Team!Me}) /\ results' = <<>>
    BY <1>10 DEF Team!Leave
  <2>3. node' \in [Team!Nodes -> {"off", "on", "zombie"}]
    BY <1>a, <2>2 DEF TeamType, Team!Drop
  <2>4. got' \in [Callers -> Texts \cup {None}]
    BY <1>a, <1>10 DEF TeamType
  <2>5. \A d \in Callers : callPc'[d] # "wait"
    BY <1>a, <1>10, <2>1, <2>2 DEF TeamType
  <2>6. TeamType' /\ WaitInv'
    <3>1. callPc' \in [Callers -> {"new", "wait", "ok", "raised"}]
      BY <1>a, <1>10, <2>2 DEF TeamType
    <3>2. results' \in Seq(Requests)
      BY <2>2
    <3>3. TeamType'
      BY <1>a, <1>10, <2>3, <2>4, <3>1, <3>2 DEF TeamType
    <3> QED
      BY <2>5, <3>3 DEF WaitInv
  <2>7. Known' \subseteq Known
    BY <1>10, <2>2 DEF Known
  <2>8. IdInv'
    BY <1>a, <1>10, <2>5, <2>7 DEF IdInv
  <2>9. Team!OwnResult'
    BY <1>a, <1>10, <2>2 DEF TeamType, Team!OwnResult
  <2> QED
    BY <2>6, <2>8, <2>9 DEF TeamInv
<1>11. ASSUME NEW c \in Callers, Team!DelegateRecv(c) PROVE TeamInv'
  <2>1. callPc[c] = "wait" /\ results # <<>> /\ UNCHANGED <<building, roster, handles, asked, request, sent>>
    BY <1>11 DEF Team!DelegateRecv
  <2>2. Head(results) \in Requests /\ Head(results) \in Known
    <3>1. results \in Seq(Requests)
      BY <1>a DEF TeamType
    <3>2. 1 \in DOMAIN results /\ Head(results) = results[1] /\ results[1] \in Requests
      BY <2>1, <3>1
    <3> QED
      BY <3>2 DEF Known
  <2>3. CASE Head(results).cid = request[c].cid /\ Team!Leave(c, "ok")
             /\ got' = [got EXCEPT ![c] = Head(results).task]
    <3>1. Head(results).task = request[c].task /\ Head(results).task \in Texts
      BY <1>a, <2>1, <2>2, <2>3 DEF IdInv, Requests
    <3> QED
      BY <1>10, <2>1, <2>3, <3>1
  <2>4. CASE got' = got /\ Team!Leave(c, "raised")
    BY <1>10, <2>1, <2>4
  <2> QED
    BY <1>11, <2>3, <2>4 DEF Team!DelegateRecv
<1>12. ASSUME NEW c \in Callers, Team!DelegateTimeout(c) PROVE TeamInv'
  BY <1>10, <1>12 DEF Team!DelegateTimeout
<1>13. CASE UNCHANGED Team!vars
  BY <1>13, <1>a DEF Team!vars, TeamInv, TeamType, WaitInv, IdInv, Known, Team!OwnResult
<1> QED
  BY <1>1, <1>2, <1>3, <1>4, <1>5, <1>6, <1>7, <1>8, <1>9, <1>11, <1>12, <1>13 DEF Team!Next

LEMMA TeamInvariance ==
  ASSUME NumEngines \in Nat
  PROVE  Team!Spec => []TeamInv
<1>1. Team!Init => TeamInv
  <2> SUFFICES ASSUME Team!Init PROVE TeamInv
    OBVIOUS
  <2>1. Known = {}
    BY DEF Team!Init, Known
  <2> QED
    BY <2>1 DEF Team!Init, TeamInv, TeamType, WaitInv, IdInv, Team!OwnResult
<1> QED
  BY <1>1, TeamStep, PTL DEF Team!Spec

(* A delegate() that succeeds returns the result of the task it was given, *)
(* for any number of coroutines that call it again and again: all of them  *)
(* subscribe under one node id, where the answers of calls that timed out  *)
(* arrive too, and what they compare is the correlation id.                *)
THEOREM ResultsAreOwn ==
  ASSUME NumEngines \in Nat
  PROVE  Team!Spec => []OwnResult
<1>1. TeamInv => OwnResult
  BY DEF TeamInv, OwnResult
<1> QED
  BY <1>1, TeamInvariance, PTL

(* The node id that all calls of a PoolHandle share admits one of them at  *)
(* a time, until its node has left the Bus.                                *)
THEOREM SubscribersAreAlone ==
  ASSUME NumEngines \in Nat
  PROVE  Team!Spec => []OneSubscriber
<1>1. TeamInv => OneSubscriber
  BY DEF TeamInv, WaitInv, OneSubscriber
<1> QED
  BY <1>1, TeamInvariance, PTL

-----------------------------------------------------------------------------
(* PyNodeHandle *)

Methods == {"none", "send", "recv", "disconnect", "try"}
NodPhases == {"new", "lock", "send", "recv", "looked", "await", "disconnect", "ready"} \cup Nod!Ended

(* A disconnect() that took the handle out of its cell and was not         *)
(* cancelled.                                                              *)
Leaving(c) == op[c] = "disconnect" /\ opPc[c] \in {"disconnect", "ready", "returned"}

NodInv ==
  /\ op \in [Calls -> Methods] /\ opPc \in [Calls -> NodPhases]
  /\ \A c \in Calls :
       /\ opPc[c] = "lock" => op[c] \in {"send", "recv", "disconnect"}
       /\ opPc[c] = "send" => op[c] = "send"
       /\ opPc[c] \in {"recv", "looked", "await"} => op[c] = "recv"
       /\ opPc[c] = "disconnect" => op[c] = "disconnect"
       /\ Leaving(c) => cell = "empty" /\ (opPc[c] # "disconnect" => busNode = "off")
  /\ \A c, d \in Calls : Leaving(c) /\ Leaving(d) => c = d
  /\ busNode = "zombie" => \E c \in Calls : op[c] = "disconnect" /\ opPc[c] = "cancelled"

LEMMA NodStep ==
  ASSUME NodInv, [Nod!Next]_(Nod!vars)
  PROVE  NodInv'
<1> USE DEF Methods, NodPhases, Nod!Ended, Nod!Goto, Nod!busVars, Leaving
<1>1. CASE Nod!Connect
  BY <1>1 DEF Nod!Connect, NodInv
<1>2. CASE Nod!Arrive \/ Nod!Shutdown \/ Nod!Evict
  BY <1>2 DEF Nod!Arrive, Nod!Shutdown, Nod!Evict, NodInv
<1>3. ASSUME NEW c \in Calls, NEW method \in {"send", "recv", "disconnect"}, Nod!Call(c, method)
      PROVE  NodInv'
  BY <1>3 DEF Nod!Call, NodInv
<1>4. ASSUME NEW c \in Calls, Nod!TryRecv(c) \/ Nod!Peek(c) PROVE NodInv'
  BY <1>4 DEF Nod!TryRecv, Nod!Peek, Nod!TryLock, NodInv
<1>5. ASSUME NEW c \in Calls, Nod!Locked(c) PROVE NodInv'
  BY <1>5 DEF Nod!Locked, NodInv
<1>6. ASSUME NEW c \in Calls, Nod!SendDone(c) PROVE NodInv'
  BY <1>6 DEF Nod!SendDone, NodInv
<1>7. ASSUME NEW c \in Calls, Nod!Disconnected(c) PROVE NodInv'
  BY <1>7 DEF Nod!Disconnected, NodInv
<1>8. ASSUME NEW c \in Calls, Nod!Deliver(c) PROVE NodInv'
  BY <1>8 DEF Nod!Deliver, NodInv
<1>9. ASSUME NEW c \in Calls, Nod!RecvTake(c) \/ Nod!RecvEmpty(c) \/ Nod!RecvIsClosed(c) \/ Nod!RecvAgain(c)
      PROVE  NodInv'
  BY <1>9 DEF Nod!RecvTake, Nod!RecvEmpty, Nod!RecvIsClosed, Nod!RecvAgain, NodInv
<1>10. ASSUME NEW c \in Calls, Nod!Cancel(c) PROVE NodInv'
  BY <1>10 DEF Nod!Cancel, NodInv
<1>11. CASE UNCHANGED Nod!vars
  BY <1>11 DEF Nod!vars, NodInv
<1> QED
  BY <1>1, <1>2, <1>3, <1>4, <1>5, <1>6, <1>7, <1>8, <1>9, <1>10, <1>11 DEF Nod!Next, Nod!Step

(* A disconnect() that returned has left the Bus for good, and only one    *)
(* that asyncio cancelled leaves its node behind.                          *)
THEOREM DisconnectsLeave == Nod!Spec => []Nod!DisconnectLeaves
<1>1. Nod!Init => NodInv
  BY DEF Nod!Init, NodInv, Methods, NodPhases, Nod!Ended, Leaving
<1>2. NodInv => Nod!DisconnectLeaves
  BY DEF NodInv, Nod!DisconnectLeaves, Leaving
<1> QED
  BY <1>1, <1>2, NodStep, PTL DEF Nod!Spec

-----------------------------------------------------------------------------
(* Relay *)

RelEvent == [n : Nat \ {0}, type : Types]
RelPiece == [event : RelEvent, piece : Rel!Pieces]
RelItem  == [from : Members, line : Seq(RelPiece)]
RelChunk == [from : Members, event : RelEvent, id : Nat]

(* What the relay is given: no text is seen half written, and a driver     *)
(* without a line holds nothing that could be one.                         *)
RelAssumption == ~TornWrites /\ None \notin Seq(RelPiece)

RelType ==
  /\ file \in [Members -> Seq(RelPiece)] /\ exists \subseteq Members
  /\ stream \in {"none", "built", "spawned", "dropped"}
  /\ pos \in [Members -> Nat]
  /\ holding \in [Members -> Seq(RelPiece) \cup {None}]
  /\ chan \in Seq(RelItem)
  /\ yielded \in Seq(RelChunk)
  /\ eventSeq = Len(yielded)

(* A file is text after text, numbered, each with its newline but for the  *)
(* last.                                                                   *)
FileShape(f) ==
  /\ f \in Seq(RelPiece)
  /\ \A i \in 1 .. Len(f) :
       /\ f[i].piece = "head" => i = 3 * f[i].event.n - 2
       /\ f[i].piece = "tail" => i = 3 * f[i].event.n - 1
       /\ f[i].piece = "newline" => i = 3 * f[i].event.n
  /\ \A i \in 1 .. Len(f) : f[i].piece # "head" => f[i - 1].event = f[i].event
  /\ f # <<>> => f[Len(f)].piece # "head"

FileInv(m) ==
  /\ FileShape(file[m])
  /\ pos[m] <= Len(file[m])
  /\ pos[m] > 0 => file[m][pos[m]].piece # "head"

(* The line is text n of the file, with its newline or without, or a       *)
(* newline that was left over.                                             *)
IsText(m, line, n) ==
  /\ n \in Nat \ {0} /\ 3 * n - 1 <= pos[m]
  /\ Len(line) \in {2, 3}
  /\ line[1] = file[m][3 * n - 2] /\ line[2] = file[m][3 * n - 1]
  /\ Len(line) = 3 => line[3].piece = "newline"

LineInv(m, line) ==
  (Len(line) = 1 /\ line[1].piece = "newline") \/ \E n \in Nat : IsText(m, line, n)

(* Text n of m's file is in the channel at i, is held by m's driver, was   *)
(* given to Python.                                                        *)
InChan(m, i, n) == i \in 1 .. Len(chan) /\ chan[i].from = m /\ IsText(m, chan[i].line, n)
InHand(m, n) == holding[m] # None /\ IsText(m, holding[m], n)
Given(m, n) == \E i \in 1 .. Len(yielded) : yielded[i].from = m /\ yielded[i].event.n = n

LinesInv ==
  /\ \A m \in Members : holding[m] # None => LineInv(m, holding[m])
  /\ \A i \in 1 .. Len(chan) : LineInv(chan[i].from, chan[i].line)

(* What a driver has read and Python wants is given, queued or held ...    *)
NoneLost ==
  stream # "dropped" =>
    \A m \in Members, n \in Nat \ {0} :
      3 * n - 1 <= pos[m] /\ file[m][3 * n - 2].event.type \in Wanted =>
        Given(m, n) \/ InHand(m, n) \/ \E i \in 1 .. Len(chan) : InChan(m, i, n)

(* ... in the order of the file.                                           *)
InOrder ==
  /\ \A i \in 1 .. Len(yielded) : 3 * yielded[i].event.n - 1 <= pos[yielded[i].from]
  /\ \A m \in Members, i, j, k, n \in Nat : InChan(m, i, k) /\ InChan(m, j, n) /\ i < j => k < n
  /\ \A m \in Members, i, k, n \in Nat : InChan(m, i, k) /\ Given(m, n) => n < k
  /\ \A m \in Members, i, k, n \in Nat : InHand(m, k) /\ (InChan(m, i, n) \/ Given(m, n)) => n < k

RelInv ==
  /\ RelType /\ \A m \in Members : FileInv(m)
  /\ LinesInv /\ NoneLost /\ InOrder /\ Rel!RelayExact

(* The three pieces of text n.                                             *)
LEMMA TextPieces ==
  ASSUME NEW f, FileShape(f), NEW n \in Nat \ {0}, 3 * n - 2 <= Len(f)
  PROVE  /\ f[3 * n - 2].piece = "head" /\ f[3 * n - 2].event.n = n
         /\ 3 * n - 1 <= Len(f) /\ f[3 * n - 1] = [event |-> f[3 * n - 2].event, piece |-> "tail"]
         /\ 3 * n <= Len(f) => f[3 * n] = [event |-> f[3 * n - 2].event, piece |-> "newline"]
<1>1. \A i \in 1 .. Len(f) : f[i] \in RelPiece
  BY DEF FileShape
<1>2. \A i \in 1 .. Len(f) : f[i].event.n \in Nat /\ f[i].piece \in {"head", "tail", "newline"}
  BY <1>1 DEF RelPiece, RelEvent, Rel!Pieces
<1>a. \A i \in 1 .. Len(f) : f[i] = [event |-> f[i].event, piece |-> f[i].piece]
  BY <1>1 DEF RelPiece
<1>b. Len(f) \in Nat
  BY DEF FileShape
<1>c. ASSUME NEW i \in 1 .. Len(f), NEW k \in Int
      PROVE  /\ i = 3 * k - 2 => f[i].piece = "head" /\ f[i].event.n = k
             /\ i = 3 * k - 1 => f[i].piece = "tail"
             /\ i = 3 * k => f[i].piece = "newline"
  <2>1. /\ f[i].piece = "head" => i = 3 * f[i].event.n - 2
        /\ f[i].piece = "tail" => i = 3 * f[i].event.n - 1
        /\ f[i].piece = "newline" => i = 3 * f[i].event.n
    BY DEF FileShape
  <2>2. f[i].event.n \in Int /\ i \in Int /\ f[i].piece \in {"head", "tail", "newline"}
    BY <1>2, <1>b
  <2>3. \A x, y \in Int : 3 * x - 1 # 3 * y - 2 /\ 3 * x # 3 * y - 1 /\ 3 * x # 3 * y - 2
    OBVIOUS
  <2>4. \A x, y \in Int : 3 * x - 2 = 3 * y - 2 => x = y
    OBVIOUS
  <2>5. CASE f[i].piece = "head"
    BY <2>1, <2>2, <2>3, <2>4, <2>5
  <2>6. CASE f[i].piece = "tail"
    BY <2>1, <2>2, <2>3, <2>4, <2>6
  <2>7. CASE f[i].piece = "newline"
    BY <2>1, <2>2, <2>3, <2>4, <2>7
  <2> QED
    BY <2>2, <2>5, <2>6, <2>7
<1>3. f[3 * n - 2].piece = "head" /\ f[3 * n - 2].event.n = n
  BY <1>b, <1>c
<1>4. 3 * n - 1 <= Len(f)
  BY <1>3 DEF FileShape
<1>5. f[3 * n - 1].piece = "tail"
  BY <1>b, <1>4, <1>c, SMTT(30)
<1>6. f[3 * n - 1].event = f[3 * n - 2].event
  BY <1>4, <1>5 DEF FileShape
<1>7. f[3 * n - 1] = [event |-> f[3 * n - 2].event, piece |-> "tail"]
  BY <1>a, <1>b, <1>4, <1>5, <1>6
<1>8. ASSUME 3 * n <= Len(f) PROVE f[3 * n] = [event |-> f[3 * n - 2].event, piece |-> "newline"]
  <2>0. 3 * n \in 1 .. Len(f) /\ n \in Int
    BY <1>8, <1>b
  <2>1. f[3 * n].piece = "newline"
    BY <2>0, <1>c
  <2>2. f[3 * n].event = f[3 * n - 1].event
    BY <1>8, <2>1 DEF FileShape
  <2> QED
    BY <1>a, <1>b, <1>6, <1>8, <2>1, <2>2
<1> QED
  BY <1>3, <1>4, <1>7, <1>8

(* A place after no head is the end of text n or of its newline, so the    *)
(* next piece starts a text or is that newline.                            *)
LEMMA PlaceIs ==
  ASSUME NEW f, FileShape(f), NEW i \in 1 .. Len(f)
  PROVE  LET n == f[i].event.n IN
         /\ n \in Nat \ {0}
         /\ f[i].piece = "head" => i = 3 * n - 2
         /\ f[i].piece = "tail" => i = 3 * n - 1
         /\ f[i].piece = "newline" => i = 3 * n
         /\ f[i].event = f[3 * n - 2].event /\ 3 * n - 1 <= Len(f)
<1> DEFINE n == f[i].event.n
<1>1. f[i] \in RelPiece
  BY DEF FileShape
<1>2. n \in Nat \ {0} /\ f[i].piece \in {"head", "tail", "newline"} /\ Len(f) \in Nat
  BY <1>1 DEF RelPiece, RelEvent, Rel!Pieces, FileShape
<1>3. f[i].piece \in {"head", "tail", "newline"} /\ i \in {3 * n - 2, 3 * n - 1, 3 * n}
  BY <1>2 DEF FileShape
<1>4. 3 * n - 2 <= Len(f)
  BY <1>2, <1>3
<1>5. /\ 3 * n - 1 <= Len(f) /\ f[3 * n - 1] = [event |-> f[3 * n - 2].event, piece |-> "tail"]
      /\ 3 * n <= Len(f) => f[3 * n] = [event |-> f[3 * n - 2].event, piece |-> "newline"]
  BY <1>2, <1>4, TextPieces
<1>6. f[i].event = f[3 * n - 2].event
  <2>1. CASE i = 3 * n - 2
    BY <2>1
  <2>2. CASE i = 3 * n - 1
    BY <1>5, <2>2
  <2>3. CASE i = 3 * n
    <3>1. 3 * n <= Len(f)
      BY <2>3
    <3> QED
      BY <1>5, <2>3, <3>1
  <2> QED
    BY <1>3, <2>1, <2>2, <2>3
<1> QED
  BY <1>1, <1>2, <1>5, <1>6 DEF FileShape

(* The wanted events of a file are its texts, by number.                   *)
WantedIn(f) == {f[i].event : i \in {j \in DOMAIN f : f[j].event.type \in Wanted}}

LEMMA WantedIs ==
  ASSUME NEW f, FileShape(f), NEW e
  PROVE  e \in WantedIn(f) <=> /\ e.n \in Nat \ {0} /\ 3 * e.n - 1 <= Len(f)
                               /\ e = f[3 * e.n - 2].event /\ e.type \in Wanted
<1>1. DOMAIN f = 1 .. Len(f) /\ Len(f) \in Nat
  BY DEF FileShape
<1>2. ASSUME e \in WantedIn(f)
      PROVE  e.n \in Nat \ {0} /\ 3 * e.n - 1 <= Len(f) /\ e = f[3 * e.n - 2].event /\ e.type \in Wanted
  <2>1. PICK i \in 1 .. Len(f) : e = f[i].event /\ e.type \in Wanted
    BY <1>1, <1>2 DEF WantedIn
  <2> QED
    BY <2>1, PlaceIs
<1>3. ASSUME e.n \in Nat \ {0}, 3 * e.n - 1 <= Len(f), e = f[3 * e.n - 2].event, e.type \in Wanted
      PROVE  e \in WantedIn(f)
  <2>1. 3 * e.n - 2 \in 1 .. Len(f)
    BY <1>1, <1>3
  <2> QED
    BY <1>1, <1>3, <2>1 DEF WantedIn
<1> QED
  BY <1>2, <1>3

LEMMA RelTypes ==
  ASSUME RelType
  PROVE  /\ Len(chan) \in Nat /\ DOMAIN chan = 1 .. Len(chan)
         /\ Len(yielded) \in Nat /\ DOMAIN yielded = 1 .. Len(yielded)
         /\ \A i \in 1 .. Len(chan) : chan[i].from \in Members /\ chan[i].line \in Seq(RelPiece)
         /\ \A i \in 1 .. Len(yielded) : yielded[i].from \in Members /\ yielded[i].event.n \in Nat \ {0}
<1>1. chan \in Seq(RelItem) /\ yielded \in Seq(RelChunk)
  BY DEF RelType
<1>2. /\ \A i \in 1 .. Len(chan) : chan[i] \in RelItem
      /\ \A i \in 1 .. Len(yielded) : yielded[i] \in RelChunk
  BY <1>1
<1>3. \A i \in 1 .. Len(yielded) : yielded[i].from \in Members /\ yielded[i].event \in RelEvent
  BY <1>2 DEF RelChunk
<1>4. \A x \in RelEvent : x.n \in Nat \ {0}
  BY DEF RelEvent
<1>5. \A i \in 1 .. Len(chan) : chan[i].from \in Members /\ chan[i].line \in Seq(RelPiece)
  BY <1>2 DEF RelItem
<1> QED
  BY <1>1, <1>3, <1>4, <1>5

LEMMA ExactStays ==
  ASSUME Rel!RelayExact, file' = file, yielded' = yielded
  PROVE  Rel!RelayExact'
<1>1. \A m : Rel!Written(m)' = Rel!Written(m)
  BY DEF Rel!Written
<1>2. \A m, k : Rel!YieldedOf(m, k)' = Rel!YieldedOf(m, k)
  BY DEF Rel!YieldedOf
<1> QED
  BY <1>1, <1>2 DEF Rel!RelayExact

LEMMA RelInit == ASSUME Rel!Init, RelAssumption PROVE RelInv
<1>1. RelType /\ \A m \in Members : FileInv(m)
  BY DEF Rel!Init, RelType, FileInv, FileShape
<1>2. LinesInv /\ NoneLost /\ InOrder
  BY DEF Rel!Init, LinesInv, NoneLost, InOrder, InChan, InHand, Given
<1>3. Rel!RelayExact
  BY DEF Rel!Init, Rel!RelayExact
<1> QED BY <1>1, <1>2, <1>3 DEF RelInv

(* A file grows: what was read and given stays what it is.                 *)
LEMMA RelGrows ==
  ASSUME RelInv, NEW m \in Members, NEW g, FileShape(g),
         Len(file[m]) <= Len(g), \A i \in 1 .. Len(file[m]) : g[i] = file[m][i],
         file' = [file EXCEPT ![m] = g], exists' \subseteq Members, UNCHANGED Rel!relayVars
  PROVE  RelInv'
<1>1. /\ stream' = stream /\ pos' = pos /\ holding' = holding /\ chan' = chan
      /\ eventSeq' = eventSeq /\ yielded' = yielded
  BY DEF Rel!relayVars
<1>2. /\ file \in [Members -> Seq(RelPiece)] /\ file'[m] = g /\ pos \in [Members -> Nat]
      /\ \A k \in Members : k # m => file'[k] = file[k]
  BY DEF RelInv, RelType
<1>3. \A k \in Members : FileShape(file[k]) /\ FileShape(file[k])' /\ pos[k] <= Len(file[k])
  BY <1>2 DEF RelInv, FileInv
<1>4. \A k \in Members : /\ Len(file[k]) <= Len(file'[k])
                         /\ \A i \in 1 .. Len(file[k]) : file'[k][i] = file[k][i]
  BY <1>2
<1>5. RelType'
  BY <1>1, <1>2, <1>3 DEF RelInv, RelType, FileShape
<1>6. \A k \in Members : FileInv(k)'
  BY <1>1, <1>2, <1>3, <1>4 DEF RelInv, FileInv
<1>7. ASSUME NEW k \in Members, NEW n \in Nat \ {0}, 3 * n - 1 <= pos[k]
      PROVE  file'[k][3 * n - 2] = file[k][3 * n - 2] /\ file'[k][3 * n - 1] = file[k][3 * n - 1]
  BY <1>2, <1>3, <1>4, <1>7
<1>8. \A k \in Members : \A line, n : IsText(k, line, n)' <=> IsText(k, line, n)
  BY <1>1, <1>7 DEF IsText
<1>9. \A k \in Members : \A i, n : /\ InChan(k, i, n)' <=> InChan(k, i, n)
                                   /\ InHand(k, n)' <=> InHand(k, n)
                                   /\ Given(k, n)' <=> Given(k, n)
  BY <1>1, <1>8 DEF InChan, InHand, Given
<1>10. \A k \in Members : \A line : LineInv(k, line)' <=> LineInv(k, line)
  BY <1>8 DEF LineInv
<1>11. LinesInv'
  <2>1. \A i \in 1 .. Len(chan) : chan[i].from \in Members
    BY RelTypes DEF RelInv
  <2> QED
    BY <1>1, <1>10, <2>1 DEF RelInv, LinesInv
<1>12. NoneLost'
  BY <1>1, <1>7, <1>9 DEF RelInv, NoneLost
<1>13. InOrder'
  BY <1>1, <1>9 DEF RelInv, InOrder
(* New events come after the old ones.                                     *)
<1>14. ASSUME NEW k \in Members, NEW e, e.n \in Nat, 3 * e.n - 1 <= pos[k]
       PROVE  /\ {x \in WantedIn(file'[k]) : x.n < e.n} = {x \in WantedIn(file[k]) : x.n < e.n}
              /\ e \in WantedIn(file[k]) => e \in WantedIn(file'[k])
  <2>1. \A x : /\ x \in WantedIn(file[k]) <=> /\ x.n \in Nat \ {0} /\ 3 * x.n - 1 <= Len(file[k])
                                              /\ x = file[k][3 * x.n - 2].event /\ x.type \in Wanted
               /\ x \in WantedIn(file'[k]) <=> /\ x.n \in Nat \ {0} /\ 3 * x.n - 1 <= Len(file'[k])
                                               /\ x = file'[k][3 * x.n - 2].event /\ x.type \in Wanted
    BY <1>3, WantedIs
  <2>2. \A n \in Nat \ {0} : n <= e.n => 3 * n - 1 <= pos[k]
    BY <1>2, <1>14
  <2>3. Len(file[k]) \in Nat /\ Len(file'[k]) \in Nat /\ pos[k] \in Nat /\ pos[k] <= Len(file[k])
    BY <1>2, <1>3 DEF FileShape
  <2>4. ASSUME NEW x, x.n \in Nat \ {0}, x.n <= e.n
        PROVE  x \in WantedIn(file'[k]) <=> x \in WantedIn(file[k])
    <3>1. 3 * x.n - 1 <= pos[k] /\ 3 * x.n - 1 <= Len(file[k]) /\ 3 * x.n - 1 <= Len(file'[k])
      BY <1>4, <2>2, <2>3, <2>4
    <3>2. file'[k][3 * x.n - 2] = file[k][3 * x.n - 2]
      BY <1>7, <2>4, <3>1
    <3> QED
      BY <2>1, <2>4, <3>1, <3>2
  <2>5. \A x : x \in WantedIn(file[k]) \/ x \in WantedIn(file'[k]) => x.n \in Nat \ {0}
    BY <2>1
  <2>6. e \in WantedIn(file[k]) => e \in WantedIn(file'[k])
    BY <1>14, <2>4, <2>5
  <2>7. \A x : x.n < e.n /\ x.n \in Nat => x.n <= e.n
    BY <1>14
  <2> QED
    BY <2>4, <2>5, <2>6, <2>7
<1>15. Rel!RelayExact'
  <2>1. ASSUME NEW i \in 1 .. Len(yielded)
        PROVE  LET y == yielded[i] IN
               /\ y.id = i /\ y.event \in WantedIn(file'[y.from])
               /\ Rel!YieldedOf(y.from, i - 1) = {e \in WantedIn(file'[y.from]) : e.n < y.event.n}
    <3>1. /\ yielded[i].from \in Members /\ yielded[i].event.n \in Nat
          /\ 3 * yielded[i].event.n - 1 <= pos[yielded[i].from]
      BY RelTypes DEF RelInv, InOrder
    <3>2. LET y == yielded[i] IN
          /\ y.id = i /\ y.event \in WantedIn(file[y.from])
          /\ Rel!YieldedOf(y.from, i - 1) = {e \in WantedIn(file[y.from]) : e.n < y.event.n}
      BY RelTypes DEF RelInv, Rel!RelayExact, Rel!Written, WantedIn
    <3> QED
      BY <1>14, <3>1, <3>2
  <2>2. \A k, i : Rel!YieldedOf(k, i)' = Rel!YieldedOf(k, i) /\ Rel!Written(k)' = WantedIn(file'[k])
    BY <1>1 DEF Rel!YieldedOf, Rel!Written, WantedIn
  <2>3. DOMAIN yielded' = 1 .. Len(yielded) /\ yielded' = yielded
    BY <1>1, RelTypes DEF RelInv
  <2> QED
    BY <2>1, <2>2, <2>3 DEF Rel!RelayExact
<1> QED
  BY <1>5, <1>6, <1>11, <1>12, <1>13, <1>15 DEF RelInv

(* The store's appends keep the shape of a file.                           *)
LEMMA AppendText ==
  ASSUME RelInv, RelAssumption, NEW m \in Members, Rel!WriteText(m)
  PROVE  RelInv'
<1> DEFINE f == file[m]
           k == Len(f)
           c == Rel!Appended(m)
<1>1. FileShape(f) /\ f \in Seq(RelPiece) /\ k \in Nat
  BY DEF RelInv, FileInv, FileShape
<1>2. PICK t \in Types : file' = [file EXCEPT ![m] =
        f \o <<Rel!Piece(Rel!Event(c + 1, t), "head"), Rel!Piece(Rel!Event(c + 1, t), "tail")>>]
  BY DEF Rel!WriteText, RelAssumption
<1> DEFINE e == Rel!Event(c + 1, t)
           h == Rel!Piece(e, "head")
           l == Rel!Piece(e, "tail")
           g == f \o <<h, l>>
<1>3. c \in Nat /\ k = 3 * c
  <2>1. CASE f = <<>>
    BY <2>1 DEF Rel!Appended
  <2>2. CASE f # <<>>
    <3>1. k \in 1 .. k
      BY <1>1, <2>2
    <3>2. f[k].piece = "newline" /\ c = f[k].event.n
      BY <2>2 DEF Rel!WriteText, Rel!Unfinished, Rel!Appended, Rel!Last
    <3> QED
      BY <1>1, <3>1, <3>2, PlaceIs
  <2> QED
    BY <2>1, <2>2
<1>4. /\ h.event = e /\ h.piece = "head" /\ l.event = e /\ l.piece = "tail" /\ e.n = c + 1
      /\ h \in RelPiece /\ l \in RelPiece
  BY <1>3 DEF RelPiece, RelEvent, Rel!Piece, Rel!Event, Rel!Pieces
<1> HIDE DEF f, c, e, h, l
<1>5. /\ g \in Seq(RelPiece) /\ Len(g) = k + 2 /\ g[k + 1] = h /\ g[k + 2] = l
      /\ \A i \in 1 .. k : g[i] = f[i]
  BY <1>1, <1>4
<1> HIDE DEF g
<1>6. FileShape(g)
  <2>1. ASSUME NEW i \in 1 .. Len(g)
        PROVE  /\ g[i].piece = "head" => i = 3 * g[i].event.n - 2
               /\ g[i].piece = "tail" => i = 3 * g[i].event.n - 1
               /\ g[i].piece = "newline" => i = 3 * g[i].event.n
               /\ g[i].piece # "head" => g[i - 1].event = g[i].event
    <3>1. CASE i \in 1 .. k
      <4>1. f[i].piece # "head" => i - 1 \in 1 .. k
        <5>1. f[i].event.n \in Nat \ {0} /\ f[i] \in RelPiece
          BY <1>1, <3>1, PlaceIs
        <5>2. f[i].piece \in {"head", "tail", "newline"}
          BY <5>1 DEF RelPiece, Rel!Pieces
        <5> QED
          BY <1>1, <3>1, <5>1, <5>2 DEF FileShape
      <4> QED
        BY <1>1, <1>5, <3>1, <4>1 DEF FileShape
    <3>2. CASE i = k + 1
      BY <1>3, <1>4, <1>5, <3>2
    <3>3. CASE i = k + 2
      BY <1>3, <1>4, <1>5, <3>3
    <3> QED
      BY <1>1, <1>5, <3>1, <3>2, <3>3
  <2>2. g[Len(g)].piece # "head"
    BY <1>4, <1>5
  <2> QED
    BY <1>5, <2>1, <2>2 DEF FileShape
<1>7. k <= Len(g)
  BY <1>1, <1>5
<1>8. file' = [file EXCEPT ![m] = g] /\ exists' \subseteq Members /\ UNCHANGED Rel!relayVars
  BY <1>2 DEF g, f, c, e, h, l, Rel!WriteText, RelInv, RelType
<1> QED
  BY <1>5, <1>6, <1>7, <1>8, RelGrows DEF f

LEMMA AppendNewline ==
  ASSUME RelInv, NEW m \in Members, Rel!WriteRest(m)
  PROVE  RelInv'
<1> DEFINE f == file[m]
           k == Len(f)
           x == Rel!Piece(f[k].event, "newline")
           g == Append(f, x)
<1>1. FileShape(f) /\ f \in Seq(RelPiece) /\ k \in Nat
  BY DEF RelInv, FileInv, FileShape
<1>2. f # <<>> /\ k \in 1 .. k /\ f[k].piece # "newline" /\ f[k] \in RelPiece
  BY <1>1 DEF Rel!WriteRest, Rel!Unfinished, Rel!Last
<1>3. f[k].piece = "tail"
  <2>1. f[k].piece # "head"
    BY <1>1, <1>2 DEF FileShape
  <2>2. f[k].piece \in {"head", "tail", "newline"}
    BY <1>2 DEF RelPiece, Rel!Pieces
  <2> QED
    BY <1>2, <2>1, <2>2
<1>4. file' = [file EXCEPT ![m] = g] /\ exists' \subseteq Members /\ UNCHANGED Rel!relayVars
  BY <1>3 DEF Rel!WriteRest, Rel!Last, RelInv, RelType
<1>5. k = 3 * f[k].event.n - 1 /\ f[k].event.n \in Nat
  BY <1>1, <1>2, <1>3, PlaceIs
<1>6. x.event = f[k].event /\ x.piece = "newline" /\ x \in RelPiece
  <2>1. f[k].event \in RelEvent
    BY <1>2 DEF RelPiece
  <2> QED
    BY <2>1 DEF RelPiece, Rel!Piece, Rel!Pieces
<1> HIDE DEF f, x
<1>7. g \in Seq(RelPiece) /\ Len(g) = k + 1 /\ g[k + 1] = x /\ \A i \in 1 .. k : g[i] = f[i]
  BY <1>1, <1>6
<1> HIDE DEF g
<1>8. FileShape(g)
  <2>1. ASSUME NEW i \in 1 .. Len(g)
        PROVE  /\ g[i].piece = "head" => i = 3 * g[i].event.n - 2
               /\ g[i].piece = "tail" => i = 3 * g[i].event.n - 1
               /\ g[i].piece = "newline" => i = 3 * g[i].event.n
               /\ g[i].piece # "head" => g[i - 1].event = g[i].event
    <3>1. CASE i \in 1 .. k
      <4>1. f[i].piece # "head" => i - 1 \in 1 .. k
        <5>1. f[i].event.n \in Nat \ {0} /\ f[i] \in RelPiece
          BY <1>1, <3>1, PlaceIs
        <5>2. f[i].piece \in {"head", "tail", "newline"}
          BY <5>1 DEF RelPiece, Rel!Pieces
        <5> QED
          BY <1>1, <3>1, <5>1, <5>2 DEF FileShape
      <4> QED
        BY <1>1, <1>7, <3>1, <4>1 DEF FileShape
    <3>2. CASE i = k + 1
      <4>1. g[i] = x /\ i - 1 = k /\ g[i - 1] = f[k]
        BY <1>1, <1>2, <1>7, <3>2
      <4>2. g[i].event = f[k].event /\ g[i].piece = "newline" /\ g[i - 1].event = g[i].event
        BY <1>6, <4>1
      <4>3. i = 3 * g[i].event.n
        BY <1>1, <1>5, <3>2, <4>2, SMTT(30)
      <4> QED
        BY <4>2, <4>3
    <3> QED
      BY <1>1, <1>7, <3>1, <3>2
  <2>2. g[Len(g)].piece # "head"
    BY <1>6, <1>7
  <2> QED
    BY <1>7, <2>1, <2>2 DEF FileShape
<1>9. k <= Len(g)
  BY <1>1, <1>7
<1> QED
  BY <1>4, <1>7, <1>8, <1>9, RelGrows DEF f

(* What a line is a text of.                                               *)
LEMMA TextNumber ==
  ASSUME NEW m, FileInv(m), pos[m] \in Nat, NEW line, NEW n, IsText(m, line, n)
  PROVE  /\ n = line[1].event.n /\ n \in Nat \ {0} /\ Rel!Parses(line)
         /\ line[1].event = file[m][3 * n - 2].event
<1>1. n \in Nat \ {0} /\ 3 * n - 2 <= Len(file[m]) /\ FileShape(file[m]) /\ Len(file[m]) \in Nat
  <2>1. FileShape(file[m]) /\ pos[m] <= Len(file[m])
    BY DEF FileInv
  <2>2. Len(file[m]) \in Nat
    BY <2>1 DEF FileShape
  <2>3. n \in Nat \ {0} /\ 3 * n - 1 <= pos[m]
    BY DEF IsText
  <2> QED
    BY <2>1, <2>2, <2>3
<1>2. line[1].piece = "head" /\ line[1].event.n = n /\ line[2].piece = "tail"
  <2>1. /\ file[m][3 * n - 2].piece = "head" /\ file[m][3 * n - 2].event.n = n
        /\ file[m][3 * n - 1] = [event |-> file[m][3 * n - 2].event, piece |-> "tail"]
    BY <1>1, TextPieces
  <2>2. line[1] = file[m][3 * n - 2] /\ line[2] = file[m][3 * n - 1]
    BY DEF IsText
  <2> QED
    BY <2>1, <2>2
<1>3. Rel!Parses(line)
  <2>1. CASE Len(line) = 2
    BY <1>2, <2>1 DEF Rel!Parses, Rel!Text, Rel!Last
  <2>2. CASE Len(line) = 3
    <3>1. Rel!Text(line) = SubSeq(line, 1, 2)
      BY <2>2 DEF Rel!Text, Rel!Last, Rel!Front, IsText
    <3>2. Len(SubSeq(line, 1, 2)) = 2 /\ SubSeq(line, 1, 2)[1] = line[1] /\ SubSeq(line, 1, 2)[2] = line[2]
      OBVIOUS
    <3> QED
      BY <1>2, <3>1, <3>2 DEF Rel!Parses
  <2> QED
    BY <2>1, <2>2 DEF IsText
<1> QED
  BY <1>1, <1>2, <1>3 DEF IsText

LEMMA Slice ==
  ASSUME NEW S, NEW s \in Seq(S), NEW a \in Nat, NEW b \in a + 1 .. Len(s)
  PROVE  /\ SubSeq(s, a + 1, b) \in Seq(S) /\ Len(SubSeq(s, a + 1, b)) = b - a
         /\ \A j \in 1 .. b - a : SubSeq(s, a + 1, b)[j] = s[a + j]
<1>1. a + 1 \in Int /\ b \in Int /\ Len(s) \in Nat
  OBVIOUS
<1>2. \A i \in a + 1 .. b : s[i] \in S
  BY <1>1
<1>3. /\ SubSeq(s, a + 1, b) \in Seq(S)
      /\ Len(SubSeq(s, a + 1, b)) = IF a + 1 <= b THEN b - (a + 1) + 1 ELSE 0
      /\ \A i \in 1 .. b - (a + 1) + 1 : SubSeq(s, a + 1, b)[i] = s[a + 1 + i - 1]
  BY <1>1, <1>2, SubSeqProperties
<1>4. a + 1 <= b /\ b - (a + 1) + 1 = b - a /\ \A j \in 1 .. b - a : a + 1 + j - 1 = a + j
  BY <1>1
<1> QED
  BY <1>3, <1>4

(* read_line: from the end of a text its newline, from anywhere else the   *)
(* next text with as much of it as there is.                               *)
LEMMA ReadLine ==
  ASSUME NEW m, FileInv(m), pos[m] \in Nat, pos[m] < Len(file[m])
  PROVE  LET p == pos[m]
             end == Rel!LineEnd(m)
             line == SubSeq(file[m], p + 1, end) IN
         /\ line \in Seq(RelPiece) /\ end \in p + 1 .. Len(file[m]) /\ file[m][end].piece # "head"
         /\ \/ /\ end = p + 1 /\ Len(line) = 1 /\ line[1].piece = "newline"
               /\ \E k \in Nat : end = 3 * k
            \/ \E n \in Nat \ {0} : /\ p = 3 * n - 3 /\ end \in {3 * n - 1, 3 * n}
                                    /\ Len(line) \in {2, 3}
                                    /\ line[1] = file[m][3 * n - 2] /\ line[2] = file[m][3 * n - 1]
                                    /\ Len(line) = 3 => line[3].piece = "newline"
<1> DEFINE f == file[m]
           p == pos[m]
           ends == {i \in p + 1 .. Len(f) : f[i].piece = "newline"}
<1>1. FileShape(f) /\ f \in Seq(RelPiece) /\ Len(f) \in Nat /\ p \in Nat
  BY DEF FileInv, FileShape
<1>2. \A i \in p + 1 .. Len(f) :
        /\ SubSeq(f, p + 1, i) \in Seq(RelPiece) /\ Len(SubSeq(f, p + 1, i)) = i - p
        /\ \A j \in 1 .. i - p : SubSeq(f, p + 1, i)[j] = f[p + j]
  BY <1>1, Slice
<1>3. Rel!LineEnd(m) = IF ends = {} THEN Len(f) ELSE CHOOSE i \in ends : \A j \in ends : i <= j
  BY DEF Rel!LineEnd
<1>4. CASE p > 0 /\ f[p].piece = "tail"
  <2> DEFINE k == f[p].event.n
  <2>1. p \in 1 .. Len(f) /\ k \in Nat \ {0} /\ p = 3 * k - 1 /\ 3 * k <= Len(f) /\ 3 * k - 2 <= Len(f)
    <3>1. p \in 1 .. Len(f) /\ p < Len(f)
      BY <1>1, <1>4
    <3>2. k \in Nat \ {0} /\ p = 3 * k - 1
      BY <1>1, <1>4, <3>1, PlaceIs
    <3> QED
      BY <1>1, <3>1, <3>2, SMTT(30)
  <2> HIDE DEF k
  <2>2. f[p + 1].piece = "newline"
    <3>1. f[3 * k] = [event |-> f[3 * k - 2].event, piece |-> "newline"]
      BY <1>1, <2>1, TextPieces
    <3>2. p + 1 = 3 * k
      BY <2>1
    <3> QED
      BY <3>1, <3>2
  <2>3. p + 1 \in ends /\ \A j \in ends : p + 1 <= j
    <3>1. p + 1 \in p + 1 .. Len(f)
      BY <1>1, <2>1
    <3>2. p + 1 \in ends
      BY <2>2, <3>1
    <3>3. \A j \in ends : j \in p + 1 .. Len(f)
      OBVIOUS
    <3> QED
      BY <1>1, <3>2, <3>3
  <2> HIDE DEF ends
  <2>4. Rel!LineEnd(m) = p + 1
    <3>1. \A j \in ends : j \in Int
      BY <1>1 DEF ends
    <3> QED
      BY <1>1, <1>3, <2>3, <3>1
  <2>5. p + 1 \in p + 1 .. Len(f) /\ p + 1 - p = 1 /\ p + 1 = 3 * k /\ 1 \in 1 .. 1
    BY <1>1, <2>1
  <2>6. /\ SubSeq(f, p + 1, p + 1) \in Seq(RelPiece) /\ Len(SubSeq(f, p + 1, p + 1)) = 1
        /\ SubSeq(f, p + 1, p + 1)[1] = f[p + 1]
    <3>1. /\ SubSeq(f, p + 1, p + 1) \in Seq(RelPiece) /\ Len(SubSeq(f, p + 1, p + 1)) = p + 1 - p
          /\ \A j \in 1 .. p + 1 - p : SubSeq(f, p + 1, p + 1)[j] = f[p + j]
      <4> HIDE DEF f, p
      <4> QED
        BY <1>1, <2>5, Slice
    <3> QED
      BY <2>5, <3>1
  <2>7. f[p + 1].piece # "head"
    BY <2>2
  <2> QED
    BY <2>1, <2>2, <2>4, <2>5, <2>6, <2>7
<1>5. CASE ~(p > 0 /\ f[p].piece = "tail")
  <2>1. PICK n \in Nat \ {0} : p = 3 * n - 3
    <3>1. CASE p = 0
      <4>1. p = 3 * 1 - 3
        BY <3>1
      <4> QED
        BY <4>1
    <3>2. CASE p > 0
      <4>1. p \in 1 .. Len(f) /\ f[p] \in RelPiece /\ f[p].piece # "head"
        BY <1>1, <3>2 DEF FileInv
      <4>2. f[p].piece \in {"head", "tail", "newline"}
        BY <4>1 DEF RelPiece, Rel!Pieces
      <4>3. f[p].piece = "newline"
        BY <1>5, <3>2, <4>1, <4>2
      <4>4. f[p].event.n \in Nat /\ p = 3 * f[p].event.n
        BY <1>1, <4>1, <4>3, PlaceIs
      <4>5. f[p].event.n + 1 \in Nat \ {0} /\ p = 3 * (f[p].event.n + 1) - 3
        <5> DEFINE z == f[p].event.n
        <5>1. z \in Nat /\ p = 3 * z
          BY <4>4
        <5> HIDE DEF z
        <5>2. z + 1 \in Nat \ {0} /\ p = 3 * (z + 1) - 3
          BY <1>1, <5>1
        <5> QED
          BY <5>2 DEF z
      <4> QED
        BY <4>5
    <3> QED
      BY <1>1, <3>1, <3>2
  <2>2. /\ f[3 * n - 2].piece = "head" /\ 3 * n - 1 <= Len(f) /\ f[3 * n - 1].piece = "tail"
        /\ 3 * n <= Len(f) => f[3 * n].piece = "newline"
    <3>1. 3 * n - 2 <= Len(f)
      BY <1>1, <2>1
    <3> QED
      <4>1. /\ f[3 * n - 2].piece = "head" /\ 3 * n - 1 <= Len(f)
            /\ f[3 * n - 1] = [event |-> f[3 * n - 2].event, piece |-> "tail"]
            /\ 3 * n <= Len(f) => f[3 * n] = [event |-> f[3 * n - 2].event, piece |-> "newline"]
        BY <1>1, <3>1, TextPieces
      <4> QED
        BY <4>1
  <2>3. p + 1 = 3 * n - 2 /\ p + 2 = 3 * n - 1 /\ p + 3 = 3 * n
    BY <2>1
  <2>4. CASE 3 * n <= Len(f)
    <3>1. 3 * n \in ends /\ \A j \in ends : 3 * n <= j
      <4>1. 3 * n \in p + 1 .. Len(f) /\ f[3 * n].piece = "newline"
        BY <1>1, <2>1, <2>2, <2>4
      <4>2. ASSUME NEW j \in ends PROVE 3 * n <= j
        <5>1. j \in p + 1 .. Len(f) /\ f[j].piece = "newline"
          OBVIOUS
        <5>2. j # 3 * n - 2 /\ j # 3 * n - 1
          BY <2>2, <5>1
        <5> QED
          BY <1>1, <2>3, <5>1, <5>2
      <4> QED
        BY <4>1, <4>2
    <3> HIDE DEF ends
    <3>2. Rel!LineEnd(m) = 3 * n
      <4>1. \A j \in ends : j \in Int
        BY <1>1 DEF ends
      <4> QED
        BY <1>1, <1>3, <3>1, <4>1
    <3>3. 3 * n \in p + 1 .. Len(f) /\ 3 * n - p = 3
      BY <1>1, <2>1, <2>4
    <3> QED
      BY <1>1, <1>2, <2>1, <2>2, <2>3, <2>4, <3>2, <3>3
  <2>5. CASE ~(3 * n <= Len(f))
    <3>1. Len(f) = 3 * n - 1
      BY <1>1, <2>2, <2>5
    <3>2. ends = {}
      <4>1. ASSUME NEW j \in ends PROVE FALSE
        <5>1. j \in p + 1 .. Len(f) /\ f[j].piece = "newline"
          OBVIOUS
        <5>2. j = 3 * n - 2 \/ j = 3 * n - 1
          BY <1>1, <2>3, <3>1, <5>1
        <5> QED
          BY <2>2, <5>1, <5>2
      <4> QED
        BY <4>1
    <3>3. Rel!LineEnd(m) = 3 * n - 1
      BY <1>3, <3>1, <3>2
    <3>4. 3 * n - 1 \in p + 1 .. Len(f) /\ 3 * n - 1 - p = 2
      BY <1>1, <2>1, <3>1
    <3> QED
      BY <1>1, <1>2, <2>1, <2>2, <2>3, <3>3, <3>4
  <2> QED
    BY <2>4, <2>5
<1> QED
  BY <1>4, <1>5

LEMMA RelNextLine ==
  ASSUME RelInv, RelAssumption, NEW m \in Members, Rel!NextLine(m)
  PROVE  RelInv'
<1>0. PICK p, end, line : p = pos[m] /\ end = Rel!LineEnd(m) /\ line = SubSeq(file[m], p + 1, end)
  OBVIOUS
<1>1. /\ p = pos[m] /\ holding[m] = None /\ p < Len(file[m]) /\ p \in Nat /\ FileInv(m) /\ Len(file[m]) \in Nat
      /\ holding' = [holding EXCEPT ![m] = line] /\ pos' = [pos EXCEPT ![m] = end]
      /\ UNCHANGED <<file, exists, stream, tailed, chan, eventSeq, yielded>>
  <2>1. FileInv(m) /\ pos[m] \in Nat /\ Len(file[m]) \in Nat
    <3>1. FileInv(m) /\ pos[m] \in Nat
      BY DEF RelInv, RelType
    <3> QED
      BY <3>1 DEF FileInv, FileShape
  <2>2. /\ holding[m] = None /\ pos[m] < Len(file[m])
        /\ holding' = [holding EXCEPT ![m] = SubSeq(file[m], pos[m] + 1, Rel!LineEnd(m))]
        /\ pos' = [pos EXCEPT ![m] = Rel!LineEnd(m)]
        /\ UNCHANGED <<file, exists, stream, tailed, chan, eventSeq, yielded>>
    BY Zenon DEF Rel!NextLine
  <2> QED
    BY <1>0, <2>1, <2>2
<1>2. /\ line \in Seq(RelPiece) /\ end \in p + 1 .. Len(file[m]) /\ file[m][end].piece # "head"
      /\ \/ /\ end = p + 1 /\ Len(line) = 1 /\ line[1].piece = "newline"
            /\ \E k \in Nat : end = 3 * k
         \/ \E n \in Nat \ {0} : /\ p = 3 * n - 3 /\ end \in {3 * n - 1, 3 * n}
                                 /\ Len(line) \in {2, 3}
                                 /\ line[1] = file[m][3 * n - 2] /\ line[2] = file[m][3 * n - 1]
                                 /\ Len(line) = 3 => line[3].piece = "newline"
  BY <1>0, <1>1, ReadLine
<1>3. /\ pos \in [Members -> Nat] /\ holding \in [Members -> Seq(RelPiece) \cup {None}]
      /\ \A k \in Members : FileInv(k)
  BY DEF RelInv, RelType
<1>4. /\ pos' \in [Members -> Nat] /\ pos'[m] = end /\ \A k \in Members : pos[k] <= pos'[k]
      /\ \A k \in Members : k # m => pos'[k] = pos[k] /\ holding'[k] = holding[k]
      /\ holding'[m] = line /\ line # None
  BY <1>1, <1>2, <1>3 DEF RelAssumption
<1>5. RelType'
  <2>1. holding' \in [Members -> Seq(RelPiece) \cup {None}]
    BY <1>1, <1>2, <1>3
  <2> QED
    BY <1>1, <1>4, <2>1 DEF RelInv, RelType
<1>6. \A k \in Members : FileInv(k)'
  BY <1>1, <1>2, <1>3, <1>4 DEF FileInv
<1>7. \A k \in Members : \A l, n : IsText(k, l, n) => IsText(k, l, n)'
  BY <1>1, <1>3, <1>4 DEF IsText
<1>8. ASSUME NEW k \in Members, NEW l, LineInv(k, l), NEW n, IsText(k, l, n)'
      PROVE  IsText(k, l, n)
  <2>1. PICK j \in Nat : IsText(k, l, j)
    <3>1. Len(l) # 1
      BY <1>8 DEF IsText
    <3> QED
      BY <1>8, <3>1 DEF LineInv
  <2>2. j = l[1].event.n
    BY <1>3, <2>1, TextNumber
  <2>3. l[1].event = file[k][3 * n - 2].event /\ n \in Nat \ {0} /\ 3 * n - 1 <= Len(file[k])
    <3>1. 3 * n - 1 <= pos'[k] /\ pos'[k] <= Len(file[k]) /\ n \in Nat \ {0} /\ l[1] = file[k][3 * n - 2]
      BY <1>1, <1>6, <1>8 DEF IsText, FileInv
    <3> QED
      BY <1>3, <1>4, <3>1 DEF FileInv, FileShape
  <2>4. file[k][3 * n - 2].event.n = n
    <3>1. FileShape(file[k]) /\ 3 * n - 2 <= Len(file[k])
      BY <1>3, <2>3 DEF FileInv, FileShape
    <3> QED
      BY <2>3, <3>1, TextPieces
  <2> QED
    BY <2>1, <2>2, <2>3, <2>4
<1>9. \A i \in 1 .. Len(chan) : chan[i].from \in Members /\ LineInv(chan[i].from, chan[i].line)
  BY RelTypes DEF RelInv, LinesInv
<1>10. \A k \in Members : \A i, n : InChan(k, i, n)' <=> InChan(k, i, n)
  BY <1>1, <1>7, <1>8, <1>9 DEF InChan
<1>11. \A k \in Members : \A n : Given(k, n)' <=> Given(k, n)
  BY <1>1 DEF Given
<1>12. \A k \in Members : \A n : k # m => (InHand(k, n)' <=> InHand(k, n))
  <2>1. \A k \in Members : holding[k] # None => LineInv(k, holding[k])
    BY DEF RelInv, LinesInv
  <2> QED
    BY <1>4, <1>7, <1>8, <2>1 DEF InHand
<1>13. \A k \in Members : \A n, i : InChan(k, i, n) => n \in Nat \ {0} /\ 3 * n - 1 <= pos[k]
  BY DEF InChan, IsText
<1>14. \A k \in Members : \A n : Given(k, n) => n \in Nat \ {0} /\ 3 * n - 1 <= pos[k]
  <2>1. \A i \in 1 .. Len(yielded) : /\ yielded[i].event.n \in Nat \ {0}
                                     /\ 3 * yielded[i].event.n - 1 <= pos[yielded[i].from]
    BY RelTypes DEF RelInv, InOrder
  <2> QED
    BY <2>1 DEF Given
(* Only the line just read is new, and it comes after all that was read.   *)
<1>15. /\ \A n : InHand(m, n)' => p = 3 * n - 3 /\ n \in Nat \ {0}
       /\ \A n \in Nat \ {0} : 3 * n - 1 <= end => 3 * n - 1 <= p \/ InHand(m, n)'
       /\ LineInv(m, line)'
  <2>1. CASE end = p + 1 /\ Len(line) = 1 /\ line[1].piece = "newline" /\ \E k \in Nat : end = 3 * k
    <3>1. \A n : ~InHand(m, n)'
      BY <1>4, <2>1 DEF InHand, IsText
    <3>2. \A n \in Nat \ {0} : 3 * n - 1 <= end => 3 * n - 1 <= p
      BY <1>1, <1>2, <2>1
    <3> QED
      BY <2>1, <3>1, <3>2 DEF LineInv
  <2>2. CASE \E n \in Nat \ {0} : /\ p = 3 * n - 3 /\ end \in {3 * n - 1, 3 * n}
                                  /\ Len(line) \in {2, 3}
                                  /\ line[1] = file[m][3 * n - 2] /\ line[2] = file[m][3 * n - 1]
                                  /\ Len(line) = 3 => line[3].piece = "newline"
    <3>1. PICK n \in Nat \ {0} : /\ p = 3 * n - 3 /\ end \in {3 * n - 1, 3 * n}
                                 /\ Len(line) \in {2, 3}
                                 /\ line[1] = file[m][3 * n - 2] /\ line[2] = file[m][3 * n - 1]
                                 /\ Len(line) = 3 => line[3].piece = "newline"
      BY <2>2
    <3>2. IsText(m, line, n)'
      <4>1. 3 * n - 1 <= pos'[m] /\ file' = file
        BY <1>1, <1>4, <3>1
      <4> QED
        BY <3>1, <4>1 DEF IsText
    <3>3. ASSUME NEW k, IsText(m, line, k)' PROVE k = n
      <4>1. k \in Nat \ {0} /\ 3 * k - 2 <= Len(file[m]) /\ line[1] = file[m][3 * k - 2]
        BY <1>1, <1>2, <1>4, <3>3 DEF IsText
      <4>2. FileShape(file[m]) /\ 3 * n - 2 <= Len(file[m])
        BY <1>1, <1>2, <3>1 DEF FileInv
      <4>3. file[m][3 * k - 2].event.n = k /\ file[m][3 * n - 2].event.n = n
        BY <4>1, <4>2, TextPieces
      <4> QED
        BY <3>1, <4>1, <4>3
    <3>4. InHand(m, n)' /\ \A k : InHand(m, k)' => k = n
      BY <1>4, <3>2, <3>3 DEF InHand
    <3>5. \A k \in Nat \ {0} : 3 * k - 1 <= end => 3 * k - 1 <= p \/ k = n
      BY <3>1
    <3> QED
      BY <3>1, <3>2, <3>4, <3>5 DEF LineInv
  <2> QED
    BY <1>2, <2>1, <2>2
<1>16. LinesInv'
  <2>1. \A k \in Members : \A l : LineInv(k, l) => LineInv(k, l)'
    BY <1>7 DEF LineInv
  <2> QED
    BY <1>1, <1>4, <1>9, <1>15, <2>1 DEF RelInv, LinesInv
<1>17. NoneLost'
  <2> SUFFICES ASSUME stream # "dropped", NEW k \in Members, NEW n \in Nat \ {0},
                      3 * n - 1 <= pos'[k], file[k][3 * n - 2].event.type \in Wanted
               PROVE  (Given(k, n) \/ InHand(k, n) \/ \E i \in 1 .. Len(chan) : InChan(k, i, n))'
    BY <1>1 DEF NoneLost
  <2>1. CASE 3 * n - 1 <= pos[k]
    <3>1. Given(k, n) \/ InHand(k, n) \/ \E i \in 1 .. Len(chan) : InChan(k, i, n)
      BY <2>1 DEF RelInv, NoneLost
    <3>2. k = m => ~InHand(k, n)
      BY <1>1 DEF InHand
    <3> QED
      BY <1>1, <1>10, <1>11, <1>12, <3>1, <3>2
  <2>2. CASE ~(3 * n - 1 <= pos[k])
    <3>1. k = m
      BY <1>4, <2>2
    <3>2. 3 * n - 1 <= end /\ ~(3 * n - 1 <= p)
      BY <1>1, <1>4, <2>2, <3>1
    <3> QED
      BY <1>15, <3>1, <3>2
  <2> QED
    BY <2>1, <2>2
<1>18. InOrder'
  <2>1. \A i \in 1 .. Len(yielded) : 3 * yielded[i].event.n - 1 <= pos'[yielded[i].from]
    <3>1. \A i \in 1 .. Len(yielded) :
            /\ yielded[i].event.n \in Nat /\ yielded[i].from \in Members
            /\ 3 * yielded[i].event.n - 1 <= pos[yielded[i].from]
      BY RelTypes DEF RelInv, InOrder
    <3> QED
      BY <1>3, <1>4, <3>1
  <2>2. ASSUME NEW k \in Members, NEW i \in Nat, NEW j \in Nat, NEW n \in Nat,
               InHand(k, j)', InChan(k, i, n) \/ Given(k, n)
        PROVE  n < j
    <3>1. CASE k # m
      BY <1>12, <2>2, <3>1 DEF RelInv, InOrder
    <3>2. CASE k = m
      BY <1>1, <1>13, <1>14, <1>15, <2>2, <3>2
    <3> QED
      BY <3>1, <3>2
  <2> QED
    BY <1>1, <1>10, <1>11, <2>1, <2>2 DEF RelInv, InOrder
<1>19. Rel!RelayExact'
  BY <1>1, ExactStays DEF RelInv
<1> QED
  BY <1>5, <1>6, <1>16, <1>17, <1>18, <1>19 DEF RelInv

LEMMA RelDriverSend ==
  ASSUME RelInv, RelAssumption, NEW m \in Members, Rel!DriverSend(m)
  PROVE  RelInv'
<1>0. PICK item, k : item = [from |-> m, line |-> holding[m]] /\ k = Len(chan)
  OBVIOUS
<1>1. /\ holding[m] # None /\ chan' = Append(chan, item)
      /\ holding' = [holding EXCEPT ![m] = None]
      /\ UNCHANGED <<file, exists, stream, tailed, pos, eventSeq, yielded>>
  BY <1>0 DEF Rel!DriverSend
<1>2. /\ holding \in [Members -> Seq(RelPiece) \cup {None}] /\ chan \in Seq(RelItem) /\ k \in Nat
      /\ item \in RelItem /\ item.from = m /\ item.line = holding[m] /\ k = Len(chan)
  BY <1>0, <1>1 DEF RelInv, RelType, RelItem
<1>3. /\ chan' \in Seq(RelItem) /\ Len(chan') = k + 1 /\ chan'[k + 1] = item
      /\ \A i \in 1 .. k : chan'[i] = chan[i]
  BY <1>1, <1>2
<1>4. /\ holding' \in [Members -> Seq(RelPiece) \cup {None}] /\ holding'[m] = None
      /\ \A j \in Members : j # m => holding'[j] = holding[j]
  BY <1>1, <1>2
<1>5. RelType' /\ \A j \in Members : FileInv(j)'
  BY <1>1, <1>3, <1>4 DEF RelInv, RelType, FileInv
<1>6. /\ \A j, l, n : IsText(j, l, n)' <=> IsText(j, l, n)
      /\ \A j, n : Given(j, n)' <=> Given(j, n)
  BY <1>1 DEF IsText, Given
<1>7. \A j, l : LineInv(j, l)' <=> LineInv(j, l)
  BY <1>6 DEF LineInv
<1>8. LinesInv'
  <2>1. LineInv(item.from, item.line)
    BY <1>1, <1>2 DEF RelInv, LinesInv
  <2>2. \A i \in 1 .. k + 1 : LineInv(chan'[i].from, chan'[i].line)
    BY <1>2, <1>3, <2>1 DEF RelInv, LinesInv
  <2>3. \A j \in Members : holding'[j] # None => LineInv(j, holding'[j])
    BY <1>4 DEF RelInv, LinesInv
  <2> QED
    BY <1>3, <1>7, <2>2, <2>3 DEF LinesInv
<1>9. \A j \in Members : \A n : InHand(j, n)' <=> j # m /\ InHand(j, n)
  BY <1>4, <1>6 DEF InHand
<1>10. \A j \in Members, i \in Nat : \A n :
         InChan(j, i, n)' <=> InChan(j, i, n) \/ (i = k + 1 /\ j = m /\ InHand(m, n))
  <2>1. ASSUME NEW j \in Members, NEW i \in 1 .. k, NEW n PROVE InChan(j, i, n)' <=> InChan(j, i, n)
    BY <1>2, <1>3, <1>6 DEF InChan
  <2>2. ASSUME NEW j \in Members, NEW n PROVE InChan(j, k + 1, n)' <=> j = m /\ InHand(m, n)
    BY <1>1, <1>2, <1>3, <1>6 DEF InChan, InHand
  <2>3. \A j, i, n : (InChan(j, i, n) => i \in 1 .. k) /\ (InChan(j, i, n)' => i \in 1 .. k + 1)
    BY <1>2, <1>3 DEF InChan
  <2> QED
    BY <1>2, <2>1, <2>2, <2>3
<1>11. NoneLost'
  <2> SUFFICES ASSUME stream # "dropped", NEW j \in Members, NEW n \in Nat \ {0},
                      3 * n - 1 <= pos[j], file[j][3 * n - 2].event.type \in Wanted
               PROVE  (Given(j, n) \/ InHand(j, n) \/ \E i \in 1 .. Len(chan) : InChan(j, i, n))'
    BY <1>1 DEF NoneLost
  <2>1. Given(j, n) \/ InHand(j, n) \/ \E i \in 1 .. k : InChan(j, i, n)
    BY <1>2 DEF RelInv, NoneLost
  <2>2. CASE InHand(j, n) /\ j = m
    <3>1. InChan(j, k + 1, n)' /\ k + 1 \in 1 .. Len(chan')
      BY <1>2, <1>3, <1>10, <2>2
    <3> QED
      BY <3>1
  <2>3. CASE \E i \in 1 .. k : InChan(j, i, n)
    BY <1>2, <1>3, <1>10, <2>3
  <2> QED
    BY <1>6, <1>9, <2>1, <2>2, <2>3
<1>12. InOrder'
  <2>1. \A i \in 1 .. Len(yielded) : 3 * yielded[i].event.n - 1 <= pos[yielded[i].from]
    BY DEF RelInv, InOrder
  <2>2. ASSUME NEW j \in Members, NEW a \in Nat, NEW b \in Nat, NEW x \in Nat, NEW y \in Nat,
               InChan(j, a, x)', InChan(j, b, y)', a < b
        PROVE  x < y
    <3>1. InChan(j, a, x)
      <4>1. b \in 1 .. k + 1
        BY <1>3, <2>2 DEF InChan
      <4>2. a # k + 1
        BY <1>2, <2>2, <4>1
      <4> QED
        BY <1>10, <2>2, <4>2
    <3> QED
      BY <1>10, <2>2, <3>1 DEF RelInv, InOrder
  <2>3. ASSUME NEW j \in Members, NEW a \in Nat, NEW x \in Nat, NEW y \in Nat, InChan(j, a, x)', Given(j, y)
        PROVE  y < x
    BY <1>10, <2>3 DEF RelInv, InOrder
  <2>4. ASSUME NEW j \in Members, NEW a \in Nat, NEW x \in Nat, NEW y \in Nat,
               InHand(j, x)', InChan(j, a, y)' \/ Given(j, y)
        PROVE  y < x
    BY <1>9, <1>10, <2>4 DEF RelInv, InOrder
  <2> QED
    BY <1>1, <1>6, <2>1, <2>2, <2>3, <2>4 DEF InOrder
<1>13. Rel!RelayExact'
  BY <1>1, ExactStays DEF RelInv
<1> QED
  BY <1>5, <1>8, <1>11, <1>12, <1>13 DEF RelInv

LEMMA RelAnext ==
  ASSUME RelInv, RelAssumption, Rel!Anext
  PROVE  RelInv'
<1> DEFINE it == chan[1]
           m == it.from
           k == Len(chan)
           wanted == Rel!Parses(it.line) /\ it.line[1].event.type \in Wanted
           e == it.line[1].event
           y == [from |-> m, event |-> e, id |-> eventSeq + 1]
<1>1. /\ chan # <<>> /\ chan' = Tail(chan)
      /\ IF wanted THEN eventSeq' = eventSeq + 1 /\ yielded' = Append(yielded, y)
         ELSE UNCHANGED <<eventSeq, yielded>>
      /\ UNCHANGED <<file, exists, stream, tailed, pos, holding>>
  <2>1. chan # <<>> /\ Head(chan) = it
    BY DEF Rel!Anext
  <2> QED
    BY <2>1 DEF Rel!Anext
<1>2. /\ chan \in Seq(RelItem) /\ k \in Nat \ {0} /\ m \in Members /\ it.line \in Seq(RelPiece)
      /\ yielded \in Seq(RelChunk) /\ eventSeq = Len(yielded) /\ Len(yielded) \in Nat
      /\ DOMAIN yielded = 1 .. Len(yielded)
      /\ \A j \in Members : FileInv(j) /\ pos[j] \in Nat
  <2>1. chan \in Seq(RelItem) /\ k \in Nat \ {0}
    BY <1>1 DEF RelInv, RelType
  <2> QED
    BY <2>1, RelTypes DEF RelInv, RelType
<1>3. /\ chan' \in Seq(RelItem) /\ Len(chan') = k - 1
      /\ \A i \in 1 .. k - 1 : chan'[i] = chan[i + 1]
  BY <1>1, <1>2
<1>4. /\ \A j, l, n : IsText(j, l, n)' <=> IsText(j, l, n)
      /\ \A j, n : InHand(j, n)' <=> InHand(j, n)
      /\ \A j, l : LineInv(j, l)' <=> LineInv(j, l)
      /\ \A j \in Members : FileInv(j)'
  BY <1>1, <1>2 DEF IsText, InHand, LineInv, FileInv
<1>5. \A j \in Members, i \in Nat : \A n : InChan(j, i, n)' <=> i > 0 /\ InChan(j, i + 1, n)
  BY <1>2, <1>3, <1>4 DEF InChan
<1>6. LinesInv'
  <2>1. ASSUME NEW i \in 1 .. k - 1 PROVE LineInv(chan'[i].from, chan'[i].line)
    <3>1. i + 1 \in 1 .. k /\ chan'[i] = chan[i + 1]
      BY <1>2, <1>3
    <3>2. LineInv(chan[i + 1].from, chan[i + 1].line)
      BY <3>1 DEF RelInv, LinesInv
    <3> QED
      BY <3>1, <3>2
  <2> QED
    BY <1>1, <1>3, <1>4, <2>1 DEF RelInv, LinesInv
(* A text at the head of the channel parses as the event it is.            *)
<1>7. ASSUME NEW n, InChan(m, 1, n)
      PROVE  /\ Rel!Parses(it.line) /\ n \in Nat \ {0} /\ e.n = n /\ 3 * n - 1 <= pos[m]
             /\ e = file[m][3 * n - 2].event
  BY <1>2, <1>7, TextNumber DEF InChan, IsText
<1>8. CASE ~wanted
  <2>1. yielded' = yielded /\ eventSeq' = eventSeq
    BY <1>1, <1>8
  <2>2. RelType'
    BY <1>1, <1>3, <2>1 DEF RelInv, RelType
  <2>3. \A j, n : Given(j, n)' <=> Given(j, n)
    BY <2>1 DEF Given
  <2>4. NoneLost'
    <3> SUFFICES ASSUME stream # "dropped", NEW j \in Members, NEW n \in Nat \ {0},
                        3 * n - 1 <= pos[j], file[j][3 * n - 2].event.type \in Wanted
                 PROVE  (Given(j, n) \/ InHand(j, n) \/ \E i \in 1 .. Len(chan) : InChan(j, i, n))'
      BY <1>1 DEF NoneLost
    <3>1. Given(j, n) \/ InHand(j, n) \/ \E i \in 1 .. k : InChan(j, i, n)
      BY DEF RelInv, NoneLost
    <3>2. ASSUME NEW i \in 1 .. k, InChan(j, i, n) PROVE \E a \in 1 .. k - 1 : InChan(j, a, n)'
      <4>1. i # 1
        <5>1. ASSUME i = 1 PROVE FALSE
          <6>1. j = m
            BY <3>2, <5>1 DEF InChan
          <6> QED
            BY <1>7, <1>8, <3>2, <5>1, <6>1
        <5> QED
          BY <5>1
      <4>2. i - 1 \in 1 .. k - 1 /\ InChan(j, (i - 1) + 1, n)
        BY <1>2, <3>2, <4>1
      <4>3. InChan(j, i - 1, n)'
        BY <1>2, <1>5, <4>2
      <4> QED
        BY <4>2, <4>3
    <3> QED
      BY <1>3, <1>4, <2>3, <3>1, <3>2
  <2>5. InOrder'
    <3>0. InOrder
      BY DEF RelInv
    <3>1. \A i \in 1 .. Len(yielded') : 3 * yielded'[i].event.n - 1 <= pos'[yielded'[i].from]
      BY <1>1, <2>1, <3>0 DEF InOrder
    <3>2. ASSUME NEW j \in Members, NEW a \in Nat, NEW b \in Nat, NEW c \in Nat, NEW n \in Nat,
                 InChan(j, a, c)', InChan(j, b, n)', a < b
          PROVE  c < n
      <4>1. InChan(j, a + 1, c) /\ InChan(j, b + 1, n) /\ a + 1 < b + 1
        BY <1>5, <3>2
      <4> QED
        BY <3>0, <4>1 DEF InOrder
    <3>3. ASSUME NEW j \in Members, NEW a \in Nat, NEW c \in Nat, NEW n \in Nat, InChan(j, a, c)', Given(j, n)'
          PROVE  n < c
      <4>1. InChan(j, a + 1, c) /\ Given(j, n)
        BY <1>5, <2>3, <3>3
      <4> QED
        BY <3>0, <4>1 DEF InOrder
    <3>4. ASSUME NEW j \in Members, NEW a \in Nat, NEW c \in Nat, NEW n \in Nat,
                 InHand(j, c)', InChan(j, a, n)' \/ Given(j, n)'
          PROVE  n < c
      <4>1. InHand(j, c) /\ (InChan(j, a + 1, n) \/ Given(j, n))
        BY <1>4, <1>5, <2>3, <3>4
      <4> QED
        BY <3>0, <4>1 DEF InOrder
    <3> QED
      BY <3>1, <3>2, <3>3, <3>4 DEF InOrder
  <2>6. Rel!RelayExact'
    BY <1>1, <2>1, ExactStays DEF RelInv
  <2> QED
    BY <1>4, <1>6, <2>2, <2>4, <2>5, <2>6 DEF RelInv
<1>9. CASE wanted
  <2>1. eventSeq' = eventSeq + 1 /\ yielded' = Append(yielded, y)
    BY <1>1, <1>9
  <2>2. PICK n : InChan(m, 1, n)
    <3>1. LineInv(m, it.line)
      BY <1>2 DEF RelInv, LinesInv
    <3>2. ~(Len(it.line) = 1 /\ it.line[1].piece = "newline")
      <4>1. ASSUME Len(it.line) = 1, it.line[1].piece = "newline" PROVE FALSE
        <5>1. Rel!Text(it.line) = SubSeq(it.line, 1, 0)
          BY <4>1 DEF Rel!Text, Rel!Last, Rel!Front
        <5>2. SubSeq(it.line, 1, 0) = <<>>
          BY SubSeqEmpty
        <5> QED
          BY <1>9, <5>1, <5>2 DEF Rel!Parses
      <4> QED
        BY <4>1
    <3>3. PICK q \in Nat : IsText(m, it.line, q)
      BY <3>1, <3>2 DEF LineInv
    <3>4. InChan(m, 1, q)
      BY <1>2, <3>3 DEF InChan
    <3> QED
      BY <3>4
  <2>3. /\ n \in Nat \ {0} /\ e.n = n /\ 3 * n - 1 <= pos[m] /\ e = file[m][3 * n - 2].event
        /\ e.type \in Wanted
    BY <1>7, <1>9, <2>2
  <2>4. y \in RelChunk /\ y.from = m /\ y.event = e /\ y.id = eventSeq + 1
    <3>1. it.line[1] \in RelPiece
      <4>1. Len(it.line) \in {2, 3}
        BY <2>2 DEF InChan, IsText
      <4> QED
        BY <1>2, <4>1
    <3>2. e \in RelEvent
      BY <3>1 DEF RelPiece
    <3> QED
      BY <1>2, <3>2 DEF RelChunk
  <2>m. PICK c, z, l : c = m /\ z = y /\ l = Len(yielded)
    OBVIOUS
  <2> HIDE DEF it, m, e, y, wanted
  <2>5. /\ yielded' \in Seq(RelChunk) /\ Len(yielded') = l + 1 /\ yielded'[l + 1] = z
        /\ \A i \in 1 .. l : yielded'[i] = yielded[i]
    BY <1>2, <2>1, <2>4, <2>m
  <2>6. RelType'
    BY <1>1, <1>2, <1>3, <2>1, <2>5, <2>m DEF RelInv, RelType
  <2>7. /\ c \in Members /\ z.from = c /\ z.event.n = n /\ z.event = file[c][3 * n - 2].event
        /\ z.event.type \in Wanted /\ z.id = l + 1 /\ InChan(c, 1, n) /\ 3 * n - 1 <= pos[c]
        /\ n \in Nat \ {0} /\ l \in Nat /\ l = Len(yielded)
        /\ \A q : InChan(c, 1, q) => q = n
    BY <1>2, <1>7, <2>2, <2>3, <2>4, <2>m
  <2>8. \A j, q : Given(j, q)' <=> Given(j, q) \/ (j = c /\ q = n)
    <3>1. ASSUME NEW j, NEW q, Given(j, q)' PROVE Given(j, q) \/ (j = c /\ q = n)
      <4>1. PICK i \in 1 .. l + 1 : yielded'[i].from = j /\ yielded'[i].event.n = q
        BY <2>5, <3>1 DEF Given
      <4>2. CASE i = l + 1
        BY <2>5, <2>7, <4>1, <4>2
      <4>3. CASE i # l + 1
        <5>1. i \in 1 .. l
          BY <2>7, <4>3
        <5> QED
          BY <2>5, <2>7, <4>1, <5>1 DEF Given
      <4> QED
        BY <4>2, <4>3
    <3>2. ASSUME NEW j, NEW q, Given(j, q) PROVE Given(j, q)'
      <4>1. PICK i \in 1 .. l : yielded[i].from = j /\ yielded[i].event.n = q
        BY <2>7, <3>2 DEF Given
      <4>2. i \in 1 .. l + 1 /\ yielded'[i] = yielded[i]
        BY <2>5, <2>7
      <4> QED
        BY <2>5, <4>1, <4>2 DEF Given
    <3>3. Given(c, n)'
      <4>1. l + 1 \in 1 .. l + 1
        BY <2>7
      <4> QED
        BY <2>5, <2>7, <4>1 DEF Given
    <3> QED
      BY <3>1, <3>2, <3>3
  <2>9. NoneLost'
    <3> SUFFICES ASSUME stream # "dropped", NEW j \in Members, NEW q \in Nat \ {0},
                        3 * q - 1 <= pos[j], file[j][3 * q - 2].event.type \in Wanted
                 PROVE  (Given(j, q) \/ InHand(j, q) \/ \E i \in 1 .. Len(chan) : InChan(j, i, q))'
      BY <1>1 DEF NoneLost
    <3>1. Given(j, q) \/ InHand(j, q) \/ \E i \in 1 .. k : InChan(j, i, q)
      BY DEF RelInv, NoneLost
    <3>2. ASSUME NEW i \in 1 .. k, InChan(j, i, q)
          PROVE  Given(j, q)' \/ \E a \in 1 .. k - 1 : InChan(j, a, q)'
      <4>1. CASE i = 1
        <5>1. j = c
          BY <2>7, <3>2, <4>1 DEF InChan
        <5> QED
          BY <2>7, <2>8, <3>2, <4>1, <5>1
      <4>2. CASE i # 1
        <5>1. i - 1 \in 1 .. k - 1 /\ InChan(j, (i - 1) + 1, q)
          BY <1>2, <3>2, <4>2
        <5>2. InChan(j, i - 1, q)'
          BY <1>2, <1>5, <5>1
        <5> QED
          BY <5>1, <5>2
      <4> QED
        BY <4>1, <4>2
    <3> QED
      BY <1>3, <1>4, <2>8, <3>1, <3>2
  <2>10. InOrder'
    <3>1. \A i \in 1 .. l + 1 : 3 * yielded'[i].event.n - 1 <= pos[yielded'[i].from]
      <4>1. \A i \in 1 .. l : 3 * yielded'[i].event.n - 1 <= pos[yielded'[i].from]
        BY <2>5, <2>7 DEF RelInv, InOrder
      <4>2. 3 * yielded'[l + 1].event.n - 1 <= pos[yielded'[l + 1].from]
        BY <2>5, <2>7
      <4> QED
        BY <2>7, <4>1, <4>2
    <3>2. ASSUME NEW j \in Members, NEW a \in Nat, NEW x \in Nat, NEW q \in Nat,
                 InChan(j, a, x)', Given(j, q)'
          PROVE  q < x
      <4>1. a > 0 /\ InChan(j, a + 1, x) /\ a + 1 \in Nat /\ 1 < a + 1
        BY <1>5, <3>2
      <4> QED
        <5>1. CASE Given(j, q)
          BY <4>1, <5>1 DEF RelInv, InOrder
        <5>2. CASE j = c /\ q = n
          <6>1. InChan(j, 1, q) /\ 1 \in Nat
            BY <2>7, <5>2
          <6> QED
            BY <4>1, <6>1 DEF RelInv, InOrder
        <5> QED
          BY <2>8, <3>2, <5>1, <5>2
    <3>3. ASSUME NEW j \in Members, NEW a \in Nat, NEW x \in Nat, NEW q \in Nat,
                 InHand(j, x)', InChan(j, a, q)' \/ Given(j, q)'
          PROVE  q < x
      <4>1. InHand(j, x) /\ (InChan(j, a + 1, q) \/ Given(j, q) \/ InChan(j, 1, q))
        BY <1>4, <1>5, <2>7, <2>8, <3>3
      <4> QED
        BY <4>1 DEF RelInv, InOrder
    <3>4. ASSUME NEW j \in Members, NEW a \in Nat, NEW b \in Nat, NEW x \in Nat, NEW q \in Nat,
                 InChan(j, a, x)', InChan(j, b, q)', a < b
          PROVE  x < q
      <4>1. /\ InChan(j, a + 1, x) /\ InChan(j, b + 1, q) /\ a + 1 < b + 1
            /\ a + 1 \in Nat /\ b + 1 \in Nat
        BY <1>5, <3>4
      <4> QED
        BY <4>1 DEF RelInv, InOrder
    <3> QED
      BY <1>1, <2>5, <3>1, <3>2, <3>3, <3>4 DEF InOrder
  <2>11. Rel!RelayExact'
    <3>1. \A j : Rel!Written(j)' = Rel!Written(j) /\ Rel!Written(j) = WantedIn(file[j])
      BY <1>1 DEF Rel!Written, WantedIn
    <3>2. \A j, i : i \in 0 .. l => Rel!YieldedOf(j, i)' = Rel!YieldedOf(j, i)
      <4> SUFFICES ASSUME NEW j, NEW i \in 0 .. l PROVE Rel!YieldedOf(j, i)' = Rel!YieldedOf(j, i)
        OBVIOUS
      <4>1. \A a \in 1 .. i : yielded'[a] = yielded[a]
        BY <2>5, <2>7
      <4> QED
        BY <4>1 DEF Rel!YieldedOf
    <3>3. ASSUME NEW i \in 1 .. l
          PROVE  LET v == yielded[i] IN
                 /\ v.id = i /\ v.event \in Rel!Written(v.from)
                 /\ Rel!YieldedOf(v.from, i - 1) = {x \in Rel!Written(v.from) : x.n < v.event.n}
      BY <1>2, <2>7 DEF RelInv, Rel!RelayExact
    <3>4. FileShape(file[c]) /\ Len(file[c]) \in Nat /\ pos[c] \in Nat /\ pos[c] <= Len(file[c])
      BY <1>2, <2>7 DEF FileInv, FileShape
    <3>5. z.event \in Rel!Written(c)
      <4>1. 3 * n - 1 <= Len(file[c])
        BY <2>7, <3>4
      <4> QED
        BY <2>7, <3>1, <3>4, <4>1, WantedIs
    <3>6. ASSUME NEW x, x \in Rel!YieldedOf(c, l) PROVE x \in Rel!Written(c) /\ x.n < n
      <4>1. PICK i \in 1 .. l : yielded[i].from = c /\ yielded[i].event = x
        BY <3>6 DEF Rel!YieldedOf
      <4>2. x \in Rel!Written(c)
        BY <3>3, <4>1
      <4>3. Given(c, x.n) /\ x.n \in Nat
        BY <2>7, <4>1, RelTypes DEF Given, RelInv
      <4> QED
        BY <2>7, <4>2, <4>3 DEF RelInv, InOrder
    <3>7. ASSUME NEW x \in Rel!Written(c), x.n < n PROVE x \in Rel!YieldedOf(c, l)
      <4>1. /\ x.n \in Nat \ {0} /\ 3 * x.n - 1 <= Len(file[c])
            /\ x = file[c][3 * x.n - 2].event /\ x.type \in Wanted
        BY <3>1, <3>4, WantedIs
      <4>2. 3 * x.n - 1 <= pos[c]
        BY <2>7, <3>4, <3>7, <4>1, SMTT(30)
      <4>3. stream # "dropped"
        BY DEF Rel!Anext
      <4>4. Given(c, x.n) \/ InHand(c, x.n) \/ \E i \in 1 .. k : InChan(c, i, x.n)
        BY <2>7, <4>1, <4>2, <4>3 DEF RelInv, NoneLost
      <4>5. ~InHand(c, x.n)
        <5>1. ASSUME InHand(c, x.n) PROVE n < x.n
          BY <2>7, <4>1, <5>1 DEF RelInv, InOrder
        <5> QED
          BY <2>7, <3>7, <4>1, <5>1
      <4>6. ASSUME NEW i \in 1 .. k, InChan(c, i, x.n) PROVE FALSE
        <5>1. i # 1
          BY <2>7, <3>7, <4>1, <4>6
        <5>2. i \in Nat /\ 1 < i
          BY <1>2, <5>1
        <5>3. n < x.n
          BY <2>7, <4>1, <4>6, <5>2 DEF RelInv, InOrder
        <5> QED
          BY <2>7, <3>7, <4>1, <5>3
      <4>7. PICK i \in 1 .. l : yielded[i].from = c /\ yielded[i].event.n = x.n
        BY <2>7, <4>4, <4>5, <4>6 DEF Given
      <4>8. yielded[i].event \in Rel!Written(c)
        BY <3>3, <4>7
      <4>9. yielded[i].event = file[c][3 * x.n - 2].event
        BY <3>1, <3>4, <4>7, <4>8, WantedIs
      <4> QED
        BY <4>1, <4>7, <4>9 DEF Rel!YieldedOf
    <3>8. Rel!YieldedOf(c, l) = {x \in Rel!Written(c) : x.n < n}
      BY <3>6, <3>7
    <3>9. ASSUME NEW i \in 1 .. l + 1
          PROVE  LET v == yielded'[i] IN
                 /\ v.id = i /\ v.event \in Rel!Written(v.from)
                 /\ Rel!YieldedOf(v.from, i - 1) = {x \in Rel!Written(v.from) : x.n < v.event.n}
      <4>1. CASE i = l + 1
        <5>1. yielded'[i] = z /\ i - 1 = l
          BY <2>5, <2>7, <4>1
        <5> QED
          BY <2>7, <3>5, <3>8, <4>1, <5>1
      <4>2. CASE i # l + 1
        <5>1. i \in 1 .. l /\ yielded'[i] = yielded[i]
          BY <2>5, <2>7, <4>2
        <5> QED
          BY <3>3, <5>1
      <4> QED
        BY <4>1, <4>2
    <3>10. \A i \in 1 .. l + 1 : i - 1 \in 0 .. l
      BY <2>7
    <3>11. DOMAIN yielded' = 1 .. l + 1
      BY <2>5
    <3>12. ASSUME NEW i \in DOMAIN yielded'
           PROVE  /\ yielded'[i].id = i /\ yielded'[i].event \in Rel!Written(yielded'[i].from)
                  /\ \A j : Rel!YieldedOf(j, i - 1)' = Rel!YieldedOf(j, i - 1)
                  /\ Rel!YieldedOf(yielded'[i].from, i - 1)
                       = {x \in Rel!Written(yielded'[i].from) : x.n < yielded'[i].event.n}
      BY <3>2, <3>9, <3>10, <3>11
    <3> QED
      BY <3>1, <3>12 DEF Rel!RelayExact
  <2> QED
    BY <1>4, <1>6, <2>6, <2>9, <2>10, <2>11 DEF RelInv
<1> QED
  BY <1>8, <1>9

(* Opening, starting and dropping the stream read nothing.                 *)
LEMMA RelKeeps ==
  ASSUME RelInv, stream' \in {stream, "built", "spawned"}, stream = "dropped" => stream' = "dropped",
         UNCHANGED <<file, pos, holding, chan, eventSeq, yielded>>, exists' = exists
  PROVE  RelInv'
<1>1. stream' \in {"none", "built", "spawned", "dropped"}
  BY DEF RelInv, RelType
<1>2. RelType' /\ \A m \in Members : FileInv(m)'
  BY <1>1 DEF RelInv, RelType, FileInv
<1>3. /\ \A j, l, n : IsText(j, l, n)' <=> IsText(j, l, n)
      /\ \A j, n : Given(j, n)' <=> Given(j, n)
  BY DEF IsText, Given
<1>4. /\ \A j, l : LineInv(j, l)' <=> LineInv(j, l)
      /\ \A j, i, n : InChan(j, i, n)' <=> InChan(j, i, n)
      /\ \A j, n : InHand(j, n)' <=> InHand(j, n)
  BY <1>3 DEF LineInv, InChan, InHand
<1>5. LinesInv'
  BY <1>4 DEF RelInv, LinesInv
<1>6. NoneLost'
  BY <1>3, <1>4 DEF RelInv, NoneLost
<1>7. InOrder'
  BY <1>3, <1>4 DEF RelInv, InOrder
<1>8. Rel!RelayExact'
  BY ExactStays DEF RelInv
<1> QED
  BY <1>2, <1>5, <1>6, <1>7, <1>8 DEF RelInv

LEMMA RelDrops ==
  ASSUME RelInv, Rel!DropStream
  PROVE  RelInv'
<1>1. /\ stream' = "dropped" /\ chan' = <<>> /\ holding' = [m \in Members |-> None]
      /\ UNCHANGED <<file, exists, tailed, pos, eventSeq, yielded>>
  BY DEF Rel!DropStream
<1>2. RelType' /\ \A m \in Members : FileInv(m)'
  BY <1>1 DEF RelInv, RelType, FileInv
<1>3. LinesInv' /\ NoneLost'
  BY <1>1 DEF LinesInv, NoneLost
<1>4. \A j \in Members : \A i, n : ~InChan(j, i, n)' /\ ~InHand(j, n)'
  BY <1>1 DEF InChan, InHand
<1>5. InOrder'
  BY <1>1, <1>4 DEF RelInv, InOrder
<1>6. Rel!RelayExact'
  BY <1>1, ExactStays DEF RelInv
<1> QED
  BY <1>2, <1>3, <1>5, <1>6 DEF RelInv

(* While the store appends whole texts, what Python is given of a member's *)
(* file is what the file holds, once each, in order and without a gap:     *)
(* whatever the sizes of team, channel and files, and however reading,     *)
(* sending, consuming and dropping interleave.                             *)
THEOREM RelayIsExact ==
  ASSUME RelAssumption
  PROVE  Rel!Spec => []RelayExact
<1>1. Rel!Init => RelInv
  BY RelInit
<1>2. RelInv /\ [Rel!Next]_(Rel!vars) => RelInv'
  <2> SUFFICES ASSUME RelInv, [Rel!Next]_(Rel!vars) PROVE RelInv'
    OBVIOUS
  <2>1. ASSUME NEW m \in Members, Rel!WriteText(m) PROVE RelInv'
    BY <2>1, AppendText
  <2>2. ASSUME NEW m \in Members, Rel!WriteRest(m) PROVE RelInv'
    BY <2>2, AppendNewline
  <2>3. ASSUME NEW m \in Members, Rel!NextLine(m) PROVE RelInv'
    BY <2>3, RelNextLine
  <2>4. ASSUME NEW m \in Members, Rel!DriverSend(m) PROVE RelInv'
    BY <2>4, RelDriverSend
  <2>5. CASE Rel!Stream
    BY <2>5, RelKeeps DEF Rel!Stream
  <2>6. CASE Rel!EnsureDriversSpawned
    BY <2>6, RelKeeps DEF Rel!EnsureDriversSpawned
  <2>7. CASE Rel!Anext
    BY <2>7, RelAnext
  <2>8. CASE Rel!DropStream
    BY <2>8, RelDrops
  <2>9. CASE UNCHANGED Rel!vars
    BY <2>9, RelKeeps DEF Rel!vars
  <2> QED
    BY <2>1, <2>2, <2>3, <2>4, <2>5, <2>6, <2>7, <2>8, <2>9 DEF Rel!Next, Rel!Driver
<1>3. RelInv => RelayExact
  BY DEF RelInv, RelayExact
<1> QED
  BY <1>1, <1>2, <1>3, PTL DEF Rel!Spec

=============================================================================
