----------------------------- MODULE PoolProofs -----------------------------
(***************************************************************************)
(* Proofs about Pool, for any number of acquirers and resources, any sizes *)
(* and each overflow strategy: permits, leases and counters are conserved. *)
(***************************************************************************)
EXTENDS Pool, FiniteSetTheorems, SequenceTheorems, TLAPS

(* The entries of the two FIFO queues are exactly where the queue says,    *)
(* and nobody is queued twice.                                             *)
QueueAt(q, step) ==
  /\ \A i \in 1..Len(q) : pc[q[i]] = step
  /\ \A i, j \in 1..Len(q) : i # j => q[i] # q[j]

QueuesExact == QueueAt(semq, "semwait") /\ QueueAt(sleepers, "asleep")

(* An acquirer has a resource exactly while it has a Lease.                *)
LeaseExact == \A a \in Acquirers : lease[a] # NoResource <=> pc[a] = "leased"

(* The inductive invariant.                                                *)
PoolInv ==
  /\ TypeOK
  /\ QueuesExact
  /\ LeaseExact
  /\ PermitsConserved
  /\ ExclusiveLease
  /\ TotalExact
  /\ PendingExact

CountedSet == {a \in Acquirers : pc[a] \in Counted}

-----------------------------------------------------------------------------
(* Counting *)

LEMMA SubsetFinite ==
  ASSUME NEW S \in SUBSET Acquirers
  PROVE  IsFiniteSet(S) /\ Cardinality(S) \in Nat
BY PoolAssumption, FS_Subset, FS_CardinalityType

LEMMA ResourcesFinite ==
  ASSUME NEW S \in SUBSET Resources
  PROVE  IsFiniteSet(S) /\ Cardinality(S) \in Nat /\ Cardinality(S) <= Cardinality(Resources)
BY PoolAssumption, FS_Subset, FS_CardinalityType

LEMMA AliveInResources ==
  ASSUME TypeOK
  PROVE  Alive \subseteq Resources /\ Leased \subseteq Resources
BY DEF TypeOK, Alive, Leased

(* The head of a queue, and the queue behind it.                           *)
LEMMA QueueTail ==
  ASSUME NEW q \in Seq(Acquirers), q # <<>>
  PROVE  /\ Head(q) \in Acquirers /\ Head(q) = q[1] /\ 1 \in 1..Len(q)
         /\ Tail(q) \in Seq(Acquirers)
         /\ Len(Tail(q)) = Len(q) - 1
         /\ \A i \in 1..Len(Tail(q)) : i + 1 \in 1..Len(q) /\ Tail(q)[i] = q[i + 1]
OBVIOUS

LEMMA QueueTailDistinct ==
  ASSUME NEW q \in Seq(Acquirers), q # <<>>,
         \A i, j \in 1..Len(q) : i # j => q[i] # q[j]
  PROVE  /\ \A i \in 1..Len(Tail(q)) : Tail(q)[i] # Head(q)
         /\ \A i, j \in 1..Len(Tail(q)) : i # j => Tail(q)[i] # Tail(q)[j]
<1>1. ASSUME NEW i \in 1..Len(Tail(q))
      PROVE  Tail(q)[i] # Head(q)
  <2>1. i + 1 # 1 /\ i + 1 \in 1..Len(q) /\ Tail(q)[i] = q[i + 1] /\ Head(q) = q[1] /\ 1 \in 1..Len(q)
    BY QueueTail
  <2>. QED
    BY <2>1
<1>2. ASSUME NEW i \in 1..Len(Tail(q)), NEW j \in 1..Len(Tail(q)), i # j
      PROVE  Tail(q)[i] # Tail(q)[j]
  <2>1. i + 1 # j + 1
    BY <1>2, QueueTail
  <2>. QED
    BY <2>1, QueueTail
<1>. QED
  BY <1>1, <1>2

LEMMA QueueAppend ==
  ASSUME NEW q \in Seq(Acquirers), NEW a \in Acquirers
  PROVE  /\ Append(q, a) \in Seq(Acquirers)
         /\ Len(Append(q, a)) = Len(q) + 1
         /\ \A i \in 1..Len(q) : Append(q, a)[i] = q[i]
         /\ Append(q, a)[Len(q) + 1] = a
OBVIOUS

LEMMA QueueWithout ==
  ASSUME NEW q \in Seq(Acquirers), NEW i \in 1..Len(q)
  PROVE  /\ Without(q, i) \in Seq(Acquirers)
         /\ Len(Without(q, i)) = Len(q) - 1
         /\ \A j \in 1..(Len(q) - 1) :
              Without(q, i)[j] = IF j < i THEN q[j] ELSE q[j + 1]
<1>1. Len(q) - 1 \in Nat
  OBVIOUS
<1>2. \A j \in 1..(Len(q) - 1) : (IF j < i THEN q[j] ELSE q[j + 1]) \in Acquirers
  OBVIOUS
<1>. QED
  BY <1>1, <1>2 DEF Without

-----------------------------------------------------------------------------
(* Parts of the invariant that a step leaves alone *)

LEMMA ResourcesKept ==
  ASSUME PoolInv, UNCHANGED <<idle, total, lease, returning, loose>>
  PROVE  ExclusiveLease' /\ TotalExact'
BY DEF PoolInv, ExclusiveLease, TotalExact, Alive, Leased

-----------------------------------------------------------------------------
(* The semaphore *)

LEMMA SemAcquireStep ==
  ASSUME PoolInv, NEW a \in Acquirers, pc[a] \in {"out", "retry"}, SemAcquire(a),
         UNCHANGED <<lease, stateVars, notifyVars, taskVars>>
  PROVE  PoolInv'
<1>. USE DEF PoolInv, stateVars, notifyVars, taskVars
<1>1. CASE permits > 0 /\ semq = <<>> /\ permits' = permits - 1 /\ semq' = semq /\ Goto(a, "granted")
  <2>1. Holders' = Holders \cup {a} /\ a \notin Holders
    BY <1>1 DEF Holders, HoldingPermit, Goto, TypeOK
  <2>2. Cardinality(Holders') = Cardinality(Holders) + 1
    BY <2>1, SubsetFinite, FS_AddElement DEF Holders
  <2>3. PermitsConserved'
    BY <1>1, <2>2, SubsetFinite, PoolAssumption DEF PermitsConserved, TypeOK, Holders
  <2>4. TypeOK'
    BY <1>1, PoolAssumption DEF TypeOK, Goto, Steps
  <2>5. QueuesExact' /\ LeaseExact'
    BY <1>1 DEF QueuesExact, QueueAt, LeaseExact, Goto, TypeOK
  <2>6. CountedSet' = CountedSet
    BY <1>1 DEF CountedSet, Counted, Goto, TypeOK
  <2>. QED
    BY <2>3, <2>4, <2>5, <2>6, ResourcesKept DEF PendingExact, CountedSet
<1>2. CASE semq' = Append(semq, a) /\ permits' = permits /\ Goto(a, "semwait")
           /\ (permits = 0 \/ semq # <<>>)
  <2>1. Holders' = Holders /\ CountedSet' = CountedSet
    BY <1>2 DEF Holders, HoldingPermit, CountedSet, Counted, Goto, TypeOK
  <2>2. TypeOK'
    BY <1>2, PoolAssumption DEF TypeOK, Goto, Steps
  <2>3. QueuesExact'
    <3>1. \A i \in 1..Len(semq) : semq[i] # a /\ semq[i] \in Acquirers
      BY DEF QueuesExact, QueueAt, TypeOK
    <3>2. \A i \in 1..Len(sleepers) : sleepers[i] # a /\ sleepers[i] \in Acquirers
      BY DEF QueuesExact, QueueAt, TypeOK
    <3>3. QueueAt(semq, "semwait")'
      BY <1>2, <3>1, QueueAppend DEF QueuesExact, QueueAt, TypeOK, Goto
    <3>4. QueueAt(sleepers, "asleep")'
      BY <1>2, <3>2 DEF QueuesExact, QueueAt, TypeOK, Goto
    <3>. QED
      BY <3>3, <3>4 DEF QueuesExact
  <2>4. PermitsConserved'
    BY <1>2, <2>1, <2>3 DEF PermitsConserved, TypeOK, QueuesExact, QueueAt
  <2>5. LeaseExact'
    BY <1>2 DEF LeaseExact, Goto, TypeOK
  <2>. QED
    BY <2>1, <2>2, <2>3, <2>4, <2>5, ResourcesKept DEF PendingExact, CountedSet
<1>. QED
  BY <1>1, <1>2 DEF SemAcquire

LEMMA SemReleaseStep ==
  ASSUME PoolInv, NEW a \in Acquirers, pc[a] \in {"dropping", "closed", "acquire"},
         SemRelease(a, "out"),
         UNCHANGED <<lease, stateVars, notifyVars, taskVars>>
  PROVE  PoolInv'
<1>. USE DEF PoolInv, stateVars, notifyVars, taskVars
<1>0. a \in Holders /\ IsFiniteSet(Holders) /\ Cardinality(Holders) \in Nat
  BY SubsetFinite DEF Holders, HoldingPermit
<1>1. CASE semq = <<>> /\ permits' = permits + 1 /\ semq' = semq /\ Goto(a, "out")
  <2>1. Holders' = Holders \ {a} /\ CountedSet' = CountedSet
    BY <1>1 DEF Holders, HoldingPermit, CountedSet, Counted, Goto, TypeOK
  <2>2. Cardinality(Holders') = Cardinality(Holders) - 1
    BY <1>0, <2>1, FS_RemoveElement
  <2>3. PermitsConserved'
    BY <1>0, <1>1, <2>2, PoolAssumption DEF PermitsConserved, TypeOK
  <2>4. TypeOK'
    <3>1. Cardinality(Holders') \in Nat
      BY <1>0, <2>1, SubsetFinite DEF Holders
    <3>. QED
      BY <1>1, <3>1, <2>3, PoolAssumption DEF TypeOK, Goto, Steps, PermitsConserved
  <2>5. QueuesExact' /\ LeaseExact'
    BY <1>1 DEF QueuesExact, QueueAt, LeaseExact, Goto, TypeOK
  <2>. QED
    BY <2>1, <2>3, <2>4, <2>5, ResourcesKept DEF PendingExact, CountedSet
<1>2. CASE semq # <<>> /\ semq' = Tail(semq) /\ permits' = permits
           /\ pc' = [pc EXCEPT ![a] = "out", ![Head(semq)] = "granted"]
  <2>. DEFINE b == Head(semq)
  <2>1. b \in Acquirers /\ pc[b] = "semwait" /\ b # a
    BY <1>2, QueueTail DEF TypeOK, QueuesExact, QueueAt
  <2>2. Holders' = (Holders \ {a}) \cup {b} /\ b \notin Holders \ {a} /\ CountedSet' = CountedSet
    BY <1>2, <2>1 DEF Holders, HoldingPermit, CountedSet, Counted, TypeOK
  <2>3. Cardinality(Holders') = Cardinality(Holders)
    <3>1. IsFiniteSet(Holders \ {a}) /\ Cardinality(Holders \ {a}) = Cardinality(Holders) - 1
      BY <1>0, FS_RemoveElement
    <3>2. Cardinality((Holders \ {a}) \cup {b}) = Cardinality(Holders \ {a}) + 1
      BY <2>2, <3>1, FS_AddElement
    <3>. QED
      BY <1>0, <2>2, <3>1, <3>2
  <2>4. TypeOK'
    BY <1>2, <2>1, QueueTail DEF TypeOK, Steps
  <2>5. QueuesExact'
    <3>1. \A i \in 1..Len(Tail(semq)) : Tail(semq)[i] # b /\ Tail(semq)[i] # a
            /\ Tail(semq)[i] \in Acquirers /\ pc[Tail(semq)[i]] = "semwait"
      BY <1>2, <2>1, QueueTail, QueueTailDistinct DEF TypeOK, QueuesExact, QueueAt
    <3>2. \A i, j \in 1..Len(Tail(semq)) : i # j => Tail(semq)[i] # Tail(semq)[j]
      BY <1>2, QueueTailDistinct DEF TypeOK, QueuesExact, QueueAt
    <3>3. QueueAt(semq, "semwait")'
      BY <1>2, <2>1, <3>1, <3>2 DEF TypeOK, QueueAt
    <3>4. QueueAt(sleepers, "asleep")'
      BY <1>2, <2>1 DEF QueuesExact, QueueAt, TypeOK
    <3>. QED
      BY <3>3, <3>4 DEF QueuesExact
  <2>6. PermitsConserved'
    BY <1>2, <2>3, <2>5 DEF PermitsConserved, QueuesExact, QueueAt, TypeOK
  <2>7. LeaseExact'
    BY <1>2, <2>1 DEF LeaseExact, TypeOK
  <2>. QED
    BY <2>2, <2>4, <2>5, <2>6, <2>7, ResourcesKept DEF PendingExact, CountedSet
<1>. QED
  BY <1>1, <1>2 DEF SemRelease

(* A step of one acquirer outside both queues that neither takes nor gives *)
(* back a permit and changes neither queue nor any resource.               *)
LEMMA MoveStep ==
  ASSUME PoolInv, NEW a \in Acquirers, NEW step \in Steps,
         Goto(a, step), pc[a] \notin {"semwait", "asleep", "leased"}, step # "leased",
         pc[a] \in HoldingPermit <=> step \in HoldingPermit,
         UNCHANGED <<lease, semVars, sleepers, idle, total, returning, loose>>
  PROVE  QueuesExact' /\ LeaseExact' /\ PermitsConserved' /\ ExclusiveLease' /\ TotalExact'
<1>. USE DEF PoolInv, semVars
<1>1. QueuesExact'
  BY DEF QueuesExact, QueueAt, Goto, TypeOK
<1>2. LeaseExact'
  BY DEF LeaseExact, Goto, TypeOK
<1>3. Holders' = Holders
  BY DEF Holders, Goto, TypeOK
<1>4. PermitsConserved'
  BY <1>1, <1>3 DEF PermitsConserved, QueuesExact, QueueAt
<1>. QED
  BY <1>1, <1>2, <1>4, ResourcesKept

-----------------------------------------------------------------------------
(* acquire() before it has a permit *)

LEMMA TimeoutStep ==
  ASSUME PoolInv, NEW a \in Acquirers, Timeout(a)
  PROVE  PoolInv'
<1>. USE DEF PoolInv, Timeout, stateVars, notifyVars, taskVars
<1>1. PICK k \in 1..Len(semq) : semq[k] = a /\ semq' = Without(semq, k)
  OBVIOUS
<1>2. pc[a] = "semwait" /\ Goto(a, "out")
  OBVIOUS
<1>3. Holders' = Holders /\ CountedSet' = CountedSet
  BY <1>2 DEF Holders, HoldingPermit, CountedSet, Counted, Goto, TypeOK
<1>4. TypeOK'
  <2>1. semq' \in Seq(Acquirers)
    BY <1>1, QueueWithout DEF TypeOK
  <2>. QED
    BY <1>2, <2>1 DEF TypeOK, Goto, Steps
<1>5. QueuesExact'
  <2>1. \A i \in 1..Len(semq) : i # k => semq[i] # a /\ semq[i] \in Acquirers
    BY <1>1 DEF QueuesExact, QueueAt, TypeOK
  <2>2. QueueAt(semq, "semwait")'
    <3>1. /\ Len(semq') = Len(semq) - 1
          /\ \A j \in 1..(Len(semq) - 1) : semq'[j] = IF j < k THEN semq[j] ELSE semq[j + 1]
      BY <1>1, QueueWithout DEF TypeOK
    <3>2. \A j \in 1..Len(semq') : semq'[j] # a /\ semq'[j] \in Acquirers /\ pc[semq'[j]] = "semwait"
      BY <3>1, <2>1 DEF TypeOK, QueuesExact, QueueAt
    <3>3. \A i, j \in 1..Len(semq') : i # j => semq'[i] # semq'[j]
      <4>. TAKE i, j \in 1..Len(semq')
      <4>. HAVE i # j
      <4>. DEFINE m == IF i < k THEN i ELSE i + 1
                  n == IF j < k THEN j ELSE j + 1
      <4>1. m \in 1..Len(semq) /\ n \in 1..Len(semq) /\ m # n
        BY <3>1 DEF TypeOK
      <4>2. semq'[i] = semq[m] /\ semq'[j] = semq[n]
        BY <3>1 DEF TypeOK
      <4>. QED
        BY <4>1, <4>2 DEF QueuesExact, QueueAt
    <3>. QED
      BY <1>2, <3>2, <3>3 DEF QueueAt, Goto, TypeOK
  <2>3. QueueAt(sleepers, "asleep")'
    BY <1>2 DEF QueuesExact, QueueAt, Goto, TypeOK
  <2>. QED
    BY <2>2, <2>3 DEF QueuesExact
<1>6. LeaseExact'
  BY <1>2 DEF LeaseExact, Goto, TypeOK
<1>7. PermitsConserved'
  <2>1. permits = 0
    BY <1>1 DEF PermitsConserved, TypeOK
  <2>. QED
    BY <1>3, <1>5, <2>1 DEF PermitsConserved, QueuesExact, QueueAt
<1>. QED
  BY <1>3, <1>4, <1>5, <1>6, <1>7, ResourcesKept DEF PendingExact, CountedSet

LEMMA GrantStep ==
  ASSUME PoolInv, NEW a \in Acquirers, pc[a] = "out", permits > 0,
         permits' = permits - 1, Goto(a, "granted"),
         UNCHANGED <<lease, semq, stateVars, notifyVars, taskVars>>
  PROVE  PoolInv'
<1>1. SemAcquire(a)
  BY DEF SemAcquire, PoolInv, PermitsConserved
<1>. QED
  BY <1>1, SemAcquireStep

LEMMA AcquireRejectStep ==
  ASSUME PoolInv, NEW a \in Acquirers, AcquireReject(a)
  PROVE  PoolInv'
<1>1. CASE permits > 0 /\ permits' = permits - 1 /\ Goto(a, "granted")
  BY <1>1, GrantStep DEF AcquireReject
<1>2. CASE permits = 0 /\ Goto(a, "out") /\ permits' = permits
  <2>1. pc' = pc
    BY <1>2 DEF AcquireReject, Goto, PoolInv, TypeOK
  <2>. QED
    BY <1>2, <2>1 DEF AcquireReject, PoolInv, TypeOK, QueuesExact, QueueAt, LeaseExact,
       PermitsConserved, Holders, ExclusiveLease, TotalExact, Alive, Leased, PendingExact,
       stateVars, notifyVars, taskVars
<1>. QED
  BY <1>1, <1>2 DEF AcquireReject

LEMMA AcquireQueueStep ==
  ASSUME PoolInv, NEW a \in Acquirers, AcquireQueue(a)
  PROVE  PoolInv'
<1>1. CASE permits > 0 /\ permits' = permits - 1 /\ Goto(a, "granted")
  BY <1>1, GrantStep DEF AcquireQueue
<1>2. CASE permits = 0 /\ Goto(a, "enqueue") /\ permits' = permits
  <2>. USE DEF AcquireQueue, stateVars, notifyVars, taskVars
  <2>1. TypeOK'
    BY <1>2 DEF PoolInv, TypeOK, Goto, Steps
  <2>2. CountedSet' = CountedSet
    BY <1>2 DEF CountedSet, Counted, Goto, PoolInv, TypeOK
  <2>. QED
    BY <1>2, <2>1, <2>2, MoveStep DEF PoolInv, PendingExact, CountedSet, Steps, HoldingPermit, semVars
<1>. QED
  BY <1>1, <1>2 DEF AcquireQueue

LEMMA EnterPendingStep ==
  ASSUME PoolInv, NEW a \in Acquirers, EnterPending(a)
  PROVE  PoolInv'
<1>. USE DEF EnterPending, notifyVars, taskVars
<1>1. CASE pending >= MaxPending /\ Goto(a, "out") /\ pending' = pending
  <2>1. TypeOK'
    BY <1>1 DEF PoolInv, TypeOK, Goto, Steps, semVars
  <2>2. CountedSet' = CountedSet
    BY <1>1 DEF CountedSet, Counted, Goto, PoolInv, TypeOK
  <2>. QED
    BY <1>1, <2>1, <2>2, MoveStep DEF PoolInv, PendingExact, CountedSet, Steps, HoldingPermit
<1>2. CASE pending < MaxPending /\ pending' = pending + 1 /\ Goto(a, "poll")
  <2>1. TypeOK'
    BY <1>2, PoolAssumption DEF PoolInv, TypeOK, Goto, Steps, semVars
  <2>2. CountedSet' = CountedSet \cup {a} /\ a \notin CountedSet
    BY <1>2 DEF CountedSet, Counted, Goto, PoolInv, TypeOK
  <2>3. Cardinality(CountedSet') = Cardinality(CountedSet) + 1
    BY <2>2, SubsetFinite, FS_AddElement DEF CountedSet
  <2>. QED
    BY <1>2, <2>1, <2>3, MoveStep DEF PoolInv, PendingExact, CountedSet, Steps, HoldingPermit
<1>. QED
  BY <1>1, <1>2

LEMMA PollNotifiedStep ==
  ASSUME PoolInv, NEW a \in Acquirers, PollNotified(a)
  PROVE  PoolInv'
<1>. USE DEF PollNotified, stateVars, taskVars, semVars
<1>1. CASE stored /\ stored' = FALSE /\ Goto(a, "woken") /\ sleepers' = sleepers
  <2>1. TypeOK'
    BY <1>1 DEF PoolInv, TypeOK, Goto, Steps
  <2>2. CountedSet' = CountedSet
    BY <1>1 DEF CountedSet, Counted, Goto, PoolInv, TypeOK
  <2>. QED
    BY <1>1, <2>1, <2>2, MoveStep DEF PoolInv, PendingExact, CountedSet, Steps, HoldingPermit
<1>2. CASE ~stored /\ sleepers' = Append(sleepers, a) /\ Goto(a, "asleep") /\ stored' = stored
  <2>. USE DEF PoolInv
  <2>1. TypeOK'
    BY <1>2 DEF TypeOK, Goto, Steps
  <2>2. Holders' = Holders /\ CountedSet' = CountedSet
    BY <1>2 DEF Holders, HoldingPermit, CountedSet, Counted, Goto, TypeOK
  <2>3. QueuesExact'
    <3>1. \A i \in 1..Len(sleepers) : sleepers[i] # a /\ sleepers[i] \in Acquirers
      BY DEF QueuesExact, QueueAt, TypeOK
    <3>2. QueueAt(sleepers, "asleep")'
      BY <1>2, <3>1, QueueAppend DEF QueuesExact, QueueAt, TypeOK, Goto
    <3>3. QueueAt(semq, "semwait")'
      BY <1>2 DEF QueuesExact, QueueAt, TypeOK, Goto
    <3>. QED
      BY <3>2, <3>3 DEF QueuesExact
  <2>4. LeaseExact'
    BY <1>2 DEF LeaseExact, Goto, TypeOK
  <2>5. PermitsConserved'
    BY <2>2, <2>3 DEF PermitsConserved, QueuesExact, QueueAt
  <2>. QED
    BY <2>1, <2>2, <2>3, <2>4, <2>5, ResourcesKept DEF PendingExact, CountedSet
<1>. QED
  BY <1>1, <1>2

LEMMA LeavePendingStep ==
  ASSUME PoolInv, NEW a \in Acquirers, LeavePending(a)
  PROVE  PoolInv'
<1>. USE DEF LeavePending, notifyVars, taskVars
<1>1. CountedSet' = CountedSet \ {a} /\ a \in CountedSet
  BY DEF CountedSet, Counted, Goto, PoolInv, TypeOK
<1>2. CountedSet \in SUBSET Acquirers /\ CountedSet' \in SUBSET Acquirers
  BY DEF CountedSet
<1>3. /\ Cardinality(CountedSet') = Cardinality(CountedSet) - 1
      /\ Cardinality(CountedSet') \in Nat
      /\ Cardinality(CountedSet) \in Nat
  BY <1>1, <1>2, SubsetFinite, FS_RemoveElement
<1>4. pending = Cardinality(CountedSet)
  BY DEF PoolInv, PendingExact, CountedSet
<1>5. pending' = pending - 1 /\ pending > 0
  BY <1>3, <1>4
<1>6. TypeOK'
  BY <1>5, PoolAssumption DEF PoolInv, TypeOK, Goto, Steps, semVars
<1>. QED
  <2>1. PendingExact'
    BY <1>3, <1>4, <1>5 DEF PendingExact, CountedSet
  <2>. QED
    BY <1>6, <2>1, MoveStep DEF PoolInv, Steps, HoldingPermit

-----------------------------------------------------------------------------
(* The locked section of acquire() and the way a resource comes back *)

(* What the section does to the acquirers' side, whichever way it ends.    *)
LEMMA TakeControl ==
  ASSUME PoolInv, NEW a \in Acquirers, pc[a] = "granted",
         NEW step \in {"leased", "closed", "acquire"}, Goto(a, step),
         UNCHANGED <<semVars, pending, notifyVars>>
  PROVE  /\ QueuesExact' /\ PermitsConserved' /\ PendingExact'
         /\ pc' \in [Acquirers -> Steps]
         /\ pc'[a] = step /\ \A b \in Acquirers \ {a} : pc'[b] = pc[b]
<1>. USE DEF PoolInv, semVars, notifyVars
<1>1. QueuesExact'
  BY DEF QueuesExact, QueueAt, Goto, TypeOK
<1>2. Holders' = Holders /\ CountedSet' = CountedSet
  BY DEF Holders, HoldingPermit, CountedSet, Counted, Goto, TypeOK
<1>3. PermitsConserved'
  BY <1>1, <1>2 DEF PermitsConserved, QueuesExact, QueueAt
<1>4. PendingExact'
  BY <1>2 DEF PendingExact, CountedSet
<1>. QED
  BY <1>1, <1>3, <1>4 DEF Goto, TypeOK, Steps

LEMMA TakeResourceStep ==
  ASSUME PoolInv, NEW a \in Acquirers, TakeResource(a)
  PROVE  PoolInv'
<1>. USE DEF PoolInv, semVars, notifyVars, taskVars
<1>0. PICK bad \in SUBSET (idle \cap Faulty) : TakeResource(a)!2!(bad)
  BY DEF TakeResource
<1>. DEFINE left == total - Cardinality(bad)
<1>1. /\ pc[a] = "granted" /\ lease[a] = NoResource
      /\ UNCHANGED <<permits, semq, pending, stored, sleepers, returning, unannounced, loose>>
  BY DEF TakeResource, LeaseExact
<1>2. Alive \subseteq Resources /\ bad \subseteq idle /\ idle \subseteq Resources
  BY AliveInResources DEF TypeOK
<1>3. /\ IsFiniteSet(Alive) /\ Cardinality(Alive) \in Nat /\ total = Cardinality(Alive)
      /\ IsFiniteSet(bad) /\ Cardinality(bad) \in Nat
  BY <1>2, ResourcesFinite DEF TotalExact
<1>4. IsFiniteSet(Alive \ bad) /\ Cardinality(Alive \ bad) = left /\ left \in 0..MaxSize
  <2>1. Alive \cap bad = bad
    BY <1>2 DEF Alive
  <2>2. IsFiniteSet(Alive \ bad) /\ Cardinality(Alive \ bad) = left
    <3>1. /\ IsFiniteSet(Alive \ bad)
          /\ Cardinality(Alive \ bad) = Cardinality(Alive) - Cardinality(Alive \cap bad)
      BY <1>3, FS_Difference, Zenon
    <3>. QED
      BY <1>3, <2>1, <3>1
  <2>3. Cardinality(Alive \ bad) \in Nat
    BY <2>2, FS_CardinalityType
  <2>. QED
    BY <1>3, <2>2, <2>3, PoolAssumption DEF TypeOK
<1>5. CASE \E r \in idle \ bad :
             /\ lease' = [lease EXCEPT ![a] = r]
             /\ idle' = idle \ (bad \cup {r})
             /\ total' = left
             /\ Goto(a, "leased")
  <2>. PICK r \in idle \ bad :
             /\ lease' = [lease EXCEPT ![a] = r]
             /\ idle' = idle \ (bad \cup {r})
             /\ total' = left
             /\ Goto(a, "leased")
    BY <1>5
  <2>1. r \in Resources /\ r # NoResource
    BY <1>2, PoolAssumption
  <2>2. Leased' = Leased \cup {r}
    BY <1>1, <2>1 DEF Leased, TypeOK
  <2>3. Alive' = Alive \ bad
    BY <1>1, <1>2, <2>2 DEF Alive, ExclusiveLease
  <2>4. TotalExact'
    BY <1>4, <2>3 DEF TotalExact
  <2>5. ExclusiveLease'
    <3>1. \A b \in Acquirers : lease[b] # r
      BY <2>1 DEF ExclusiveLease, Leased
    <3>2. \A b, c \in Acquirers : b # c /\ lease'[b] # NoResource => lease'[b] # lease'[c]
      BY <2>1, <3>1 DEF ExclusiveLease, TypeOK
    <3>. QED
      BY <1>1, <2>2, <3>2 DEF ExclusiveLease
  <2>6. TypeOK' /\ LeaseExact'
    BY <1>1, <1>2, <1>4, <2>1, TakeControl DEF TypeOK, LeaseExact
  <2>. QED
    BY <1>1, <2>4, <2>5, <2>6, TakeControl
<1>6. CASE /\ bad = idle /\ HasProvisioner /\ left < MaxSize
           /\ \E r \in Resources \ (Alive \ bad) : lease' = [lease EXCEPT ![a] = r]
           /\ idle' = {} /\ total' = left + 1 /\ Goto(a, "leased")
  <2>. PICK r \in Resources \ (Alive \ bad) : lease' = [lease EXCEPT ![a] = r]
    BY <1>6
  <2>1. r # NoResource
    BY PoolAssumption
  <2>2. Leased' = Leased \cup {r}
    BY <1>1, <2>1 DEF Leased, TypeOK
  <2>3. Alive' = (Alive \ bad) \cup {r} /\ r \notin Alive \ bad
    BY <1>1, <1>6, <2>2 DEF Alive, ExclusiveLease
  <2>4. TotalExact'
    <3>1. Cardinality(Alive') = left + 1
      BY <1>4, <2>3, FS_AddElement
    <3>. QED
      BY <1>4, <1>6, <3>1, PoolAssumption DEF TotalExact
  <2>5. ExclusiveLease'
    <3>1. \A b \in Acquirers : lease[b] # r
      BY <1>6, <2>1 DEF Alive, Leased, ExclusiveLease
    <3>2. \A b, c \in Acquirers : b # c /\ lease'[b] # NoResource => lease'[b] # lease'[c]
      BY <2>1, <3>1 DEF ExclusiveLease, TypeOK
    <3>. QED
      BY <1>1, <1>6, <2>2, <3>2 DEF ExclusiveLease, Alive
  <2>6. TypeOK' /\ LeaseExact'
    BY <1>1, <1>2, <1>4, <1>6, <2>1, TakeControl, PoolAssumption DEF TypeOK, LeaseExact
  <2>. QED
    BY <1>1, <1>6, <2>4, <2>5, <2>6, TakeControl
<1>7. CASE /\ bad = idle /\ idle' = {} /\ total' = left /\ lease' = lease
           /\ Goto(a, IF left < MaxSize THEN "acquire" ELSE "closed")
  <2>1. Leased' = Leased /\ Alive' = Alive \ bad
    BY <1>1, <1>7 DEF Leased, Alive, ExclusiveLease
  <2>2. TotalExact'
    BY <1>4, <1>7, <2>1 DEF TotalExact
  <2>3. ExclusiveLease'
    BY <1>1, <1>7, <2>1 DEF ExclusiveLease
  <2>. DEFINE step == IF left < MaxSize THEN "acquire" ELSE "closed"
  <2>4. step \in {"leased", "closed", "acquire"} /\ step # "leased" /\ Goto(a, step)
    BY <1>7
  <2>. HIDE DEF step
  <2>5. TypeOK' /\ LeaseExact'
    BY <1>1, <1>2, <1>4, <1>7, <2>4, TakeControl DEF TypeOK, LeaseExact
  <2>. QED
    BY <1>1, <2>2, <2>3, <2>4, <2>5, TakeControl
<1>. QED
  BY <1>0, <1>5, <1>6, <1>7

LEMMA DropLeaseStep ==
  ASSUME PoolInv, NEW a \in Acquirers, DropLease(a)
  PROVE  PoolInv'
<1>. USE DEF PoolInv, DropLease, semVars, stateVars, notifyVars
<1>1. lease[a] \in Resources /\ lease[a] # NoResource
  BY DEF LeaseExact, TypeOK
<1>2. Leased' = Leased \ {lease[a]} /\ Alive' = Alive
  <2>1. Leased' = Leased \ {lease[a]}
    BY <1>1 DEF Leased, TypeOK, ExclusiveLease
  <2>2. lease[a] \in Leased
    BY <1>1 DEF Leased
  <2>. QED
    BY <2>1, <2>2 DEF Alive
<1>3. TotalExact'
  BY <1>2 DEF TotalExact
<1>4. ExclusiveLease'
  <2>1. lease[a] \in Leased
    BY <1>1 DEF Leased
  <2>2. \A b, c \in Acquirers : b # c /\ lease'[b] # NoResource => lease'[b] # lease'[c]
    BY DEF ExclusiveLease, TypeOK
  <2>. QED
    BY <1>2, <2>1, <2>2 DEF ExclusiveLease
<1>5. Holders' = Holders /\ CountedSet' = CountedSet
  BY DEF Holders, HoldingPermit, CountedSet, Counted, Goto, TypeOK
<1>6. QueuesExact'
  BY DEF QueuesExact, QueueAt, Goto, TypeOK
<1>7. TypeOK' /\ LeaseExact'
  BY <1>1 DEF TypeOK, LeaseExact, Goto, Steps
<1>8. PermitsConserved'
  BY <1>5, <1>6 DEF PermitsConserved, QueuesExact, QueueAt
<1>. QED
  BY <1>3, <1>4, <1>5, <1>6, <1>7, <1>8 DEF PendingExact, CountedSet

LEMMA ControlKept ==
  ASSUME PoolInv, UNCHANGED <<pc, lease, semVars, pending, notifyVars>>
  PROVE  QueuesExact' /\ LeaseExact' /\ PermitsConserved' /\ PendingExact' /\ Leased' = Leased
BY DEF PoolInv, semVars, notifyVars, QueuesExact, QueueAt, LeaseExact, PermitsConserved,
       Holders, PendingExact, Leased

LEMMA ReturnPushStep ==
  ASSUME PoolInv, NEW r \in Resources, ReturnPush(r)
  PROVE  PoolInv'
<1>. USE DEF PoolInv, ReturnPush
<1>1. Leased' = Leased /\ Alive' = Alive
  BY ControlKept DEF Alive
<1>2. TotalExact' /\ ExclusiveLease'
  BY <1>1 DEF TotalExact, ExclusiveLease
<1>3. TypeOK'
  BY PoolAssumption DEF TypeOK, semVars, notifyVars
<1>. QED
  BY <1>2, <1>3, ControlKept

LEMMA ReleaseStep ==
  ASSUME PoolInv, NEW r \in Resources, Release(r)
  PROVE  PoolInv'
<1>. USE DEF PoolInv, Release, stateVars
<1>1. Leased' = Leased /\ Alive' = Alive
  BY ControlKept DEF Alive
<1>2. TotalExact' /\ ExclusiveLease'
  BY <1>1 DEF TotalExact, ExclusiveLease
<1>3. TypeOK'
  BY DEF TypeOK, semVars, notifyVars
<1>. QED
  BY <1>2, <1>3, ControlKept

LEMMA GrowStep ==
  ASSUME PoolInv, NEW r \in Resources, ProvisionOne(r) \/ Provision(r)
  PROVE  PoolInv'
<1>. USE DEF PoolInv, ProvisionOne, Provision
<1>1. Leased' = Leased
  BY ControlKept
<1>2. Alive' = Alive \cup {r} /\ r \notin Alive /\ total' = total + 1 /\ total < MaxSize
  BY <1>1 DEF Alive
<1>3. IsFiniteSet(Alive) /\ Cardinality(Alive) = total
  BY AliveInResources, ResourcesFinite DEF TotalExact
<1>4. TotalExact'
  <2>1. Cardinality(Alive') = total + 1
    BY <1>2, <1>3, FS_AddElement
  <2>. QED
    BY <1>2, <2>1, PoolAssumption DEF TotalExact, TypeOK
<1>5. ExclusiveLease'
  BY <1>1 DEF ExclusiveLease, Alive
<1>6. TypeOK'
  BY <1>2, PoolAssumption DEF TypeOK, semVars, notifyVars
<1>. QED
  BY <1>4, <1>5, <1>6, ControlKept

LEMMA AnnounceStep ==
  ASSUME PoolInv, Announce
  PROVE  PoolInv'
<1>. USE DEF PoolInv, Announce, semVars, stateVars
<1>1. CASE sleepers = <<>> /\ stored' = TRUE /\ sleepers' = sleepers /\ pc' = pc
  <2>1. TypeOK'
    BY <1>1, PoolAssumption DEF TypeOK
  <2>2. QueuesExact' /\ LeaseExact' /\ PermitsConserved' /\ PendingExact'
    BY <1>1 DEF QueuesExact, QueueAt, LeaseExact, PermitsConserved, Holders, PendingExact
  <2>. QED
    BY <2>1, <2>2, ResourcesKept
<1>2. CASE sleepers # <<>> /\ Goto(Head(sleepers), "woken") /\ sleepers' = Tail(sleepers) /\ stored' = stored
  <2>. DEFINE b == Head(sleepers)
  <2>1. b \in Acquirers /\ pc[b] = "asleep"
    BY <1>2, QueueTail DEF TypeOK, QueuesExact, QueueAt
  <2>2. Holders' = Holders /\ CountedSet' = CountedSet
    BY <1>2, <2>1 DEF Holders, HoldingPermit, CountedSet, Counted, Goto, TypeOK
  <2>3. TypeOK'
    BY <1>2, <2>1, QueueTail, PoolAssumption DEF TypeOK, Goto, Steps
  <2>4. QueuesExact'
    <3>1. \A i \in 1..Len(Tail(sleepers)) : Tail(sleepers)[i] # b
            /\ Tail(sleepers)[i] \in Acquirers /\ pc[Tail(sleepers)[i]] = "asleep"
      BY <1>2, <2>1, QueueTail, QueueTailDistinct DEF TypeOK, QueuesExact, QueueAt
    <3>2. \A i, j \in 1..Len(Tail(sleepers)) : i # j => Tail(sleepers)[i] # Tail(sleepers)[j]
      BY <1>2, QueueTailDistinct DEF TypeOK, QueuesExact, QueueAt
    <3>3. QueueAt(sleepers, "asleep")'
      BY <1>2, <2>1, <3>1, <3>2 DEF TypeOK, QueueAt, Goto
    <3>4. QueueAt(semq, "semwait")'
      BY <1>2, <2>1 DEF QueuesExact, QueueAt, TypeOK, Goto
    <3>. QED
      BY <3>3, <3>4 DEF QueuesExact
  <2>5. LeaseExact'
    BY <1>2, <2>1 DEF LeaseExact, Goto, TypeOK
  <2>6. PermitsConserved'
    BY <2>2, <2>4 DEF PermitsConserved, QueuesExact, QueueAt
  <2>. QED
    BY <2>2, <2>3, <2>4, <2>5, <2>6, ResourcesKept DEF PendingExact, CountedSet
<1>. QED
  BY <1>1, <1>2 DEF NotifyOne

-----------------------------------------------------------------------------
LEMMA PoolInvInit == Init => PoolInv
<1>. SUFFICES ASSUME Init PROVE PoolInv
  OBVIOUS
<1>. USE PoolAssumption DEF Init
<1>1. Holders = {} /\ CountedSet = {} /\ Leased = {}
  BY DEF Holders, HoldingPermit, CountedSet, Counted, Leased
<1>2. Cardinality(InitIdle) \in Nat
  BY ResourcesFinite
<1>3. TypeOK
  <2>1. permits \in 0..MaxSize /\ total \in 0..MaxSize /\ pending \in 0..MaxPending
        /\ unannounced \in 0..MaxUnannounced
    BY <1>2
  <2>2. pc \in [Acquirers -> Steps] /\ lease \in [Acquirers -> Resources \cup {NoResource}]
    BY DEF Steps
  <2>3. semq \in Seq(Acquirers) /\ sleepers \in Seq(Acquirers)
    BY EmptySeq
  <2>4. /\ idle \subseteq Resources /\ returning \subseteq Resources
        /\ loose \subseteq Resources /\ stored \in BOOLEAN
    OBVIOUS
  <2>. QED
    BY <2>1, <2>2, <2>3, <2>4, Zenon DEF TypeOK
<1>4. QueuesExact /\ LeaseExact
  BY DEF QueuesExact, QueueAt, LeaseExact
<1>5. PermitsConserved
  BY <1>1, FS_EmptySet DEF PermitsConserved
<1>6. ExclusiveLease /\ TotalExact
  BY <1>1 DEF ExclusiveLease, TotalExact, Alive
<1>7. PendingExact
  BY <1>1, FS_EmptySet DEF PendingExact, CountedSet
<1>. QED
  BY <1>3, <1>4, <1>5, <1>6, <1>7 DEF PoolInv

LEMMA PoolInvNext == PoolInv /\ [Next]_vars => PoolInv'
<1>. SUFFICES ASSUME PoolInv, [Next]_vars PROVE PoolInv'
  OBVIOUS
<1>1. ASSUME NEW a \in Acquirers, AcquireBlock(a) PROVE PoolInv'
  BY <1>1, SemAcquireStep DEF AcquireBlock
<1>2. ASSUME NEW a \in Acquirers, AcquireReject(a) PROVE PoolInv'
  BY <1>2, AcquireRejectStep
<1>3. ASSUME NEW a \in Acquirers, AcquireQueue(a) PROVE PoolInv'
  BY <1>3, AcquireQueueStep
<1>4. ASSUME NEW a \in Acquirers, Timeout(a) PROVE PoolInv'
  BY <1>4, TimeoutStep
<1>5. ASSUME NEW a \in Acquirers, AcquirerStep(a) PROVE PoolInv'
  <2>1. CASE EnterPending(a)
    BY <2>1, EnterPendingStep
  <2>2. CASE PollNotified(a)
    BY <2>2, PollNotifiedStep
  <2>3. CASE LeavePending(a)
    BY <2>3, LeavePendingStep
  <2>4. CASE RetryAcquire(a)
    BY <2>4, SemAcquireStep DEF RetryAcquire
  <2>5. CASE TakeResource(a)
    BY <2>5, TakeResourceStep
  <2>6. CASE FailAcquire(a)
    BY <2>6, SemReleaseStep DEF FailAcquire
  <2>7. CASE DropLease(a)
    BY <2>7, DropLeaseStep
  <2>8. CASE DropPermit(a)
    BY <2>8, SemReleaseStep DEF DropPermit
  <2>. QED
    BY <1>5, <2>1, <2>2, <2>3, <2>4, <2>5, <2>6, <2>7, <2>8 DEF AcquirerStep
<1>6. ASSUME NEW r \in Resources, ReturnPush(r) PROVE PoolInv'
  BY <1>6, ReturnPushStep
<1>7. ASSUME NEW r \in Resources, ProvisionOne(r) \/ Provision(r) PROVE PoolInv'
  BY <1>7, GrowStep
<1>8. ASSUME NEW r \in Resources, Release(r) PROVE PoolInv'
  BY <1>8, ReleaseStep
<1>9. CASE Announce
  BY <1>9, AnnounceStep
<1>10. CASE UNCHANGED vars
  BY <1>10 DEF vars, semVars, stateVars, notifyVars, taskVars, PoolInv, TypeOK, QueuesExact,
     QueueAt, LeaseExact, PermitsConserved, Holders, ExclusiveLease, TotalExact, Alive, Leased,
     PendingExact
<1>. QED
  BY <1>1, <1>2, <1>3, <1>4, <1>5, <1>6, <1>7, <1>8, <1>9, <1>10 DEF Next

(* Every reachable state of the pool satisfies the inductive invariant.    *)
THEOREM PoolInvariant == Spec => []PoolInv
BY PoolInvInit, PoolInvNext, PTL DEF Spec

(* Type correctness of the pool's state, whatever the interleaving of      *)
(* acquire(), Lease::drop and the return tasks.                            *)
THEOREM TypeCorrect == Spec => []TypeOK
<1>1. PoolInv => TypeOK
  BY DEF PoolInv
<1>. QED
  BY <1>1, PoolInvariant, PTL

(* No path of acquire() or Lease::drop loses or invents a permit.          *)
THEOREM PermitsAreConserved == Spec => []PermitsConserved
<1>1. PoolInv => PermitsConserved
  BY DEF PoolInv
<1>. QED
  BY <1>1, PoolInvariant, PTL

(* No resource is ever leased twice, nor idle while it is leased.          *)
THEOREM LeasesAreExclusive == Spec => []ExclusiveLease
<1>1. PoolInv => ExclusiveLease
  BY DEF PoolInv
<1>. QED
  BY <1>1, PoolInvariant, PTL

(* PoolState.total is the number of resources and stays within max_size.   *)
THEOREM TotalIsExact == Spec => []TotalExact
<1>1. PoolInv => TotalExact
  BY DEF PoolInv
<1>. QED
  BY <1>1, PoolInvariant, PTL

(* PoolState.pending is the number of queued acquirers.                    *)
THEOREM PendingIsExact == Spec => []PendingExact
<1>1. PoolInv => PendingExact
  BY DEF PoolInv
<1>. QED
  BY <1>1, PoolInvariant, PTL

-----------------------------------------------------------------------------
(* No wake-up is lost when the pool can always provision *)

(* Once anybody has called acquire(), a wake-up is stored or still to      *)
(* come; and a wake-up is stored only while nobody sleeps.                 *)
WakeInv ==
  /\ stored \/ Waker \/ \A a \in Acquirers : pc[a] = "out"
  /\ stored => sleepers = <<>>

LEMMA WakeInvNext ==
  ASSUME HasProvisioner, Overflow = "Queue", MaxSize > 0,
         PoolInv, WakeInv, [Next]_vars
  PROVE  WakeInv'
<1>. USE DEF PoolInv, semVars, stateVars, notifyVars, taskVars
<1>0. UNCHANGED stored /\ UNCHANGED sleepers => (stored => sleepers = <<>>)'
  BY DEF WakeInv
<1>1. ASSUME NEW a \in Acquirers, AcquireQueue(a) PROVE WakeInv'
  <2>1. CASE Goto(a, "granted")
    BY <1>0, <1>1, <2>1 DEF AcquireQueue, WakeInv, Waker, Goto, TypeOK
  <2>2. CASE permits = 0 /\ Goto(a, "enqueue")
    <3>1. stored \/ Waker
      <4>1. SUFFICES ASSUME \A b \in Acquirers : pc[b] = "out" PROVE FALSE
        BY DEF WakeInv
      <4>2. Holders = {}
        BY <4>1 DEF Holders, HoldingPermit
      <4>. QED
        BY <2>2, <4>2, FS_EmptySet, PoolAssumption DEF PermitsConserved
    <3>2. Waker => Waker'
      BY <1>1, <2>2 DEF AcquireQueue, Waker, Leased, Goto, TypeOK
    <3>. QED
      BY <1>0, <1>1, <3>1, <3>2 DEF AcquireQueue, WakeInv
  <2>. QED
    BY <1>1, <2>1, <2>2 DEF AcquireQueue
<1>2. ASSUME NEW a \in Acquirers, EnterPending(a) PROVE WakeInv'
  <2>1. Waker => Waker'
    BY <1>2 DEF EnterPending, Waker, Leased, Goto, TypeOK
  <2>2. stored \/ Waker
    BY <1>2 DEF EnterPending, WakeInv
  <2>. QED
    BY <1>0, <1>2, <2>1, <2>2 DEF EnterPending, WakeInv
<1>3. ASSUME NEW a \in Acquirers, PollNotified(a) PROVE WakeInv'
  <2>1. CASE stored' = FALSE /\ Goto(a, "woken")
    BY <2>1 DEF WakeInv, Waker, Goto, TypeOK
  <2>2. CASE ~stored /\ Goto(a, "asleep") /\ stored' = stored
    <3>1. Waker
      BY <1>3, <2>2 DEF PollNotified, WakeInv
    <3>2. Waker'
      BY <1>3, <2>2, <3>1 DEF PollNotified, Waker, Leased, Goto, TypeOK
    <3>. QED
      BY <2>2, <3>2 DEF WakeInv
  <2>. QED
    BY <1>3, <2>1, <2>2 DEF PollNotified
<1>4. ASSUME NEW a \in Acquirers, LeavePending(a) PROVE WakeInv'
  <2>1. Waker'
    BY <1>4 DEF LeavePending, Waker, Goto, TypeOK
  <2>. QED
    BY <1>0, <1>4, <2>1 DEF LeavePending, WakeInv
<1>5. ASSUME NEW a \in Acquirers, RetryAcquire(a) PROVE WakeInv'
  <2>1. Waker'
    BY <1>5 DEF RetryAcquire, SemAcquire, Waker, Goto, TypeOK
  <2>. QED
    BY <1>0, <1>5, <2>1 DEF RetryAcquire, WakeInv
<1>6. ASSUME NEW a \in Acquirers, TakeResource(a) PROVE WakeInv'
  <2>1. Waker'
    <3>1. CASE \E r \in Resources : lease' = [lease EXCEPT ![a] = r]
      <4>1. PICK r \in Resources : lease' = [lease EXCEPT ![a] = r]
        BY <3>1
      <4>2. r \in Leased'
        BY <4>1, PoolAssumption DEF Leased, TypeOK
      <4>. QED
        BY <4>2 DEF Waker
    <3>2. CASE \E bad \in SUBSET (idle \cap Faulty) :
                  /\ bad = idle
                  /\ ~(HasProvisioner /\ total - Cardinality(bad) < MaxSize)
      <4>1. PICK bad \in SUBSET (idle \cap Faulty) :
                  bad = idle /\ ~(total - Cardinality(bad) < MaxSize)
        BY <3>2
      <4>2. Cardinality(bad) \in Nat /\ IsFiniteSet(bad) /\ total \in 0..MaxSize
        BY ResourcesFinite DEF TypeOK
      <4>3. total = MaxSize /\ Cardinality(idle) = 0
        BY <4>1, <4>2, PoolAssumption
      <4>4. idle = {}
        BY <4>1, <4>2, <4>3, FS_EmptySet
      <4>5. Alive # {}
        <5>1. Cardinality(Alive) > 0
          BY <4>3 DEF TotalExact
        <5>2. Cardinality({}) = 0
          BY FS_EmptySet
        <5>. QED
          BY <5>1, <5>2
      <4>6. Leased # {} \/ returning # {} \/ loose # {}
        BY <4>4, <4>5 DEF Alive
      <4>7. CASE returning # {} \/ loose # {}
        <5>1. returning' = returning /\ loose' = loose
          BY <1>6 DEF TakeResource
        <5>. QED
          BY <4>7, <5>1 DEF Waker
      <4>8. CASE Leased # {}
        <5>1. PICK b \in Acquirers : lease[b] # NoResource
          BY <4>8 DEF Leased
        <5>2. b # a
          BY <1>6, <5>1 DEF TakeResource, LeaseExact
        <5>3. lease'[b] = lease[b]
          BY <1>6, <5>2 DEF TakeResource, TypeOK
        <5>4. lease[b] \in Leased'
          BY <5>1, <5>3 DEF Leased
        <5>. QED
          BY <5>4 DEF Waker
      <4>. QED
        BY <4>6, <4>7, <4>8
    <3>. QED
      BY <1>6, <3>1, <3>2 DEF TakeResource, TypeOK
  <2>. QED
    BY <1>0, <1>6, <2>1 DEF TakeResource, WakeInv
<1>7. ASSUME NEW a \in Acquirers, FailAcquire(a) \/ DropPermit(a) PROVE WakeInv'
  <2>1. pc[a] \in {"dropping", "closed", "acquire"} /\ SemRelease(a, "out")
        /\ UNCHANGED <<lease, returning, unannounced, loose, stored, sleepers>>
    BY <1>7 DEF FailAcquire, DropPermit
  <2>2. stored \/ Waker
    BY <2>1 DEF WakeInv
  <2>3. Waker => Waker'
    <3>1. CASE semq = <<>> /\ Goto(a, "out")
      BY <2>1, <3>1 DEF Waker, Leased, Goto, TypeOK
    <3>2. CASE semq # <<>> /\ pc' = [pc EXCEPT ![a] = "out", ![Head(semq)] = "granted"]
      <4>1. Head(semq) \in Acquirers
        BY <3>2, QueueTail DEF TypeOK
      <4>2. pc'[Head(semq)] = "granted"
        BY <3>2, <4>1 DEF TypeOK
      <4>. QED
        BY <4>1, <4>2 DEF Waker
    <3>. QED
      BY <2>1, <3>1, <3>2 DEF SemRelease
  <2>. QED
    BY <1>0, <2>1, <2>2, <2>3 DEF WakeInv
<1>8. ASSUME NEW a \in Acquirers, DropLease(a) PROVE WakeInv'
  <2>1. Waker'
    BY <1>8 DEF DropLease, Waker
  <2>. QED
    BY <1>0, <1>8, <2>1 DEF DropLease, WakeInv
<1>9. ASSUME NEW r \in Resources, ReturnPush(r) \/ ProvisionOne(r) \/ Provision(r) \/ Release(r)
      PROVE  WakeInv'
  <2>1. Waker'
    <3>1. CASE ReturnPush(r) \/ ProvisionOne(r)
      <4>1. unannounced' > 0
        BY <3>1 DEF ReturnPush, ProvisionOne, TypeOK
      <4>. QED
        BY <4>1 DEF Waker
    <3>2. CASE Provision(r) \/ Release(r)
      <4>1. loose' # {} \/ returning' # {}
        BY <3>2 DEF Provision, Release
      <4>. QED
        BY <4>1 DEF Waker
    <3>. QED
      BY <1>9, <3>1, <3>2
  <2>. QED
    BY <1>0, <1>9, <2>1 DEF ReturnPush, ProvisionOne, Provision, Release, WakeInv
<1>10. CASE Announce
  <2>1. CASE sleepers = <<>> /\ stored' = TRUE /\ sleepers' = sleepers
    BY <2>1 DEF WakeInv
  <2>2. CASE sleepers # <<>> /\ Goto(Head(sleepers), "woken") /\ stored' = stored
    <3>1. Head(sleepers) \in Acquirers
      BY <2>2, QueueTail DEF TypeOK
    <3>2. pc'[Head(sleepers)] = "woken"
      BY <2>2, <3>1 DEF Goto, TypeOK
    <3>3. Waker'
      BY <3>1, <3>2 DEF Waker
    <3>. QED
      BY <2>2, <3>3 DEF WakeInv
  <2>. QED
    BY <1>10, <2>1, <2>2 DEF Announce, NotifyOne
<1>11. CASE UNCHANGED vars
  BY <1>11 DEF vars, WakeInv, Waker, Leased
<1>12. \A a \in Acquirers : ~AcquireBlock(a) /\ ~AcquireReject(a) /\ ~Timeout(a)
  BY DEF AcquireBlock, AcquireReject, Timeout
<1>. QED
  BY <1>1, <1>2, <1>3, <1>4, <1>5, <1>6, <1>7, <1>8, <1>9, <1>10, <1>11, <1>12 DEF Next, AcquirerStep

(* With a provisioner, an acquirer that sleeps in Queue(n) always has a    *)
(* wake-up coming: coalesced notifications never strand it.                *)
THEOREM NoLostWakeup ==
  ASSUME HasProvisioner, Overflow = "Queue", MaxSize > 0
  PROVE  Spec => []SleeperHasWaker
<1>1. Init => WakeInv
  BY DEF Init, WakeInv
<1>2. PoolInv /\ WakeInv /\ [Next]_vars => WakeInv'
  BY WakeInvNext
<1>3. PoolInv /\ WakeInv => SleeperHasWaker
  <2>. SUFFICES ASSUME PoolInv, WakeInv, sleepers # <<>> PROVE Waker
    BY DEF SleeperHasWaker
  <2>1. Head(sleepers) \in Acquirers /\ pc[Head(sleepers)] = "asleep"
    BY QueueTail DEF PoolInv, TypeOK, QueuesExact, QueueAt
  <2>. QED
    BY <2>1 DEF WakeInv
<1>. QED
  BY <1>1, <1>2, <1>3, PoolInvariant, PTL DEF Spec

=============================================================================
