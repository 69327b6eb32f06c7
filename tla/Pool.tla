-------------------------------- MODULE Pool --------------------------------
(***************************************************************************)
(* The bounded resource pool of crates/arf-pool: acquire() under each      *)
(* overflow strategy, the Lease whose drop returns the resource from a     *)
(* spawned task, and the operations that grow the pool.                    *)
(*                                                                         *)
(* A step is what runs between two awaits or under one lock of the pool's  *)
(* state mutex.  Two tokio primitives are modelled from how the pool uses  *)
(* them: the Semaphore (first come, first served; a released permit goes   *)
(* straight to the first waiter) and the Notify (a list of sleeping tasks  *)
(* and ONE stored wake-up, however many notify_one calls found no sleeper).*)
(***************************************************************************)
EXTENDS Integers, Sequences, FiniteSets

CONSTANTS
  Acquirers,       \* tasks that call acquire(), one call at a time each
  Resources,       \* resource identities
  Faulty,          \* resources whose try_acquire() may return Err
  InitIdle,        \* resources present after construction (min_size of them)
  MaxSize,         \* PoolConfig.max_size
  MaxPending,      \* n of Overflow::Queue(n)
  Overflow,        \* "Queue", "Reject" or "Block"
  HasProvisioner,  \* constructed by with_provisioner
  NoResource,      \* not a resource
  MaxUnannounced   \* bound: return tasks between their push and notify_one

ASSUME PoolAssumption ==
  /\ IsFiniteSet(Acquirers)
  /\ IsFiniteSet(Resources)
  /\ Faulty \subseteq Resources
  /\ InitIdle \subseteq Resources
  /\ MaxSize \in Nat
  /\ Cardinality(InitIdle) <= MaxSize
  /\ MaxSize <= Cardinality(Resources)
  /\ MaxPending \in Nat
  /\ Overflow \in {"Queue", "Reject", "Block"}
  /\ HasProvisioner \in BOOLEAN
  /\ NoResource \notin Resources
  /\ MaxUnannounced \in Nat \ {0}

VARIABLES
  pc,           \* where each acquirer is in acquire() or in its lease
  lease,        \* the resource of the Lease each acquirer holds
  permits,      \* permits the semaphore has left
  semq,         \* acquirers parked in Semaphore::acquire_owned, in order
  idle,         \* PoolState.idle
  total,        \* PoolState.total
  pending,      \* PoolState.pending
  returning,    \* resources held by a spawned return task before its push
  unannounced,  \* return tasks and provision_one calls about to notify_one
  loose,        \* resources made by provision(), held by its caller
  stored,       \* the Notify holds a wake-up nobody has consumed
  sleepers      \* acquirers asleep in notified(), in order

semVars    == <<permits, semq>>
stateVars  == <<idle, total, pending>>
notifyVars == <<stored, sleepers>>
taskVars   == <<returning, unannounced, loose>>
vars == <<pc, lease, semVars, stateVars, notifyVars, taskVars>>

(* "closed" and "acquire" are acquire() on its way out with that PoolError; *)
(* Full and Timeout go straight back to "out".                             *)
Steps == {"out", "enqueue", "poll", "asleep", "woken", "retry", "semwait",
          "granted", "leased", "dropping", "closed", "acquire"}

(* Where an acquirer owns a semaphore permit, and where it is counted by   *)
(* PoolState.pending.                                                      *)
HoldingPermit == {"granted", "leased", "dropping", "closed", "acquire"}
Counted       == {"poll", "asleep", "woken"}

Leased == {lease[a] : a \in Acquirers} \ {NoResource}
Alive  == idle \cup Leased \cup returning \cup loose

Init ==
  /\ pc = [a \in Acquirers |-> "out"]
  /\ lease = [a \in Acquirers |-> NoResource]
  /\ permits = MaxSize /\ semq = <<>>
  /\ idle = InitIdle /\ total = Cardinality(InitIdle) /\ pending = 0
  /\ returning = {} /\ unannounced = 0 /\ loose = {}
  /\ stored = FALSE /\ sleepers = <<>>

-----------------------------------------------------------------------------
(* tokio primitives *)

Goto(a, step) == pc' = [pc EXCEPT ![a] = step]

(* First poll of Semaphore::acquire_owned.                                 *)
SemAcquire(a) ==
  \/ /\ permits > 0 /\ semq = <<>>
     /\ permits' = permits - 1 /\ UNCHANGED semq
     /\ Goto(a, "granted")
  \/ /\ permits = 0 \/ semq # <<>>
     /\ semq' = Append(semq, a) /\ UNCHANGED permits
     /\ Goto(a, "semwait")

(* A queue without its i-th entry.                                         *)
Without(q, i) == [j \in 1..(Len(q) - 1) |-> IF j < i THEN q[j] ELSE q[j + 1]]

(* An OwnedSemaphorePermit is dropped by a, which goes on to step.         *)
SemRelease(a, step) ==
  \/ /\ semq = <<>>
     /\ permits' = permits + 1 /\ UNCHANGED semq
     /\ Goto(a, step)
  \/ /\ semq # <<>>
     /\ semq' = Tail(semq) /\ UNCHANGED permits
     /\ pc' = [pc EXCEPT ![a] = step, ![Head(semq)] = "granted"]

(* Notify::notify_one: wake the first sleeper, or store one wake-up.       *)
NotifyOne ==
  \/ /\ sleepers = <<>>
     /\ stored' = TRUE
     /\ UNCHANGED <<sleepers, pc>>
  \/ /\ sleepers # <<>>
     /\ Goto(Head(sleepers), "woken")
     /\ sleepers' = Tail(sleepers) /\ UNCHANGED stored

-----------------------------------------------------------------------------
(* Seeded faults: an action as it would be with one mistake in the code.   *)
(* PROJECT.json pairs each with the property that rejects it.              *)

(* `>` for `>=` in the check of the pending counter.                       *)
FaultyEnterPending(a) ==
  /\ pc[a] = "enqueue"
  /\ \/ pending > MaxPending /\ Goto(a, "out") /\ UNCHANGED pending
     \/ pending <= MaxPending /\ pending' = pending + 1 /\ Goto(a, "poll")
  /\ UNCHANGED <<lease, semVars, idle, total, notifyVars, taskVars>>

(* The counter is not decremented after the wake-up.                       *)
FaultyLeavePending(a) ==
  /\ pc[a] = "woken"
  /\ Goto(a, "retry")
  /\ UNCHANGED <<lease, semVars, stateVars, notifyVars, taskVars>>

(* The return task pushes the resource and ends without notify_one.        *)
FaultyAnnounce ==
  /\ unannounced > 0
  /\ unannounced' = unannounced - 1
  /\ UNCHANGED <<pc, lease, semVars, stateVars, notifyVars, returning, loose>>

(* The error returns of acquire() forget the permit.                       *)
FaultyFailAcquire(a) ==
  /\ pc[a] \in {"closed", "acquire"}
  /\ Goto(a, "out")
  /\ UNCHANGED <<lease, semVars, stateVars, notifyVars, taskVars>>

(* The lease keeps a copy of the resource it hands to the return task.     *)
FaultyDropLease(a) ==
  /\ pc[a] = "leased"
  /\ returning' = returning \cup {lease[a]}
  /\ Goto(a, "dropping")
  /\ UNCHANGED <<lease, semVars, stateVars, notifyVars, unannounced, loose>>

(* `>` for `>=` in provision_one's check against max_size.                 *)
FaultyProvisionOne(r) ==
  /\ HasProvisioner /\ total <= MaxSize /\ unannounced < MaxUnannounced
  /\ r \in Resources \ Alive
  /\ idle' = idle \cup {r}
  /\ total' = total + 1
  /\ unannounced' = unannounced + 1
  /\ UNCHANGED <<pc, lease, semVars, pending, notifyVars, returning, loose>>

(* The timed-out waiter stays in the semaphore's queue.                    *)
FaultyTimeout(a) ==
  /\ Overflow = "Block" /\ pc[a] = "semwait"
  /\ Goto(a, "out")
  /\ UNCHANGED <<lease, semVars, stateVars, notifyVars, taskVars>>

-----------------------------------------------------------------------------
(* acquire() *)

AcquireBlock(a) ==
  /\ Overflow = "Block" /\ pc[a] = "out"
  /\ SemAcquire(a)
  /\ UNCHANGED <<lease, stateVars, notifyVars, taskVars>>

(* tokio::time::timeout around the semaphore fires while a is queued.      *)
Timeout(a) ==
  /\ Overflow = "Block" /\ pc[a] = "semwait"
  /\ \E i \in 1..Len(semq) : semq[i] = a /\ semq' = Without(semq, i)
  /\ Goto(a, "out")
  /\ UNCHANGED <<lease, permits, stateVars, notifyVars, taskVars>>

AcquireReject(a) ==
  /\ Overflow = "Reject" /\ pc[a] = "out"
  /\ \/ permits > 0 /\ permits' = permits - 1 /\ Goto(a, "granted")
     \/ permits = 0 /\ Goto(a, "out") /\ UNCHANGED permits
  /\ UNCHANGED <<lease, semq, stateVars, notifyVars, taskVars>>

(* Queue(n): the fast path, then the four steps of the slow one.           *)
AcquireQueue(a) ==
  /\ Overflow = "Queue" /\ pc[a] = "out"
  /\ \/ permits > 0 /\ permits' = permits - 1 /\ Goto(a, "granted")
     \/ permits = 0 /\ Goto(a, "enqueue") /\ UNCHANGED permits
  /\ UNCHANGED <<lease, semq, stateVars, notifyVars, taskVars>>

EnterPending(a) ==
  /\ pc[a] = "enqueue"
  /\ \/ pending >= MaxPending /\ Goto(a, "out") /\ UNCHANGED pending
     \/ pending < MaxPending /\ pending' = pending + 1 /\ Goto(a, "poll")
  /\ UNCHANGED <<lease, semVars, idle, total, notifyVars, taskVars>>

PollNotified(a) ==
  /\ pc[a] = "poll"
  /\ \/ stored /\ stored' = FALSE /\ Goto(a, "woken") /\ UNCHANGED sleepers
     \/ ~stored /\ sleepers' = Append(sleepers, a) /\ Goto(a, "asleep") /\ UNCHANGED stored
  /\ UNCHANGED <<lease, semVars, stateVars, taskVars>>

LeavePending(a) ==
  /\ pc[a] = "woken"
  /\ pending' = IF pending = 0 THEN 0 ELSE pending - 1    \* saturating_sub
  /\ Goto(a, "retry")
  /\ UNCHANGED <<lease, semVars, idle, total, notifyVars, taskVars>>

RetryAcquire(a) ==
  /\ pc[a] = "retry"
  /\ SemAcquire(a)
  /\ UNCHANGED <<lease, stateVars, notifyVars, taskVars>>

(* The locked section that follows the permit: idle resources are popped   *)
(* until one passes try_acquire (the ones in bad do not and are dropped);  *)
(* failing that the provisioner makes one; failing that acquire() errs and *)
(* the permit is dropped on the way out.                                   *)
TakeResource(a) ==
  /\ pc[a] = "granted"
  /\ \E bad \in SUBSET (idle \cap Faulty) :
       LET left == total - Cardinality(bad) IN
       \/ \E r \in idle \ bad :
            /\ lease' = [lease EXCEPT ![a] = r]
            /\ idle' = idle \ (bad \cup {r})
            /\ total' = left
            /\ Goto(a, "leased")
       \/ /\ bad = idle /\ HasProvisioner /\ left < MaxSize
          /\ \E r \in Resources \ (Alive \ bad) : lease' = [lease EXCEPT ![a] = r]
          /\ idle' = {}
          /\ total' = left + 1
          /\ Goto(a, "leased")
       \/ /\ bad = idle /\ ~(HasProvisioner /\ left < MaxSize)
          /\ idle' = {}
          /\ total' = left
          /\ Goto(a, IF left < MaxSize THEN "acquire" ELSE "closed")
          /\ UNCHANGED lease
  /\ UNCHANGED <<semVars, pending, notifyVars, taskVars>>

FailAcquire(a) ==
  /\ pc[a] \in {"closed", "acquire"}
  /\ SemRelease(a, "out")
  /\ UNCHANGED <<lease, stateVars, notifyVars, taskVars>>

-----------------------------------------------------------------------------
(* Lease::drop: the return task is spawned first, then the permit field is *)
(* dropped; nothing orders the task's push with the permit.                *)
DropLease(a) ==
  /\ pc[a] = "leased"
  /\ returning' = returning \cup {lease[a]}
  /\ lease' = [lease EXCEPT ![a] = NoResource]
  /\ Goto(a, "dropping")
  /\ UNCHANGED <<semVars, stateVars, notifyVars, unannounced, loose>>

DropPermit(a) ==
  /\ pc[a] = "dropping"
  /\ SemRelease(a, "out")
  /\ UNCHANGED <<lease, stateVars, notifyVars, taskVars>>

(* The spawned task: push under the lock, unlock, notify_one.              *)
ReturnPush(r) ==
  /\ r \in returning /\ unannounced < MaxUnannounced
  /\ returning' = returning \ {r}
  /\ idle' = idle \cup {r}
  /\ unannounced' = unannounced + 1
  /\ UNCHANGED <<pc, lease, semVars, total, pending, notifyVars, loose>>

Announce ==
  /\ unannounced > 0
  /\ unannounced' = unannounced - 1
  /\ NotifyOne
  /\ UNCHANGED <<lease, semVars, stateVars, returning, loose>>

-----------------------------------------------------------------------------
(* Growing the pool *)

ProvisionOne(r) ==
  /\ HasProvisioner /\ total < MaxSize /\ unannounced < MaxUnannounced
  /\ r \in Resources \ Alive
  /\ idle' = idle \cup {r}
  /\ total' = total + 1
  /\ unannounced' = unannounced + 1
  /\ UNCHANGED <<pc, lease, semVars, pending, notifyVars, returning, loose>>

Provision(r) ==
  /\ total < MaxSize
  /\ r \in Resources \ Alive
  /\ total' = total + 1
  /\ loose' = loose \cup {r}
  /\ UNCHANGED <<pc, lease, semVars, idle, pending, notifyVars, returning, unannounced>>

(* Pool::release on a resource its caller got from provision().            *)
Release(r) ==
  /\ r \in loose
  /\ loose' = loose \ {r}
  /\ returning' = returning \cup {r}
  /\ UNCHANGED <<pc, lease, semVars, stateVars, notifyVars, unannounced>>

-----------------------------------------------------------------------------
AcquirerStep(a) ==
  \/ EnterPending(a) \/ PollNotified(a) \/ LeavePending(a) \/ RetryAcquire(a)
  \/ TakeResource(a) \/ FailAcquire(a)
  \/ DropLease(a) \/ DropPermit(a)

Next ==
  \/ \E a \in Acquirers :
       \/ AcquireBlock(a) \/ AcquireReject(a) \/ AcquireQueue(a)
       \/ Timeout(a)
       \/ AcquirerStep(a)
  \/ \E r \in Resources :
       \/ ReturnPush(r) \/ ProvisionOne(r) \/ Provision(r) \/ Release(r)
  \/ Announce

(* A started acquire() is polled again whenever it can move; a lease is    *)
(* dropped in the end (the pool nodes drop theirs after at most            *)
(* RESPONSE_TIMEOUT) and a resource from provision() is released; spawned  *)
(* tasks run.  Nothing is assumed of who calls acquire().                  *)
Fairness ==
  /\ \A a \in Acquirers : WF_vars(AcquirerStep(a)) /\ WF_vars(Timeout(a))
  /\ \A r \in Resources : WF_vars(ReturnPush(r)) /\ WF_vars(Release(r))
  /\ WF_vars(Announce)

Spec == Init /\ [][Next]_vars /\ Fairness

-----------------------------------------------------------------------------
(* Properties *)

(* Each variable keeps its shape.                                          *)
TypeOK ==
  /\ pc \in [Acquirers -> Steps]
  /\ lease \in [Acquirers -> Resources \cup {NoResource}]
  /\ permits \in 0..MaxSize
  /\ semq \in Seq(Acquirers)
  /\ idle \subseteq Resources
  /\ total \in 0..MaxSize
  /\ pending \in 0..MaxPending
  /\ returning \subseteq Resources
  /\ unannounced \in 0..MaxUnannounced
  /\ loose \subseteq Resources
  /\ stored \in BOOLEAN
  /\ sleepers \in Seq(Acquirers)

Holders == {a \in Acquirers : pc[a] \in HoldingPermit}

(* No permit is lost or invented on any return or error path of acquire()  *)
(* and of Lease::drop, none is free while somebody is queued for one, and  *)
(* only acquirers that still wait are queued.                              *)
PermitsConserved ==
  /\ permits + Cardinality(Holders) = MaxSize
  /\ permits > 0 => semq = <<>>
  /\ \A i \in 1..Len(semq) : pc[semq[i]] = "semwait"

(* A resource is in one place: never leased to two acquirers, never idle   *)
(* while leased or while its return task still holds it.                   *)
ExclusiveLease ==
  /\ \A a, b \in Acquirers : a # b /\ lease[a] # NoResource => lease[a] # lease[b]
  /\ idle \cap Leased = {}
  /\ (idle \cup Leased) \cap returning = {}
  /\ (idle \cup Leased \cup returning) \cap loose = {}

(* total counts exactly the resources that exist, so max_size bounds them  *)
(* whatever try_acquire drops and however returns, provisioning and        *)
(* acquires interleave.                                                    *)
TotalExact == total = Cardinality(Alive) /\ total <= MaxSize

(* pending counts exactly the acquirers between the increment and the      *)
(* decrement of the Queue path.                                            *)
PendingExact == pending = Cardinality({a \in Acquirers : pc[a] \in Counted})

(* Something that ends in a notify_one is still to come: a resource is     *)
(* out, a return is about to be announced, or another acquirer has been    *)
(* woken or granted a permit and will take a resource.                     *)
Waker ==
  \/ returning # {} \/ unannounced > 0 \/ Leased # {} \/ loose # {}
  \/ \E a \in Acquirers : pc[a] \in {"woken", "retry", "semwait", "granted"}

(* The wake-up argument of the Queue strategy: whoever sleeps in           *)
(* notified() has a waker, although the Notify coalesces the notify_one    *)
(* calls that found nobody asleep.                                         *)
SleeperHasWaker == sleepers # <<>> => Waker

(* An acquirer that sleeps in notified() is woken in the end.              *)
SleeperWakes == \A a \in Acquirers : pc[a] = "asleep" ~> pc[a] # "asleep"

(* acquire() always returns.                                               *)
AcquireReturns ==
  \A a \in Acquirers : pc[a] \notin {"out", "leased"} ~> pc[a] \in {"out", "leased"}

(* PoolError::Closed: "Resource was closed / drained".  Nothing in this    *)
(* module closes the semaphore or drains a resource, so it would never be  *)
(* returned.                                                               *)
ClosedOnlyWhenClosed == \A a \in Acquirers : pc[a] # "closed"

=============================================================================
