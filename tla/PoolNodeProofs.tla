--------------------------- MODULE PoolNodeProofs ---------------------------
(***************************************************************************)
(* Proofs about PoolNode, for any requests, sub nodes and sizes of the     *)
(* pool: a facade implements Responder, and it bounds what it forwards.    *)
(***************************************************************************)
EXTENDS PoolNode, FiniteSetTheorems, TLAPS

(* The pool behind the facade, with what PoolProofs proves about it.       *)
PP == INSTANCE PoolProofs WITH Acquirers <- Requests, Faulty <- {}, HasProvisioner <- FALSE

-----------------------------------------------------------------------------
(* The facade as a responder *)

(* topq holds each request that is queued once, and no other; a request is *)
(* not answered before it is released or done.                             *)
QueueInv ==
  /\ stage \in [Requests -> Stages] /\ topq \in Seq(Requests)
  /\ \A i \in 1..Len(topq) : stage[topq[i]] = "queued"
  /\ \A i, j \in 1..Len(topq) : topq[i] = topq[j] => i = j

AnswerInv ==
  /\ DOMAIN answers = Requests
  /\ \A q \in Requests : stage[q] \notin {"releasing", "done"} => answers[q] = <<>>

(* A request moves on, and is not queued: the queue is as it was.          *)
LEMMA QueueMove ==
  ASSUME QueueInv, NEW q \in Requests, NEW to \in Stages, stage[q] # "queued",
         Move(q, to), topq' = topq \/ topq' = <<>>
  PROVE  QueueInv'
<1>1. stage' \in [Requests -> Stages] /\ \A p \in Requests : p # q => stage'[p] = stage[p]
  BY DEF QueueInv, Move
<1>2. CASE topq' = topq
  <2>1. \A i \in 1..Len(topq) : topq[i] \in Requests
    BY DEF QueueInv
  <2> QED
    BY <1>1, <1>2, <2>1 DEF QueueInv
<1>3. CASE topq' = <<>>
  BY <1>1, <1>3 DEF QueueInv
<1> QED
  BY <1>2, <1>3

LEMMA TakeFacts ==
  ASSUME QueueInv, Take
  PROVE  /\ Head(topq) \in Requests /\ stage[Head(topq)] = "queued"
         /\ stage' = [stage EXCEPT ![Head(topq)] = "taken"] /\ QueueInv'
<1>1. topq # <<>> /\ topq' = Tail(topq) /\ stage' = [stage EXCEPT ![Head(topq)] = "taken"]
  BY DEF Take, Move
<1>2. /\ Head(topq) = topq[1] /\ 1 \in 1..Len(topq) /\ topq' \in Seq(Requests)
      /\ Head(topq) \in Requests /\ Len(topq) \in Nat /\ Len(topq') = Len(topq) - 1
      /\ \A i \in 1..Len(topq') : /\ i + 1 \in 1..Len(topq) /\ i + 1 # 1
                                  /\ topq'[i] = topq[i + 1] /\ topq[i + 1] \in Requests
  BY <1>1 DEF QueueInv
<1>3. stage' \in [Requests -> Stages]
  BY <1>1 DEF QueueInv, Stages
<1>4. \A i \in 1..Len(topq') : stage'[topq'[i]] = "queued"
  BY <1>1, <1>2 DEF QueueInv
<1>5. ASSUME NEW i \in 1..Len(topq'), NEW j \in 1..Len(topq'), topq'[i] = topq'[j]
      PROVE  i = j
  <2>1. i + 1 = j + 1
    BY <1>2, <1>5 DEF QueueInv
  <2> QED
    BY <1>2, <2>1
<1> QED
  BY <1>1, <1>2, <1>3, <1>4, <1>5 DEF QueueInv

LEMMA RequestFacts ==
  ASSUME QueueInv, NEW q \in Requests, Request(q)
  PROVE  /\ stage[q] = "unsent" /\ stage' = [stage EXCEPT ![q] = "queued"] /\ QueueInv'
<1> DEFINE k == Len(topq) + 1
<1>1. stage[q] = "unsent" /\ topq' = Append(topq, q) /\ stage' = [stage EXCEPT ![q] = "queued"]
  BY DEF Request, Move
<1>2. /\ topq' \in Seq(Requests) /\ Len(topq') = k /\ topq'[k] = q
      /\ \A i \in 1..Len(topq) : topq'[i] = topq[i] /\ topq[i] \in Requests
      /\ \A i \in 1..Len(topq') : i = k \/ i \in 1..Len(topq)
  BY <1>1 DEF QueueInv
<1>3. stage' \in [Requests -> Stages]
  BY <1>1 DEF QueueInv, Stages
<1>4. \A i \in 1..Len(topq) : topq[i] # q
  BY <1>1 DEF QueueInv
<1>5. \A i \in 1..Len(topq') : stage'[topq'[i]] = "queued"
  BY <1>1, <1>2, <1>4 DEF QueueInv
<1>6. \A i, j \in 1..Len(topq') : topq'[i] = topq'[j] => i = j
  BY <1>2, <1>4 DEF QueueInv
<1> QED
  BY <1>1, <1>2, <1>3, <1>5, <1>6 DEF QueueInv

(* What each step of a request's task does to its stage and its answer.    *)
LEMMA StepFacts ==
  ASSUME QueueInv, AnswerInv, NEW q \in Requests, RequestStep(q)
  PROVE  /\ stage[q] \notin {"unsent", "queued", "done"} /\ (topq' = topq \/ topq' = <<>>)
         /\ \/ \E to \in Stages \ {"unsent", "queued"} :
                 /\ Move(q, to) /\ answers' = answers
                 /\ stage[q] = "releasing" => to = "done"
            \/ \E to \in {"releasing", "done"}, w \in {q, "refused", "timeout"} :
                 /\ Move(q, to) /\ answers' = [answers EXCEPT ![q] = <<w>>]
                 /\ stage[q] # "releasing"
            \/ UNCHANGED <<stage, answers>>
<1> USE DEF loopVars, subVars, Stages
<1>1. CASE StartAcquire(q) \/ ContinueAcquire(q)
  <2>1. PICK to \in {"refused", "acquiring", "leased"} : Move(q, to)
    BY <1>1 DEF StartAcquire, ContinueAcquire, Move
  <2> QED
    BY <1>1, <2>1 DEF StartAcquire, ContinueAcquire
<1>2. CASE McpRefused(q) \/ Forward(q) \/ ResponseTimeout(q) \/ McpExpired(q)
  <2>1. PICK to \in {"done", "waiting", "late", "releasing"} : Move(q, to)
    BY <1>2 DEF McpRefused, Forward, ResponseTimeout, McpExpired
  <2> QED
    BY <1>2, <2>1 DEF McpRefused, Forward, ResponseTimeout, McpExpired
<1>3. CASE DropLease(q)
  BY <1>3 DEF DropLease
<1>4. ASSUME NEW w \in {q, "refused", "timeout"}, stage[q] \notin {"releasing", "done"}, Send(q, w)
      PROVE  answers' = [answers EXCEPT ![q] = <<w>>]
  <2>1. answers[q] = <<>>
    BY <1>4 DEF AnswerInv
  <2>2. Append(<<>>, w) = <<w>>
    OBVIOUS
  <2> QED
    BY <1>4, <2>1, <2>2 DEF Send
<1>5. CASE Refuse(q)
  <2>1. stage[q] = "refused" /\ Send(q, "refused") /\ Move(q, "done") /\ topq' = topq
    BY <1>5 DEF Refuse
  <2> QED
    BY <1>4, <2>1
<1>6. CASE Deliver(q)
  <2>1. stage[q] = "waiting" /\ Send(q, q) /\ Move(q, "releasing") /\ topq' = topq
    BY <1>6 DEF Deliver
  <2> QED
    BY <1>4, <2>1
<1>7. CASE GiveUp(q)
  <2>1. stage[q] = "late" /\ Send(q, "timeout") /\ Move(q, "releasing") /\ topq' = topq
    BY <1>7 DEF GiveUp
  <2> QED
    BY <1>4, <2>1
<1>8. CASE McpResult(q)
  <2>1. CASE Head(subq) = q /\ Send(q, Head(subq)) /\ Move(q, "releasing")
    <3>1. stage[q] = "waiting" /\ Send(q, q) /\ Move(q, "releasing") /\ topq' = topq
      BY <1>8, <2>1 DEF McpResult
    <3> QED
      BY <1>4, <3>1
  <2>2. CASE UNCHANGED <<answers, stage>>
    BY <1>8, <2>2 DEF McpResult
  <2> QED
    BY <1>8, <2>1, <2>2 DEF McpResult
<1> QED
  BY <1>1, <1>2, <1>3, <1>5, <1>6, <1>7, <1>8 DEF RequestStep

-----------------------------------------------------------------------------
(* QueueInv and AnswerInv are inductive, and every step that keeps them is *)
(* a step of Responder.                                                    *)
LEMMA ResponderInit ==
  ASSUME Init
  PROVE  QueueInv /\ AnswerInv /\ TopBus!Init
<1>1. stage \in [Requests -> Stages] /\ topq = <<>> /\ topq \in Seq(Requests)
  BY DEF Init, Stages
<1>2. {q \in Requests : stage[q] # "unsent"} = {}
  BY DEF Init
<1> QED
  BY <1>1, <1>2 DEF Init, QueueInv, AnswerInv, TopBus!Init

LEMMA ResponderStep ==
  ASSUME QueueInv, AnswerInv, [Next]_vars
  PROVE  QueueInv' /\ AnswerInv' /\ [TopBus!Next]_(TopBus!vars)
<1> DEFINE asked == {q \in Requests : stage[q] # "unsent"}
           Goal == QueueInv' /\ AnswerInv' /\ [TopBus!Next]_(TopBus!vars)
<1>a. stage \in [Requests -> Stages]
  BY DEF QueueInv
<1>b. ASSUME asked' = asked, answers' = answers PROVE [TopBus!Next]_(TopBus!vars)
  BY <1>b DEF TopBus!vars
<1>c. ASSUME UNCHANGED <<stage, answers>>, topq' = topq \/ topq' = <<>> PROVE Goal
  <2>1. QueueInv'
    <3>1. CASE topq' = topq
      BY <1>c, <3>1 DEF QueueInv
    <3>2. CASE topq' = <<>>
      BY <1>c, <3>2 DEF QueueInv
    <3> QED
      BY <1>c, <3>1, <3>2
  <2>2. AnswerInv'
    BY <1>c DEF AnswerInv
  <2> QED
    BY <1>b, <1>c, <2>1, <2>2
<1>d. ASSUME NEW q \in Requests, NEW to \in Stages, Move(q, to), stage[q] # "unsent", to # "unsent"
      PROVE  asked' = asked
  BY <1>a, <1>d DEF Move
<1> SUFFICES Goal
  OBVIOUS
<1> HIDE DEF Goal
<1> USE DEF poolVars, loopVars, subVars
<1>1. ASSUME NEW q \in Requests, Request(q) PROVE Goal
  <2>1. stage[q] = "unsent" /\ stage' = [stage EXCEPT ![q] = "queued"] /\ QueueInv' /\ answers' = answers
    BY <1>1, RequestFacts DEF Request
  <2>2. q \notin asked /\ asked' = asked \cup {q}
    BY <1>a, <2>1
  <2>3. TopBus!Ask(q)
    BY <2>1, <2>2 DEF TopBus!Ask
  <2>4. AnswerInv'
    BY <1>a, <2>1 DEF AnswerInv
  <2> QED
    BY <2>1, <2>3, <2>4 DEF Goal, TopBus!Next
<1>2. CASE Take
  <2>1. /\ Head(topq) \in Requests /\ stage[Head(topq)] = "queued"
        /\ stage' = [stage EXCEPT ![Head(topq)] = "taken"] /\ QueueInv' /\ answers' = answers
    BY <1>2, TakeFacts DEF Take
  <2>2. asked' = asked
    BY <1>a, <2>1
  <2>3. AnswerInv'
    BY <1>a, <2>1 DEF AnswerInv
  <2> QED
    BY <1>b, <2>1, <2>2, <2>3 DEF Goal
<1>3. ASSUME NEW q \in Requests, RequestStep(q) PROVE Goal
  <2>1. stage[q] \notin {"unsent", "queued", "done"} /\ (topq' = topq \/ topq' = <<>>)
    BY <1>3, StepFacts
  <2>2. CASE UNCHANGED <<stage, answers>>
    BY <1>c, <2>1, <2>2
  <2>3. ASSUME NEW to \in Stages \ {"unsent", "queued"}, Move(q, to), answers' = answers,
               stage[q] = "releasing" => to = "done"
        PROVE  Goal
    <3>1. QueueInv' /\ asked' = asked
      BY <1>d, <2>1, <2>3, QueueMove
    <3>2. AnswerInv'
      BY <1>a, <2>1, <2>3 DEF AnswerInv, Move
    <3> QED
      BY <1>b, <2>3, <3>1, <3>2 DEF Goal
  <2>4. ASSUME NEW to \in {"releasing", "done"}, NEW w \in {q, "refused", "timeout"}, Move(q, to),
               answers' = [answers EXCEPT ![q] = <<w>>], stage[q] # "releasing"
        PROVE  Goal
    <3>1. QueueInv' /\ asked' = asked
      BY <1>d, <2>1, <2>4, QueueMove DEF Stages
    <3>2. AnswerInv' /\ answers[q] = <<>>
      BY <1>a, <2>1, <2>4 DEF AnswerInv, Move
    <3>3. TopBus!Answer(q)
      BY <2>1, <2>4, <3>1, <3>2 DEF TopBus!Answer
    <3> QED
      BY <3>1, <3>2, <3>3 DEF Goal, TopBus!Next
  <2> QED
    BY <1>3, <2>2, <2>3, <2>4, StepFacts
<1>4. CASE Expire \/ Stop \/ Demux \/ ReturnTask
  BY <1>4, <1>c DEF Expire, Stop, Demux, ReturnTask
<1>5. ASSUME NEW n \in SubNodes, NodeTake(n) \/ NodeRespond(n) PROVE Goal
  BY <1>5, <1>c DEF NodeTake, NodeRespond
<1>6. CASE UNCHANGED vars
  BY <1>6, <1>c DEF vars
<1> QED
  BY <1>1, <1>2, <1>3, <1>4, <1>5, <1>6 DEF Next

(* Each facade implements Responder: the answer to a model_call or a       *)
(* tool_exec goes to who asked, once, and is the result of that call or an *)
(* error, whatever late answers and timeouts do.                           *)
THEOREM FacadeIsResponder == Spec => ImplementsResponder
<1>1. Init => QueueInv /\ AnswerInv /\ TopBus!Init
  BY ResponderInit
<1>2. QueueInv /\ AnswerInv /\ [Next]_vars => QueueInv' /\ AnswerInv' /\ [TopBus!Next]_(TopBus!vars)
  BY ResponderStep
<1> QED
  BY <1>1, <1>2, PTL DEF Spec, ImplementsResponder, TopBus!Spec

-----------------------------------------------------------------------------
(* What the facade forwards *)

InFlight == {"leased", "waiting", "late"}

(* A request in flight has its lease.                                      *)
LeaseInv == \A q \in Requests : stage[q] \in InFlight => pc[q] = "leased"

(* The PendingMap of the model facade; a sender is in the map or was used. *)
MapInv ==
  /\ registered \subseteq Requests /\ filled \subseteq Requests /\ (Serial => registered = {})
  /\ registered \cap filled = {}
  /\ \A q \in registered : stage[q] \in Stages \ {"unsent", "queued", "releasing", "done"}
  /\ \A q \in filled : stage[q] \notin {"unsent", "queued"}

(* The operators of the finite sets are the same for the pool.             *)
LEMMA SameCount ==
  ASSUME NEW S
  PROVE  PP!Cardinality(S) = Cardinality(S) /\ (PP!IsFiniteSet(S) <=> IsFiniteSet(S))
BY DEF PP!Cardinality, Cardinality, PP!IsFiniteSet, IsFiniteSet

(* The steps of the facade's acquire() and of its leases are the pool's.   *)
PoolStep(q) ==
  \/ P!AcquireBlock(q) \/ P!AcquireReject(q) \/ P!AcquireQueue(q)
  \/ P!EnterPending(q) \/ P!PollNotified(q) \/ P!LeavePending(q) \/ P!RetryAcquire(q)
  \/ P!TakeResource(q) \/ P!FailAcquire(q) \/ P!Timeout(q)
  \/ P!DropLease(q) \/ P!DropPermit(q)

LEMMA SamePool ==
  /\ P!Init => PP!Init
  /\ \A q \in Requests : PoolStep(q) => PP!Next
  /\ \A r \in Resources : P!ReturnPush(r) => PP!Next
  /\ P!Announce => PP!Next
<1> USE DEF P!Goto, PP!Goto, P!SemAcquire, PP!SemAcquire, P!SemRelease, PP!SemRelease,
            P!NotifyOne, PP!NotifyOne, P!Without, PP!Without,
            P!semVars, PP!semVars, P!stateVars, PP!stateVars, P!notifyVars, PP!notifyVars,
            P!taskVars, PP!taskVars
<1>1. P!Init => PP!Init
  BY DEF P!Init, PP!Init, P!Cardinality, PP!Cardinality
<1>2. ASSUME NEW q \in Requests, P!AcquireBlock(q) PROVE PP!AcquireBlock(q)
  BY <1>2 DEF P!AcquireBlock, PP!AcquireBlock
<1>3. ASSUME NEW q \in Requests, P!AcquireReject(q) PROVE PP!AcquireReject(q)
  BY <1>3 DEF P!AcquireReject, PP!AcquireReject
<1>4. ASSUME NEW q \in Requests, P!AcquireQueue(q) PROVE PP!AcquireQueue(q)
  BY <1>4 DEF P!AcquireQueue, PP!AcquireQueue
<1>5. ASSUME NEW q \in Requests, P!EnterPending(q) PROVE PP!EnterPending(q)
  BY <1>5 DEF P!EnterPending, PP!EnterPending
<1>6. ASSUME NEW q \in Requests, P!PollNotified(q) PROVE PP!PollNotified(q)
  BY <1>6 DEF P!PollNotified, PP!PollNotified
<1>7. ASSUME NEW q \in Requests, P!LeavePending(q) PROVE PP!LeavePending(q)
  BY <1>7 DEF P!LeavePending, PP!LeavePending
<1>8. ASSUME NEW q \in Requests, P!RetryAcquire(q) PROVE PP!RetryAcquire(q)
  BY <1>8 DEF P!RetryAcquire, PP!RetryAcquire
<1>9. ASSUME NEW q \in Requests, P!TakeResource(q) PROVE PP!TakeResource(q)
  BY <1>9 DEF P!TakeResource, PP!TakeResource, P!Alive, PP!Alive, P!Leased, PP!Leased,
              P!Cardinality, PP!Cardinality
<1>10. ASSUME NEW q \in Requests, P!FailAcquire(q) PROVE PP!FailAcquire(q)
  BY <1>10 DEF P!FailAcquire, PP!FailAcquire
<1>11. ASSUME NEW q \in Requests, P!Timeout(q) PROVE PP!Timeout(q)
  BY <1>11 DEF P!Timeout, PP!Timeout
<1>12. ASSUME NEW q \in Requests, P!DropLease(q) PROVE PP!DropLease(q)
  BY <1>12 DEF P!DropLease, PP!DropLease
<1>13. ASSUME NEW q \in Requests, P!DropPermit(q) PROVE PP!DropPermit(q)
  BY <1>13 DEF P!DropPermit, PP!DropPermit
<1>14. ASSUME NEW r \in Resources, P!ReturnPush(r) PROVE PP!ReturnPush(r)
  BY <1>14 DEF P!ReturnPush, PP!ReturnPush
<1>15. P!Announce => PP!Announce
  BY DEF P!Announce, PP!Announce
<1>16. ASSUME NEW q \in Requests, PoolStep(q) PROVE PP!Next
  BY <1>16, <1>2, <1>3, <1>4, <1>5, <1>6, <1>7, <1>8, <1>9, <1>10, <1>11, <1>12, <1>13
     DEF PoolStep, PP!Next, PP!AcquirerStep
<1> QED
  BY <1>1, <1>14, <1>15, <1>16 DEF PP!Next

(* No step of the pool takes the lease of another request.                 *)
LEMMA LeaseKept ==
  ASSUME PP!PoolInv, NEW q \in Requests, NEW b \in Requests \ {q}, pc[b] = "leased", PoolStep(q)
  PROVE  pc'[b] = "leased"
<1>1. /\ pc \in [Requests -> PP!Steps] /\ semq \in Seq(Requests)
      /\ \A i \in 1..Len(semq) : pc[semq[i]] = "semwait"
  BY DEF PP!PoolInv, PP!TypeOK, PP!QueuesExact, PP!QueueAt
<1>2. ASSUME NEW to, P!Goto(q, to) PROVE pc'[b] = "leased"
  BY <1>1, <1>2 DEF P!Goto
<1>3. ASSUME P!SemRelease(q, "out") PROVE pc'[b] = "leased"
  <2>1. CASE semq # <<>> /\ pc' = [pc EXCEPT ![q] = "out", ![Head(semq)] = "granted"]
    <3>1. Head(semq) # b
      BY <1>1, <2>1
    <3> QED
      BY <1>1, <2>1, <3>1
  <2> QED
    BY <1>2, <1>3, <2>1 DEF P!SemRelease
<1>4. CASE P!AcquireBlock(q) \/ P!RetryAcquire(q)
  BY <1>2, <1>4 DEF P!AcquireBlock, P!RetryAcquire, P!SemAcquire
<1>5. CASE P!AcquireReject(q) \/ P!AcquireQueue(q)
  BY <1>2, <1>5 DEF P!AcquireReject, P!AcquireQueue
<1>6. CASE P!EnterPending(q) \/ P!PollNotified(q) \/ P!LeavePending(q)
  BY <1>2, <1>6 DEF P!EnterPending, P!PollNotified, P!LeavePending
<1>7. CASE P!TakeResource(q)
  <2>1. \E to : P!Goto(q, to)
    BY <1>7, Zenon DEF P!TakeResource
  <2> QED
    BY <1>2, <2>1
<1>8. CASE P!Timeout(q) \/ P!DropLease(q)
  BY <1>2, <1>8 DEF P!Timeout, P!DropLease
<1>9. CASE P!FailAcquire(q) \/ P!DropPermit(q)
  BY <1>3, <1>9 DEF P!FailAcquire, P!DropPermit
<1> QED
  BY <1>4, <1>5, <1>6, <1>7, <1>8, <1>9 DEF PoolStep

LEMMA LeaseKeptByAnnounce ==
  ASSUME PP!PoolInv, P!Announce, NEW b \in Requests, pc[b] = "leased"
  PROVE  pc'[b] = "leased"
<1>1. /\ pc \in [Requests -> PP!Steps] /\ sleepers \in Seq(Requests)
      /\ \A i \in 1..Len(sleepers) : pc[sleepers[i]] = "asleep"
  BY DEF PP!PoolInv, PP!TypeOK, PP!QueuesExact, PP!QueueAt
<1>2. CASE sleepers = <<>> /\ pc' = pc
  BY <1>2
<1>3. CASE sleepers # <<>> /\ pc' = [pc EXCEPT ![Head(sleepers)] = "woken"]
  BY <1>1, <1>3
<1> QED
  BY <1>2, <1>3 DEF P!Announce, P!NotifyOne, P!Goto

FlowInv == QueueInv /\ AnswerInv /\ PP!PoolInv /\ LeaseInv /\ MapInv

LEMMA FlowInit ==
  ASSUME PP!PoolAssumption, Init
  PROVE  FlowInv
<1>1. QueueInv /\ AnswerInv
  BY ResponderInit
<1>2. PP!PoolInv
  BY SamePool, PP!PoolInvInit DEF Init
<1>3. LeaseInv /\ MapInv
  BY DEF Init, LeaseInv, MapInv, InFlight
<1> QED
  BY <1>1, <1>2, <1>3 DEF FlowInv

(* Every step of the facade is one of the pool or leaves the pool alone.   *)
LEMMA PoolStepInv ==
  ASSUME PP!PoolAssumption, FlowInv, [Next]_vars
  PROVE  PP!PoolInv'
<1>1. PP!Next \/ UNCHANGED poolVars
  <2>1. ASSUME NEW q \in Requests, RequestStep(q) PROVE PP!Next \/ UNCHANGED poolVars
    <3>1. CASE PoolStep(q)
      BY <3>1, SamePool
    <3>2. CASE ~PoolStep(q)
      BY <2>1, <3>2 DEF RequestStep, StartAcquire, ContinueAcquire, Refuse, McpRefused, Forward, Deliver,
         ResponseTimeout, GiveUp, McpResult, McpExpired, DropLease, PoolStep
    <3> QED
      BY <3>1, <3>2
  <2>2. CASE ReturnTask
    BY <2>2, SamePool DEF ReturnTask
  <2>3. ASSUME NEW q \in Requests, Request(q) PROVE UNCHANGED poolVars
    BY <2>3 DEF Request
  <2>4. CASE Take \/ Expire \/ Stop \/ Demux
    BY <2>4 DEF Take, Expire, Stop, Demux
  <2>5. ASSUME NEW n \in SubNodes, NodeTake(n) \/ NodeRespond(n) PROVE UNCHANGED poolVars
    BY <2>5 DEF NodeTake, NodeRespond
  <2>6. CASE UNCHANGED vars
    BY <2>6 DEF vars
  <2> QED
    BY <2>1, <2>2, <2>3, <2>4, <2>5, <2>6 DEF Next
<1>2. [PP!Next]_(PP!vars)
  BY <1>1 DEF poolVars, PP!vars, PP!semVars, PP!stateVars, PP!notifyVars, PP!taskVars
<1> QED
  BY <1>2, PP!PoolInvNext DEF FlowInv

LEMMA LeaseStep ==
  ASSUME PP!PoolAssumption, FlowInv, [Next]_vars
  PROVE  LeaseInv'
<1>a. stage \in [Requests -> Stages] /\ LeaseInv /\ QueueInv
  BY DEF FlowInv, QueueInv
<1>b. ASSUME NEW q \in Requests, NEW to, Move(q, to), UNCHANGED poolVars,
             to \in InFlight => stage[q] \in InFlight
      PROVE  LeaseInv'
  BY <1>a, <1>b DEF LeaseInv, Move, poolVars
<1>c. UNCHANGED <<stage, poolVars>> => LeaseInv'
  BY <1>a DEF LeaseInv, poolVars
<1>d. ASSUME NEW q \in Requests, PoolStep(q), NEW to, Move(q, to),
             to \in InFlight => pc'[q] = "leased"
      PROVE  LeaseInv'
  <2> SUFFICES ASSUME NEW b \in Requests, stage'[b] \in InFlight PROVE pc'[b] = "leased"
    BY DEF LeaseInv
  <2>1. CASE b = q
    BY <1>a, <1>d, <2>1 DEF Move
  <2>2. CASE b # q
    <3>1. stage'[b] = stage[b] /\ pc[b] = "leased"
      BY <1>a, <1>d, <2>2 DEF Move, LeaseInv
    <3> QED
      BY <1>d, <2>2, <3>1, LeaseKept DEF FlowInv
  <2> QED
    BY <2>1, <2>2
<1>1. ASSUME NEW q \in Requests, StartAcquire(q) PROVE LeaseInv'
  <2>1. PoolStep(q)
    BY <1>1 DEF StartAcquire, PoolStep
  <2>2. PICK to \in {"refused", "acquiring"} : Move(q, to)
    BY <1>1 DEF StartAcquire, Move
  <2> QED
    BY <1>d, <2>1, <2>2 DEF InFlight
<1>2. ASSUME NEW q \in Requests, ContinueAcquire(q) PROVE LeaseInv'
  <2>1. PoolStep(q)
    BY <1>2 DEF ContinueAcquire, PoolStep
  <2>2. PICK to \in {"refused", "acquiring", "leased"} : Move(q, to) /\ (to = "leased" => pc'[q] = "leased")
    BY <1>2 DEF ContinueAcquire, Move
  <2> QED
    BY <1>d, <2>1, <2>2 DEF InFlight
<1>3. ASSUME NEW q \in Requests, Refuse(q) \/ McpRefused(q) \/ Deliver(q) \/ GiveUp(q) \/ McpExpired(q)
      PROVE  LeaseInv'
  <2>1. PICK to \in {"releasing", "done"} : Move(q, to)
    BY <1>3 DEF Refuse, McpRefused, Deliver, GiveUp, McpExpired
  <2>2. UNCHANGED poolVars
    BY <1>3 DEF Refuse, McpRefused, Deliver, GiveUp, McpExpired
  <2> QED
    BY <1>b, <2>1, <2>2 DEF InFlight
<1>4. ASSUME NEW q \in Requests, Forward(q) \/ ResponseTimeout(q) PROVE LeaseInv'
  <2>1. stage[q] \in InFlight /\ UNCHANGED poolVars /\ \E to : Move(q, to)
    BY <1>4 DEF Forward, ResponseTimeout, InFlight
  <2> QED
    BY <1>b, <2>1
<1>5. ASSUME NEW q \in Requests, McpResult(q) PROVE LeaseInv'
  <2>1. UNCHANGED poolVars /\ (Move(q, "releasing") \/ UNCHANGED stage)
    BY <1>5 DEF McpResult
  <2> QED
    BY <1>b, <1>c, <2>1 DEF InFlight
<1>6. ASSUME NEW q \in Requests, DropLease(q) PROVE LeaseInv'
  <2>1. PoolStep(q) /\ (Move(q, "releasing") \/ Move(q, "done"))
    <3>1. stage[q] = "releasing" /\ (stage' = stage => stage' = [stage EXCEPT ![q] = "releasing"])
      BY <1>6, <1>a DEF DropLease
    <3> QED
      BY <1>6, <3>1 DEF DropLease, PoolStep, Move
  <2> QED
    BY <1>d, <2>1 DEF InFlight
<1>7. CASE ReturnTask
  <2>1. stage' = stage
    BY <1>7 DEF ReturnTask
  <2>2. ASSUME NEW r \in Resources, P!ReturnPush(r) PROVE LeaseInv'
    BY <1>a, <2>1, <2>2 DEF P!ReturnPush, LeaseInv
  <2>3. CASE P!Announce
    BY <1>a, <2>1, <2>3, LeaseKeptByAnnounce DEF LeaseInv, FlowInv
  <2> QED
    BY <1>7, <2>2, <2>3 DEF ReturnTask
<1>8. ASSUME NEW q \in Requests, Request(q) PROVE LeaseInv'
  <2>1. Move(q, "queued") /\ UNCHANGED poolVars
    BY <1>8 DEF Request
  <2> QED
    BY <1>b, <2>1 DEF InFlight
<1>9. CASE Take
  <2>1. Head(topq) \in Requests /\ Move(Head(topq), "taken") /\ UNCHANGED poolVars
    BY <1>9, <1>a, TakeFacts DEF Take
  <2> QED
    BY <1>b, <2>1 DEF InFlight
<1>10. CASE Expire \/ Stop \/ Demux
  BY <1>10, <1>c DEF Expire, Stop, Demux
<1>11. ASSUME NEW n \in SubNodes, NodeTake(n) \/ NodeRespond(n) PROVE LeaseInv'
  BY <1>11, <1>c DEF NodeTake, NodeRespond
<1>12. CASE UNCHANGED vars
  BY <1>12, <1>c DEF vars
<1> QED
  BY <1>1, <1>2, <1>3, <1>4, <1>5, <1>6, <1>7, <1>8, <1>9, <1>10, <1>11, <1>12 DEF Next, RequestStep

LEMMA MapStep ==
  ASSUME FlowInv, [Next]_vars
  PROVE  MapInv'
<1>a. stage \in [Requests -> Stages] /\ MapInv /\ QueueInv
  BY DEF FlowInv, QueueInv
<1>k. kind' = kind
  BY DEF Next, vars
<1>b. ASSUME UNCHANGED <<stage, registered, filled>> PROVE MapInv'
  BY <1>a, <1>k, <1>b DEF MapInv, Serial
<1>c. ASSUME NEW q \in Requests, NEW to \in Stages \ {"unsent", "queued"}, Move(q, to),
             filled' = filled, registered' \subseteq registered,
             q \in registered' => to \notin {"releasing", "done"}
      PROVE  MapInv'
  BY <1>a, <1>k, <1>c DEF MapInv, Move, Serial
<1> USE DEF loopVars, subVars
<1>1. ASSUME NEW q \in Requests, StartAcquire(q) \/ ContinueAcquire(q) PROVE MapInv'
  <2>1. PICK to \in {"refused", "acquiring", "leased"} : Move(q, to)
    BY <1>1 DEF StartAcquire, ContinueAcquire, Move
  <2>2. UNCHANGED <<registered, filled>>
    BY <1>1 DEF StartAcquire, ContinueAcquire
  <2> QED
    BY <1>c, <2>1, <2>2 DEF Stages
<1>2. ASSUME NEW q \in Requests, Refuse(q) \/ GiveUp(q) PROVE MapInv'
  <2>1. filled' = filled /\ registered' = registered \ {q} /\ (Move(q, "done") \/ Move(q, "releasing"))
    BY <1>2 DEF Refuse, GiveUp
  <2> QED
    BY <1>c, <2>1 DEF Stages
<1>3. ASSUME NEW q \in Requests, McpRefused(q) \/ McpExpired(q) \/ (McpResult(q) /\ stage' # stage)
      PROVE  MapInv'
  <2>1. UNCHANGED <<registered, filled>> /\ (Move(q, "done") \/ Move(q, "releasing")) /\ Serial
    BY <1>3 DEF McpRefused, McpExpired, McpResult
  <2>2. registered = {}
    BY <1>a, <2>1 DEF MapInv
  <2> QED
    BY <1>c, <2>1, <2>2 DEF Stages
<1>4. ASSUME NEW q \in Requests, McpResult(q), stage' = stage PROVE MapInv'
  BY <1>b, <1>4 DEF McpResult
<1>5. ASSUME NEW q \in Requests, Forward(q) \/ ResponseTimeout(q) PROVE MapInv'
  <2>1. UNCHANGED <<registered, filled>> /\ (Move(q, "waiting") \/ Move(q, "late"))
    BY <1>5 DEF Forward, ResponseTimeout
  <2> QED
    BY <1>c, <2>1 DEF Stages
<1>6. ASSUME NEW q \in Requests, Deliver(q) PROVE MapInv'
  <2>1. UNCHANGED <<registered, filled>> /\ Move(q, "releasing") /\ q \in filled
    BY <1>6 DEF Deliver
  <2>2. q \notin registered
    BY <1>a, <2>1 DEF MapInv
  <2> QED
    BY <1>c, <2>1, <2>2 DEF Stages
<1>7. ASSUME NEW q \in Requests, DropLease(q) PROVE MapInv'
  <2>1. stage[q] = "releasing" /\ UNCHANGED <<registered, filled>> /\ (stage' = stage \/ Move(q, "done"))
    BY <1>7 DEF DropLease
  <2>2. q \notin registered
    BY <1>a, <2>1 DEF MapInv
  <2> QED
    BY <1>b, <1>c, <2>1, <2>2 DEF Stages
<1>8. CASE ReturnTask \/ Expire \/ Stop
  BY <1>8, <1>b DEF ReturnTask, Expire, Stop
<1>9. ASSUME NEW q \in Requests, Request(q) PROVE MapInv'
  <2>1. stage[q] = "unsent" /\ Move(q, "queued") /\ UNCHANGED <<registered, filled>>
    BY <1>9 DEF Request
  <2>2. q \notin registered /\ q \notin filled
    BY <1>a, <2>1 DEF MapInv
  <2> QED
    BY <1>a, <1>k, <2>1, <2>2 DEF MapInv, Move, Serial
<1>10. CASE Take
  <2> DEFINE q == Head(topq)
  <2>1. q \in Requests /\ stage[q] = "queued" /\ stage' = [stage EXCEPT ![q] = "taken"]
    BY <1>10, <1>a, TakeFacts
  <2>2. filled' = filled /\ registered' = IF Serial THEN registered ELSE registered \cup {q}
    BY <1>10 DEF Take
  <2>3. q \notin filled
    BY <1>a, <2>1 DEF MapInv
  <2> HIDE DEF q
  <2> QED
    BY <1>a, <1>k, <2>1, <2>2, <2>3 DEF MapInv, Serial, Stages
<1>11. CASE Demux
  <2>1. /\ registered' = registered \ {Head(subq)} /\ stage' = stage
        /\ filled' = filled \cup (registered \cap {Head(subq)})
    BY <1>11 DEF Demux
  <2> QED
    BY <1>a, <1>k, <2>1 DEF MapInv, Serial
<1>12. ASSUME NEW n \in SubNodes, NodeTake(n) \/ NodeRespond(n) PROVE MapInv'
  BY <1>12, <1>b DEF NodeTake, NodeRespond
<1>13. CASE UNCHANGED vars
  BY <1>13, <1>b DEF vars
<1> QED
  BY <1>1, <1>2, <1>3, <1>4, <1>5, <1>6, <1>7, <1>8, <1>9, <1>10, <1>11, <1>12, <1>13
     DEF Next, RequestStep

(* A facade forwards at most max_size requests at a time, each under its   *)
(* lease until its answer or its timeout, and its PendingMap keeps no      *)
(* request that is over.                                                   *)
THEOREM FacadeBackpressure ==
  ASSUME PP!PoolAssumption
  PROVE  Spec => []Backpressure
<1>1. Init => FlowInv
  BY FlowInit
<1>2. FlowInv /\ [Next]_vars => FlowInv'
  BY PoolStepInv, LeaseStep, MapStep, ResponderStep DEF FlowInv
<1>3. ASSUME FlowInv PROVE Backpressure
  <2> DEFINE F == {q \in Requests : stage[q] \in {"leased", "waiting", "late"}}
  <2>1. F \subseteq PP!Holders /\ PP!Holders \subseteq Requests
    BY <1>3 DEF FlowInv, LeaseInv, InFlight, PP!Holders, PP!HoldingPermit
  <2>2. /\ IsFiniteSet(Requests) /\ MaxSize \in Nat
        /\ permits + Cardinality(PP!Holders) = MaxSize /\ permits \in Nat
    BY <1>3, SameCount DEF FlowInv, PP!PoolInv, PP!PermitsConserved, PP!TypeOK, PP!PoolAssumption
  <2>3. /\ Cardinality(F) <= Cardinality(PP!Holders)
        /\ Cardinality(F) \in Nat /\ Cardinality(PP!Holders) \in Nat
    BY <2>1, <2>2, FS_Subset, FS_CardinalityType
  <2>4. Cardinality(F) <= MaxSize
    BY <2>2, <2>3
  <2> QED
    BY <1>3, <2>4 DEF FlowInv, LeaseInv, InFlight, MapInv, Backpressure
<1> QED
  BY <1>1, <1>2, <1>3, PTL DEF Spec
=============================================================================
