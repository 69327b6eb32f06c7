----------------------------- MODULE OutboxProofs -----------------------------
(***************************************************************************)
(* Proofs about Outbox for any requests, any mix of message types, any     *)
(* capacity of the dedup cache and any number of restarts.                 *)
(***************************************************************************)
EXTENDS Outbox, TLAPS

-----------------------------------------------------------------------------
(* The inductive invariant *)

(* Whatever was sent or recorded was handed out, and whatever was answered *)
(* was sent.                                                               *)
Causality ==
  \A c \in Cids :
    /\ sends[c] > 0 => c \in used
    /\ attempt[c] > 0 => c \in used
    /\ atPeer[c] > 0 => sends[c] > 0
    /\ inbox[c] > 0 => sends[c] > 0
    /\ c \in replied => sends[c] > 0

(* The request between its record and its send is new.                     *)
FreshRecord == pc = "recorded" => cur \in used /\ sends[cur] = 0

(* The request between a resend and its record has one more send.          *)
ResentBacked == pc = "resent" => sends[cur] > 0 /\ attempt[cur] <= sends[cur]

(* What is still to be resent was handed out and has no reply on record.   *)
TodoUnanswered ==
  /\ todo \cap replied = {} /\ todo \subseteq used
  /\ pc \notin {"resend", "resent"} => todo = {}

(* RecordedIsSent, with what the steps in between have still to do.        *)
Settled(c) == attempt[c] > 0 /\ Kind[c] # "custom" /\ c \notin failed => sends[c] > 0
AllSettled ==
  \A c \in Cids :
    pc = "down" \/ c \in todo \/ (pc = "recorded" /\ c = cur) \/ Settled(c)

(* A reply that was passed on is cached until its id is dropped.           *)
DispatchCached ==
  \A c \in Cids :
    Kind[c] # "custom" /\ c \notin evicted =>
      dispatched[c] <= (IF Cached(c) THEN 1 ELSE 0)

IInv ==
  /\ TypeOK /\ AttemptsBacked
  /\ Causality /\ FreshRecord /\ ResentBacked /\ TodoUnanswered /\ AllSettled
  /\ DispatchCached
-----------------------------------------------------------------------------
(* Type correctness *)

(* What the two updates of a family of counters do.                        *)
LEMMA PlusFacts ==
  ASSUME NEW f \in Counts, NEW c \in Cids
  PROVE  /\ Plus(f, c) \in Counts
         /\ Plus(f, c)[c] = f[c] + 1
         /\ \A d \in Cids : d # c => Plus(f, c)[d] = f[d]
         /\ \A d \in Cids : Plus(f, c)[d] >= f[d]
BY DEF Plus, Counts

(* Taking one from a counter that is not zero.                             *)
LEMMA MinusFacts ==
  ASSUME NEW f \in Counts, NEW c \in Cids, f[c] > 0
  PROVE  /\ Minus(f, c) \in Counts
         /\ \A d \in Cids : Minus(f, c)[d] <= f[d]
BY DEF Minus, Counts

(* No counts at all.                                                       *)
LEMMA NoneFacts == None \in Counts /\ \A c \in Cids : None[c] = 0
BY DEF None, Counts

(* LruCache::put keeps the cache within its capacity.                      *)
LEMMA CachePutType ==
  ASSUME TypeOK, NEW c \in Cids, CachePut(c)
  PROVE  /\ dedup' \in Seq(Cids) /\ Len(dedup') <= Capacity
         /\ evicted' \subseteq Cids
<1> USE OutboxAssumption DEF TypeOK
<1>1. CASE Len(dedup) < Capacity
  BY <1>1 DEF CachePut
<1>2. CASE ~(Len(dedup) < Capacity)
  <2>1. dedup # <<>> /\ Len(dedup) = Capacity
    BY <1>2
  <2>2. /\ Head(dedup) \in Cids
        /\ Tail(dedup) \in Seq(Cids) /\ Len(Tail(dedup)) = Len(dedup) - 1
    BY <2>1
  <2> QED
    BY <1>2, <2>1, <2>2 DEF CachePut
<1> QED
  BY <1>1, <1>2

(* Every step of Outbox keeps the shape of the variables.                  *)
LEMMA TypeStep == TypeOK /\ [Next]_vars => TypeOK'
<1>1. SUFFICES ASSUME TypeOK, [Next]_vars PROVE TypeOK'
  OBVIOUS
<1> USE OutboxAssumption
<1>2. CASE Record
  <2>1. PICK c \in Cids \ used :
          /\ used' = used \cup {c}
          /\ \/ attempt' = [attempt EXCEPT ![c] = 1] /\ pc' = "recorded" /\ cur' = c
             \/ UNCHANGED <<attempt, pc, cur>>
    BY <1>2 DEF Record
  <2>2. [attempt EXCEPT ![c] = 1] \in Counts
    BY <1>1 DEF TypeOK, Counts
  <2> QED
    BY <1>1, <1>2, <2>1, <2>2 DEF TypeOK, Record, logVars, procVars
<1>3. CASE Send
  <2>1. cur \in Cids /\ Plus(sends, cur) \in Counts /\ Plus(atPeer, cur) \in Counts
    BY <1>1, <1>3, PlusFacts DEF TypeOK, Send
  <2> QED
    BY <1>1, <1>3, <2>1 DEF TypeOK, Send, PutOnBus, logVars, procVars
<1>4. CASE TakeReply
  <2>1. cur \in Cids /\ Minus(inbox, cur) \in Counts
    BY <1>1, <1>4, MinusFacts DEF TypeOK, TakeReply
  <2> QED
    BY <1>1, <1>4, <2>1 DEF TypeOK, TakeReply, logVars, procVars
<1>5. CASE GiveUp
  BY <1>1, <1>5 DEF TypeOK, GiveUp, logVars, procVars
<1>6. CASE SkipReply
  BY <1>1, <1>6, MinusFacts DEF TypeOK, SkipReply, logVars, procVars
<1>7. CASE DropDuplicate
  <2>1. PICK c \in Cids : Unexpected(c)
    BY <1>7 DEF DropDuplicate
  <2>2. Minus(inbox, c) \in Counts
    BY <1>1, <2>1, MinusFacts DEF TypeOK, Unexpected
  <2> QED
    BY <1>1, <1>7, <2>1, <2>2 DEF TypeOK, DropDuplicate, Unexpected, procVars
<1>8. CASE Dispatch
  <2>1. PICK c \in Cids :
          /\ Unexpected(c)
          /\ \/ UNCHANGED <<replied, dedup, evicted>>
             \/ CachePut(c) /\ (replied' = replied \cup {c} \/ UNCHANGED replied)
          /\ dispatched' = Plus(dispatched, c)
    BY <1>8 DEF Dispatch
  <2>2. Minus(inbox, c) \in Counts /\ Plus(dispatched, c) \in Counts
    BY <1>1, <2>1, MinusFacts, PlusFacts DEF TypeOK, Unexpected
  <2>3. dedup' \in Seq(Cids) /\ Len(dedup') <= Capacity /\ evicted' \subseteq Cids
    <3>1. CASE CachePut(c)
      BY <1>1, <3>1, CachePutType
    <3>2. CASE UNCHANGED <<replied, dedup, evicted>>
      BY <1>1, <3>2 DEF TypeOK
    <3> QED
      BY <2>1, <3>1, <3>2
  <2>4. replied' \subseteq Cids
    BY <1>1, <2>1 DEF TypeOK
  <2>5. pc' = "up" /\ cur' = NoCid
    BY <1>8 DEF Dispatch
  <2> QED
    BY <1>1, <2>1, <2>2, <2>3, <2>4, <2>5 DEF TypeOK, Unexpected
<1>9. CASE Reply
  BY <1>1, <1>9, MinusFacts, PlusFacts DEF TypeOK, Reply, logVars, procVars
<1>10. CASE Crash
  BY <1>1, <1>10, NoneFacts DEF TypeOK, Crash, logVars
<1>11. CASE Restart
  BY <1>1, <1>11 DEF TypeOK, Restart, Pending, logVars, procVars
<1>12. CASE Resend
  <2>1. PICK c \in todo :
          /\ todo' = todo \ {c}
          /\ \/ UNCHANGED <<pc, cur, atPeer, sends, failed>>
             \/ PutOnBus(c) /\ pc' = "resent" /\ cur' = c /\ UNCHANGED failed
             \/ failed' = failed \cup {c} /\ UNCHANGED <<pc, cur, atPeer, sends>>
    BY <1>12 DEF Resend
  <2>2. c \in Cids /\ Plus(sends, c) \in Counts /\ Plus(atPeer, c) \in Counts
    BY <1>1, <2>1, PlusFacts DEF TypeOK
  <2> QED
    BY <1>1, <1>12, <2>1, <2>2 DEF TypeOK, Resend, PutOnBus, logVars, procVars
<1>13. CASE RecordAttempt
  <2>1. cur \in Cids /\ Plus(attempt, cur) \in Counts
    BY <1>1, <1>13, PlusFacts DEF TypeOK, RecordAttempt
  <2> QED
    BY <1>1, <1>13, <2>1 DEF TypeOK, RecordAttempt, procVars
<1>14. CASE Built
  BY <1>1, <1>14 DEF TypeOK, Built, logVars, procVars
<1>15. CASE UNCHANGED vars
  BY <1>1, <1>15 DEF TypeOK, vars, logVars, procVars
<1> QED
  BY <1>1, <1>2, <1>3, <1>4, <1>5, <1>6, <1>7, <1>8, <1>9, <1>10, <1>11, <1>12, <1>13, <1>14,
     <1>15 DEF Next

-----------------------------------------------------------------------------
(* Safety *)

(* Nothing is answered before it was sent.                                 *)
LEMMA CausalityStep == IInv /\ [Next]_vars => Causality'
<1>1. SUFFICES ASSUME IInv, [Next]_vars PROVE Causality'
  OBVIOUS
<1>0. TypeOK'
  BY <1>1, TypeStep DEF IInv
<1> USE <1>0, <1>1, OutboxAssumption DEF IInv, TypeOK, Counts, Causality, FreshRecord, TodoUnanswered
<1>2. CASE Record
  BY <1>2 DEF Record, logVars, procVars
<1>3. CASE Send
  <2>1. /\ cur \in Cids /\ cur \in used /\ UNCHANGED <<attempt, replied, inbox, used>>
        /\ sends \in Counts /\ atPeer \in Counts /\ Causality
        /\ PutOnBus(cur) \/ UNCHANGED <<atPeer, sends>>
    BY <1>3 DEF Send, logVars
  <2> HIDE <1>0, <1>1 DEF IInv, TypeOK, Counts, FreshRecord, TodoUnanswered
  <2>2. CASE PutOnBus(cur)
    <3>1. /\ \A d \in Cids : d # cur => sends'[d] = sends[d] /\ atPeer'[d] = atPeer[d]
          /\ sends'[cur] = sends[cur] + 1 /\ sends[cur] \in Nat
      BY <2>1, <2>2, PlusFacts DEF PutOnBus, Counts
    <3> QED
      BY <2>1, <3>1
  <2>3. CASE UNCHANGED <<atPeer, sends>>
    BY <2>1, <2>3
  <2> QED
    BY <2>1, <2>2, <2>3
<1>4. CASE TakeReply
  BY <1>4 DEF TakeReply, Minus, logVars, procVars
<1>5. CASE GiveUp
  BY <1>5 DEF GiveUp, logVars, procVars
<1>6. CASE SkipReply
  BY <1>6 DEF SkipReply, Minus, logVars, procVars
<1>7. CASE DropDuplicate
  BY <1>7 DEF DropDuplicate, Unexpected, Minus, logVars, procVars
<1>8. CASE Dispatch
  BY <1>8 DEF Dispatch, Unexpected, Minus, CachePut, logVars, procVars
<1>9. CASE Reply
  BY <1>9 DEF Reply, Plus, Minus, logVars, procVars
<1>10. CASE Crash
  BY <1>10 DEF Crash, None, logVars, procVars
<1>11. CASE Restart
  BY <1>11 DEF Restart, Pending, logVars, procVars
<1>12. CASE Resend
  <2>1. PICK c \in todo :
          \/ PutOnBus(c)
          \/ UNCHANGED <<atPeer, sends>>
    BY <1>12 DEF Resend
  <2>2. /\ c \in Cids /\ c \in used /\ UNCHANGED <<attempt, replied, inbox, used>>
        /\ sends \in Counts /\ atPeer \in Counts /\ Causality
    BY <1>12, <2>1 DEF Resend, logVars
  <2> HIDE <1>0, <1>1 DEF IInv, TypeOK, Counts
  <2>3. CASE PutOnBus(c)
    <3>1. /\ \A d \in Cids : d # c => sends'[d] = sends[d] /\ atPeer'[d] = atPeer[d]
          /\ sends'[c] = sends[c] + 1 /\ sends[c] \in Nat
      BY <2>2, <2>3, PlusFacts DEF PutOnBus, Counts
    <3> QED
      BY <2>2, <3>1
  <2>4. CASE UNCHANGED <<atPeer, sends>>
    BY <2>2, <2>4
  <2> QED
    BY <2>1, <2>3, <2>4
<1>13. CASE RecordAttempt
  <2>1. /\ cur \in Cids /\ cur \in used /\ attempt \in Counts /\ Causality
        /\ UNCHANGED <<sends, replied, inbox, atPeer, used>>
    BY <1>13 DEF RecordAttempt, ResentBacked
  <2> HIDE <1>0, <1>1 DEF IInv, TypeOK, Counts
  <2>2. \A d \in Cids : d # cur => attempt'[d] = attempt[d]
    BY <1>13, <2>1, PlusFacts DEF RecordAttempt
  <2> QED
    BY <2>1, <2>2
<1>14. CASE Built
  BY <1>14 DEF Built, logVars, procVars
<1>15. CASE UNCHANGED vars
  BY <1>15 DEF vars, logVars, procVars
<1> QED
  BY <1>2, <1>3, <1>4, <1>5, <1>6, <1>7, <1>8, <1>9, <1>10, <1>11, <1>12, <1>13, <1>14, <1>15
     DEF Next

(* A request is recorded once before its first send.                       *)
LEMMA FreshStep == IInv /\ [Next]_vars => FreshRecord'
<1>1. SUFFICES ASSUME IInv, [Next]_vars PROVE FreshRecord'
  OBVIOUS
<1>0. TypeOK'
  BY <1>1, TypeStep DEF IInv
<1> USE <1>0, <1>1, OutboxAssumption DEF IInv, TypeOK, Counts, Causality, FreshRecord
<1>2. CASE Record
  BY <1>2 DEF Record, logVars, procVars
<1>3. CASE Send
  BY <1>3 DEF Send, PutOnBus, Plus, logVars, procVars
<1>4. CASE TakeReply
  BY <1>4 DEF TakeReply, Minus, logVars, procVars
<1>5. CASE GiveUp
  BY <1>5 DEF GiveUp, logVars, procVars
<1>6. CASE SkipReply
  BY <1>6 DEF SkipReply, Minus, logVars, procVars
<1>7. CASE DropDuplicate
  BY <1>7 DEF DropDuplicate, Unexpected, Minus, logVars, procVars
<1>8. CASE Dispatch
  BY <1>8 DEF Dispatch, Unexpected, Minus, CachePut, logVars, procVars
<1>9. CASE Reply
  BY <1>9 DEF Reply, Plus, Minus, logVars, procVars
<1>10. CASE Crash
  BY <1>10 DEF Crash, None, logVars, procVars
<1>11. CASE Restart
  BY <1>11 DEF Restart, Pending, logVars, procVars
<1>12. CASE Resend
  BY <1>12 DEF Resend, PutOnBus, Plus, logVars, procVars
<1>13. CASE RecordAttempt
  BY <1>13 DEF RecordAttempt, Plus, logVars, procVars
<1>14. CASE Built
  BY <1>14 DEF Built, logVars, procVars
<1>15. CASE UNCHANGED vars
  BY <1>15 DEF vars, logVars, procVars
<1> QED
  BY <1>2, <1>3, <1>4, <1>5, <1>6, <1>7, <1>8, <1>9, <1>10, <1>11, <1>12, <1>13, <1>14, <1>15
     DEF Next

(* Attempts are recorded after they were made.                             *)
LEMMA BackedStep == IInv /\ [Next]_vars => (AttemptsBacked /\ ResentBacked)'
<1>1. SUFFICES ASSUME IInv, [Next]_vars PROVE AttemptsBacked' /\ ResentBacked'
  OBVIOUS
<1>2. /\ TypeOK /\ AttemptsBacked /\ ResentBacked
      /\ \A d \in Cids : attempt[d] \in Nat /\ sends[d] \in Nat
      /\ \A d \in Cids : attempt'[d] \in Nat /\ sends'[d] \in Nat
  BY <1>1, TypeStep DEF IInv, TypeOK, Counts
<1>3. CASE UNCHANGED <<attempt, sends>> /\ (pc' = "resent" => pc = "resent" /\ UNCHANGED cur)
  BY <1>2, <1>3 DEF AttemptsBacked, ResentBacked
<1>4. CASE Record
  <2>1. PICK c \in Cids : attempt' = [attempt EXCEPT ![c] = 1] \/ UNCHANGED attempt
    BY <1>4 DEF Record
  <2>2. UNCHANGED sends /\ pc' # "resent"
    BY <1>4 DEF Record
  <2>3. \A d \in Cids : attempt'[d] = attempt[d] \/ attempt'[d] = 1
    BY <1>2, <2>1 DEF TypeOK, Counts
  <2> QED
    BY <1>2, <2>2, <2>3 DEF AttemptsBacked, ResentBacked
<1>5. CASE Send
  <2>1. cur \in Cids /\ UNCHANGED attempt /\ pc' # "resent"
    BY <1>2, <1>5 DEF TypeOK, Send, logVars
  <2>2. \A d \in Cids : sends'[d] >= sends[d]
    BY <1>2, <1>5, <2>1, PlusFacts DEF TypeOK, Send, PutOnBus
  <2> QED
    BY <1>2, <2>1, <2>2 DEF AttemptsBacked, ResentBacked
<1>6. CASE Resend
  <2>1. PICK c \in todo :
          \/ PutOnBus(c) /\ pc' = "resent" /\ cur' = c
          \/ UNCHANGED <<pc, sends>>
    BY <1>6 DEF Resend
  <2>2. UNCHANGED attempt /\ pc = "resend" /\ c \in Cids
    BY <1>2, <1>6, <2>1 DEF TypeOK, Resend, logVars
  <2>3. CASE PutOnBus(c) /\ pc' = "resent" /\ cur' = c
    <3>1. /\ \A d \in Cids : sends'[d] >= sends[d]
          /\ sends'[c] = sends[c] + 1
      BY <1>2, <2>2, <2>3, PlusFacts DEF TypeOK, PutOnBus
    <3> QED
      BY <1>2, <2>2, <2>3, <3>1 DEF AttemptsBacked, ResentBacked
  <2>4. CASE UNCHANGED <<pc, sends>>
    BY <1>2, <2>2, <2>4 DEF AttemptsBacked, ResentBacked
  <2> QED
    BY <2>1, <2>3, <2>4
<1>7. CASE RecordAttempt
  <2>1. cur \in Cids /\ UNCHANGED sends /\ pc' = "resend" /\ attempt[cur] <= sends[cur]
    BY <1>2, <1>7 DEF TypeOK, RecordAttempt, ResentBacked
  <2>2. \A d \in Cids : attempt'[d] = attempt[d] \/ (d = cur /\ attempt'[d] = attempt[d] + 1)
    BY <1>2, <1>7, <2>1, PlusFacts DEF TypeOK, RecordAttempt
  <2> QED
    BY <1>2, <2>1, <2>2 DEF AttemptsBacked, ResentBacked
<1>8. CASE \/ TakeReply \/ GiveUp \/ SkipReply \/ Reply \/ Crash \/ Restart \/ Built
           \/ UNCHANGED vars
  BY <1>3, <1>8 DEF TakeReply, GiveUp, SkipReply, Reply, Crash, Restart, Built, vars, logVars
<1>9. CASE DropDuplicate \/ Dispatch
  BY <1>3, <1>9 DEF DropDuplicate, Dispatch, Unexpected
<1> QED
  BY <1>1, <1>4, <1>5, <1>6, <1>7, <1>8, <1>9 DEF Next

(* No reply is recorded while the engine resends.                          *)
LEMMA TodoStep == IInv /\ [Next]_vars => TodoUnanswered'
<1>1. SUFFICES ASSUME IInv, [Next]_vars PROVE TodoUnanswered'
  OBVIOUS
<1>0. TypeOK'
  BY <1>1, TypeStep DEF IInv
<1> USE <1>0, <1>1, OutboxAssumption DEF IInv, TypeOK, Counts, TodoUnanswered, Causality
<1>2. CASE Record
  BY <1>2 DEF Record, logVars, procVars
<1>3. CASE Send
  BY <1>3 DEF Send, PutOnBus, Plus, logVars, procVars
<1>4. CASE TakeReply
  BY <1>4 DEF TakeReply, Minus, logVars, procVars
<1>5. CASE GiveUp
  BY <1>5 DEF GiveUp, logVars, procVars
<1>6. CASE SkipReply
  BY <1>6 DEF SkipReply, Minus, logVars, procVars
<1>7. CASE DropDuplicate
  BY <1>7 DEF DropDuplicate, Unexpected, Minus, logVars, procVars
<1>8. CASE Dispatch
  BY <1>8 DEF Dispatch, Unexpected, Minus, CachePut, logVars, procVars
<1>9. CASE Reply
  BY <1>9 DEF Reply, Plus, Minus, logVars, procVars
<1>10. CASE Crash
  BY <1>10 DEF Crash, None, logVars, procVars
<1>11. CASE Restart
  BY <1>11 DEF Restart, Pending, logVars, procVars
<1>12. CASE Resend
  BY <1>12 DEF Resend, PutOnBus, Plus, logVars, procVars
<1>13. CASE RecordAttempt
  BY <1>13 DEF RecordAttempt, Plus, logVars, procVars
<1>14. CASE Built
  BY <1>14 DEF Built, logVars, procVars
<1>15. CASE UNCHANGED vars
  BY <1>15 DEF vars, logVars, procVars
<1> QED
  BY <1>2, <1>3, <1>4, <1>5, <1>6, <1>7, <1>8, <1>9, <1>10, <1>11, <1>12, <1>13, <1>14, <1>15
     DEF Next

(* What is recorded gets sent.                                             *)
LEMMA SettledStep == IInv /\ [Next]_vars => AllSettled'
<1>1. SUFFICES ASSUME IInv, [Next]_vars PROVE AllSettled'
  OBVIOUS
<1>0. TypeOK'
  BY <1>1, TypeStep DEF IInv
<1> USE <1>0, <1>1, OutboxAssumption DEF IInv, TypeOK, Counts, AllSettled, Settled, FreshRecord, Causality, TodoUnanswered, ResentBacked
<1>2. CASE Record
  BY <1>2 DEF Record, logVars, procVars
<1>3. CASE Send
  BY <1>3 DEF Send, PutOnBus, Plus, logVars, procVars
<1>4. CASE TakeReply
  BY <1>4 DEF TakeReply, Minus, logVars, procVars
<1>5. CASE GiveUp
  BY <1>5 DEF GiveUp, logVars, procVars
<1>6. CASE SkipReply
  BY <1>6 DEF SkipReply, Minus, logVars, procVars
<1>7. CASE DropDuplicate
  BY <1>7 DEF DropDuplicate, Unexpected, Minus, logVars, procVars
<1>8. CASE Dispatch
  BY <1>8 DEF Dispatch, Unexpected, Minus, CachePut, logVars, procVars
<1>9. CASE Reply
  BY <1>9 DEF Reply, Plus, Minus, logVars, procVars
<1>10. CASE Crash
  BY <1>10 DEF Crash, None, logVars, procVars
<1>11. CASE Restart
  BY <1>11 DEF Restart, Pending, logVars, procVars
<1>12. CASE Resend
  BY <1>12 DEF Resend, PutOnBus, Plus, logVars, procVars
<1>13. CASE RecordAttempt
  BY <1>13 DEF RecordAttempt, Plus, logVars, procVars
<1>14. CASE Built
  BY <1>14 DEF Built, logVars, procVars
<1>15. CASE UNCHANGED vars
  BY <1>15 DEF vars, logVars, procVars
<1> QED
  BY <1>2, <1>3, <1>4, <1>5, <1>6, <1>7, <1>8, <1>9, <1>10, <1>11, <1>12, <1>13, <1>14, <1>15
     DEF Next

(* LruCache::put keeps every id it does not drop, and adds the new one.    *)
LEMMA CachePutKeeps ==
  ASSUME TypeOK, NEW c \in Cids, CachePut(c)
  PROVE  /\ Cached(c)'
         /\ evicted \subseteq evicted'
         /\ \A d \in Cids \ evicted' : Cached(d) => Cached(d)'
<1>1. dedup \in Seq(Cids) /\ Capacity \in Nat \ {0} /\ Len(dedup) <= Capacity
  BY OutboxAssumption DEF TypeOK
<1>2. CASE Len(dedup) < Capacity
  <2>1. dedup' = Append(dedup, c) /\ UNCHANGED evicted
    BY <1>2 DEF CachePut
  <2>2. /\ Len(dedup') = Len(dedup) + 1 /\ dedup'[Len(dedup) + 1] = c
        /\ \A i \in 1..Len(dedup) : dedup'[i] = dedup[i]
    BY <1>1, <2>1
  <2> QED
    BY <1>1, <2>1, <2>2 DEF Cached
<1>3. CASE ~(Len(dedup) < Capacity)
  <2>1. dedup' = Append(Tail(dedup), c) /\ evicted' = evicted \cup {Head(dedup)}
    BY <1>3 DEF CachePut
  <2>2. dedup # <<>> /\ Len(dedup) > 0 /\ Head(dedup) = dedup[1]
    BY <1>1, <1>3
  <2>3. /\ Tail(dedup) \in Seq(Cids) /\ Len(Tail(dedup)) = Len(dedup) - 1
        /\ \A i \in 2..Len(dedup) : Tail(dedup)[i - 1] = dedup[i]
    BY <1>1, <2>2
  <2>4. /\ Len(dedup') = Len(dedup) /\ dedup'[Len(dedup)] = c
        /\ \A i \in 1..(Len(dedup) - 1) : dedup'[i] = Tail(dedup)[i]
    BY <1>1, <2>1, <2>3
  <2>5. ASSUME NEW d \in Cids \ evicted', Cached(d) PROVE Cached(d)'
    <3>1. PICK i \in 1..Len(dedup) : dedup[i] = d
      BY <1>1, <2>5 DEF Cached
    <3>2. i \in 2..Len(dedup) /\ i - 1 \in 1..(Len(dedup) - 1)
      BY <1>1, <2>1, <2>2, <2>5, <3>1
    <3>3. dedup'[i - 1] = d
      BY <2>3, <2>4, <3>1, <3>2
    <3>4. i - 1 \in DOMAIN dedup'
      BY <1>1, <2>1, <2>3, <2>4, <3>2
    <3> QED
      BY <3>3, <3>4 DEF Cached
  <2>6. Cached(c)'
    <3>1. Len(dedup) \in DOMAIN dedup'
      BY <1>1, <2>1, <2>2, <2>3, <2>4
    <3> QED
      BY <2>4, <3>1 DEF Cached
  <2> QED
    BY <2>1, <2>5, <2>6
<1> QED
  BY <1>2, <1>3

(* A reply is passed on once for each time its id enters the cache.        *)
LEMMA CacheStep == IInv /\ [Next]_vars => DispatchCached'
<1>1. SUFFICES ASSUME IInv, [Next]_vars PROVE DispatchCached'
  OBVIOUS
<1>2. TypeOK /\ DispatchCached
  BY <1>1 DEF IInv
<1>3. CASE UNCHANGED procVars
  BY <1>2, <1>3 DEF DispatchCached, Cached, procVars
<1>4. CASE Dispatch
  <2>1. PICK c \in Cids :
          /\ \/ Kind[c] = "custom" /\ UNCHANGED <<dedup, evicted>>
             \/ Kind[c] # "custom" /\ ~Cached(c) /\ CachePut(c)
          /\ dispatched' = Plus(dispatched, c)
    BY <1>4 DEF Dispatch
  <2>2. /\ \A d \in Cids : d # c => dispatched'[d] = dispatched[d]
        /\ dispatched'[c] = dispatched[c] + 1
        /\ \A d \in Cids : dispatched[d] \in Nat
    BY <1>2, <2>1, PlusFacts DEF TypeOK, Counts
  <2>3. CASE Kind[c] = "custom" /\ UNCHANGED <<dedup, evicted>>
    BY <1>2, <2>2, <2>3 DEF DispatchCached, Cached
  <2>4. CASE Kind[c] # "custom" /\ ~Cached(c) /\ CachePut(c)
    <3>1. /\ Cached(c)' /\ evicted \subseteq evicted'
          /\ \A d \in Cids \ evicted' : Cached(d) => Cached(d)'
      BY <1>2, <2>4, CachePutKeeps
    <3>2. ASSUME NEW d \in Cids, Kind[d] # "custom", d \notin evicted'
          PROVE  dispatched'[d] <= (IF Cached(d)' THEN 1 ELSE 0)
      <4>1. dispatched[d] <= (IF Cached(d) THEN 1 ELSE 0)
        BY <1>2, <3>1, <3>2 DEF DispatchCached
      <4>2. CASE d = c
        BY <2>2, <2>4, <3>1, <4>1, <4>2
      <4>3. CASE d # c
        <5>1. dispatched'[d] = dispatched[d] /\ (Cached(d) => Cached(d)')
          BY <2>2, <3>1, <3>2, <4>3
        <5> QED
          BY <2>2, <4>1, <5>1
      <4> QED
        BY <4>2, <4>3
    <3> QED
      BY <3>2 DEF DispatchCached, Cached
  <2> QED
    BY <2>1, <2>3, <2>4
<1>5. CASE Crash
  BY <1>5, NoneFacts DEF Crash, DispatchCached
<1>6. CASE \/ Record \/ Send \/ TakeReply \/ GiveUp \/ SkipReply \/ DropDuplicate \/ Reply
           \/ Restart \/ Resend \/ RecordAttempt \/ Built \/ UNCHANGED vars
  BY <1>3, <1>6 DEF Record, Send, TakeReply, GiveUp, SkipReply, DropDuplicate, Reply, Restart,
                    Resend, RecordAttempt, Built, vars
<1> QED
  BY <1>1, <1>4, <1>5, <1>6 DEF Next

(* The invariant holds of an empty log.                                    *)
LEMMA InvInit == Init => IInv
<1>1. SUFFICES ASSUME Init PROVE IInv
  OBVIOUS
<1>2. TypeOK
  BY <1>1, NoneFacts, OutboxAssumption DEF Init, TypeOK
<1>3. AttemptsBacked /\ Causality /\ DispatchCached
  BY <1>1, NoneFacts DEF Init, AttemptsBacked, Causality, DispatchCached
<1>4. FreshRecord /\ ResentBacked /\ TodoUnanswered /\ AllSettled
  BY <1>1, NoneFacts DEF Init, FreshRecord, ResentBacked, TodoUnanswered, AllSettled, Settled
<1> QED
  BY <1>2, <1>3, <1>4 DEF IInv

(* The invariant is inductive under every action of Outbox.                *)
LEMMA Inductive == Spec => []IInv
<1>1. IInv /\ [Next]_vars => IInv'
  BY TypeStep, CausalityStep, FreshStep, BackedStep, TodoStep, SettledStep, CacheStep DEF IInv
<1> QED
  BY InvInit, <1>1, PTL DEF Spec

-----------------------------------------------------------------------------
(* The theorems *)

(* The variables keep their shape and the dedup cache its capacity.        *)
THEOREM OutboxTypeCorrect == Spec => []TypeOK
<1>1. IInv => TypeOK
  BY DEF IInv
<1> QED
  BY Inductive, <1>1, PTL

(* Whatever is recorded and can be rebuilt is sent once the engine is up   *)
(* again, wherever it crashed, unless the bus or the store refused.        *)
THEOREM NothingRecordedIsLost == Spec => []RecordedIsSent
<1>1. IInv => RecordedIsSent
  BY DEF IInv, TodoUnanswered, AllSettled, Settled, RecordedIsSent
<1> QED
  BY Inductive, <1>1, PTL

(* The recorded attempts never run ahead of the sends by more than one.    *)
THEOREM AttemptsAreBacked == Spec => []AttemptsBacked
<1>1. IInv => AttemptsBacked
  BY DEF IInv
<1> QED
  BY Inductive, <1>1, PTL

(* One process passes a reply on once while its id is cached.              *)
THEOREM DispatchIsOnce == Spec => []DispatchedOnce
<1>1. IInv => DispatchedOnce
  <2>1. SUFFICES ASSUME IInv, NEW c \in Cids \ evicted, Kind[c] # "custom"
                 PROVE  dispatched[c] <= 1
    BY DEF DispatchedOnce
  <2>2. dispatched[c] <= (IF Cached(c) THEN 1 ELSE 0) /\ dispatched[c] \in Nat
    BY <2>1 DEF IInv, TypeOK, Counts, DispatchCached
  <2> QED
    BY <2>2
<1> QED
  BY Inductive, <1>1, PTL

(* Once a reply is on record its request is never sent again, across any   *)
(* number of restarts.                                                     *)
THEOREM AnsweredIsNeverResent == Spec => AnsweredNotResent
<1>1. IInv /\ [Next]_vars => [\A c \in Cids : c \in replied => sends'[c] = sends[c]]_vars
  <2>1. SUFFICES ASSUME IInv, [Next]_vars, NEW c \in Cids, c \in replied
                 PROVE  sends'[c] = sends[c]
    OBVIOUS
  <2>2. TypeOK /\ sends[c] > 0 /\ sends \in Counts
    BY <2>1 DEF IInv, TypeOK, Causality
  <2>3. CASE Send
    <3>1. cur \in Cids /\ cur # c
      BY <2>1, <2>2, <2>3 DEF IInv, TypeOK, FreshRecord, Send
    <3> QED
      BY <2>2, <2>3, <3>1, PlusFacts DEF Send, PutOnBus
  <2>4. CASE Resend
    <3>1. PICK d \in todo : PutOnBus(d) \/ UNCHANGED sends
      BY <2>4 DEF Resend
    <3>2. d \in Cids /\ d # c
      BY <2>1, <2>2, <3>1 DEF IInv, TypeOK, TodoUnanswered
    <3> QED
      BY <2>2, <3>1, <3>2, PlusFacts DEF PutOnBus
  <2>5. CASE \/ Record \/ TakeReply \/ GiveUp \/ SkipReply \/ Reply \/ Crash \/ Restart
             \/ RecordAttempt \/ Built \/ UNCHANGED vars
    BY <2>5 DEF Record, TakeReply, GiveUp, SkipReply, Reply, Crash, Restart, RecordAttempt,
                Built, vars
  <2>6. CASE DropDuplicate \/ Dispatch
    BY <2>6 DEF DropDuplicate, Dispatch, Unexpected
  <2> QED
    BY <2>1, <2>3, <2>4, <2>5, <2>6 DEF Next
<1> QED
  BY Inductive, <1>1, PTL DEF Spec, AnsweredNotResent
===============================================================================
