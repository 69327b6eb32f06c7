----------------------------- MODULE EngineProofs -----------------------------
(***************************************************************************)
(* Proofs about Engine for any set of tools and permissions, any limit of  *)
(* turns, any size of a model response and any number of rounds and        *)
(* restarts.                                                               *)
(***************************************************************************)
EXTENDS Engine, TLAPS

-----------------------------------------------------------------------------
(* The inductive invariant *)

CallsBeing(n) == [cid : 1..n, kind : Kinds, at : Nat \X Nat]

(* A snapshot is a whole State, and its wait events were handed out.       *)
SavedOK == saved \in [turns : Nat, open : SUBSET CallIds, waits : SUBSET (1..lastCid)]

(* run() awaits a request it has made exactly while it is at a wait, and   *)
(* the tool call it works on is at the head of the batch.                  *)
WaitingOK ==
  /\ pc \in Awaiting => waiting \in CallsBeing(lastCid)
  /\ pc \notin Awaiting => waiting = NoCall
  /\ pc \in {"awaitAsk", "exec", "awaitTool"} => batch # <<>>

TypeInv == TypeOK /\ SavedOK /\ WaitingOK

(* Before the model has answered, and at the end of the round, the round   *)
(* has left nothing open.                                                  *)
Quiet == {"top", "beforeModelCall", "model", "awaitModel", "roundEnd"}
Announced == {"answered", "afterModelCall", "decide", "beforeToolExec"}

OpenInv ==
  /\ pc \in Quiet => open \subseteq before
  /\ pc \in Announced => open \subseteq Batched \cup before
  /\ pc \in Working => open \subseteq Batched \cup before \cup Unanswered
  /\ pc \in {"afterToolExec", "checked"} => batch = <<>>
  /\ pc # "idle" => result = "none"
  /\ result = "Ok" => open \subseteq before

(* The turns the rest of a batch may still count.                          *)
Bounded(t) == t <= MaxTurns \/ t < MaxTurns + MaxCalls

TurnsInv ==
  /\ Bounded(turns) /\ Bounded(saved.turns)
  /\ pc \in {"awaitModel", "answered", "afterModelCall", "decide"} => turns <= MaxTurns
  /\ pc \in Announced => Len(batch) <= MaxCalls
  /\ pc = "beforeToolExec" => turns < MaxTurns
  /\ pc = "tools" => turns + Len(batch) < MaxTurns + MaxCalls
  /\ pc \in {"awaitAsk", "exec", "awaitTool"} => turns + Len(batch) <= MaxTurns + MaxCalls

(* The requests somebody still works on, that were answered, or that run() *)
(* awaits: an id belongs to one of them.                                   *)
Known == inflight \cup {replies[i] : i \in DOMAIN replies}
         \cup (IF pc \in Awaiting THEN {waiting} ELSE {})
IdsUnique == \A c, d \in Known : c.cid = d.cid => c = d

(* Every request was made before this turn of this round, except the one   *)
(* that is awaited, and a permission request whose grant lets the call it  *)
(* was for go ahead.  Between rounds, a restart may have set the count of  *)
(* turns back, but not the count of rounds.                                *)
Now == <<runs, turns>>
Past(c) == c.at[1] < runs \/ (c.at[1] = runs /\ c.at[2] < turns)

MomentInv ==
  /\ \A c \in Known : c.at[1] <= runs
  /\ pc # "idle" => \A c \in Known : Past(c) \/ c.at = Now
  /\ pc \in Awaiting => waiting.at = Now
  /\ pc \in Awaiting \cup {"exec"} => \A c \in Known :
       \/ Past(c) \/ c = waiting
       \/ pc \in {"exec", "awaitTool"} /\ c.kind = "permission_response"
  /\ pc = "awaitAsk" => waiting.kind = "permission_response"
  /\ pc = "awaitTool" => waiting.kind = "tool_result"

IInv == TypeInv /\ OpenInv /\ WaitsClean /\ TurnsInv /\ IdsUnique /\ MomentInv

-----------------------------------------------------------------------------
(* Type correctness *)

(* A record of a request stays one when more ids are handed out.           *)
LEMMA QueueGrows ==
  ASSUME NEW S, NEW T, S \subseteq T
  PROVE  Seq(S) \subseteq Seq(T)
OBVIOUS

LEMMA QueueMember ==
  ASSUME NEW S, NEW q \in Seq(S)
  PROVE  /\ q # <<>> => Head(q) \in S
         /\ \A i \in DOMAIN q : q[i] \in S
OBVIOUS

(* The ways a wait or a send changes the state of the calls keep its type. *)
CallsOK ==
  /\ busOpen \in BOOLEAN /\ lastCid \in Nat /\ waits \subseteq 1..lastCid
  /\ inflight \subseteq CallsBeing(lastCid) /\ replies \in Seq(CallsBeing(lastCid))

LEMMA CallStep ==
  ASSUME NEW kind \in Kinds, NEW step, CallsOK, Call(kind, step),
         runs \in Nat, turns' \in Nat
  PROVE  CallsOK' /\ waiting' \in CallsBeing(lastCid') /\ lastCid' > lastCid
<1> DEFINE n == lastCid + 1
<1>1. n \in Nat /\ 1..lastCid \subseteq 1..n /\ n \in 1..n
  BY DEF CallsOK
<1>2. CallsBeing(lastCid) \subseteq CallsBeing(n)
  BY <1>1 DEF CallsBeing
<1>3. replies \in Seq(CallsBeing(n))
  BY <1>2, QueueGrows DEF CallsOK
<1>4. lastCid' = n /\ replies' = replies /\ busOpen' = busOpen
  BY DEF Call
<1>5. waiting' \in CallsBeing(n) /\ waiting'.cid = n
  <2>1. waiting' = [cid |-> n, kind |-> kind, at |-> <<runs, turns'>>]
    BY DEF Call
  <2> QED
    BY <1>1, <2>1 DEF CallsBeing
<1>6. inflight' \subseteq CallsBeing(n)
  BY <1>2, <1>5 DEF Call, CallsOK
<1>7. waits' \subseteq 1..n
  BY <1>1 DEF Call, CallsOK
<1> QED
  BY <1>1, <1>3, <1>4, <1>5, <1>6, <1>7 DEF CallsOK

LEMMA CallsKept ==
  ASSUME CallsOK, UNCHANGED callVars
  PROVE  CallsOK' /\ lastCid' = lastCid
BY DEF CallsOK, callVars

LEMMA AnsweredStep ==
  ASSUME CallsOK, Answered
  PROVE  CallsOK' /\ lastCid' = lastCid /\ waiting' = NoCall
<1>1. replies' = Tail(replies) /\ replies # <<>> /\ waits' \subseteq waits
  BY DEF Answered, TypeFits
<1>2. lastCid' = lastCid /\ inflight' = inflight /\ busOpen' = busOpen /\ waiting' = NoCall
  BY DEF Answered
<1>3. replies' \in Seq(CallsBeing(lastCid))
  BY <1>1 DEF CallsOK
<1> QED
  BY <1>1, <1>2, <1>3 DEF CallsOK

LEMMA CancelledStep ==
  ASSUME CallsOK, WaitCancelled
  PROVE  CallsOK' /\ lastCid' = lastCid /\ waiting' = NoCall
BY DEF CallsOK, WaitCancelled

LEMMA BreaksStep ==
  ASSUME CallsOK, NEW err, WaitBreaks(err)
  PROVE  CallsOK' /\ lastCid' = lastCid /\ waiting' = NoCall
BY DEF CallsOK, WaitBreaks, TypeFits

(* What the end of a tool call does to the batch and to the open calls.    *)
Over == [id : CallIds, at : Steps, err : Errors]
BatchOK ==
  /\ open \subseteq CallIds /\ batch \in Seq([id : CallIds, tool : Tools])
  /\ results \in Seq(Over)

LEMMA ToolOverStep ==
  ASSUME BatchOK, batch # <<>>, pc \in Steps, NEW err \in Errors, NEW paired \in BOOLEAN,
         ToolOver(err, paired)
  PROVE  /\ BatchOK'
         /\ pc' = "tools" /\ result' = result
         /\ Len(batch') = Len(batch) - 1
         /\ open' = IF paired THEN open \ {Head(batch).id} ELSE open
         /\ Batched \subseteq Batched' \cup {Head(batch).id}
<1> DEFINE over == [id |-> Head(batch).id, at |-> pc, err |-> err]
<1>1. over \in Over
  <2>1. Head(batch) \in [id : CallIds, tool : Tools]
    BY QueueMember DEF BatchOK
  <2> QED
    BY <2>1 DEF Over
<1>2. results' \in Seq(Over)
  BY <1>1 DEF BatchOK, ToolOver
<1>3. BatchOK' /\ Len(batch') = Len(batch) - 1
  BY <1>2 DEF BatchOK, ToolOver
<1>4. Batched \subseteq Batched' \cup {Head(batch).id}
  <2> SUFFICES ASSUME NEW i \in DOMAIN batch, i # 1
               PROVE  batch[i].id \in Batched'
    BY DEF Batched, BatchOK
  <2>1. i - 1 \in DOMAIN Tail(batch) /\ Tail(batch)[i - 1] = batch[i]
    BY DEF BatchOK
  <2> QED
    BY <2>1 DEF ToolOver, Batched
<1> QED
  BY <1>3, <1>4 DEF ToolOver, Goto

(* TypeInv, cut along the lines of the lemmas above.                       *)
RestOK ==
  /\ pc \in Steps /\ cancelled \in BOOLEAN /\ result \in Results
  /\ turns \in Nat /\ runs \in Nat /\ before \subseteq CallIds
  /\ SavedOK /\ WaitingOK

LEMMA TypeParts == TypeInv <=> CallsOK /\ BatchOK /\ RestOK
<1>1. TypeInv => CallsOK /\ BatchOK /\ RestOK
  BY DEF TypeInv, TypeOK, CallsOK, BatchOK, RestOK, CallsBeing, Over
<1>2. CallsOK /\ BatchOK /\ RestOK => TypeInv
  <2> SUFFICES ASSUME CallsOK, BatchOK, RestOK PROVE TypeInv
    OBVIOUS
  <2>1. waiting \in [cid : Nat, kind : Kinds, at : Nat \X Nat] \cup {NoCall}
    BY DEF CallsOK, RestOK, WaitingOK, CallsBeing
  <2>2. saved.turns \in Nat /\ saved.open \subseteq CallIds /\ saved.waits \subseteq Nat
    BY DEF RestOK, SavedOK, CallsOK
  <2> QED
    BY <2>1, <2>2 DEF TypeInv, TypeOK, CallsOK, BatchOK, RestOK, CallsBeing, Over
<1> QED
  BY <1>1, <1>2

(* More ids leave a snapshot a snapshot.                                   *)
LEMMA SavedKept ==
  ASSUME SavedOK, CallsOK, lastCid' \in Nat, lastCid' >= lastCid, saved' = saved
  PROVE  SavedOK'
<1>1. 1..lastCid \subseteq 1..lastCid'
  BY DEF CallsOK
<1> QED
  BY <1>1 DEF SavedOK

(* A tool call that is over, however it ended.                             *)
LEMMA ToolOverType ==
  ASSUME CallsOK, BatchOK, RestOK, batch # <<>>,
         NEW err \in Errors, NEW paired \in BOOLEAN, ToolOver(err, paired),
         lastCid' = lastCid, waiting' = NoCall,
         cancelled' = cancelled, turns' \in Nat, before' = before, runs' = runs,
         saved' = saved
  PROVE  BatchOK' /\ RestOK'
<1>1. pc \in Steps /\ SavedOK /\ lastCid \in Nat
  BY DEF RestOK, CallsOK
<1>2. BatchOK' /\ pc' = "tools" /\ result' = result
  BY <1>1, ToolOverStep
<1>3. SavedOK'
  BY <1>1, SavedKept
<1>4. WaitingOK'
  BY <1>2 DEF WaitingOK, Awaiting
<1> QED
  BY <1>2, <1>3, <1>4 DEF RestOK, Steps

LEMMA TypeInit == Init => TypeInv
<1> SUFFICES ASSUME Init PROVE CallsOK /\ BatchOK /\ RestOK
  BY TypeParts
<1>1. CallsOK /\ BatchOK
  BY DEF Init, CallsOK, BatchOK
<1>2. SavedOK /\ WaitingOK
  BY DEF Init, SavedOK, WaitingOK, Awaiting
<1> QED
  BY <1>1, <1>2 DEF Init, RestOK, Steps, Results, Errors

LEMMA TypeStep == TypeInv /\ [Next]_vars => TypeInv'
<1> SUFFICES ASSUME CallsOK, BatchOK, RestOK, [Next]_vars
             PROVE  CallsOK' /\ BatchOK' /\ RestOK'
  <2>1. TypeInv' <=> (CallsOK /\ BatchOK /\ RestOK)'
    BY TypeParts, PTL
  <2> QED
    BY <2>1, TypeParts
<1> USE DEF convVars, boundVars, Return, Goto, Steps, Results, Errors, Awaiting
<1>1. CASE Run
  BY <1>1, CallsKept, SavedKept DEF Run, BatchOK, RestOK, WaitingOK, CallsOK, callVars
<1>2. CASE Cancel
  BY <1>2, CallsKept, SavedKept DEF Cancel, BatchOK, RestOK, WaitingOK, CallsOK, callVars
<1>3. CASE Respond
  <2>1. PICK c \in inflight : inflight' = inflight \ {c} /\ replies' = Append(replies, c)
    BY <1>3 DEF Respond
  <2>2. CallsOK' /\ lastCid' = lastCid
    BY <1>3, <2>1 DEF Respond, CallsOK
  <2> QED
    BY <1>3, <2>2, SavedKept DEF Respond, BatchOK, RestOK, WaitingOK, CallsOK
<1>4. CASE BusShutdown
  <2>1. CallsOK' /\ lastCid' = lastCid
    BY <1>4 DEF BusShutdown, CallsOK
  <2> QED
    BY <1>4, <2>1, SavedKept DEF BusShutdown, BatchOK, RestOK, WaitingOK, CallsOK
<1>5. CASE Crash
  <2>1. SavedOK'
    BY <1>5, SavedKept DEF Crash, RestOK, CallsOK
  <2>2. turns' \in Nat /\ open' \subseteq CallIds /\ waits' \subseteq 1..lastCid
    BY <1>5 DEF Crash, RestOK, SavedOK
  <2>3. CallsOK' /\ BatchOK'
    BY <1>5, <2>2 DEF Crash, CallsOK, BatchOK
  <2> QED
    BY <1>5, <2>1, <2>2, <2>3 DEF Crash, RestOK, WaitingOK
<1>6. CASE Top
  BY <1>6, CallsKept, SavedKept DEF Top, BatchOK, RestOK, WaitingOK, CallsOK, callVars
<1>7. CASE ModelTurn
  <2>1. CASE UNCHANGED callVars
    <3>1. CallsOK' /\ lastCid' = lastCid /\ waiting' = waiting
      BY <2>1, CallsKept DEF callVars
    <3>2. SavedOK'
      BY <1>7, <3>1, SavedKept DEF ModelTurn, RestOK, CallsOK
    <3>3. pc' \in {"idle", "answered"} /\ result' \in Results
      BY <1>7, <2>1 DEF ModelTurn, RestOK, Call, callVars, CallsOK
    <3>4. turns' \in Nat /\ batch' \in {batch, <<>>} /\ open' = open /\ results' = results
          /\ cancelled' = cancelled /\ before' = before /\ runs' = runs
      BY <1>7 DEF ModelTurn, RestOK
    <3> QED
      <4>1. waiting' = NoCall
        BY <1>7, <3>1 DEF ModelTurn, RestOK, WaitingOK
      <4>2. BatchOK'
        <5>1. CASE batch' = batch
          BY <3>4, <5>1 DEF BatchOK
        <5>2. CASE batch' = <<>>
          BY <3>4, <5>2 DEF BatchOK
        <5> QED
          BY <3>4, <5>1, <5>2
      <4> QED
        BY <3>1, <3>2, <3>3, <3>4, <4>1, <4>2 DEF RestOK, WaitingOK
  <2>2. CASE Call("model_response", "awaitModel")
    <3>1. CallsOK' /\ waiting' \in CallsBeing(lastCid') /\ lastCid' > lastCid
      BY <1>7, <2>2, CallStep DEF Kinds, RestOK, ModelTurn
    <3> QED
      BY <1>7, <2>2, <3>1, SavedKept DEF ModelTurn, Call, CallsOK, BatchOK, RestOK, WaitingOK
  <2> QED
    BY <1>7, <2>1, <2>2 DEF ModelTurn, CallFails
<1>8. CASE ModelAnswers
  <2>1. CallsOK' /\ lastCid' = lastCid /\ waiting' = NoCall
    BY <1>8, AnsweredStep DEF ModelAnswers
  <2>2. BatchOK'
    <3>1. PICK calls \in Responses :
            /\ batch' = [i \in DOMAIN calls |-> [id |-> <<lastCid, i>>, tool |-> calls[i]]]
            /\ open' = open \cup {<<lastCid, i>> : i \in DOMAIN calls}
      BY <1>8 DEF ModelAnswers
    <3>2. PICK n \in 0..MaxCalls : calls \in [1..n -> Tools]
      BY <3>1 DEF Responses
    <3>3. \A i \in 1..n : <<lastCid, i>> \in CallIds
      BY <3>2, EngineAssumption DEF CallIds, CallsOK
    <3>4. open' \subseteq CallIds /\ batch' \in Seq([id : CallIds, tool : Tools])
      BY <3>1, <3>2, <3>3, EngineAssumption DEF BatchOK
    <3> QED
      BY <1>8, <3>4 DEF ModelAnswers, BatchOK
  <2> QED
    BY <1>8, <2>1, <2>2, SavedKept DEF ModelAnswers, RestOK, WaitingOK, CallsOK
<1>9. CASE ModelCancelled
  BY <1>9, CancelledStep, SavedKept DEF ModelCancelled, BatchOK, RestOK, WaitingOK, CallsOK
<1>10. CASE ModelBreaks
  <2>1. PICK err \in WaitErrors : WaitBreaks(err) /\ Return(err)
    BY <1>10 DEF ModelBreaks
  <2>2. CallsOK' /\ lastCid' = lastCid /\ waiting' = NoCall
    BY <2>1, BreaksStep
  <2>3. SavedOK'
    BY <1>10, <2>2, SavedKept DEF ModelBreaks, RestOK, CallsOK
  <2> QED
    BY <1>10, <2>1, <2>2, <2>3 DEF ModelBreaks, WaitBreaks, WaitErrors, BatchOK, RestOK, WaitingOK
<1>11. CASE AfterModelTurn
  BY <1>11, CallsKept, SavedKept DEF AfterModelTurn, BatchOK, RestOK, WaitingOK, callVars, CallsOK
<1>12. CASE Decide
  BY <1>12, CallsKept, SavedKept DEF Decide, BatchOK, RestOK, WaitingOK, callVars, CallsOK
<1>13. CASE NextTool
  <2>1. CASE batch = <<>>
    BY <1>13, <2>1, CallsKept, SavedKept DEF NextTool, BatchOK, RestOK, WaitingOK, callVars, CallsOK
  <2>2. CASE batch # <<>> /\ \E err \in Errors, paired \in BOOLEAN :
               ToolOver(err, paired) /\ UNCHANGED callVars /\ turns' \in Nat
    BY <1>13, <2>2, ToolOverStep, CallsKept, SavedKept DEF NextTool, RestOK, WaitingOK, callVars, CallsOK
  <2>3. CASE ~cancelled /\ batch # <<>> /\ Call("permission_response", "awaitAsk")
             /\ turns' = turns + 1 /\ UNCHANGED <<open, batch, results>>
    <3>1. CallsOK' /\ waiting' \in CallsBeing(lastCid') /\ lastCid' > lastCid
      BY <2>3, CallStep DEF Kinds, RestOK
    <3> QED
      BY <1>13, <2>3, <3>1, SavedKept DEF NextTool, Call, CallsOK, BatchOK, RestOK, WaitingOK
  <2>4. CASE batch # <<>> /\ Goto("exec") /\ UNCHANGED <<open, batch, results, callVars>>
             /\ turns' = turns + 1
    BY <1>13, <2>4, CallsKept, SavedKept DEF NextTool, BatchOK, RestOK, WaitingOK, callVars, CallsOK
  <2>5. CASE batch # <<>> /\ cancelled
    BY <1>13, <2>2, <2>5 DEF NextTool, RestOK
  <2>6. CASE batch # <<>> /\ ~cancelled
    <3>0. turns' = turns + 1
      BY <1>13, <2>6, Zenon DEF NextTool
    <3>1. turns' = turns + 1 /\ turns' \in Nat
      BY <3>0 DEF RestOK
    <3>2. \/ ToolOver("none", TRUE) /\ UNCHANGED callVars
          \/ ToolOver("Bus", FALSE) /\ UNCHANGED callVars
          \/ Call("permission_response", "awaitAsk") /\ UNCHANGED <<open, batch, results>>
          \/ Goto("exec") /\ UNCHANGED <<open, batch, results, callVars>>
      BY <1>13, <2>6, Zenon DEF NextTool, CallFails
    <3> QED
      BY <2>6, <2>2, <2>3, <2>4, <3>1, <3>2
  <2> QED
    BY <2>1, <2>5, <2>6
<1>14. CASE AskAnswered
  <2>0. batch # <<>>
    BY <1>14 DEF AskAnswered, RestOK, WaitingOK
  <2>1. CallsOK' /\ lastCid' = lastCid /\ waiting' = NoCall
    BY <1>14, AnsweredStep DEF AskAnswered
  <2>2. CASE ToolOver("none", TRUE)
    BY <1>14, <2>0, <2>1, <2>2, ToolOverType DEF AskAnswered, RestOK
  <2>3. CASE Goto("exec") /\ UNCHANGED <<open, batch, results>>
    BY <1>14, <2>1, <2>3, SavedKept DEF AskAnswered, BatchOK, RestOK, WaitingOK, CallsOK
  <2> QED
    BY <1>14, <2>2, <2>3 DEF AskAnswered
<1>15. CASE AskCancelled
  <2>1. batch # <<>>
    BY <1>15 DEF AskCancelled, RestOK, WaitingOK
  <2>2. CallsOK' /\ lastCid' = lastCid /\ waiting' = NoCall
    BY <1>15, CancelledStep DEF AskCancelled
  <2> QED
    BY <1>15, <2>1, <2>2, ToolOverType DEF AskCancelled, RestOK
<1>16. CASE AskBreaks
  <2>1. PICK err \in WaitErrors : WaitBreaks(err) /\ ToolOver(err, FALSE)
    BY <1>16 DEF AskBreaks
  <2>2. batch # <<>>
    BY <1>16 DEF AskBreaks, RestOK, WaitingOK
  <2>3. CallsOK' /\ lastCid' = lastCid /\ waiting' = NoCall
    BY <2>1, BreaksStep
  <2> QED
    BY <1>16, <2>1, <2>2, <2>3, ToolOverType DEF AskBreaks, WaitBreaks, WaitErrors, RestOK
<1>17. CASE ExecTool
  <2>1. CASE \E err \in Errors, paired \in BOOLEAN : ToolOver(err, paired) /\ UNCHANGED callVars
    BY <1>17, <2>1, CallsKept, ToolOverStep, SavedKept DEF ExecTool, RestOK, WaitingOK, callVars, CallsOK
  <2>2. CASE Call("tool_result", "awaitTool") /\ UNCHANGED <<open, batch, results>>
    <3>1. CallsOK' /\ waiting' \in CallsBeing(lastCid') /\ lastCid' > lastCid
      BY <1>17, <2>2, CallStep DEF Kinds, RestOK, ExecTool
    <3> QED
      BY <1>17, <2>2, <3>1, SavedKept DEF ExecTool, Call, CallsOK, BatchOK, RestOK, WaitingOK
  <2> QED
    BY <1>17, <2>1, <2>2 DEF ExecTool, CallFails
<1>18. CASE ToolAnswers
  <2>1. batch # <<>>
    BY <1>18 DEF ToolAnswers, RestOK, WaitingOK
  <2>2. CallsOK' /\ lastCid' = lastCid /\ waiting' = NoCall
    BY <1>18, AnsweredStep DEF ToolAnswers
  <2> QED
    BY <1>18, <2>1, <2>2, ToolOverType DEF ToolAnswers, RestOK
<1>19. CASE ToolCancelled
  <2>1. batch # <<>>
    BY <1>19 DEF ToolCancelled, RestOK, WaitingOK
  <2>2. CallsOK' /\ lastCid' = lastCid /\ waiting' = NoCall
    BY <1>19, CancelledStep DEF ToolCancelled
  <2> QED
    BY <1>19, <2>1, <2>2, ToolOverType DEF ToolCancelled, RestOK
<1>20. CASE ToolBreaks
  <2>1. PICK err \in WaitErrors : WaitBreaks(err) /\ ToolOver(err, FALSE)
    BY <1>20 DEF ToolBreaks
  <2>2. batch # <<>>
    BY <1>20 DEF ToolBreaks, RestOK, WaitingOK
  <2>3. CallsOK' /\ lastCid' = lastCid /\ waiting' = NoCall
    BY <2>1, BreaksStep
  <2> QED
    BY <1>20, <2>1, <2>2, <2>3, ToolOverType DEF ToolBreaks, WaitBreaks, WaitErrors, RestOK
<1>21. CASE Checked
  <2>1. CallsOK' /\ lastCid' = lastCid /\ waiting' = waiting
    BY <1>21, CallsKept DEF Checked, callVars
  <2>2. SavedOK'
    BY <1>21, <2>1, SavedKept DEF Checked, RestOK, CallsOK
  <2>3. BatchOK'
    BY <1>21 DEF Checked, BatchOK
  <2>4. pc' \in {"idle", "top"} /\ pc = "checked" /\ result' \in Results
    <3>1. \A i \in Failed : results[i].err \in Errors
      <4>1. \A i \in DOMAIN results : results[i] \in Over
        BY QueueMember DEF BatchOK
      <4> QED
        BY <4>1 DEF Failed, Over
    <3> QED
      BY <1>21, <3>1 DEF Checked, RestOK
  <2> QED
    BY <1>21, <2>1, <2>2, <2>3, <2>4 DEF Checked, RestOK, WaitingOK
<1>22. CASE Checkpoints
  <2>1. SavedOK'
    <3>1. (UNCHANGED saved \/ Snapshot) /\ lastCid' = lastCid
      BY <1>22 DEF Checkpoints, BeforeModelCall, AfterModelCall, BeforeToolExec, AfterToolExec,
           RoundEnd, AtCheckpoint, callVars
    <3>2. CASE UNCHANGED saved
      BY <3>1, <3>2, SavedKept DEF RestOK, CallsOK
    <3>3. CASE Snapshot
      BY <3>1, <3>3 DEF Snapshot, SavedOK, CallsOK, BatchOK, RestOK
    <3> QED
      BY <3>1, <3>2, <3>3
  <2> QED
    BY <1>22, <2>1, CallsKept DEF Checkpoints, BeforeModelCall, AfterModelCall, BeforeToolExec,
         AfterToolExec, RoundEnd, AtCheckpoint, BatchOK, RestOK, WaitingOK, callVars
<1>23. CASE Discard
  <2>1. CallsOK' /\ lastCid' = lastCid
    BY <1>23 DEF Discard, TypeFits, CallsOK
  <2> QED
    BY <1>23, <2>1, SavedKept DEF Discard, BatchOK, RestOK, WaitingOK, CallsOK
<1>24. CASE DispatchIncoming
  <2>1. CallsOK' /\ lastCid' = lastCid
    BY <1>24 DEF DispatchIncoming, CallsOK
  <2> QED
    BY <1>24, <2>1, SavedKept DEF DispatchIncoming, BatchOK, RestOK, WaitingOK, CallsOK
<1>25. CASE UNCHANGED vars
  BY <1>25, CallsKept, SavedKept DEF vars, BatchOK, RestOK, WaitingOK, callVars, CallsOK
<1> QED
  BY <1>1, <1>2, <1>3, <1>4, <1>5, <1>6, <1>7, <1>8, <1>9, <1>10, <1>11, <1>12, <1>13, <1>14,
     <1>15, <1>16, <1>17, <1>18, <1>19, <1>20, <1>21, <1>22, <1>23, <1>24, <1>25
     DEF Next, EngineStep
-----------------------------------------------------------------------------
(* Tool calls and their messages *)

(* A call stays among the unanswered, and joins them if it ends without a  *)
(* tool message.                                                           *)
LEMMA ToolOverSilent ==
  ASSUME BatchOK, batch # <<>>, NEW err, NEW paired, ToolOver(err, paired)
  PROVE  /\ Unanswered \subseteq Unanswered'
         /\ \/ err \notin {"none", "Stopped"}
            \/ err = "Stopped" /\ pc = "awaitAsk"
            => Head(batch).id \in Unanswered'
<1> DEFINE over == [id |-> Head(batch).id, at |-> pc, err |-> err]
           n    == Len(results) + 1
<1>1. results' = Append(results, over)
  BY DEF ToolOver
<1>2. n \in DOMAIN results' /\ results'[n] = over
  BY <1>1 DEF BatchOK
<1>3. \A i \in DOMAIN results : i \in DOMAIN results' /\ results'[i] = results[i]
  BY <1>1 DEF BatchOK
<1>4. Unanswered \subseteq Unanswered'
  BY <1>3 DEF Unanswered, Silent
<1>5. (err \notin {"none", "Stopped"} \/ (err = "Stopped" /\ pc = "awaitAsk"))
      => Head(batch).id \in Unanswered'
  BY <1>2 DEF Unanswered, Silent
<1> QED
  BY <1>4, <1>5

(* A tool call that ends keeps the account of the open calls, if it ends   *)
(* with a tool message or in one of the ways that leave none.              *)
LEMMA ToolOverOpen ==
  ASSUME BatchOK, batch # <<>>, pc \in Steps,
         open \subseteq Batched \cup before \cup Unanswered, result = "none",
         NEW err \in Errors, NEW paired \in BOOLEAN,
         \/ paired
         \/ err \notin {"none", "Stopped"}
         \/ err = "Stopped" /\ pc = "awaitAsk",
         ToolOver(err, paired), before' = before
  PROVE  OpenInv'
<1>1. /\ pc' = "tools" /\ result' = result
      /\ open' = IF paired THEN open \ {Head(batch).id} ELSE open
      /\ Batched \subseteq Batched' \cup {Head(batch).id}
  BY ToolOverStep
<1>2. Unanswered \subseteq Unanswered' /\ (~paired => Head(batch).id \in Unanswered')
  BY ToolOverSilent
<1>3. open' \subseteq Batched' \cup before' \cup Unanswered'
  BY <1>1, <1>2
<1> QED
  BY <1>1, <1>3 DEF OpenInv, Quiet, Announced, Working

LEMMA OpenStep == TypeInv /\ OpenInv /\ [Next]_vars => OpenInv'
<1> SUFFICES ASSUME TypeInv, OpenInv, [Next]_vars
             PROVE  OpenInv'
  OBVIOUS
<1>a. BatchOK /\ CallsOK /\ pc \in Steps
  BY TypeParts DEF RestOK
<1>b. /\ batch' = batch => Batched' = Batched
      /\ results' = results => Unanswered' = Unanswered
  BY DEF Batched, Unanswered, Silent
<1>c. /\ batch = <<>> => Batched = {}
      /\ batch' = <<>> => Batched' = {}
  BY DEF Batched
<1>d. pc \in {"awaitAsk", "exec", "awaitTool"} => batch # <<>>
  BY DEF TypeInv, WaitingOK
<1>e. /\ pc \in Working => open \subseteq Batched \cup before \cup Unanswered
      /\ pc \in Working => result = "none"
  BY DEF OpenInv, Working
<1> USE DEF convVars, boundVars, Return, Goto, Quiet, Announced, Working
<1>1. CASE Run
  BY <1>1, <1>c DEF Run, OpenInv
<1>2. CASE Cancel \/ Respond \/ BusShutdown \/ Discard
  BY <1>2, <1>b DEF Cancel, Respond, BusShutdown, Discard, OpenInv
<1>3. CASE Crash
  BY <1>3 DEF Crash, OpenInv
<1>4. CASE Top
  BY <1>4, <1>b DEF Top, OpenInv
<1>5. CASE ModelTurn
  <2>1. open' = open /\ before' = before
        /\ (batch' = batch \/ batch' = <<>>)
    BY <1>5 DEF ModelTurn
  <2>2. \/ pc' = "idle" /\ result' # "Ok"
        \/ pc' \in {"answered", "awaitModel"} /\ result' = result
    BY <1>5 DEF ModelTurn, Call
  <2> QED
    BY <1>5, <1>b, <1>c, <2>1, <2>2 DEF ModelTurn, OpenInv
<1>6. CASE ModelAnswers
  <2>1. PICK calls \in Responses :
          /\ batch' = [i \in DOMAIN calls |-> [id |-> <<lastCid, i>>, tool |-> calls[i]]]
          /\ open' = open \cup {<<lastCid, i>> : i \in DOMAIN calls}
    BY <1>6 DEF ModelAnswers
  <2>2. open' \subseteq open \cup Batched'
    BY <2>1 DEF Batched
  <2> QED
    BY <1>6, <2>2 DEF ModelAnswers, OpenInv
<1>7. CASE ModelCancelled \/ DispatchIncoming
  BY <1>7 DEF ModelCancelled, DispatchIncoming, OpenInv
<1>8. CASE ModelBreaks
  BY <1>8 DEF ModelBreaks, WaitBreaks, WaitErrors, OpenInv
<1>9. CASE AfterModelTurn
  BY <1>9, <1>b DEF AfterModelTurn, OpenInv
<1>10. CASE Decide
  BY <1>10, <1>b, <1>c DEF Decide, OpenInv
<1>11. CASE NextTool
  <2>1. CASE batch = <<>>
    BY <1>11, <1>b, <1>c, <1>e, <2>1 DEF NextTool, OpenInv
  <2>2. CASE ToolOver("Stopped", TRUE) \/ ToolOver("none", TRUE) \/ ToolOver("Bus", FALSE)
    <3>1. CASE batch = <<>>
      BY <3>1, <2>1
    <3>2. CASE batch # <<>>
      BY <1>11, <1>a, <1>e, <2>2, <3>2, ToolOverOpen DEF NextTool, Errors
    <3> QED
      BY <3>1, <3>2
  <2>3. CASE pc' \in {"awaitAsk", "exec"} /\ UNCHANGED <<open, batch, results, result>>
    BY <1>11, <1>b, <2>3 DEF NextTool, OpenInv
  <2> QED
    BY <1>11, <2>1, <2>2, <2>3, Zenon DEF NextTool, Call
<1>12. CASE AskAnswered
  <2>1. CASE ToolOver("none", TRUE)
    BY <1>12, <1>a, <1>d, <1>e, <2>1, ToolOverOpen DEF AskAnswered, Errors
  <2>2. CASE Goto("exec") /\ UNCHANGED <<open, batch, results>>
    BY <1>12, <1>b, <2>2 DEF AskAnswered, OpenInv
  <2> QED
    BY <1>12, <2>1, <2>2 DEF AskAnswered
<1>13. CASE AskCancelled
  BY <1>13, <1>a, <1>d, <1>e, ToolOverOpen DEF AskCancelled, Errors
<1>14. CASE AskBreaks
  <2>1. PICK err \in WaitErrors : WaitBreaks(err) /\ ToolOver(err, FALSE)
    BY <1>14 DEF AskBreaks
  <2> QED
    BY <1>14, <1>a, <1>d, <1>e, <2>1, ToolOverOpen DEF AskBreaks, WaitBreaks, WaitErrors, Errors
<1>15. CASE ExecTool
  <2>1. CASE ToolOver("Stopped", TRUE) \/ ToolOver("Bus", FALSE)
    BY <1>15, <1>a, <1>d, <1>e, <2>1, ToolOverOpen DEF ExecTool, Errors
  <2>2. CASE pc' = "awaitTool" /\ UNCHANGED <<open, batch, results, result>>
    BY <1>15, <1>b, <2>2 DEF ExecTool, OpenInv
  <2> QED
    BY <1>15, <2>1, <2>2, Zenon DEF ExecTool, Call
<1>16. CASE ToolAnswers \/ ToolCancelled
  BY <1>16, <1>a, <1>d, <1>e, ToolOverOpen DEF ToolAnswers, ToolCancelled, Errors
<1>17. CASE ToolBreaks
  <2>1. PICK err \in WaitErrors : WaitBreaks(err) /\ ToolOver(err, FALSE)
    BY <1>17 DEF ToolBreaks
  <2> QED
    BY <1>17, <1>a, <1>d, <1>e, <2>1, ToolOverOpen DEF ToolBreaks, WaitBreaks, WaitErrors, Errors
<1>18. CASE Checked
  <2>1. Failed = {} => Unanswered = {}
    BY DEF Failed, Unanswered, Silent
  <2>2. \/ pc' = "idle" /\ result' # "Ok"
        \/ pc' = "top" /\ result' = result /\ Failed = {}
    <3>1. \A i \in Failed : results[i].err # "Ok"
      <4>1. \A i \in DOMAIN results : results[i] \in Over
        BY <1>a, QueueMember DEF BatchOK
      <4> QED
        BY <4>1 DEF Failed, Over, Errors
    <3> QED
      BY <1>18, <3>1 DEF Checked
  <2>3. Batched = {} /\ open \subseteq Batched \cup before \cup Unanswered /\ result = "none"
    BY <1>18, <1>c, <1>e DEF Checked, OpenInv
  <2> QED
    BY <1>18, <2>1, <2>2, <2>3 DEF Checked, OpenInv
<1>19. CASE Checkpoints
  BY <1>19, <1>b, <1>c DEF Checkpoints, BeforeModelCall, AfterModelCall, BeforeToolExec,
       AfterToolExec, RoundEnd, AtCheckpoint, OpenInv
<1>20. CASE UNCHANGED vars
  BY <1>20, <1>b DEF vars, OpenInv
<1> QED
  BY <1>1, <1>2, <1>3, <1>4, <1>5, <1>6, <1>7, <1>8, <1>9, <1>10, <1>11, <1>12, <1>13, <1>14,
     <1>15, <1>16, <1>17, <1>18, <1>19, <1>20 DEF Next, EngineStep

-----------------------------------------------------------------------------
(* Wait events *)

LEMMA WaitsStep == TypeInv /\ WaitsClean /\ [Next]_vars => WaitsClean'
<1> SUFFICES ASSUME TypeInv, WaitsClean, [Next]_vars, ~spoiled'
             PROVE  /\ waits' = IF pc' \in Awaiting THEN {waiting'.cid} ELSE {}
                    /\ saved'.waits = {}
  BY DEF WaitsClean
<1> USE DEF convVars, boundVars, callVars, Return, Goto, Awaiting, WaitsClean
<1>1. CASE Run \/ Cancel \/ Respond \/ BusShutdown \/ Crash \/ Discard
  BY <1>1 DEF Run, Cancel, Respond, BusShutdown, Crash, Discard
<1>2. CASE Top \/ AfterModelTurn \/ Decide \/ Checked
  BY <1>2 DEF Top, AfterModelTurn, Decide, Checked
<1>3. CASE ModelTurn
  BY <1>3 DEF ModelTurn, Call, CallFails
<1>4. CASE ModelAnswers \/ AskAnswered \/ ToolAnswers
  BY <1>4 DEF ModelAnswers, AskAnswered, ToolAnswers, Answered, ToolOver
<1>5. CASE ModelCancelled \/ AskCancelled \/ ToolCancelled
  BY <1>5 DEF ModelCancelled, AskCancelled, ToolCancelled, WaitCancelled, ToolOver
<1>6. CASE ModelBreaks \/ AskBreaks \/ ToolBreaks \/ DispatchIncoming
  BY <1>6 DEF ModelBreaks, AskBreaks, ToolBreaks, WaitBreaks, DispatchIncoming
<1>7. CASE NextTool
  BY <1>7 DEF NextTool, ToolOver, Call, CallFails
<1>8. CASE ExecTool
  BY <1>8 DEF ExecTool, ToolOver, Call, CallFails
<1>9. CASE Checkpoints
  BY <1>9 DEF Checkpoints, BeforeModelCall, AfterModelCall, BeforeToolExec, AfterToolExec,
       RoundEnd, AtCheckpoint, Snapshot
<1>10. CASE UNCHANGED vars
  BY <1>10 DEF vars
<1> QED
  BY <1>1, <1>2, <1>3, <1>4, <1>5, <1>6, <1>7, <1>8, <1>9, <1>10 DEF Next, EngineStep
-----------------------------------------------------------------------------
(* The limit of turns *)

LEMMA TurnsStep == TypeInv /\ TurnsInv /\ [Next]_vars => TurnsInv'
<1> SUFFICES ASSUME TypeInv, TurnsInv, [Next]_vars
             PROVE  TurnsInv'
  OBVIOUS
<1>a. BatchOK /\ pc \in Steps /\ turns \in Nat /\ Len(batch) \in Nat
  BY TypeParts DEF RestOK, BatchOK
<1>b. pc \in {"awaitAsk", "exec", "awaitTool"} => batch # <<>>
  BY DEF TypeInv, WaitingOK
<1>c. batch # <<>> => Len(batch) > 0
  BY <1>a DEF BatchOK
<1>d. ASSUME batch # <<>>, saved' = saved, turns' \in Nat,
             turns' + Len(batch) <= MaxTurns + MaxCalls,
             NEW err \in Errors, NEW paired \in BOOLEAN, ToolOver(err, paired)
      PROVE  TurnsInv'
  <2>1. pc' = "tools" /\ Len(batch') = Len(batch) - 1
    BY <1>a, <1>d, ToolOverStep
  <2> QED
    BY <1>a, <1>c, <1>d, <2>1, EngineAssumption DEF TurnsInv, Bounded, Announced
<1> USE EngineAssumption DEF convVars, boundVars, Return, Goto, Announced, Bounded
<1>1. CASE Run \/ Cancel \/ Respond \/ BusShutdown \/ Crash \/ Discard
  BY <1>1, <1>a DEF Run, Cancel, Respond, BusShutdown, Crash, Discard, TurnsInv
<1>2. CASE Top \/ AfterModelTurn \/ Checked
  BY <1>2, <1>a DEF Top, AfterModelTurn, Checked, TurnsInv
<1>3. CASE ModelTurn
  BY <1>3, <1>a DEF ModelTurn, Call, TurnsInv
<1>4. CASE ModelAnswers
  <2>1. PICK calls \in Responses :
          batch' = [i \in DOMAIN calls |-> [id |-> <<lastCid, i>>, tool |-> calls[i]]]
    BY <1>4 DEF ModelAnswers
  <2>2. PICK n \in 0..MaxCalls : calls \in [1..n -> Tools]
    BY <2>1 DEF Responses
  <2>3. Len(batch') = n
    BY <2>1, <2>2
  <2> QED
    BY <1>4, <1>a, <2>2, <2>3 DEF ModelAnswers, TurnsInv
<1>5. CASE ModelCancelled \/ DispatchIncoming
  BY <1>5, <1>a DEF ModelCancelled, DispatchIncoming, TurnsInv
<1>6. CASE ModelBreaks
  BY <1>6, <1>a DEF ModelBreaks, TurnsInv
<1>7. CASE Decide
  BY <1>7, <1>a DEF Decide, TurnsInv
<1>8. CASE NextTool
  <2>1. saved' = saved /\ turns + Len(batch) < MaxTurns + MaxCalls
    BY <1>8 DEF NextTool, TurnsInv
  <2>2. CASE batch = <<>>
    BY <1>8, <1>a, <2>1, <2>2 DEF NextTool, TurnsInv
  <2>3. CASE batch # <<>> /\ cancelled
    <3>1. turns' = turns /\ ToolOver("Stopped", TRUE)
      BY <1>8, <2>3, Zenon DEF NextTool
    <3>2. turns' \in Nat /\ turns' + Len(batch) <= MaxTurns + MaxCalls
      BY <1>a, <2>1, <3>1
    <3> QED
      BY <1>d, <2>1, <2>3, <3>1, <3>2 DEF Errors
  <2>4. CASE batch # <<>> /\ ~cancelled
    <3>1. turns' = turns + 1
      BY <1>8, <2>4, Zenon DEF NextTool
    <3>2. \/ ToolOver("none", TRUE) \/ ToolOver("Bus", FALSE)
          \/ pc' \in {"awaitAsk", "exec"} /\ batch' = batch
      BY <1>8, <2>4, Zenon DEF NextTool, Call
    <3>3. turns' \in Nat /\ turns' + Len(batch) <= MaxTurns + MaxCalls
      BY <1>a, <2>1, <3>1
    <3>4. CASE ToolOver("none", TRUE) \/ ToolOver("Bus", FALSE)
      BY <1>d, <2>1, <2>4, <3>3, <3>4 DEF Errors
    <3>5. CASE pc' \in {"awaitAsk", "exec"} /\ batch' = batch
      BY <1>a, <1>c, <2>1, <2>4, <3>1, <3>3, <3>5 DEF TurnsInv
    <3> QED
      BY <3>2, <3>4, <3>5
  <2> QED
    BY <2>2, <2>3, <2>4
<1>9. CASE pc \in {"awaitAsk", "exec", "awaitTool"} /\ saved' = saved /\ turns' = turns
           /\ \E err \in Errors, paired \in BOOLEAN : ToolOver(err, paired)
  BY <1>9, <1>a, <1>b, <1>d DEF TurnsInv
<1>10. CASE AskAnswered
  BY <1>9, <1>10, <1>a DEF AskAnswered, TurnsInv, Errors
<1>11. CASE AskCancelled \/ ToolCancelled \/ ToolAnswers
  BY <1>9, <1>11 DEF AskCancelled, ToolCancelled, ToolAnswers, Errors
<1>12. CASE AskBreaks \/ ToolBreaks
  BY <1>9, <1>12 DEF AskBreaks, ToolBreaks, WaitErrors, Errors
<1>13. CASE ExecTool
  BY <1>9, <1>13, <1>a DEF ExecTool, Call, TurnsInv, Errors
<1>14. CASE Checkpoints
  BY <1>14, <1>a DEF Checkpoints, BeforeModelCall, AfterModelCall, BeforeToolExec, AfterToolExec,
       RoundEnd, AtCheckpoint, Snapshot, TurnsInv
<1>15. CASE UNCHANGED vars
  BY <1>15 DEF vars, TurnsInv
<1> QED
  BY <1>1, <1>2, <1>3, <1>4, <1>5, <1>6, <1>7, <1>8, <1>10, <1>11, <1>12, <1>13, <1>14, <1>15
     DEF Next, EngineStep

-----------------------------------------------------------------------------
(* Requests and their answers *)

(* The answers after the first, and the answers with one more.             *)
LEMMA QueueElements ==
  ASSUME NEW S, NEW q \in Seq(S)
  PROVE  /\ q # <<>> => /\ \A i \in DOMAIN Tail(q) : \E j \in DOMAIN q : Tail(q)[i] = q[j]
                        /\ Head(q) \in {q[j] : j \in DOMAIN q}
         /\ \A x \in S : \A i \in DOMAIN Append(q, x) :
              Append(q, x)[i] = x \/ \E j \in DOMAIN q : Append(q, x)[i] = q[j]
<1>1. ASSUME q # <<>>, NEW i \in DOMAIN Tail(q) PROVE \E j \in DOMAIN q : Tail(q)[i] = q[j]
  <2>1. i + 1 \in DOMAIN q /\ Tail(q)[i] = q[i + 1]
    BY <1>1
  <2> QED
    BY <2>1
<1>2. q # <<>> => Head(q) \in {q[j] : j \in DOMAIN q}
  <2> SUFFICES ASSUME q # <<>> PROVE 1 \in DOMAIN q /\ Head(q) = q[1]
    OBVIOUS
  <2> QED
    OBVIOUS
<1>3. ASSUME NEW x \in S, NEW i \in DOMAIN Append(q, x)
      PROVE  Append(q, x)[i] = x \/ \E j \in DOMAIN q : Append(q, x)[i] = q[j]
  OBVIOUS
<1> QED
  BY <1>1, <1>2, <1>3

(* A step makes no request known but one that run() makes itself.          *)
LEMMA KnownStep ==
  ASSUME TypeInv, [Next]_vars
  PROVE  \/ Known' \subseteq Known
         \/ pc \notin Awaiting /\ \E kind \in Kinds, step \in Awaiting : Call(kind, step)
<1>a. CallsOK
  BY TypeParts
<1>d. ASSUME replies' = Tail(replies), replies # <<>>
      PROVE  {replies'[i] : i \in DOMAIN replies'} \subseteq {replies[i] : i \in DOMAIN replies}
  BY <1>a, <1>d, QueueElements DEF CallsOK
<1> USE DEF convVars, boundVars, callVars, Return, Goto, Awaiting
<1>1. CASE Run \/ Cancel \/ BusShutdown
  BY <1>1 DEF Run, Cancel, BusShutdown, Known
<1>2. CASE Respond
  <2>1. PICK c \in inflight : inflight' = inflight \ {c} /\ replies' = Append(replies, c)
    BY <1>2 DEF Respond
  <2>2. {replies'[i] : i \in DOMAIN replies'} \subseteq {replies[i] : i \in DOMAIN replies} \cup {c}
    BY <1>a, <2>1, QueueElements DEF CallsOK
  <2> QED
    BY <1>2, <2>1, <2>2 DEF Respond, Known
<1>3. CASE Crash
  BY <1>3 DEF Crash, Known
<1>4. CASE Top \/ AfterModelTurn \/ Decide \/ Checked
  BY <1>4 DEF Top, AfterModelTurn, Decide, Checked, Known
<1>6. CASE ModelTurn
  <2>1. CASE UNCHANGED callVars /\ pc' \notin Awaiting
    BY <1>6, <2>1 DEF ModelTurn, Known
  <2>2. CASE Call("model_response", "awaitModel")
    BY <1>6, <2>2 DEF ModelTurn, Kinds
  <2> QED
    BY <1>6, <2>1, <2>2 DEF ModelTurn, CallFails
<1>7. CASE Answered /\ pc' \notin Awaiting
  BY <1>7, <1>d DEF Answered, TypeFits, Known
<1>8. CASE ModelAnswers \/ AskAnswered \/ ToolAnswers
  BY <1>7, <1>8 DEF ModelAnswers, AskAnswered, ToolAnswers, ToolOver
<1>9. CASE ModelCancelled \/ AskCancelled \/ ToolCancelled
  BY <1>9 DEF ModelCancelled, AskCancelled, ToolCancelled, WaitCancelled, ToolOver, Known
<1>10. CASE ModelBreaks \/ AskBreaks \/ ToolBreaks
  <2>1. pc' \notin Awaiting /\ inflight' = inflight
    BY <1>10 DEF ModelBreaks, AskBreaks, ToolBreaks, WaitBreaks, ToolOver
  <2>2. replies' = replies \/ (replies # <<>> /\ replies' = Tail(replies))
    BY <1>10 DEF ModelBreaks, AskBreaks, ToolBreaks, WaitBreaks, TypeFits
  <2> QED
    BY <1>d, <2>1, <2>2 DEF Known
<1>11. CASE NextTool
  <2>1. \/ UNCHANGED callVars /\ pc' \notin Awaiting
        \/ Call("permission_response", "awaitAsk")
    BY <1>11 DEF NextTool, ToolOver, CallFails
  <2>2. CASE UNCHANGED callVars /\ pc' \notin Awaiting
    BY <1>11, <2>2 DEF NextTool, Known
  <2>3. CASE Call("permission_response", "awaitAsk")
    BY <1>11, <2>3 DEF NextTool, Kinds
  <2> QED
    BY <2>1, <2>2, <2>3
<1>12. CASE ExecTool
  <2>1. \/ UNCHANGED callVars /\ pc' \notin Awaiting
        \/ Call("tool_result", "awaitTool")
    BY <1>12 DEF ExecTool, ToolOver, CallFails
  <2>2. CASE UNCHANGED callVars /\ pc' \notin Awaiting
    BY <1>12, <2>2 DEF ExecTool, Known
  <2>3. CASE Call("tool_result", "awaitTool")
    BY <1>12, <2>3 DEF ExecTool, Kinds
  <2> QED
    BY <2>1, <2>2, <2>3
<1>13. CASE Checkpoints
  BY <1>13 DEF Checkpoints, BeforeModelCall, AfterModelCall, BeforeToolExec, AfterToolExec,
       RoundEnd, AtCheckpoint, Known
<1>14. CASE Discard
  BY <1>14, <1>d DEF Discard, TypeFits, Known
<1>15. CASE DispatchIncoming
  BY <1>15, <1>d DEF DispatchIncoming, Known
<1>16. CASE UNCHANGED vars
  BY <1>16 DEF vars, Known
<1> QED
  BY <1>1, <1>2, <1>3, <1>4, <1>6, <1>8, <1>9, <1>10, <1>11, <1>12, <1>13, <1>14, <1>15, <1>16
     DEF Next, EngineStep

(* A request that run() makes is new.                                      *)
LEMMA CallKnown ==
  ASSUME TypeInv, NEW kind, NEW step \in Awaiting, Call(kind, step), pc \notin Awaiting
  PROVE  /\ Known' = Known \cup {waiting'}
         /\ waiting' = [cid |-> lastCid + 1, kind |-> kind, at |-> <<runs, turns'>>]
         /\ \A c \in Known : c.cid # lastCid + 1
<1>1. CallsOK
  BY TypeParts
<1>2. Known \subseteq CallsBeing(lastCid)
  BY <1>1 DEF Known, CallsOK
<1>3. \A c \in Known : c.cid # lastCid + 1
  BY <1>1, <1>2 DEF CallsBeing, CallsOK
<1> QED
  BY <1>3 DEF Call, Goto, Known

LEMMA IdsStep == TypeInv /\ IdsUnique /\ [Next]_vars => IdsUnique'
<1> SUFFICES ASSUME TypeInv, IdsUnique, [Next]_vars
             PROVE  IdsUnique'
  OBVIOUS
<1>1. CASE Known' \subseteq Known
  BY <1>1 DEF IdsUnique
<1>2. ASSUME NEW kind \in Kinds, NEW step \in Awaiting, Call(kind, step), pc \notin Awaiting
      PROVE  IdsUnique'
  BY <1>2, CallKnown DEF IdsUnique
<1> QED
  BY <1>1, <1>2, KnownStep

(* When a request was made                                                 *)
LEMMA MomentStep == TypeInv /\ MomentInv /\ [Next]_vars => MomentInv'
<1> SUFFICES ASSUME TypeInv, MomentInv, [Next]_vars
             PROVE  MomentInv'
  OBVIOUS
<1>a. /\ CallsOK /\ turns \in Nat /\ runs \in Nat
      /\ pc \in Awaiting => waiting \in CallsBeing(lastCid)
      /\ pc \notin Awaiting => waiting = NoCall
  BY TypeParts DEF RestOK, WaitingOK
<1>b. \A c \in Known : c.kind \in Kinds /\ c.at \in Nat \X Nat
  <2>1. Known \subseteq CallsBeing(lastCid)
    BY <1>a DEF Known, CallsOK
  <2> QED
    BY <2>1 DEF CallsBeing
<1>c. lastCid' = lastCid => Known' \subseteq Known
  BY <1>a, KnownStep DEF Call, CallsOK
<1>d. \A c \in Known : c.at[1] \in Nat /\ c.at[2] \in Nat /\ c.at[1] <= runs
  BY <1>b DEF MomentInv
(* The ways a step can go on: run() returns, or it is at no wait and not   *)
(* about to call a tool; only the environment acts; or a turn has begun.   *)
<1>e. ASSUME lastCid' = lastCid, runs' = runs, pc' = "idle"
      PROVE  MomentInv'
  BY <1>a, <1>c, <1>d, <1>e DEF MomentInv, Awaiting
<1>f. ASSUME lastCid' = lastCid, runs' = runs, turns' \in {turns, turns + 1}, pc # "idle",
             pc' \notin Awaiting \cup {"exec"}
      PROVE  MomentInv'
  <2>1. ASSUME NEW c \in Known PROVE Past(c)' \/ c.at = Now'
    BY <1>a, <1>b, <1>d, <1>f DEF MomentInv, Past, Now
  <2> QED
    BY <1>a, <1>c, <1>d, <1>f, <2>1 DEF MomentInv, Awaiting
<1>g. ASSUME lastCid' = lastCid, UNCHANGED <<runs, turns, pc, waiting>>
      PROVE  MomentInv'
  <2>1. ASSUME NEW c \in Known PROVE Past(c)' <=> Past(c)
    BY <1>g DEF Past
  <2>2. Now' = Now
    BY <1>g DEF Now
  <2> QED
    BY <1>c, <1>g, <2>1, <2>2 DEF MomentInv
<1>h. ASSUME runs' = runs, turns' = turns + 1, pc # "idle"
      PROVE  \A c \in Known : Past(c)'
  BY <1>a, <1>b, <1>d, <1>h DEF MomentInv, Past, Now
<1>i. ASSUME NEW kind \in Kinds, NEW step \in {"awaitModel", "awaitAsk"}, Call(kind, step),
             pc \notin Awaiting, pc # "idle", runs' = runs, turns' = turns + 1,
             step = "awaitAsk" => kind = "permission_response"
      PROVE  MomentInv'
  <2>1. /\ Known' = Known \cup {waiting'} /\ pc' = step
        /\ waiting'.at = Now' /\ waiting'.kind = kind
    BY <1>i, CallKnown DEF Awaiting, Call, Goto, Now
  <2>2. waiting'.at[1] = runs'
    BY <2>1 DEF Now
  <2> QED
    BY <1>a, <1>d, <1>h, <1>i, <2>1, <2>2 DEF MomentInv, Awaiting
<1> USE DEF convVars, boundVars, callVars, Return, Goto, Awaiting
<1>1. CASE Run
  <2>1. \A c \in Known : Past(c)'
    BY <1>1, <1>a, <1>d DEF Run, Past
  <2> QED
    BY <1>1, <1>a, <1>c, <1>d, <2>1 DEF Run, MomentInv
<1>2. CASE Cancel \/ Respond \/ BusShutdown \/ Discard
  BY <1>2, <1>g DEF Cancel, Respond, BusShutdown, Discard
<1>3. CASE Crash \/ DispatchIncoming
  BY <1>3, <1>e DEF Crash, DispatchIncoming
<1>4. CASE Top \/ AfterModelTurn \/ Decide \/ Checked
  BY <1>4, <1>f DEF Top, AfterModelTurn, Decide, Checked
<1>5. CASE ModelTurn
  <2>1. CASE UNCHANGED callVars
    BY <1>5, <1>f, <2>1, <1>a DEF ModelTurn, Call, CallsOK
  <2>2. CASE Call("model_response", "awaitModel") /\ turns' = turns + 1
    BY <1>5, <1>i, <2>2 DEF ModelTurn, Kinds
  <2> QED
    BY <1>5, <2>1, <2>2 DEF ModelTurn, CallFails
<1>6. CASE ModelAnswers \/ ToolAnswers
  BY <1>6, <1>f DEF ModelAnswers, ToolAnswers, Answered, ToolOver
<1>7. CASE ModelCancelled \/ AskCancelled \/ ToolCancelled
  BY <1>7, <1>f DEF ModelCancelled, AskCancelled, ToolCancelled, WaitCancelled, ToolOver
<1>8. CASE ModelBreaks \/ AskBreaks \/ ToolBreaks
  BY <1>8, <1>f DEF ModelBreaks, AskBreaks, ToolBreaks, WaitBreaks, ToolOver
<1>9. CASE NextTool
  <2>1. runs' = runs /\ pc = "tools" /\ turns' \in {turns, turns + 1}
    BY <1>9 DEF NextTool
  <2>2. CASE lastCid' = lastCid /\ pc' \notin Awaiting \cup {"exec"}
    BY <1>f, <2>1, <2>2
  <2>3. CASE Call("permission_response", "awaitAsk") /\ turns' = turns + 1
    BY <1>i, <2>1, <2>3 DEF Kinds
  <2>4. CASE pc' = "exec" /\ lastCid' = lastCid /\ turns' = turns + 1
    BY <1>a, <1>c, <1>d, <1>h, <2>1, <2>4 DEF MomentInv
  <2> QED
    BY <1>9, <2>2, <2>3, <2>4, Zenon DEF NextTool, ToolOver, CallFails
<1>10. CASE AskAnswered
  <2>1. CASE ToolOver("none", TRUE)
    BY <1>10, <1>f, <2>1 DEF AskAnswered, Answered, ToolOver
  <2>2. CASE Goto("exec")
    <3>1. /\ lastCid' = lastCid /\ runs' = runs /\ turns' = turns
          /\ pc = "awaitAsk" /\ pc' = "exec"
      BY <1>10, <2>2 DEF AskAnswered, Answered
    <3>2. \A c \in Known : Past(c) \/ c.kind = "permission_response"
      BY <3>1 DEF MomentInv
    <3>3. \A c \in Known : (Past(c)' <=> Past(c)) /\ (Past(c) \/ c.at = Now')
      BY <3>1 DEF MomentInv, Past, Now
    <3> QED
      BY <1>a, <1>c, <1>d, <3>1, <3>2, <3>3 DEF MomentInv
  <2> QED
    BY <1>10, <2>1, <2>2 DEF AskAnswered
<1>11. CASE ExecTool
  <2>1. runs' = runs /\ turns' = turns /\ pc = "exec"
    BY <1>11 DEF ExecTool
  <2>2. CASE lastCid' = lastCid /\ pc' \notin Awaiting \cup {"exec"}
    BY <1>f, <2>1, <2>2
  <2>3. CASE Call("tool_result", "awaitTool")
    <3>1. /\ Known' = Known \cup {waiting'} /\ pc' = "awaitTool"
          /\ waiting'.at = Now' /\ waiting'.kind = "tool_result"
      BY <2>1, <2>3, CallKnown DEF Call, Now
    <3>2. \A c \in Known : Past(c) \/ c.kind = "permission_response"
      BY <1>a, <1>b, <2>1 DEF MomentInv, NoCall, Kinds
    <3>3. \A c \in Known : (Past(c)' <=> Past(c)) /\ (Past(c) \/ c.at = Now')
      BY <2>1 DEF MomentInv, Past, Now
    <3>4. waiting'.at[1] = runs'
      BY <3>1 DEF Now
    <3> QED
      BY <1>a, <1>d, <2>1, <3>1, <3>2, <3>3, <3>4 DEF MomentInv
  <2> QED
    BY <1>11, <2>2, <2>3, Zenon DEF ExecTool, ToolOver, CallFails
<1>12. CASE Checkpoints
  BY <1>12, <1>f DEF Checkpoints, BeforeModelCall, AfterModelCall, BeforeToolExec, AfterToolExec,
       RoundEnd, AtCheckpoint
<1>13. CASE UNCHANGED vars
  BY <1>13, <1>g DEF vars
<1> QED
  BY <1>1, <1>2, <1>3, <1>4, <1>5, <1>6, <1>7, <1>8, <1>9, <1>10, <1>11, <1>12, <1>13
     DEF Next, EngineStep

-----------------------------------------------------------------------------
(* The theorems *)

LEMMA InvInit == Init => IInv
<1> SUFFICES ASSUME Init PROVE IInv
  OBVIOUS
<1>1. TypeInv
  BY TypeInit
<1>2. OpenInv /\ WaitsClean
  BY DEF Init, OpenInv, WaitsClean, Awaiting, Quiet, Announced, Working
<1>3. TurnsInv
  BY EngineAssumption DEF Init, TurnsInv, Bounded, Announced
<1>4. IdsUnique /\ MomentInv
  BY DEF Init, IdsUnique, Known, MomentInv, Awaiting
<1> QED
  BY <1>1, <1>2, <1>3, <1>4 DEF IInv

LEMMA EngineInv == Spec => []IInv
<1>1. IInv /\ [Next]_vars => IInv'
  BY TypeStep, OpenStep, WaitsStep, TurnsStep, IdsStep, MomentStep DEF IInv
<1> QED
  BY InvInit, <1>1, PTL DEF Spec

(* Type correctness of run(), its calls over the bus, its snapshots and    *)
(* its restarts.                                                           *)
THEOREM EngineTypeCorrect == Spec => []TypeOK
<1>1. IInv => TypeOK
  BY DEF IInv, TypeInv
<1> QED
  BY <1>1, EngineInv, PTL

(* While a batch is gone through, the only open calls of the round are     *)
(* those still to come and those the bus or a processor failed, or whose   *)
(* permission was not given: also after an error, and when the round is    *)
(* cancelled.  No model call is made, and no Ok returned, with one open.   *)
THEOREM CallsArePaired == Spec => []CallsPaired
<1>1. IInv => CallsPaired
  BY DEF IInv, OpenInv, CallsPaired, Quiet
<1> QED
  BY <1>1, EngineInv, PTL

(* No wait event outlives its call, in State or in a snapshot, unless a    *)
(* processor failed, the bus closed or run() unwound under it.             *)
THEOREM WaitsAreClean == Spec => []WaitsClean
<1>1. IInv => WaitsClean
  BY DEF IInv
<1> QED
  BY <1>1, EngineInv, PTL

(* max_turns is passed by no more than the tool calls of one response,     *)
(* over any number of rounds, cancellations and restarts.                  *)
THEOREM TurnsAreBounded == Spec => []TurnsBounded
<1>1. IInv => TurnsBounded
  BY DEF IInv, TurnsInv, Bounded, TurnsBounded
<1> QED
  BY <1>1, EngineInv, PTL

(* What a wait compares, a message's type and id, is enough: the answer    *)
(* that is taken was asked for in this turn of this round, and none that   *)
(* was is dropped, over cancellations and over restarts that reload an     *)
(* older State.                                                            *)
THEOREM AnswersAreOwn == Spec => AnswersMatch
<1>1. IInv /\ [Next]_vars =>
        [/\ Answered => Head(replies).at = <<runs, turns>>
         /\ Discard => Head(replies).at # <<runs, turns>>]_vars
  <2> SUFFICES ASSUME IInv, [Next]_vars
               PROVE  /\ Answered => Head(replies).at = Now
                      /\ Discard => Head(replies).at # Now
    BY DEF Now
  <2>a. CallsOK /\ (pc \notin Awaiting => waiting = NoCall)
    BY TypeParts DEF IInv, RestOK, WaitingOK
  <2>b. replies # <<>> => Head(replies) \in Known /\ Head(replies) \in CallsBeing(lastCid)
    BY <2>a, QueueElements DEF Known, CallsOK
  <2>1. ASSUME Answered PROVE Head(replies).at = Now
    <3>1. replies # <<>> /\ Head(replies).kind = waiting.kind /\ Head(replies).cid = waiting.cid
      BY <2>1 DEF Answered, TypeFits, CidFits
    <3>2. pc \in Awaiting
      BY <2>a, <2>b, <3>1 DEF NoCall, CallsBeing, Kinds
    <3>3. waiting \in Known /\ waiting.at = Now
      BY <3>2 DEF IInv, MomentInv, Known
    <3> QED
      BY <2>b, <3>1, <3>3 DEF IInv, IdsUnique
  <2>2. ASSUME Discard PROVE Head(replies).at # Now
    <3>1. /\ replies # <<>> /\ Head(replies).kind = waiting.kind /\ pc \in Awaiting
          /\ Head(replies) # waiting
      BY <2>2 DEF Discard, TypeFits, CidFits
    <3>2. Past(Head(replies))
      BY <2>b, <3>1 DEF IInv, MomentInv, Awaiting
    <3>3. turns \in Nat /\ runs \in Nat
      BY TypeParts DEF IInv, RestOK
    <3> QED
      BY <2>b, <3>2, <3>3 DEF Past, Now
  <2> QED
    BY <2>1, <2>2
<1> QED
  BY <1>1, EngineInv, PTL DEF Spec, AnswersMatch

(* No message that bears the awaited correlation id goes to                *)
(* dispatch_incoming for its type: an id is not given to requests of two   *)
(* types, not even over a restart that reloads an older State.             *)
OwnAnswerKept ==
  [][DispatchIncoming => Head(replies).cid # waiting.cid]_vars

THEOREM OwnAnswersAreKept == Spec => OwnAnswerKept
<1>1. IInv /\ [Next]_vars => [DispatchIncoming => Head(replies).cid # waiting.cid]_vars
  <2> SUFFICES ASSUME IInv, DispatchIncoming
               PROVE  Head(replies).cid # waiting.cid
    OBVIOUS
  <2>1. CallsOK
    BY TypeParts DEF IInv
  <2>2. pc \in Awaiting /\ replies # <<>> /\ Head(replies) # waiting
    BY DEF DispatchIncoming
  <2>3. Head(replies) \in Known /\ waiting \in Known
    BY <2>1, <2>2, QueueElements DEF Known, CallsOK
  <2> QED
    BY <2>2, <2>3 DEF IInv, IdsUnique
<1> QED
  BY <1>1, EngineInv, PTL DEF Spec, OwnAnswerKept
=============================================================================
