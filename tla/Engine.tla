------------------------------- MODULE Engine -------------------------------
(***************************************************************************)
(* The ReAct loop of crates/arf-engine: run() with its model turns, its    *)
(* batches of tool calls under a permission policy, the five checkpoints   *)
(* that save the session, cancellation, and a restart from the last saved  *)
(* checkpoint.                                                             *)
(*                                                                         *)
(* The conversation is kept as what the model API cares about: the tool    *)
(* calls an assistant message announced that no tool message answers yet.  *)
(* Model, tools and the user who is asked for permission are responders on *)
(* the bus: they answer a request late, after others, or never.            *)
(***************************************************************************)
EXTENDS Integers, Sequences, FiniteSets

CONSTANTS
  Tools,       \* tool names
  Permission,  \* the configured ToolPermission of each tool
  MaxTurns,    \* AgentConfig.engine.max_turns
  MaxCalls,    \* bound: tool calls in one model response
  MaxRuns,     \* bound: calls of run()
  MaxCrashes   \* bound: restarts

ASSUME EngineAssumption ==
  /\ IsFiniteSet(Tools)
  /\ Permission \in [Tools -> {"Allow", "Ask", "Deny"}]
  /\ MaxTurns \in Nat /\ MaxCalls \in Nat /\ MaxRuns \in Nat /\ MaxCrashes \in Nat

VARIABLES
  pc,         \* where run() is
  cancelled,  \* the round's CancellationToken
  turns,      \* State.over_view.turn_count
  open,       \* ids of announced tool calls without a tool message
  batch,      \* tool calls of the last response still to be gone through
  results,    \* of the batch's calls that are over: each one's error and where it
              \* ended
  result,     \* what the last run() returned
  waits,      \* correlation ids in State.wait_events
  waiting,    \* the request run() awaits
  lastCid,    \* correlation ids handed out so far
  inflight,   \* requests no responder has answered
  replies,    \* answers in the engine's inbound queue
  busOpen,    \* the bus has not been shut down
  saved,      \* the State of the last snapshot
  before,     \* history: the calls that were open when the round began
  spoiled,    \* history: a wait ended in an error other than Stopped
  runs, crashes

callVars  == <<waits, waiting, lastCid, inflight, replies, busOpen>>
convVars  == <<turns, open>>
boundVars == <<before, spoiled, runs, crashes>>
vars == <<pc, cancelled, convVars, batch, results, result, callVars, saved, boundVars>>

Kinds == {"model_response", "tool_result", "permission_response"}
NoCall == [cid |-> 0, kind |-> "none", at |-> <<0, 0>>]
Errors == {"none", "Stopped", "Bus", "Processor", "Internal"}

Init ==
  /\ pc = "idle" /\ cancelled = FALSE
  /\ turns = 0 /\ open = {} /\ batch = <<>> /\ results = <<>> /\ result = "none"
  /\ waits = {} /\ waiting = NoCall /\ lastCid = 0 /\ inflight = {} /\ replies = <<>>
  /\ busOpen = TRUE
  /\ saved = [turns |-> 0, open |-> {}, waits |-> {}]
  /\ before = {} /\ spoiled = FALSE /\ runs = 0 /\ crashes = 0

Return(r) == pc' = "idle" /\ result' = r
Goto(step) == pc' = step /\ UNCHANGED result

-----------------------------------------------------------------------------
(* The calling environment *)

(* run() with the caller's token.  The session must exist in the store     *)
(* before prepare_round appends the user message.                          *)
Run ==
  /\ pc = "idle" /\ runs < MaxRuns
  /\ \/ pc' = "top" /\ result' = "none"
     \/ Return("SnapshotFailed")
     \/ Return("SessionNotPreSaved")
  /\ cancelled' \in BOOLEAN
  /\ batch' = <<>> /\ results' = <<>>
  /\ before' = open /\ runs' = runs + 1
  /\ UNCHANGED <<convVars, callVars, saved, spoiled, crashes>>

Cancel ==
  /\ pc # "idle" /\ ~cancelled
  /\ cancelled' = TRUE
  /\ UNCHANGED <<pc, convVars, batch, results, result, callVars, saved, boundVars>>

Respond ==
  /\ busOpen
  /\ \E c \in inflight : inflight' = inflight \ {c} /\ replies' = Append(replies, c)
  /\ UNCHANGED <<pc, cancelled, convVars, batch, results, result, waits, waiting, lastCid,
                 busOpen, saved, boundVars>>

BusShutdown ==
  /\ busOpen /\ busOpen' = FALSE
  /\ UNCHANGED <<pc, cancelled, convVars, batch, results, result, waits, waiting, lastCid,
                 inflight, replies, saved, boundVars>>

(* The process dies; a new engine loads the session and subscribes anew.   *)
Crash ==
  /\ crashes < MaxCrashes
  /\ crashes' = crashes + 1
  /\ pc' = "idle" /\ cancelled' = FALSE /\ result' = "none"
  /\ turns' = saved.turns /\ open' = saved.open /\ waits' = saved.waits
  /\ batch' = <<>> /\ results' = <<>> /\ waiting' = NoCall /\ replies' = <<>>
  /\ busOpen' = TRUE
  /\ UNCHANGED <<lastCid, inflight, saved, before, spoiled, runs>>

-----------------------------------------------------------------------------
(* Calls over the bus *)

(* Seeded fault: a request is numbered by the turn, which State counts and *)
(* a restart sets back, instead of by a new id.                            *)
FaultyCall(kind, step) ==
  LET c == [cid |-> turns', kind |-> kind, at |-> <<runs, turns'>>] IN
  /\ busOpen
  /\ lastCid' = lastCid + 1
  /\ waits' = waits \cup {c.cid}
  /\ waiting' = c
  /\ inflight' = inflight \cup {c}
  /\ Goto(step)
  /\ UNCHANGED <<replies, busOpen>>

(* send_and_await and request_permission: the wait event, the send, and    *)
(* then the wait.  The id is new (Uuid::new_v4); the round and the turn a  *)
(* request is made at are history.                                         *)
Call(kind, step) ==
  LET c == [cid |-> lastCid + 1, kind |-> kind, at |-> <<runs, turns'>>] IN
  /\ busOpen
  /\ lastCid' = lastCid + 1
  /\ waits' = waits \cup {c.cid}
  /\ waiting' = c
  /\ inflight' = inflight \cup {c}
  /\ Goto(step)
  /\ UNCHANGED <<replies, busOpen>>

(* The send fails (NodeOffline, BusClosed): the wait event is removed.     *)
CallFails == UNCHANGED callVars

(* What wait_for_strategy looks at: the type of a message, and its         *)
(* correlation id.                                                         *)
TypeFits == replies # <<>> /\ Head(replies).kind = waiting.kind
CidFits  == Head(replies).cid = waiting.cid

(* wait_for_strategy takes the answer and removes the wait event.          *)
Answered ==
  /\ TypeFits /\ CidFits
  /\ replies' = Tail(replies)
  /\ waits' = waits \ {waiting.cid}
  /\ waiting' = NoCall
  /\ UNCHANGED <<lastCid, inflight, busOpen>>

(* Seeded fault: a cancelled wait forgets its wait event.                  *)
FaultyWaitCancelled ==
  /\ cancelled
  /\ waiting' = NoCall
  /\ UNCHANGED <<waits, lastCid, inflight, replies, busOpen>>

(* The token fires first; the answer may still come.                       *)
WaitCancelled ==
  /\ cancelled
  /\ waits' = waits \ {waiting.cid}
  /\ waiting' = NoCall
  /\ UNCHANGED <<lastCid, inflight, replies, busOpen>>

(* A ResponseProcessor rejects the answer, or recv() reports the bus       *)
(* closed: the error leaves with ?, and the wait event stays.              *)
WaitBreaks(err) ==
  /\ ~cancelled
  /\ \/ /\ err = "Processor"
        /\ TypeFits /\ CidFits
        /\ replies' = Tail(replies)
     \/ err = "Internal" /\ ~busOpen /\ UNCHANGED replies
  /\ waiting' = NoCall
  /\ spoiled' = TRUE
  /\ UNCHANGED <<waits, lastCid, inflight, busOpen, before, runs, crashes>>

WaitErrors == {"Processor", "Internal"}
Awaiting == {"awaitModel", "awaitAsk", "awaitTool"}

(* Seeded fault: any message of the awaited type is dropped.               *)
FaultyDiscard ==
  /\ pc \in Awaiting /\ ~cancelled
  /\ TypeFits
  /\ replies' = Tail(replies)
  /\ UNCHANGED <<pc, cancelled, convVars, batch, results, result, waits, waiting, lastCid,
                 inflight, busOpen, saved, boundVars>>

(* An answer of the awaited type to another request is read and dropped.   *)
Discard ==
  /\ pc \in Awaiting /\ ~cancelled
  /\ TypeFits /\ ~CidFits
  /\ replies' = Tail(replies)
  /\ UNCHANGED <<pc, cancelled, convVars, batch, results, result, waits, waiting, lastCid,
                 inflight, busOpen, saved, boundVars>>

(* A message of another type goes to dispatch_incoming, whose blocking_lock *)
(* panics on a runtime thread: run() unwinds and the wait event stays.      *)
DispatchIncoming ==
  /\ pc \in Awaiting /\ ~cancelled
  /\ replies # <<>> /\ Head(replies).kind # waiting.kind
  /\ replies' = Tail(replies)
  /\ waiting' = NoCall /\ spoiled' = TRUE
  /\ Return("Panic")
  /\ UNCHANGED <<cancelled, convVars, batch, results, waits, lastCid, inflight, busOpen,
                 saved, before, runs, crashes>>

-----------------------------------------------------------------------------
(* SqliteSessionStore::snapshot replaces the State of the session.         *)
Snapshot == saved' = [turns |-> turns, open |-> open, waits |-> waits]

(* Checkpoints: evaluate_and_dispatch without rules is the cancel check    *)
(* and the snapshot, whose failure ends the round.                         *)
AtCheckpoint(from, to) ==
  /\ pc = from
  /\ \/ cancelled /\ Return("Stopped") /\ UNCHANGED saved
     \/ ~cancelled /\ Return("SnapshotFailed") /\ UNCHANGED saved
     \/ ~cancelled
        /\ Snapshot
        /\ IF to = "idle" THEN Return("Ok") ELSE Goto(to)
  /\ UNCHANGED <<cancelled, convVars, batch, results, callVars, boundVars>>

BeforeModelCall == AtCheckpoint("beforeModelCall", "model")
AfterModelCall  == AtCheckpoint("afterModelCall", "decide")
BeforeToolExec  == AtCheckpoint("beforeToolExec", "tools")
AfterToolExec   == AtCheckpoint("afterToolExec", "checked")
RoundEnd        == AtCheckpoint("roundEnd", "idle")

-----------------------------------------------------------------------------
(* run_inner *)

Top ==
  /\ pc = "top"
  /\ \/ cancelled /\ Return("Stopped")
     \/ ~cancelled /\ turns >= MaxTurns /\ Return("MaxTurnsExceeded")
     \/ ~cancelled /\ turns < MaxTurns /\ Goto("beforeModelCall")
  /\ UNCHANGED <<cancelled, convVars, batch, results, callVars, saved, boundVars>>

(* do_model_turn up to its wait: a middleware may abort it with an empty   *)
(* answer, the token or the bus may refuse the call.                       *)
ModelTurn ==
  /\ pc = "model"
  /\ \/ turns >= MaxTurns /\ Return("MaxTurnsExceeded") /\ UNCHANGED <<turns, batch, callVars>>
     \/ /\ turns < MaxTurns
        /\ turns' = turns + 1
        /\ batch' = <<>>
        /\ \/ Goto("answered") /\ UNCHANGED callVars
           \/ cancelled /\ Return("Stopped") /\ UNCHANGED callVars
           \/ ~cancelled /\ Return("Bus") /\ CallFails
           \/ ~cancelled /\ Call("model_response", "awaitModel")
  /\ UNCHANGED <<cancelled, open, results, saved, boundVars>>

(* The calls a model response may hold.                                    *)
Responses == UNION {[1..n -> Tools] : n \in 0..MaxCalls}

(* The assistant message with its tool calls enters the conversation.  The *)
(* ids are made unique by the turn that announced them.                    *)
ModelAnswers ==
  /\ pc = "awaitModel" /\ ~cancelled
  /\ Answered
  /\ \E calls \in Responses :
       /\ batch' = [i \in DOMAIN calls |-> [id |-> <<lastCid, i>>, tool |-> calls[i]]]
       /\ open' = open \cup {<<lastCid, i>> : i \in DOMAIN calls}
  /\ Goto("answered")
  /\ UNCHANGED <<cancelled, turns, results, saved, boundVars>>

ModelCancelled ==
  /\ pc = "awaitModel" /\ WaitCancelled /\ Return("Stopped")
  /\ UNCHANGED <<cancelled, convVars, batch, results, saved, boundVars>>

ModelBreaks ==
  /\ pc = "awaitModel"
  /\ \E err \in WaitErrors : WaitBreaks(err) /\ Return(err)
  /\ UNCHANGED <<cancelled, convVars, batch, results, saved>>

AfterModelTurn ==
  /\ pc = "answered"
  /\ \/ cancelled /\ Return("Stopped")
     \/ ~cancelled /\ Goto("afterModelCall")
  /\ UNCHANGED <<cancelled, convVars, batch, results, callVars, saved, boundVars>>

Decide ==
  /\ pc = "decide"
  /\ \/ turns >= MaxTurns /\ Return("MaxTurnsExceeded")
     \/ turns < MaxTurns /\ batch = <<>> /\ Goto("roundEnd")
     \/ turns < MaxTurns /\ batch # <<>> /\ cancelled /\ Return("Stopped")
     \/ turns < MaxTurns /\ batch # <<>> /\ ~cancelled /\ Goto("beforeToolExec")
  /\ UNCHANGED <<cancelled, convVars, batch, results, callVars, saved, boundVars>>

-----------------------------------------------------------------------------
(* do_tool_turns_concurrent: the calls one after the other *)

(* The call at the head of the batch is over: with a tool message or       *)
(* without, with an error or none.                                         *)
ToolOver(err, paired) ==
  /\ open' = IF paired THEN open \ {Head(batch).id} ELSE open
  /\ batch' = Tail(batch)
  /\ results' = Append(results, [id |-> Head(batch).id, at |-> pc, err |-> err])
  /\ Goto("tools")

NextTool ==
  /\ pc = "tools"
  /\ \/ /\ batch = <<>>
        /\ Goto("afterToolExec")
        /\ UNCHANGED <<turns, open, batch, results, callVars>>
     \/ /\ batch # <<>> /\ cancelled                   \* with a sentinel message
        /\ ToolOver("Stopped", TRUE)
        /\ UNCHANGED <<turns, callVars>>
     \/ /\ batch # <<>> /\ ~cancelled
        /\ turns' = turns + 1
        /\ LET permission == Permission[Head(batch).tool] IN
           \/ permission = "Deny" /\ ToolOver("none", TRUE) /\ UNCHANGED callVars
           \/ permission = "Ask" /\ ToolOver("Bus", FALSE) /\ CallFails
           \/ /\ permission = "Ask" /\ Call("permission_response", "awaitAsk")
              /\ UNCHANGED <<open, batch, results>>
           \/ permission = "Allow" /\ Goto("exec") /\ UNCHANGED <<open, batch, results, callVars>>
  /\ UNCHANGED <<cancelled, saved, boundVars>>

(* permission_response: the user refuses, with a tool message, or grants.  *)
AskAnswered ==
  /\ pc = "awaitAsk" /\ ~cancelled
  /\ Answered
  /\ \/ ToolOver("none", TRUE)
     \/ Goto("exec") /\ UNCHANGED <<open, batch, results>>
  /\ UNCHANGED <<cancelled, turns, saved, boundVars>>

(* The error of request_permission leaves do_tool_turn without a message.  *)
AskCancelled ==
  /\ pc = "awaitAsk" /\ WaitCancelled /\ ToolOver("Stopped", FALSE)
  /\ UNCHANGED <<cancelled, turns, saved, boundVars>>

AskBreaks ==
  /\ pc = "awaitAsk"
  /\ \E err \in WaitErrors : WaitBreaks(err) /\ ToolOver(err, FALSE)
  /\ UNCHANGED <<cancelled, turns, saved>>

(* tool_exec goes out, unless the token or the bus refuses it; a cancelled *)
(* call gets a sentinel message, a failed one gets none.                   *)
ExecTool ==
  /\ pc = "exec" /\ UNCHANGED turns
  /\ \/ cancelled /\ ToolOver("Stopped", TRUE) /\ UNCHANGED callVars
     \/ ~cancelled /\ ToolOver("Bus", FALSE) /\ CallFails
     \/ ~cancelled /\ Call("tool_result", "awaitTool") /\ UNCHANGED <<open, batch, results>>
  /\ UNCHANGED <<cancelled, saved, boundVars>>

ToolAnswers ==
  /\ pc = "awaitTool" /\ ~cancelled
  /\ Answered /\ ToolOver("none", TRUE)
  /\ UNCHANGED <<cancelled, turns, saved, boundVars>>

(* Seeded fault: a call cancelled in the middle gets no sentinel message.  *)
FaultySentinel ==
  /\ pc = "awaitTool" /\ WaitCancelled /\ ToolOver("Stopped", FALSE)
  /\ UNCHANGED <<cancelled, turns, saved, boundVars>>

(* Seeded fault: the token is looked at only when a message comes in.      *)
FaultyToolCancelled ==
  /\ pc = "awaitTool" /\ replies # <<>>
  /\ WaitCancelled /\ ToolOver("Stopped", TRUE)
  /\ UNCHANGED <<cancelled, turns, saved, boundVars>>

ToolCancelled ==
  /\ pc = "awaitTool" /\ WaitCancelled /\ ToolOver("Stopped", TRUE)
  /\ UNCHANGED <<cancelled, turns, saved, boundVars>>

ToolBreaks ==
  /\ pc = "awaitTool"
  /\ \E err \in WaitErrors : WaitBreaks(err) /\ ToolOver(err, FALSE)
  /\ UNCHANGED <<cancelled, turns, saved>>

Failed == {i \in DOMAIN results : results[i].err # "none"}

(* After the AfterToolExec checkpoint: the first error, then the limit.    *)
Checked ==
  /\ pc = "checked"
  /\ \/ \E i \in Failed : (\A j \in Failed : i <= j) /\ Return(results[i].err)
     \/ Failed = {} /\ turns >= MaxTurns /\ Return("MaxTurnsExceeded")
     \/ Failed = {} /\ turns < MaxTurns /\ Goto("top")
  /\ results' = <<>>
  /\ UNCHANGED <<cancelled, convVars, batch, callVars, saved, boundVars>>

-----------------------------------------------------------------------------
Checkpoints == BeforeModelCall \/ AfterModelCall \/ BeforeToolExec \/ AfterToolExec \/ RoundEnd

EngineStep ==
  \/ Top \/ ModelTurn \/ ModelAnswers \/ ModelCancelled \/ ModelBreaks \/ AfterModelTurn
  \/ Decide \/ NextTool \/ AskAnswered \/ AskCancelled \/ AskBreaks
  \/ ExecTool \/ ToolAnswers \/ ToolCancelled \/ ToolBreaks \/ Checked
  \/ Checkpoints \/ Discard \/ DispatchIncoming

Next == EngineStep \/ Run \/ Cancel \/ Respond \/ BusShutdown \/ Crash

(* The engine's task runs whenever it can.  Nobody need answer, cancel or  *)
(* call run().                                                             *)
Spec == Init /\ [][Next]_vars /\ WF_vars(EngineStep)

-----------------------------------------------------------------------------
(* Properties *)

Steps == {"idle", "top", "beforeModelCall", "model", "awaitModel", "answered", "afterModelCall",
          "decide", "roundEnd", "beforeToolExec", "tools", "awaitAsk", "exec", "awaitTool",
          "afterToolExec", "checked"}
Results == {"none", "Ok", "Stopped", "MaxTurnsExceeded", "SnapshotFailed",
            "SessionNotPreSaved", "Bus", "Processor", "Internal", "Panic"}
CallIds == Nat \X (1..MaxCalls)
Working == {"tools", "awaitAsk", "exec", "awaitTool", "afterToolExec", "checked"}

(* Each variable keeps its shape.                                          *)
TypeOK ==
  /\ pc \in Steps /\ cancelled \in BOOLEAN /\ busOpen \in BOOLEAN
  /\ result \in Results /\ results \in Seq([id : CallIds, at : Steps, err : Errors])
  /\ turns \in Nat /\ runs \in Nat /\ lastCid \in Nat /\ before \subseteq CallIds
  /\ open \subseteq CallIds /\ waits \subseteq 1..lastCid
  /\ batch \in Seq([id : CallIds, tool : Tools])
  /\ waiting \in [cid : Nat, kind : Kinds, at : Nat \X Nat] \cup {NoCall}
  /\ inflight \subseteq [cid : 1..lastCid, kind : Kinds, at : Nat \X Nat]
  /\ replies \in Seq([cid : 1..lastCid, kind : Kinds, at : Nat \X Nat])
  /\ saved.turns \in Nat /\ saved.open \subseteq CallIds /\ saved.waits \subseteq Nat

(* The answer that a turn takes answers what this turn of this round asked *)
(* for, and no answer to it is thrown away: wait_for_strategy compares     *)
(* types and ids only, while answers come after their request was          *)
(* cancelled, or after a restart that set the count of turns back, and     *)
(* another request of the same type is awaited.                            *)
AnswersMatch ==
  [][ /\ Answered => Head(replies).at = <<runs, turns>>
      /\ Discard => Head(replies).at # <<runs, turns>> ]_vars

Batched == {batch[i].id : i \in DOMAIN batch}

(* The calls of the batch that the code leaves without a tool message: the *)
(* bus or a processor failed them, or the permission request did.          *)
Silent(over) ==
  \/ over.err \notin {"none", "Stopped"}
  \/ over.err = "Stopped" /\ over.at = "awaitAsk"
Unanswered == {results[i].id : i \in {j \in DOMAIN results : Silent(results[j])}}

(* Every other call that is over has its tool message, also after a call   *)
(* that failed: denied, refused, answered, cancelled before it started or  *)
(* in the middle of its execution.  And a model call or a return of Ok     *)
(* never leaves a call without one that this round announced.              *)
CallsPaired ==
  /\ pc \in Working => open \subseteq Batched \cup before \cup Unanswered
  /\ pc = "awaitModel" \/ result = "Ok" => open \subseteq before

(* No wait event outlives its call, in memory or in a snapshot, unless a   *)
(* processor failed, the bus was closed or run() unwound under it.         *)
WaitsClean ==
  ~spoiled =>
    /\ waits = IF pc \in Awaiting THEN {waiting.cid} ELSE {}
    /\ saved.waits = {}

(* The limit is passed by no more than the tool calls of one response, and *)
(* never by a model turn.  The count runs on over the rounds of a session. *)
TurnsBounded ==
  /\ turns <= MaxTurns \/ turns < MaxTurns + MaxCalls
  /\ pc = "awaitModel" => turns <= MaxTurns

(* A cancelled round returns, whether or not anybody answers.              *)
CancelStops == cancelled ~> pc = "idle"

(* If requests are answered, run() ends: the turn limit ends the loop      *)
(* and no answer is thrown away by a wait for another.                     *)
RunsReturn == []<>(inflight = {} \/ pc \notin Awaiting) => (pc # "idle" ~> pc = "idle")

(* "Engine's main wait loop is not blocked": a message that is not the     *)
(* awaited one is dispatched or dropped, and run() goes on waiting.        *)
RunNeverPanics == result # "Panic"

=============================================================================
