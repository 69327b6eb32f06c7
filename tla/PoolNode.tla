------------------------------ MODULE PoolNode ------------------------------
(***************************************************************************)
(* The two facades that put a Pool behind one node of the top bus:         *)
(* ModelAdapterPoolNode (one task per model_call, a demultiplexer for the  *)
(* answers of the sub bus) and MCPPoolNode (one tool_exec at a time),      *)
(* composed with Pool and with the ModelAdapterNodes or McpNodes of the    *)
(* sub bus, which serve one message at a time.                             *)
(*                                                                         *)
(* A request is an acquirer of the pool: `pc` of Pool is where its         *)
(* acquire() stands, `stage` where the facade stands with it.              *)
(***************************************************************************)
EXTENDS Integers, Sequences, FiniteSets

CONSTANTS
  Kinds,       \* which facades: "model", "mcp"
  Requests,    \* model_call or tool_exec messages, by correlation id
  SubNodes,    \* nodes of the sub bus
  Owners,      \* the McpNodes whose discovery has the tool
  None,
  Resources, InitIdle, MaxSize, MaxPending, Overflow, NoResource, MaxUnannounced

VARIABLES
  pc, lease, permits, semq, idle, total, pending, returning, unannounced,
  loose, stored, sleepers,   \* of Pool
  kind,        \* which facade this is
  running,     \* run_loop of the facade
  expired,     \* its 300 seconds are over
  topq,        \* requests its top handle has received
  stage,
  registered,  \* keys of the PendingMap
  filled,      \* requests whose oneshot holds an answer
  subin,       \* messages each sub node has received
  busy,        \* the request each sub node is processing
  subq,        \* answers the facade's sub handle has received
  answers      \* what the facade sent back for each request: an error, or
               \* the request whose result it is

poolVars == <<pc, lease, permits, semq, idle, total, pending, returning, unannounced,
              loose, stored, sleepers>>
loopVars == <<running, expired, topq, registered, filled>>
subVars  == <<subin, busy, subq>>
vars == <<poolVars, loopVars, stage, subVars, answers, kind>>

P == INSTANCE Pool WITH Acquirers <- Requests, Faulty <- {}, HasProvisioner <- FALSE

Stages == {"unsent", "queued", "taken", "acquiring", "refused", "leased", "waiting",
           "late", "releasing", "done"}

Init ==
  /\ P!Init /\ kind \in Kinds
  /\ running = TRUE /\ expired = FALSE /\ topq = <<>>
  /\ registered = {} /\ filled = {}
  /\ stage = [q \in Requests |-> "unsent"]
  /\ subin = [n \in SubNodes |-> <<>>] /\ busy = [n \in SubNodes |-> None] /\ subq = <<>>
  /\ answers = [q \in Requests |-> <<>>]

Move(q, step) == stage' = [stage EXCEPT ![q] = step]
Send(q, what) == answers' = [answers EXCEPT ![q] = Append(@, what)]

(* MCPPoolNode's loop awaits everything it does for a request.             *)
Serial == kind = "mcp"
Between == \A q \in Requests : stage[q] \in {"unsent", "queued", "done"}

-----------------------------------------------------------------------------
(* Seeded faults: a request that timed out is given up without an answer;  *)
FaultyGiveUp(q) ==
  /\ stage[q] = "late" /\ registered' = registered \ {q}
  /\ Move(q, "releasing")
  /\ UNCHANGED <<poolVars, running, expired, topq, filled, subVars, answers>>

(* ... the MCP loop takes the first tool_result for its own.               *)
FaultyMcpResult(q) ==
  /\ Serial /\ stage[q] = "waiting" /\ subq # <<>>
  /\ subq' = Tail(subq)
  /\ Send(q, Head(subq)) /\ Move(q, "releasing")
  /\ UNCHANGED <<poolVars, loopVars, subin, busy>>

-----------------------------------------------------------------------------
(* The top bus and the two run_loops *)

Request(q) ==
  /\ stage[q] = "unsent" /\ running
  /\ topq' = Append(topq, q) /\ Move(q, "queued")
  /\ UNCHANGED <<poolVars, running, expired, registered, filled, subVars, answers>>

(* A message is received: registered and spawned, or served at once.       *)
Take ==
  /\ running /\ topq # <<>> /\ (Serial => Between)
  /\ topq' = Tail(topq) /\ Move(Head(topq), "taken")
  /\ registered' = IF Serial THEN registered ELSE registered \cup {Head(topq)}
  /\ UNCHANGED <<poolVars, running, expired, filled, subVars, answers>>

Expire ==
  /\ ~expired /\ expired' = TRUE
  /\ UNCHANGED <<poolVars, running, topq, registered, filled, stage, subVars, answers>>

(* The timer's branch of the select!: the handles are dropped, demux is    *)
(* aborted; tasks that were spawned run on.                                *)
Stop ==
  /\ running /\ expired /\ (Serial => Between)
  /\ running' = FALSE /\ topq' = <<>> /\ subq' = <<>>
  /\ UNCHANGED <<poolVars, expired, registered, filled, stage, subin, busy, answers>>

-----------------------------------------------------------------------------
(* pool.acquire() of a request, and how it ends *)

StartAcquire(q) ==
  /\ stage[q] = "taken"
  /\ P!AcquireBlock(q) \/ P!AcquireReject(q) \/ P!AcquireQueue(q)
  /\ Move(q, IF pc'[q] = "out" THEN "refused" ELSE "acquiring")
  /\ UNCHANGED <<loopVars, subVars, answers>>

ContinueAcquire(q) ==
  /\ stage[q] = "acquiring"
  /\ \/ P!EnterPending(q) \/ P!PollNotified(q) \/ P!LeavePending(q) \/ P!RetryAcquire(q)
     \/ P!TakeResource(q) \/ P!FailAcquire(q) \/ P!Timeout(q)
  /\ Move(q, CASE pc'[q] = "out" -> "refused" [] pc'[q] = "leased" -> "leased"
               [] OTHER -> "acquiring")
  /\ UNCHANGED <<loopVars, subVars, answers>>

(* ModelAdapterPoolNode: the entry is removed and the caller told.         *)
Refuse(q) ==
  /\ stage[q] = "refused" /\ ~Serial
  /\ registered' = registered \ {q}
  /\ Send(q, "refused") /\ Move(q, "done")
  /\ UNCHANGED <<poolVars, running, expired, topq, filled, subVars>>

(* MCPPoolNode: the loop returns.                                          *)
McpRefused(q) ==
  /\ stage[q] = "refused" /\ Serial
  /\ running' = FALSE /\ topq' = <<>> /\ subq' = <<>> /\ Move(q, "done")
  /\ UNCHANGED <<poolVars, expired, registered, filled, subin, busy, answers>>

(* The request is broadcast on the sub bus.                                *)
Forward(q) ==
  /\ stage[q] = "leased"
  /\ subin' = [n \in SubNodes |-> Append(subin[n], q)]
  /\ Move(q, "waiting")
  /\ UNCHANGED <<poolVars, loopVars, busy, subq, answers>>

-----------------------------------------------------------------------------
(* The nodes of the sub bus: process_model_call, McpNode::message_loop *)

NodeTake(n) ==
  /\ busy[n] = None /\ subin[n] # <<>>
  /\ busy' = [busy EXCEPT ![n] = Head(subin[n])]
  /\ subin' = [subin EXCEPT ![n] = Tail(@)]
  /\ UNCHANGED <<poolVars, loopVars, stage, subq, answers>>

(* One response with the request's correlation id, an error included; an   *)
(* McpNode that does not have the tool stays silent.                       *)
NodeRespond(n) ==
  /\ busy[n] # None
  /\ subq' = IF (Serial => n \in Owners) /\ running THEN Append(subq, busy[n]) ELSE subq
  /\ busy' = [busy EXCEPT ![n] = None]
  /\ UNCHANGED <<poolVars, loopVars, stage, subin, answers>>

-----------------------------------------------------------------------------
(* The way back *)

(* The demux task: the sender is taken out of the map and used.            *)
Demux ==
  /\ ~Serial /\ running /\ subq # <<>>
  /\ subq' = Tail(subq)
  /\ registered' = registered \ {Head(subq)}
  /\ filled' = filled \cup (registered \cap {Head(subq)})
  /\ UNCHANGED <<poolVars, running, expired, topq, stage, subin, busy, answers>>

Deliver(q) ==
  /\ ~Serial /\ stage[q] = "waiting" /\ q \in filled
  /\ Send(q, q) /\ Move(q, "releasing")
  /\ UNCHANGED <<poolVars, loopVars, subVars>>

(* RESPONSE_TIMEOUT, whose future looks at the oneshot first; then the     *)
(* entry is removed under the map's lock.                                  *)
ResponseTimeout(q) ==
  /\ ~Serial /\ stage[q] = "waiting" /\ q \notin filled
  /\ Move(q, "late")
  /\ UNCHANGED <<poolVars, loopVars, subVars, answers>>

GiveUp(q) ==
  /\ stage[q] = "late"
  /\ registered' = registered \ {q}
  /\ Send(q, "timeout") /\ Move(q, "releasing")
  /\ UNCHANGED <<poolVars, running, expired, topq, filled, subVars>>

(* The MCP loop reads tool_results until the one of its request comes, ... *)
McpResult(q) ==
  /\ Serial /\ stage[q] = "waiting" /\ subq # <<>>
  /\ subq' = Tail(subq)
  /\ \/ Head(subq) = q /\ Send(q, Head(subq)) /\ Move(q, "releasing")
     \/ Head(subq) # q /\ UNCHANGED <<answers, stage>>
  /\ UNCHANGED <<poolVars, loopVars, subin, busy>>

(* ... or its time is over.                                                *)
McpExpired(q) ==
  /\ Serial /\ stage[q] = "waiting" /\ expired
  /\ Move(q, "releasing")
  /\ UNCHANGED <<poolVars, loopVars, subVars, answers>>

(* drop(lease)                                                             *)
DropLease(q) ==
  /\ stage[q] = "releasing"
  /\ \/ P!DropLease(q) /\ UNCHANGED stage
     \/ P!DropPermit(q) /\ Move(q, "done")
  /\ UNCHANGED <<loopVars, subVars, answers>>

ReturnTask ==
  /\ P!Announce \/ \E r \in Resources : P!ReturnPush(r)
  /\ UNCHANGED <<loopVars, stage, subVars, answers>>

-----------------------------------------------------------------------------
RequestStep(q) ==
  \/ StartAcquire(q) \/ ContinueAcquire(q) \/ Refuse(q) \/ McpRefused(q) \/ Forward(q)
  \/ Deliver(q) \/ ResponseTimeout(q) \/ GiveUp(q) \/ McpResult(q) \/ McpExpired(q)
  \/ DropLease(q)

Next ==
  /\ \/ \E q \in Requests : Request(q) \/ RequestStep(q)
     \/ Take \/ Expire \/ Stop \/ Demux \/ ReturnTask
     \/ \E n \in SubNodes : NodeTake(n) \/ NodeRespond(n)
  /\ UNCHANGED kind

(* The facade's tasks and timers run; the nodes of the sub bus need not.   *)
Fairness ==
  /\ \A q \in Requests : WF_vars(RequestStep(q) /\ UNCHANGED kind)
  /\ WF_vars(Take /\ UNCHANGED kind) /\ WF_vars(Demux /\ UNCHANGED kind) /\ WF_vars(ReturnTask /\ UNCHANGED kind)
  /\ WF_vars(Expire /\ UNCHANGED kind) /\ WF_vars(Stop /\ UNCHANGED kind)

Spec == Init /\ [][Next]_vars /\ Fairness

-----------------------------------------------------------------------------
(* What the top bus sees of a facade.                                      *)
TopBus == INSTANCE Responder WITH
  asked <- {q \in Requests : stage[q] # "unsent"},
  Errors <- {"refused", "timeout"}

(* A facade implements a responder: it answers nobody who did not ask, and *)
(* nobody twice or with the result of another call, however late answers,  *)
(* timeouts and the several nodes that all answer a broadcast race.        *)
ImplementsResponder == TopBus!Spec

(* The facade bounds what it sends to the sub bus: at most max_size        *)
(* requests wait for an answer there, each with its lease until then, and  *)
(* the map of in-flight requests keeps no entry of a request that is over. *)
Backpressure ==
  /\ Cardinality({q \in Requests : stage[q] \in {"leased", "waiting", "late"}}) <= MaxSize
  /\ \A q \in Requests : stage[q] \in {"leased", "waiting", "late"} => pc[q] = "leased"
  /\ \A q \in registered : stage[q] \in Stages \ {"unsent", "queued", "releasing", "done"}

(* A model_call the dispatcher took is answered, whatever the pool and the *)
(* sub bus do: "never fail silently or leave the Engine parked forever".   *)
CallsAnswered ==
  \A q \in Requests : kind = "model" /\ stage[q] = "taken" ~> answers[q] # <<>>

(* pool_node.rs of arf-mcp: each tool_exec acquires a lease, is forwarded, *)
(* and its response forwarded back; the loop ends with its time.           *)
McpServesOn == kind = "mcp" => running \/ expired
=============================================================================
