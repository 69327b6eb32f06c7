------------------------------- MODULE Inbox -------------------------------
(***************************************************************************)
(* What an engine asks on the Bus and what it can hear.  The filter an     *)
(* Engine connects with is computed once, from the message types its       *)
(* routes declare; the requests it sends later are model_call, tool_exec,  *)
(* permission_request, human_handoff and whatever the checkpoint rules     *)
(* build, each waiting in wait_for_strategy for answers of one type.  An   *)
(* answer the filter does not take is never seen.                          *)
(*                                                                         *)
(* A message of another type that reaches a waiting engine is dispatched   *)
(* to the handlers with a blocking lock, which panics inside the runtime   *)
(* (module Engine); here the engine is then "panicked".                    *)
(***************************************************************************)
EXTENDS Naturals, Sequences, FiniteSets

CONSTANTS
    RouteChoices,   \* sets of message types engine.routes may declare
    AutoChoices,    \* sets given to auto_subscribe_message_types
    Nodes,          \* nodes that answer requests
    MaxRequests,    \* bound on requests
    NoWait

VARIABLES
    routes,   \* keys of engine.routes
    types,    \* MessageFilter.types of the engine's handle
    online,   \* nodes on the Bus
    wait,     \* the WaitEvent being served, or NoWait
    owed,     \* answers to come: [cid, asked, by]
    inbox,    \* messages forwarded to the handle
    sent,     \* requests so far
    status    \* new, ready, waiting, panicked

vars == <<routes, types, online, wait, owed, inbox, sent, status>>

-----------------------------------------------------------------------------
(* The messages: type on the wire, and whether the engine waits. *)

ActionMessage(type, intent) == [type |-> type, intent |-> intent]

ModelCall         == ActionMessage("model_call", "query")
ToolExec          == ActionMessage("tool_exec", "query")
SubagentDelegate  == ActionMessage("subagent_delegate", "query")
PeerMessage       == ActionMessage("peer_message", "query")
MemoryOp          == ActionMessage("memory_op", "query")
HumanHandoff      == ActionMessage("human_handoff", "query")
SubagentResult    == ActionMessage("subagent_result", "command")
PeerReply         == ActionMessage("peer_reply", "command")
MemoryOpResult    == ActionMessage("memory_op_result", "command")
HumanHandoffReply == ActionMessage("human_handoff_reply", "command")
CompactRequest    == ActionMessage("compact_request", "command")
AppMessage        == ActionMessage("app", "query")

\* A message as the engine's handle receives it.
Message(type, cid) == [type |-> type, cid |-> cid]

\* What the checkpoint rules of an App build.
RuleMessages == {SubagentDelegate, PeerMessage, MemoryOp, CompactRequest, AppMessage}

\* The type a receiver answers a request with; App types by the convention.
AnswerType(asked) ==
    CASE asked = "model_call" -> "model_response"
      [] asked = "tool_exec" -> "tool_result"
      [] asked = "permission_request" -> "permission_response"
      [] asked = SubagentDelegate.type -> SubagentResult.type
      [] asked = PeerMessage.type -> PeerReply.type
      [] asked = MemoryOp.type -> MemoryOpResult.type
      [] asked = HumanHandoff.type -> HumanHandoffReply.type
      [] OTHER -> "app_result"

\* The whitelist without its last line.
FaultyResponseMsgTypeFor(request) ==
    CASE request = "model_call" -> "model_response"
      [] request = "tool_exec" -> "tool_result"
      [] request = "subagent_delegate" -> "subagent_result"
      [] request = "peer_message" -> "peer_reply"
      [] request = "memory_op" -> "memory_op_result"
      [] request = "human_handoff" -> "human_handoff_reply"
      [] OTHER -> request \o "_result"

ResponseMsgTypeFor(request) ==
    CASE request = "model_call" -> "model_response"
      [] request = "tool_exec" -> "tool_result"
      [] request = "subagent_delegate" -> "subagent_result"
      [] request = "peer_message" -> "peer_reply"
      [] request = "memory_op" -> "memory_op_result"
      [] request = "human_handoff" -> "human_handoff_reply"
      [] request = "permission_request" -> "permission_response"
      [] OTHER -> request \o "_result"

EngineResponseTypes(declared) ==
    {"model_response", "tool_result"} \cup {ResponseMsgTypeFor(t) : t \in declared}

\* MessageFilter::matches for a message to this engine.
Matches(type) == type \in types

-----------------------------------------------------------------------------
Init ==
    /\ routes = {} /\ types = {}
    /\ online = Nodes
    /\ wait = NoWait /\ owed = {} /\ inbox = <<>> /\ sent = 0
    /\ status = "new"

\* Engine::new: the filter is fixed with the connection.
Build ==
    /\ status = "new"
    /\ \E declared \in RouteChoices, auto \in AutoChoices :
         /\ routes' = declared
         /\ types' = EngineResponseTypes(declared) \cup auto
    /\ status' = "ready"
    /\ UNCHANGED <<online, wait, owed, inbox, sent>>

-----------------------------------------------------------------------------
(* Requests *)

\* A directed message with no target online is refused; no target at all is
\* a broadcast.
Refused(to) == to # {} /\ to \cap online = {}

Hears(to) == IF to = {} THEN online ELSE to \cap online

\* Send and register the WaitEvent: one answer per recipient, one for a
\* broadcast.
Ask(asked, to, reply) ==
    /\ status = "ready"
    /\ sent < MaxRequests
    /\ sent' = sent + 1
    /\ IF Refused(to) THEN UNCHANGED <<wait, owed, status>>
       ELSE /\ wait' = [cid |-> sent + 1, asked |-> asked, reply |-> reply, from |-> to,
                        need |-> IF to = {} THEN 1 ELSE Cardinality(to)]
            /\ owed' = owed \cup {[cid |-> sent + 1, asked |-> asked, by |-> n] : n \in Hears(to)}
            /\ status' = "waiting"
    /\ UNCHANGED <<routes, types, online, inbox>>

\* send_and_await: the model and the tools have one receiver each.
SendAndAwait ==
    \E m \in {ModelCall, ToolExec}, n \in Nodes :
        Ask(m.type, {n}, ResponseMsgTypeFor(m.type))

\* The answer types of these two are written out where they wait.
RequestPermission == Ask("permission_request", {}, "permission_response")

HandoffToHuman == \E n \in Nodes : Ask(HumanHandoff.type, {n}, "human_handoff_reply")

\* A rule's message is sent along its route, a Discovery route to whoever
\* matches, nobody included.
PublishAndAwaitQuery ==
    \E m \in RuleMessages, to \in SUBSET Nodes :
        /\ m.intent = "query" /\ m.type \in routes
        /\ Ask(m.type, to, ResponseMsgTypeFor(m.type))

\* A Command is sent and nobody answers it.
PublishOnlyCommand ==
    /\ status = "ready"
    /\ sent < MaxRequests
    /\ \E m \in RuleMessages : m.intent = "command" /\ m.type \in routes
    /\ sent' = sent + 1
    /\ UNCHANGED <<routes, types, online, wait, owed, inbox, status>>

-----------------------------------------------------------------------------
(* The other side *)

Answer(o) ==
    /\ o \in owed
    /\ owed' = owed \ {o}
    /\ inbox' = IF Matches(AnswerType(o.asked))
                THEN Append(inbox, Message(AnswerType(o.asked), o.cid)) ELSE inbox
    /\ UNCHANGED <<routes, types, online, wait, sent, status>>

\* A node leaves with its answer unsent.
Leave(n) ==
    /\ n \in online
    /\ online' = online \ {n}
    /\ owed' = {o \in owed : o.by # n}
    /\ UNCHANGED <<routes, types, wait, inbox, sent, status>>

-----------------------------------------------------------------------------
(* wait_for_strategy *)

Recv ==
    LET m == Head(inbox)
        mine == m.cid = wait.cid
    IN  /\ status = "waiting" /\ inbox # <<>>
        /\ inbox' = Tail(inbox)
        /\ \/ /\ m.type # wait.reply
              /\ status' = "panicked" /\ UNCHANGED wait
           \/ /\ m.type = wait.reply /\ ~mine
              /\ UNCHANGED <<wait, status>>
           \/ /\ m.type = wait.reply /\ mine /\ wait.need > 1
              /\ wait' = [wait EXCEPT !.need = @ - 1]
              /\ UNCHANGED status
           \/ /\ m.type = wait.reply /\ mine /\ wait.need = 1
              /\ wait' = NoWait /\ status' = "ready"
        /\ UNCHANGED <<routes, types, online, owed, sent>>

\* The token, or the timer of handoff_to_human.
Cancel ==
    /\ status = "waiting"
    /\ wait' = NoWait /\ status' = "ready"
    /\ UNCHANGED <<routes, types, online, owed, inbox, sent>>

-----------------------------------------------------------------------------
Next ==
    \/ Build \/ SendAndAwait \/ RequestPermission \/ HandoffToHuman
    \/ PublishAndAwaitQuery \/ PublishOnlyCommand \/ Recv \/ Cancel
    \/ \E o \in owed : Answer(o)
    \/ \E n \in Nodes : Leave(n)

\* Every node that heard a request answers it or leaves, and the engine polls
\* its handle while it waits; nobody has to cancel.
Spec == Init /\ [][Next]_vars /\ WF_vars(\E o \in owed : Answer(o)) /\ WF_vars(Recv)

-----------------------------------------------------------------------------
(* Properties *)

\* The request the engine waits on is one its routes announced.
Declared == wait.asked \in {"model_call", "tool_exec"} \cup routes

Complete == IF wait.from = {} THEN online # {} ELSE wait.from \subseteq online

\* A request whose type is built in or declared as a route does not wait for
\* ever as long as those it was sent to stay online: its answers pass the
\* filter that was fixed when the engine connected (engine_response_types,
\* response_msg_type_for, wait_for_strategy).
DeclaredIsHeard ==
    \A c \in 1 .. MaxRequests :
        (status = "waiting" /\ wait.cid = c /\ Declared)
            ~> (status # "waiting" \/ wait.cid # c \/ ~Complete)

\* The same of a permission_request, whose answer an App that lists ask-mode
\* tools without a route for it never hears.
PermissionIsHeard ==
    \A c \in 1 .. MaxRequests :
        (status = "waiting" /\ wait.cid = c /\ wait.asked = "permission_request")
            ~> (status # "waiting" \/ wait.cid # c \/ ~Complete)
=============================================================================
