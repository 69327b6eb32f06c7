---------------------------- MODULE Conversation ----------------------------
(***************************************************************************)
(* What the model is told and what the engine hears back.                  *)
(*                                                                         *)
(* The engine keeps the history (State.messages).  For a model turn it     *)
(* puts the system messages in front, lets the middlewares change the      *)
(* request, and sends a model_call; the model node hands it to a provider  *)
(* (openai, deepseek, anthropic, minimax), which converts the messages to  *)
(* its wire format, calls the HTTP API, retries, and parses the answer,    *)
(* streamed or not, into a model_response.  The engine appends the answer  *)
(* and one tool message per tool call.  Between turns the application may  *)
(* let the Compactor replace the older messages by a summary.              *)
(*                                                                         *)
(* A text, or the arguments of a call, is the sequence of the fragments    *)
(* the model produced; arguments are also marked as a JSON value or a raw  *)
(* string.  The HTTP API and the model behind it are external.             *)
(***************************************************************************)
EXTENDS Integers, Sequences, FiniteSets, SequencesExt

CONSTANTS
    Providers,    \* the providers to look at
    Replies,      \* what the model may say: [text, thinks, calls], calls a
                  \* sequence of argument fragment sequences
    Styles,       \* how an API repeats a call's id: "first" or "every" delta
    SystemMsgs,   \* numbers of system messages in front of the history
    MaxRetries,   \* config.max_retries
    KeepTail,     \* keep_tail of compact()
    MaxTurns      \* bound on model turns

VARIABLES
    provider,     \* the provider behind the model node
    streaming,    \* ModelCallPayload.stream
    history,      \* State.messages
    pc,           \* idle, ready, calling, answered, tools
    wire,         \* the messages of the last HTTP request
    attempt,      \* retries done for this request
    said,         \* the model's reply, as the API produced it
    payload,      \* the model_response payload
    todo,         \* tool calls of the turn not yet answered
    nextId,       \* ids of calls handed out so far
    turns,
    compacted     \* the history has been compacted

vars == <<provider, streaming, history, pc, wire, attempt, said, payload,
          todo, nextId, turns, compacted>>

-----------------------------------------------------------------------------
(* Messages *)

\* ModelMessage: tool_calls is the native field, extra belongs to the adapter.
ModelMessage(role, text, calls, id, extra) ==
    [role |-> role, text |-> text, calls |-> calls, id |-> id, extra |-> extra]

NoExtra == [calls |-> <<>>, reasoning |-> <<>>]

Plain(role, text) == ModelMessage(role, text, <<>>, 0, NoExtra)

IsSystem(m) == m.role = "system"

\* ModelRequest::append_system: after the last system message.
AppendSystem(msgs, m) ==
    LET sys == {i \in DOMAIN msgs : IsSystem(msgs[i])}
        at == IF sys = {} THEN 1 ELSE 1 + CHOOSE i \in sys : \A j \in sys : i >= j
    IN  InsertAt(msgs, at, m)

\* Template, initial memory and skills, then the history, then the
\* middlewares' suffix as one more system message.
Assemble(prefix, suffix) ==
    LET msgs == [i \in 1 .. prefix |-> Plain("system", <<>>)] \o history
    IN  IF suffix THEN AppendSystem(msgs, Plain("system", <<>>)) ELSE msgs

-----------------------------------------------------------------------------
(* Conversion to the wire; a wire message keeps the ids of the calls it      *)
(* makes (calls) and of the call it answers (id).                           *)

\* openai: calls come from extra and then replace the content.
ConvertOpenAI(m) ==
    IF m.role = "assistant" /\ m.extra.calls # <<>>
    THEN [role |-> m.role, text |-> <<>>, calls |-> m.extra.calls, id |-> m.id]
    ELSE [role |-> m.role, text |-> m.text, calls |-> <<>>, id |-> m.id]

OpenAIBody(msgs) == [i \in DOMAIN msgs |-> ConvertOpenAI(msgs[i])]

\* deepseek: the same, and a reasoning_content in extra is passed on (no
\* message of the engine has one, see TakeAnswer).
ConvertDeepSeek(m) ==
    LET called == m.role = "assistant" /\ m.extra.calls # <<>>
    IN  [role |-> m.role, text |-> IF called THEN <<>> ELSE m.text,
         calls |-> IF called THEN m.extra.calls ELSE <<>>, id |-> m.id]

DeepSeekBody(msgs) == [i \in DOMAIN msgs |-> ConvertDeepSeek(msgs[i])]

\* minimax: content and native calls.
FaultyConvertMiniMax(m) ==
    [role |-> m.role, text |-> m.text,
     calls |-> IF m.text = <<>> THEN m.calls ELSE <<>>, id |-> m.id]

ConvertMiniMax(m) == [role |-> m.role, text |-> m.text, calls |-> m.calls, id |-> m.id]

\* anthropic: the first system message leaves the list, later ones and tool
\* results are user messages; calls come from extra.
ConvertAnthropic(msgs) ==
    LET sys   == {i \in DOMAIN msgs : IsSystem(msgs[i])}
        first == {i \in sys : \A j \in sys : i <= j}
        kept  == SelectSeq([i \in DOMAIN msgs |-> i], LAMBDA i : i \notin first)
    IN  [i \in DOMAIN kept |->
            LET m == msgs[kept[i]]
            IN  [role |-> IF m.role = "assistant" THEN "assistant" ELSE "user",
                 text |-> m.text, calls |-> m.extra.calls, id |-> m.id]]

Convert(p, msgs) ==
    CASE p = "openai" -> OpenAIBody(msgs)
      [] p = "deepseek" -> DeepSeekBody(msgs)
      [] p = "minimax" -> [i \in DOMAIN msgs |-> ConvertMiniMax(msgs[i])]
      [] p = "anthropic" -> ConvertAnthropic(msgs)

-----------------------------------------------------------------------------
(* Parsing *)

Json(frags) == [json |-> TRUE, frags |-> frags]
Raw(frags)  == [json |-> FALSE, frags |-> frags]

\* serde_json::from_str(args) or the string: only whole arguments parse.
ParseArgs(frags, whole) == IF frags = whole THEN Json(frags) ELSE Raw(frags)

\* The deltas an OpenAI-compatible API streams for a reply (external).
CallDeltas(i, whole, style) ==
    [j \in DOMAIN whole |->
        [kind |-> "call", index |-> i, named |-> (j = 1 \/ style = "every"),
         frag |-> whole[j], whole |-> whole]]

SseEvents(r, style) ==
    (IF r.thinks THEN <<[kind |-> "thought"]>> ELSE <<>>)
    \o [j \in DOMAIN r.text |-> [kind |-> "text", frag |-> r.text[j]]]
    \o FlattenSeq([i \in DOMAIN r.calls |-> CallDeltas(i, r.calls[i], style)])

Empty == [text |-> <<>>, calls |-> <<>>, reasoning |-> FALSE]

\* convert::parse_sse.  A delta with id and name opens a call or, when the
\* call is there and its arguments are a raw string, extends them; a delta
\* without them adds nothing to the response.
ParseSse(events) ==
    FoldLeft(LAMBDA acc, e :
        IF e.kind = "text" THEN [acc EXCEPT !.text = Append(@, e.frag)]
        ELSE IF e.kind = "thought" THEN [acc EXCEPT !.reasoning = TRUE]
        ELSE IF ~e.named THEN acc
        ELSE IF e.index \notin DOMAIN acc.calls
        THEN [acc EXCEPT !.calls = Append(@, ParseArgs(<<e.frag>>, e.whole))]
        ELSE IF acc.calls[e.index].json THEN acc
        ELSE [acc EXCEPT !.calls[e.index].frags = Append(@, e.frag)],
        Empty, events)

\* The events the messages API streams for a reply (external).
AnthropicEvents(r) ==
    (IF r.thinks THEN <<[kind |-> "thinking_delta"]>> ELSE <<>>)
    \o [j \in DOMAIN r.text |-> [kind |-> "text_delta", frag |-> r.text[j]]]
    \o FlattenSeq([i \in DOMAIN r.calls |->
          <<[kind |-> "tool_use"]>>
          \o [j \in DOMAIN r.calls[i] |-> [kind |-> "input_json_delta"]]])

\* A content_block_start opens a call with its empty
\* input; input_json_delta is not looked at, nor are the thinking deltas.
ProcessAnthropicEvent(acc, e) ==
    CASE e.kind = "text_delta" -> [acc EXCEPT !.text = Append(@, e.frag)]
      [] e.kind = "tool_use" -> [acc EXCEPT !.calls = Append(@, Json(<<>>))]
      [] OTHER -> acc

ParseAnthropicSse(events) == FoldLeft(ProcessAnthropicEvent, Empty, events)

\* parse_response of each provider: whole arguments, and the reasoning where
\* the provider looks for it.
Whole(r) == [i \in DOMAIN r.calls |-> ParseArgs(r.calls[i], r.calls[i])]

ParseOpenAI(r) == [text |-> r.text, calls |-> Whole(r), reasoning |-> FALSE]

ParseDeepSeek(r) == [text |-> r.text, calls |-> Whole(r), reasoning |-> r.thinks]

ParseMiniMax(r) == [text |-> r.text, calls |-> Whole(r), reasoning |-> FALSE]

ParseAnthropic(r) ==
    [text |-> r.text, calls |-> [i \in DOMAIN r.calls |-> Json(r.calls[i])],
     reasoning |-> r.thinks]

\* minimax has no stream of its own: chat_stream falls back to chat.
Parsed(p, stream, r, style) ==
    CASE p = "minimax" -> ParseMiniMax(r)
      [] p = "anthropic" -> IF stream THEN ParseAnthropicSse(AnthropicEvents(r)) ELSE ParseAnthropic(r)
      [] p = "openai" -> IF stream THEN ParseSse(SseEvents(r, style)) ELSE ParseOpenAI(r)
      [] p = "deepseek" -> IF stream THEN ParseSse(SseEvents(r, style)) ELSE ParseDeepSeek(r)

-----------------------------------------------------------------------------
Init ==
    /\ provider \in Providers
    /\ streaming \in BOOLEAN
    /\ history = <<>>
    /\ pc = "idle"
    /\ wire = <<>>
    /\ attempt = 0
    /\ said = [text |-> <<>>, calls |-> <<>>, thinks |-> FALSE]
    /\ payload = [ok |-> FALSE]
    /\ todo = <<>>
    /\ nextId = 0
    /\ turns = 0
    /\ compacted = FALSE

\* run(): push the user's message.
UserSays ==
    /\ pc = "idle"
    /\ turns < MaxTurns
    /\ history' = Append(history, Plain("user", <<0>>))
    /\ pc' = "ready"
    /\ UNCHANGED <<provider, streaming, wire, attempt, said, payload, todo,
                   nextId, turns, compacted>>

\* Compactor::compact: a summary and the last KeepTail messages; a failing
\* summarizer leaves the state alone.
Compact ==
    /\ pc = "idle"
    /\ Len(history) > KeepTail + 1
    /\ history' = <<Plain("system", <<>>)>> \o SubSeq(history, Len(history) - KeepTail + 1, Len(history))
    /\ compacted' = TRUE
    /\ UNCHANGED <<provider, streaming, pc, wire, attempt, said, payload, todo, nextId, turns>>

\* do_model_turn up to the request.
ModelTurn ==
    /\ pc = "ready"
    /\ turns < MaxTurns
    /\ turns' = turns + 1
    /\ \E prefix \in SystemMsgs, suffix \in BOOLEAN :
         wire' = Convert(provider, Assemble(prefix, suffix))
    /\ attempt' = 0
    /\ pc' = "calling"
    /\ UNCHANGED <<provider, streaming, history, said, payload, todo, nextId, compacted>>

\* A middleware set ctx.abort: an empty answer, nothing sent or stored; the
\* turn limit ends the round as well.
EndRound ==
    /\ pc = "ready"
    /\ pc' = "idle"
    /\ turns' = IF turns < MaxTurns THEN turns + 1 ELSE turns
    /\ UNCHANGED <<provider, streaming, history, wire, attempt, said, payload,
                   todo, nextId, compacted>>

\* The model_response payload of a parsed message.
Payload(msg) == [ok |-> TRUE, text |-> msg.text, calls |-> msg.calls, reasoning |-> msg.reasoning]

\* The API answers 2xx and the body is parsed.
ApiAnswers(r, style) ==
    /\ pc = "calling"
    /\ said' = r
    /\ payload' = Payload(Parsed(provider, streaming, r, style))
    /\ pc' = "answered"
    /\ UNCHANGED <<provider, streaming, history, wire, attempt, todo, nextId, turns, compacted>>

\* A body that is no answer: a parse error, except that a stream parser skips
\* the lines it does not know and returns an empty message.
ApiGarbage ==
    /\ pc = "calling"
    /\ said' = [text |-> <<>>, calls |-> <<>>, thinks |-> FALSE]
    /\ payload' = IF streaming /\ provider # "minimax"
                  THEN Payload(Empty)
                  ELSE [ok |-> FALSE]
    /\ pc' = "answered"
    /\ UNCHANGED <<provider, streaming, history, wire, attempt, todo, nextId, turns, compacted>>

\* How often a failed attempt is repeated.  Only call_with_retry repeats:
\* openai has none, and call_stream of the others tries once.
DeepSeekRetries == IF streaming THEN 0 ELSE MaxRetries

AnthropicRetries == IF streaming THEN 0 ELSE MaxRetries

MiniMaxRetries == MaxRetries

RetryLimit == CASE provider = "openai" -> 0
                [] provider = "deepseek" -> DeepSeekRetries
                [] provider = "anthropic" -> AnthropicRetries
                [] provider = "minimax" -> MiniMaxRetries

\* What send_request makes of a failed attempt: no connection or a timeout,
\* 429 or 5xx, another status, a body that is not the API's JSON.
Errors == {"transport", "busy", "refused", "parse"}

IsRetryable(err) == err \in {"transport", "busy"}

ApiFails(err) ==
    /\ pc = "calling"
    /\ IF IsRetryable(err) /\ attempt < RetryLimit
       THEN /\ attempt' = attempt + 1
            /\ UNCHANGED <<pc, payload>>
       ELSE /\ pc' = "answered"
            /\ payload' = [ok |-> FALSE]
            /\ UNCHANGED attempt
    /\ UNCHANGED <<provider, streaming, history, wire, said, todo, nextId, turns, compacted>>

\* do_model_turn after the response: the content or "", the calls or none;
\* the new message has no extra.  The usage record of an adapter has no
\* prompt_tokens, so context_tokens keeps its value (it is left out here).
TakeAnswer ==
    /\ pc = "answered"
    /\ LET n   == IF payload.ok THEN Len(payload.calls) ELSE 0
           ids == [i \in 1 .. n |-> nextId + i]
       IN  /\ history' = Append(history, ModelMessage("assistant",
                            IF payload.ok THEN payload.text ELSE <<>>, ids, 0, NoExtra))
           /\ nextId' = nextId + n
           /\ todo' = ids
           /\ pc' = IF n = 0 THEN "idle" ELSE "tools"
    /\ UNCHANGED <<provider, streaming, wire, attempt, said, payload, turns, compacted>>

\* do_tool_turn, or the sentinel of a cancelled call.
ToolDone(cancelled) ==
    LET answer(id) == ModelMessage("tool", <<0>>, <<>>, id, NoExtra)
        done == IF cancelled THEN todo ELSE <<Head(todo)>>
    IN  /\ pc = "tools"
        /\ history' = history \o [i \in DOMAIN done |-> answer(done[i])]
        /\ todo' = IF cancelled THEN <<>> ELSE Tail(todo)
        /\ pc' = IF todo' # <<>> THEN "tools" ELSE IF cancelled THEN "idle" ELSE "ready"
        /\ UNCHANGED <<provider, streaming, wire, attempt, said, payload, nextId,
                       turns, compacted>>

-----------------------------------------------------------------------------
Api == ApiGarbage \/ (\E r \in Replies, s \in Styles : ApiAnswers(r, s))
       \/ (\E err \in Errors : ApiFails(err))

Next == UserSays \/ Compact \/ ModelTurn \/ EndRound \/ Api \/ TakeAnswer
        \/ (\E c \in BOOLEAN : ToolDone(c))

\* The HTTP client has a timeout, so every attempt ends; the engine's own
\* steps are taken as long as they are enabled.
Spec == Init /\ [][Next]_vars /\ WF_vars(Api) /\ WF_vars(TakeAnswer)

-----------------------------------------------------------------------------
(* Properties *)

\* Every tool result of a list of messages answers a call made before it.
Paired(msgs) ==
    \A i \in DOMAIN msgs : msgs[i].id # 0 =>
        \E j \in 1 .. i - 1 : msgs[i].id \in Range(msgs[j].calls)

\* The text of an answer reaches the engine whole and in order and no call of
\* it is lost or invented, whichever provider and mode carried it (parse_sse,
\* parse_anthropic_sse, parse_response).
AnswerComplete ==
    (pc = "answered" /\ payload.ok) =>
        /\ payload.text = said.text
        /\ Len(payload.calls) = Len(said.calls)

\* A provider that sends the native calls keeps results and calls together,
\* through cancelled turns and system messages put in between, as long as no
\* compaction has cut the history (build_request_body of minimax.rs, R7-L1).
NativeCallsPaired ==
    (provider = "minimax" /\ ~compacted) => Paired(wire)

\* A model call is answered: the retries end, with an answer or an error
\* (call_with_retry).
CallAnswered == (pc = "calling") ~> (pc = "answered")

\* Every request pairs the results with their calls.
RequestsPaired == ~compacted => Paired(wire)

\* The arguments of a call reach the engine as the model wrote them.
ArgumentsDelivered ==
    (pc = "answered" /\ payload.ok) =>
        \A i \in DOMAIN payload.calls : payload.calls[i] = Json(said.calls[i])
=============================================================================
