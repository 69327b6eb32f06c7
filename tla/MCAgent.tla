------------------------------ MODULE MCAgent --------------------------------
(***************************************************************************)
(* What an agent is made of around its loop: its configuration files, the  *)
(* registry and the discovery cache it is wired with, the conversation     *)
(* with a model, the execution of tool calls, the files tools work on and  *)
(* the store of its session.  They share no state: a behaviour follows the *)
(* one named by part while the others rest in an initial state.  The files *)
(* are Backends itself, the others are instances.                          *)
(***************************************************************************)
EXTENDS AgentParts, Backends

VARIABLE part

\* Two routes, the longer added last; paths at, in, above and beside them.
Path(p, c) == [path |-> p, content |-> c]
MCRaws == {<<"a">>, <<"a", "x">>, <<"b">>, <<"a", "b", "x">>, <<"a", "..", "b">>,
           <<"a", ".", "x", "y">>, <<"">>}
MCContents == {<<"u">>, <<"u", "u">>}
MCBatches == {<<Path(<<"a", "b", "x">>, <<"binary">>), Path(<<"b">>, <<"v">>),
                Path(<<"a", "b", "z">>, <<"u">>)>>, <<Path(<<"a", "x">>, <<"binary">>)>>}
MCRouteList == <<<<<<"a">>, "fs">>, <<<<"a", "b">>, "mem">>>>
ASSUME MCRoutesApart == BackAssumption

\* Three calls with every set of dependencies; two of one tool, and one of a
\* tool that the node may not have.
MCToolings == {<<"sh", "sh", "rs">>, <<"sh", "rs", "nowhere">>}
MCBodies == {<<"garbage">>, <<"ok">>, <<"notification", "ok">>, <<"garbage", "ok">>}
MCToolDirs == <<[name |-> "sh", toml |-> TRUE], [name |-> "old", toml |-> FALSE],
                [name |-> "rs", toml |-> TRUE]>>
MCSkillDirs == <<[name |-> "web", md |-> TRUE, tools |-> [gen |-> {}]],
                 [name |-> "web", md |-> TRUE, tools |-> [gen |-> {"main.py"}, empty |-> {}]],
                 [name |-> "", md |-> FALSE, tools |-> <<>>]>>

\* Three nodes: one serves the model, two may offer the same tool (11).
Info(t, p, ms, ts, ss, cs) ==
  [node_type |-> t, provider |-> p, models |-> ms, tools |-> ts, skills |-> ss, caps |-> cs]
ModelInfo == Info("model", "p", {"m"}, {}, {}, {})
McpInfo == Info("mcp", "", {}, {11}, {21}, {"mem"})
PoolInfo == Info("mcp/pool", "", {}, {12}, {23}, {})
MCBuses == <<"main", "side">>
MCInfosOf == <<{ModelInfo, Info("model", "p", {"other"}, {}, {}, {})}, {McpInfo},
               {PoolInfo, Info("mcp/pool", "", {}, {11, 12}, {22}, {"mem"})}>>
MCInitGraph == [main |-> <<ModelInfo, McpInfo, PoolInfo>>, side |-> [n \in NodeIds |-> Offline]]
MCResources == <<[node_type |-> "mcp", caps |-> {All}],
                 [node_type |-> "mcp/pool", caps |-> {11, 12, 22, 23}]>>
MCModel == [provider |-> "p", name |-> "m"]
MCRules == <<[name |-> "r1", msg_type |-> "memory_op"], [name |-> "r2", msg_type |-> "lost"]>>
MCRoutes == [memory_op |-> [strict |-> FALSE, ids |-> {}, cap |-> {"mem"}]]
MCNameLen == [n \in NodeIds \cup {21, 22, 23} |-> IF n \in NodeIds THEN 3 ELSE 5]

\* Answers with and without a text, with no call, one, and two of which the
\* first has its arguments in two fragments.
MCReplies == {[text |-> t, calls |-> c, thinks |-> k] :
                t \in {<<>>, <<1, 2>>}, c \in {<<>>, <<<<1>>>>, <<<<1, 2>>, <<3>>>>},
                k \in {FALSE}} \cup {[text |-> <<1>>, calls |-> <<>>, thinks |-> TRUE]}

\* A roster of one engine and one pool; agent files with each part left out,
\* misspelt or given in its other form.
Agent(a) == [agent |-> a]
ModelDecl == [provider |-> "deepseek", model_name |-> "m", thinking_enabled |-> TRUE]
MCAutoLists == {<<>>, <<"pm">>, <<"42", "pm">>}
MCAgentFiles == {
    << >>, Agent(<< >>), Agent([model |-> << >>]),
    Agent([model |-> ModelDecl, system_prompt |-> "inline", max_turns |-> 3,
           tools |-> <<[is |-> "string", name |-> "read"],
                       [is |-> "mapping", name |-> "write", permission |-> "Ask"],
                       [is |-> "mapping", name |-> "rm", permission |-> "denied"],
                       [is |-> "mapping"], [is |-> "number"]>>]),
    Agent([model |-> ModelDecl, system_prompt_file |-> "unreadable"]),
    Agent([model |-> ModelDecl, system_prompt_file |-> "sp.md",
           resources |-> <<[name |-> "fs"],
                           [resource_name |-> "fs", node_type |-> "mcp/pool"], << >>>>])}

storeVars == <<impl, row, cps, events, lines, open, step, arg, calls, issued, acked>>
toolVars  == <<backend, Tool, request, reply, deps, blocking, timed, phase, layer, stage,
               result, senders, signalled>>
wireVars  == <<graph, changes, wired, registry, built, seen, cache, skillsCache, skillsText,
               signals, listening, raced, outcome>>
convVars  == <<provider, streaming, history, pc, wire, attempt, said, payload, todo, nextId,
               turns, compacted>>
cfgVars   == <<team, file, saved, agent>>
mcVars == <<part, storeVars, vars, toolVars, wireVars, convVars, cfgVars>>

\* Where a part that is not followed rests, if it has several initial states.
AtRest ==
  /\ part = "store" \/ impl = "sqlite"
  /\ \/ part = "tools"
     \/ /\ Tool = <<"sh", "sh", "rs">> /\ backend = "fs" /\ request = [type |-> "other"]
        /\ deps = [c \in Calls |-> {}] /\ blocking = deps /\ timed = FALSE
  /\ part = "conversation" \/ (provider = "openai" /\ streaming = FALSE)

MCInit ==
  /\ part \in {"store", "backends", "tools", "wiring", "conversation", "config"}
  /\ AtRest
  /\ Store!Init /\ Init /\ Tools!Init /\ Wire!Init /\ Conv!Init /\ Cfg!Init
  /\ part = "backends" \/ kind["default"] = "state"

MCNext ==
  \/ /\ part = "store" /\ Store!Next
     /\ UNCHANGED <<part, vars, toolVars, wireVars, convVars, cfgVars>>
  \/ /\ part = "backends" /\ Next
     /\ UNCHANGED <<part, storeVars, toolVars, wireVars, convVars, cfgVars>>
  \/ /\ part = "tools" /\ Tools!Next
     /\ UNCHANGED <<part, storeVars, vars, wireVars, convVars, cfgVars>>
  \/ /\ part = "wiring" /\ Wire!Next
     /\ UNCHANGED <<part, storeVars, vars, toolVars, convVars, cfgVars>>
  \/ /\ part = "conversation" /\ Conv!Next
     /\ UNCHANGED <<part, storeVars, vars, toolVars, wireVars, cfgVars>>
  \/ /\ part = "config" /\ Cfg!Next
     /\ UNCHANGED <<part, storeVars, vars, toolVars, wireVars, convVars>>

MCSpec == MCInit /\ [][MCNext]_mcVars
=============================================================================
