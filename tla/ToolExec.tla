------------------------------ MODULE ToolExec ------------------------------
(***************************************************************************)
(* An McpNode of crates/arf-mcp serving one request: dispatch(), the DAG   *)
(* executor that runs the calls of a tool_call_set layer by layer, and the *)
(* tools it runs: ScriptTool (a child process), HttpProxyTool (a remote    *)
(* MCP server) and the scripts of a skill.                                 *)
(*                                                                         *)
(* A call runs in its own task.  A ScriptTool object is shared by all      *)
(* calls of that tool, and so is its table of cancellation senders.        *)
(***************************************************************************)
EXTENDS Integers, Sequences, FiniteSets, FiniteSetsExt, SequencesExt

CONSTANTS
  Calls,     \* ids of the calls of the set
  Stranger,  \* an id no call of the set has
  Toolings,  \* assignments of a tool's name to each call
  Bodies,    \* bodies a remote server answers with, see HttpOutcome
  ToolDirs,  \* tools/ of a local node as read_dir gives it: [name, toml]
  SkillDirs, \* skills/ likewise: [name, md, tools], tools a function from the
             \* name of a tool to the files of its directory
  Remote     \* names in the tools/list of the remote server

VARIABLES
  backend,    \* discovery: "fs" (McpNode::local) or "http" (::remote)
  Tool,       \* the tool of each call
  request,    \* what the node was sent
  reply,      \* what it sent back: "none" yet, or "silent", or a type
  deps,       \* of each call: blocked_by
  blocking,   \* of each call: blocking
  timed,      \* the set carries a timeout_ms
  phase,      \* of the executor: "idle", "running", "done"
  layer,      \* the layer in progress
  stage,      \* of each call: "idle", "build", "stdin", "waiting", "ended"
  result,     \* of each call: "none", "success", "error", "cancelled"
  senders,    \* calls with a sender in their tool's cancel_txs
  signalled   \* calls whose receiver was sent the signal

callSet == <<backend, Tool, request, deps, blocking, timed>>
vars == <<callSet, reply, phase, layer, stage, result, senders, signalled>>

-----------------------------------------------------------------------------
(* The graph algorithms of executor.rs *)

(* A.blocking names B, so B.blocked_by must name A; names of no call are   *)
(* ignored here.                                                           *)
LocksConsistent == \A a \in Calls : \A b \in blocking[a] \cap Calls : a \in deps[b]

UnknownReference(blockedBy) == \E c \in Calls : ~(blockedBy[c] \subseteq Calls)

(* dfs_cycle on one id after the other, until it finds a cycle.            *)
DfsOn(dfs, node, stack, s) ==
  IF s.cycle THEN s ELSE dfs[[node |-> node, visited |-> s.visited, stack |-> stack]]

DfsEach(dfs, ids, visited, stack) ==
  LET after[i \in 0 .. Cardinality(ids)] ==
        IF i = 0 THEN [cycle |-> FALSE, visited |-> visited]
        ELSE DfsOn(dfs, SetToSeq(ids)[i], stack, after[i - 1])
  IN after

(* One call of dfs_cycle, with dfs for the calls it makes itself.          *)
DfsFrame(blockedBy, dfs) ==
  [s \in [node : Calls, visited : SUBSET Calls, stack : SUBSET Calls] |->
     IF s.node \in s.stack THEN [cycle |-> TRUE, visited |-> s.visited]
     ELSE IF s.node \in s.visited THEN [cycle |-> FALSE, visited |-> s.visited]
     ELSE DfsEach(dfs, blockedBy[s.node], s.visited \cup {s.node}, s.stack \cup {s.node})
            [Cardinality(blockedBy[s.node])]]

(* The recursion: each call stands on the stack once, so below as many     *)
(* frames as there are calls every id is on it.                            *)
DfsCycle(blockedBy) ==
  LET dfs[depth \in 0 .. Cardinality(Calls)] ==
        IF depth = 0 THEN [s \in [node : Calls, visited : SUBSET Calls, stack : SUBSET Calls] |->
                             [cycle |-> TRUE, visited |-> s.visited]]
        ELSE DfsFrame(blockedBy, dfs[depth - 1])
  IN dfs

(* Seeded fault: only edges back to the node itself count.                 *)
FaultyDetectCycle(blockedBy) == UnknownReference(blockedBy) \/ \E c \in Calls : c \in blockedBy[c]

DetectCycle(blockedBy) ==
  IF UnknownReference(blockedBy) THEN TRUE
  ELSE DfsEach(DfsCycle(blockedBy)[Cardinality(Calls)], Calls, {}, {})[Cardinality(Calls)].cycle

BuildInDegree(blockedBy) == [c \in Calls |-> Cardinality(blockedBy[c])]

(* kahn_sort: the queue is a layer; popping it lowers the in-degrees.      *)
KahnStart(blockedBy) ==
  [deg |-> BuildInDegree(blockedBy), layers |-> <<>>,
   queue |-> {c \in Calls : BuildInDegree(blockedBy)[c] = 0}]

KahnRound(blockedBy, s) ==
  LET left == [c \in Calls |-> s.deg[c] - Cardinality(blockedBy[c] \cap s.queue)]
  IN IF s.queue = {} THEN s
     ELSE [deg |-> left, layers |-> Append(s.layers, s.queue),
           queue |-> {c \in Calls : blockedBy[c] \cap s.queue # {} /\ left[c] = 0}]

KahnLoop(blockedBy) ==
  LET loop[n \in 0 .. Cardinality(Calls)] ==
        IF n = 0 THEN KahnStart(blockedBy) ELSE KahnRound(blockedBy, loop[n - 1])
  IN loop

KahnSort(blockedBy) == KahnLoop(blockedBy)[Cardinality(Calls)].layers

(* cascade_cancel: from the failed calls along blocking, to calls without  *)
(* a result.                                                               *)
Reached(res) ==
  LET reach[n \in 0 .. Cardinality(Calls)] ==
        IF n = 0 THEN {c \in Calls : res[c] \in {"error", "cancelled"}}
        ELSE reach[n - 1] \cup {b \in Calls : res[b] = "none" /\ \E a \in reach[n - 1] : b \in blocking[a]}
  IN reach[Cardinality(Calls)]

Cascade(res) == [c \in Calls |-> IF res[c] = "none" /\ c \in Reached(res) THEN "cancelled" ELSE res[c]]

(* The assembly of the results: what has none was cancelled.               *)
Assembled(res) == [c \in Calls |-> IF res[c] = "none" THEN "cancelled" ELSE res[c]]

-----------------------------------------------------------------------------
(* Discovery *)

(* FsDiscovery::scan: a directory without a tool.toml that parses is       *)
(* passed over.                                                            *)
FsScan(dirs) == {dirs[i].name : i \in {j \in DOMAIN dirs : dirs[j].toml}}

(* HttpDiscovery::connect: what the server's tools/list named when the     *)
(* node was made; a list that does not parse is an empty one.              *)
Known == IF backend = "fs" THEN FsScan(ToolDirs) ELSE Remote

(* SkillIndex::scan: SKILL.md with a front matter; of two skills with one  *)
(* name the later directory stays.  A remote node has no skills.           *)
SkillScan(dirs) ==
  LET ok == {i \in DOMAIN dirs : dirs[i].md}
  IN [n \in {dirs[i].name : i \in ok} |-> dirs[Max({i \in ok : dirs[i].name = n})]]

Skills == IF backend = "fs" THEN SkillScan(SkillDirs) ELSE <<>>

(* A tool of a skill needs its directory and there a tool.toml that parses *)
(* or one of main.py, main.sh, main.                                       *)
SkillToolRuns(s, t) ==
  /\ s \in DOMAIN Skills /\ t \in DOMAIN Skills[s].tools
  /\ Skills[s].tools[t] \cap {"tool.toml", "main.py", "main.sh", "main"} # {}

(* resolve_safe_path: relative, no "..", and below one of the three        *)
(* directories; then the file must exist.                                  *)
SafePath(parts) ==
  parts # <<>> /\ ~Contains(parts, "..") /\ parts[1] \in {"tools", "references", "assets"} /\ Len(parts) > 1

ResourceLoads(s, parts) ==
  /\ s \in DOMAIN Skills /\ SafePath(parts)
  /\ parts[1] = "tools" /\ Len(parts) = 3
  /\ parts[2] \in DOMAIN Skills[s].tools /\ parts[3] \in Skills[s].tools[parts[2]]

-----------------------------------------------------------------------------
(* HttpProxyTool: the body is a sequence of "data:" lines.  The first line *)
(* that is a JSON object is taken for the response (both its fields are    *)
(* optional), so one that is not the answer gives an error.                *)
ParseSseOrJson(body) ==
  LET objects == SelectSeq(body, LAMBDA l : l # "garbage")
  IN IF objects = <<>> THEN "rpc_error" ELSE objects[1]

HttpOutcome(body) == IF ParseSseOrJson(body) = "ok" THEN "success" ELSE "error"

-----------------------------------------------------------------------------
IsScript == backend = "fs"

Edges == [Calls -> SUBSET Calls]

Inverted(f) == [a \in Calls |-> {b \in Calls : a \in f[b]}]

(* A set with arbitrary dependencies, its blocking lists complete, empty   *)
(* or with names too many, or with a blocker that is not there; a          *)
(* tool_exec; requests about skills; others.                               *)
Init ==
  /\ Tool \in Toolings /\ backend \in {"fs", "http"}
  /\ \/ /\ request = [type |-> "tool_call_set", valid |-> TRUE] /\ timed \in BOOLEAN
        /\ \E f \in Edges, flaw \in {"none", "no blocking", "blocking", "blocked_by"} :
             /\ deps = [f EXCEPT ![Min(Calls)] = @ \cup IF flaw = "blocked_by" THEN {Stranger} ELSE {}]
             /\ blocking = [a \in Calls |-> (IF flaw = "no blocking" THEN {} ELSE Inverted(f)[a])
                                  \cup IF flaw = "blocking" /\ a = Min(Calls) THEN {Max(Calls), Stranger} ELSE {}]
     \/ /\ request \in [type : {"tool_call_set"}, valid : {FALSE}]
                \cup [type : {"tool_exec"}, call : Calls \cup {0, Stranger}]
                \cup [type : {"use_skill"}, skill : {"web", "nosuch"}]
                \cup [type : {"load_skill_resource"}, skill : {"web"},
                      path : {<<"tools", "gen", "main.py">>, <<"tools", "..", "x">>, <<"body">>}]
                \cup [type : {"run_skill_script"}, skill : {"web"}, tool : {"gen", "empty", "nosuch"}]
                \cup [type : {"other"}]
        /\ deps = [c \in Calls |-> {}] /\ blocking = deps /\ timed = FALSE
  /\ reply = "none" /\ phase = "idle" /\ layer = 0
  /\ stage = [c \in Calls |-> "idle"] /\ result = [c \in Calls |-> "none"]
  /\ senders = {} /\ signalled = {}

(* The calls of layer n are spawned; a tool nobody has ends at once.       *)
Spawn(n, layers) ==
  /\ layer' = n
  /\ stage' = [c \in Calls |-> IF c \notin layers[n] THEN stage[c]
                               ELSE IF Tool[c] \notin Known THEN "ended"
                               ELSE IF backend = "http" THEN "waiting" ELSE "build"]
  /\ result' = [c \in Calls |-> IF c \in layers[n] /\ Tool[c] \notin Known THEN "error" ELSE result[c]]

Layers == IF request.type = "tool_call_set" THEN KahnSort(deps) ELSE <<{request.call}>>

(* The calls of the layer in progress; none before the first.              *)
Current == IF layer = 0 THEN {} ELSE Layers[layer]

(* dispatch() of a tool_call_set or of a tool_exec for a tool it has:      *)
(* execute() validates and enters its loop over the layers.                *)
Submit ==
  /\ phase = "idle" /\ reply = "none"
  /\ \/ request.type = "tool_call_set" /\ request.valid
     \/ request.type = "tool_exec" /\ request.call \in Calls /\ Tool[request.call] \in Known
  /\ \/ /\ ~LocksConsistent \/ DetectCycle(deps)
        /\ result' = [c \in Calls |-> "error"] /\ phase' = "done"
     \/ /\ LocksConsistent /\ ~DetectCycle(deps)
        /\ phase' = "running" /\ UNCHANGED result
  /\ UNCHANGED <<callSet, reply, layer, stage, senders, signalled>>

(* The other requests: about skills, one whose payload does not parse, a   *)
(* tool_exec without a tool_name (call 0), and those that stay without an  *)
(* answer (a tool_exec for a tool of another node, an unknown type).  The  *)
(* script of a skill is run to its end; skill_script_error stands for a    *)
(* skill_script_result with status error.                                  *)
AnswerAtOnce ==
  /\ phase = "idle" /\ reply = "none"
  /\ reply' = CASE request.type = "tool_call_set" /\ ~request.valid -> "tool_result_set"
                [] request.type = "tool_exec" /\ request.call = 0 -> "tool_result"
                [] request.type = "tool_exec" /\ request.call = Stranger -> "silent"
                [] request.type = "tool_exec" /\ request.call \in Calls /\ Tool[request.call] \notin Known -> "silent"
                [] request.type = "use_skill" ->
                     IF request.skill \in DOMAIN Skills THEN "skill_loaded" ELSE "skill_error"
                [] request.type = "load_skill_resource" ->
                     IF ResourceLoads(request.skill, request.path) THEN "skill_resource_loaded"
                     ELSE "skill_resource_error"
                [] request.type = "run_skill_script" ->
                     IF SkillToolRuns(request.skill, request.tool) THEN "skill_script_result" ELSE "skill_script_error"
                [] request.type = "other" -> "silent"
                [] OTHER -> "none"
  /\ reply' # "none"
  /\ UNCHANGED <<callSet, phase, layer, stage, result, senders, signalled>>

-----------------------------------------------------------------------------
(* ScriptTool::execute, one step per await *)

End(c, res) ==
  /\ stage' = [stage EXCEPT ![c] = "ended"] /\ result' = [result EXCEPT ![c] = res]
  /\ UNCHANGED <<callSet, reply, phase, layer>>

(* build_command (with rustc for a Rust tool) and spawn.                   *)
Build(c) ==
  /\ stage[c] = "build" /\ UNCHANGED <<senders, signalled>>
  /\ \/ /\ stage' = [stage EXCEPT ![c] = "stdin"]
        /\ UNCHANGED <<callSet, reply, phase, layer, result>>
     \/ End(c, "error")

(* The parameters are written to stdin; then the sender is registered.     *)
Stdin(c) ==
  /\ stage[c] = "stdin"
  /\ \/ /\ stage' = [stage EXCEPT ![c] = "waiting"] /\ senders' = senders \cup {c}
        /\ UNCHANGED <<callSet, reply, phase, layer, result, signalled>>
     \/ End(c, "error") /\ UNCHANGED <<senders, signalled>>

(* The process ends: with status 0 and JSON on stdout, or otherwise.       *)
Exit(c) ==
  /\ stage[c] = "waiting" /\ IsScript
  /\ senders' = senders \ {c}
  /\ \E res \in {"success", "error"} : End(c, res)
  /\ UNCHANGED signalled

(* The tool's own timeout_ms: the sender stays behind in the table.        *)
OwnTimeout(c) ==
  /\ stage[c] = "waiting" /\ IsScript
  /\ End(c, "error") /\ UNCHANGED <<senders, signalled>>

(* The receiver fires first: the process is killed.                        *)
Cancelled(c) ==
  /\ stage[c] = "waiting" /\ c \in signalled
  /\ End(c, "error") /\ UNCHANGED <<senders, signalled>>

HttpReply(c, body) ==
  /\ stage[c] = "waiting" /\ backend = "http"
  /\ End(c, HttpOutcome(body)) /\ UNCHANGED <<senders, signalled>>

(* timeout_ms of the set runs out for c: its future is dropped, which      *)
(* kills the process, then tool.cancel() drains the senders of the tool,   *)
(* those of other calls included.  An HttpProxyTool's cancel() is a no-op. *)
SetTimeout(c) ==
  /\ timed /\ stage[c] \in {"build", "stdin", "waiting"}
  /\ End(c, "cancelled")
  /\ LET drained == {d \in senders : Tool[d] = Tool[c]}
     IN senders' = senders \ drained /\ signalled' = signalled \cup drained

-----------------------------------------------------------------------------
(* Seeded fault: the set goes on after a layer with a failure.             *)
FaultyLayerDone ==
  /\ phase = "running" /\ \A c \in Current : stage[c] = "ended"
  /\ \/ layer < Len(Layers) /\ Spawn(layer + 1, Layers) /\ UNCHANGED phase
     \/ layer = Len(Layers) /\ phase' = "done" /\ result' = Assembled(Cascade(result))
        /\ UNCHANGED <<layer, stage>>
  /\ UNCHANGED <<callSet, reply, senders, signalled>>

(* The loop, when join_all has returned: the next layer, or after a        *)
(* failure the cascade and the end.  (For a tool_exec the set is the one   *)
(* call.)                                                                  *)
LayerDone ==
  /\ phase = "running" /\ \A c \in Current : stage[c] = "ended"
  /\ LET failed == \E c \in Current : result[c] # "success"
     IN \/ /\ ~failed /\ layer < Len(Layers)
           /\ Spawn(layer + 1, Layers) /\ UNCHANGED phase
        \/ /\ failed \/ layer = Len(Layers)
           /\ phase' = "done"
           /\ result' = Assembled(IF failed THEN Cascade(result) ELSE result)
           /\ UNCHANGED <<layer, stage>>
  /\ UNCHANGED <<callSet, reply, senders, signalled>>

Answer ==
  /\ phase = "done" /\ reply = "none"
  /\ reply' = IF request.type = "tool_call_set" THEN "tool_result_set" ELSE "tool_result"
  /\ UNCHANGED <<callSet, phase, layer, stage, result, senders, signalled>>

Next ==
  \/ Submit \/ AnswerAtOnce \/ LayerDone \/ Answer
  \/ \E c \in Calls : \/ Build(c) \/ Stdin(c) \/ Exit(c) \/ OwnTimeout(c) \/ Cancelled(c)
                      \/ SetTimeout(c) \/ \E body \in Bodies : HttpReply(c, body)

(* Only the executor and the clock are fair: a process may hang in any     *)
(* stage, and a remote server may never answer.                            *)
Fairness == WF_vars(Submit) /\ WF_vars(LayerDone) /\ WF_vars(Answer)
            /\ \A c \in Calls : WF_vars(SetTimeout(c))

Spec == Init /\ [][Next]_vars /\ Fairness

-----------------------------------------------------------------------------
(* c is among the calls that block d, their blockers, and so on.           *)
Before(c, d) ==
  \A S \in SUBSET Calls :
    deps[d] \cap Calls \subseteq S /\ (\A e \in S : deps[e] \cap Calls \subseteq S) => c \in S

(* execute() refuses a set exactly when its blocked_by lists name a call   *)
(* that is not there or close a cycle, or when a blocking list contradicts *)
(* them; every other set is run, and its layers hold every call once, each *)
(* one right after the last of its blockers.                               *)
SortsExactlyTheDags ==
  request.type = "tool_call_set" =>
    /\ DetectCycle(deps) <=> UnknownReference(deps) \/ \E c \in Calls : Before(c, c)
    /\ ~DetectCycle(deps) =>
         LET layers == KahnSort(deps) IN
         \A c \in Calls : \E n \in DOMAIN layers :
           /\ \A m \in DOMAIN layers : c \in layers[m] <=> m = n
           /\ n = 1 \/ deps[c] \cap layers[n - 1] # {}
           /\ deps[c] \subseteq UNION {layers[m] : m \in 1 .. n - 1}

(* No tool is started before every call that blocks it has succeeded, and  *)
(* in the set's results a call below one that failed, was cancelled or     *)
(* timed out is cancelled, never run, and never left out.                  *)
BlockedUntilSuccess ==
  /\ \A c \in Calls : stage[c] # "idle" => \A d \in deps[c] : result[d] = "success"
  /\ phase = "done" /\ request.type = "tool_call_set" =>
       /\ \A c \in Calls : result[c] # "none"
       /\ LocksConsistent /\ ~DetectCycle(deps) =>
            \A c \in Calls : (\E d \in deps[c] : result[d] # "success") =>
                               result[c] = "cancelled" /\ stage[c] = "idle"

(* A set with a timeout is always answered, even if its processes hang     *)
(* while they are built, fed or waited for and its servers stay silent.    *)
TimedSetsEnd == (request.type = "tool_call_set" /\ timed) ~> (reply = "tool_result_set")

=============================================================================
