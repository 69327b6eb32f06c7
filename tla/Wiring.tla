------------------------------- MODULE Wiring -------------------------------
(***************************************************************************)
(* How an engine finds the nodes it talks to.                              *)
(*                                                                         *)
(* EngineBuilder::build takes the nodes of every bus, freezes them into a  *)
(* ResourceRegistry (one model node, the bindings of the declared          *)
(* resources, an index from tool name to owner) and refuses a declaration  *)
(* it cannot resolve.  Afterwards nodes come and go.  At every model turn  *)
(* the registry collects the tools and the skills it offers to the model   *)
(* from the graph of the primary bus; at every checkpoint the rules that   *)
(* fire are routed, Discovery routes through a DiscoveryCache that a       *)
(* listener task clears when it hears node_online or node_offline.         *)
(*                                                                         *)
(* Node identifiers, tools and skills are numbers, in the order of their   *)
(* names; NameLen is the length of a name.  A capability is a set of the   *)
(* (key, value) pairs a node declares.                                     *)
(***************************************************************************)
EXTENDS Integers, Sequences, FiniteSets, SequencesExt

CONSTANTS
    Buses,        \* the buses given to the builder, a sequence; Head is primary
    NodeIds,      \* identifiers of nodes that may be online
    InfosOf,      \* InfosOf[n]: what node n may declare when it connects
    InitGraph,    \* the nodes online before the build
    Resources,    \* decl.resources, a sequence of [node_type, caps]
    Model,        \* decl.model: [provider, name]
    Rules,        \* checkpoint_rules, a sequence of [name, msg_type]
    Routes,       \* engine.routes: msg_type -> [strict, ids, cap]
    NameLen,      \* the length of a node's or a skill's name
    MaxChanges,   \* bound on connects and disconnects
    All,          \* the name "all" in a declared filter
    Offline,      \* not in a graph
    Unbound       \* no owner, no binding, no list

VARIABLES
    graph,        \* graph[b][n]: the NodeInfo of n on bus b, or Offline
    changes,      \* connects and disconnects so far
    pc,           \* the engine: new, failed, ready, graphed
    registry,     \* the frozen ResourceRegistry
    built,        \* the graph the registry was built from
    seen,         \* the nodes a checkpoint evaluation took from the graph
    cache,        \* DiscoveryCache: capability -> receivers, or Unbound
    skillsCache,  \* (hash, content) of ResourceRegistry::skills_text
    skillsText,   \* what the last model turn was given
    signals,      \* lifecycle broadcasts the listener has not yet seen
    listening,    \* the lifecycle listener is still in its loop
    raced,        \* a node changed between graph() and the cache insert
    outcome       \* of the last evaluation: ok, undeclared or none

vars == <<graph, changes, pc, registry, built, seen, cache, skillsCache,
          skillsText, signals, listening, raced, outcome>>

-----------------------------------------------------------------------------
(* Declarations *)

Primary == Head(Buses)

Online(g) == {n \in NodeIds : g[n] # Offline}

\* Several buses are merged; the first bus that has an id gives its info.
Merged ==
    [n \in NodeIds |->
        LET on == {i \in DOMAIN Buses : graph[Buses[i]][n] # Offline}
        IN  IF on = {} THEN Offline
            ELSE graph[Buses[CHOOSE i \in on : \A j \in on : i <= j]][n]]

\* The values of a HashMap, in the order it happens to iterate.
IterationOrders(S) ==
    {f \in [1 .. Cardinality(S) -> S] : \A i, j \in DOMAIN f : f[i] = f[j] => i = j}

FirstIn(order, S) ==
    LET hits == {i \in DOMAIN order : order[i] \in S}
    IN  IF hits = {} THEN Unbound ELSE order[CHOOSE i \in hits : \A j \in hits : i <= j]

\* "all" anywhere takes everything; nothing named takes nothing.
ParseDeclaredFilter(caps) ==
    IF All \in caps THEN [all |-> TRUE, names |-> {}]
    ELSE [all |-> FALSE, names |-> caps]

Accepts(filter, name) == filter.all \/ name \in filter.names

NodeHasAnyOf(info, names) == (info.tools \cup info.skills) \cap names # {}

\* The first node of the type; for a list of names, the first that has one.
FindNode(g, order, spec) ==
    LET filter == ParseDeclaredFilter(spec.caps)
    IN  FirstIn(order,
            {n \in Online(g) :
                /\ g[n].node_type = spec.node_type
                /\ (~filter.all /\ filter.names # {}) => NodeHasAnyOf(g[n], filter.names)})

Supports(info) == info.models = {"any"} \/ Model.name \in info.models

\* The provider's first node that serves the model; none is an error, even
\* when the provider has a node for another model.
ResolveModel(g, order) ==
    FirstIn(order, {n \in Online(g) : /\ g[n].node_type = "model"
                                      /\ g[n].provider = Model.provider
                                      /\ Supports(g[n])})

McpTypes == {"mcp", "mcp/pool"}

Failed == [model |-> Unbound, mcp |-> [n \in NodeIds |-> Unbound],
           custom |-> [n \in NodeIds |-> Unbound], index |-> {}]

-----------------------------------------------------------------------------
(* ResourceRegistry::build *)

\* index is a set of <<tool, owner>>; a second owner of a name is refused.
FaultyBindSpec(g, order, reg, spec) ==
    LET n      == FindNode(g, order, spec)
        filter == ParseDeclaredFilter(spec.caps)
        taken  == {t \in g[n].tools : Accepts(filter, t)}
    IN  IF reg = Failed \/ n = Unbound THEN Failed
        ELSE [reg EXCEPT !.mcp[n] = filter,
                         !.index = {p \in @ : p[1] \notin taken} \cup (taken \X {n})]

BindSpec(g, order, reg, spec) ==
    LET n      == FindNode(g, order, spec)
        filter == ParseDeclaredFilter(spec.caps)
        taken  == {t \in g[n].tools : Accepts(filter, t)}
    IN  IF reg = Failed \/ n = Unbound THEN Failed
        ELSE IF spec.node_type \notin McpTypes THEN [reg EXCEPT !.custom[n] = filter]
        ELSE IF \E p \in reg.index : p[1] \in taken THEN Failed
        ELSE [reg EXCEPT !.mcp[n] = filter, !.index = @ \cup (taken \X {n})]

\* The registry after k of the declared resources.
Bindings(g, order, model) ==
    LET bound[k \in 0 .. Len(Resources)] ==
          IF k = 0 THEN [Failed EXCEPT !.model = model]
          ELSE BindSpec(g, order, bound[k - 1], Resources[k])
    IN  bound

BuildRegistry(g, order) ==
    LET model == ResolveModel(g, order)
    IN  IF model = Unbound THEN Failed
        ELSE Bindings(g, order, model)[Len(Resources)]

\* Strict routes name online nodes and rule names are unique.
RoutesValid(g) ==
    /\ \A t \in DOMAIN Routes : Routes[t].strict => Routes[t].ids \subseteq Online(g)
    /\ \A i, j \in DOMAIN Rules : Rules[i].name = Rules[j].name => i = j

Init ==
    /\ graph = InitGraph
    /\ changes = 0
    /\ pc = "new"
    /\ registry = Failed
    /\ built = [n \in NodeIds |-> Offline]
    /\ seen = [n \in NodeIds |-> Offline]
    /\ cache = [c \in {Routes[t].cap : t \in DOMAIN Routes} |-> Unbound]
    /\ skillsCache = [hash |-> <<>>, content |-> <<>>]
    /\ skillsText = <<>>
    /\ signals = 0
    /\ listening = FALSE
    /\ raced = FALSE
    /\ outcome = "none"

\* EngineBuilder::build and Engine::new: freeze the registry, spawn the
\* lifecycle listener.
Build ==
    /\ pc = "new"
    /\ \E order \in IterationOrders(Online(Merged)) :
         registry' = BuildRegistry(Merged, order)
    /\ built' = Merged
    /\ pc' = IF registry' = Failed \/ ~RoutesValid(Merged) THEN "failed" ELSE "ready"
    /\ listening' = (pc' = "ready")
    /\ UNCHANGED <<graph, changes, seen, cache, skillsCache, skillsText, signals,
                   raced, outcome>>

-----------------------------------------------------------------------------
(* Nodes come and go *)

\* The listener hears of new nodes only.
FaultyChange(b, n, info) ==
    /\ changes < MaxChanges
    /\ changes' = changes + 1
    /\ graph' = [graph EXCEPT ![b][n] = info]
    /\ signals' = IF b = Primary /\ listening /\ info # Offline THEN signals + 1 ELSE signals
    /\ raced' = (raced \/ (pc = "graphed" /\ b = Primary))
    /\ UNCHANGED <<pc, registry, built, seen, cache, skillsCache, skillsText,
                   listening, outcome>>

\* connect() and disconnect() change the graph and broadcast.
Change(b, n, info) ==
    /\ changes < MaxChanges
    /\ changes' = changes + 1
    /\ graph' = [graph EXCEPT ![b][n] = info]
    /\ signals' = IF b = Primary /\ listening THEN signals + 1 ELSE signals
    /\ raced' = (raced \/ (pc = "graphed" /\ b = Primary))
    /\ UNCHANGED <<pc, registry, built, seen, cache, skillsCache, skillsText,
                   listening, outcome>>

Connect(b, n) ==
    /\ graph[b][n] = Offline
    /\ \E info \in InfosOf[n] : Change(b, n, info)

Disconnect(b, n) ==
    /\ graph[b][n] # Offline
    /\ Change(b, n, Offline)

\* lifecycle_rx.recv(): node_online or node_offline clears the cache.
Invalidate ==
    /\ listening
    /\ signals > 0
    /\ signals' = signals - 1
    /\ cache' = [c \in DOMAIN cache |-> Unbound]
    /\ raced' = (raced /\ pc = "graphed")
    /\ UNCHANGED <<graph, changes, pc, registry, built, seen, skillsCache, skillsText,
                   listening, outcome>>

\* A listener overtaken by the traffic gets Err(Lagged) and leaves its loop.
Lag ==
    /\ listening
    /\ signals > 0
    /\ listening' = FALSE
    /\ signals' = 0
    /\ UNCHANGED <<graph, changes, pc, registry, built, seen, cache, skillsCache,
                   skillsText, raced, outcome>>

-----------------------------------------------------------------------------
(* A checkpoint: evaluate_and_dispatch *)

TakeGraph ==
    /\ pc = "ready"
    /\ pc' = "graphed"
    /\ seen' = graph[Primary]
    /\ UNCHANGED <<graph, changes, registry, built, cache, skillsCache, skillsText,
                   signals, listening, raced, outcome>>

CapabilityMatches(g, cap) == {n \in Online(g) : cap \subseteq g[n].caps}

\* resolve_route with get_or_compute: Strict ids as they are, else the cached
\* list, else the matching nodes of the graph, which are cached.
\* A type without a route ends the evaluation; the rules before it have
\* filled the cache by then.
Evaluate(firing) ==
    LET undeclared == {i \in firing : Rules[i].msg_type \notin DOMAIN Routes}
        reached == {i \in firing : \A j \in undeclared : i < j}
        asked == {Routes[Rules[i].msg_type].cap :
                     i \in {k \in reached : ~Routes[Rules[k].msg_type].strict}}
    IN  /\ pc = "graphed"
        /\ pc' = "ready"
        /\ outcome' = IF undeclared = {} THEN "ok" ELSE "undeclared"
        /\ cache' = [c \in DOMAIN cache |->
                        IF c \in asked /\ cache[c] = Unbound
                        THEN CapabilityMatches(seen, c) ELSE cache[c]]
        /\ UNCHANGED <<graph, changes, registry, built, seen, skillsCache, skillsText,
                       signals, listening, raced>>

-----------------------------------------------------------------------------
(* A model turn: tools_for_model and skills_text *)

\* Tools of the bound MCP nodes that are on the primary bus now.
ToolsForModel(g) ==
    UNION {{<<t, n>> : t \in {u \in g[n].tools : Accepts(registry.mcp[n], u)}} :
              n \in {m \in Online(g) : registry.mcp[m] # Unbound}}

SkillPairs(g) ==
    UNION {{<<n, s>> : s \in {u \in g[n].skills : Accepts(registry.mcp[n], u)}} :
              n \in {m \in Online(g) : registry.mcp[m] # Unbound}}

Sorted(pairs) ==
    SetToSortSeq(pairs, LAMBDA p, q : p[1] < q[1] \/ (p[1] = q[1] /\ p[2] < q[2]))

\* The hash runs over the lengths of the names, not over the names.
SkillsHash(seq) == [i \in DOMAIN seq |-> <<NameLen[seq[i][1]], NameLen[seq[i][2]]>>]

SkillsText(pairs) ==
    LET seq == Sorted(pairs)
    IN  IF skillsCache.hash = SkillsHash(seq) /\ skillsCache.content # <<>>
        THEN skillsCache.content ELSE seq

ModelTurn ==
    /\ pc = "ready"
    /\ LET pairs == SkillPairs(graph[Primary])
       IN  /\ skillsText' = SkillsText(pairs)
           /\ skillsCache' = [hash |-> SkillsHash(Sorted(pairs)), content |-> skillsText']
    /\ UNCHANGED <<graph, changes, pc, registry, built, seen, cache, signals, listening,
                   raced, outcome>>

-----------------------------------------------------------------------------
Next ==
    \/ Build \/ TakeGraph \/ ModelTurn \/ Invalidate \/ Lag
    \/ \E firing \in SUBSET DOMAIN Rules : Evaluate(firing)
    \/ \E i \in DOMAIN Buses, n \in NodeIds :
          Connect(Buses[i], n) \/ Disconnect(Buses[i], n)

Spec == Init /\ [][Next]_vars

-----------------------------------------------------------------------------
(* Properties *)

\* What the model is offered can be executed: as long as the primary bus shows
\* what the registry was built from, every tool in a model_call is owned by
\* the very node that offers it, and by no other, and the model node serves
\* the declared model (ResourceRegistry::build, AmbiguousTool).
OfferedIsRoutable ==
    (pc \in {"ready", "graphed"} /\ graph[Primary] = built) =>
        /\ \A p \in ToolsForModel(graph[Primary]) :
              {q \in registry.index : q[1] = p[1]} = {p}
        /\ Supports(built[registry.model])

\* A cached receiver list is out of date only while the listener has a signal
\* to process, after the listener has left its loop, or when a node changed
\* between graph() and the insert (get_or_compute, lifecycle listener).
StaleOnlyByRace ==
    (listening /\ signals = 0 /\ ~raced) =>
        \A c \in DOMAIN cache :
            cache[c] # Unbound => cache[c] = CapabilityMatches(graph[Primary], c)

\* The cache's documented invariant: once the signals are processed a cached
\* list is the list of the nodes that match.
CacheFresh ==
    (pc = "ready" /\ signals = 0) =>
        \A c \in DOMAIN cache :
            cache[c] # Unbound => cache[c] = CapabilityMatches(graph[Primary], c)

\* The skills a model turn would be given now are those of the live graph.
SkillsLive ==
    pc = "ready" =>
        LET live == SkillPairs(graph[Primary]) IN SkillsText(live) = Sorted(live)

\* Everything the registry can route is offered to the model.
RoutableIsOffered ==
    (pc = "ready" /\ graph[Primary] = built) => registry.index \subseteq ToolsForModel(graph[Primary])
=============================================================================
