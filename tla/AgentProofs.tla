----------------------------- MODULE AgentProofs ----------------------------
(***************************************************************************)
(* Proofs about the parts an agent is made of around its loop: the wiring  *)
(* of the engine to the nodes of its buses, the conversation with a model, *)
(* the stores of its session, its configuration files and its tool calls,  *)
(* for any nodes, replies, calls and rosters.                              *)
(***************************************************************************)
EXTENDS AgentParts, SequenceTheorems, FiniteSetTheorems, WellFoundedInduction, TLAPS

-----------------------------------------------------------------------------
(* Numbers *)

(* A set of numbers has a least one, and so numbers can be counted up.     *)
LEMMA Least ==
  ASSUME NEW T \in SUBSET Nat, T # {}
  PROVE  \E n \in T : \A k \in T : n <= k
<1>0. IsWellFoundedOn(OpToRel(<, Nat), Nat)
  BY NatLessThanWellFounded, Zenon
<1>1. PICK n \in T : \A k \in T : ~ (<<k, n>> \in OpToRel(<, Nat))
  BY <1>0, WFMin, Zenon
<1>2. \A k \in T : ~ (k < n)
  BY <1>1, Zenon DEF OpToRel
<1>3. n \in Nat /\ \A k \in T : k \in Nat
  BY <1>1, Zenon
<1>4. \A k \in T : n <= k
  BY <1>2, <1>3
<1> QED
  BY <1>4

LEMMA CountUp ==
  ASSUME NEW T, 0 \in T, \A n \in Nat : n \in T => n + 1 \in T
  PROVE  Nat \subseteq T
<1> SUFFICES ASSUME NEW k \in Nat, k \notin T PROVE FALSE
  OBVIOUS
<1> DEFINE B == {n \in Nat : n \notin T}
<1>1. PICK n \in B : \A j \in B : n <= j
  BY Least
<1>2. n # 0 /\ n - 1 \in Nat /\ n - 1 \notin B
  BY <1>1
<1> QED
  BY <1>1, <1>2

-----------------------------------------------------------------------------
(* Wiring *)

(* The cache is empty until the listener is there to clear it, and what a  *)
(* checkpoint took from the graph is what the primary bus shows unless     *)
(* raced says otherwise.                                                   *)
WireInv ==
  /\ Wire!Primary \in DOMAIN graph
  /\ signals \in Nat
  /\ listening \in BOOLEAN /\ raced \in BOOLEAN
  /\ wired = "new" => ~listening /\ signals = 0 /\ \A c \in DOMAIN cache : cache[c] = Unbound
  /\ wired = "graphed" /\ ~raced => seen = graph[Wire!Primary]
  /\ Wire!StaleOnlyByRace

LEMMA WireInit ==
  ASSUME Wire!Primary \in DOMAIN InitGraph, Wire!Init
  PROVE  WireInv
BY DEF Wire!Init, WireInv, Wire!StaleOnlyByRace

(* A node comes or goes: on the primary bus the listener has a signal, and *)
(* an evaluation under way is marked; on another bus nothing is seen.      *)
LEMMA WireChange ==
  ASSUME WireInv, NEW b, NEW n, NEW info, Wire!Change(b, n, info)
  PROVE  WireInv'
<1>1. wired' = wired /\ cache' = cache /\ seen' = seen /\ listening' = listening
      /\ graph' = [graph EXCEPT ![b] = [graph[b] EXCEPT ![n] = info]]
  BY DEF Wire!Change
<1>2. CASE b = Wire!Primary
  <2>1. signals' = (IF listening THEN signals + 1 ELSE signals) /\ raced' = (raced \/ wired = "graphed")
    BY <1>2 DEF Wire!Change
  <2>2. Wire!Primary \in DOMAIN graph' /\ signals' \in Nat
    BY <1>1, <2>1 DEF WireInv
  <2>3. listening => signals' # 0
    BY <2>1 DEF WireInv
  <2> QED
    BY <1>1, <2>1, <2>2, <2>3 DEF WireInv, Wire!StaleOnlyByRace
<1>3. CASE b # Wire!Primary
  <2>1. signals' = signals /\ raced' = (raced \/ FALSE)
    BY <1>3 DEF Wire!Change
  <2>2. Wire!Primary \in DOMAIN graph' /\ graph'[Wire!Primary] = graph[Wire!Primary]
    BY <1>1, <1>3 DEF WireInv
  <2> QED
    BY <1>1, <2>1, <2>2 DEF WireInv, Wire!StaleOnlyByRace, Wire!CapabilityMatches, Wire!Online
<1> QED
  BY <1>2, <1>3

LEMMA WireStep ==
  ASSUME WireInv, [Wire!Next]_(Wire!vars)
  PROVE  WireInv'
<1> USE DEF Wire!CapabilityMatches, Wire!Online
<1>1. CASE Wire!Build
  <2>1. wired = "new" /\ wired' \in {"failed", "ready"} /\ listening' \in BOOLEAN
        /\ UNCHANGED <<graph, seen, cache, signals, raced>>
    BY <1>1 DEF Wire!Build
  <2> QED
    BY <2>1 DEF WireInv, Wire!StaleOnlyByRace
<1>2. CASE Wire!TakeGraph
  BY <1>2 DEF WireInv, Wire!StaleOnlyByRace, Wire!TakeGraph
<1>3. CASE Wire!ModelTurn
  <2>1. UNCHANGED <<graph, wired, seen, cache, signals, listening, raced>>
    BY <1>3 DEF Wire!ModelTurn
  <2> QED
    BY <2>1 DEF WireInv, Wire!StaleOnlyByRace
<1>4. CASE Wire!Invalidate
  BY <1>4 DEF WireInv, Wire!StaleOnlyByRace, Wire!Invalidate
<1>5. CASE Wire!Lag
  BY <1>5 DEF WireInv, Wire!StaleOnlyByRace, Wire!Lag
<1>6. ASSUME NEW firing \in SUBSET DOMAIN Rules, Wire!Evaluate(firing) PROVE WireInv'
  <2>1. PICK asked : cache' = [c \in DOMAIN cache |->
                                 IF c \in asked /\ cache[c] = Unbound
                                 THEN Wire!CapabilityMatches(seen, c) ELSE cache[c]]
    BY <1>6 DEF Wire!Evaluate
  <2>2. wired = "graphed" /\ wired' = "ready" /\ UNCHANGED <<graph, seen, signals, listening, raced>>
    BY <1>6 DEF Wire!Evaluate
  <2> QED
    BY <2>1, <2>2 DEF WireInv, Wire!StaleOnlyByRace
<1>7. ASSUME NEW i \in DOMAIN Buses, NEW n \in NodeIds,
             Wire!Connect(Buses[i], n) \/ Wire!Disconnect(Buses[i], n)
      PROVE  WireInv'
  BY <1>7, WireChange DEF Wire!Connect, Wire!Disconnect
<1>8. CASE UNCHANGED Wire!vars
  BY <1>8 DEF WireInv, Wire!StaleOnlyByRace, Wire!vars
<1> QED
  BY <1>1, <1>2, <1>3, <1>4, <1>5, <1>6, <1>7, <1>8 DEF Wire!Next

(* Whatever nodes come and go, and whenever the listener gets to run or    *)
(* loses its place, a receiver list of the DiscoveryCache differs from the *)
(* live graph only while a signal waits, after the listener has left, or   *)
(* when a node changed between graph() and the insert.                     *)
THEOREM StaleCacheIsExplained ==
  ASSUME Wire!Primary \in DOMAIN InitGraph
  PROVE  Wire!Spec => []StaleOnlyByRace
<1>1. Wire!Init => WireInv
  BY WireInit
<1>2. WireInv /\ [Wire!Next]_(Wire!vars) => WireInv'
  BY WireStep
<1>3. WireInv => StaleOnlyByRace
  BY DEF WireInv, StaleOnlyByRace
<1> QED
  BY <1>1, <1>2, <1>3, PTL DEF Wire!Spec

(* What the wiring is given.                                               *)
WireAssumption == IsFiniteSet(NodeIds) /\ Len(Resources) \in Nat

LEMMA FirstIsIn ==
  ASSUME NEW S, IsFiniteSet(S), NEW order \in Wire!IterationOrders(S), NEW H,
         Wire!FirstIn(order, H) # Unbound
  PROVE  Wire!FirstIn(order, H) \in H
<1> DEFINE hits == {i \in DOMAIN order : order[i] \in H}
<1>1. Cardinality(S) \in Nat /\ DOMAIN order = 1 .. Cardinality(S)
  <2>1. Cardinality(S) \in Nat
    BY FS_CardinalityType
  <2>2. Wire!Cardinality(S) = Cardinality(S)
    BY Zenon DEF Wire!Cardinality, Cardinality
  <2>3. order \in [1 .. Wire!Cardinality(S) -> S]
    BY Zenon DEF Wire!IterationOrders
  <2> QED
    BY <2>1, <2>2, <2>3
<1>2. hits # {} /\ hits \in SUBSET Nat
  BY <1>1 DEF Wire!FirstIn
<1>3. \E i \in hits : \A j \in hits : i <= j
  BY <1>2, Least
<1>4. Wire!FirstIn(order, H) = order[CHOOSE i \in hits : \A j \in hits : i <= j]
  BY <1>2 DEF Wire!FirstIn
<1> QED
  BY <1>3, <1>4

(* A registry that was not refused: every tool has one owner, and a bound  *)
(* node owns every tool its filter accepts.                                *)
Regular(g, reg) ==
  /\ \A p, q \in reg.index : p[1] = q[1] => p = q
  /\ \A n \in NodeIds : reg.mcp[n] # Unbound =>
       \A t \in g[n].tools : Wire!Accepts(reg.mcp[n], t) => <<t, n>> \in reg.index
  /\ Wire!Supports(g[reg.model])

RegShape(reg) ==
  /\ reg = [model |-> reg.model, mcp |-> reg.mcp, custom |-> reg.custom, index |-> reg.index]
  /\ reg.mcp = [n \in NodeIds |-> reg.mcp[n]]

LEMMA BindKeeps ==
  ASSUME NEW g, NEW order \in Wire!IterationOrders(Wire!Online(g)), IsFiniteSet(Wire!Online(g)),
         NEW reg, NEW spec, RegShape(reg), reg # Wire!Failed => Regular(g, reg)
  PROVE  LET r == Wire!BindSpec(g, order, reg, spec) IN
         RegShape(r) /\ (r # Wire!Failed => Regular(g, r))
<1> DEFINE n == Wire!FindNode(g, order, spec)
           filter == Wire!ParseDeclaredFilter(spec.caps)
           taken == {t \in g[n].tools : Wire!Accepts(filter, t)}
           r == Wire!BindSpec(g, order, reg, spec)
<1>1. RegShape(Wire!Failed)
  BY DEF RegShape, Wire!Failed
<1>2. CASE reg = Wire!Failed \/ n = Unbound
  BY <1>1, <1>2 DEF Wire!BindSpec
<1>3. CASE reg # Wire!Failed /\ n # Unbound
  <2>1. n \in NodeIds
    <3>1. PICK H : H \subseteq NodeIds /\ n = Wire!FirstIn(order, H)
      BY DEF Wire!FindNode, Wire!Online
    <3> QED
      BY <1>3, <3>1, FirstIsIn
  <2>2. r = IF spec.node_type \notin Wire!McpTypes THEN [reg EXCEPT !.custom[n] = filter]
            ELSE IF \E p \in reg.index : p[1] \in taken THEN Wire!Failed
            ELSE [reg EXCEPT !.mcp[n] = filter, !.index = @ \cup (taken \X {n})]
    BY <1>3 DEF Wire!BindSpec
  <2>3. Regular(g, reg)
    BY <1>3
  <2> HIDE DEF n, filter, r, taken
  <2>4. CASE spec.node_type \notin Wire!McpTypes
    <3>1. /\ r.model = reg.model /\ r.mcp = reg.mcp /\ r.index = reg.index
          /\ r = [model |-> reg.model, mcp |-> reg.mcp, custom |-> r.custom, index |-> reg.index]
      BY <2>2, <2>4 DEF RegShape
    <3> QED
      BY <2>3, <3>1 DEF RegShape, Regular, r
  <2>5. CASE spec.node_type \in Wire!McpTypes /\ \E p \in reg.index : p[1] \in taken
    BY <1>1, <2>2, <2>5 DEF r
  <2>6. CASE spec.node_type \in Wire!McpTypes /\ ~\E p \in reg.index : p[1] \in taken
    <3>1. /\ r.model = reg.model /\ r.mcp = [reg.mcp EXCEPT ![n] = filter]
          /\ r.index = reg.index \cup (taken \X {n})
          /\ r = [model |-> reg.model, mcp |-> r.mcp, custom |-> reg.custom, index |-> r.index]
      BY <2>2, <2>6 DEF RegShape
    <3>2. /\ r.mcp = [m \in NodeIds |-> r.mcp[m]] /\ r.mcp[n] = filter
          /\ \A m \in NodeIds : m # n => r.mcp[m] = reg.mcp[m]
      BY <2>1, <3>1 DEF RegShape
    <3>3. RegShape(r)
      BY <3>1, <3>2 DEF RegShape
    <3>4. ASSUME NEW p \in r.index, NEW q \in r.index, p[1] = q[1] PROVE p = q
      <4>1. \A x \in taken \X {n} : x = <<x[1], n>> /\ x[1] \in taken
        OBVIOUS
      <4>2. \A x \in reg.index : x[1] \notin taken
        BY <2>6
      <4> QED
        BY <2>3, <3>1, <3>4, <4>1, <4>2 DEF Regular
    <3>5. ASSUME NEW m \in NodeIds, r.mcp[m] # Unbound, NEW t \in g[m].tools, Wire!Accepts(r.mcp[m], t)
          PROVE  <<t, m>> \in r.index
      <4>1. CASE m = n
        <5>1. t \in taken
          BY <3>2, <3>5, <4>1 DEF taken
        <5> QED
          BY <3>1, <4>1, <5>1
      <4>2. CASE m # n
        BY <2>3, <3>1, <3>2, <3>5, <4>2 DEF Regular
      <4> QED
        BY <4>1, <4>2
    <3>6. Regular(g, r)
      BY <2>3, <3>1, <3>4, <3>5 DEF Regular
    <3> QED
      BY <3>3, <3>6 DEF r
  <2> QED
    BY <2>4, <2>5, <2>6
<1> QED
  BY <1>2, <1>3

(* The loop over the declared resources, unrolled.                         *)
LEMMA BindingsAre ==
  ASSUME WireAssumption, NEW g, NEW order, NEW model
  PROVE  Wire!Bindings(g, order, model) =
           [k \in 0 .. Len(Resources) |->
              IF k = 0 THEN [Wire!Failed EXCEPT !.model = model]
              ELSE Wire!BindSpec(g, order, Wire!Bindings(g, order, model)[k - 1], Resources[k])]
<1> DEFINE first == [Wire!Failed EXCEPT !.model = model]
           next(reg, k) == Wire!BindSpec(g, order, reg, Resources[k])
           T == {n \in Nat : \E h : h = [k \in 0 .. n |-> IF k = 0 THEN first ELSE next(h[k - 1], k)]}
<1> HIDE DEF first, next
<1>1. 0 \in T
  <2>1. [k \in 0 .. 0 |-> first]
          = [k \in 0 .. 0 |-> IF k = 0 THEN first ELSE next([j \in 0 .. 0 |-> first][k - 1], k)]
    OBVIOUS
  <2> QED
    BY <2>1
<1>2. ASSUME NEW n \in Nat, n \in T PROVE n + 1 \in T
  <2>1. PICK h : h = [k \in 0 .. n |-> IF k = 0 THEN first ELSE next(h[k - 1], k)]
    BY <1>2
  <2> DEFINE e == [k \in 0 .. n + 1 |-> IF k = n + 1 THEN next(h[n], n + 1) ELSE h[k]]
  <2>2. ASSUME NEW k \in 0 .. n + 1 PROVE e[k] = IF k = 0 THEN first ELSE next(e[k - 1], k)
    <3>1. CASE k = n + 1
      <4>1. n \in 0 .. n + 1 /\ k - 1 = n /\ n # n + 1 /\ k # 0
        BY <3>1
      <4>2. e[k] = next(h[n], k) /\ e[k - 1] = h[n]
        BY <3>1, <4>1
      <4> QED
        BY <4>1, <4>2
    <3>2. CASE k # n + 1
      <4>1. k \in 0 .. n /\ (k # 0 => k - 1 \in 0 .. n + 1 /\ k - 1 # n + 1)
        BY <3>2
      <4>2. e[k] = h[k] /\ (k # 0 => e[k - 1] = h[k - 1])
        BY <3>2, <4>1
      <4>3. h[k] = IF k = 0 THEN first ELSE next(h[k - 1], k)
        BY <2>1, <4>1, Zenon
      <4> QED
        BY <4>2, <4>3
    <3> QED
      BY <3>1, <3>2
  <2>3. e = [k \in 0 .. n + 1 |-> e[k]]
    OBVIOUS
  <2> HIDE DEF e
  <2>4. e = [k \in 0 .. n + 1 |-> IF k = 0 THEN first ELSE next(e[k - 1], k)]
    BY <2>2, <2>3
  <2> QED
    BY <2>4
<1>3. Len(Resources) \in T
  <2> HIDE DEF T
  <2> QED
    BY <1>1, <1>2, CountUp DEF WireAssumption
<1>4. \E h : h = [k \in 0 .. Len(Resources) |->
                    IF k = 0 THEN [Wire!Failed EXCEPT !.model = model]
                    ELSE Wire!BindSpec(g, order, h[k - 1], Resources[k])]
  BY <1>3 DEF first, next
<1> QED
  BY <1>4, Zenon DEF Wire!Bindings

LEMMA BuildIsRegular ==
  ASSUME WireAssumption, NEW g, NEW order \in Wire!IterationOrders(Wire!Online(g)),
         Wire!BuildRegistry(g, order) # Wire!Failed
  PROVE  Regular(g, Wire!BuildRegistry(g, order))
<1> DEFINE model == Wire!ResolveModel(g, order)
           b == Wire!Bindings(g, order, model)
           T == {k \in Nat : k <= Len(Resources) =>
                   RegShape(b[k]) /\ (b[k] # Wire!Failed => Regular(g, b[k]))}
<1>1. IsFiniteSet(Wire!Online(g))
  <2>1. Wire!Online(g) \subseteq NodeIds
    BY DEF Wire!Online
  <2> QED
    BY <2>1, FS_Subset DEF WireAssumption
<1>2. model # Unbound /\ Wire!BuildRegistry(g, order) = b[Len(Resources)]
  BY DEF Wire!BuildRegistry
<1>3. Wire!Supports(g[model])
  <2>1. model \in {n \in Wire!Online(g) : /\ g[n].node_type = "model"
                                          /\ g[n].provider = Model.provider
                                          /\ Wire!Supports(g[n])}
    BY <1>1, <1>2, FirstIsIn DEF Wire!ResolveModel
  <2> QED
    BY <2>1
<1>4. b = [k \in 0 .. Len(Resources) |->
             IF k = 0 THEN [Wire!Failed EXCEPT !.model = model]
             ELSE Wire!BindSpec(g, order, b[k - 1], Resources[k])]
  BY BindingsAre
<1> HIDE DEF model, b
<1>5. 0 \in T
  <2>1. b[0] = [Wire!Failed EXCEPT !.model = model]
    BY <1>4 DEF WireAssumption
  <2>2. /\ b[0].model = model /\ b[0].mcp = [n \in NodeIds |-> Unbound] /\ b[0].index = {}
        /\ RegShape(b[0])
    BY <2>1 DEF Wire!Failed, RegShape
  <2> QED
    BY <1>3, <2>2 DEF Regular
<1>6. ASSUME NEW k \in Nat, k \in T PROVE k + 1 \in T
  <2>1. SUFFICES ASSUME k + 1 <= Len(Resources)
                 PROVE  RegShape(b[k + 1]) /\ (b[k + 1] # Wire!Failed => Regular(g, b[k + 1]))
    OBVIOUS
  <2>2. k + 1 \in 0 .. Len(Resources) /\ k + 1 # 0 /\ (k + 1) - 1 = k /\ k <= Len(Resources)
    BY <2>1 DEF WireAssumption
  <2>3. b[k + 1] = Wire!BindSpec(g, order, b[k], Resources[k + 1])
    BY <1>4, <2>2
  <2>4. RegShape(b[k]) /\ (b[k] # Wire!Failed => Regular(g, b[k]))
    BY <1>6, <2>2
  <2> QED
    BY <1>1, <2>3, <2>4, BindKeeps
<1>7. Len(Resources) \in T
  <2> HIDE DEF T
  <2> QED
    BY <1>5, <1>6, CountUp DEF WireAssumption
<1> QED
  BY <1>2, <1>7 DEF WireAssumption

(* The frozen registry fits the nodes it was built from.                   *)
FrozenInv == wired \in {"ready", "graphed"} => Regular(built, registry)

(* Whatever is declared and whatever order the nodes are met in, a build   *)
(* that is not refused gives every tool it will offer exactly one owner,   *)
(* the node that offers it, and a model node that serves the model.        *)
THEOREM OffersAreRoutable ==
  ASSUME WireAssumption
  PROVE  Wire!Spec => []OfferedIsRoutable
<1>1. Wire!Init => FrozenInv
  BY DEF Wire!Init, FrozenInv
<1>2. FrozenInv /\ [Wire!Next]_(Wire!vars) => FrozenInv'
  <2> SUFFICES ASSUME FrozenInv, [Wire!Next]_(Wire!vars) PROVE FrozenInv'
    OBVIOUS
  <2>1. CASE Wire!Build
    <3>1. PICK order \in Wire!IterationOrders(Wire!Online(Wire!Merged)) :
            registry' = Wire!BuildRegistry(Wire!Merged, order)
      BY <2>1 DEF Wire!Build
    <3>2. built' = Wire!Merged /\ (registry' = Wire!Failed => wired' = "failed")
      BY <2>1 DEF Wire!Build
    <3>3. registry' # Wire!Failed => Regular(built', registry')
      BY <3>1, <3>2, BuildIsRegular
    <3> QED
      BY <3>2, <3>3 DEF FrozenInv
  <2>2. CASE UNCHANGED <<built, registry>> /\ (wired' = wired \/ wired \in {"ready", "graphed"})
    BY <2>2 DEF FrozenInv
  <2>3. ASSUME NEW i \in DOMAIN Buses, NEW n \in NodeIds,
               Wire!Connect(Buses[i], n) \/ Wire!Disconnect(Buses[i], n)
        PROVE  UNCHANGED <<built, registry, wired>>
    BY <2>3 DEF Wire!Connect, Wire!Disconnect, Wire!Change
  <2>4. ASSUME NEW firing \in SUBSET DOMAIN Rules, Wire!Evaluate(firing)
        PROVE  wired = "graphed" /\ UNCHANGED <<built, registry>>
    BY <2>4 DEF Wire!Evaluate
  <2>5. CASE Wire!TakeGraph \/ Wire!ModelTurn
    BY <2>2, <2>5 DEF Wire!TakeGraph, Wire!ModelTurn
  <2>6. CASE Wire!Invalidate \/ Wire!Lag
    BY <2>2, <2>6 DEF Wire!Invalidate, Wire!Lag
  <2>7. CASE UNCHANGED Wire!vars
    BY <2>2, <2>7 DEF Wire!vars
  <2> QED
    BY <2>1, <2>2, <2>3, <2>4, <2>5, <2>6, <2>7 DEF Wire!Next
<1>3. FrozenInv => OfferedIsRoutable
  <2> SUFFICES ASSUME FrozenInv, wired \in {"ready", "graphed"}, graph[Wire!Primary] = built
               PROVE  /\ \A p \in Wire!ToolsForModel(built) :
                            {q \in registry.index : q[1] = p[1]} = {p}
                      /\ Wire!Supports(built[registry.model])
    BY DEF OfferedIsRoutable, Wire!OfferedIsRoutable
  <2>1. Regular(built, registry)
    BY DEF FrozenInv
  <2>2. ASSUME NEW p \in Wire!ToolsForModel(built)
        PROVE  {q \in registry.index : q[1] = p[1]} = {p}
    <3>1. PICK n \in NodeIds : registry.mcp[n] # Unbound /\ \E t \in built[n].tools :
            Wire!Accepts(registry.mcp[n], t) /\ p = <<t, n>>
      BY DEF Wire!ToolsForModel, Wire!Online
    <3>2. p \in registry.index
      BY <2>1, <3>1 DEF Regular
    <3> QED
      BY <2>1, <3>2 DEF Regular
  <2> QED
    BY <2>1, <2>2 DEF Regular
<1> QED
  BY <1>1, <1>2, <1>3, PTL DEF Wire!Spec

-----------------------------------------------------------------------------
(* Conversation *)

(* A reply has a sequence of calls, a request a number of system messages. *)
ConvAssumption ==
  /\ \A r \in Replies : \E C : r.calls \in Seq(C)
  /\ SystemMsgs \subseteq Nat

(* Every id of todo is the id of a call in the history.                    *)
TodoCalled == \A i \in DOMAIN todo : \E j \in DOMAIN history : todo[i] \in Conv!Range(history[j].calls)

(* Before a compaction the history pairs results and calls and has no      *)
(* system message; what is still to be answered was called.                *)
NativeInv ==
  /\ \E M : history \in Seq(M)
  /\ \A i \in DOMAIN history : history[i].role # "system"
  /\ Conv!Paired(history) /\ Conv!Paired(wire)
  /\ nextId \in Nat /\ todo \in Seq(Nat) /\ TodoCalled
  /\ pc = "tools" => todo # <<>>
  /\ payload.ok => \E C : payload.calls \in Seq(C)

ConvInv == provider = "minimax" /\ ~compacted => NativeInv

(* Two sequences of messages, the second of which answers calls of its own *)
(* or of the first.                                                        *)
LEMMA PairedConcat ==
  ASSUME NEW M, NEW s \in Seq(M), NEW N, NEW t \in Seq(N), Conv!Paired(s),
         \A i \in DOMAIN t : t[i].id # 0 =>
           \/ \E j \in DOMAIN s : t[i].id \in Conv!Range(s[j].calls)
           \/ \E j \in 1 .. i - 1 : t[i].id \in Conv!Range(t[j].calls)
  PROVE  Conv!Paired(s \o t) /\ s \o t \in Seq(M \cup N)
<1>1. s \in Seq(M \cup N) /\ t \in Seq(M \cup N)
  OBVIOUS
<1>2. /\ s \o t \in Seq(M \cup N)
      /\ DOMAIN s = 1 .. Len(s) /\ DOMAIN t = 1 .. Len(t) /\ Len(s) \in Nat /\ Len(t) \in Nat
      /\ DOMAIN (s \o t) = 1 .. Len(s) + Len(t)
      /\ \A i \in 1 .. Len(s) : (s \o t)[i] = s[i]
      /\ \A i \in 1 .. Len(t) : (s \o t)[Len(s) + i] = t[i]
  BY <1>1
<1>3. ASSUME NEW i \in DOMAIN (s \o t), (s \o t)[i].id # 0
      PROVE  \E j \in 1 .. i - 1 : (s \o t)[i].id \in Conv!Range((s \o t)[j].calls)
  <2>1. CASE i \in 1 .. Len(s)
    <3>1. PICK j \in 1 .. i - 1 : s[i].id \in Conv!Range(s[j].calls)
      BY <1>2, <1>3, <2>1 DEF Conv!Paired
    <3>2. (s \o t)[j] = s[j] /\ (s \o t)[i] = s[i]
      BY <1>2, <2>1
    <3> QED
      BY <3>1, <3>2
  <2>2. CASE i \notin 1 .. Len(s)
    <3>1. PICK k \in 1 .. Len(t) : i = Len(s) + k
      <4>1. i - Len(s) \in 1 .. Len(t) /\ i = Len(s) + (i - Len(s))
        BY <1>2, <2>2
      <4> QED
        BY <4>1
    <3>2. (s \o t)[i] = t[k]
      BY <1>2, <3>1
    <3>3. CASE \E j \in DOMAIN s : t[k].id \in Conv!Range(s[j].calls)
      <4>1. PICK j \in DOMAIN s : t[k].id \in Conv!Range(s[j].calls)
        BY <3>3
      <4>2. j \in 1 .. i - 1 /\ (s \o t)[j] = s[j]
        BY <1>2, <3>1
      <4> QED
        BY <3>2, <4>1, <4>2
    <3>4. CASE \E j \in 1 .. k - 1 : t[k].id \in Conv!Range(t[j].calls)
      <4>1. PICK j \in 1 .. k - 1 : t[k].id \in Conv!Range(t[j].calls)
        BY <3>4
      <4>2. j \in 1 .. Len(t) /\ Len(s) + j \in 1 .. i - 1
        BY <1>2, <3>1
      <4>3. (s \o t)[Len(s) + j] = t[j]
        BY <1>2, <4>2
      <4> QED
        BY <3>2, <4>1, <4>2, <4>3
    <3> QED
      BY <1>2, <1>3, <3>1, <3>2, <3>3, <3>4
  <2> QED
    BY <2>1, <2>2
<1> QED
  BY <1>2, <1>3 DEF Conv!Paired

(* System messages in front of a history change nothing.                   *)
LEMMA SystemFirst ==
  ASSUME NEW M, NEW s \in Seq(M), \A i \in DOMAIN s : s[i].id = 0,
         NEW N, NEW t \in Seq(N), Conv!Paired(t)
  PROVE  Conv!Paired(s \o t) /\ s \o t \in Seq(M \cup N)
<1>1. Conv!Paired(s)
  BY DEF Conv!Paired
<1>2. \A i \in DOMAIN t : t[i].id # 0 => \E j \in 1 .. i - 1 : t[i].id \in Conv!Range(t[j].calls)
  BY DEF Conv!Paired
<1> QED
  BY <1>1, <1>2, PairedConcat

(* The request: template, memory and skills, the history, and the suffix   *)
(* of the middlewares after the last system message.                       *)
LEMMA AssemblePaired ==
  ASSUME NEW M, history \in Seq(M), \A i \in DOMAIN history : history[i].role # "system",
         Conv!Paired(history), NEW prefix \in Nat, NEW suffix \in BOOLEAN
  PROVE  Conv!Paired(Conv!Assemble(prefix, suffix)) /\ \E Q : Conv!Assemble(prefix, suffix) \in Seq(Q)
<1> DEFINE e == Conv!Plain("system", <<>>)
           sys == [i \in 1 .. prefix |-> e]
           msgs == sys \o history
<1>1. e.id = 0 /\ e.role = "system"
  BY DEF Conv!Plain, Conv!ModelMessage
<1>2. sys \in Seq({e}) /\ Len(sys) = prefix /\ DOMAIN sys = 1 .. prefix /\ \A i \in DOMAIN sys : sys[i].id = 0
  BY <1>1
<1>3. Conv!Paired(msgs)
  BY <1>2, SystemFirst
<1>4. /\ msgs \in Seq(M \cup {e}) /\ Len(history) \in Nat /\ Len(msgs) = prefix + Len(history)
      /\ DOMAIN msgs = 1 .. prefix + Len(history) /\ DOMAIN history = 1 .. Len(history)
      /\ \A i \in 1 .. prefix : msgs[i] = e
      /\ \A i \in 1 .. Len(history) : msgs[prefix + i] = history[i]
  <2>1. sys \in Seq(M \cup {e}) /\ history \in Seq(M \cup {e})
    BY <1>2
  <2>2. \A i \in 1 .. prefix : sys[i] = e
    OBVIOUS
  <2> HIDE DEF sys, e
  <2> QED
    BY <1>2, <2>1, <2>2
<1>5. CASE ~suffix
  <2>1. Conv!Assemble(prefix, suffix) = msgs
    BY <1>5 DEF Conv!Assemble
  <2> HIDE DEF msgs
  <2> QED
    BY <1>3, <1>4, <2>1
<1>6. CASE suffix
  <2> HIDE DEF e, msgs
  <2>1. Conv!Assemble(prefix, suffix) = Conv!AppendSystem(msgs, e)
    BY <1>6 DEF Conv!Assemble, msgs, e
  <2> DEFINE marked == {i \in DOMAIN msgs : Conv!IsSystem(msgs[i])}
  <2>2. marked = 1 .. prefix
    <3>1. \A i \in 1 .. prefix + Len(history) : i > prefix => msgs[i].role # "system"
      <4>1. \A i \in 1 .. prefix + Len(history) : i > prefix =>
              i - prefix \in 1 .. Len(history) /\ i = prefix + (i - prefix)
        BY <1>4
      <4> QED
        BY <1>4, <4>1
    <3> QED
      BY <1>1, <1>4, <3>1 DEF Conv!IsSystem
  <2> DEFINE last == CHOOSE i \in marked : \A j \in marked : i >= j
             at == IF marked = {} THEN 1 ELSE 1 + last
  <2>3. at = prefix + 1
    <3>1. CASE prefix = 0
      BY <2>2, <3>1
    <3>2. CASE prefix > 0
      <4>1. prefix \in marked /\ \A j \in marked : prefix >= j
        BY <2>2, <3>2
      <4>2. last \in marked /\ \A j \in marked : last >= j
        BY <4>1
      <4>3. last \in Int /\ last <= prefix /\ last >= prefix
        BY <2>2, <4>1, <4>2
      <4> QED
        BY <4>1, <4>3
    <3> QED
      BY <3>1, <3>2
  <2>4. Conv!AppendSystem(msgs, e) = Conv!InsertAt(msgs, at, e)
    BY DEF Conv!AppendSystem
  <2> DEFINE front == SubSeq(msgs, 1, prefix)
             back == SubSeq(msgs, prefix + 1, Len(msgs))
  <2>5. Conv!AppendSystem(msgs, e) = front \o <<e>> \o back
    <3>1. (prefix + 1) - 1 = prefix
      OBVIOUS
    <3> HIDE DEF at
    <3> QED
      BY <2>3, <2>4, <3>1 DEF Conv!InsertAt
  <2>6. front \in Seq({e}) /\ Len(front) = prefix /\ \A i \in 1 .. prefix : front[i] = e
    <3>1. SubSeq(msgs, 1, prefix) \in Seq({e})
          /\ Len(SubSeq(msgs, 1, prefix)) = (IF 1 <= prefix THEN prefix - 1 + 1 ELSE 0)
      BY <1>4, SubSeqProperties
    <3> QED
      BY <3>1
  <2>7. back = history
    <3>1. \A i \in prefix + 1 .. Len(msgs) : msgs[i] \in M \cup {e}
      BY <1>4
    <3>2. /\ back \in Seq(M \cup {e})
          /\ Len(back) = IF prefix + 1 <= Len(msgs) THEN Len(msgs) - (prefix + 1) + 1 ELSE 0
          /\ \A i \in 1 .. Len(msgs) - (prefix + 1) + 1 : back[i] = msgs[prefix + 1 + i - 1]
      <4> DEFINE m == prefix + 1
                 n == Len(msgs)
      <4>1. m \in Int /\ n \in Int /\ \A i \in m .. n : msgs[i] \in M \cup {e}
        BY <1>4, <3>1
      <4> HIDE DEF m, n
      <4>2. /\ SubSeq(msgs, m, n) \in Seq(M \cup {e})
            /\ Len(SubSeq(msgs, m, n)) = IF m <= n THEN n - m + 1 ELSE 0
            /\ \A i \in 1 .. n - m + 1 : SubSeq(msgs, m, n)[i] = msgs[m + i - 1]
        BY <4>1, SubSeqProperties
      <4> QED
        BY <4>2 DEF m, n
    <3>3. Len(back) = Len(history)
      BY <1>4, <3>2
    <3>4. \A i \in 1 .. Len(history) : back[i] = history[i]
      <4>1. \A i \in 1 .. Len(history) : i \in 1 .. Len(msgs) - (prefix + 1) + 1
                                         /\ prefix + 1 + i - 1 = prefix + i
        BY <1>4
      <4> QED
        BY <1>4, <3>2, <4>1
    <3> HIDE DEF back
    <3> QED
      BY <3>2, <3>3, <3>4, SeqEqual
  <2>8. front \o <<e>> \in Seq({e}) /\ \A i \in DOMAIN (front \o <<e>>) : (front \o <<e>>)[i].id = 0
    <3> HIDE DEF front
    <3>1. front \o <<e>> \in Seq({e})
      BY <2>6
    <3> QED
      BY <1>1, <3>1
  <2> HIDE DEF front, back
  <2>9. Conv!Paired((front \o <<e>>) \o history) /\ (front \o <<e>>) \o history \in Seq({e} \cup M)
    BY <2>8, SystemFirst
  <2> QED
    BY <2>1, <2>5, <2>7, <2>9
<1> QED
  BY <1>5, <1>6

LEMMA ConvInit ==
  ASSUME Conv!Init
  PROVE  ConvInv
<1>1. \A S : <<>> \in Seq(S)
  OBVIOUS
<1>2. history = <<>> /\ wire = <<>> /\ todo = <<>> /\ nextId = 0 /\ pc = "idle" /\ payload.ok = FALSE
  BY DEF Conv!Init
<1> QED
  BY <1>1, <1>2 DEF ConvInv, NativeInv, Conv!Paired, TodoCalled

(* A message that answers nothing is put at the end.                       *)
LEMMA NativeAppend ==
  ASSUME NativeInv, NEW m, m.id = 0, m.role # "system", history' = Append(history, m)
  PROVE  /\ (\E M : history \in Seq(M))'
         /\ (\A i \in DOMAIN history : history[i].role # "system")'
         /\ Conv!Paired(history)'
         /\ \A j \in DOMAIN history : j \in DOMAIN history' /\ history'[j] = history[j]
         /\ \E j \in DOMAIN history' : history'[j] = m
<1>1. PICK M : history \in Seq(M)
  BY DEF NativeInv
<1> DEFINE N == M \cup {m}
<1>2. history \in Seq(N) /\ m \in N
  BY <1>1
<1> HIDE DEF N
<1>3. /\ history' \in Seq(N) /\ Len(history) \in Nat
      /\ DOMAIN history = 1 .. Len(history) /\ DOMAIN history' = 1 .. Len(history) + 1
      /\ \A j \in 1 .. Len(history) : history'[j] = history[j]
      /\ history'[Len(history) + 1] = m
  BY <1>2
<1>4. Conv!Paired(history')
  <2>1. ASSUME NEW i \in DOMAIN history', history'[i].id # 0
        PROVE  \E j \in 1 .. i - 1 : history'[i].id \in Conv!Range(history'[j].calls)
    <3>1. i \in DOMAIN history /\ history'[i] = history[i]
      BY <1>3, <2>1
    <3>2. PICK j \in 1 .. i - 1 : history[i].id \in Conv!Range(history[j].calls)
      BY <2>1, <3>1 DEF NativeInv, Conv!Paired
    <3>3. history'[j] = history[j]
      BY <1>3, <3>1
    <3> QED
      BY <3>1, <3>2, <3>3
  <2> QED
    BY <2>1 DEF Conv!Paired
<1>5. \A i \in DOMAIN history' : history'[i].role # "system"
  BY <1>3 DEF NativeInv
<1> QED
  BY <1>3, <1>4, <1>5

LEMMA ConvUserSays ==
  ASSUME NativeInv, Conv!UserSays
  PROVE  NativeInv'
<1> DEFINE m == Conv!Plain("user", <<0>>)
<1>1. m.id = 0 /\ m.role # "system" /\ history' = Append(history, m)
  BY DEF Conv!Plain, Conv!ModelMessage, Conv!UserSays
<1>2. pc' = "ready" /\ UNCHANGED <<wire, payload, todo, nextId>>
  BY DEF Conv!UserSays
<1> HIDE DEF m
<1>3. /\ (\E M : history \in Seq(M))'
      /\ (\A i \in DOMAIN history : history[i].role # "system")'
      /\ Conv!Paired(history)'
      /\ \A j \in DOMAIN history : j \in DOMAIN history' /\ history'[j] = history[j]
  BY <1>1, NativeAppend
<1>4. TodoCalled'
  BY <1>2, <1>3 DEF NativeInv, TodoCalled
<1>5. Conv!Paired(wire)'
  BY <1>2 DEF NativeInv, Conv!Paired
<1> QED
  BY <1>2, <1>3, <1>4, <1>5 DEF NativeInv

LEMMA ConvModelTurn ==
  ASSUME ConvAssumption, NativeInv, provider = "minimax", Conv!ModelTurn
  PROVE  NativeInv'
<1>1. UNCHANGED <<history, payload, todo, nextId>> /\ pc' = "calling"
  BY DEF Conv!ModelTurn
<1>2. PICK prefix \in SystemMsgs, suffix \in BOOLEAN :
        wire' = Conv!Convert(provider, Conv!Assemble(prefix, suffix))
  BY DEF Conv!ModelTurn
<1>3. PICK M : history \in Seq(M)
  BY DEF NativeInv
<1>4. PICK msgs, Q : msgs = Conv!Assemble(prefix, suffix) /\ Conv!Paired(msgs) /\ msgs \in Seq(Q)
  BY <1>3, AssemblePaired DEF NativeInv, ConvAssumption
<1>5. wire' = [i \in DOMAIN msgs |-> Conv!ConvertMiniMax(msgs[i])]
  BY <1>2, <1>4 DEF Conv!Convert
<1>6. DOMAIN wire' = DOMAIN msgs
      /\ \A i \in DOMAIN msgs : wire'[i].id = msgs[i].id /\ wire'[i].calls = msgs[i].calls
  BY <1>5 DEF Conv!ConvertMiniMax
<1>7. Conv!Paired(wire)'
  <2>1. ASSUME NEW i \in DOMAIN msgs, msgs[i].id # 0
        PROVE  \E j \in 1 .. i - 1 : msgs[i].id \in Conv!Range(wire'[j].calls)
    <3>1. PICK j \in 1 .. i - 1 : msgs[i].id \in Conv!Range(msgs[j].calls)
      BY <1>4, <2>1 DEF Conv!Paired
    <3>2. j \in DOMAIN msgs
      BY <1>4, <2>1, <3>1
    <3>3. wire'[j].calls = msgs[j].calls
      BY <1>6, <3>2
    <3> QED
      BY <3>1, <3>3
  <2> QED
    BY <1>6, <2>1 DEF Conv!Paired
<1>8. Conv!Paired(history)' /\ TodoCalled'
  BY <1>1 DEF NativeInv, Conv!Paired, TodoCalled
<1> QED
  BY <1>1, <1>7, <1>8 DEF NativeInv

(* The API's answer is parsed whole, or it is an error.                    *)
LEMMA ConvApi ==
  ASSUME ConvAssumption, NativeInv, provider = "minimax", Conv!Api
  PROVE  NativeInv'
<1> DEFINE Quiet == UNCHANGED <<history, wire, todo, nextId>> /\ pc' # "tools"
           Typed == payload'.ok => \E C : payload'.calls \in Seq(C)
<1>1. ASSUME NEW r \in Replies, NEW st, Conv!ApiAnswers(r, st) PROVE Quiet /\ Typed
  <2>1. PICK C : r.calls \in Seq(C)
    BY DEF ConvAssumption
  <2> DEFINE f(i) == Conv!ParseArgs(r.calls[i], r.calls[i])
             D == {f(i) : i \in DOMAIN r.calls}
  <2>2. payload'.calls = [i \in DOMAIN r.calls |-> f(i)]
    BY <1>1 DEF Conv!ApiAnswers, Conv!Payload, Conv!Parsed, Conv!ParseMiniMax, Conv!Whole
  <2>3. DOMAIN r.calls = 1 .. Len(r.calls) /\ Len(r.calls) \in Nat
    BY <2>1
  <2> HIDE DEF f
  <2>4. [i \in 1 .. Len(r.calls) |-> f(i)] \in Seq(D)
    BY <2>3
  <2>5. Typed
    BY <2>2, <2>3, <2>4
  <2> QED
    BY <1>1, <2>5 DEF Conv!ApiAnswers
<1>2. ASSUME Conv!ApiGarbage PROVE Quiet /\ Typed
  <2>1. payload'.ok = FALSE
    BY <1>2 DEF Conv!ApiGarbage
  <2> QED
    BY <1>2, <2>1 DEF Conv!ApiGarbage
<1>3. ASSUME NEW err, Conv!ApiFails(err) PROVE Quiet /\ Typed
  <2>1. payload' = payload \/ payload'.ok = FALSE
    BY <1>3 DEF Conv!ApiFails
  <2> QED
    BY <1>3, <2>1 DEF Conv!ApiFails, NativeInv
<1>4. Quiet /\ Typed
  BY <1>1, <1>2, <1>3 DEF Conv!Api
<1>5. Conv!Paired(history)' /\ Conv!Paired(wire)' /\ TodoCalled'
  BY <1>4 DEF NativeInv, Conv!Paired, TodoCalled
<1> QED
  BY <1>4, <1>5 DEF NativeInv

(* The calls of an answer get ids of their own and are all to be done.     *)
LEMMA ConvTakeAnswer ==
  ASSUME NativeInv, Conv!TakeAnswer
  PROVE  NativeInv'
<1> DEFINE n == IF payload.ok THEN Len(payload.calls) ELSE 0
           ids == [i \in 1 .. n |-> nextId + i]
           text == IF payload.ok THEN payload.text ELSE <<>>
           m == Conv!ModelMessage("assistant", text, ids, 0, Conv!NoExtra)
<1>1. n \in Nat
  BY DEF NativeInv
<1>2. /\ history' = Append(history, m) /\ nextId' = nextId + n /\ todo' = ids
      /\ pc' = (IF n = 0 THEN "idle" ELSE "tools") /\ UNCHANGED <<wire, payload>>
  BY DEF Conv!TakeAnswer
<1>3. m.id = 0 /\ m.role # "system" /\ m.calls = ids
  BY DEF Conv!ModelMessage
<1> HIDE DEF n, m
<1>4. ids \in Seq(Nat) /\ nextId' \in Nat /\ (pc' = "tools" => ids # <<>>)
  <2>1. \A i \in 1 .. n : nextId + i \in Nat
    BY <1>1 DEF NativeInv
  <2>2. ids \in Seq(Nat) /\ Len(ids) = n
    BY <1>1, <2>1
  <2>3. nextId' \in Nat
    BY <1>1, <1>2 DEF NativeInv
  <2> HIDE DEF ids
  <2>4. ids = <<>> => n = 0
    BY <2>2
  <2> QED
    BY <1>2, <2>2, <2>3, <2>4
<1> HIDE DEF ids
<1>5. /\ (\E M : history \in Seq(M))'
      /\ (\A i \in DOMAIN history : history[i].role # "system")'
      /\ Conv!Paired(history)'
      /\ \E j \in DOMAIN history' : history'[j] = m
  BY <1>2, <1>3, NativeAppend
<1>6. TodoCalled'
  BY <1>2, <1>3, <1>5 DEF TodoCalled, Conv!Range
<1>7. Conv!Paired(wire)'
  BY <1>2 DEF NativeInv, Conv!Paired
<1> QED
  BY <1>2, <1>4, <1>5, <1>6, <1>7 DEF NativeInv

(* A result, or the sentinels of a cancelled turn, answers what was called. *)
LEMMA ConvToolDone ==
  ASSUME NativeInv, NEW cancelled \in BOOLEAN, Conv!ToolDone(cancelled)
  PROVE  NativeInv'
<1> DEFINE answer(id) == Conv!ModelMessage("tool", <<0>>, <<>>, id, Conv!NoExtra)
           done == IF cancelled THEN todo ELSE <<Head(todo)>>
           results == [i \in DOMAIN done |-> answer(done[i])]
<1>1. /\ pc = "tools" /\ history' = history \o results
      /\ todo' = (IF cancelled THEN <<>> ELSE Tail(todo))
      /\ pc' = (IF todo' # <<>> THEN "tools" ELSE IF cancelled THEN "idle" ELSE "ready")
      /\ UNCHANGED <<wire, payload, nextId>>
  BY DEF Conv!ToolDone
<1>2. todo \in Seq(Nat) /\ todo # <<>> /\ TodoCalled
  BY <1>1 DEF NativeInv
<1>3. done \in Seq(Nat) /\ \A i \in DOMAIN done : \E k \in DOMAIN todo : done[i] = todo[k]
  <2>1. Head(todo) \in Nat /\ 1 \in DOMAIN todo /\ Head(todo) = todo[1]
    BY <1>2
  <2>2. <<Head(todo)>> \in Seq(Nat) /\ DOMAIN <<Head(todo)>> = {1} /\ <<Head(todo)>>[1] = Head(todo)
    BY <2>1
  <2> QED
    BY <1>2, <2>1, <2>2
<1>4. todo' \in Seq(Nat) /\ \A i \in DOMAIN todo' : \E k \in DOMAIN todo : todo'[i] = todo[k]
  <2>1. /\ Tail(todo) \in Seq(Nat) /\ DOMAIN todo = 1 .. Len(todo) /\ Len(todo) \in Nat
        /\ DOMAIN Tail(todo) = 1 .. Len(todo) - 1
        /\ \A i \in 1 .. Len(todo) - 1 : Tail(todo)[i] = todo[i + 1]
    BY <1>2
  <2>2. \A i \in DOMAIN Tail(todo) : i + 1 \in DOMAIN todo /\ Tail(todo)[i] = todo[i + 1]
    BY <2>1
  <2> QED
    BY <1>1, <2>1, <2>2
<1> HIDE DEF done
<1> DEFINE N == {answer(done[i]) : i \in DOMAIN done}
<1>5. results \in Seq(N) /\ DOMAIN results = DOMAIN done
      /\ \A i \in DOMAIN done : results[i].id = done[i] /\ results[i].role # "system"
  <2>1. DOMAIN done = 1 .. Len(done) /\ Len(done) \in Nat
    BY <1>3
  <2>2. \A i \in DOMAIN done : answer(done[i]).id = done[i] /\ answer(done[i]).role # "system"
    BY DEF Conv!ModelMessage
  <2> HIDE DEF answer
  <2> QED
    BY <2>1, <2>2
<1> HIDE DEF results, N
<1>6. PICK M : history \in Seq(M)
  BY DEF NativeInv
<1>7. Conv!Paired(history') /\ history' \in Seq(M \cup N)
  <2>1. \A i \in DOMAIN results : \E j \in DOMAIN history : results[i].id \in Conv!Range(history[j].calls)
    <3>1. TAKE i \in DOMAIN results
    <3>2. results[i].id = done[i] /\ i \in DOMAIN done
      BY <1>5
    <3>3. PICK k \in DOMAIN todo : done[i] = todo[k]
      BY <1>3, <3>2
    <3>4. PICK j \in DOMAIN history : todo[k] \in Conv!Range(history[j].calls)
      BY <1>2 DEF TodoCalled
    <3> QED
      BY <3>2, <3>3, <3>4
  <2>2. Conv!Paired(history)
    BY DEF NativeInv
  <2> QED
    BY <1>1, <1>5, <1>6, <2>1, <2>2, PairedConcat
<1>8. /\ \A j \in DOMAIN history : j \in DOMAIN history' /\ history'[j] = history[j]
      /\ \A i \in DOMAIN history' : i \in DOMAIN history \/ \E k \in DOMAIN results : history'[i] = results[k]
  <2>1. history \in Seq(M \cup N) /\ results \in Seq(M \cup N)
    BY <1>5, <1>6
  <2>2. /\ DOMAIN history = 1 .. Len(history) /\ DOMAIN results = 1 .. Len(results)
        /\ Len(history) \in Nat /\ Len(results) \in Nat
        /\ DOMAIN history' = 1 .. Len(history) + Len(results)
        /\ \A i \in 1 .. Len(history) : history'[i] = history[i]
        /\ \A i \in 1 .. Len(history) + Len(results) : i > Len(history) => history'[i] = results[i - Len(history)]
    BY <1>1, <2>1
  <2>3. \A i \in 1 .. Len(history) + Len(results) : i > Len(history) => i - Len(history) \in DOMAIN results
    BY <2>2
  <2> QED
    BY <2>2, <2>3
<1>9. \A i \in DOMAIN history' : history'[i].role # "system"
  BY <1>5, <1>8 DEF NativeInv
<1>10. TodoCalled'
  BY <1>2, <1>4, <1>8 DEF TodoCalled
<1>11. Conv!Paired(wire)'
  BY <1>1 DEF NativeInv, Conv!Paired
<1>12. pc' = "tools" => todo' # <<>>
  BY <1>1
<1> QED
  BY <1>1, <1>4, <1>7, <1>9, <1>10, <1>11, <1>12 DEF NativeInv

LEMMA ConvStep ==
  ASSUME ConvAssumption, ConvInv, [Conv!Next]_(Conv!vars)
  PROVE  ConvInv'
<1> SUFFICES ASSUME provider' = "minimax", ~compacted' PROVE NativeInv'
  BY DEF ConvInv
<1>1. CASE Conv!Compact
  BY <1>1 DEF Conv!Compact
<1>2. CASE ~Conv!Compact
  <2>1. UNCHANGED <<provider, compacted>>
    BY <1>2 DEF Conv!Next, Conv!UserSays, Conv!ModelTurn, Conv!EndRound, Conv!Api, Conv!ApiAnswers,
                Conv!ApiGarbage, Conv!ApiFails, Conv!TakeAnswer, Conv!ToolDone, Conv!vars
  <2>2. provider = "minimax" /\ NativeInv
    BY <2>1 DEF ConvInv
  <2>3. CASE Conv!EndRound \/ UNCHANGED Conv!vars
    <3>1. UNCHANGED <<history, wire, payload, todo, nextId>> /\ (pc' = pc \/ pc' = "idle")
      BY <2>3 DEF Conv!EndRound, Conv!vars
    <3>2. Conv!Paired(history)' /\ Conv!Paired(wire)' /\ TodoCalled'
      BY <2>2, <3>1 DEF NativeInv, Conv!Paired, TodoCalled
    <3> QED
      BY <2>2, <3>1, <3>2 DEF NativeInv
  <2> QED
    BY <1>2, <2>2, <2>3, ConvUserSays, ConvModelTurn, ConvApi, ConvTakeAnswer, ConvToolDone DEF Conv!Next
<1> QED
  BY <1>1, <1>2

(* A provider that sends the native calls is given every tool result after *)
(* the call it answers, through cancelled turns, failed requests and any   *)
(* number of system messages put in between, until a compaction cuts the   *)
(* history.                                                                *)
THEOREM NativeCallsStayPaired ==
  ASSUME ConvAssumption
  PROVE  Conv!Spec => []NativeCallsPaired
<1>1. Conv!Init => ConvInv
  BY ConvInit
<1>2. ConvInv /\ [Conv!Next]_(Conv!vars) => ConvInv'
  BY ConvStep
<1>3. ConvInv => NativeCallsPaired
  BY DEF ConvInv, NativeInv, NativeCallsPaired, Conv!NativeCallsPaired
<1> QED
  BY <1>1, <1>2, <1>3, PTL DEF Conv!Spec

-----------------------------------------------------------------------------
(* Session stores *)

(* An event kind is no "save" or "snapshot", and nothing found is unlike a *)
(* row and unlike what load() makes of one.                                *)
StoreAssumption ==
  /\ \A k \in Marks : k # "save" /\ k # "snapshot"
  /\ NoData \notin [state : Nat, status : Saved \cup {"cancelling", "interrupted"}]
  /\ NoData \notin [state : Nat, status : Saved \cup {"cancelling", "interrupted"}, cp : Nat]

Rows == [state : Nat, status : Saved \cup {"cancelling", "interrupted"}]

SaveRecords == [kind : {"save"}, state : Nat, status : Saved, cp : Nat]

StoreType ==
  /\ calls \in Nat
  /\ step \in {"idle", "checkpoint", "state", "newline", "return", "deleteRow"}
  /\ DOMAIN acked = {"saved", "state", "cp", "log"}
  /\ acked = [x \in DOMAIN acked |-> acked[x]]
  /\ acked.saved \in 0 .. calls /\ acked.state \in 0 .. calls /\ acked.cp \in 0 .. calls

(* What a call in progress carries is newer than all that was said.        *)
ArgInv ==
  /\ step \in {"checkpoint", "newline", "return"} /\ arg.kind = "save" =>
       arg.state = calls /\ arg.cp \in {0, calls} /\ calls > 0
  /\ step \in {"state", "newline", "return"} /\ arg.kind = "snapshot" =>
       arg.state = calls /\ arg.cp = calls /\ calls > 0
  /\ step = "checkpoint" => arg.kind = "save"
  /\ step = "state" => arg.kind = "snapshot"

(* The tables hold what was acknowledged and what the call in progress has *)
(* written; the checkpoints have a latest one.                             *)
SqlInv ==
  impl = "sqlite" =>
    /\ step # "newline"
    /\ row \in Rows \cup {NoData}
    /\ cps \subseteq 1 .. calls
    /\ cps # {} => \E m \in cps : \A k \in cps : k <= m
    /\ acked.state > 0 => row \in Rows /\ row.state >= acked.state
    /\ acked.cp > 0 /\ step # "deleteRow" => \E k \in cps : k >= acked.cp
    /\ step = "checkpoint" => row \in Rows /\ row.state = calls
    /\ step = "state" => calls \in cps
    /\ step = "return" /\ arg.kind = "save" =>
         row \in Rows /\ row.state = calls /\ (arg.cp # 0 => arg.cp \in cps)
    /\ step = "return" /\ arg.kind = "snapshot" =>
         row \in Rows /\ row.state = calls /\ calls \in cps

(* The file is a sequence of lines with at least a record each.            *)
FileShape ==
  /\ \E R : lines \in Seq(Seq(R) \ {<<>>})
  /\ open \in BOOLEAN /\ open => lines # <<>>

(* The file has a latest save line, of at least version n.                 *)
LatestAtLeast(n) ==
  \E m \in Store!SaveLines : /\ \A k \in Store!SaveLines : k <= m
                             /\ lines[m][1] \in SaveRecords /\ lines[m][1].state >= n

(* As long as no two records share a line, the latest save line is the one *)
(* being written or at least the one that was acknowledged.                *)
JsonlInv ==
  impl = "jsonl" =>
    /\ step \in {"idle", "newline", "return"}
    /\ FileShape
    /\ ~Store!Torn /\ acked.saved > 0 => LatestAtLeast(acked.saved)
    /\ ~Store!Torn /\ step \in {"newline", "return"} /\ arg.kind = "save" => LatestAtLeast(calls)

StoreInv == StoreType /\ ArgInv /\ SqlInv /\ JsonlInv

LEMMA StoreInit ==
  ASSUME Store!Init
  PROVE  StoreInv
<1>1. StoreType /\ ArgInv
  BY DEF Store!Init, StoreType, ArgInv
<1>2. SqlInv
  BY DEF Store!Init, SqlInv
<1>3. \A S : <<>> \in Seq(S)
  OBVIOUS
<1>4. JsonlInv
  <2>1. FileShape
    BY <1>3 DEF FileShape, Store!Init
  <2> QED
    BY <2>1 DEF Store!Init, JsonlInv
<1> QED
  BY <1>1, <1>2, <1>4 DEF StoreInv

(* An append that leaves no two records on a line ends a closed file with  *)
(* a line of its own.                                                      *)
LEMMA AppendShape ==
  ASSUME FileShape, NEW r, Store!AppendLine(r)
  PROVE  /\ FileShape'
         /\ ~Store!Torn' => /\ ~Store!Torn /\ Len(lines) \in Nat
                            /\ DOMAIN lines = 1 .. Len(lines)
                            /\ DOMAIN lines' = 1 .. Len(lines) + 1
                            /\ \A i \in 1 .. Len(lines) : lines'[i] = lines[i]
                            /\ lines'[Len(lines) + 1] = <<r>>
<1>1. PICK R : lines \in Seq(Seq(R) \ {<<>>})
  BY DEF FileShape
<1> DEFINE Q == R \cup {r}
           L == Seq(Q) \ {<<>>}
<1>2. \A l \in Seq(R) \ {<<>>} : l \in L /\ Append(l, r) \in L /\ Len(Append(l, r)) > 1
  OBVIOUS
<1>3. <<r>> \in L /\ lines \in Seq(L)
  BY <1>1, <1>2
<1>4. CASE open
  <2>1. Len(lines) \in Nat /\ Len(lines) > 0 /\ lines[Len(lines)] \in Seq(R) \ {<<>>}
    BY <1>1, <1>4 DEF FileShape
  <2> DEFINE front == Store!Front(lines)
             last == Append(lines[Len(lines)], r)
  <2>2. front \in Seq(L) /\ Len(front) = Len(lines) - 1
    <3>1. \A i \in 1 .. Len(lines) - 1 : lines[i] \in L
      BY <1>3, <2>1
    <3> HIDE DEF L
    <3>2. PICK n \in Int : n = Len(lines) - 1 /\ n >= 0
      BY <2>1
    <3>3. SubSeq(lines, 1, n) \in Seq(L) /\ Len(SubSeq(lines, 1, n)) = IF 1 <= n THEN n - 1 + 1 ELSE 0
      BY <3>1, <3>2, SubSeqProperties
    <3> QED
      BY <3>2, <3>3 DEF Store!Front
  <2>3. lines' = Append(front, last)
    BY <1>4 DEF Store!AppendLine, Store!Last
  <2>4. last \in L /\ Len(last) > 1
    BY <1>2, <2>1
  <2> HIDE DEF front, last, L
  <2>5. lines' \in Seq(L) /\ Len(lines) \in DOMAIN lines' /\ lines'[Len(lines)] = last /\ lines' # <<>>
    BY <2>1, <2>2, <2>3, <2>4
  <2>6. Store!Torn'
    BY <2>4, <2>5 DEF Store!Torn
  <2>7. FileShape'
    BY <2>5 DEF FileShape, Store!AppendLine, L
  <2> QED
    BY <2>6, <2>7
<1>5. CASE ~open
  <2>1. lines' = Append(lines, <<r>>)
    BY <1>5 DEF Store!AppendLine
  <2> HIDE DEF L
  <2>2. /\ lines' \in Seq(L) /\ lines' # <<>> /\ Len(lines) \in Nat
        /\ DOMAIN lines = 1 .. Len(lines) /\ DOMAIN lines' = 1 .. Len(lines) + 1
        /\ \A i \in 1 .. Len(lines) : lines'[i] = lines[i]
        /\ lines'[Len(lines) + 1] = <<r>>
    BY <1>3, <2>1
  <2>3. FileShape'
    BY <2>2 DEF FileShape, Store!AppendLine, L
  <2>4. Store!Torn => Store!Torn'
    BY <2>2 DEF Store!Torn
  <2> QED
    BY <2>2, <2>3, <2>4
<1> QED
  BY <1>4, <1>5 DEF FileShape

(* The latest save line is still there after the record of another kind... *)
LEMMA AppendOther ==
  ASSUME FileShape, NEW r, Store!AppendLine(r), r.kind # "save", ~Store!Torn',
         NEW n, LatestAtLeast(n)
  PROVE  LatestAtLeast(n)'
<1>1. /\ DOMAIN lines = 1 .. Len(lines) /\ DOMAIN lines' = 1 .. Len(lines) + 1 /\ Len(lines) \in Nat
      /\ \A i \in 1 .. Len(lines) : lines'[i] = lines[i]
      /\ lines'[Len(lines) + 1][1] = r
  BY AppendShape
<1>2. Store!SaveLines' = Store!SaveLines
  BY <1>1 DEF Store!SaveLines
<1>3. Store!SaveLines \subseteq 1 .. Len(lines)
  BY <1>1 DEF Store!SaveLines
<1> QED
  BY <1>1, <1>2, <1>3 DEF LatestAtLeast

(* ... and a save line becomes the latest.                                 *)
LEMMA AppendSave ==
  ASSUME FileShape, NEW r \in SaveRecords, Store!AppendLine(r), ~Store!Torn', NEW n \in Nat, r.state >= n
  PROVE  LatestAtLeast(n)'
<1>1. /\ DOMAIN lines' = 1 .. Len(lines) + 1 /\ Len(lines) \in Nat
      /\ lines'[Len(lines) + 1][1] = r
  BY AppendShape
<1>2. Len(lines) + 1 \in Store!SaveLines' /\ \A k \in Store!SaveLines' : k <= Len(lines) + 1
  BY <1>1 DEF Store!SaveLines, SaveRecords
<1> QED
  BY <1>1, <1>2 DEF LatestAtLeast

(* A call begins: nothing that was acknowledged is newer than it.          *)
LEMMA StoreStart ==
  ASSUME StoreType, NEW next \in {"checkpoint", "state", "newline", "return", "deleteRow"},
         NEW d, Store!Start(next, d)
  PROVE  /\ StoreType' /\ impl' = impl /\ acked' = acked /\ step' = next /\ arg' = d
         /\ step = "idle" /\ calls' = calls + 1 /\ calls \in Nat
BY DEF StoreType, Store!Start

LEMMA StoreSave ==
  ASSUME StoreAssumption, StoreInv, NEW status \in Saved, NEW withCp \in BOOLEAN,
         Store!Save(status, withCp)
  PROVE  StoreInv'
<1> DEFINE d == Store!SaveData(status, withCp)
<1>1. /\ d.kind = "save" /\ d.state = calls + 1 /\ d.status = status
      /\ d.cp \in {0, calls + 1} /\ calls \in Nat /\ d \in SaveRecords
  BY DEF Store!SaveData, SaveRecords, StoreInv, StoreType
<1>2. CASE Store!SqliteSave(d)
  <2> HIDE DEF d
  <2>1. /\ StoreType' /\ impl' = impl /\ acked' = acked /\ step' = "checkpoint" /\ arg' = d
        /\ step = "idle" /\ calls' = calls + 1
    BY <1>2, StoreStart DEF StoreInv, Store!SqliteSave
  <2>2. row' = [state |-> d.state, status |-> d.status] /\ cps' = cps /\ impl = "sqlite"
    BY <1>2 DEF Store!SqliteSave, Store!SaveRow
  <2>3. row' \in Rows /\ row'.state = calls + 1
    BY <1>1, <2>2 DEF Rows
  <2>4. ArgInv'
    BY <1>1, <2>1 DEF ArgInv
  <2>5. SqlInv'
    BY <1>1, <2>1, <2>2, <2>3 DEF SqlInv, StoreInv, StoreType
  <2>6. JsonlInv'
    BY <2>1, <2>2 DEF JsonlInv
  <2> QED
    BY <2>1, <2>4, <2>5, <2>6 DEF StoreInv
<1>3. CASE Store!JsonlSave(d)
  <2> HIDE DEF d
  <2>1. /\ StoreType' /\ impl' = impl /\ acked' = acked /\ step' = "newline" /\ arg' = d
        /\ step = "idle" /\ calls' = calls + 1 /\ impl = "jsonl" /\ Store!AppendLine(d)
    BY <1>3, StoreStart DEF StoreInv, Store!JsonlSave
  <2>2. FileShape
    BY <2>1 DEF StoreInv, JsonlInv
  <2>3. FileShape'
    BY <2>1, <2>2, AppendShape
  <2>4. PICK n \in Nat : n = calls + 1
    BY <1>1
  <2>5. ~Store!Torn' => LatestAtLeast(n)'
    BY <1>1, <2>1, <2>2, <2>4, AppendSave
  <2>6. PICK v \in Nat : v = acked.saved /\ v <= n
    BY <1>1, <2>4 DEF StoreInv, StoreType
  <2>7. ~Store!Torn' => LatestAtLeast(v)'
    BY <1>1, <2>1, <2>2, <2>4, <2>6, AppendSave
  <2>8. JsonlInv'
    BY <2>1, <2>3, <2>4, <2>5, <2>6, <2>7 DEF JsonlInv
  <2>9. ArgInv' /\ SqlInv'
    BY <1>1, <2>1 DEF ArgInv, SqlInv
  <2> QED
    BY <2>1, <2>8, <2>9 DEF StoreInv
<1> QED
  BY <1>2, <1>3 DEF Store!Save

(* An append of a snapshot or an event.                                    *)
LEMMA StoreAppend ==
  ASSUME StoreInv, NEW r, r.kind # "save", impl = "jsonl", Store!Start("newline", r),
         Store!AppendLine(r), r.kind = "snapshot" => r.state = calls + 1 /\ r.cp = calls + 1
  PROVE  StoreInv'
<1>1. /\ StoreType' /\ impl' = impl /\ acked' = acked /\ step' = "newline" /\ arg' = r
      /\ step = "idle" /\ calls' = calls + 1 /\ calls \in Nat
  BY StoreStart DEF StoreInv
<1>2. FileShape /\ FileShape' /\ (~Store!Torn' => ~Store!Torn)
  BY AppendShape DEF StoreInv, JsonlInv
<1>3. PICK v : v = acked.saved
  OBVIOUS
<1>4. ~Store!Torn' /\ v > 0 => LatestAtLeast(v)'
  <2>1. ~Store!Torn' /\ v > 0 => LatestAtLeast(v)
    BY <1>2, <1>3 DEF StoreInv, JsonlInv
  <2> QED
    BY <2>1, <1>2, AppendOther
<1>5. JsonlInv'
  BY <1>1, <1>2, <1>3, <1>4 DEF JsonlInv
<1>6. ArgInv' /\ SqlInv'
  BY <1>1 DEF ArgInv, SqlInv
<1> QED
  BY <1>1, <1>5, <1>6 DEF StoreInv

LEMMA StoreSnapshot ==
  ASSUME StoreAssumption, StoreInv, Store!Snapshot
  PROVE  StoreInv'
<1> DEFINE d == [kind |-> "snapshot", state |-> calls + 1, cp |-> calls + 1]
<1>1. d.kind = "snapshot" /\ d.state = calls + 1 /\ d.cp = calls + 1
  OBVIOUS
<1>2. Store!SqliteSnapshot(d) \/ Store!JsonlSnapshot(d)
  BY DEF Store!Snapshot
<1> HIDE DEF d
<1>3. CASE Store!SqliteSnapshot(d)
  <2>1. /\ StoreType' /\ impl' = impl /\ acked' = acked /\ step' = "state" /\ arg' = d
        /\ step = "idle" /\ calls' = calls + 1 /\ calls \in Nat
    BY <1>3, StoreStart DEF StoreInv, Store!SqliteSnapshot
  <2>2. cps' = cps \cup {calls + 1} /\ row' = row /\ impl = "sqlite"
    BY <1>1, <1>3 DEF Store!SqliteSnapshot
  <2>3. cps \subseteq 1 .. calls
    BY <2>2 DEF StoreInv, SqlInv
  <2>4. calls + 1 \in cps' /\ (\A k \in cps' : k <= calls + 1) /\ cps' \subseteq 1 .. calls + 1
    BY <2>1, <2>2, <2>3
  <2>5. SqlInv'
    BY <2>1, <2>2, <2>4 DEF StoreInv, SqlInv
  <2>6. ArgInv' /\ JsonlInv'
    BY <1>1, <2>1, <2>2 DEF ArgInv, JsonlInv
  <2> QED
    BY <2>1, <2>5, <2>6 DEF StoreInv
<1>4. CASE Store!JsonlSnapshot(d)
  BY <1>1, <1>4, StoreAppend DEF Store!JsonlSnapshot
<1> QED
  BY <1>2, <1>3, <1>4

LEMMA StoreRecord ==
  ASSUME StoreInv, NEW e, e.kind # "save", e.kind # "snapshot", Store!RecordEvent(e)
  PROVE  StoreInv'
<1>1. CASE Store!SqliteRecord(e)
  <2>1. /\ StoreType' /\ impl' = impl /\ acked' = acked /\ step' = "return" /\ arg' = e
        /\ step = "idle" /\ calls' = calls + 1 /\ calls \in Nat
    BY <1>1, StoreStart DEF StoreInv, Store!SqliteRecord
  <2>2. cps' = cps /\ row' = row /\ impl = "sqlite"
    BY <1>1 DEF Store!SqliteRecord
  <2>3. SqlInv'
    BY <2>1, <2>2 DEF StoreInv, SqlInv
  <2>4. ArgInv' /\ JsonlInv'
    BY <2>1, <2>2 DEF ArgInv, JsonlInv
  <2> QED
    BY <2>1, <2>3, <2>4 DEF StoreInv
<1>2. CASE Store!JsonlRecord(e)
  BY <1>2, StoreAppend DEF Store!JsonlRecord
<1> QED
  BY <1>1, <1>2 DEF Store!RecordEvent

(* The second statement or write of a call.                                *)
LEMMA StoreSecond ==
  ASSUME StoreInv, Store!SaveCheckpoint \/ Store!SnapshotState \/ Store!Newline
  PROVE  StoreInv'
<1>1. CASE Store!SaveCheckpoint
  <2>1. /\ step = "checkpoint" /\ step' = "return" /\ UNCHANGED <<impl, row, lines, open, arg, calls, acked>>
        /\ cps' = IF arg.cp = 0 THEN cps ELSE cps \cup {arg.cp}
    BY <1>1 DEF Store!SaveCheckpoint
  <2>2. arg.kind = "save" /\ arg.cp \in {0, calls} /\ calls \in Nat /\ calls > 0
    BY <2>1 DEF StoreInv, ArgInv, StoreType
  <2>3. impl = "sqlite" =>
          /\ cps' \subseteq 1 .. calls /\ cps \subseteq cps' /\ (arg.cp # 0 => arg.cp \in cps')
          /\ cps' # {} => \E m \in cps' : \A k \in cps' : k <= m
    BY <2>1, <2>2 DEF StoreInv, SqlInv
  <2>4. SqlInv'
    BY <2>1, <2>2, <2>3 DEF StoreInv, SqlInv
  <2>5. StoreType' /\ ArgInv' /\ JsonlInv'
    BY <2>1 DEF StoreInv, StoreType, ArgInv, JsonlInv
  <2> QED
    BY <2>4, <2>5 DEF StoreInv
<1>2. CASE Store!SnapshotState
  <2>1. /\ step = "state" /\ step' = "return" /\ UNCHANGED <<impl, cps, lines, open, arg, calls, acked>>
        /\ row' = [state |-> arg.state,
                   status |-> IF row.status = "cancelling" THEN "cancelling" ELSE "interrupted"]
    BY <1>2 DEF Store!SnapshotState
  <2>2. arg.kind = "snapshot" /\ arg.state = calls /\ arg.cp = calls /\ calls \in Nat
    BY <2>1 DEF StoreInv, ArgInv, StoreType
  <2>3. row' \in Rows /\ row'.state = calls
    BY <2>1, <2>2 DEF Rows
  <2>4. SqlInv'
    BY <2>1, <2>2, <2>3 DEF StoreInv, StoreType, SqlInv
  <2>5. StoreType' /\ ArgInv' /\ JsonlInv'
    BY <2>1 DEF StoreInv, StoreType, ArgInv, JsonlInv
  <2> QED
    BY <2>4, <2>5 DEF StoreInv
<1>3. CASE Store!Newline
  <2>1. /\ step = "newline" /\ step' = "return" /\ open' = FALSE
        /\ UNCHANGED <<impl, row, cps, lines, arg, calls, acked>>
    BY <1>3 DEF Store!Newline, Store!tables
  <2>2. StoreType' /\ ArgInv' /\ SqlInv'
    BY <2>1 DEF StoreInv, StoreType, ArgInv, SqlInv
  <2>3. Store!Torn' = Store!Torn /\ Store!SaveLines' = Store!SaveLines
    BY <2>1 DEF Store!Torn, Store!SaveLines
  <2>4. JsonlInv'
    BY <2>1, <2>3 DEF StoreInv, JsonlInv, FileShape, LatestAtLeast
  <2> QED
    BY <2>2, <2>4 DEF StoreInv
<1> QED
  BY <1>1, <1>2, <1>3

(* Ok is said of what is on the disk.                                      *)
LEMMA StoreReturn ==
  ASSUME StoreInv, Store!Return
  PROVE  StoreInv'
<1>1. /\ step = "return" /\ step' = "idle" /\ UNCHANGED <<impl, row, cps, lines, open, calls>>
  BY DEF Store!Return, Store!disk, Store!tables
<1>2. /\ arg.kind = "save" => arg.state = calls /\ arg.cp \in {0, calls}
      /\ arg.kind = "snapshot" => arg.state = calls /\ arg.cp = calls
      /\ calls \in Nat
  BY <1>1 DEF StoreInv, ArgInv, StoreType
<1>3. /\ DOMAIN acked' = {"saved", "state", "cp", "log"}
      /\ acked' = [x \in DOMAIN acked' |-> acked'[x]]
      /\ arg.kind = "save" =>
           acked'.saved = calls /\ acked'.state = calls
           /\ acked'.cp = IF arg.cp = 0 THEN acked.cp ELSE calls
      /\ arg.kind = "snapshot" =>
           acked'.saved = acked.saved /\ acked'.state = calls /\ acked'.cp = calls
      /\ arg.kind \notin {"save", "snapshot"} =>
           acked'.saved = acked.saved /\ acked'.state = acked.state /\ acked'.cp = acked.cp
  BY <1>2 DEF Store!Return, StoreInv, StoreType
<1>4. StoreType' /\ ArgInv'
  BY <1>1, <1>2, <1>3 DEF StoreInv, StoreType, ArgInv
<1>5. SqlInv'
  BY <1>1, <1>2, <1>3 DEF StoreInv, StoreType, SqlInv
<1>6. Store!Torn' = Store!Torn /\ Store!SaveLines' = Store!SaveLines
  BY <1>1 DEF Store!Torn, Store!SaveLines
<1>7. JsonlInv'
  BY <1>1, <1>2, <1>3, <1>6 DEF StoreInv, JsonlInv, FileShape, LatestAtLeast
<1> QED
  BY <1>4, <1>5, <1>7 DEF StoreInv

LEMMA StoreDelete ==
  ASSUME StoreInv, Store!SqliteDelete \/ Store!JsonlDelete \/ Store!DeleteRow
  PROVE  StoreInv'
<1>1. CASE Store!SqliteDelete
  <2>1. /\ StoreType' /\ impl' = impl /\ acked' = acked /\ step' = "deleteRow"
        /\ step = "idle" /\ calls' = calls + 1 /\ calls \in Nat
    BY <1>1, StoreStart DEF StoreInv, Store!SqliteDelete
  <2>2. cps' = {} /\ row' = row /\ impl = "sqlite"
    BY <1>1 DEF Store!SqliteDelete
  <2>3. ArgInv' /\ SqlInv' /\ JsonlInv'
    BY <2>1, <2>2 DEF StoreInv, ArgInv, SqlInv, JsonlInv
  <2> QED
    BY <2>1, <2>3 DEF StoreInv
<1>2. CASE Store!JsonlDelete
  <2>1. /\ impl = "jsonl" /\ impl' = "jsonl" /\ step = "idle" /\ step' = "idle" /\ calls' = calls + 1
        /\ lines' = <<>> /\ open' = FALSE /\ acked' = [saved |-> 0, state |-> 0, cp |-> 0, log |-> {}]
    BY <1>2 DEF Store!JsonlDelete
  <2>2. \A S : <<>> \in Seq(S)
    OBVIOUS
  <2>3. FileShape'
    BY <2>1, <2>2 DEF FileShape
  <2>4. StoreType' /\ ArgInv' /\ SqlInv' /\ JsonlInv'
    BY <2>1, <2>3 DEF StoreInv, StoreType, ArgInv, SqlInv, JsonlInv
  <2> QED
    BY <2>4 DEF StoreInv
<1>3. CASE Store!DeleteRow
  <2>1. /\ step = "deleteRow" /\ step' = "idle" /\ row' = NoData
        /\ acked' = [acked EXCEPT !.saved = 0, !.state = 0, !.cp = 0]
        /\ UNCHANGED <<impl, cps, lines, open, arg, calls>>
    BY <1>3 DEF Store!DeleteRow
  <2>2. /\ DOMAIN acked' = DOMAIN acked /\ acked' = [x \in DOMAIN acked' |-> acked'[x]]
        /\ acked'.saved = 0 /\ acked'.state = 0 /\ acked'.cp = 0
    BY <2>1 DEF StoreInv, StoreType
  <2>a. StoreType'
    BY <2>1, <2>2 DEF StoreInv, StoreType
  <2>3. ArgInv' /\ SqlInv' /\ JsonlInv'
    BY <2>1, <2>2 DEF StoreInv, ArgInv, SqlInv, JsonlInv
  <2> QED
    BY <2>a, <2>3 DEF StoreInv
<1> QED
  BY <1>1, <1>2, <1>3

(* The process dies: what it had written stays, nothing more is promised.  *)
LEMMA StoreCrash ==
  ASSUME StoreInv, Store!Crash
  PROVE  StoreInv'
<1>1. step' = "idle" /\ UNCHANGED <<impl, row, cps, lines, open, calls>>
  BY DEF Store!Crash, Store!disk, Store!tables
<1>2. /\ StoreType' /\ acked'.saved = acked.saved /\ acked'.state = acked.state
      /\ acked'.cp = IF step = "deleteRow" THEN 0 ELSE acked.cp
  BY <1>1 DEF Store!Crash, StoreInv, StoreType
<1>3. ArgInv' /\ SqlInv'
  BY <1>1, <1>2 DEF StoreInv, ArgInv, SqlInv
<1>4. Store!Torn' = Store!Torn /\ Store!SaveLines' = Store!SaveLines
  BY <1>1 DEF Store!Torn, Store!SaveLines
<1>5. JsonlInv'
  BY <1>1, <1>2, <1>4 DEF StoreInv, JsonlInv, FileShape, LatestAtLeast
<1> QED
  BY <1>2, <1>3, <1>5 DEF StoreInv

LEMMA StoreStep ==
  ASSUME StoreAssumption, StoreInv, [Store!Next]_(Store!vars)
  PROVE  StoreInv'
<1>1. ASSUME NEW c \in Cids, Store!RecordPeerMessageSent(c) \/ Store!RecordPeerReplyReceived(c)
      PROVE  StoreInv'
  <2>1. PICK e : e.kind \in {"outbound_sent", "inbound_reply"} /\ Store!RecordEvent(e)
    BY <1>1 DEF Store!RecordPeerMessageSent, Store!RecordPeerReplyReceived
  <2> QED
    BY <2>1, StoreRecord
<1>2. ASSUME NEW k \in Marks, Store!RecordMark(k)
      PROVE  StoreInv'
  <2>1. PICK e : e.kind = k /\ Store!RecordEvent(e)
    BY <1>2 DEF Store!RecordMark
  <2> QED
    BY <2>1, StoreRecord DEF StoreAssumption
<1>3. CASE UNCHANGED Store!vars
  <2>1. UNCHANGED <<impl, row, cps, lines, open, step, arg, calls, acked>>
    BY <1>3 DEF Store!vars, Store!disk, Store!tables
  <2>2. StoreType' /\ ArgInv'
    BY <2>1 DEF StoreInv, StoreType, ArgInv
  <2>3. SqlInv'
    BY <2>1 DEF StoreInv, SqlInv
  <2>4. Store!Torn' = Store!Torn /\ Store!SaveLines' = Store!SaveLines
    BY <2>1 DEF Store!Torn, Store!SaveLines
  <2>5. JsonlInv'
    BY <2>1, <2>4 DEF StoreInv, JsonlInv, FileShape, LatestAtLeast
  <2> QED
    BY <2>2, <2>3, <2>5 DEF StoreInv
<1> QED
  BY <1>1, <1>2, <1>3, StoreSave, StoreSnapshot, StoreSecond, StoreReturn, StoreDelete, StoreCrash
  DEF Store!Next

(* The latest of the numbers S, when there is one.                         *)
LEMMA MaxIsLatest ==
  ASSUME NEW S, NEW m \in S, S \subseteq Int, \A k \in S : k <= m
  PROVE  Store!Max(S) = m
<1>1. \E x \in S : \A y \in S : x >= y
  OBVIOUS
<1>2. Store!Max(S) \in S /\ \A y \in S : Store!Max(S) >= y
  BY <1>1 DEF Store!Max
<1>3. Store!Max(S) \in Int /\ m \in Int /\ Store!Max(S) >= m /\ Store!Max(S) <= m
  BY <1>2
<1> QED
  BY <1>3

LEMMA StoreLoads ==
  ASSUME StoreAssumption, StoreInv
  PROVE  Store!AckedStateLoads
<1>1. ASSUME impl = "sqlite", acked.state > 0, step # "deleteRow"
      PROVE  /\ Store!Listed /\ Store!Load # NoData
             /\ Store!Load.state >= acked.state /\ Store!Load.cp >= acked.cp
  <2>1. row \in Rows /\ row.state >= acked.state /\ row # NoData
    BY <1>1 DEF StoreInv, SqlInv, StoreAssumption, Rows
  <2> DEFINE cp == IF cps = {} THEN 0 ELSE Store!Max(cps)
  <2>2. cp \in Nat /\ cp >= acked.cp
    <3>1. CASE cps = {}
      BY <1>1, <3>1 DEF StoreInv, SqlInv, StoreType
    <3>2. CASE cps # {}
      <4>1. PICK m \in cps : \A k \in cps : k <= m
        BY <1>1, <3>2 DEF StoreInv, SqlInv
      <4>2. cps \subseteq Nat /\ cps \subseteq Int
        BY <1>1 DEF StoreInv, SqlInv, StoreType
      <4>3. cp = m
        BY <3>2, <4>1, <4>2, MaxIsLatest
      <4> QED
        BY <1>1, <4>1, <4>2, <4>3 DEF StoreInv, SqlInv, StoreType
    <3> QED
      BY <3>1, <3>2
  <2>3. Store!Load = [state |-> row.state, status |-> row.status, cp |-> cp]
    BY <1>1, <2>1 DEF Store!Load, Store!SqliteLoad
  <2> HIDE DEF cp
  <2>4. Store!Load # NoData
    BY <2>1, <2>2, <2>3 DEF StoreAssumption, Rows
  <2>5. Store!Listed
    BY <1>1, <2>1 DEF Store!Listed, Store!SqliteListed
  <2> QED
    BY <2>1, <2>2, <2>3, <2>4, <2>5
<1>2. ASSUME impl = "jsonl", acked.saved > 0, ~Store!Torn
      PROVE  Store!Listed /\ Store!Load # NoData /\ Store!Load.state >= acked.saved
  <2>1. PICK m \in Store!SaveLines : /\ \A k \in Store!SaveLines : k <= m
                                     /\ lines[m][1] \in SaveRecords
                                     /\ lines[m][1].state >= acked.saved
    BY <1>2 DEF StoreInv, JsonlInv, LatestAtLeast
  <2>2. Store!SaveLines \subseteq Int
    <3>1. PICK R : lines \in Seq(Seq(R) \ {<<>>})
      BY <1>2 DEF StoreInv, JsonlInv, FileShape
    <3> QED
      BY <3>1 DEF Store!SaveLines
  <2>3. Store!Max(Store!SaveLines) = m
    BY <2>1, <2>2, MaxIsLatest
  <2>4. Store!JsonlLoad = [state |-> lines[m][1].state, status |-> lines[m][1].status, cp |-> lines[m][1].cp]
    BY <1>2, <2>1, <2>3 DEF Store!JsonlLoad
  <2>5. Store!JsonlLoad # NoData
    BY <2>1, <2>4 DEF StoreAssumption, SaveRecords
  <2> QED
    BY <1>2, <2>1, <2>4, <2>5 DEF Store!Load, Store!Listed, Store!JsonlListed
<1> QED
  BY <1>1, <1>2 DEF Store!AckedStateLoads

(* Between any two statements or writes the process may die; list() still  *)
(* shows the session and load() gives at least what save() and snapshot()  *)
(* (sqlite) or save() (jsonl, no two records on a line) said Ok to, for    *)
(* any number of calls, ids and events.                                    *)
THEOREM AckedStateIsLoaded ==
  ASSUME StoreAssumption
  PROVE  Store!Spec => []AckedStateLoads
<1>1. Store!Init => StoreInv
  BY StoreInit
<1>2. StoreInv /\ [Store!Next]_(Store!vars) => StoreInv'
  BY StoreStep
<1>3. StoreInv => AckedStateLoads
  BY StoreLoads DEF AckedStateLoads
<1> QED
  BY <1>1, <1>2, <1>3, PTL DEF Store!Spec

(* The stores are the two there are, and an event kind without correlation *)
(* id is neither a send nor a reply.                                       *)
OutboxAssumption ==
  /\ Stores \subseteq {"sqlite", "jsonl"}
  /\ \A k \in Marks : k # "outbound_sent" /\ k # "inbound_reply"

(* The places p of the log hold the issued events, in their order, and     *)
(* nothing else.                                                           *)
Mirrors(log, p) ==
  /\ p \in [1 .. Len(issued) -> Nat]
  /\ \A i, j \in 1 .. Len(issued) : i < j => p[i] < p[j]
  /\ DOMAIN log \subseteq {p[i] : i \in 1 .. Len(issued)}
  /\ \A i \in 1 .. Len(issued) : p[i] \in DOMAIN log /\ log[p[i]] = issued[i]

IssuedShape ==
  /\ \E E : issued \in Seq(E)
  /\ \A i \in 1 .. Len(issued) : issued[i].kind = "outbound_sent" => issued[i].attempt \in 1 .. i

(* The log of either store is what was issued, unless two records share a  *)
(* line, and what was acknowledged was issued.                             *)
LogInv ==
  /\ impl \in Stores
  /\ IssuedShape
  /\ acked.log \subseteq 1 .. Len(issued)
  /\ step \in {"newline", "return"} /\ arg.kind \notin {"save", "snapshot"} => Len(issued) > 0
  /\ step \in {"checkpoint", "state"} => arg.kind \in {"save", "snapshot"}
  /\ impl = "sqlite" => events = issued /\ lines = <<>>
  /\ impl = "jsonl" /\ ~Store!Torn => \E p : Mirrors(Store!JsonlLog, p)

(* Finite sets of numbers can be put in order.                             *)
LEMMA OrderExists ==
  ASSUME NEW S \in SUBSET Nat, IsFiniteSet(S)
  PROVE  \E q \in [1 .. Cardinality(S) -> S] :
           /\ \A s \in S : \E i \in 1 .. Cardinality(S) : q[i] = s
           /\ \A i, j \in 1 .. Cardinality(S) : i < j => q[i] < q[j]
<1> DEFINE Order(U, n, q) ==
      /\ q \in [1 .. n -> U]
      /\ \A s \in U : \E i \in 1 .. n : q[i] = s
      /\ \A i, j \in 1 .. n : i < j => q[i] < q[j]
    T == {n \in Nat : \A U \in SUBSET Nat : IsFiniteSet(U) /\ Cardinality(U) = n => \E q : Order(U, n, q)}
<1>1. 0 \in T
  <2> SUFFICES ASSUME NEW U \in SUBSET Nat, IsFiniteSet(U), Cardinality(U) = 0
               PROVE  \E q : Order(U, 0, q)
    OBVIOUS
  <2>1. U = {}
    BY FS_EmptySet
  <2>2. Order(U, 0, [i \in 1 .. 0 |-> 0])
    BY <2>1
  <2> QED
    BY <2>2
<1>2. ASSUME NEW n \in Nat, n \in T PROVE n + 1 \in T
  <2> SUFFICES ASSUME NEW U \in SUBSET Nat, IsFiniteSet(U), Cardinality(U) = n + 1
               PROVE  \E q : Order(U, n + 1, q)
    OBVIOUS
  <2>1. U # {}
    BY FS_EmptySet
  <2>2. PICK m \in U : \A k \in U : m <= k
    BY <2>1, Least
  <2>3. IsFiniteSet(U \ {m}) /\ Cardinality(U \ {m}) = n
    <3>1. IsFiniteSet(U \ {m}) /\ Cardinality(U \ {m}) = Cardinality(U) - 1
      BY <2>2, FS_RemoveElement
    <3> QED
      BY <3>1
  <2>4. U \ {m} \in SUBSET Nat
    OBVIOUS
  <2>5. PICK q : Order(U \ {m}, n, q)
    BY <1>2, <2>3, <2>4
  <2> DEFINE r == [i \in 1 .. n + 1 |-> IF i = 1 THEN m ELSE q[i - 1]]
  <2>6. r \in [1 .. n + 1 -> U]
    BY <2>2, <2>5
  <2>7. \A s \in U : \E i \in 1 .. n + 1 : r[i] = s
    <3> SUFFICES ASSUME NEW s \in U PROVE \E i \in 1 .. n + 1 : r[i] = s
      OBVIOUS
    <3>1. CASE s = m
      <4>1. 1 \in 1 .. n + 1 /\ r[1] = m
        OBVIOUS
      <4> QED
        BY <3>1, <4>1
    <3>2. CASE s # m
      <4>1. PICK i \in 1 .. n : q[i] = s
        BY <2>5, <3>2
      <4>2. i + 1 \in 1 .. n + 1 /\ r[i + 1] = s
        BY <4>1
      <4> QED
        BY <4>2
    <3> QED
      BY <3>1, <3>2
  <2>8. \A i, j \in 1 .. n + 1 : i < j => r[i] < r[j]
    <3> SUFFICES ASSUME NEW i \in 1 .. n + 1, NEW j \in 1 .. n + 1, i < j PROVE r[i] < r[j]
      OBVIOUS
    <3>1. j - 1 \in 1 .. n /\ r[j] = q[j - 1]
      OBVIOUS
    <3>2. q[j - 1] \in U \ {m}
      BY <2>5, <3>1
    <3>3. CASE i = 1
      <4>1. r[i] = m
        BY <3>3
      <4>2. m \in Nat /\ q[j - 1] \in Nat /\ m # q[j - 1] /\ m <= q[j - 1]
        BY <2>2, <3>2
      <4> HIDE DEF r
      <4> QED
        BY <3>1, <4>1, <4>2
    <3>4. CASE i # 1
      <4>1. i - 1 \in 1 .. n /\ i - 1 < j - 1 /\ r[i] = q[i - 1]
        BY <3>4
      <4> QED
        BY <2>5, <3>1, <4>1
    <3> QED
      BY <3>3, <3>4
  <2>9. Order(U, n + 1, r)
    BY <2>6, <2>7, <2>8
  <2> QED
    BY <2>9
<1>3. Cardinality(S) \in Nat
  BY FS_CardinalityType
<1>4. Nat \subseteq T
  <2> HIDE DEF T
  <2> QED
    BY <1>1, <1>2, CountUp
<1>5. \E q : Order(S, Cardinality(S), q)
  BY <1>3, <1>4
<1> QED
  BY <1>5

LEMMA OrderedIs ==
  ASSUME NEW S \in SUBSET Nat, IsFiniteSet(S)
  PROVE  LET q == Store!Ordered(S) IN
         /\ DOMAIN q \subseteq Nat
         /\ \A i \in DOMAIN q : q[i] \in S
         /\ \A s \in S : \E i \in DOMAIN q : q[i] = s
         /\ \A i, j \in DOMAIN q : i < j => q[i] < q[j]
<1>1. Store!Cardinality(S) = Cardinality(S)
  BY Zenon DEF Store!Cardinality, Cardinality
<1>2. PICK n : n = Cardinality(S) /\ n \in Nat
  BY FS_CardinalityType
<1>3. PICK q \in [1 .. n -> S] : /\ \A s \in S : \E i \in 1 .. n : q[i] = s
                                 /\ \A i, j \in 1 .. n : i < j => q[i] < q[j]
  BY <1>2, OrderExists
<1>4. Store!Range(q) = S
  BY <1>3 DEF Store!Range
<1> DEFINE P(f) == Store!Range(f) = S /\ \A i, j \in DOMAIN f : i < j => f[i] < f[j]
<1>5. P(q)
  BY <1>3, <1>4
<1>6. Store!Ordered(S) = CHOOSE f \in [1 .. n -> S] : P(f)
  BY <1>1, <1>2 DEF Store!Ordered
<1> HIDE DEF P
<1>7. Store!Ordered(S) \in [1 .. n -> S] /\ P(Store!Ordered(S))
  BY <1>3, <1>5, <1>6, Zenon
<1>8. PICK f \in [1 .. n -> S] : f = Store!Ordered(S) /\ P(f)
  BY <1>7
<1>9. /\ DOMAIN f = 1 .. n /\ DOMAIN f \subseteq Nat
      /\ \A i \in DOMAIN f : f[i] \in S
      /\ \A s \in S : \E i \in DOMAIN f : f[i] = s
      /\ \A i, j \in DOMAIN f : i < j => f[i] < f[j]
  BY <1>2, <1>8 DEF P, Store!Range
<1> QED
  BY <1>8, <1>9

(* A bounded set of numbers has a greatest one.                            *)
LEMMA GreatestOf ==
  ASSUME NEW A \in SUBSET Nat, NEW a \in A, NEW n \in Nat, \A k \in A : k <= n
  PROVE  Store!Max(A) \in A /\ \A k \in A : k <= Store!Max(A)
<1> DEFINE B == {b \in Nat : \A k \in A : k <= b}
<1>1. PICK b \in B : \A c \in B : b <= c
  <2>1. n \in B
    OBVIOUS
  <2> QED
    BY <2>1, Least
<1>2. b \in A
  <2> SUFFICES ASSUME b \notin A PROVE FALSE
    OBVIOUS
  <2>1. \A k \in A : k \in Nat /\ k <= b /\ k # b
    BY <1>1
  <2>2. b - 1 \in Nat /\ \A k \in A : k <= b - 1
    BY <1>1, <2>1
  <2>3. b - 1 \in B
    BY <2>2
  <2> QED
    BY <1>1, <2>3
<1>3. A \subseteq Int
  OBVIOUS
<1>4. Store!Max(A) = b
  BY <1>1, <1>2, <1>3, MaxIsLatest
<1> QED
  BY <1>1, <1>2, <1>4

(* The least of numbers, when it is known.                                 *)
LEMMA MinIsFirst ==
  ASSUME NEW S, NEW m \in S, S \subseteq Int, \A k \in S : m <= k
  PROVE  Store!Min(S) = m
<1>1. Store!Min(S) \in S /\ \A y \in S : Store!Min(S) <= y
  <2>1. \E x \in S : \A y \in S : x =< y
    OBVIOUS
  <2> QED
    BY <2>1 DEF Store!Min
<1>2. Store!Min(S) \in Int /\ m \in Int /\ Store!Min(S) <= m /\ m <= Store!Min(S)
  BY <1>1
<1> QED
  BY <1>2

(* A log that has what was issued: pending_outbound() is exact.            *)
LEMMA MirrorReplays ==
  ASSUME IssuedShape, acked.log \subseteq 1 .. Len(issued), NEW log, NEW p, Mirrors(log, p),
         Store!PendingOutbound = Store!PendingOf(log)
  PROVE  Store!OutboxReplays
<1>0. PICK n : n = Len(issued) /\ n \in Nat /\ DOMAIN issued = 1 .. n
  BY DEF IssuedShape
<1>1. /\ p \in [1 .. n -> Nat]
      /\ \A i, j \in 1 .. n : i < j => p[i] < p[j]
      /\ DOMAIN log = {p[i] : i \in 1 .. n}
      /\ \A i \in 1 .. n : p[i] \in DOMAIN log /\ log[p[i]] = issued[i]
  BY <1>0 DEF Mirrors
<1>2. DOMAIN log \in SUBSET Nat /\ IsFiniteSet(DOMAIN log)
  <2>1. p \in Surjection(1 .. n, DOMAIN log)
    BY <1>1 DEF Surjection
  <2>2. IsFiniteSet(1 .. n)
    BY <1>0, FS_Interval
  <2> QED
    BY <1>1, <2>1, <2>2, FS_Surjection
<1>3. \A x \in DOMAIN log : \E i \in 1 .. n : p[i] = x /\ log[x] = issued[i]
  BY <1>1
<1>4. \A i \in 1 .. n : i \in Int /\ p[i] \in Int
  <2>1. p \in [1 .. n -> Nat]
    BY <1>1
  <2> QED
    BY <2>1
<1>5. \A i, j \in 1 .. n : (p[i] <= p[j] => i <= j) /\ (p[i] < p[j] => i < j)
  <2> SUFFICES ASSUME NEW i \in 1 .. n, NEW j \in 1 .. n
               PROVE  (p[i] <= p[j] => i <= j) /\ (p[i] < p[j] => i < j)
    OBVIOUS
  <2>1. j < i => p[j] < p[i]
    BY <1>1
  <2>2. i \in Int /\ j \in Int /\ p[i] \in Int /\ p[j] \in Int
    BY <1>4
  <2>3. i < j \/ i = j \/ j < i
    BY <2>2
  <2> QED
    BY <2>1, <2>2, <2>3
<1> DEFINE S == {i \in Store!FirstSeen(log) : log[i].cid \notin Store!Replied(log)}
<1>6. PICK places : places = S /\ places \in SUBSET Nat /\ IsFiniteSet(places) /\ places \subseteq DOMAIN log
  <2>1. S \in SUBSET DOMAIN log
    BY DEF Store!FirstSeen
  <2> QED
    BY <1>2, <2>1, FS_Subset
<1>7. PICK q : /\ q = Store!Ordered(places) /\ DOMAIN q \subseteq Nat
               /\ \A i \in DOMAIN q : q[i] \in places
               /\ \A s \in places : \E i \in DOMAIN q : q[i] = s
               /\ \A i, j \in DOMAIN q : i < j => q[i] < q[j]
  BY <1>6, OrderedIs
<1>8. PICK pending : /\ pending = Store!PendingOutbound
                     /\ DOMAIN pending = DOMAIN q
                     /\ \A k \in DOMAIN q : /\ pending[k].cid = log[q[k]].cid
                                            /\ pending[k].attempt = Store!Max(Store!Attempts(log, log[q[k]].cid))
  <2>1. Store!PendingOutbound = Store!PendingAt(log, places)
    BY <1>6 DEF Store!PendingOf
  <2>2. Store!PendingAt(log, places) =
          [k \in DOMAIN q |-> [cid |-> log[q[k]].cid,
                               attempt |-> Store!Max(Store!Attempts(log, log[q[k]].cid))]]
    BY <1>7, Zenon DEF Store!PendingAt
  <2> QED
    BY <2>1, <2>2
<1>9. \A x \in DOMAIN log :
        x \in places <=> /\ log[x].kind = "outbound_sent"
                         /\ \A y \in Store!Sends(log, log[x].cid) : x <= y
                         /\ log[x].cid \notin Store!Replied(log)
  BY <1>6, Zenon DEF Store!FirstSeen
<1>10. Store!AckedSendsPending
  <2> SUFFICES ASSUME NEW i \in acked.log, issued[i].kind = "outbound_sent",
                      ~Store!AnswerIssued(issued[i].cid)
               PROVE  \E j \in DOMAIN pending : /\ pending[j].cid = issued[i].cid
                                                /\ pending[j].attempt >= issued[i].attempt
    BY <1>8 DEF Store!AckedSendsPending
  <2>1. PICK c : c = issued[i].cid
    OBVIOUS
  <2>2. i \in 1 .. n /\ p[i] \in Store!Sends(log, c) /\ Store!Sends(log, c) \in SUBSET Nat
    BY <1>0, <1>1, <1>2, <2>1 DEF Store!Sends
  <2>3. PICK m \in Store!Sends(log, c) : \A k \in Store!Sends(log, c) : m <= k
    BY <2>2, Least
  <2>4. c \notin Store!Replied(log)
    BY <1>0, <1>3, <2>1 DEF Store!Replied, Store!AnswerIssued
  <2>5. m \in DOMAIN log /\ log[m].kind = "outbound_sent" /\ log[m].cid = c
    BY <2>3 DEF Store!Sends
  <2>6. m \in places
    BY <1>9, <2>3, <2>4, <2>5
  <2>7. PICK j \in DOMAIN q : q[j] = m
    BY <1>7, <2>6
  <2>8. Store!Max(Store!Attempts(log, c)) >= issued[i].attempt
    <3>1. PICK A : A = Store!Attempts(log, c)
      OBVIOUS
    <3>2. issued[i].attempt \in A
      BY <1>1, <2>2, <3>1 DEF Store!Attempts
    <3>3. \A a \in A : a \in Nat /\ a <= n
      <4> SUFFICES ASSUME NEW x \in Store!Sends(log, c)
                   PROVE  log[x].attempt \in Nat /\ log[x].attempt <= n
        BY <3>1 DEF Store!Attempts
      <4>1. PICK k \in 1 .. n : log[x] = issued[k] /\ issued[k].kind = "outbound_sent"
        BY <1>3 DEF Store!Sends
      <4>2. issued[k].attempt \in 1 .. k
        BY <1>0, <4>1 DEF IssuedShape
      <4> QED
        BY <1>0, <4>1, <4>2
    <3>4. A \in SUBSET Nat
      BY <3>3
    <3>5. Store!Max(A) \in A /\ issued[i].attempt <= Store!Max(A)
      BY <1>0, <3>2, <3>3, <3>4, GreatestOf
    <3> QED
      BY <3>1, <3>2, <3>3, <3>5
  <2> QED
    BY <1>8, <2>1, <2>5, <2>7, <2>8
<1>11. ASSUME NEW j \in DOMAIN pending, Store!AnswerAcked(pending[j].cid)
       PROVE  FALSE
  <2>1. PICK i \in acked.log : issued[i].kind = "inbound_reply" /\ issued[i].cid = log[q[j]].cid
    BY <1>8, <1>11 DEF Store!AnswerAcked
  <2>2. i \in 1 .. n
    BY <1>0
  <2>3. log[q[j]].cid \in Store!Replied(log)
    BY <1>1, <2>1, <2>2 DEF Store!Replied
  <2>4. q[j] \in places /\ q[j] \in DOMAIN log
    BY <1>6, <1>7, <1>8
  <2> QED
    BY <1>9, <2>3, <2>4, Zenon
<1>12. ASSUME NEW k \in DOMAIN q
       PROVE  \E i \in 1 .. n : p[i] = q[k] /\ Store!FirstIssue(pending[k].cid) = i
  <2>1. PICK i \in 1 .. n : p[i] = q[k] /\ log[q[k]] = issued[i]
    BY <1>3, <1>6, <1>7
  <2>2. q[k] \in DOMAIN log /\ q[k] \in places
    BY <1>6, <1>7
  <2>3. PICK c : c = issued[i].cid /\ c = pending[k].cid
    BY <1>8, <2>1
  <2>4. PICK F : F = {x \in DOMAIN issued : issued[x].kind = "outbound_sent" /\ issued[x].cid = c}
    OBVIOUS
  <2>5. issued[i].kind = "outbound_sent" /\ \A y \in Store!Sends(log, c) : q[k] <= y
    BY <1>9, <2>1, <2>2, <2>3
  <2>6. i \in F /\ F \subseteq Int
    <3>1. i \in F
      BY <1>0, <2>3, <2>4, <2>5
    <3>2. \A x \in F : x \in 1 .. n
      BY <1>0, <2>4
    <3> QED
      BY <3>1, <3>2
  <2>7. \A x \in F : i <= x
    <3> SUFFICES ASSUME NEW x \in F PROVE i <= x
      OBVIOUS
    <3>1. x \in 1 .. n /\ issued[x].kind = "outbound_sent" /\ issued[x].cid = c
      BY <1>0, <2>4
    <3>2. p[x] \in Store!Sends(log, c)
      BY <1>1, <3>1 DEF Store!Sends
    <3> QED
      BY <1>5, <2>1, <2>5, <3>1, <3>2
  <2>8. Store!Min(F) = i
    BY <2>6, <2>7, MinIsFirst
  <2> QED
    BY <2>1, <2>3, <2>4, <2>8 DEF Store!FirstIssue
<1>13. ASSUME NEW j \in DOMAIN pending, NEW k \in DOMAIN pending, j < k
       PROVE  Store!FirstIssue(pending[j].cid) < Store!FirstIssue(pending[k].cid)
  <2>1. PICK a \in 1 .. n : p[a] = q[j] /\ Store!FirstIssue(pending[j].cid) = a
    BY <1>8, <1>12
  <2>2. PICK b \in 1 .. n : p[b] = q[k] /\ Store!FirstIssue(pending[k].cid) = b
    BY <1>8, <1>12
  <2>3. p[a] < p[b]
    BY <1>7, <1>8, <1>13, <2>1, <2>2
  <2>4. a < b
    BY <1>5, <2>3
  <2> QED
    BY <2>1, <2>2, <2>4
<1> QED
  BY <1>8, <1>10, <1>11, <1>13 DEF Store!OutboxReplays

(* A save or snapshot line is no event ...                                 *)
LEMMA LogAppendOther ==
  ASSUME FileShape, NEW r, r.kind \in {"save", "snapshot"}, Store!AppendLine(r), ~Store!Torn'
  PROVE  Store!JsonlLog' = Store!JsonlLog
<1>1. /\ Len(lines) \in Nat /\ DOMAIN lines = 1 .. Len(lines) /\ DOMAIN lines' = 1 .. Len(lines) + 1
      /\ \A i \in 1 .. Len(lines) : lines'[i] = lines[i]
      /\ lines'[Len(lines) + 1] = <<r>>
  BY AppendShape
<1>2. lines'[Len(lines) + 1][1] = r
  BY <1>1
<1>3. Store!EventLines' = Store!EventLines
  BY <1>1, <1>2 DEF Store!EventLines
<1>4. \A i \in Store!EventLines : lines'[i][1] = lines[i][1]
  BY <1>1 DEF Store!EventLines
<1> QED
  BY <1>3, <1>4 DEF Store!JsonlLog

(* ... and the line of an event is the last of the log.                    *)
LEMMA LogAppendEvent ==
  ASSUME FileShape, IssuedShape, NEW r, r.kind \notin {"save", "snapshot"}, Store!AppendLine(r),
         ~Store!Torn', issued' = Append(issued, r), NEW p, Mirrors(Store!JsonlLog, p)
  PROVE  (\E q : Mirrors(Store!JsonlLog, q))'
<1>1. PICK m \in Nat : /\ m = Len(lines) /\ DOMAIN lines = 1 .. m /\ DOMAIN lines' = 1 .. m + 1
                       /\ \A i \in 1 .. m : lines'[i] = lines[i]
                       /\ lines'[m + 1] = <<r>>
  BY AppendShape
<1>2. lines'[m + 1][1] = r /\ Len(lines'[m + 1]) = 1
  BY <1>1
<1>3. Store!EventLines' = Store!EventLines \cup {m + 1} /\ Store!EventLines \subseteq 1 .. m
  <2>1. Store!EventLines \subseteq 1 .. m /\ Store!EventLines' \subseteq 1 .. m + 1
    BY <1>1 DEF Store!EventLines
  <2>2. m + 1 \in Store!EventLines'
    <3>1. m + 1 \in DOMAIN lines'
      BY <1>1
    <3> QED
      BY <1>2, <3>1 DEF Store!EventLines
  <2>3. \A i \in 1 .. m : i \in Store!EventLines' <=> i \in Store!EventLines
    BY <1>1 DEF Store!EventLines
  <2>4. \A i \in 1 .. m + 1 : i \in 1 .. m \/ i = m + 1
    OBVIOUS
  <2> QED
    BY <2>1, <2>2, <2>3, <2>4, Zenon
<1>4. PICK a, b : a = Store!JsonlLog /\ b = Store!JsonlLog'
  OBVIOUS
<1>5. /\ DOMAIN a = Store!EventLines /\ DOMAIN b = DOMAIN a \cup {m + 1} /\ DOMAIN a \subseteq 1 .. m
      /\ b[m + 1] = r /\ \A i \in DOMAIN a : b[i] = a[i]
  <2>1. DOMAIN a = Store!EventLines /\ DOMAIN b = Store!EventLines'
    BY <1>4 DEF Store!JsonlLog
  <2>2. \A i \in Store!EventLines : a[i] = lines[i][1]
    BY <1>4 DEF Store!JsonlLog
  <2>3. \A i \in Store!EventLines' : b[i] = lines'[i][1]
    BY <1>4 DEF Store!JsonlLog
  <2>4. \A i \in Store!EventLines : lines'[i] = lines[i]
    BY <1>1, <1>3
  <2> QED
    BY <1>2, <1>3, <2>1, <2>2, <2>3, <2>4
<1>6. PICK n \in Nat : /\ n = Len(issued) /\ Len(issued') = n + 1 /\ issued'[n + 1] = r
                       /\ \A i \in 1 .. n : issued'[i] = issued[i]
  <2>1. PICK E : issued \in Seq(E)
    BY DEF IssuedShape
  <2>2. issued \in Seq(E \cup {r})
    BY <2>1
  <2> QED
    BY <2>2
<1>7. /\ p \in [1 .. n -> Nat]
      /\ \A i, j \in 1 .. n : i < j => p[i] < p[j]
      /\ DOMAIN a \subseteq {p[i] : i \in 1 .. n}
      /\ \A i \in 1 .. n : p[i] \in DOMAIN a /\ a[p[i]] = issued[i]
  BY <1>4, <1>6 DEF Mirrors
<1>8. PICK q : q = [i \in 1 .. n + 1 |-> IF i = n + 1 THEN m + 1 ELSE p[i]]
  OBVIOUS
<1>9. q \in [1 .. n + 1 -> Nat] /\ q[n + 1] = m + 1 /\ \A i \in 1 .. n : q[i] = p[i]
  BY <1>7, <1>8
<1>10. \A i, j \in 1 .. n + 1 : i < j => q[i] < q[j]
  <2> SUFFICES ASSUME NEW i \in 1 .. n + 1, NEW j \in 1 .. n + 1, i < j PROVE q[i] < q[j]
    OBVIOUS
  <2>1. i \in 1 .. n /\ q[i] = p[i] /\ p[i] \in 1 .. m
    BY <1>5, <1>7, <1>9
  <2>2. CASE j = n + 1
    BY <1>9, <2>1, <2>2
  <2>3. CASE j # n + 1
    BY <1>7, <1>9, <2>1, <2>3
  <2> QED
    BY <2>2, <2>3
<1>11. DOMAIN b \subseteq {q[i] : i \in 1 .. n + 1}
  <2> SUFFICES ASSUME NEW x \in DOMAIN b PROVE \E i \in 1 .. n + 1 : q[i] = x
    OBVIOUS
  <2>1. CASE x = m + 1
    BY <1>9, <2>1
  <2>2. CASE x \in DOMAIN a
    <3>1. PICK i \in 1 .. n : p[i] = x
      BY <1>7, <2>2
    <3> QED
      BY <1>9, <3>1
  <2> QED
    BY <1>5, <2>1, <2>2
<1>12. \A i \in 1 .. n + 1 : q[i] \in DOMAIN b /\ b[q[i]] = issued'[i]
  <2> SUFFICES ASSUME NEW i \in 1 .. n + 1 PROVE q[i] \in DOMAIN b /\ b[q[i]] = issued'[i]
    OBVIOUS
  <2>1. CASE i = n + 1
    BY <1>5, <1>6, <1>9, <2>1
  <2>2. CASE i \in 1 .. n
    BY <1>5, <1>6, <1>7, <1>9, <2>2
  <2>3. i = n + 1 \/ i \in 1 .. n
    OBVIOUS
  <2> QED
    BY <2>1, <2>2, <2>3
<1>13. Mirrors(b, q)'
  BY <1>6, <1>9, <1>10, <1>11, <1>12 DEF Mirrors
<1>14. Mirrors(Store!JsonlLog, q)'
  BY <1>4, <1>13 DEF Mirrors
<1> QED
  BY <1>14

LEMMA LogInit ==
  ASSUME Store!Init
  PROVE  LogInv
<1>1. issued = <<>> /\ events = <<>> /\ lines = <<>> /\ acked.log = {} /\ step = "idle" /\ impl \in Stores
  BY DEF Store!Init
<1>2. IssuedShape
  BY <1>1 DEF IssuedShape
<1>3. \E p : Mirrors(Store!JsonlLog, p)
  <2>1. DOMAIN Store!JsonlLog = {}
    BY <1>1 DEF Store!JsonlLog, Store!EventLines
  <2>2. Mirrors(Store!JsonlLog, [i \in 1 .. 0 |-> 0])
    BY <1>1, <2>1 DEF Mirrors
  <2> QED
    BY <2>2
<1> QED
  BY <1>1, <1>2, <1>3 DEF LogInv

(* Steps that leave the logs alone.                                        *)
LEMMA LogQuiet ==
  ASSUME LogInv, UNCHANGED <<impl, events, lines, issued>>,
         acked'.log \subseteq 1 .. Len(issued),
         step' \in {"newline", "return"} /\ arg'.kind \notin {"save", "snapshot"} => Len(issued) > 0,
         step' \in {"checkpoint", "state"} => arg'.kind \in {"save", "snapshot"}
  PROVE  LogInv'
<1>1. IssuedShape'
  BY DEF LogInv, IssuedShape
<1>2. Store!Torn' = Store!Torn /\ Store!JsonlLog' = Store!JsonlLog
  BY DEF Store!Torn, Store!JsonlLog, Store!EventLines
<1>3. (impl = "jsonl" /\ ~Store!Torn => \E p : Mirrors(Store!JsonlLog, p))'
  BY <1>2 DEF LogInv, Mirrors
<1> QED
  BY <1>1, <1>3 DEF LogInv

(* A save or a snapshot.                                                   *)
LEMMA LogSave ==
  ASSUME StoreInv, LogInv, NEW d, d.kind \in {"save", "snapshot"}, UNCHANGED issued,
         \/ Store!SqliteSave(d) \/ Store!SqliteSnapshot(d)
         \/ Store!JsonlSave(d) \/ Store!JsonlSnapshot(d)
  PROVE  LogInv'
<1>1. CASE Store!SqliteSave(d) \/ Store!SqliteSnapshot(d)
  <2>1. /\ UNCHANGED <<impl, events, lines, issued, acked>> /\ arg' = d
        /\ step' \in {"checkpoint", "state"}
    BY <1>1 DEF Store!SqliteSave, Store!SqliteSnapshot, Store!Start, Store!SaveRow
  <2> QED
    BY <2>1, LogQuiet DEF LogInv
<1>2. CASE Store!JsonlSave(d) \/ Store!JsonlSnapshot(d)
  <2>1. /\ impl = "jsonl" /\ UNCHANGED <<impl, issued, acked>> /\ arg' = d /\ step' = "newline"
        /\ Store!AppendLine(d) /\ FileShape
    BY <1>2 DEF Store!JsonlSave, Store!JsonlSnapshot, Store!Start, StoreInv, JsonlInv
  <2>2. ~Store!Torn' => ~Store!Torn /\ Store!JsonlLog' = Store!JsonlLog
    BY <2>1, AppendShape, LogAppendOther
  <2>3. (impl = "jsonl" /\ ~Store!Torn => \E p : Mirrors(Store!JsonlLog, p))'
    <3> SUFFICES ASSUME ~Store!Torn' PROVE (\E p : Mirrors(Store!JsonlLog, p))'
      OBVIOUS
    <3>1. PICK p : Mirrors(Store!JsonlLog, p)
      BY <2>1, <2>2 DEF LogInv
    <3>2. Mirrors(Store!JsonlLog, p)'
      BY <2>1, <2>2, <3>1 DEF Mirrors
    <3> QED
      BY <3>2
  <2>4. IssuedShape'
    BY <2>1 DEF LogInv, IssuedShape
  <2> QED
    BY <2>1, <2>3, <2>4 DEF LogInv
<1> QED
  BY <1>1, <1>2

(* An event.                                                               *)
LEMMA LogRecord ==
  ASSUME StoreInv, LogInv, NEW e, e.kind \notin {"save", "snapshot"},
         e.kind = "outbound_sent" => e.attempt \in 1 .. Len(issued) + 1, Store!RecordEvent(e)
  PROVE  LogInv'
<1>1. PICK n \in Nat : /\ n = Len(issued) /\ Len(issued') = n + 1 /\ issued'[n + 1] = e
                       /\ \A i \in 1 .. n : issued'[i] = issued[i]
                       /\ \E E : issued' \in Seq(E)
  <2>1. PICK E : issued \in Seq(E)
    BY DEF LogInv, IssuedShape
  <2>2. issued \in Seq(E \cup {e}) /\ issued' = Append(issued, e)
    BY <2>1 DEF Store!RecordEvent
  <2>3. issued' \in Seq(E \cup {e})
    BY <2>2
  <2>4. Len(issued) \in Nat
    BY <2>1
  <2> QED
    BY <2>2, <2>3, <2>4
<1>2. IssuedShape'
  <2>1. ASSUME NEW i \in 1 .. n + 1, issued'[i].kind = "outbound_sent"
        PROVE  issued'[i].attempt \in 1 .. i
    <3>1. CASE i = n + 1
      BY <1>1, <2>1, <3>1
    <3>2. CASE i \in 1 .. n
      BY <1>1, <2>1, <3>2 DEF LogInv, IssuedShape
    <3> QED
      BY <3>1, <3>2
  <2> QED
    BY <1>1, <2>1 DEF IssuedShape
<1>3. /\ impl' = impl /\ acked' = acked /\ arg' = e /\ step' \in {"newline", "return"}
      /\ issued' = Append(issued, e)
  BY DEF Store!RecordEvent, Store!SqliteRecord, Store!JsonlRecord, Store!Start
<1>4. acked'.log \subseteq 1 .. Len(issued')
  BY <1>1, <1>3 DEF LogInv
<1>5. impl = "sqlite" => events' = issued' /\ lines' = <<>>
  BY <1>3 DEF LogInv, Store!RecordEvent, Store!SqliteRecord, Store!JsonlRecord
<1>6. (impl = "jsonl" /\ ~Store!Torn => \E p : Mirrors(Store!JsonlLog, p))'
  <2> SUFFICES ASSUME impl = "jsonl", ~Store!Torn'
               PROVE  (\E p : Mirrors(Store!JsonlLog, p))'
    BY <1>3
  <2>1. Store!AppendLine(e) /\ FileShape
    BY DEF Store!RecordEvent, Store!SqliteRecord, Store!JsonlRecord, StoreInv, JsonlInv
  <2>2. ~Store!Torn
    BY <2>1, AppendShape
  <2>3. PICK p : Mirrors(Store!JsonlLog, p)
    BY <2>2 DEF LogInv
  <2> QED
    BY <1>3, <2>1, <2>3, LogAppendEvent DEF LogInv
<1> QED
  BY <1>1, <1>2, <1>3, <1>4, <1>5, <1>6 DEF LogInv

(* A send carries at most one attempt more than there are events.          *)
LEMMA AttemptBound ==
  ASSUME IssuedShape, NEW c
  PROVE  1 + Store!Cardinality({i \in DOMAIN issued : issued[i].kind = "outbound_sent" /\ issued[i].cid = c})
           \in 1 .. Len(issued) + 1
<1>1. PICK n : n = Len(issued) /\ n \in Nat /\ DOMAIN issued = 1 .. n
  BY DEF IssuedShape
<1>2. PICK A : A = {i \in DOMAIN issued : issued[i].kind = "outbound_sent" /\ issued[i].cid = c}
  OBVIOUS
<1>3. A \in SUBSET (1 .. n)
  BY <1>1, <1>2
<1>4. IsFiniteSet(1 .. n) /\ Cardinality(1 .. n) = n
  <2>1. IsFiniteSet(1 .. n) /\ Cardinality(1 .. n) = IF 1 > n THEN 0 ELSE n - 1 + 1
    <3>1. 1 \in Int /\ n \in Int
      BY <1>1
    <3> QED
      BY <3>1, FS_Interval, Zenon
  <2> QED
    BY <1>1, <2>1
<1>5. IsFiniteSet(A) /\ Cardinality(A) <= n
  BY <1>3, <1>4, FS_Subset
<1>6. Cardinality(A) \in Nat
  BY <1>5, FS_CardinalityType
<1>7. Store!Cardinality(A) = Cardinality(A)
  BY Zenon DEF Store!Cardinality, Cardinality
<1>8. 1 + Store!Cardinality(A) \in 1 .. n + 1
  BY <1>1, <1>5, <1>6, <1>7
<1> QED
  BY <1>1, <1>2, <1>8

(* The other steps of a call, and the crash.                               *)
LEMMA LogOther ==
  ASSUME StoreInv, LogInv,
         \/ Store!SaveCheckpoint \/ Store!SnapshotState \/ Store!Newline \/ Store!Return
         \/ Store!SqliteDelete \/ Store!DeleteRow \/ Store!Crash \/ UNCHANGED Store!vars
  PROVE  LogInv'
<1>0. UNCHANGED <<impl, events, lines, issued>>
  BY DEF Store!SaveCheckpoint, Store!SnapshotState, Store!Newline, Store!Return, Store!SqliteDelete,
         Store!DeleteRow, Store!Crash, Store!vars, Store!disk, Store!tables, Store!Start
<1>1. acked'.log \subseteq 1 .. Len(issued)
  <2>1. PICK l : l = acked.log /\ l \subseteq 1 .. Len(issued) /\ Len(issued) \in Nat
    BY DEF LogInv, IssuedShape
  <2>2. \/ acked'.log = acked.log
        \/ acked'.log = acked.log \cup {Len(issued)} /\ Len(issued) > 0
    <3>1. CASE Store!Return
      <4>1. step = "return"
        BY <3>1 DEF Store!Return
      <4>2. CASE arg.kind \in {"save", "snapshot"}
        BY <3>1, <4>2 DEF Store!Return, StoreInv, StoreType
      <4>3. CASE arg.kind \notin {"save", "snapshot"}
        <5>1. Len(issued) > 0
          BY <4>1, <4>3 DEF LogInv
        <5>2. acked'.log = acked.log \cup {Len(issued)}
          BY <3>1, <4>3 DEF Store!Return, StoreInv, StoreType
        <5> QED
          BY <5>1, <5>2
      <4> QED
        BY <4>2, <4>3
    <3>2. CASE Store!DeleteRow \/ Store!Crash
      BY <3>2 DEF Store!DeleteRow, Store!Crash, StoreInv, StoreType
    <3>3. CASE \/ Store!SaveCheckpoint \/ Store!SnapshotState \/ Store!Newline
               \/ Store!SqliteDelete \/ UNCHANGED Store!vars
      BY <3>3 DEF Store!SaveCheckpoint, Store!SnapshotState, Store!Newline, Store!SqliteDelete,
         Store!vars, Store!Start
    <3> QED
      BY <3>1, <3>2, <3>3
  <2> QED
    BY <2>1, <2>2
<1>2. step' \in {"newline", "return"} /\ arg'.kind \notin {"save", "snapshot"} => Len(issued) > 0
  BY DEF LogInv, Store!SaveCheckpoint, Store!SnapshotState, Store!Newline, Store!Return,
         Store!SqliteDelete, Store!DeleteRow, Store!Crash, Store!vars, Store!Start
<1>3. step' \in {"checkpoint", "state"} => arg'.kind \in {"save", "snapshot"}
  BY DEF LogInv, Store!SaveCheckpoint, Store!SnapshotState, Store!Newline, Store!Return,
         Store!SqliteDelete, Store!DeleteRow, Store!Crash, Store!vars, Store!Start
<1> QED
  BY <1>0, <1>1, <1>2, <1>3, LogQuiet

(* delete() of jsonl: the file and what is known of it.                    *)
LEMMA LogDelete ==
  ASSUME LogInv, Store!JsonlDelete
  PROVE  LogInv'
<1>1. /\ issued' = <<>> /\ lines' = <<>> /\ acked'.log = {} /\ step' = "idle"
      /\ impl' = "jsonl" /\ impl' \in Stores
  BY DEF Store!JsonlDelete, LogInv
<1>2. IssuedShape'
  BY <1>1 DEF IssuedShape
<1>3. (\E p : Mirrors(Store!JsonlLog, p))'
  <2>1. (DOMAIN Store!JsonlLog)' = {}
    BY <1>1 DEF Store!JsonlLog, Store!EventLines
  <2>2. PICK q : q = [i \in 1 .. 0 |-> 0]
    OBVIOUS
  <2>3. Mirrors(Store!JsonlLog, q)'
    BY <1>1, <2>1, <2>2 DEF Mirrors
  <2> QED
    BY <2>3
<1> QED
  BY <1>1, <1>2, <1>3 DEF LogInv

LEMMA LogStep ==
  ASSUME StoreAssumption, OutboxAssumption, StoreInv, LogInv, [Store!Next]_(Store!vars)
  PROVE  LogInv'
<1>1. ASSUME NEW s \in Saved, NEW b \in BOOLEAN, Store!Save(s, b)
      PROVE  LogInv'
  <2>1. PICK d : d = Store!SaveData(s, b)
    OBVIOUS
  <2>2. d.kind = "save"
    BY <2>1 DEF Store!SaveData
  <2>3. UNCHANGED issued /\ (Store!SqliteSave(d) \/ Store!JsonlSave(d))
    BY <1>1, <2>1 DEF Store!Save
  <2> QED
    BY <2>2, <2>3, LogSave
<1>2. CASE Store!Snapshot
  <2>1. PICK d : d = [kind |-> "snapshot", state |-> calls + 1, cp |-> calls + 1]
    OBVIOUS
  <2>2. d.kind = "snapshot"
    BY <2>1
  <2>3. UNCHANGED issued /\ (Store!SqliteSnapshot(d) \/ Store!JsonlSnapshot(d))
    BY <1>2, <2>1 DEF Store!Snapshot
  <2> QED
    BY <2>2, <2>3, LogSave
<1>3. ASSUME NEW c \in Cids, Store!RecordPeerMessageSent(c) \/ Store!RecordPeerReplyReceived(c)
      PROVE  LogInv'
  <2>1. PICK e : /\ e.kind \in {"outbound_sent", "inbound_reply"} /\ Store!RecordEvent(e)
                 /\ e.kind = "outbound_sent" => e.attempt \in 1 .. Len(issued) + 1
    <3>1. CASE Store!RecordPeerMessageSent(c)
      <4>1. PICK a : a = 1 + Store!Cardinality({i \in DOMAIN issued :
                              issued[i].kind = "outbound_sent" /\ issued[i].cid = c})
        OBVIOUS
      <4>2. a \in 1 .. Len(issued) + 1
        BY <4>1, AttemptBound DEF LogInv
      <4>3. PICK e : e = [kind |-> "outbound_sent", cid |-> c, attempt |-> a]
        OBVIOUS
      <4>4. Store!RecordEvent(e)
        BY <3>1, <4>1, <4>3 DEF Store!RecordPeerMessageSent
      <4> QED
        BY <4>2, <4>3, <4>4
    <3>2. CASE Store!RecordPeerReplyReceived(c)
      <4>1. PICK e : e = [kind |-> "inbound_reply", cid |-> c]
        OBVIOUS
      <4>2. Store!RecordEvent(e)
        BY <3>2, <4>1 DEF Store!RecordPeerReplyReceived
      <4> QED
        BY <4>1, <4>2
    <3> QED
      BY <1>3, <3>1, <3>2
  <2> QED
    BY <2>1, LogRecord
<1>4. ASSUME NEW k \in Marks, Store!RecordMark(k)
      PROVE  LogInv'
  <2>1. PICK e : e.kind = k /\ Store!RecordEvent(e)
    BY <1>4 DEF Store!RecordMark
  <2>2. k # "save" /\ k # "snapshot" /\ k # "outbound_sent"
    BY DEF StoreAssumption, OutboxAssumption
  <2> QED
    BY <2>1, <2>2, LogRecord
<1> QED
  BY <1>1, <1>2, <1>3, <1>4, LogOther, LogDelete DEF Store!Next

LEMMA LogReplays ==
  ASSUME OutboxAssumption, LogInv
  PROVE  Store!OutboxReplays
<1>1. CASE impl = "sqlite"
  <2>1. PICK n : n = Len(issued) /\ n \in Nat /\ DOMAIN issued = 1 .. n
    BY DEF LogInv, IssuedShape
  <2>2. PICK p : p = [i \in 1 .. n |-> i]
    OBVIOUS
  <2>3. PICK log : log = events /\ log = issued
    BY <1>1 DEF LogInv
  <2>4. Mirrors(log, p)
    BY <2>1, <2>2, <2>3 DEF Mirrors
  <2>5. Store!PendingOutbound = Store!PendingOf(log)
    BY <1>1, <2>3 DEF Store!PendingOutbound, Store!SqlitePending
  <2> QED
    BY <2>4, <2>5, MirrorReplays DEF LogInv
<1>2. CASE impl = "jsonl" /\ ~Store!Torn
  <2>1. PICK log : log = Store!JsonlLog
    OBVIOUS
  <2>2. PICK p : Mirrors(log, p)
    BY <1>2, <2>1 DEF LogInv
  <2>3. Store!PendingOutbound = Store!PendingOf(log)
    BY <1>2, <2>1 DEF Store!PendingOutbound, Store!JsonlPending
  <2> QED
    BY <2>2, <2>3, MirrorReplays DEF LogInv
<1>3. CASE Store!Torn
  BY <1>3 DEF Store!OutboxReplays
<1> QED
  BY <1>1, <1>2, <1>3 DEF LogInv, OutboxAssumption

(* After any crash and any number of calls, pending_outbound() of either   *)
(* store has every acknowledged send that nobody answered, with at least   *)
(* its attempt, nothing whose answer was acknowledged, and the order of    *)
(* the first sends, as long as no two records share a line of the file.    *)
THEOREM OutboxIsReplayed ==
  ASSUME StoreAssumption, OutboxAssumption
  PROVE  Store!Spec => []OutboxReplays
<1> DEFINE Inv == StoreInv /\ LogInv
<1>1. Store!Init => Inv
  BY StoreInit, LogInit
<1>2. Inv /\ [Store!Next]_(Store!vars) => Inv'
  BY StoreStep, LogStep
<1>3. Inv => OutboxReplays
  BY LogReplays DEF OutboxReplays
<1> HIDE DEF Inv
<1> QED
  BY <1>1, <1>2, <1>3, PTL DEF Store!Spec

-----------------------------------------------------------------------------
(* Config *)

(* What a program may put into a roster.                                   *)
CfgAssumption ==
  /\ \A auto \in AutoLists : \E S : auto \in Seq(S)
  /\ "agent.yaml" \notin Ambiguous

CfgEngine(e) ==
  /\ e = [id |-> e.id, config |-> "agent.yaml", auto |-> e.auto]
  /\ \E S : e.auto \in Seq(S)

CfgPool(p) == p = [id |-> p.id, config |-> "agent.yaml", size |-> p.size, wait |-> p.wait]

CfgTeam(t) ==
  /\ t = [id |-> t.id, bus |-> t.bus, description |-> t.description, engines |-> t.engines,
          pools |-> t.pools]
  /\ \E S : t.engines \in Seq(S) /\ \A e \in S : CfgEngine(e)
  /\ \E S : t.pools \in Seq(S) /\ \A p \in S : CfgPool(p)

CfgInv ==
  /\ team # Nil => CfgTeam(team)
  /\ file # Nil => CfgTeam(saved) /\ file = Cfg!Yaml(saved)

(* The filter over a list, unrolled.                                       *)
LEMMA StringsAre ==
  ASSUME NEW S, NEW seq \in Seq(S)
  PROVE  \E h : /\ h = [k \in 0 .. Len(seq) |->
                          IF k = 0 THEN <<>>
                          ELSE IF seq[k] \in Ambiguous THEN h[k - 1] ELSE Append(h[k - 1], seq[k])]
                /\ Cfg!Strings(seq) = h[Len(seq)]
<1> DEFINE next(s, k) == IF seq[k] \in Ambiguous THEN s ELSE Append(s, seq[k])
           T == {n \in Nat : \E h : h = [k \in 0 .. n |-> IF k = 0 THEN <<>> ELSE next(h[k - 1], k)]}
<1> HIDE DEF next
<1>1. 0 \in T
  <2>1. [k \in 0 .. 0 |-> <<>>]
          = [k \in 0 .. 0 |-> IF k = 0 THEN <<>> ELSE next([j \in 0 .. 0 |-> <<>>][k - 1], k)]
    OBVIOUS
  <2> QED
    BY <2>1
<1>2. ASSUME NEW n \in Nat, n \in T PROVE n + 1 \in T
  <2>1. PICK h : h = [k \in 0 .. n |-> IF k = 0 THEN <<>> ELSE next(h[k - 1], k)]
    BY <1>2
  <2> DEFINE e == [k \in 0 .. n + 1 |-> IF k = n + 1 THEN next(h[n], n + 1) ELSE h[k]]
  <2>2. ASSUME NEW k \in 0 .. n + 1 PROVE e[k] = IF k = 0 THEN <<>> ELSE next(e[k - 1], k)
    <3>1. CASE k = n + 1
      <4>1. n \in 0 .. n + 1 /\ k - 1 = n /\ n # n + 1 /\ k # 0
        BY <3>1
      <4>2. e[k] = next(h[n], k) /\ e[k - 1] = h[n]
        BY <3>1, <4>1
      <4> QED
        BY <4>1, <4>2
    <3>2. CASE k # n + 1
      <4>1. k \in 0 .. n /\ (k # 0 => k - 1 \in 0 .. n + 1 /\ k - 1 # n + 1)
        BY <3>2
      <4>2. e[k] = h[k] /\ (k # 0 => e[k - 1] = h[k - 1])
        BY <3>2, <4>1
      <4>3. h[k] = IF k = 0 THEN <<>> ELSE next(h[k - 1], k)
        BY <2>1, <4>1, Zenon
      <4> QED
        BY <4>2, <4>3
    <3> QED
      BY <3>1, <3>2
  <2>3. e = [k \in 0 .. n + 1 |-> e[k]]
    OBVIOUS
  <2> HIDE DEF e
  <2>4. e = [k \in 0 .. n + 1 |-> IF k = 0 THEN <<>> ELSE next(e[k - 1], k)]
    BY <2>2, <2>3
  <2> QED
    BY <2>4
<1>3. Len(seq) \in T
  <2> HIDE DEF T
  <2> QED
    BY <1>1, <1>2, CountUp
<1>4. \E h : h = [k \in 0 .. Len(seq) |->
                    IF k = 0 THEN <<>>
                    ELSE IF seq[k] \in Ambiguous THEN h[k - 1] ELSE Append(h[k - 1], seq[k])]
  BY <1>3 DEF next
<1> DEFINE f == CHOOSE h : h = [k \in 0 .. Len(seq) |->
                    IF k = 0 THEN <<>>
                    ELSE IF seq[k] \in Ambiguous THEN h[k - 1] ELSE Append(h[k - 1], seq[k])]
<1>5. Cfg!Strings(seq) = f[Len(seq)]
  BY Zenon DEF Cfg!Strings
<1>6. f = [k \in 0 .. Len(seq) |->
                    IF k = 0 THEN <<>>
                    ELSE IF seq[k] \in Ambiguous THEN f[k - 1] ELSE Append(f[k - 1], seq[k])]
  BY <1>4, Zenon
<1> QED
  BY <1>5, <1>6, Zenon

(* The filter keeps a list that has only strings, and makes a list.        *)
LEMMA StringsKeeps ==
  ASSUME NEW S, NEW seq \in Seq(S)
  PROVE  /\ Cfg!Strings(seq) \in Seq(S)
         /\ (\A i \in 1 .. Len(seq) : seq[i] \notin Ambiguous) => Cfg!Strings(seq) = seq
<1> DEFINE pure == \A i \in 1 .. Len(seq) : seq[i] \notin Ambiguous
<1>1. PICK h : /\ h = [k \in 0 .. Len(seq) |->
                          IF k = 0 THEN <<>>
                          ELSE IF seq[k] \in Ambiguous THEN h[k - 1] ELSE Append(h[k - 1], seq[k])]
               /\ Cfg!Strings(seq) = h[Len(seq)]
  BY StringsAre
<1>2. \A k \in 0 .. Len(seq) : h[k] = IF k = 0 THEN <<>>
                          ELSE IF seq[k] \in Ambiguous THEN h[k - 1] ELSE Append(h[k - 1], seq[k])
  BY <1>1, Zenon
<1> DEFINE T == {n \in Nat : n <= Len(seq) =>
                   /\ h[n] \in Seq(S)
                   /\ pure => Len(h[n]) = n /\ \A i \in 1 .. n : h[n][i] = seq[i]}
<1>3. 0 \in T
  <2>1. h[0] = <<>>
    BY <1>2
  <2>2. h[0] \in Seq(S) /\ Len(h[0]) = 0 /\ \A i \in 1 .. 0 : h[0][i] = seq[i]
    BY <2>1
  <2> QED
    BY <2>2
<1>4. ASSUME NEW n \in Nat, n \in T PROVE n + 1 \in T
  <2>1. SUFFICES ASSUME n + 1 <= Len(seq)
                 PROVE  /\ h[n + 1] \in Seq(S)
                        /\ pure => Len(h[n + 1]) = n + 1 /\ \A i \in 1 .. n + 1 : h[n + 1][i] = seq[i]
    OBVIOUS
  <2>2. /\ n + 1 \in 0 .. Len(seq) /\ n + 1 \in 1 .. Len(seq) /\ n + 1 # 0 /\ (n + 1) - 1 = n
        /\ n <= Len(seq) /\ seq[n + 1] \in S
    BY <2>1
  <2>3. h[n + 1] = IF seq[n + 1] \in Ambiguous THEN h[n] ELSE Append(h[n], seq[n + 1])
    BY <1>2, <2>2
  <2>4. h[n] \in Seq(S) /\ (pure => Len(h[n]) = n /\ \A i \in 1 .. n : h[n][i] = seq[i])
    BY <1>4, <2>2
  <2>5. h[n + 1] \in Seq(S)
    BY <2>2, <2>3, <2>4
  <2>6. ASSUME pure PROVE Len(h[n + 1]) = n + 1 /\ \A i \in 1 .. n + 1 : h[n + 1][i] = seq[i]
    <3>1. h[n + 1] = Append(h[n], seq[n + 1])
      BY <2>2, <2>3, <2>6
    <3>2. Len(h[n + 1]) = n + 1 /\ h[n + 1][n + 1] = seq[n + 1] /\ \A i \in 1 .. n : h[n + 1][i] = h[n][i]
      BY <2>2, <2>4, <2>6, <3>1
    <3> QED
      BY <2>4, <2>6, <3>2
  <2> QED
    BY <2>5, <2>6
<1>5. Len(seq) \in T
  <2> HIDE DEF T
  <2> QED
    BY <1>3, <1>4, CountUp
<1>6. h[Len(seq)] \in Seq(S) /\ (pure => Len(h[Len(seq)]) = Len(seq) /\ \A i \in 1 .. Len(seq) : h[Len(seq)][i] = seq[i])
  BY <1>5
<1>7. ASSUME pure PROVE h[Len(seq)] = seq
  BY <1>6, <1>7
<1> QED
  BY <1>1, <1>6, <1>7

LEMMA TeamIs ==
  ASSUME NEW a, NEW b, NEW d, NEW E, NEW es \in Seq(E), NEW P, NEW ps \in Seq(P),
         \A e \in E : CfgEngine(e), \A p \in P : CfgPool(p)
  PROVE  CfgTeam([id |-> a, bus |-> b, description |-> d, engines |-> es, pools |-> ps])
BY DEF CfgTeam

LEMMA PoolRoundTrips ==
  ASSUME CfgAssumption, NEW p, CfgPool(p)
  PROVE  LET q == Cfg!ReadPool(Cfg!WritePool(p)) IN
         CfgPool(q) /\ (p.id \notin Ambiguous => q = p)
<1> DEFINE base == [id |-> p.id, config |-> p.config, size |-> p.size]
           opt == Cfg!Optional("max_queue_wait_ms", p.wait)
           m == Cfg!WritePool(p)
<1>1. DOMAIN base = {"id", "config", "size"} /\ base["id"] = p.id /\ base["config"] = p.config /\ base["size"] = p.size
  OBVIOUS
<1>2. /\ p.wait = Nil => DOMAIN opt = {}
      /\ p.wait # Nil => DOMAIN opt = {"max_queue_wait_ms"} /\ opt["max_queue_wait_ms"] = p.wait
  BY DEF Cfg!Optional
<1>3. m = [k \in DOMAIN base \cup DOMAIN opt |-> IF k \in DOMAIN base THEN base[k] ELSE opt[k]]
  BY DEF Cfg!WritePool, Cfg!Join
<1> HIDE DEF base, opt, m
<1>4. /\ {"id", "config", "size"} \subseteq DOMAIN m /\ m["id"] = p.id /\ m["config"] = p.config /\ m["size"] = p.size
      /\ p.wait = Nil => "max_queue_wait_ms" \notin DOMAIN m
      /\ p.wait # Nil => "max_queue_wait_ms" \in DOMAIN m /\ m["max_queue_wait_ms"] = p.wait
  BY <1>1, <1>2, <1>3
<1>5. p.config = "agent.yaml"
  BY DEF CfgPool
<1>6. /\ Cfg!AsStr(m, "config", "") = "agent.yaml" /\ Cfg!Get(m, "size", 1) = p.size
      /\ Cfg!Get(m, "max_queue_wait_ms", Nil) = p.wait
      /\ p.id \notin Ambiguous => Cfg!AsStr(m, "id", "") = p.id
  BY <1>4, <1>5 DEF Cfg!AsStr, Cfg!Get, Cfg!Has, CfgAssumption
<1>7. Cfg!ReadPool(m) = [id |-> Cfg!AsStr(m, "id", ""), config |-> "agent.yaml", size |-> p.size, wait |-> p.wait]
  BY <1>6 DEF Cfg!ReadPool, Cfg!PoolSpec
<1>8. CfgPool(Cfg!ReadPool(m))
  <2>1. \A a, b, c : CfgPool([id |-> a, config |-> "agent.yaml", size |-> b, wait |-> c])
    BY DEF CfgPool
  <2> QED
    BY <1>7, <2>1
<1>9. p.id \notin Ambiguous => Cfg!ReadPool(m) = p
  BY <1>6, <1>7 DEF CfgPool
<1> QED
  BY <1>8, <1>9 DEF m

LEMMA EngineRoundTrips ==
  ASSUME CfgAssumption, NEW e, CfgEngine(e)
  PROVE  /\ CfgEngine(Cfg!ReadEngine(Cfg!WriteEngine(e)))
         /\ (e.id \notin Ambiguous /\ \A i \in DOMAIN e.auto : e.auto[i] \notin Ambiguous)
              => Cfg!ReadEngine(Cfg!WriteEngine(e)) = e
<1> DEFINE base == [id |-> e.id, config |-> e.config]
           opt == IF e.auto = <<>> THEN << >> ELSE [auto_subscribe |-> e.auto]
           m == Cfg!WriteEngine(e)
<1>1. DOMAIN base = {"id", "config"} /\ base["id"] = e.id /\ base["config"] = e.config
  OBVIOUS
<1>2. /\ e.auto = <<>> => DOMAIN opt = {}
      /\ e.auto # <<>> => DOMAIN opt = {"auto_subscribe"} /\ opt["auto_subscribe"] = e.auto
  OBVIOUS
<1>3. m = [k \in DOMAIN base \cup DOMAIN opt |-> IF k \in DOMAIN base THEN base[k] ELSE opt[k]]
  BY DEF Cfg!WriteEngine, Cfg!Join
<1> HIDE DEF base, opt, m
<1>4. /\ {"id", "config"} \subseteq DOMAIN m /\ m["id"] = e.id /\ m["config"] = e.config
      /\ e.auto = <<>> => "auto_subscribe" \notin DOMAIN m
      /\ e.auto # <<>> => "auto_subscribe" \in DOMAIN m /\ m["auto_subscribe"] = e.auto
  BY <1>1, <1>2, <1>3
<1>5. e.config = "agent.yaml" /\ e = [id |-> e.id, config |-> "agent.yaml", auto |-> e.auto]
  BY DEF CfgEngine
<1>6. /\ Cfg!AsStr(m, "config", "") = "agent.yaml" /\ Cfg!Get(m, "auto_subscribe", <<>>) = e.auto
      /\ e.id \notin Ambiguous => Cfg!AsStr(m, "id", "") = e.id
  BY <1>4, <1>5 DEF Cfg!AsStr, Cfg!Get, Cfg!Has, CfgAssumption
<1>7. Cfg!ReadEngine(m) =
        [id |-> Cfg!AsStr(m, "id", ""), config |-> "agent.yaml", auto |-> Cfg!Strings(e.auto)]
  BY <1>6 DEF Cfg!ReadEngine, Cfg!EngineSpec
<1>8. PICK S : e.auto \in Seq(S)
  BY DEF CfgEngine
<1>9. /\ Cfg!Strings(e.auto) \in Seq(S)
      /\ (\A i \in DOMAIN e.auto : e.auto[i] \notin Ambiguous) => Cfg!Strings(e.auto) = e.auto
  BY <1>8, StringsKeeps
<1>10. CfgEngine(Cfg!ReadEngine(m))
  <2>1. \A a, b : (\E Z : b \in Seq(Z)) => CfgEngine([id |-> a, config |-> "agent.yaml", auto |-> b])
    BY DEF CfgEngine
  <2> QED
    BY <1>7, <1>9, <2>1
<1>11. (e.id \notin Ambiguous /\ \A i \in DOMAIN e.auto : e.auto[i] \notin Ambiguous)
         => Cfg!ReadEngine(m) = e
  BY <1>5, <1>6, <1>7, <1>9
<1> QED
  BY <1>10, <1>11 DEF m

(* What to_yaml writes from_yaml reads: a roster again, and the same one   *)
(* but for the description when its names are strings to YAML.             *)
LEMMA TeamRoundTrips ==
  ASSUME CfgAssumption, NEW t, CfgTeam(t)
  PROVE  /\ CfgTeam(Cfg!FromYaml(Cfg!Yaml(t)))
         /\ Cfg!Texts(t) \cap Ambiguous = {} =>
              Cfg!FromYaml(Cfg!Yaml(t)) = [t EXCEPT !.description = Nil]
<1> DEFINE section == [id |-> t.id, bus |-> t.bus]
           head == [team |-> section]
           es == [i \in DOMAIN t.engines |-> Cfg!WriteEngine(t.engines[i])]
           ps == [i \in DOMAIN t.pools |-> Cfg!WritePool(t.pools[i])]
           eng == IF t.engines = <<>> THEN << >> ELSE [persistent_engines |-> es]
           pls == IF t.pools = <<>> THEN << >> ELSE [subagent_pools |-> ps]
           rest == Cfg!Join(eng, pls)
           y == Cfg!Yaml(t)
<1>1. y = Cfg!Join(head, rest)
  BY DEF Cfg!Yaml
<1>2. PICK E : t.engines \in Seq(E) /\ \A e \in E : CfgEngine(e)
  BY DEF CfgTeam
<1>3. PICK P : t.pools \in Seq(P) /\ \A p \in P : CfgPool(p)
  BY DEF CfgTeam
<1>4. DOMAIN head = {"team"} /\ head["team"] = section
  OBVIOUS
<1>5. /\ t.engines = <<>> => DOMAIN eng = {}
      /\ t.engines # <<>> => DOMAIN eng = {"persistent_engines"} /\ eng["persistent_engines"] = es
      /\ t.pools = <<>> => DOMAIN pls = {}
      /\ t.pools # <<>> => DOMAIN pls = {"subagent_pools"} /\ pls["subagent_pools"] = ps
  <2> HIDE DEF es, ps
  <2> QED
    OBVIOUS
<1>6. rest = [k \in DOMAIN eng \cup DOMAIN pls |-> IF k \in DOMAIN eng THEN eng[k] ELSE pls[k]]
  BY DEF Cfg!Join
<1>7. y = [k \in DOMAIN head \cup DOMAIN rest |-> IF k \in DOMAIN head THEN head[k] ELSE rest[k]]
  BY <1>1 DEF Cfg!Join
<1> HIDE DEF section, head, es, ps, eng, pls, rest, y
<1>8. /\ DOMAIN rest = DOMAIN eng \cup DOMAIN pls
      /\ t.engines # <<>> => rest["persistent_engines"] = es
      /\ t.pools # <<>> => rest["subagent_pools"] = ps
  BY <1>5, <1>6
<1>9. /\ "team" \in DOMAIN y /\ y["team"] = section
      /\ t.engines = <<>> => "persistent_engines" \notin DOMAIN y
      /\ t.engines # <<>> => "persistent_engines" \in DOMAIN y /\ y["persistent_engines"] = es
      /\ t.pools = <<>> => "subagent_pools" \notin DOMAIN y
      /\ t.pools # <<>> => "subagent_pools" \in DOMAIN y /\ y["subagent_pools"] = ps
  BY <1>4, <1>5, <1>7, <1>8
<1>10. /\ t.engines = <<>> => es = <<>>
       /\ t.pools = <<>> => ps = <<>>
  BY DEF es, ps
<1>11. /\ Cfg!Get(y, "team", << >>) = section /\ Cfg!Get(y, "persistent_engines", <<>>) = es
       /\ Cfg!Get(y, "subagent_pools", <<>>) = ps
  BY <1>9, <1>10 DEF Cfg!Get, Cfg!Has
<1> DEFINE es2 == [i \in DOMAIN es |-> Cfg!ReadEngine(es[i])]
           ps2 == [i \in DOMAIN ps |-> Cfg!ReadPool(ps[i])]
           id == Cfg!AsStr(section, "id", "default")
           bus == Cfg!AsStr(section, "bus", "shared")
<1>12. Cfg!FromYaml(y) = [id |-> id, bus |-> bus,
                          description |-> Cfg!Get(section, "description", Nil),
                          engines |-> es2, pools |-> ps2]
  BY <1>11 DEF Cfg!FromYaml
<1>13. /\ Cfg!Get(section, "description", Nil) = Nil
       /\ t.id \notin Ambiguous => id = t.id
       /\ t.bus \notin Ambiguous => bus = t.bus
  <2>1. DOMAIN section = {"id", "bus"} /\ section["id"] = t.id /\ section["bus"] = t.bus
    BY DEF section
  <2> QED
    BY <2>1 DEF Cfg!Get, Cfg!Has, Cfg!AsStr
<1>14. /\ es2 = [i \in DOMAIN t.engines |-> Cfg!ReadEngine(Cfg!WriteEngine(t.engines[i]))]
       /\ ps2 = [i \in DOMAIN t.pools |-> Cfg!ReadPool(Cfg!WritePool(t.pools[i]))]
  BY DEF es, ps
<1> HIDE DEF es2, ps2, id, bus
<1>15. ASSUME NEW i \in DOMAIN t.engines
       PROVE  /\ CfgEngine(es2[i])
              /\ Cfg!Texts(t) \cap Ambiguous = {} => es2[i] = t.engines[i]
  <2>1. CfgEngine(t.engines[i]) /\ es2[i] = Cfg!ReadEngine(Cfg!WriteEngine(t.engines[i]))
    BY <1>2, <1>14
  <2>2. ASSUME Cfg!Texts(t) \cap Ambiguous = {}
        PROVE  /\ t.engines[i].id \notin Ambiguous
               /\ \A j \in DOMAIN t.engines[i].auto : t.engines[i].auto[j] \notin Ambiguous
    <3>1. t.engines[i].id \in Cfg!Texts(t) /\ Cfg!Range(t.engines[i].auto) \subseteq Cfg!Texts(t)
      BY DEF Cfg!Texts
    <3>2. \A j \in DOMAIN t.engines[i].auto : t.engines[i].auto[j] \in Cfg!Range(t.engines[i].auto)
      BY DEF Cfg!Range
    <3> QED
      BY <2>2, <3>1, <3>2
  <2> QED
    BY <2>1, <2>2, EngineRoundTrips
<1>16. ASSUME NEW i \in DOMAIN t.pools
       PROVE  /\ CfgPool(ps2[i])
              /\ Cfg!Texts(t) \cap Ambiguous = {} => ps2[i] = t.pools[i]
  <2>1. CfgPool(t.pools[i]) /\ ps2[i] = Cfg!ReadPool(Cfg!WritePool(t.pools[i]))
    BY <1>3, <1>14
  <2>2. t.pools[i].id \in Cfg!Texts(t)
    BY DEF Cfg!Texts
  <2> QED
    BY <2>1, <2>2, PoolRoundTrips
<1>17. CfgTeam(Cfg!FromYaml(y))
  <2>1. es2 \in Seq({es2[i] : i \in DOMAIN t.engines}) /\ ps2 \in Seq({ps2[i] : i \in DOMAIN t.pools})
    <3>1. DOMAIN t.engines = 1 .. Len(t.engines) /\ Len(t.engines) \in Nat
      BY <1>2
    <3>2. DOMAIN t.pools = 1 .. Len(t.pools) /\ Len(t.pools) \in Nat
      BY <1>3
    <3> QED
      BY <1>14, <3>1, <3>2
  <2>2. \A x \in {es2[i] : i \in DOMAIN t.engines} : CfgEngine(x)
    BY <1>15
  <2>3. \A x \in {ps2[i] : i \in DOMAIN t.pools} : CfgPool(x)
    BY <1>16
  <2>4. CfgTeam([id |-> id, bus |-> bus, description |-> Nil, engines |-> es2, pools |-> ps2])
    BY <2>1, <2>2, <2>3, TeamIs
  <2> QED
    BY <1>12, <1>13, <2>4
<1>18. ASSUME Cfg!Texts(t) \cap Ambiguous = {}
       PROVE  Cfg!FromYaml(y) = [t EXCEPT !.description = Nil]
  <2>1. es2 = t.engines
    <3>1. /\ es2 = [i \in DOMAIN t.engines |-> es2[i]]
          /\ t.engines = [i \in DOMAIN t.engines |-> t.engines[i]]
      BY <1>2, <1>14
    <3> QED
      BY <1>15, <1>18, <3>1
  <2>2. ps2 = t.pools
    <3>1. /\ ps2 = [i \in DOMAIN t.pools |-> ps2[i]]
          /\ t.pools = [i \in DOMAIN t.pools |-> t.pools[i]]
      BY <1>3, <1>14
    <3> QED
      BY <1>16, <1>18, <3>1
  <2>3. id = t.id /\ bus = t.bus
    <3>1. t.id \in Cfg!Texts(t) /\ t.bus \in Cfg!Texts(t)
      BY DEF Cfg!Texts
    <3> QED
      BY <1>13, <1>18, <3>1
  <2> QED
    BY <1>12, <1>13, <2>1, <2>2, <2>3 DEF CfgTeam
<1> QED
  BY <1>17, <1>18 DEF y

(* Whatever engines and pools a program adds, and however often it saves   *)
(* and loads, to_yaml followed by from_yaml gives the roster back, but for *)
(* the description, when YAML takes each name for a string.                *)
THEOREM RosterSurvives ==
  ASSUME CfgAssumption
  PROVE  Cfg!Spec => []RosterRoundTrips
<1>1. Cfg!Init => CfgInv
  BY DEF Cfg!Init, CfgInv
<1>2. CfgInv /\ [Cfg!Next]_(Cfg!vars) => CfgInv'
  <2> SUFFICES ASSUME CfgInv, [Cfg!Next]_(Cfg!vars) PROVE CfgInv'
    OBVIOUS
  <2>1. CASE Cfg!New
    <3>1. PICK a, b : team' = Cfg!TeamConfig(a, b)
      BY <2>1 DEF Cfg!New
    <3>2. <<>> \in Seq({})
      OBVIOUS
    <3>3. CfgTeam(team')
      <4> DEFINE none == {}
      <4>1. <<>> \in Seq(none) /\ (\A e \in none : CfgEngine(e)) /\ (\A p \in none : CfgPool(p))
        BY <3>2
      <4> HIDE DEF none
      <4>2. CfgTeam([id |-> a, bus |-> b, description |-> Nil, engines |-> <<>>, pools |-> <<>>])
        BY <4>1, TeamIs
      <4> QED
        BY <3>1, <4>2 DEF Cfg!TeamConfig
    <3> QED
      BY <2>1, <3>3 DEF CfgInv, Cfg!New
  <2>2. CASE Cfg!SetDescription
    <3>1. CfgTeam(team) /\ team' = [team EXCEPT !.description = "text"]
      BY <2>2 DEF CfgInv, Cfg!SetDescription
    <3>2. team' = [id |-> team.id, bus |-> team.bus, description |-> "text", engines |-> team.engines,
                   pools |-> team.pools]
      BY <3>1 DEF CfgTeam
    <3>3. CfgTeam(team')
      BY <3>1, <3>2 DEF CfgTeam
    <3> QED
      BY <2>2, <3>3 DEF CfgInv, Cfg!SetDescription
  <2>3. CASE Cfg!AddPersistentEngine
    <3>1. PICK a \in Names, auto \in AutoLists :
            team' = [team EXCEPT !.engines = Append(@, Cfg!EngineSpec(a, "agent.yaml", auto))]
      BY <2>3 DEF Cfg!AddPersistentEngine
    <3> DEFINE e == Cfg!EngineSpec(a, "agent.yaml", auto)
    <3>2. CfgTeam(team) /\ UNCHANGED <<file, saved>>
      BY <2>3 DEF CfgInv, Cfg!AddPersistentEngine
    <3>3. CfgEngine(e)
      BY DEF CfgEngine, Cfg!EngineSpec, CfgAssumption
    <3> HIDE DEF e
    <3>4. team' = [id |-> team.id, bus |-> team.bus, description |-> team.description,
                   engines |-> Append(team.engines, e), pools |-> team.pools]
      BY <3>1, <3>2 DEF CfgTeam, e
    <3>5. PICK S : team.engines \in Seq(S) /\ \A x \in S : CfgEngine(x)
      BY <3>2 DEF CfgTeam
    <3>6. Append(team.engines, e) \in Seq(S \cup {e}) /\ \A x \in S \cup {e} : CfgEngine(x)
      BY <3>3, <3>5
    <3>7. CfgTeam(team')
      BY <3>2, <3>4, <3>6 DEF CfgTeam
    <3> QED
      BY <3>2, <3>7 DEF CfgInv
  <2>4. CASE Cfg!AddSubagentPool
    <3>1. PICK a, size, wait :
            team' = [team EXCEPT !.pools = Append(@, Cfg!PoolSpec(a, "agent.yaml", size, wait))]
      BY <2>4 DEF Cfg!AddSubagentPool
    <3> DEFINE p == Cfg!PoolSpec(a, "agent.yaml", size, wait)
    <3>2. CfgTeam(team) /\ UNCHANGED <<file, saved>>
      BY <2>4 DEF CfgInv, Cfg!AddSubagentPool
    <3>3. CfgPool(p)
      BY DEF CfgPool, Cfg!PoolSpec
    <3> HIDE DEF p
    <3>4. team' = [id |-> team.id, bus |-> team.bus, description |-> team.description,
                   engines |-> team.engines, pools |-> Append(team.pools, p)]
      BY <3>1, <3>2 DEF CfgTeam, p
    <3>5. PICK S : team.pools \in Seq(S) /\ \A x \in S : CfgPool(x)
      BY <3>2 DEF CfgTeam
    <3>6. Append(team.pools, p) \in Seq(S \cup {p}) /\ \A x \in S \cup {p} : CfgPool(x)
      BY <3>3, <3>5
    <3>7. CfgTeam(team')
      BY <3>2, <3>4, <3>6 DEF CfgTeam
    <3> QED
      BY <3>2, <3>7 DEF CfgInv
  <2>5. CASE Cfg!ToYaml
    <3>1. team # Nil /\ file' = Cfg!Yaml(team) /\ saved' = team /\ team' = team
      BY <2>5 DEF Cfg!ToYaml
    <3> QED
      BY <3>1 DEF CfgInv
  <2>6. CASE Cfg!Load
    <3>1. file # Nil /\ team' = Cfg!FromYaml(file) /\ UNCHANGED <<file, saved>>
      BY <2>6 DEF Cfg!Load
    <3>2. CfgTeam(saved) /\ file = Cfg!Yaml(saved)
      BY <3>1 DEF CfgInv
    <3>3. CfgTeam(team')
      BY <3>1, <3>2, TeamRoundTrips
    <3> QED
      BY <3>1, <3>2, <3>3 DEF CfgInv
  <2>7. CASE UNCHANGED <<team, file, saved>>
    BY <2>7 DEF CfgInv
  <2> QED
    BY <2>1, <2>2, <2>3, <2>4, <2>5, <2>6, <2>7
       DEF Cfg!Next, Cfg!vars, Cfg!LoadAgent, Cfg!NewAgent
<1>3. CfgInv => RosterRoundTrips
  BY TeamRoundTrips DEF CfgInv, RosterRoundTrips, Cfg!RosterRoundTrips
<1> QED
  BY <1>1, <1>2, <1>3, PTL DEF Cfg!Spec

-----------------------------------------------------------------------------
(* Tool calls *)

ToolAssumption == IsFiniteSet(Calls)

Graphs == [Calls -> SUBSET (Calls \cup {Stranger})]

(* Layers that hold a call at most once, after all that block it.          *)
Layered(g, layers) ==
  /\ layers \in Seq(SUBSET Calls)
  /\ \A k \in 1 .. Len(layers) : \A c \in layers[k] : \A d \in g[c] :
       \E m \in 1 .. k - 1 : d \in layers[m]
  /\ \A k, m \in 1 .. Len(layers) : \A c \in layers[k] : c \in layers[m] => k = m

(* The calls of some layers.                                               *)
Popped(layers) == {c \in Calls : \E k \in 1 .. Len(layers) : c \in layers[k]}

(* What the loop of kahn_sort keeps: the in-degree of a call counts its    *)
(* blockers that are not popped yet, and the queue is a layer to come.     *)
KahnInv(g, s) ==
  /\ Layered(g, s.layers)
  /\ s.queue \in SUBSET Calls /\ s.queue \cap Popped(s.layers) = {}
  /\ \A c \in s.queue : g[c] \subseteq Popped(s.layers)
  /\ s.deg \in [Calls -> Int]
  /\ \A c \in Calls : s.deg[c] = Cardinality(g[c] \ Popped(s.layers))

LEMMA BlockersFinite ==
  ASSUME ToolAssumption, NEW g \in Graphs, NEW c \in Calls
  PROVE  /\ IsFiniteSet(g[c])
         /\ \A T : IsFiniteSet(g[c] \cap T) /\ IsFiniteSet(g[c] \ T)
<1>1. IsFiniteSet(Calls \cup {Stranger})
  BY FS_AddElement DEF ToolAssumption
<1>2. g[c] \in SUBSET (Calls \cup {Stranger})
  BY DEF Graphs
<1>3. IsFiniteSet(g[c])
  BY <1>1, <1>2, FS_Subset
<1> QED
  BY <1>3, FS_Intersection, FS_Difference

LEMMA ToolsCardinality ==
  ASSUME NEW S
  PROVE  Tools!Cardinality(S) = Cardinality(S)
BY Zenon DEF Tools!Cardinality, Cardinality

LEMMA KahnStarts ==
  ASSUME ToolAssumption, NEW g \in Graphs
  PROVE  KahnInv(g, Tools!KahnStart(g))
<1>1. PICK s : s = Tools!KahnStart(g)
  OBVIOUS
<1>2. /\ s.layers = <<>> /\ s.deg = [c \in Calls |-> Cardinality(g[c])]
      /\ s.queue = {c \in Calls : Cardinality(g[c]) = 0}
  BY <1>1, ToolsCardinality DEF Tools!KahnStart, Tools!BuildInDegree
<1>3. Popped(s.layers) = {}
  BY <1>2 DEF Popped
<1>4. Layered(g, s.layers)
  BY <1>2 DEF Layered
<1>5. \A c \in Calls : Cardinality(g[c]) \in Nat /\ (Cardinality(g[c]) = 0 => g[c] = {})
  BY BlockersFinite, FS_CardinalityType, FS_EmptySet
<1>6. \A c \in Calls : g[c] \ {} = g[c]
  OBVIOUS
<1>7. s.deg \in [Calls -> Int] /\ \A c \in Calls : s.deg[c] = Cardinality(g[c] \ {})
  BY <1>2, <1>5, <1>6
<1>8. s.queue \in SUBSET Calls /\ \A c \in s.queue : g[c] \subseteq {}
  BY <1>2, <1>5
<1>9. KahnInv(g, s)
  BY <1>3, <1>4, <1>7, <1>8 DEF KahnInv
<1> QED
  BY <1>1, <1>9

LEMMA KahnRounds ==
  ASSUME ToolAssumption, NEW g \in Graphs, NEW s, KahnInv(g, s)
  PROVE  KahnInv(g, Tools!KahnRound(g, s))
<1>0. CASE s.queue = {}
  BY <1>0 DEF Tools!KahnRound
<1>1. CASE s.queue # {}
  <2> DEFINE left == [c \in Calls |-> s.deg[c] - Tools!Cardinality(g[c] \cap s.queue)]
  <2>1. PICK r : r = Tools!KahnRound(g, s)
    OBVIOUS
  <2>2. /\ r.deg = left /\ r.layers = Append(s.layers, s.queue)
        /\ r.queue = {c \in Calls : g[c] \cap s.queue # {} /\ left[c] = 0}
    BY <1>1, <2>1 DEF Tools!KahnRound
  <2>3. PICK n \in Nat : /\ n = Len(s.layers) /\ Len(r.layers) = n + 1 /\ r.layers[n + 1] = s.queue
                         /\ \A k \in 1 .. n : r.layers[k] = s.layers[k]
                         /\ r.layers \in Seq(SUBSET Calls) /\ s.layers \in Seq(SUBSET Calls)
    BY <2>2 DEF KahnInv, Layered
  <2>4. PICK P, Q : P = Popped(s.layers) /\ Q = Popped(r.layers)
    OBVIOUS
  <2>5. /\ s.queue \subseteq Calls /\ s.queue \cap P = {} /\ \A c \in s.queue : g[c] \subseteq P
        /\ s.deg \in [Calls -> Int] /\ \A c \in Calls : s.deg[c] = Cardinality(g[c] \ P)
        /\ Layered(g, s.layers)
    BY <2>4 DEF KahnInv
  <2>6. Q = P \cup s.queue
    <3>1. \A c \in Calls : c \in Q <=> \E k \in 1 .. n + 1 : c \in r.layers[k]
      BY <2>3, <2>4 DEF Popped
    <3>2. \A c \in Calls : c \in P <=> \E k \in 1 .. n : c \in s.layers[k]
      BY <2>3, <2>4 DEF Popped
    <3>3. \A k \in 1 .. n + 1 : k \in 1 .. n \/ k = n + 1
      OBVIOUS
    <3>4. 1 .. n \subseteq 1 .. n + 1 /\ n + 1 \in 1 .. n + 1
      OBVIOUS
    <3>5. Q \subseteq Calls /\ P \subseteq Calls
      BY <2>4 DEF Popped
    <3> QED
      BY <2>3, <2>5, <3>1, <3>2, <3>3, <3>4, <3>5, Zenon
  <2>7. \A c \in P : g[c] \subseteq P
    <3> SUFFICES ASSUME NEW c \in P, NEW d \in g[c] PROVE d \in P
      OBVIOUS
    <3>1. PICK k \in 1 .. n : c \in s.layers[k]
      BY <2>3, <2>4 DEF Popped
    <3>2. PICK m \in 1 .. k - 1 : d \in s.layers[m]
      BY <2>3, <2>5, <3>1 DEF Layered
    <3>3. m \in 1 .. n
      BY <3>2
    <3>4. d \in Calls
      BY <2>3, <3>2, <3>3
    <3> QED
      BY <2>3, <2>4, <3>2, <3>3, <3>4 DEF Popped
  <2>8. ASSUME NEW c \in Calls
        PROVE  left[c] = Cardinality(g[c] \ Q) /\ left[c] \in Int /\ (left[c] = 0 => g[c] \subseteq Q)
    <3>1. PICK X, Y : X = g[c] \ P /\ Y = g[c] \cap s.queue
      OBVIOUS
    <3>2. IsFiniteSet(X) /\ IsFiniteSet(Y) /\ X \cap Y = Y /\ X \ Y = g[c] \ Q
      BY <2>5, <2>6, <3>1, BlockersFinite
    <3>3. Cardinality(X \ Y) = Cardinality(X) - Cardinality(Y) /\ IsFiniteSet(X \ Y)
      BY <3>2, FS_Difference
    <3>4. left[c] = Cardinality(X) - Cardinality(Y)
      BY <2>5, <3>1, ToolsCardinality
    <3>5. Cardinality(X \ Y) \in Nat /\ (Cardinality(X \ Y) = 0 => X \ Y = {})
      BY <3>3, FS_CardinalityType, FS_EmptySet
    <3>6. left[c] = Cardinality(X \ Y)
      BY <3>3, <3>4
    <3>7. left[c] = 0 => g[c] \subseteq Q
      BY <3>2, <3>5, <3>6
    <3> HIDE DEF left
    <3> QED
      BY <3>2, <3>5, <3>6, <3>7
  <2>9. Layered(g, r.layers)
    <3>1. ASSUME NEW k \in 1 .. n + 1, NEW c \in r.layers[k], NEW d \in g[c]
          PROVE  \E m \in 1 .. k - 1 : d \in r.layers[m]
      <4>1. CASE k \in 1 .. n
        <5>1. PICK m \in 1 .. k - 1 : d \in s.layers[m]
          BY <2>3, <2>5, <3>1, <4>1 DEF Layered
        <5>2. m \in 1 .. n
          BY <4>1, <5>1
        <5> QED
          BY <2>3, <5>1, <5>2
      <4>2. CASE k = n + 1
        <5>1. d \in P
          BY <2>3, <2>5, <3>1, <4>2
        <5>2. PICK m \in 1 .. n : d \in s.layers[m]
          BY <2>3, <2>4, <5>1 DEF Popped
        <5>3. m \in 1 .. k - 1
          BY <4>2, <5>2
        <5> QED
          BY <2>3, <5>2, <5>3
      <4> QED
        BY <4>1, <4>2
    <3>2. ASSUME NEW k \in 1 .. n, NEW c \in s.layers[k] PROVE c \in P /\ c \notin s.queue
      <4>1. c \in Calls
        BY <2>3, <3>2
      <4>2. c \in P
        BY <2>3, <2>4, <3>2, <4>1 DEF Popped
      <4> QED
        BY <2>5, <4>2
    <3>3. ASSUME NEW k \in 1 .. n + 1, NEW m \in 1 .. n + 1, NEW c \in r.layers[k], c \in r.layers[m]
          PROVE  k = m
      <4>1. CASE k \in 1 .. n /\ m \in 1 .. n
        BY <2>3, <2>5, <3>3, <4>1 DEF Layered
      <4>2. CASE k = n + 1 /\ m \in 1 .. n
        BY <2>3, <3>2, <3>3, <4>2
      <4>3. CASE k \in 1 .. n /\ m = n + 1
        BY <2>3, <3>2, <3>3, <4>3
      <4> QED
        BY <4>1, <4>2, <4>3
    <3> QED
      BY <2>3, <3>1, <3>3 DEF Layered
  <2>10. \A c \in r.queue : c \in Calls /\ c \notin Q /\ g[c] \subseteq Q
    <3> SUFFICES ASSUME NEW c \in r.queue PROVE c \in Calls /\ c \notin Q /\ g[c] \subseteq Q
      OBVIOUS
    <3>1. c \in Calls /\ g[c] \cap s.queue # {} /\ left[c] = 0
      BY <2>2
    <3>2. g[c] \subseteq Q
      BY <2>8, <3>1
    <3>3. ~(g[c] \subseteq P)
      BY <2>5, <3>1
    <3> QED
      BY <2>5, <2>6, <2>7, <3>1, <3>2, <3>3
  <2>11. left \in [Calls -> Int]
    BY <2>8
  <2>12. r.queue \in SUBSET Calls
    BY <2>10
  <2> HIDE DEF left
  <2>13. KahnInv(g, r)
    BY <2>2, <2>4, <2>8, <2>9, <2>10, <2>11, <2>12 DEF KahnInv
  <2> QED
    BY <2>1, <2>13
<1> QED
  BY <1>0, <1>1

LEMMA KahnLoopIs ==
  ASSUME ToolAssumption, NEW g, NEW N \in Nat, N = Tools!Cardinality(Calls)
  PROVE  Tools!KahnLoop(g) = [k \in 0 .. N |-> IF k = 0 THEN Tools!KahnStart(g)
                                               ELSE Tools!KahnRound(g, Tools!KahnLoop(g)[k - 1])]
<1> DEFINE first == Tools!KahnStart(g)
           next(s) == Tools!KahnRound(g, s)
           T == {n \in Nat : \E h : h = [k \in 0 .. n |-> IF k = 0 THEN first ELSE next(h[k - 1])]}
<1> HIDE DEF first, next
<1>1. 0 \in T
  <2>1. [k \in 0 .. 0 |-> first]
          = [k \in 0 .. 0 |-> IF k = 0 THEN first ELSE next([j \in 0 .. 0 |-> first][k - 1])]
    OBVIOUS
  <2> QED
    BY <2>1
<1>2. ASSUME NEW n \in Nat, n \in T PROVE n + 1 \in T
  <2>1. PICK h : h = [k \in 0 .. n |-> IF k = 0 THEN first ELSE next(h[k - 1])]
    BY <1>2
  <2> DEFINE e == [k \in 0 .. n + 1 |-> IF k = n + 1 THEN next(h[n]) ELSE h[k]]
  <2>2. ASSUME NEW k \in 0 .. n + 1 PROVE e[k] = IF k = 0 THEN first ELSE next(e[k - 1])
    <3>1. CASE k = n + 1
      <4>1. n \in 0 .. n + 1 /\ k - 1 = n /\ n # n + 1 /\ k # 0
        BY <3>1
      <4>2. e[k] = next(h[n]) /\ e[k - 1] = h[n]
        BY <3>1, <4>1
      <4> QED
        BY <4>1, <4>2
    <3>2. CASE k # n + 1
      <4>1. k \in 0 .. n /\ (k # 0 => k - 1 \in 0 .. n + 1 /\ k - 1 # n + 1)
        BY <3>2
      <4>2. e[k] = h[k] /\ (k # 0 => e[k - 1] = h[k - 1])
        BY <3>2, <4>1
      <4>3. h[k] = IF k = 0 THEN first ELSE next(h[k - 1])
        BY <2>1, <4>1, Zenon
      <4> QED
        BY <4>2, <4>3
    <3> QED
      BY <3>1, <3>2
  <2>3. e = [k \in 0 .. n + 1 |-> e[k]]
    OBVIOUS
  <2> HIDE DEF e
  <2>4. e = [k \in 0 .. n + 1 |-> IF k = 0 THEN first ELSE next(e[k - 1])]
    BY <2>2, <2>3
  <2> QED
    BY <2>4
<1>3. N \in T
  <2> HIDE DEF T
  <2> QED
    BY <1>1, <1>2, CountUp
<1>4. \E h : h = [k \in 0 .. Tools!Cardinality(Calls) |->
                    IF k = 0 THEN Tools!KahnStart(g) ELSE Tools!KahnRound(g, h[k - 1])]
  BY <1>3 DEF first, next
<1>5. Tools!KahnLoop(g) = [k \in 0 .. Tools!Cardinality(Calls) |->
                             IF k = 0 THEN Tools!KahnStart(g)
                             ELSE Tools!KahnRound(g, Tools!KahnLoop(g)[k - 1])]
  BY <1>4, Zenon DEF Tools!KahnLoop
<1> QED
  BY <1>5

(* kahn_sort puts a call only after its blockers, cycles or not.           *)
LEMMA KahnSorts ==
  ASSUME ToolAssumption, NEW g \in Graphs
  PROVE  Layered(g, Tools!KahnSort(g))
<1>1. PICK N \in Nat : N = Tools!Cardinality(Calls)
  BY ToolsCardinality, FS_CardinalityType DEF ToolAssumption
<1>2. PICK f : f = Tools!KahnLoop(g)
  OBVIOUS
<1>3. f = [k \in 0 .. N |-> IF k = 0 THEN Tools!KahnStart(g) ELSE Tools!KahnRound(g, f[k - 1])]
  BY <1>1, <1>2, KahnLoopIs
<1> DEFINE T == {n \in Nat : n <= N => KahnInv(g, f[n])}
<1>4. 0 \in T
  <2>1. f[0] = Tools!KahnStart(g)
    BY <1>3
  <2> QED
    BY <2>1, KahnStarts
<1>5. ASSUME NEW n \in Nat, n \in T PROVE n + 1 \in T
  <2> SUFFICES ASSUME n + 1 <= N PROVE KahnInv(g, f[n + 1])
    OBVIOUS
  <2>1. n + 1 \in 0 .. N /\ n + 1 # 0 /\ n + 1 - 1 = n /\ n <= N
    BY <1>1
  <2>2. f[n + 1] = Tools!KahnRound(g, f[n])
    BY <1>3, <2>1
  <2>3. KahnInv(g, f[n])
    BY <1>5, <2>1
  <2> QED
    BY <2>2, <2>3, KahnRounds
<1>6. Nat \subseteq T
  <2> HIDE DEF T
  <2> QED
    BY <1>4, <1>5, CountUp
<1>7. KahnInv(g, f[N])
  BY <1>1, <1>6
<1> QED
  BY <1>1, <1>2, <1>7 DEF Tools!KahnSort, KahnInv

Active == {"build", "stdin", "waiting"}

ToolType ==
  /\ deps \in Graphs
  /\ request.type # "tool_call_set" => deps = [c \in Calls |-> {}]
  /\ phase \in {"idle", "running", "done"}
  /\ layer \in Nat
  /\ stage \in [Calls -> Active \cup {"idle", "ended"}]
  /\ result \in [Calls -> {"none", "success", "error", "cancelled"}]

(* Until the loop is entered nothing has begun.                            *)
IdleInv ==
  phase = "idle" => /\ layer = 0
                    /\ \A c \in Calls : stage[c] = "idle" /\ result[c] = "none"

(* In the loop, what has begun is in a layer up to the one in progress,    *)
(* and the layers before that one have succeeded.                          *)
RunInv ==
  phase = "running" =>
    /\ Layered(deps, Tools!Layers)
    /\ layer <= Len(Tools!Layers)
    /\ \A c \in Calls : IF stage[c] = "idle" THEN result[c] = "none"
                        ELSE \E k \in 1 .. layer : c \in Tools!Layers[k]
    /\ \A k \in 1 .. layer - 1 : \A c \in Tools!Layers[k] : stage[c] = "ended" /\ result[c] = "success"

(* After it nothing runs, and the results are final.                       *)
DoneInv ==
  phase = "done" =>
    /\ \A c \in Calls : stage[c] \in {"idle", "ended"} /\ result[c] # "none"
    /\ \A c \in Calls : stage[c] # "idle" => \A d \in deps[c] : result[d] = "success"
    /\ Tools!LocksConsistent /\ ~Tools!DetectCycle(deps) =>
         \A c \in Calls : (\E d \in deps[c] : result[d] # "success") =>
                            result[c] = "cancelled" /\ stage[c] = "idle"

ToolInv == ToolType /\ IdleInv /\ RunInv /\ DoneInv

(* In the loop, what has begun has all its blockers in layers that         *)
(* succeeded.                                                              *)
LEMMA BegunUnblocked ==
  ASSUME ToolType, RunInv, phase = "running", NEW c \in Calls, stage[c] # "idle", NEW d \in deps[c]
  PROVE  d \in Calls /\ result[d] = "success" /\ stage[d] = "ended"
<1>1. PICK L : L = Tools!Layers /\ Layered(deps, L) /\ layer <= Len(L)
  BY DEF RunInv
<1>2. PICK k \in 1 .. layer : c \in L[k]
  BY <1>1 DEF RunInv
<1>3. layer \in Nat /\ Len(L) \in Nat /\ k \in 1 .. Len(L)
  BY <1>1, <1>2 DEF ToolType, Layered
<1>4. PICK m \in 1 .. k - 1 : d \in L[m]
  BY <1>1, <1>2, <1>3 DEF Layered
<1>5. m \in 1 .. layer - 1 /\ m \in 1 .. Len(L)
  BY <1>2, <1>3, <1>4
<1>6. d \in Calls
  BY <1>1, <1>4, <1>5 DEF Layered
<1> QED
  BY <1>1, <1>4, <1>5, <1>6 DEF RunInv

LEMMA ToolInit ==
  ASSUME Tools!Init
  PROVE  ToolInv
<1>1. deps \in Graphs
  <2>1. CASE deps = [c \in Calls |-> {}]
    BY <2>1 DEF Graphs
  <2>2. CASE \E f \in Tools!Edges, S \in SUBSET {Stranger} :
               deps = [f EXCEPT ![Tools!Min(Calls)] = @ \cup S]
    <3>1. PICK f \in Tools!Edges, S \in SUBSET {Stranger} :
               deps = [f EXCEPT ![Tools!Min(Calls)] = @ \cup S]
      BY <2>2
    <3>2. f \in [Calls -> SUBSET Calls]
      BY <3>1 DEF Tools!Edges
    <3> QED
      BY <3>1, <3>2 DEF Graphs
  <2>3. \/ deps = [c \in Calls |-> {}]
        \/ \E f \in Tools!Edges, S \in SUBSET {Stranger} :
               deps = [f EXCEPT ![Tools!Min(Calls)] = @ \cup S]
    BY DEF Tools!Init
  <2> QED
    BY <2>1, <2>2, <2>3
<1>2. request.type # "tool_call_set" => deps = [c \in Calls |-> {}]
  <2>1. request = [type |-> "tool_call_set", valid |-> TRUE] \/ deps = [c \in Calls |-> {}]
    BY Zenon DEF Tools!Init
  <2> QED
    BY <2>1
<1>3. /\ phase = "idle" /\ layer = 0 /\ stage = [c \in Calls |-> "idle"]
      /\ result = [c \in Calls |-> "none"]
  BY DEF Tools!Init
<1>4. ToolType
  BY <1>1, <1>2, <1>3 DEF ToolType
<1> QED
  BY <1>3, <1>4 DEF ToolInv, IdleInv, RunInv, DoneInv

(* What the steps after Submit leave alone.                                *)
LEMMA SetKept ==
  ASSUME UNCHANGED Tools!callSet
  PROVE  /\ deps' = deps /\ request' = request
         /\ Tools!LocksConsistent' = Tools!LocksConsistent
         /\ Tools!DetectCycle(deps)' = Tools!DetectCycle(deps)
         /\ Tools!Layers' = Tools!Layers
<1>1. deps' = deps /\ request' = request /\ blocking' = blocking
  BY DEF Tools!callSet
<1>2. Tools!LocksConsistent' = Tools!LocksConsistent
  BY <1>1 DEF Tools!LocksConsistent
<1>3. Tools!DetectCycle(deps)' = Tools!DetectCycle(deps)
  BY <1>1
<1>4. Tools!KahnSort(deps)' = Tools!KahnSort(deps)
  BY <1>1
<1>5. Tools!Layers' = Tools!Layers
  BY <1>1, <1>4 DEF Tools!Layers
<1> QED
  BY <1>1, <1>2, <1>3, <1>5

(* Steps that do not touch the executor.                                   *)
LEMMA ToolQuiet ==
  ASSUME ToolInv, UNCHANGED <<Tools!callSet, phase, layer, stage, result>>
  PROVE  ToolInv'
<1>1. /\ deps' = deps /\ request' = request
      /\ Tools!LocksConsistent' = Tools!LocksConsistent
      /\ Tools!DetectCycle(deps)' = Tools!DetectCycle(deps)
      /\ Tools!Layers' = Tools!Layers
  BY SetKept
<1>2. ToolType' /\ IdleInv'
  BY <1>1 DEF ToolInv, ToolType, IdleInv
<1>3. RunInv'
  BY <1>1 DEF ToolInv, RunInv, Layered
<1>4. DoneInv'
  BY <1>1 DEF ToolInv, DoneInv
<1> QED
  BY <1>2, <1>3, <1>4 DEF ToolInv

LEMMA ToolSubmit ==
  ASSUME ToolAssumption, ToolInv, Tools!Submit
  PROVE  ToolInv'
<1>1. /\ UNCHANGED Tools!callSet /\ layer' = layer /\ stage' = stage /\ phase = "idle"
      /\ deps' = deps /\ request' = request
      /\ Tools!LocksConsistent' = Tools!LocksConsistent
      /\ Tools!DetectCycle(deps)' = Tools!DetectCycle(deps)
      /\ Tools!Layers' = Tools!Layers
  BY SetKept DEF Tools!Submit
<1>2. layer = 0 /\ \A c \in Calls : stage[c] = "idle" /\ result[c] = "none"
  BY <1>1 DEF ToolInv, IdleInv
<1>3. CASE ~(Tools!LocksConsistent /\ ~Tools!DetectCycle(deps))
  <2>1. phase' = "done" /\ result' = [c \in Calls |-> "error"]
    BY <1>3 DEF Tools!Submit
  <2>2. ToolType' /\ IdleInv' /\ RunInv'
    BY <1>1, <2>1 DEF ToolInv, ToolType, IdleInv, RunInv
  <2>3. DoneInv'
    BY <1>1, <1>2, <1>3, <2>1 DEF DoneInv
  <2> QED
    BY <2>2, <2>3 DEF ToolInv
<1>4. CASE Tools!LocksConsistent /\ ~Tools!DetectCycle(deps)
  <2>1. phase' = "running" /\ result' = result
    BY <1>4 DEF Tools!Submit
  <2>2. ToolType' /\ IdleInv' /\ DoneInv'
    BY <1>1, <2>1 DEF ToolInv, ToolType, IdleInv, DoneInv
  <2>3. Layered(deps, Tools!Layers)
    <3>1. CASE request.type = "tool_call_set"
      BY <3>1, KahnSorts DEF Tools!Layers, ToolInv, ToolType
    <3>2. CASE request.type # "tool_call_set"
      <4>1. request.call \in Calls /\ deps = [c \in Calls |-> {}]
        BY <3>2 DEF Tools!Submit, ToolInv, ToolType
      <4>2. Tools!Layers = <<{request.call}>>
        BY <3>2 DEF Tools!Layers
      <4>3. PICK S : S = {request.call} /\ S \in SUBSET Calls
        BY <4>1
      <4>4. <<S>> \in Seq(SUBSET Calls) /\ Len(<<S>>) = 1 /\ <<S>>[1] = S
        BY <4>3
      <4> QED
        BY <4>1, <4>2, <4>3, <4>4 DEF Layered
    <3> QED
      BY <3>1, <3>2
  <2>4. Len(Tools!Layers) \in Nat
    BY <2>3 DEF Layered
  <2>5. RunInv'
    BY <1>1, <1>2, <2>1, <2>3, <2>4 DEF RunInv, Layered
  <2> QED
    BY <2>2, <2>5 DEF ToolInv
<1> QED
  BY <1>3, <1>4

(* A call moves on or ends.                                                *)
LEMMA ToolMoves ==
  ASSUME ToolInv, UNCHANGED <<Tools!callSet, phase, layer>>, NEW c \in Calls, stage[c] \in Active,
         NEW to \in Active \cup {"ended"}, NEW res \in {"none", "success", "error", "cancelled"},
         stage' = [stage EXCEPT ![c] = to], result' = [result EXCEPT ![c] = res]
  PROVE  ToolInv'
<1>1. deps' = deps /\ request' = request /\ Tools!Layers' = Tools!Layers
  BY SetKept
<1>2. phase = "running" /\ phase' = "running" /\ layer' = layer
  BY DEF ToolInv, ToolType, IdleInv, DoneInv, Active
<1>3. ToolType'
  BY <1>1, <1>2 DEF ToolInv, ToolType
<1>4. /\ stage'[c] # "idle" /\ stage[c] \notin {"idle", "ended"}
      /\ \A d \in Calls : d # c => stage'[d] = stage[d] /\ result'[d] = result[d]
  BY DEF ToolInv, ToolType, Active
<1>5. RunInv'
  <2>1. PICK L : L = Tools!Layers /\ L = Tools!Layers' /\ Layered(deps, L) /\ layer <= Len(L)
    BY <1>1, <1>2 DEF ToolInv, RunInv
  <2>2. Layered(deps, L)'
    BY <1>1, <2>1 DEF Layered
  <2>3. ASSUME NEW d \in Calls
        PROVE  IF stage'[d] = "idle" THEN result'[d] = "none" ELSE \E k \in 1 .. layer : d \in L[k]
    <3>1. IF stage[d] = "idle" THEN result[d] = "none" ELSE \E k \in 1 .. layer : d \in L[k]
      BY <1>2, <2>1 DEF ToolInv, RunInv
    <3> QED
      BY <1>4, <3>1
  <2>4. ASSUME NEW k \in 1 .. layer - 1, NEW d \in L[k]
        PROVE  stage'[d] = "ended" /\ result'[d] = "success"
    <3>1. stage[d] = "ended" /\ result[d] = "success"
      BY <1>2, <2>1 DEF ToolInv, RunInv
    <3>2. k \in 1 .. Len(L)
      BY <2>1 DEF Layered, ToolInv, ToolType
    <3>3. d \in Calls /\ d # c
      BY <1>4, <2>1, <3>1, <3>2 DEF Layered
    <3> QED
      BY <1>4, <3>1, <3>3
  <2> QED
    BY <1>2, <2>1, <2>2, <2>3, <2>4 DEF RunInv, Layered
<1> QED
  BY <1>2, <1>3, <1>5 DEF ToolInv, IdleInv, DoneInv

LEMMA ToolEnd ==
  ASSUME ToolInv, NEW c \in Calls, stage[c] \in Active,
         NEW res \in {"success", "error", "cancelled"}, Tools!End(c, res)
  PROVE  ToolInv'
BY ToolMoves DEF Tools!End

(* The steps of a call.                                                    *)
LEMMA ToolCall ==
  ASSUME ToolInv, NEW c \in Calls,
         \/ Tools!Build(c) \/ Tools!Stdin(c) \/ Tools!Exit(c) \/ Tools!OwnTimeout(c)
         \/ Tools!Cancelled(c) \/ Tools!SetTimeout(c) \/ \E body \in Bodies : Tools!HttpReply(c, body)
  PROVE  ToolInv'
<1>1. stage[c] \in Active
  BY DEF Active, Tools!Build, Tools!Stdin, Tools!Exit, Tools!OwnTimeout, Tools!Cancelled,
         Tools!SetTimeout, Tools!HttpReply
<1>2. CASE \E res \in {"success", "error", "cancelled"} : Tools!End(c, res)
  BY <1>1, <1>2, ToolEnd
<1>3. CASE \E to \in Active : /\ stage' = [stage EXCEPT ![c] = to]
                              /\ UNCHANGED <<Tools!callSet, reply, phase, layer, result>>
  <2>1. PICK to \in Active : /\ stage' = [stage EXCEPT ![c] = to]
                             /\ UNCHANGED <<Tools!callSet, phase, layer, result>>
    BY <1>3
  <2>2. result' = [result EXCEPT ![c] = result[c]]
    BY <2>1 DEF ToolInv, ToolType
  <2>3. result[c] \in {"none", "success", "error", "cancelled"}
    BY DEF ToolInv, ToolType
  <2> QED
    BY <1>1, <2>1, <2>2, <2>3, ToolMoves
<1>4. \/ \E res \in {"success", "error", "cancelled"} : Tools!End(c, res)
      \/ \E to \in Active : /\ stage' = [stage EXCEPT ![c] = to]
                            /\ UNCHANGED <<Tools!callSet, reply, phase, layer, result>>
  <2>1. CASE Tools!Build(c)
    BY <2>1 DEF Tools!Build, Active
  <2>2. CASE Tools!Stdin(c)
    BY <2>2 DEF Tools!Stdin, Active
  <2>3. CASE Tools!Exit(c) \/ Tools!OwnTimeout(c) \/ Tools!Cancelled(c) \/ Tools!SetTimeout(c)
    BY <2>3 DEF Tools!Exit, Tools!OwnTimeout, Tools!Cancelled, Tools!SetTimeout
  <2>4. CASE \E body \in Bodies : Tools!HttpReply(c, body)
    BY <2>4 DEF Tools!HttpReply, Tools!HttpOutcome
  <2> QED
    BY <2>1, <2>2, <2>3, <2>4
<1> QED
  BY <1>2, <1>3, <1>4

(* The next layer, or the end.                                             *)
LEMMA ToolLayer ==
  ASSUME ToolInv, Tools!LayerDone
  PROVE  ToolInv'
<1>1. /\ UNCHANGED Tools!callSet /\ phase = "running"
      /\ deps' = deps /\ request' = request
      /\ Tools!LocksConsistent' = Tools!LocksConsistent
      /\ Tools!DetectCycle(deps)' = Tools!DetectCycle(deps)
  BY SetKept DEF Tools!LayerDone
<1>2. PICK L : L = Tools!Layers /\ L = Tools!Layers' /\ Layered(deps, L) /\ layer <= Len(L)
  BY <1>1, SetKept DEF ToolInv, RunInv
<1>3. layer \in Nat /\ Len(L) \in Nat /\ \A k \in 1 .. Len(L) : L[k] \subseteq Calls
  BY <1>2 DEF ToolInv, ToolType, Layered
<1>4. \A c \in Calls : IF stage[c] = "idle" THEN result[c] = "none" ELSE \E k \in 1 .. layer : c \in L[k]
  BY <1>1, <1>2 DEF ToolInv, RunInv
<1>5. \A k \in 1 .. layer - 1 : \A c \in L[k] : stage[c] = "ended" /\ result[c] = "success"
  BY <1>1, <1>2 DEF ToolInv, RunInv
<1>6. layer # 0 => \A c \in L[layer] : stage[c] = "ended"
  BY <1>2 DEF Tools!LayerDone, Tools!Current
<1> DEFINE failed == \E c \in Tools!Current : result[c] # "success"
<1>7. CASE ~failed /\ layer < Len(L) /\ Tools!Spawn(layer + 1, L) /\ UNCHANGED phase
  <2>1. layer' = layer + 1 /\ phase' = "running"
    BY <1>1, <1>7 DEF Tools!Spawn
  <2>2. PICK S : S = L[layer + 1] /\ S \subseteq Calls
    BY <1>3, <1>7
  <2>3. layer # 0 => \A c \in L[layer] : result[c] = "success"
    BY <1>2, <1>7 DEF Tools!Current
  <2>4. \A k \in 1 .. layer : \A c \in L[k] : stage[c] = "ended" /\ result[c] = "success"
    <3> SUFFICES ASSUME NEW k \in 1 .. layer, NEW c \in L[k]
                 PROVE  stage[c] = "ended" /\ result[c] = "success"
      OBVIOUS
    <3>1. CASE k = layer
      BY <1>3, <1>6, <2>3, <3>1
    <3>2. CASE k # layer
      <4>1. k \in 1 .. layer - 1
        BY <1>3, <3>2
      <4> QED
        BY <1>5, <4>1
    <3> QED
      BY <3>1, <3>2
  <2>5. /\ stage' = [c \in Calls |-> IF c \notin S THEN stage[c]
                                     ELSE IF Tool[c] \notin Tools!Known THEN "ended"
                                     ELSE IF backend = "http" THEN "waiting" ELSE "build"]
        /\ result' = [c \in Calls |-> IF c \in S /\ Tool[c] \notin Tools!Known THEN "error" ELSE result[c]]
    BY <1>7, <2>2 DEF Tools!Spawn
  <2>6. \A c \in Calls : /\ c \in S => stage'[c] \in Active \cup {"ended"}
                         /\ c \notin S => stage'[c] = stage[c] /\ result'[c] = result[c]
    BY <2>5 DEF Active
  <2>7. ToolType'
    <3>1. stage' \in [Calls -> Active \cup {"idle", "ended"}]
      BY <2>5 DEF ToolInv, ToolType, Active
    <3>2. result' \in [Calls -> {"none", "success", "error", "cancelled"}]
      BY <2>5 DEF ToolInv, ToolType
    <3> QED
      BY <1>1, <1>3, <2>1, <3>1, <3>2 DEF ToolInv, ToolType
  <2>8. \A c \in Calls : IF stage'[c] = "idle" THEN result'[c] = "none"
                         ELSE \E k \in 1 .. layer + 1 : c \in L[k]
    <3> SUFFICES ASSUME NEW c \in Calls
                 PROVE  IF stage'[c] = "idle" THEN result'[c] = "none"
                        ELSE \E k \in 1 .. layer + 1 : c \in L[k]
      OBVIOUS
    <3>1. CASE c \in S
      <4>1. stage'[c] # "idle"
        BY <2>6, <3>1 DEF Active
      <4>2. layer + 1 \in 1 .. layer + 1
        BY <1>3
      <4> QED
        BY <2>2, <3>1, <4>1, <4>2
    <3>2. CASE c \notin S
      <4>1. 1 .. layer \subseteq 1 .. layer + 1
        BY <1>3
      <4> QED
        BY <1>4, <2>6, <3>2, <4>1
    <3> QED
      BY <3>1, <3>2
  <2>9. \A k \in 1 .. layer : \A c \in L[k] : stage'[c] = "ended" /\ result'[c] = "success"
    <3> SUFFICES ASSUME NEW k \in 1 .. layer, NEW c \in L[k]
                 PROVE  stage'[c] = "ended" /\ result'[c] = "success"
      OBVIOUS
    <3>1. k \in 1 .. Len(L) /\ layer + 1 \in 1 .. Len(L) /\ k # layer + 1
      BY <1>3, <1>7
    <3>2. c \in Calls /\ c \notin S
      BY <1>2, <1>3, <2>2, <3>1 DEF Layered
    <3> QED
      BY <2>4, <2>6, <3>2
  <2>10. RunInv'
    <3>1. Layered(deps, L)'
      BY <1>1, <1>2 DEF Layered
    <3>2. layer' <= Len(L) /\ layer' - 1 = layer
      BY <1>3, <1>7, <2>1
    <3>3. Layered(deps, Tools!Layers)'
      BY <1>2, <3>1 DEF Layered
    <3>4. \A c \in Calls : IF stage'[c] = "idle" THEN result'[c] = "none"
                           ELSE \E k \in 1 .. layer' : c \in L[k]
      BY <2>1, <2>8
    <3>5. \A k \in 1 .. layer' - 1 : \A c \in L[k] : stage'[c] = "ended" /\ result'[c] = "success"
      BY <2>9, <3>2
    <3> QED
      BY <1>2, <3>2, <3>3, <3>4, <3>5 DEF RunInv
  <2> QED
    BY <2>1, <2>7, <2>10 DEF ToolInv, IdleInv, DoneInv
<1>8. CASE /\ phase' = "done" /\ UNCHANGED <<layer, stage>>
           /\ result' = Tools!Assembled(IF failed THEN Tools!Cascade(result) ELSE result)
  <2>1. \A c \in Calls : /\ result[c] = "none" => result'[c] = "cancelled"
                         /\ result[c] # "none" => result'[c] = result[c]
    <3>1. PICK mid : mid = IF failed THEN Tools!Cascade(result) ELSE result
      OBVIOUS
    <3>2. \A c \in Calls : /\ result[c] = "none" => mid[c] \in {"none", "cancelled"}
                           /\ result[c] # "none" => mid[c] = result[c]
      BY <3>1 DEF Tools!Cascade
    <3>3. result' = Tools!Assembled(mid)
      BY <1>8, <3>1
    <3>4. \A c \in Calls : result'[c] = IF mid[c] = "none" THEN "cancelled" ELSE mid[c]
      BY <3>3 DEF Tools!Assembled
    <3> QED
      BY <3>2, <3>4
  <2>2. DOMAIN result' = Calls /\ result' = [c \in Calls |-> result'[c]]
    BY <1>8 DEF Tools!Assembled
  <2>3. result' \in [Calls -> {"none", "success", "error", "cancelled"}]
    BY <2>1, <2>2 DEF ToolInv, ToolType
  <2>4. ToolType'
    BY <1>1, <1>8, <2>3 DEF ToolInv, ToolType
  <2>5. \A c \in Calls : stage[c] # "idle" => stage[c] = "ended" /\ \A d \in deps[c] : result'[d] = "success"
    <3> SUFFICES ASSUME NEW c \in Calls, stage[c] # "idle"
                 PROVE  stage[c] = "ended" /\ \A d \in deps[c] : result'[d] = "success"
      OBVIOUS
    <3>1. PICK k \in 1 .. layer : c \in L[k]
      BY <1>4
    <3>2. CASE k = layer
      BY <1>1, <1>3, <1>6, <2>1, <3>1, <3>2, BegunUnblocked DEF ToolInv
    <3>3. CASE k # layer
      <4>1. k \in 1 .. layer - 1
        BY <1>3, <3>3
      <4> QED
        BY <1>1, <1>5, <2>1, <3>1, <4>1, BegunUnblocked DEF ToolInv
    <3> QED
      BY <3>2, <3>3
  <2>6. \A c \in Calls : stage[c] = "idle" => result'[c] = "cancelled"
    BY <1>4, <2>1
  <2>7. \A c \in Calls : result'[c] # "none"
    BY <2>1
  <2>8. DoneInv'
    BY <1>1, <1>8, <2>5, <2>6, <2>7 DEF DoneInv
  <2> QED
    BY <1>8, <2>4, <2>8 DEF ToolInv, IdleInv, RunInv
<1> HIDE DEF failed
<1>9. \/ ~failed /\ layer < Len(L) /\ Tools!Spawn(layer + 1, L) /\ UNCHANGED phase
      \/ /\ phase' = "done" /\ UNCHANGED <<layer, stage>>
         /\ result' = Tools!Assembled(IF failed THEN Tools!Cascade(result) ELSE result)
  BY <1>2 DEF Tools!LayerDone, failed
<1> QED
  BY <1>7, <1>8, <1>9

LEMMA ToolStep ==
  ASSUME ToolAssumption, ToolInv, [Tools!Next]_(Tools!vars)
  PROVE  ToolInv'
<1>1. CASE Tools!AnswerAtOnce \/ Tools!Answer
  BY <1>1, ToolQuiet DEF Tools!AnswerAtOnce, Tools!Answer
<1>2. CASE UNCHANGED Tools!vars
  BY <1>2, ToolQuiet DEF Tools!vars
<1>3. ASSUME NEW c \in Calls,
             \/ Tools!Build(c) \/ Tools!Stdin(c) \/ Tools!Exit(c) \/ Tools!OwnTimeout(c)
             \/ Tools!Cancelled(c) \/ Tools!SetTimeout(c) \/ \E body \in Bodies : Tools!HttpReply(c, body)
      PROVE  ToolInv'
  BY <1>3, ToolCall
<1> QED
  BY <1>1, <1>2, <1>3, ToolSubmit, ToolLayer DEF Tools!Next

(* For any finite set of calls with any blocked_by and blocking lists, any *)
(* tools, and any order in which processes end, hang, time out or are      *)
(* cancelled: no tool is started before all that blocks its call has       *)
(* succeeded, and in the answer no call is left out and none below one     *)
(* that failed was run.                                                    *)
THEOREM NothingRunsTooEarly ==
  ASSUME ToolAssumption
  PROVE  Tools!Spec => []BlockedUntilSuccess
<1>1. Tools!Init => ToolInv
  BY ToolInit
<1>2. ToolInv /\ [Tools!Next]_(Tools!vars) => ToolInv'
  BY ToolStep
<1>3. ToolInv => BlockedUntilSuccess
  <2> SUFFICES ASSUME ToolInv PROVE Tools!BlockedUntilSuccess
    BY DEF BlockedUntilSuccess
  <2>1. ASSUME NEW c \in Calls, stage[c] # "idle", NEW d \in deps[c] PROVE result[d] = "success"
    <3>1. CASE phase = "running"
      BY <2>1, <3>1, BegunUnblocked DEF ToolInv
    <3>2. CASE phase # "running"
      BY <2>1, <3>2 DEF ToolInv, ToolType, IdleInv, DoneInv
    <3> QED
      BY <3>1, <3>2
  <2>2. ASSUME phase = "done"
        PROVE  /\ \A c \in Calls : result[c] # "none"
               /\ Tools!LocksConsistent /\ ~Tools!DetectCycle(deps) =>
                    \A c \in Calls : (\E d \in deps[c] : result[d] # "success") =>
                                       result[c] = "cancelled" /\ stage[c] = "idle"
    BY <2>2 DEF ToolInv, DoneInv
  <2> QED
    BY <2>1, <2>2 DEF Tools!BlockedUntilSuccess
<1> QED
  BY <1>1, <1>2, <1>3, PTL DEF Tools!Spec

-----------------------------------------------------------------------------
(* Cycle detection and the topological sort *)

Frames == [node : Calls, visited : SUBSET Calls, stack : SUBSET Calls]

(* What blocks x, what blocks that, and so on.                             *)
Up(g, x) ==
  {c \in Calls : \A S \in SUBSET Calls : g[x] \subseteq S /\ (\A e \in S : g[e] \subseteq S) => c \in S}

Cyclic(g) == \E c \in Calls : c \in Up(g, c)

(* A set of calls that has all their blockers and, in each part of it, a   *)
(* call that nothing of that part blocks.                                  *)
Finished(g, F) ==
  /\ F \subseteq Calls
  /\ \A c \in F : g[c] \subseteq F
  /\ \A U \in SUBSET F : (\A c \in U : g[c] \cap U # {}) => U = {}

LEMMA UpIs ==
  ASSUME NEW g \in [Calls -> SUBSET Calls], NEW x \in Calls
  PROVE  /\ g[x] \subseteq Up(g, x)
         /\ \A y \in Up(g, x) : g[y] \subseteq Up(g, x)
         /\ \A S \in SUBSET Calls :
              g[x] \subseteq S /\ (\A e \in S : g[e] \subseteq S) => Up(g, x) \subseteq S
<1>1. g[x] \subseteq Calls /\ \A y \in Calls : g[y] \subseteq Calls
  OBVIOUS
<1>2. g[x] \subseteq Up(g, x)
  BY <1>1 DEF Up
<1>3. \A y \in Up(g, x) : g[y] \subseteq Up(g, x)
  <2> SUFFICES ASSUME NEW y \in Up(g, x), NEW c \in g[y] PROVE c \in Up(g, x)
    OBVIOUS
  <2>1. y \in Calls /\ c \in Calls
    BY <1>1 DEF Up
  <2>2. ASSUME NEW S \in SUBSET Calls, g[x] \subseteq S, \A e \in S : g[e] \subseteq S PROVE c \in S
    <3>1. y \in S
      BY <2>2 DEF Up
    <3> QED
      BY <2>2, <3>1
  <2> QED
    BY <2>1, <2>2 DEF Up
<1> QED
  BY <1>2, <1>3 DEF Up

(* On such a set there is no cycle.                                        *)
LEMMA FinishedAcyclic ==
  ASSUME NEW g \in [Calls -> SUBSET Calls], Finished(g, Calls)
  PROVE  ~Cyclic(g)
<1> SUFFICES ASSUME NEW c \in Calls, c \in Up(g, c) PROVE FALSE
  BY DEF Cyclic
<1> DEFINE U == {y \in Calls : c \in Up(g, y)}
<1>1. ASSUME NEW y \in U PROVE g[y] \cap U # {}
  <2>1. y \in Calls /\ c \in Up(g, y) /\ g[y] \subseteq Calls
    OBVIOUS
  <2> DEFINE S == {e \in Calls : e \in g[y] \/ \E d \in g[y] : e \in Up(g, d)}
  <2>2. \A e \in S : g[e] \subseteq S
    <3> SUFFICES ASSUME NEW e \in S, NEW z \in g[e] PROVE z \in S
      OBVIOUS
    <3>1. z \in Calls
      OBVIOUS
    <3>2. CASE e \in g[y]
      <4>1. z \in Up(g, e)
        BY <2>1, <3>2, UpIs
      <4> QED
        BY <3>1, <3>2, <4>1
    <3>3. CASE \E d \in g[y] : e \in Up(g, d)
      <4>1. PICK d \in g[y] : e \in Up(g, d)
        BY <3>3
      <4>2. d \in Calls
        BY <2>1
      <4>3. z \in Up(g, d)
        BY <4>1, <4>2, UpIs
      <4> QED
        BY <3>1, <4>1, <4>3
    <3> QED
      BY <3>2, <3>3
  <2>3. g[y] \subseteq S /\ S \in SUBSET Calls
    BY <2>1
  <2> HIDE DEF S
  <2>4. c \in S
    BY <2>1, <2>2, <2>3, UpIs
  <2>5. \E d \in g[y] : d = c \/ c \in Up(g, d)
    BY <2>4 DEF S
  <2> QED
    BY <2>1, <2>5
<1>2. U \in SUBSET Calls /\ c \in U
  OBVIOUS
<1> HIDE DEF U
<1> QED
  BY <1>1, <1>2 DEF Finished

(* A call joins it after its blockers.                                     *)
LEMMA FinishOne ==
  ASSUME NEW g \in [Calls -> SUBSET Calls], NEW F, Finished(g, F),
         NEW c \in Calls, c \notin F, g[c] \subseteq F
  PROVE  Finished(g, F \cup {c})
<1>1. F \cup {c} \subseteq Calls /\ \A d \in F \cup {c} : g[d] \subseteq F \cup {c}
  BY DEF Finished
<1>2. ASSUME NEW U \in SUBSET (F \cup {c}), \A d \in U : g[d] \cap U # {} PROVE U = {}
  <2>1. PICK V : V = U \ {c}
    OBVIOUS
  <2>2. V \in SUBSET F
    BY <2>1
  <2>3. ASSUME NEW d \in V PROVE g[d] \cap V # {}
    <3>1. g[d] \subseteq F /\ g[d] \cap U # {}
      BY <1>2, <2>1, <2>2 DEF Finished
    <3> QED
      BY <2>1, <3>1
  <2>4. V = {}
    BY <2>2, <2>3 DEF Finished
  <2>5. c \notin U
    BY <1>2, <2>1, <2>4
  <2> QED
    BY <2>1, <2>4, <2>5
<1> QED
  BY <1>1, <1>2 DEF Finished

(* The order in which the blockers of a call are gone through.             *)
LEMMA SetToSeqIs ==
  ASSUME NEW S, IsFiniteSet(S), NEW n \in Nat, n = Cardinality(S)
  PROVE  /\ Tools!SetToSeq(S) \in [1 .. n -> S]
         /\ \A x \in S : \E i \in 1 .. n : Tools!SetToSeq(S)[i] = x
<1>1. PICK f \in Bijection(1 .. n, S) : TRUE
  BY FS_CardinalityType DEF ExistsBijection
<1>2. f \in [1 .. n -> S] /\ \A a, b \in DOMAIN f : f[a] = f[b] => a = b
  BY <1>1 DEF Bijection, Injection, IsInjective
<1>3. Tools!IsInjective(f)
  BY <1>2 DEF Tools!IsInjective
<1>4. Tools!SetToSeq(S) = CHOOSE q \in [1 .. n -> S] : Tools!IsInjective(q)
  BY ToolsCardinality DEF Tools!SetToSeq
<1>5. PICK q \in [1 .. n -> S] : q = Tools!SetToSeq(S) /\ Tools!IsInjective(q)
  BY <1>2, <1>3, <1>4, Zenon
<1>6. q \in Injection(1 .. n, S)
  BY <1>5 DEF Tools!IsInjective, Injection, IsInjective
<1>7. Cardinality(1 .. n) = n
  <2>1. 1 \in Int /\ n \in Int
    OBVIOUS
  <2>2. Cardinality(1 .. n) = IF 1 > n THEN 0 ELSE n - 1 + 1
    BY <2>1, FS_Interval, Zenon
  <2> QED
    BY <2>2
<1>8. q \in Surjection(1 .. n, S)
  BY <1>6, <1>7, FS_Injection
<1> QED
  BY <1>5, <1>8 DEF Surjection

(* The two recursions are what their equations say.                        *)
LEMMA DfsEachIs ==
  ASSUME NEW dfs, NEW ids, NEW visited, NEW stack, Tools!Cardinality(ids) \in Nat,
         NEW f, f = Tools!DfsEach(dfs, ids, visited, stack)
  PROVE  /\ f[0] = [cycle |-> FALSE, visited |-> visited]
         /\ \A i \in 1 .. Tools!Cardinality(ids) :
              f[i] = Tools!DfsOn(dfs, Tools!SetToSeq(ids)[i], stack, f[i - 1])
<1> DEFINE first == [cycle |-> FALSE, visited |-> visited]
           next(i, s) == Tools!DfsOn(dfs, Tools!SetToSeq(ids)[i], stack, s)
           T == {n \in Nat : \E h : h = [k \in 0 .. n |-> IF k = 0 THEN first ELSE next(k, h[k - 1])]}
<1> HIDE DEF first, next
<1>1. 0 \in T
  <2>1. [k \in 0 .. 0 |-> first]
          = [k \in 0 .. 0 |-> IF k = 0 THEN first ELSE next(k, [j \in 0 .. 0 |-> first][k - 1])]
    OBVIOUS
  <2> QED
    BY <2>1
<1>2. ASSUME NEW n \in Nat, n \in T PROVE n + 1 \in T
  <2>1. PICK h : h = [k \in 0 .. n |-> IF k = 0 THEN first ELSE next(k, h[k - 1])]
    BY <1>2
  <2> DEFINE e == [k \in 0 .. n + 1 |-> IF k = n + 1 THEN next(n + 1, h[n]) ELSE h[k]]
  <2>2. ASSUME NEW k \in 0 .. n + 1 PROVE e[k] = IF k = 0 THEN first ELSE next(k, e[k - 1])
    <3>1. CASE k = n + 1
      <4>1. n \in 0 .. n + 1 /\ k - 1 = n /\ n # n + 1 /\ k # 0
        BY <3>1
      <4>2. e[k] = next(k, h[n]) /\ e[k - 1] = h[n]
        BY <3>1, <4>1
      <4> QED
        BY <4>1, <4>2
    <3>2. CASE k # n + 1
      <4>1. k \in 0 .. n /\ (k # 0 => k - 1 \in 0 .. n + 1 /\ k - 1 # n + 1)
        BY <3>2
      <4>2. e[k] = h[k] /\ (k # 0 => e[k - 1] = h[k - 1])
        BY <3>2, <4>1
      <4>3. h[k] = IF k = 0 THEN first ELSE next(k, h[k - 1])
        BY <2>1, <4>1, Zenon
      <4> QED
        BY <4>2, <4>3
    <3> QED
      BY <3>1, <3>2
  <2>3. e = [k \in 0 .. n + 1 |-> e[k]]
    OBVIOUS
  <2> HIDE DEF e
  <2>4. e = [k \in 0 .. n + 1 |-> IF k = 0 THEN first ELSE next(k, e[k - 1])]
    BY <2>2, <2>3
  <2> QED
    BY <2>4
<1>3. Tools!Cardinality(ids) \in T
  <2> HIDE DEF T
  <2> QED
    BY <1>1, <1>2, CountUp
<1>4. \E h : h = [k \in 0 .. Tools!Cardinality(ids) |->
                    IF k = 0 THEN [cycle |-> FALSE, visited |-> visited]
                    ELSE Tools!DfsOn(dfs, Tools!SetToSeq(ids)[k], stack, h[k - 1])]
  BY <1>3 DEF first, next
<1>5. f = [k \in 0 .. Tools!Cardinality(ids) |->
             IF k = 0 THEN [cycle |-> FALSE, visited |-> visited]
             ELSE Tools!DfsOn(dfs, Tools!SetToSeq(ids)[k], stack, f[k - 1])]
  BY <1>4, Zenon DEF Tools!DfsEach
<1>6. f[0] = [cycle |-> FALSE, visited |-> visited]
  BY <1>5
<1>7. ASSUME NEW i \in 1 .. Tools!Cardinality(ids)
      PROVE  f[i] = Tools!DfsOn(dfs, Tools!SetToSeq(ids)[i], stack, f[i - 1])
  <2>1. i \in 0 .. Tools!Cardinality(ids) /\ i # 0
    OBVIOUS
  <2> QED
    BY <1>5, <2>1, Zenon
<1> QED
  BY <1>6, <1>7

LEMMA DfsCycleIs ==
  ASSUME NEW g, NEW N \in Nat, N = Tools!Cardinality(Calls)
  PROVE  /\ Tools!DfsCycle(g)[0] = [s \in Frames |-> [cycle |-> TRUE, visited |-> s.visited]]
         /\ \A k \in 1 .. N : Tools!DfsCycle(g)[k] = Tools!DfsFrame(g, Tools!DfsCycle(g)[k - 1])
<1> DEFINE first == [s \in Frames |-> [cycle |-> TRUE, visited |-> s.visited]]
           next(f) == Tools!DfsFrame(g, f)
           T == {n \in Nat : \E h : h = [k \in 0 .. n |-> IF k = 0 THEN first ELSE next(h[k - 1])]}
<1> HIDE DEF first, next
<1>1. 0 \in T
  <2>1. [k \in 0 .. 0 |-> first]
          = [k \in 0 .. 0 |-> IF k = 0 THEN first ELSE next([j \in 0 .. 0 |-> first][k - 1])]
    OBVIOUS
  <2> QED
    BY <2>1
<1>2. ASSUME NEW n \in Nat, n \in T PROVE n + 1 \in T
  <2>1. PICK h : h = [k \in 0 .. n |-> IF k = 0 THEN first ELSE next(h[k - 1])]
    BY <1>2
  <2> DEFINE e == [k \in 0 .. n + 1 |-> IF k = n + 1 THEN next(h[n]) ELSE h[k]]
  <2>2. ASSUME NEW k \in 0 .. n + 1 PROVE e[k] = IF k = 0 THEN first ELSE next(e[k - 1])
    <3>1. CASE k = n + 1
      <4>1. n \in 0 .. n + 1 /\ k - 1 = n /\ n # n + 1 /\ k # 0
        BY <3>1
      <4>2. e[k] = next(h[n]) /\ e[k - 1] = h[n]
        BY <3>1, <4>1
      <4> QED
        BY <4>1, <4>2
    <3>2. CASE k # n + 1
      <4>1. k \in 0 .. n /\ (k # 0 => k - 1 \in 0 .. n + 1 /\ k - 1 # n + 1)
        BY <3>2
      <4>2. e[k] = h[k] /\ (k # 0 => e[k - 1] = h[k - 1])
        BY <3>2, <4>1
      <4>3. h[k] = IF k = 0 THEN first ELSE next(h[k - 1])
        BY <2>1, <4>1, Zenon
      <4> QED
        BY <4>2, <4>3
    <3> QED
      BY <3>1, <3>2
  <2>3. e = [k \in 0 .. n + 1 |-> e[k]]
    OBVIOUS
  <2> HIDE DEF e
  <2>4. e = [k \in 0 .. n + 1 |-> IF k = 0 THEN first ELSE next(e[k - 1])]
    BY <2>2, <2>3
  <2> QED
    BY <2>4
<1>3. N \in T
  <2> HIDE DEF T
  <2> QED
    BY <1>1, <1>2, CountUp
<1>4. \E h : h = [k \in 0 .. Tools!Cardinality(Calls) |->
                    IF k = 0 THEN [s \in Frames |-> [cycle |-> TRUE, visited |-> s.visited]]
                    ELSE Tools!DfsFrame(g, h[k - 1])]
  BY <1>3 DEF first, next
<1>5. PICK f : f = Tools!DfsCycle(g)
  OBVIOUS
<1>6. f = [k \in 0 .. Tools!Cardinality(Calls) |->
             IF k = 0 THEN [s \in Frames |-> [cycle |-> TRUE, visited |-> s.visited]]
             ELSE Tools!DfsFrame(g, f[k - 1])]
  BY <1>4, <1>5, Zenon DEF Tools!DfsCycle, Frames
<1>7. f = [k \in 0 .. N |-> IF k = 0 THEN first ELSE Tools!DfsFrame(g, f[k - 1])]
  BY <1>6 DEF first
<1>8. f[0] = first /\ \A k \in 1 .. N : f[k] = Tools!DfsFrame(g, f[k - 1])
  BY <1>7
<1> QED
  BY <1>5, <1>8 DEF first

(* What a call of dfs_cycle finds and what it answers: the calls it has    *)
(* visited and left are finished, and those on the stack lead to its node. *)
Entered(g, s) ==
  /\ s.stack \subseteq s.visited /\ s.visited \subseteq Calls
  /\ Finished(g, s.visited \ s.stack)
  /\ \A x \in s.stack : s.node \in Up(g, x)

Left(g, visited, stack, ids, r) ==
  /\ r.cycle \in BOOLEAN /\ (r.cycle => Cyclic(g))
  /\ ~r.cycle => /\ visited \subseteq r.visited /\ r.visited \subseteq Calls
                 /\ ids \subseteq r.visited \ stack
                 /\ Finished(g, r.visited \ stack)

Sound(g, dfs, depth) ==
  \A s \in Frames : Entered(g, s) /\ Cardinality(Calls \ s.stack) <= depth
                      => Left(g, s.visited, s.stack, {s.node}, dfs[s])

LEMMA DfsEachSound ==
  ASSUME ToolAssumption, NEW g \in [Calls -> SUBSET Calls], NEW dfs, NEW depth, Sound(g, dfs, depth),
         NEW ids \in SUBSET Calls, NEW visited \in SUBSET Calls, NEW stack, stack \subseteq visited,
         Finished(g, visited \ stack), Cardinality(Calls \ stack) <= depth,
         \A x \in stack : ids \subseteq Up(g, x),
         NEW n, n = Tools!Cardinality(ids)
  PROVE  Left(g, visited, stack, ids, Tools!DfsEach(dfs, ids, visited, stack)[n])
<1>0. IsFiniteSet(ids) /\ n = Cardinality(ids) /\ n \in Nat
  BY FS_Subset, FS_CardinalityType, ToolsCardinality DEF ToolAssumption
<1>1. PICK q : /\ q = Tools!SetToSeq(ids) /\ q \in [1 .. n -> ids]
               /\ \A x \in ids : \E i \in 1 .. n : q[i] = x
  BY <1>0, SetToSeqIs
<1>2. PICK f : f = Tools!DfsEach(dfs, ids, visited, stack)
  OBVIOUS
<1>3. /\ f[0] = [cycle |-> FALSE, visited |-> visited]
      /\ \A i \in 1 .. n : f[i] = Tools!DfsOn(dfs, q[i], stack, f[i - 1])
  <2>1. Tools!Cardinality(ids) \in Nat
    BY <1>0
  <2> QED
    BY <1>1, <1>2, <2>1, DfsEachIs
<1> DEFINE Seen(i) == {q[j] : j \in 1 .. i}
           T == {i \in Nat : i <= n => Left(g, visited, stack, Seen(i), f[i])}
<1>4. 0 \in T
  <2>1. f[0] = [cycle |-> FALSE, visited |-> visited]
    BY <1>0, <1>3
  <2>2. Seen(0) = {}
    OBVIOUS
  <2>3. Left(g, visited, stack, {}, f[0])
    BY <2>1 DEF Left
  <2> QED
    BY <2>2, <2>3
<1>5. ASSUME NEW i \in Nat, i \in T PROVE i + 1 \in T
  <2> SUFFICES ASSUME i + 1 <= n PROVE Left(g, visited, stack, Seen(i + 1), f[i + 1])
    OBVIOUS
  <2>1. i + 1 \in 0 .. n /\ i + 1 # 0 /\ i + 1 - 1 = i /\ i <= n /\ i + 1 \in 1 .. n
    BY <1>0
  <2>2. f[i + 1] = IF f[i].cycle THEN f[i]
                   ELSE dfs[[node |-> q[i + 1], visited |-> f[i].visited, stack |-> stack]]
    <3>1. f[i + 1] = Tools!DfsOn(dfs, q[i + 1], stack, f[i])
      BY <1>3, <2>1
    <3> QED
      BY <3>1 DEF Tools!DfsOn
  <2>3. PICK A : A = Seen(i) /\ Left(g, visited, stack, A, f[i])
    BY <1>5, <2>1
  <2>4. Seen(i + 1) = A \cup {q[i + 1]}
    <3>1. 1 .. i + 1 = (1 .. i) \cup {i + 1}
      OBVIOUS
    <3> QED
      BY <2>3, <3>1
  <2>5. CASE f[i].cycle
    BY <2>2, <2>3, <2>5 DEF Left
  <2>6. CASE ~f[i].cycle
    <3>1. PICK s : s = [node |-> q[i + 1], visited |-> f[i].visited, stack |-> stack]
      OBVIOUS
    <3>2. /\ visited \subseteq f[i].visited /\ f[i].visited \subseteq Calls
          /\ A \subseteq f[i].visited \ stack /\ Finished(g, f[i].visited \ stack)
      BY <2>3, <2>6 DEF Left
    <3>3. q[i + 1] \in ids /\ q[i + 1] \in Calls
      BY <1>1, <2>1
    <3>4. s \in Frames /\ s.node = q[i + 1] /\ s.visited = f[i].visited /\ s.stack = stack
      BY <3>1, <3>2, <3>3 DEF Frames
    <3>5. Entered(g, s)
      BY <3>2, <3>3, <3>4 DEF Entered
    <3>6. PICK r : r = dfs[s] /\ Left(g, s.visited, s.stack, {s.node}, r)
      BY <3>4, <3>5 DEF Sound
    <3>7. f[i + 1] = r
      BY <2>2, <2>6, <3>1, <3>6
    <3> QED
      BY <2>4, <3>2, <3>4, <3>6, <3>7 DEF Left
  <2> QED
    BY <2>5, <2>6
<1>6. Nat \subseteq T
  <2> HIDE DEF T
  <2> QED
    BY <1>4, <1>5, CountUp
<1>7. Left(g, visited, stack, Seen(n), f[n])
  <2>1. n \in T
    <3> HIDE DEF T
    <3> QED
      BY <1>0, <1>6
  <2>2. n <= n
    BY <1>0
  <2> QED
    BY <2>1, <2>2
<1>8. ids = Seen(n)
  BY <1>1
<1> QED
  BY <1>2, <1>7, <1>8

LEMMA DfsFrameSound ==
  ASSUME ToolAssumption, NEW g \in [Calls -> SUBSET Calls], NEW dfs, NEW depth \in Nat,
         Sound(g, dfs, depth)
  PROVE  Sound(g, Tools!DfsFrame(g, dfs), depth + 1)
<1> SUFFICES ASSUME NEW s \in Frames, Entered(g, s), Cardinality(Calls \ s.stack) <= depth + 1
             PROVE  Left(g, s.visited, s.stack, {s.node}, Tools!DfsFrame(g, dfs)[s])
  BY DEF Sound
<1>0. s.node \in Calls /\ s.visited \in SUBSET Calls /\ s.stack \in SUBSET Calls
  BY DEF Frames
<1>1. PICK r : r = Tools!DfsFrame(g, dfs)[s]
  OBVIOUS
<1>2. r = IF s.node \in s.stack THEN [cycle |-> TRUE, visited |-> s.visited]
          ELSE IF s.node \in s.visited THEN [cycle |-> FALSE, visited |-> s.visited]
          ELSE Tools!DfsEach(dfs, g[s.node], s.visited \cup {s.node}, s.stack \cup {s.node})
                 [Tools!Cardinality(g[s.node])]
  BY <1>1 DEF Tools!DfsFrame, Frames
<1>3. CASE s.node \in s.stack
  <2>1. r.cycle = TRUE
    BY <1>2, <1>3
  <2>2. Cyclic(g)
    BY <1>0, <1>3 DEF Entered, Cyclic
  <2> QED
    BY <1>1, <2>1, <2>2 DEF Left
<1>4. CASE s.node \notin s.stack /\ s.node \in s.visited
  <2>1. r.cycle = FALSE /\ r.visited = s.visited
    BY <1>2, <1>4
  <2> QED
    BY <1>0, <1>1, <1>4, <2>1 DEF Entered, Left
<1>5. CASE s.node \notin s.stack /\ s.node \notin s.visited
  <2>1. PICK v, k, ids : v = s.visited \cup {s.node} /\ k = s.stack \cup {s.node} /\ ids = g[s.node]
    OBVIOUS
  <2>2. /\ ids \in SUBSET Calls /\ v \in SUBSET Calls /\ k \subseteq v /\ v \ k = s.visited \ s.stack
        /\ Finished(g, v \ k)
    BY <1>0, <1>5, <2>1 DEF Entered
  <2>3. Cardinality(Calls \ k) <= depth
    <3>0. PICK X : X = Calls \ s.stack
      OBVIOUS
    <3>1. Calls \ k = X \ {s.node} /\ s.node \in X
      BY <1>0, <1>5, <2>1, <3>0
    <3>2. IsFiniteSet(X)
      BY <3>0, FS_Difference DEF ToolAssumption
    <3>3. Cardinality(X \ {s.node}) = Cardinality(X) - 1
      BY <3>1, <3>2, FS_RemoveElement
    <3>4. Cardinality(X) \in Nat /\ Cardinality(X) <= depth + 1
      BY <3>0, <3>2, FS_CardinalityType
    <3>5. PICK m : m = Cardinality(X)
      OBVIOUS
    <3>6. m \in Nat /\ m <= depth + 1 /\ Cardinality(Calls \ k) = m - 1
      BY <3>1, <3>3, <3>4, <3>5, Zenon
    <3> QED
      BY <3>6
  <2>4. ASSUME NEW x \in k PROVE ids \subseteq Up(g, x)
    <3>1. CASE x = s.node
      BY <1>0, <2>1, <3>1, UpIs
    <3>2. CASE x \in s.stack
      <4>1. s.node \in Up(g, x) /\ x \in Calls
        BY <1>0, <3>2 DEF Entered
      <4> QED
        BY <2>1, <4>1, UpIs
    <3> QED
      BY <2>1, <3>1, <3>2
  <2>5. r = Tools!DfsEach(dfs, ids, v, k)[Tools!Cardinality(ids)]
    BY <1>2, <1>5, <2>1
  <2>6. Left(g, v, k, ids, r)
    BY <2>2, <2>3, <2>4, <2>5, DfsEachSound
  <2>7. ASSUME ~r.cycle
        PROVE  /\ s.visited \subseteq r.visited /\ r.visited \subseteq Calls
               /\ s.node \in r.visited \ s.stack /\ Finished(g, r.visited \ s.stack)
    <3>1. PICK F : F = r.visited \ k
      OBVIOUS
    <3>2. v \subseteq r.visited /\ r.visited \subseteq Calls /\ ids \subseteq F /\ Finished(g, F)
      BY <2>6, <2>7, <3>1 DEF Left
    <3>3. r.visited \ s.stack = F \cup {s.node} /\ s.node \notin F
      BY <1>5, <2>1, <3>1, <3>2
    <3>4. Finished(g, F \cup {s.node})
      BY <1>0, <2>1, <3>2, <3>3, FinishOne
    <3> QED
      BY <1>5, <2>1, <3>2, <3>3, <3>4
  <2> QED
    BY <1>1, <2>6, <2>7 DEF Left
<1> QED
  BY <1>3, <1>4, <1>5

(* With as many frames as calls the recursion is complete.                 *)
LEMMA DfsSound ==
  ASSUME ToolAssumption, NEW g \in [Calls -> SUBSET Calls], NEW N \in Nat, N = Tools!Cardinality(Calls)
  PROVE  Sound(g, Tools!DfsCycle(g)[N], N)
<1>1. PICK f : f = Tools!DfsCycle(g)
  OBVIOUS
<1>2. /\ f[0] = [s \in Frames |-> [cycle |-> TRUE, visited |-> s.visited]]
      /\ \A k \in 1 .. N : f[k] = Tools!DfsFrame(g, f[k - 1])
  BY <1>1, DfsCycleIs
<1> DEFINE T == {n \in Nat : n <= N => Sound(g, f[n], n)}
<1>3. 0 \in T
  <2>1. f[0] = [s \in Frames |-> [cycle |-> TRUE, visited |-> s.visited]]
    BY <1>2
  <2>2. ASSUME NEW s \in Frames, Entered(g, s), Cardinality(Calls \ s.stack) <= 0
        PROVE  Left(g, s.visited, s.stack, {s.node}, f[0][s])
    <3>1. IsFiniteSet(Calls \ s.stack)
      BY FS_Difference DEF ToolAssumption
    <3>2. Cardinality(Calls \ s.stack) = 0
      BY <2>2, <3>1, FS_CardinalityType
    <3>3. Calls \ s.stack = {}
      BY <3>1, <3>2, FS_EmptySet
    <3>4. s.node \in Calls /\ s.node \in s.stack
      BY <3>3 DEF Frames
    <3>5. Cyclic(g)
      BY <2>2, <3>4 DEF Entered, Cyclic
    <3>6. f[0][s].cycle = TRUE
      BY <2>1
    <3> QED
      BY <3>5, <3>6 DEF Left
  <2>3. Sound(g, f[0], 0)
    BY <2>2 DEF Sound
  <2> QED
    BY <2>3
<1>4. ASSUME NEW n \in Nat, n \in T PROVE n + 1 \in T
  <2> SUFFICES ASSUME n + 1 <= N PROVE Sound(g, f[n + 1], n + 1)
    OBVIOUS
  <2>1. n + 1 \in 0 .. N /\ n + 1 # 0 /\ n + 1 - 1 = n /\ n <= N
    OBVIOUS
  <2>2. f[n + 1] = Tools!DfsFrame(g, f[n])
    <3>1. n + 1 \in 1 .. N
      BY <2>1
    <3> QED
      BY <1>2, <2>1, <3>1
  <2>3. Sound(g, f[n], n)
    BY <1>4, <2>1
  <2> QED
    BY <2>2, <2>3, DfsFrameSound
<1>5. Nat \subseteq T
  <2> HIDE DEF T
  <2> QED
    BY <1>3, <1>4, CountUp
<1> QED
  BY <1>1, <1>5

(* detect_cycle, once all references are known, is exact.                  *)
LEMMA DetectIsExact ==
  ASSUME ToolAssumption, NEW g \in [Calls -> SUBSET Calls]
  PROVE  /\ Tools!DetectCycle(g) <=> Cyclic(g)
         /\ ~Tools!DetectCycle(g) => Finished(g, Calls)
<1>1. PICK N \in Nat : N = Tools!Cardinality(Calls) /\ N = Cardinality(Calls)
  BY ToolsCardinality, FS_CardinalityType DEF ToolAssumption
<1>2. PICK dfs : dfs = Tools!DfsCycle(g)[N] /\ Sound(g, dfs, N)
  BY <1>1, DfsSound
<1>3. PICK r : r = Tools!DfsEach(dfs, Calls, {}, {})[N]
  OBVIOUS
<1>4. Left(g, {}, {}, Calls, r)
  <2>1. Finished(g, {} \ {})
    BY DEF Finished
  <2>2. Calls \ {} = Calls /\ N <= N
    OBVIOUS
  <2>3. Cardinality(Calls \ {}) <= N
    BY <1>1, <2>2
  <2> QED
    BY <1>1, <1>2, <1>3, <2>1, <2>3, DfsEachSound
<1>5. ~Tools!UnknownReference(g)
  BY DEF Tools!UnknownReference
<1>6. Tools!DetectCycle(g) <=> r.cycle
  BY <1>1, <1>2, <1>3, <1>4, <1>5 DEF Tools!DetectCycle, Left
<1>7. ASSUME ~r.cycle PROVE Finished(g, Calls)
  <2>1. r.visited \ {} = Calls /\ Finished(g, r.visited \ {})
    BY <1>4, <1>7 DEF Left
  <2> QED
    BY <2>1
<1>8. r.cycle => Cyclic(g)
  BY <1>4 DEF Left
<1>9. ~r.cycle => ~Cyclic(g)
  BY <1>7, FinishedAcyclic
<1> QED
  BY <1>6, <1>7, <1>8, <1>9

(* What else the loop of kahn_sort keeps: a call whose blockers are popped *)
(* is popped or queued, it has a blocker in the layer before its own, and  *)
(* every round pops a call.                                                *)
KahnMore(g, s, n) ==
  /\ \A c \in Calls : g[c] \subseteq Popped(s.layers) => c \in Popped(s.layers) \cup s.queue
  /\ \A k \in 2 .. Len(s.layers) : \A c \in s.layers[k] : g[c] \cap s.layers[k - 1] # {}
  /\ \A c \in s.queue : Len(s.layers) > 0 => g[c] \cap s.layers[Len(s.layers)] # {}
  /\ s.queue # {} => Cardinality(Popped(s.layers)) >= n

LEMMA PoppedAppend ==
  ASSUME NEW L \in Seq(SUBSET Calls), NEW S \in SUBSET Calls
  PROVE  Popped(Append(L, S)) = Popped(L) \cup S
<1>0. PICK n, r : r = Append(L, S) /\ n = Len(L)
  OBVIOUS
<1>1. /\ r = Append(L, S) /\ n = Len(L) /\ n \in Nat /\ Len(r) = n + 1 /\ r[n + 1] = S
      /\ \A k \in 1 .. n : r[k] = L[k]
  BY <1>0
<1>2. \A c \in Calls : c \in Popped(r) <=> \E k \in 1 .. n + 1 : c \in r[k]
  BY <1>1 DEF Popped
<1>3. \A c \in Calls : c \in Popped(L) <=> \E k \in 1 .. n : c \in L[k]
  BY <1>1 DEF Popped
<1>4. \A k \in 1 .. n + 1 : k \in 1 .. n \/ k = n + 1
  BY <1>1
<1>5. 1 .. n \subseteq 1 .. n + 1 /\ n + 1 \in 1 .. n + 1
  BY <1>1
<1>6. Popped(r) \subseteq Calls /\ Popped(L) \subseteq Calls
  BY DEF Popped
<1>7. Popped(r) = Popped(L) \cup S
  BY <1>1, <1>2, <1>3, <1>4, <1>5, <1>6, Zenon
<1> QED
  BY <1>1, <1>7

LEMMA KahnMoreStarts ==
  ASSUME ToolAssumption, NEW g \in [Calls -> SUBSET Calls]
  PROVE  KahnMore(g, Tools!KahnStart(g), 0)
<1>1. PICK s : s = Tools!KahnStart(g)
  OBVIOUS
<1>2. s.layers = <<>> /\ s.queue = {c \in Calls : Cardinality(g[c]) = 0}
  BY <1>1, ToolsCardinality DEF Tools!KahnStart, Tools!BuildInDegree
<1>3. Popped(s.layers) = {}
  BY <1>2 DEF Popped
<1>4. \A c \in Calls : g[c] \subseteq {} => c \in s.queue
  BY <1>2, FS_EmptySet
<1>5. Cardinality(Popped(s.layers)) >= 0
  BY <1>3, FS_EmptySet
<1>6. KahnMore(g, s, 0)
  BY <1>2, <1>3, <1>4, <1>5 DEF KahnMore
<1> QED
  BY <1>1, <1>6

LEMMA KahnMoreRounds ==
  ASSUME ToolAssumption, NEW g \in [Calls -> SUBSET Calls], NEW s, NEW n \in Nat,
         KahnInv(g, s), KahnMore(g, s, n)
  PROVE  KahnMore(g, Tools!KahnRound(g, s), n + 1)
<1>0. CASE s.queue = {}
  BY <1>0 DEF Tools!KahnRound, KahnMore
<1>1. CASE s.queue # {}
  <2>1. PICK r : r = Tools!KahnRound(g, s)
    OBVIOUS
  <2>2. /\ r.layers = Append(s.layers, s.queue)
        /\ r.queue = {c \in Calls : g[c] \cap s.queue # {} /\ r.deg[c] = 0}
    BY <1>1, <2>1 DEF Tools!KahnRound
  <2>3. g \in Graphs
    BY DEF Graphs
  <2>4. KahnInv(g, r)
    BY <2>1, <2>3, KahnRounds
  <2>5. PICK m \in Nat : /\ m = Len(s.layers) /\ Len(r.layers) = m + 1 /\ r.layers[m + 1] = s.queue
                         /\ \A k \in 1 .. m : r.layers[k] = s.layers[k]
    BY <2>2 DEF KahnInv, Layered
  <2>6. PICK P, Q : P = Popped(s.layers) /\ Q = Popped(r.layers)
    OBVIOUS
  <2>7. Q = P \cup s.queue /\ s.queue \cap P = {} /\ P \subseteq Calls /\ s.queue \subseteq Calls
    <3>1. s.layers \in Seq(SUBSET Calls) /\ s.queue \in SUBSET Calls /\ s.queue \cap Popped(s.layers) = {}
      BY DEF KahnInv, Layered
    <3>2. P \subseteq Calls
      BY <2>6 DEF Popped
    <3> QED
      BY <2>2, <2>6, <3>1, <3>2, PoppedAppend
  <2>8. ASSUME NEW c \in Calls, g[c] \subseteq Q PROVE c \in Q \cup r.queue
    <3>1. CASE g[c] \subseteq P
      BY <2>6, <2>7, <3>1 DEF KahnMore
    <3>2. CASE ~(g[c] \subseteq P)
      <4>1. g[c] \cap s.queue # {}
        BY <2>7, <2>8, <3>2
      <4>2. g[c] \ Q = {}
        BY <2>8
      <4>3. r.deg[c] = 0
        BY <2>4, <2>6, <4>2, FS_EmptySet DEF KahnInv
      <4> QED
        BY <2>2, <4>1, <4>3
    <3> QED
      BY <3>1, <3>2
  <2>9. ASSUME NEW k \in 2 .. m + 1, NEW c \in r.layers[k] PROVE g[c] \cap r.layers[k - 1] # {}
    <3>1. CASE k \in 2 .. m
      <4>1. k \in 1 .. m /\ k - 1 \in 1 .. m
        BY <3>1
      <4> QED
        BY <2>5, <2>9, <3>1, <4>1 DEF KahnMore
    <3>2. CASE k = m + 1
      <4>1. m > 0 /\ k - 1 = m /\ m \in 1 .. m
        BY <3>2
      <4>2. c \in s.queue /\ r.layers[m] = s.layers[m]
        BY <2>5, <2>9, <3>2, <4>1
      <4> QED
        BY <2>5, <4>1, <4>2 DEF KahnMore
    <3> QED
      BY <3>1, <3>2
  <2>10. \A c \in r.queue : g[c] \cap r.layers[m + 1] # {}
    BY <2>2, <2>5
  <2>11. Cardinality(Q) >= n + 1
    <3>1. PICK a, b : a = Cardinality(P) /\ b = Cardinality(Q)
      OBVIOUS
    <3>2. IsFiniteSet(P) /\ IsFiniteSet(Q)
      BY <2>7, FS_Subset DEF ToolAssumption
    <3>3. P \in SUBSET Q /\ P # Q
      BY <1>1, <2>7
    <3>4. a <= b /\ a # b
      BY <3>1, <3>2, <3>3, FS_Subset
    <3>5. a \in Nat /\ b \in Nat
      BY <3>1, <3>2, FS_CardinalityType
    <3>6. a >= n
      BY <1>1, <2>6, <3>1 DEF KahnMore
    <3>7. b >= n + 1
      BY <3>4, <3>5, <3>6
    <3> QED
      BY <3>1, <3>7
  <2>12. KahnMore(g, r, n + 1)
    BY <2>5, <2>6, <2>8, <2>9, <2>10, <2>11 DEF KahnMore
  <2> QED
    BY <2>1, <2>12
<1> QED
  BY <1>0, <1>1

(* Without a cycle kahn_sort leaves no call out.                           *)
LEMMA KahnSortsAll ==
  ASSUME ToolAssumption, NEW g \in [Calls -> SUBSET Calls], Finished(g, Calls)
  PROVE  LET layers == Tools!KahnSort(g) IN
         /\ Layered(g, layers)
         /\ \A c \in Calls : \E k \in 1 .. Len(layers) : c \in layers[k]
         /\ \A k \in 2 .. Len(layers) : \A c \in layers[k] : g[c] \cap layers[k - 1] # {}
<1>0. g \in Graphs
  BY DEF Graphs
<1>1. PICK N \in Nat : N = Tools!Cardinality(Calls) /\ N = Cardinality(Calls)
  BY ToolsCardinality, FS_CardinalityType DEF ToolAssumption
<1>2. PICK f : f = Tools!KahnLoop(g)
  OBVIOUS
<1>3. f = [k \in 0 .. N |-> IF k = 0 THEN Tools!KahnStart(g) ELSE Tools!KahnRound(g, f[k - 1])]
  BY <1>1, <1>2, KahnLoopIs
<1> DEFINE T == {n \in Nat : n <= N => KahnInv(g, f[n]) /\ KahnMore(g, f[n], n)}
<1>4. 0 \in T
  <2>1. f[0] = Tools!KahnStart(g)
    BY <1>3
  <2> QED
    BY <1>0, <2>1, KahnStarts, KahnMoreStarts
<1>5. ASSUME NEW n \in Nat, n \in T PROVE n + 1 \in T
  <2> SUFFICES ASSUME n + 1 <= N PROVE KahnInv(g, f[n + 1]) /\ KahnMore(g, f[n + 1], n + 1)
    OBVIOUS
  <2>1. n + 1 \in 0 .. N /\ n + 1 # 0 /\ n + 1 - 1 = n /\ n <= N
    BY <1>1
  <2>2. f[n + 1] = Tools!KahnRound(g, f[n])
    BY <1>3, <2>1
  <2>3. KahnInv(g, f[n]) /\ KahnMore(g, f[n], n)
    BY <1>5, <2>1
  <2> QED
    BY <1>0, <2>2, <2>3, KahnRounds, KahnMoreRounds
<1>6. Nat \subseteq T
  <2> HIDE DEF T
  <2> QED
    BY <1>4, <1>5, CountUp
<1>7. PICK s : s = f[N] /\ KahnInv(g, s) /\ KahnMore(g, s, N)
  BY <1>1, <1>6
<1>8. PICK P : P = Popped(s.layers) /\ P \subseteq Calls
  BY DEF Popped
<1>9. s.queue = {}
  <2> SUFFICES ASSUME s.queue # {} PROVE FALSE
    OBVIOUS
  <2>1. Cardinality(P) >= N
    BY <1>7, <1>8 DEF KahnMore
  <2>2. IsFiniteSet(P) /\ Cardinality(P) <= N /\ (Cardinality(P) = N => P = Calls)
    BY <1>1, <1>8, FS_Subset DEF ToolAssumption
  <2>3. Cardinality(P) \in Nat
    BY <2>2, FS_CardinalityType
  <2>4. Cardinality(P) = N
    BY <1>1, <2>1, <2>2, <2>3
  <2> QED
    BY <1>7, <1>8, <2>2, <2>4 DEF KahnInv
<1>10. P = Calls
  <2>1. PICK U : U = Calls \ P
    OBVIOUS
  <2>2. ASSUME NEW c \in U PROVE g[c] \cap U # {}
    <3>1. ~(g[c] \subseteq P)
      BY <1>7, <1>8, <1>9, <2>1 DEF KahnMore
    <3>2. g[c] \subseteq Calls
      BY <2>1
    <3> QED
      BY <2>1, <3>1, <3>2
  <2>3. U = {}
    BY <2>1, <2>2 DEF Finished
  <2> QED
    BY <1>8, <2>1, <2>3
<1>11. s.layers = Tools!KahnSort(g)
  BY <1>1, <1>2, <1>7 DEF Tools!KahnSort
<1>12. /\ Layered(g, s.layers)
       /\ \A c \in Calls : \E k \in 1 .. Len(s.layers) : c \in s.layers[k]
       /\ \A k \in 2 .. Len(s.layers) : \A c \in s.layers[k] : g[c] \cap s.layers[k - 1] # {}
  BY <1>7, <1>8, <1>10 DEF KahnInv, KahnMore, Popped
<1> QED
  BY <1>11, <1>12

(* For any finite set of calls: execute() refuses a set exactly when a     *)
(* blocked_by list names a call that is not there or some call comes       *)
(* before itself; from every other set kahn_sort makes layers that hold    *)
(* each call once, in the layer right after the last of its blockers.      *)
THEOREM ToolSetsAreSorted ==
  ASSUME ToolAssumption
  PROVE  Tools!Spec => []SortsExactlyTheDags
<1>1. Tools!Init => ToolInv
  BY ToolInit
<1>2. ToolInv /\ [Tools!Next]_(Tools!vars) => ToolInv'
  BY ToolStep
<1>3. ToolInv => SortsExactlyTheDags
  <2> SUFFICES ASSUME ToolInv, request.type = "tool_call_set" PROVE Tools!SortsExactlyTheDags
    BY DEF SortsExactlyTheDags, Tools!SortsExactlyTheDags
  <2>1. PICK g : g = deps /\ g \in [Calls -> SUBSET (Calls \cup {Stranger})]
    BY DEF ToolInv, ToolType, Graphs
  <2>2. CASE Tools!UnknownReference(g)
    <3>1. Tools!DetectCycle(g)
      BY <2>2 DEF Tools!DetectCycle
    <3> QED
      BY <2>1, <2>2, <3>1 DEF Tools!SortsExactlyTheDags
  <2>3. CASE ~Tools!UnknownReference(g)
    <3>1. g \in [Calls -> SUBSET Calls]
      BY <2>1, <2>3 DEF Tools!UnknownReference
    <3>2. \A c \in Calls : Tools!Before(c, c) <=> c \in Up(g, c)
      <4>1. \A e \in Calls : g[e] \cap Calls = g[e]
        BY <3>1
      <4>2. \A S \in SUBSET Calls : \A e \in S : g[e] \cap Calls = g[e]
        BY <4>1
      <4> SUFFICES ASSUME NEW c \in Calls PROVE Tools!Before(c, c) <=> c \in Up(g, c)
        OBVIOUS
      <4>3. Tools!Before(c, c) <=>
              \A S \in SUBSET Calls : g[c] \subseteq S /\ (\A e \in S : g[e] \subseteq S) => c \in S
        BY <2>1, <4>1, <4>2 DEF Tools!Before
      <4> QED
        BY <4>3 DEF Up
    <3>3. Tools!DetectCycle(g) <=> Tools!UnknownReference(g) \/ \E c \in Calls : Tools!Before(c, c)
      BY <2>3, <3>1, <3>2, DetectIsExact DEF Cyclic
    <3>4. ASSUME ~Tools!DetectCycle(g), NEW c \in Calls, NEW L, L = Tools!KahnSort(g)
          PROVE  \E n \in DOMAIN L :
                   /\ \A m \in DOMAIN L : c \in L[m] <=> m = n
                   /\ n = 1 \/ g[c] \cap L[n - 1] # {}
                   /\ g[c] \subseteq UNION {L[m] : m \in 1 .. n - 1}
      <4>1. /\ Layered(g, L)
            /\ \A d \in Calls : \E k \in 1 .. Len(L) : d \in L[k]
            /\ \A k \in 2 .. Len(L) : \A d \in L[k] : g[d] \cap L[k - 1] # {}
        BY <3>1, <3>4, DetectIsExact, KahnSortsAll
      <4>2. PICK n \in 1 .. Len(L) : c \in L[n]
        BY <4>1
      <4>3. L \in Seq(SUBSET Calls) /\ DOMAIN L = 1 .. Len(L) /\ Len(L) \in Nat
        BY <4>1 DEF Layered
      <4>4. \A m \in DOMAIN L : c \in L[m] <=> m = n
        BY <4>1, <4>2, <4>3 DEF Layered
      <4>5. n = 1 \/ g[c] \cap L[n - 1] # {}
        BY <4>1, <4>2, <4>3
      <4>6. g[c] \subseteq UNION {L[m] : m \in 1 .. n - 1}
        BY <4>1, <4>2 DEF Layered
      <4>7. n \in DOMAIN L
        BY <4>3
      <4> WITNESS n \in DOMAIN L
      <4> QED
        BY <4>4, <4>5, <4>6
    <3>5. PICK L : L = Tools!KahnSort(g)
      OBVIOUS
    <3> QED
      BY <2>1, <3>3, <3>4, <3>5 DEF Tools!SortsExactlyTheDags
  <2> QED
    BY <2>2, <2>3
<1> QED
  BY <1>1, <1>2, <1>3, PTL DEF Tools!Spec
=============================================================================
