-------------------------------- MODULE Team --------------------------------
(***************************************************************************)
(* The Python team API (py-arf/src/team/team_builder.rs): TeamBuilder      *)
(* connects one engine node per spec to the Bus, Team starts and stops     *)
(* them, and PoolHandle.delegate connects a node of its own, sends one     *)
(* subagent_delegate and waits for the subagent_result.  A NodeHandle that *)
(* is dropped without disconnect() stays registered on the Bus until the   *)
(* heartbeat evicts it, and its id cannot connect meanwhile (module Bus);  *)
(* the pool behind the handle is module SubagentPool, reduced here to the  *)
(* answers it sends, early, late or never.                                 *)
(***************************************************************************)
EXTENDS Naturals, Sequences

CONSTANTS
  NumEngines,  \* persistent_engines[] of the team's configuration
  Calls,       \* coroutines that call delegate() on one pool, also again
  Texts,       \* user messages they pass to it
  NoCall,      \* nobody
  MaxDelegates \* bound: requests they send

VARIABLES
  node,      \* [Nodes -> {"off", "on", "zombie"}]: the Bus's registry
  building,  \* engines build() has connected so far, or NoCall when it is not running
  roster,    \* Team.persistent_engines
  handles,   \* engines the App holds an EngineHandle of
  started,   \* Team.started
  pool,      \* is the pool's listener on the Bus?
  owner,     \* the coroutine whose subscription holds the handle's node id
  inbox,     \* the results forwarded to it
  asked,     \* requests the pool has not answered
  pc,        \* [Calls -> {"new", "wait", "ok", "raised"}]: of its last delegate()
  request,   \* [Calls -> request]: what its last delegate() sent
  got,       \* [Calls -> task]: the task whose result it last returned
  sent       \* ids given out so far

teamVars == <<building, roster, handles, started>>
callVars == <<pool, owner, inbox, asked, pc, request, got, sent>>
vars == <<node, teamVars, callVars>>

TeamEngines == 1..NumEngines
Me == 0                       \* py-arf/pool-handle/<pool_id>
Nodes == TeamEngines \cup {Me}

(* A subagent_delegate, and the subagent_result that echoes its id: the    *)
(* result is that of the task.                                             *)
NoRequest == [cid |-> 0, task |-> NoCall]

Init ==
  /\ node = [n \in Nodes |-> "off"]
  /\ building = NoCall /\ roster = {} /\ handles = {} /\ started = FALSE
  /\ pool = FALSE /\ owner = NoCall /\ inbox = <<>> /\ asked = {}
  /\ pc = [c \in Calls |-> "new"] /\ request = [c \in Calls |-> NoRequest]
  /\ got = [c \in Calls |-> NoCall] /\ sent = 0

Drop(ns) == [n \in Nodes |-> IF n \in ns THEN "zombie" ELSE node[n]]

(* heartbeat_check removes a node that acks no more.                       *)
Evict(n) ==
  /\ node[n] = "zombie"
  /\ node' = [node EXCEPT ![n] = "off"]
  /\ UNCHANGED <<teamVars, callVars>>

-----------------------------------------------------------------------------
(* TeamBuilder.build: engines in the order of the specs, then the pools.   *)
Build ==
  /\ building = NoCall /\ roster = {}
  /\ building' = {}
  /\ UNCHANGED <<node, roster, handles, started, callVars>>

BuildEngine ==
  /\ building # NoCall
  /\ \E n \in TeamEngines \ building :
       /\ \A k \in TeamEngines : k < n => k \in building
       /\ node[n] = "off"
       /\ node' = [node EXCEPT ![n] = "on"]
       /\ building' = building \cup {n}
  /\ UNCHANGED <<roster, handles, started, callVars>>

(* A configuration that does not load or an id still registered: the error *)
(* leaves by ?, and the engines built before it are dropped with the map.  *)
BuildFails ==
  /\ building # NoCall
  /\ node' = Drop(building)
  /\ building' = NoCall
  /\ UNCHANGED <<roster, handles, started, callVars>>

BuildDone ==
  /\ building = TeamEngines
  /\ roster' = TeamEngines /\ building' = NoCall
  /\ started' = FALSE
  /\ UNCHANGED <<node, handles, callVars>>

(* Team.start sets started before it populates the pools.                  *)
Start ==
  /\ roster # {}
  /\ started' = TRUE
  /\ UNCHANGED <<node, building, roster, handles, callVars>>

(* Team.engine(id).                                                        *)
TakeHandle(n) ==
  /\ n \in roster \ handles
  /\ handles' = handles \cup {n}
  /\ UNCHANGED <<node, building, roster, started, callVars>>

(* The last owner of an engine takes its NodeHandle with it.               *)
DropHandle(n) ==
  /\ n \in handles
  /\ handles' = handles \ {n}
  /\ node' = IF n \in roster THEN node ELSE Drop({n})
  /\ UNCHANGED <<building, roster, started, callVars>>

(* Team.stop clears the maps.                                              *)
Stop ==
  /\ roster # {}
  /\ node' = Drop(roster \ handles)
  /\ roster' = {} /\ started' = FALSE
  /\ UNCHANGED <<building, handles, callVars>>

-----------------------------------------------------------------------------
(* PoolHandle.connect_to_bus.                                              *)
ConnectPool ==
  /\ ~pool
  /\ pool' = TRUE
  /\ UNCHANGED <<node, teamVars, owner, inbox, asked, pc, request, got, sent>>

(* Seeded fault: requests bear the id of the pool, as parent_session_id.   *)
FaultyNewId == 0

(* Uuid::new_v4.                                                           *)
NewId == sent + 1

(* delegate, the first time or after another call of the same coroutine:   *)
(* the pool's node must be in the graph, the subscription opens before the *)
(* request is sent.                                                        *)
Delegate(c) ==
  /\ pc[c] # "wait"
  /\ \/ /\ ~pool \/ node[Me] # "off"
        /\ pc' = [pc EXCEPT ![c] = "raised"]
        /\ UNCHANGED <<node, owner, inbox, asked, request, sent>>
     \/ /\ pool /\ node[Me] = "off" /\ sent < MaxDelegates
        /\ node' = [node EXCEPT ![Me] = "on"]
        /\ owner' = c /\ inbox' = <<>>
        /\ sent' = sent + 1
        /\ \E user_message \in Texts :
             request' = [request EXCEPT ![c] = [cid |-> NewId, task |-> user_message]]
        /\ asked' = asked \cup {request'[c]}
        /\ pc' = [pc EXCEPT ![c] = "wait"]
  /\ UNCHANGED <<teamVars, pool, got>>

(* The pool answers a request; the Bus forwards the result to whoever is   *)
(* subscribed under the handle's id at that moment.                        *)
PoolReplies ==
  \E r \in asked :
    /\ asked' = asked \ {r}
    /\ inbox' = IF owner = NoCall THEN inbox ELSE Append(inbox, r)
    /\ UNCHANGED <<node, teamVars, pool, owner, pc, request, got, sent>>

(* The call ends and its subscription goes out of scope.                   *)
Leave(c, how) ==
  /\ pc' = [pc EXCEPT ![c] = how]
  /\ owner' = NoCall /\ inbox' = <<>>
  /\ node' = Drop({Me})

(* The first subagent_result decides; one with another correlation id is   *)
(* an error, and so is one of its own with ok = false.                     *)
DelegateRecv(c) ==
  /\ pc[c] = "wait" /\ inbox # <<>>
  /\ \/ /\ Head(inbox).cid = request[c].cid
        /\ got' = [got EXCEPT ![c] = Head(inbox).task] /\ Leave(c, "ok")
     \/ UNCHANGED got /\ Leave(c, "raised")
  /\ UNCHANGED <<teamVars, pool, asked, request, sent>>

DelegateTimeout(c) ==
  /\ pc[c] = "wait"
  /\ Leave(c, "raised")
  /\ UNCHANGED <<teamVars, pool, asked, request, got, sent>>

-----------------------------------------------------------------------------
Next ==
  \/ Build \/ BuildEngine \/ BuildFails \/ BuildDone \/ Start \/ Stop \/ ConnectPool
  \/ \E n \in TeamEngines : TakeHandle(n) \/ DropHandle(n)
  \/ \E n \in Nodes : Evict(n)
  \/ PoolReplies
  \/ \E c \in Calls : Delegate(c) \/ DelegateRecv(c) \/ DelegateTimeout(c)

(* tokio runs the coroutine and its timer; the pool may never answer.      *)
Spec == /\ Init /\ [][Next]_vars
        /\ \A c \in Calls : WF_vars(DelegateRecv(c)) /\ WF_vars(DelegateTimeout(c))

-----------------------------------------------------------------------------
(* A delegate() that succeeds returns the result of the task it was given, *)
(* although every call subscribes under the same node id and the answer to *)
(* one that timed out, of this coroutine or of another, can arrive while a *)
(* later one waits: only the ids are compared.                             *)
OwnResult == \A c \in Calls : pc[c] = "ok" => got[c] = request[c].task

(* Every delegate() returns, answered or not.                              *)
DelegateReturns == \A c \in Calls : (pc[c] = "wait") ~> (pc[c] \in {"ok", "raised"})

(* What the comment in Team.stop says of the engines it drops: "each       *)
(* Engine's NodeHandle is dropped, which (via Drop) disconnects from the   *)
(* Bus".  NodeHandle has no Drop, so their nodes stay online.              *)
StopDisconnects ==
  building = NoCall => \A n \in TeamEngines \ (roster \cup handles) : node[n] = "off"
=============================================================================
