-------------------------------- MODULE Bus ---------------------------------
(***************************************************************************)
(* The broadcast bus of crates/arf-bus: the message loop with its bounded  *)
(* command queue and its registry of online nodes, the heartbeat, and the  *)
(* NodeHandles, each with a forwarding task that acks heartbeats, filters  *)
(* and moves messages from the broadcast ring to a bounded inbound queue.  *)
(*                                                                         *)
(* A handle is one NodeHandle object; several may carry the same NodeId,   *)
(* one after the other or, once the bus has dropped an id, side by side.   *)
(* Messages are what the bus tells apart: heartbeat_request, node_online,  *)
(* node_offline and application messages with their `to` list.  tokio's    *)
(* broadcast channel is the ring of the last RingCap messages and, for     *)
(* each receiver, how many of them it has not read; RingCap + 1 stands for *)
(* "lagged".  Time is counted in heartbeat ticks.                          *)
(***************************************************************************)
EXTENDS Integers, Sequences, FiniteSets

CONSTANTS
  Nodes,         \* NodeIds
  Handles,       \* NodeHandle objects that may exist at once
  NodeOf,        \* the NodeId each handle connects as
  ToMatch,       \* MessageFilter.to_match of each handle
  Types,         \* message types each handle's filter lets through
  Targets,       \* `to` lists of application messages
  CmdCap,        \* capacity of the command channel
  RingCap,       \* capacity of the broadcast channel
  InboundCap,    \* capacity of a subscription's inbound channel
  TimeoutTicks   \* heartbeat_timeout / heartbeat_interval

ASSUME BusAssumption ==
  /\ IsFiniteSet(Nodes) /\ IsFiniteSet(Handles)
  /\ NodeOf \in [Handles -> Nodes]
  /\ ToMatch \in [Handles -> {"All", "BroadcastOnly", "DirectedToMe", "BroadcastAndDirectedToMe"}]
  /\ Types \in [Handles -> SUBSET {"app", "node_online", "node_offline"}]
  /\ Targets \subseteq SUBSET Nodes
  /\ CmdCap \in Nat \ {0} /\ RingCap \in Nat \ {0} /\ InboundCap \in Nat \ {0}
  /\ TimeoutTicks \in Nat

VARIABLES
  owner,    \* whoever holds the Bus: up, stopping, signalled, abandoned, down
  busTx,    \* Bus.broadcast_tx is Some
  running,  \* run_message_loop has not returned
  cmdq,     \* the command channel
  online,   \* keys of the nodes map
  late,     \* ticks since last_ack of each online node
  ring,     \* the broadcast channel's last messages, oldest first
  phase,    \* what the user of each handle is doing
  fwd,      \* where each forwarding task is
  unread,   \* messages each forwarding task has not read, RingCap + 1: lagged
  held,     \* the message a forwarding task is pushing
  inbound   \* the inbound channel of each handle

busVars  == <<owner, busTx>>
loopVars == <<running, online, late, ring>>
fwdVars  == <<fwd, unread, held, inbound>>
vars == <<busVars, loopVars, cmdq, phase, fwdVars>>

Heartbeat == [type |-> "heartbeat_request", node |-> {}, to |-> {}]
NodeOnline(n) == [type |-> "node_online", node |-> {n}, to |-> {}]
NodeOffline(n) == [type |-> "node_offline", node |-> {n}, to |-> {}]
App(to) == [type |-> "app", node |-> {}, to |-> to]
Nothing == [type |-> "none", node |-> {}, to |-> {}]

Messages ==
  {Heartbeat} \cup {NodeOnline(n) : n \in Nodes} \cup {NodeOffline(n) : n \in Nodes}
    \cup {App(to) : to \in Targets}

(* MessageFilter::matches *)
Matches(h, m) ==
  /\ m.type \in Types[h]
  /\ \/ ToMatch[h] = "All"
     \/ ToMatch[h] \in {"BroadcastOnly", "BroadcastAndDirectedToMe"} /\ m.to = {}
     \/ ToMatch[h] \in {"DirectedToMe", "BroadcastAndDirectedToMe"} /\ NodeOf[h] \in m.to

(* A call that waits for the loop's answer, and the command it queued.     *)
Calls == {"connecting", "sending", "leaving"}
Command(h, op, to) == [op |-> op, handle |-> {h}, node |-> NodeOf[h], to |-> to]
Ack(n)   == [op |-> "ack", handle |-> {}, node |-> n, to |-> {}]
Shutdown == [op |-> "shutdown", handle |-> {}, node |-> CHOOSE n \in Nodes : TRUE, to |-> {}]

(* The user holds the handle, and with it the inbound receiver.            *)
Holding == {"open", "polling", "sending", "leaving"}
Gone(h) == phase[h] \notin Holding

Init ==
  /\ owner = "up" /\ busTx = TRUE /\ running = TRUE /\ cmdq = <<>>
  /\ online = {} /\ late = [n \in Nodes |-> 0] /\ ring = <<>>
  /\ phase = [h \in Handles |-> "new"]
  /\ fwd = [h \in Handles |-> "exit"]
  /\ unread = [h \in Handles |-> 0]
  /\ held = [h \in Handles |-> Nothing]
  /\ inbound = [h \in Handles |-> <<>>]

-----------------------------------------------------------------------------
(* Channels *)

Room == Len(cmdq) < CmdCap
Enqueue(c) == cmdq' = Append(cmdq, c)

LastOf(q, n) == IF Len(q) <= n THEN q ELSE SubSeq(q, Len(q) - n + 1, Len(q))

(* broadcast::Sender::send of each message of ms in turn.                  *)
Publish(ms) ==
  /\ ring' = LastOf(ring \o ms, RingCap)
  /\ unread' = [h \in Handles |->
       IF fwd[h] = "exit" THEN 0
       ELSE IF unread[h] + Len(ms) > RingCap THEN RingCap + 1 ELSE unread[h] + Len(ms)]

(* All broadcast senders are dropped.                                      *)
Closed == ~running /\ ~busTx

-----------------------------------------------------------------------------
(* The user of a handle *)

(* A handle takes its inbound receiver and what it buffers with it.        *)
DropInbound(hs) == inbound' = [h \in Handles |-> IF h \in hs THEN <<>> ELSE inbound[h]]

(* Bus::connect and attach_to: the command, then, registered, subscribe.   *)
Connect(h) ==
  /\ phase[h] = "new" /\ owner \in {"up", "signalled"}
  /\ \/ running /\ Room /\ Enqueue(Command(h, "connect", {}))
        /\ phase' = [phase EXCEPT ![h] = "connecting"]
     \/ ~running /\ phase' = [phase EXCEPT ![h] = "refused"] /\ UNCHANGED cmdq
  /\ UNCHANGED <<busVars, loopVars, fwdVars>>

Subscribe(h) ==
  /\ phase[h] = "registered"
  /\ \/ /\ busTx
        /\ phase' = [phase EXCEPT ![h] = "open"]
        /\ fwd' = [fwd EXCEPT ![h] = "wait"]
        /\ unread' = [unread EXCEPT ![h] = 0]
        /\ UNCHANGED <<held, inbound>>
     \/ /\ ~busTx
        /\ phase' = [phase EXCEPT ![h] = "panicked"]
        /\ UNCHANGED fwdVars
  /\ UNCHANGED <<busVars, loopVars, cmdq>>

(* send_via; a closed channel returns BusClosed and changes nothing.       *)
Send(h) ==
  /\ phase[h] = "open" /\ running /\ Room
  /\ \E to \in Targets : Enqueue(Command(h, "send", to))
  /\ phase' = [phase EXCEPT ![h] = "sending"]
  /\ UNCHANGED <<busVars, loopVars, fwdVars>>

(* recv: a message is taken, at once or after waiting for it.              *)
Recv(h) ==
  /\ phase[h] = "open" /\ inbound[h] # <<>>
  /\ inbound' = [inbound EXCEPT ![h] = Tail(inbound[h])]
  /\ UNCHANGED <<busVars, loopVars, cmdq, phase, fwd, unread, held>>

(* recv and try_recv: the queue is seen empty, then is_closed is asked;    *)
(* the forwarding task may push and exit in between.                       *)
RecvEmpty(h) ==
  /\ phase[h] = "open" /\ inbound[h] = <<>>
  /\ phase' = [phase EXCEPT ![h] = "polling"]
  /\ UNCHANGED <<busVars, loopVars, cmdq, fwdVars>>

RecvIsClosed(h) ==
  /\ phase[h] = "polling"
  /\ \/ fwd[h] = "exit" /\ phase' = [phase EXCEPT ![h] = "closed"] /\ DropInbound({h})
     \/ fwd[h] # "exit" /\ phase' = [phase EXCEPT ![h] = "open"] /\ UNCHANGED inbound
  /\ UNCHANGED <<busVars, loopVars, cmdq, fwd, unread, held>>

Disconnect(h) ==
  /\ phase[h] = "open"
  /\ \/ running /\ Room /\ Enqueue(Command(h, "disconnect", {}))
        /\ phase' = [phase EXCEPT ![h] = "leaving"]
        /\ UNCHANGED inbound
     \/ ~running /\ phase' = [phase EXCEPT ![h] = "left"] /\ DropInbound({h})
        /\ UNCHANGED cmdq
  /\ UNCHANGED <<busVars, loopVars, fwd, unread, held>>

(* The handle goes out of scope without disconnect().                      *)
DropHandle(h) ==
  /\ phase[h] = "open"
  /\ phase' = [phase EXCEPT ![h] = "dropped"]
  /\ DropInbound({h})
  /\ UNCHANGED <<busVars, loopVars, cmdq, fwd, unread, held>>

(* The NodeId connects again once nothing of this handle is left.          *)
Reconnect(h) ==
  /\ phase[h] \in {"refused", "left", "dropped", "closed"} /\ fwd[h] = "exit"
  /\ phase' = [phase EXCEPT ![h] = "new"]
  /\ unread' = [unread EXCEPT ![h] = 0]
  /\ UNCHANGED <<busVars, loopVars, cmdq, fwd, held, inbound>>

-----------------------------------------------------------------------------
(* Seeded fault of the forwarding task: it never asks whether its handle   *)
(* is gone.                                                                *)
FaultyNextRound(h) == fwd' = [fwd EXCEPT ![h] = "wait"]

-----------------------------------------------------------------------------
(* The forwarding task.  is_closed is asked at the top of its loop, which  *)
(* it reaches without awaiting from the end of every branch.               *)
NextRound(h) == fwd' = [fwd EXCEPT ![h] = IF Gone(h) THEN "exit" ELSE "wait"]

(* The oldest message the task has not read.                               *)
Unread(h) == ring[Len(ring) - unread[h] + 1]

ForwardRecv(h) ==
  /\ fwd[h] = "wait" /\ unread[h] \in 1..RingCap
  /\ unread' = [unread EXCEPT ![h] = @ - 1]
  /\ LET m == Unread(h) IN
     \/ /\ m = Heartbeat
        /\ fwd' = [fwd EXCEPT ![h] = "ack"] /\ UNCHANGED held
     \/ /\ m # Heartbeat /\ ~Matches(h, m)
        /\ NextRound(h) /\ UNCHANGED held
     \/ /\ m # Heartbeat /\ Matches(h, m)
        /\ fwd' = [fwd EXCEPT ![h] = "push"]
        /\ held' = [held EXCEPT ![h] = m]
  /\ UNCHANGED <<busVars, loopVars, cmdq, phase, inbound>>

ForwardLagged(h) ==
  /\ fwd[h] = "wait" /\ unread[h] > RingCap
  /\ unread' = [unread EXCEPT ![h] = RingCap]
  /\ NextRound(h)
  /\ UNCHANGED <<busVars, loopVars, cmdq, phase, held, inbound>>

ForwardClosed(h) ==
  /\ fwd[h] = "wait" /\ unread[h] = 0 /\ Closed
  /\ fwd' = [fwd EXCEPT ![h] = "exit"]
  /\ UNCHANGED <<busVars, loopVars, cmdq, phase, unread, held, inbound>>

ForwardAck(h) ==
  /\ fwd[h] = "ack"
  /\ \/ running /\ Room /\ Enqueue(Ack(NodeOf[h]))
     \/ ~running /\ UNCHANGED cmdq
  /\ NextRound(h)
  /\ UNCHANGED <<busVars, loopVars, phase, unread, held, inbound>>

ForwardPush(h) ==
  /\ fwd[h] = "push"
  /\ \/ /\ Gone(h)
        /\ fwd' = [fwd EXCEPT ![h] = "exit"]
        /\ unread' = [unread EXCEPT ![h] = 0] /\ UNCHANGED inbound
     \/ /\ ~Gone(h) /\ Len(inbound[h]) < InboundCap
        /\ inbound' = [inbound EXCEPT ![h] = Append(@, held[h])]
        /\ fwd' = [fwd EXCEPT ![h] = "wait"] /\ UNCHANGED unread
  /\ held' = [held EXCEPT ![h] = Nothing]
  /\ UNCHANGED <<busVars, loopVars, cmdq, phase>>

-----------------------------------------------------------------------------
(* The message loop: one branch of its select! per step *)

Take(op) == running /\ cmdq # <<>> /\ Head(cmdq).op = op /\ cmdq' = Tail(cmdq)

Answer(c, step) == phase' = [h \in Handles |-> IF h \in c.handle THEN step ELSE phase[h]]

(* Seeded faults of the loop: shutdown keeps the answer channels of what   *)
(* it drops from the queue; ...                                            *)
FaultyLoopShutdown ==
  /\ running /\ cmdq # <<>> /\ Head(cmdq).op = "shutdown"
  /\ running' = FALSE
  /\ cmdq' = <<>>
  /\ UNCHANGED <<busVars, online, late, ring, phase, fwdVars>>

(* ... a node that leaves is removed without node_offline; ...              *)
SilentDisconnect ==
  /\ Take("disconnect")
  /\ LET c == Head(cmdq) IN
     /\ online' = online \ {c.node}
     /\ late' = [late EXCEPT ![c.node] = 0]
     /\ Answer(c, "left")
     /\ DropInbound(c.handle)
  /\ UNCHANGED <<busVars, running, ring, fwd, unread, held>>

(* ... `>=` for `>` in the comparison with the timeout.                    *)
HastyTick ==
  /\ running
  /\ LET dead == {n \in online : late[n] + 1 >= TimeoutTicks} IN
     /\ online' = online \ dead
     /\ late' = [n \in Nodes |-> IF n \in online \ dead THEN late[n] + 1 ELSE 0]
     /\ Publish(<<Heartbeat>>)
  /\ UNCHANGED <<busVars, running, cmdq, phase, fwd, held, inbound>>

LoopSend ==
  /\ Take("send")
  /\ LET c == Head(cmdq) IN
     /\ \/ c.to # {} /\ c.to \cap online = {} /\ UNCHANGED <<ring, unread>>   \* NodeOffline
        \/ (c.to = {} \/ c.to \cap online # {}) /\ Publish(<<App(c.to)>>)
     /\ Answer(c, "open")
  /\ UNCHANGED <<busVars, running, online, late, fwd, held, inbound>>

(* handle_connect *)
LoopConnect ==
  /\ Take("connect")
  /\ LET c == Head(cmdq) IN
     \/ /\ c.node \in online                                             \* AlreadyConnected
        /\ Answer(c, "refused")
        /\ UNCHANGED <<online, late, ring, unread>>
     \/ /\ c.node \notin online
        /\ online' = online \cup {c.node}
        /\ late' = [late EXCEPT ![c.node] = 0]
        /\ Publish(<<NodeOnline(c.node)>>)
        /\ Answer(c, "registered")
  /\ UNCHANGED <<busVars, running, fwd, held, inbound>>

(* handle_disconnect: whichever handle asks, the id is removed.            *)
LoopDisconnect ==
  /\ Take("disconnect")
  /\ LET c == Head(cmdq) IN
     /\ online' = online \ {c.node}
     /\ late' = [late EXCEPT ![c.node] = 0]
     /\ Publish(<<NodeOffline(c.node)>>)
     /\ Answer(c, "left")
     /\ DropInbound(c.handle)
  /\ UNCHANGED <<busVars, running, fwd, held>>

LoopAck ==
  /\ Take("ack")
  /\ late' = [late EXCEPT ![Head(cmdq).node] = 0]
  /\ UNCHANGED <<busVars, running, online, ring, phase, fwdVars>>

(* The loop ends: its receiver drops the queued commands, and with them    *)
(* the answer channels of the calls that wait.                             *)
LoopShutdown ==
  /\ running /\ cmdq # <<>> /\ Head(cmdq).op = "shutdown"
  /\ running' = FALSE
  /\ cmdq' = <<>>
  /\ phase' = [h \in Handles |->
       CASE phase[h] = "connecting" -> "refused"
         [] phase[h] = "sending" -> "open"
         [] phase[h] = "leaving" -> "left"
         [] OTHER -> phase[h]]
  /\ DropInbound({h \in Handles : phase[h] = "leaving"})
  /\ UNCHANGED <<busVars, online, late, ring, fwd, unread, held>>

(* The orders in which the nodes of S may be gone through.                 *)
Orders(S) == {q \in [1..Cardinality(S) -> S] : \A i, j \in DOMAIN q : q[i] = q[j] => i = j}

(* handle_heartbeat_tick: the request, then node_offline for every node    *)
(* whose last ack is older than the timeout.                               *)
Tick ==
  /\ running
  /\ LET dead == {n \in online : late[n] + 1 > TimeoutTicks} IN
     /\ online' = online \ dead
     /\ late' = [n \in Nodes |-> IF n \in online \ dead THEN late[n] + 1 ELSE 0]
     /\ \E q \in Orders(dead) :
          Publish(<<Heartbeat>> \o [i \in DOMAIN q |-> NodeOffline(q[i])])
  /\ UNCHANGED <<busVars, running, cmdq, phase, fwd, held, inbound>>

-----------------------------------------------------------------------------
(* The owner of the Bus *)

(* shutdown(self): it owns the Bus, so no connect on it is under way.      *)
ShutdownBus ==
  /\ owner \in {"up", "signalled"}
  /\ \A h \in Handles : phase[h] \notin {"connecting", "registered"}
  /\ \/ running /\ Room /\ Enqueue(Shutdown)
     \/ ~running /\ UNCHANGED cmdq
  /\ owner' = "stopping"
  /\ UNCHANGED <<busTx, loopVars, phase, fwdVars>>

(* Seeded fault: a broadcast sender outlives the Bus.                      *)
FaultyDropBus ==
  /\ owner = "stopping" /\ ~running
  /\ owner' = "down"
  /\ UNCHANGED <<busTx, loopVars, cmdq, phase, fwdVars>>

(* shutdown(self) returns and drops the Bus.                               *)
DropBus ==
  /\ owner = "stopping" /\ ~running
  /\ owner' = "down" /\ busTx' = FALSE
  /\ UNCHANGED <<loopVars, cmdq, phase, fwdVars>>

(* signal_shutdown: try_send, then the Bus drops its broadcast sender.     *)
SignalShutdown ==
  /\ owner = "up"
  /\ cmdq' = IF running /\ Room THEN Append(cmdq, Shutdown) ELSE cmdq
  /\ owner' = "signalled" /\ busTx' = FALSE
  /\ UNCHANGED <<loopVars, phase, fwdVars>>

(* The last owner drops the Bus without shutting it down.                  *)
AbandonBus ==
  /\ owner \in {"up", "signalled"}
  /\ \A h \in Handles : phase[h] \notin {"connecting", "registered"}
  /\ owner' = "abandoned" /\ busTx' = FALSE
  /\ UNCHANGED <<loopVars, cmdq, phase, fwdVars>>

(* cmd_rx yields None: every sender, in the Bus, in a handle or in a       *)
(* forwarding task, is gone.                                               *)
LoopEnds ==
  /\ running /\ cmdq = <<>> /\ owner = "abandoned"
  /\ \A h \in Handles : Gone(h) /\ fwd[h] = "exit"
  /\ running' = FALSE
  /\ UNCHANGED <<busVars, cmdq, online, late, ring, phase, fwdVars>>

-----------------------------------------------------------------------------
UserStep(h) ==
  \/ Connect(h) \/ Subscribe(h) \/ Send(h) \/ Recv(h) \/ RecvEmpty(h) \/ RecvIsClosed(h)
  \/ Disconnect(h) \/ DropHandle(h) \/ Reconnect(h)

ForwardStep(h) ==
  \/ ForwardRecv(h) \/ ForwardLagged(h) \/ ForwardClosed(h) \/ ForwardAck(h) \/ ForwardPush(h)

LoopCommand == LoopSend \/ LoopConnect \/ LoopDisconnect \/ LoopAck \/ LoopShutdown \/ LoopEnds
OwnerStep == ShutdownBus \/ DropBus \/ SignalShutdown \/ AbandonBus

Next ==
  \/ \E h \in Handles : UserStep(h) \/ ForwardStep(h)
  \/ LoopCommand \/ Tick \/ OwnerStep

(* Tasks run: the loop's select! takes commands and ticks, each forwarding *)
(* task moves when it can, a call goes on when it is answered.  Nothing    *)
(* makes a user read, send, disconnect or shut down.                       *)
Fairness ==
  /\ WF_vars(LoopCommand) /\ WF_vars(Tick) /\ WF_vars(DropBus)
  /\ \A h \in Handles : WF_vars(ForwardStep(h)) /\ WF_vars(Subscribe(h))

Spec == Init /\ [][Next]_vars /\ Fairness

-----------------------------------------------------------------------------
(* Properties *)

Phases == {"new", "connecting", "registered", "refused", "panicked", "open", "polling",
           "sending", "leaving", "left", "dropped", "closed"}

(* Each variable keeps its shape, the three bounded channels their bound.  *)
TypeOK ==
  /\ owner \in {"up", "stopping", "signalled", "abandoned", "down"}
  /\ busTx \in BOOLEAN /\ running \in BOOLEAN
  /\ Len(cmdq) <= CmdCap
  /\ online \subseteq Nodes /\ late \in [Nodes -> 0..TimeoutTicks]
  /\ Len(ring) <= RingCap /\ \A i \in DOMAIN ring : ring[i] \in Messages
  /\ phase \in [Handles -> Phases]
  /\ fwd \in [Handles -> {"wait", "ack", "push", "exit"}]
  /\ unread \in [Handles -> 0..(RingCap + 1)]
  /\ held \in [Handles -> Messages \cup {Nothing}]
  /\ \A h \in Handles : Len(inbound[h]) <= InboundCap

OfNode(m, n) == m.type \in {"node_online", "node_offline"} /\ m.node = {n}

(* What a subscriber reads last about a node is what the registry says:    *)
(* every insertion and removal, by connect, disconnect or timeout, is      *)
(* followed by its broadcast, and no broadcast by a contrary change.       *)
LifecycleMatchesRegistry ==
  \A n \in Nodes, i \in DOMAIN ring :
    OfNode(ring[i], n) /\ (\A j \in DOMAIN ring : j > i => ~OfNode(ring[j], n))
      => (ring[i].type = "node_online" <=> n \in online)

Waits == [connect |-> "connecting", send |-> "sending", disconnect |-> "leaving"]

(* A call that waits has exactly one command in the queue of a running     *)
(* loop, and a queued command has a caller: no answer channel is dropped   *)
(* or answered twice, whatever shutdown interrupts.                        *)
CallsQueued ==
  \A h \in Handles :
    LET mine == {i \in DOMAIN cmdq : h \in cmdq[i].handle} IN
    /\ phase[h] \in Calls <=> mine # {}
    /\ \A i \in mine : running /\ Waits[cmdq[i].op] = phase[h]
    /\ Cardinality(mine) <= 1

(* connect, send and disconnect return, also when the bus shuts down.      *)
CallsReturn == \A h \in Handles : phase[h] \in Calls ~> phase[h] \notin Calls

Zombie(n) ==
  running /\ n \in online
    /\ \A h \in Handles : NodeOf[h] = n => Gone(h) /\ phase[h] # "registered"

(* A node whose handles were all dropped without disconnect() leaves the   *)
(* registry by heartbeat timeout.                                          *)
ZombieLeaves == \A n \in Nodes : Zombie(n) ~> ~Zombie(n)

(* After shutdown(self) every forwarding task ends, but for one that holds *)
(* a message its user does not make room for.                              *)
ShutdownReleases ==
  owner = "stopping" ~> \A h \in Handles : fwd[h] = "exit" \/ (fwd[h] = "push" /\ ~Gone(h))

(* The loop of a Bus that was dropped without shutdown ends once the       *)
(* handles are dropped too, although each forwarding task keeps a sender   *)
(* of the command channel.                                                 *)
AbandonedLoopEnds == (owner = "abandoned" /\ \A h \in Handles : Gone(h)) ~> ~running

Live == {h \in Handles : phase[h] \in {"registered", "open", "polling", "sending"}}

(* A handle that is alive is online while the loop runs.                   *)
LiveStaysOnline == running => \A h \in Live : NodeOf[h] \in online

(* Two live handles never carry the same NodeId.                           *)
OneHandlePerNode == \A g, h \in Live : NodeOf[g] = NodeOf[h] => g = h

(* signal_shutdown: "all broadcast::Receiver instances will get Closed".   *)
SignalCloses == owner = "signalled" ~> Closed \/ owner # "signalled"

=============================================================================
