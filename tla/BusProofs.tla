------------------------------ MODULE BusProofs ------------------------------
(***************************************************************************)
(* Proofs about Bus for any nodes, any number of handles on the same or on *)
(* other ids, any filters and any capacities of its channels.              *)
(***************************************************************************)
EXTENDS PromptBus, FiniteSetTheorems, TLAPS

-----------------------------------------------------------------------------
(* The inductive invariant *)

Commands ==
  {Command(h, op, {}) : h \in Handles, op \in {"connect", "disconnect"}}
    \cup {Command(h, "send", to) : h \in Handles, to \in Targets}
    \cup {Ack(n) : n \in Nodes} \cup {Shutdown}

(* The channels hold what their senders put in.                            *)
ChannelsOK ==
  /\ cmdq \in Seq(Commands) /\ Len(cmdq) <= CmdCap
  /\ ring \in Seq(Messages) /\ Len(ring) <= RingCap
  /\ inbound \in [Handles -> Seq(Messages)] /\ \A h \in Handles : Len(inbound[h]) <= InboundCap

(* A receiver of the broadcast channel that has not lagged finds what it   *)
(* has not read in the ring, and one that has finds the ring full.         *)
UnreadOK ==
  \A h \in Handles : fwd[h] # "exit" =>
    IF unread[h] <= RingCap THEN unread[h] <= Len(ring) ELSE Len(ring) = RingCap

HeldOK == \A h \in Handles : fwd[h] = "push" => held[h] \in Messages

BusTypeInv == TypeOK /\ ChannelsOK /\ UnreadOK /\ HeldOK

(* CallsQueued, with "one at most" stated without counting, and a queue    *)
(* that is empty once the loop has ended.                                  *)
Queued(h, i) == h \in cmdq[i].handle

CallInv ==
  /\ ~running => cmdq = <<>>
  /\ \A h \in Handles :
       /\ phase[h] \in Calls <=> \E i \in DOMAIN cmdq : Queued(h, i)
       /\ \A i \in DOMAIN cmdq : Queued(h, i) => Waits[cmdq[i].op] = phase[h]
       /\ \A i, j \in DOMAIN cmdq : Queued(h, i) /\ Queued(h, j) => i = j

IInv == BusTypeInv /\ LifecycleMatchesRegistry /\ CallInv
-----------------------------------------------------------------------------
(* The broadcast channel *)

(* The last n elements of a sequence.                                      *)
LEMMA LastOfFacts ==
  ASSUME NEW S, NEW q \in Seq(S), NEW n \in Nat \ {0}
  PROVE  /\ LastOf(q, n) \in Seq(S)
         /\ Len(LastOf(q, n)) = IF Len(q) <= n THEN Len(q) ELSE n
         /\ \A i \in DOMAIN LastOf(q, n) :
              LastOf(q, n)[i] = q[i + Len(q) - Len(LastOf(q, n))]
<1>1. CASE Len(q) <= n
  BY <1>1 DEF LastOf
<1>2. CASE ~(Len(q) <= n)
  BY <1>2 DEF LastOf
<1> QED
  BY <1>1, <1>2

(* The elements of two sequences, one after the other.                     *)
LEMMA ConcatFacts ==
  ASSUME NEW S, NEW p \in Seq(S), NEW q \in Seq(S)
  PROVE  /\ p \o q \in Seq(S) /\ Len(p \o q) = Len(p) + Len(q)
         /\ \A i \in 1..Len(p) : (p \o q)[i] = p[i]
         /\ \A i \in 1..Len(q) : (p \o q)[Len(p) + i] = q[i]
OBVIOUS

(* What send does to the ring and to the receivers.                        *)
LEMMA PublishType ==
  ASSUME BusTypeInv, NEW ms \in Seq(Messages), Publish(ms), fwd' = fwd
  PROVE  /\ ring' \in Seq(Messages) /\ Len(ring') <= RingCap
         /\ unread' \in [Handles -> 0..(RingCap + 1)]
         /\ UnreadOK'
<1> DEFINE q == ring \o ms
<1>1. ring \in Seq(Messages) /\ Len(ring) \in Nat /\ Len(ms) \in Nat /\ RingCap \in Nat \ {0}
      /\ Len(ring) <= RingCap
  BY BusAssumption DEF BusTypeInv, ChannelsOK
<1>2. q \in Seq(Messages) /\ Len(q) = Len(ring) + Len(ms)
  BY <1>1
<1>3. ring' \in Seq(Messages) /\ Len(ring') = IF Len(q) <= RingCap THEN Len(q) ELSE RingCap
  BY <1>1, <1>2, LastOfFacts DEF Publish
<1>4. unread \in [Handles -> 0..(RingCap + 1)] /\ UnreadOK
  BY DEF BusTypeInv, TypeOK
<1>5. unread' \in [Handles -> 0..(RingCap + 1)]
  BY <1>1, <1>4 DEF Publish
<1>6. ASSUME NEW h \in Handles, fwd'[h] # "exit"
      PROVE  IF unread'[h] <= RingCap THEN unread'[h] <= Len(ring') ELSE Len(ring') = RingCap
  <2>1. unread'[h] = IF unread[h] + Len(ms) > RingCap THEN RingCap + 1 ELSE unread[h] + Len(ms)
    BY <1>6 DEF Publish
  <2>2. unread[h] \in 0..(RingCap + 1)
        /\ IF unread[h] <= RingCap THEN unread[h] <= Len(ring) ELSE Len(ring) = RingCap
    BY <1>4, <1>6 DEF UnreadOK
  <2> QED
    BY <1>1, <1>2, <1>3, <2>1, <2>2
<1> QED
  BY <1>1, <1>3, <1>5, <1>6 DEF UnreadOK

(* What the messages of q say about the nodes, against a registry.         *)
Agrees(q, on) ==
  \A n \in Nodes, i \in DOMAIN q :
    OfNode(q[i], n) /\ (\A j \in DOMAIN q : j > i => ~OfNode(q[j], n))
      => (q[i].type = "node_online" <=> n \in on)

LEMMA AgreesLast ==
  ASSUME NEW q \in Seq(Messages), NEW on, Agrees(q, on), NEW n \in Nat \ {0}
  PROVE  Agrees(LastOf(q, n), on)
<1> DEFINE r == LastOf(q, n)
           d == Len(q) - Len(r)
<1>1. /\ r \in Seq(Messages) /\ Len(r) \in Nat /\ Len(q) \in Nat /\ d \in Nat
      /\ \A i \in DOMAIN r : r[i] = q[i + d]
  BY LastOfFacts
<1> HIDE DEF r
<1> SUFFICES ASSUME NEW m \in Nodes, NEW i \in DOMAIN r, OfNode(r[i], m),
                    \A j \in DOMAIN r : j > i => ~OfNode(r[j], m)
             PROVE  r[i].type = "node_online" <=> m \in on
  BY DEF Agrees, r
<1>2. i + d \in DOMAIN q /\ r[i] = q[i + d]
  BY <1>1
<1>3. ASSUME NEW k \in DOMAIN q, k > i + d PROVE ~OfNode(q[k], m)
  <2>1. k - d \in DOMAIN r /\ k - d > i /\ r[k - d] = q[k]
    BY <1>1, <1>3
  <2> QED
    BY <2>1
<1> QED
  BY <1>2, <1>3 DEF Agrees

(* Each node either is mentioned by what is sent, always by its new state, *)
(* or keeps its state.                                                     *)
LEMMA AgreesConcat ==
  ASSUME NEW q \in Seq(Messages), NEW ms \in Seq(Messages), NEW on, NEW on2, Agrees(q, on),
         \A n \in Nodes :
           /\ (\A i \in DOMAIN ms : ~OfNode(ms[i], n)) => (n \in on <=> n \in on2)
           /\ \A i \in DOMAIN ms : OfNode(ms[i], n) => (ms[i].type = "node_online" <=> n \in on2)
  PROVE  Agrees(q \o ms, on2)
<1> DEFINE r == q \o ms
<1>1. /\ r \in Seq(Messages) /\ Len(r) = Len(q) + Len(ms)
      /\ \A i \in 1..Len(q) : r[i] = q[i]
      /\ \A i \in 1..Len(ms) : r[Len(q) + i] = ms[i]
      /\ Len(q) \in Nat /\ Len(ms) \in Nat
      /\ DOMAIN r = 1..(Len(q) + Len(ms)) /\ DOMAIN q = 1..Len(q) /\ DOMAIN ms = 1..Len(ms)
  BY ConcatFacts
<1> HIDE DEF r
<1> SUFFICES ASSUME NEW n \in Nodes, NEW i \in DOMAIN r, OfNode(r[i], n),
                    \A j \in DOMAIN r : j > i => ~OfNode(r[j], n)
             PROVE  r[i].type = "node_online" <=> n \in on2
  BY DEF Agrees, r
<1>2. CASE i > Len(q)
  <2>1. i - Len(q) \in DOMAIN ms /\ r[i] = ms[i - Len(q)]
    BY <1>1, <1>2
  <2> QED
    BY <2>1
<1>3. CASE i <= Len(q)
  <2>1. i \in DOMAIN q /\ r[i] = q[i]
    BY <1>1, <1>3
  <2>2. ASSUME NEW j \in DOMAIN q, j > i PROVE ~OfNode(q[j], n)
    <3>1. j \in DOMAIN r /\ r[j] = q[j]
      BY <1>1
    <3> QED
      BY <2>2, <3>1
  <2>3. ASSUME NEW j \in DOMAIN ms PROVE ~OfNode(ms[j], n)
    <3>1. Len(q) + j \in DOMAIN r /\ Len(q) + j > i /\ r[Len(q) + j] = ms[j]
      BY <1>1, <1>3
    <3> QED
      BY <3>1
  <2> QED
    BY <2>1, <2>2, <2>3 DEF Agrees
<1> QED
  BY <1>1, <1>2, <1>3

LEMMA PublishAgrees ==
  ASSUME BusTypeInv, LifecycleMatchesRegistry, NEW ms \in Seq(Messages), Publish(ms),
         \A n \in Nodes :
           /\ (\A i \in DOMAIN ms : ~OfNode(ms[i], n)) => (n \in online <=> n \in online')
           /\ \A i \in DOMAIN ms :
                OfNode(ms[i], n) => (ms[i].type = "node_online" <=> n \in online')
  PROVE  LifecycleMatchesRegistry'
<1>1. ring \in Seq(Messages) /\ RingCap \in Nat \ {0} /\ Agrees(ring, online)
  BY BusAssumption DEF BusTypeInv, ChannelsOK, LifecycleMatchesRegistry, Agrees
<1>2. Agrees(ring \o ms, online')
  BY <1>1, AgreesConcat
<1>3. ring \o ms \in Seq(Messages)
  BY <1>1
<1>4. Agrees(ring', online')
  BY <1>1, <1>2, <1>3, AgreesLast DEF Publish
<1> QED
  BY <1>4 DEF LifecycleMatchesRegistry, Agrees
-----------------------------------------------------------------------------
(* Type correctness *)

LEMMA CommandFacts ==
  ASSUME NEW c \in Commands
  PROVE  /\ c.op \in {"connect", "send", "disconnect", "ack", "shutdown"}
         /\ c.op # "shutdown" => c.node \in Nodes
         /\ c.op = "send" => c.to \in Targets
         /\ c.op \in {"ack", "shutdown"} => c.handle = {}
         /\ c.op \in {"connect", "send", "disconnect"} => \E h \in Handles : c.handle = {h}
BY BusAssumption DEF Commands, Command, Ack, Shutdown

LEMMA MessageFacts ==
  /\ Heartbeat \in Messages
  /\ \A n \in Nodes : NodeOnline(n) \in Messages /\ NodeOffline(n) \in Messages
  /\ \A to \in Targets : App(to) \in Messages
BY DEF Messages

(* TypeOK without what it says of the channels.                            *)
FlagsOK ==
  /\ owner \in {"up", "stopping", "signalled", "abandoned", "down"}
  /\ busTx \in BOOLEAN /\ running \in BOOLEAN
  /\ online \subseteq Nodes /\ late \in [Nodes -> 0..TimeoutTicks]
  /\ phase \in [Handles -> Phases]
  /\ fwd \in [Handles -> {"wait", "ack", "push", "exit"}]
  /\ unread \in [Handles -> 0..(RingCap + 1)]
  /\ held \in [Handles -> Messages \cup {Nothing}]

LEMMA TypeParts == BusTypeInv <=> FlagsOK /\ ChannelsOK /\ UnreadOK /\ HeldOK
BY DEF BusTypeInv, TypeOK, FlagsOK, ChannelsOK

(* The command channel takes what there is room for, and gives its head.   *)
LEMMA EnqueueFacts ==
  ASSUME ChannelsOK, Room, NEW c \in Commands, Enqueue(c)
  PROVE  /\ cmdq' \in Seq(Commands) /\ Len(cmdq') <= CmdCap
BY BusAssumption DEF ChannelsOK, Room, Enqueue

LEMMA TakeFacts ==
  ASSUME ChannelsOK, NEW op, Take(op)
  PROVE  /\ cmdq' \in Seq(Commands) /\ Len(cmdq') <= CmdCap
         /\ Head(cmdq) \in Commands /\ Head(cmdq).op = op
BY BusAssumption DEF ChannelsOK, Take

LEMMA DropFacts ==
  ASSUME inbound \in [Handles -> Seq(Messages)], \A h \in Handles : Len(inbound[h]) <= InboundCap,
         NEW hs, DropInbound(hs)
  PROVE  /\ inbound' \in [Handles -> Seq(Messages)]
         /\ \A h \in Handles : Len(inbound'[h]) <= InboundCap
BY BusAssumption DEF DropInbound

(* The user of a handle.                                                   *)
LEMMA UserType ==
  ASSUME BusTypeInv, NEW h \in Handles, UserStep(h)
  PROVE  BusTypeInv'
<1>a. FlagsOK /\ ChannelsOK /\ UnreadOK /\ HeldOK
  BY TypeParts
<1>b. SUFFICES FlagsOK' /\ ChannelsOK' /\ UnreadOK' /\ HeldOK'
  BY DEF BusTypeInv, TypeOK, FlagsOK, ChannelsOK
<1>c. /\ Command(h, "connect", {}) \in Commands /\ Command(h, "disconnect", {}) \in Commands
      /\ \A to \in Targets : Command(h, "send", to) \in Commands
  BY DEF Commands
<1> USE DEF busVars, loopVars, fwdVars, Phases
<1>1. CASE Connect(h)
  <2>1. ChannelsOK'
    BY <1>1, <1>a, <1>c, EnqueueFacts DEF Connect, ChannelsOK
  <2> QED
    BY <1>1, <1>a, <2>1 DEF Connect, FlagsOK, UnreadOK, HeldOK
<1>2. CASE Subscribe(h)
  <2>1. CASE busTx
    <3>1. /\ phase' = [phase EXCEPT ![h] = "open"] /\ fwd' = [fwd EXCEPT ![h] = "wait"]
          /\ unread' = [unread EXCEPT ![h] = 0]
          /\ UNCHANGED <<held, inbound, owner, busTx, running, online, late, ring, cmdq>>
      BY <1>2, <2>1 DEF Subscribe
    <3>2. FlagsOK' /\ ChannelsOK'
      BY <1>a, <3>1, BusAssumption DEF FlagsOK, ChannelsOK
    <3>3. UnreadOK'
      BY <1>a, <3>1, BusAssumption DEF FlagsOK, ChannelsOK, UnreadOK
    <3>4. HeldOK'
      BY <1>a, <3>1 DEF FlagsOK, HeldOK
    <3> QED
      BY <3>2, <3>3, <3>4
  <2>2. CASE ~busTx
    BY <1>2, <1>a, <2>2 DEF Subscribe, FlagsOK, ChannelsOK, UnreadOK, HeldOK
  <2> QED
    BY <2>1, <2>2
<1>3. CASE Send(h)
  <2>1. ChannelsOK'
    BY <1>3, <1>a, <1>c, EnqueueFacts DEF Send, ChannelsOK
  <2> QED
    BY <1>3, <1>a, <2>1 DEF Send, FlagsOK, UnreadOK, HeldOK
<1>4. CASE Recv(h)
  <2>1. ChannelsOK'
    BY <1>4, <1>a, BusAssumption DEF Recv, ChannelsOK
  <2> QED
    BY <1>4, <1>a, <2>1 DEF Recv, FlagsOK, UnreadOK, HeldOK
<1>5. CASE RecvEmpty(h)
  BY <1>5, <1>a DEF RecvEmpty, FlagsOK, ChannelsOK, UnreadOK, HeldOK
<1>6. CASE RecvIsClosed(h)
  <2>1. ChannelsOK'
    BY <1>6, <1>a, DropFacts DEF RecvIsClosed, ChannelsOK
  <2> QED
    BY <1>6, <1>a, <2>1 DEF RecvIsClosed, FlagsOK, UnreadOK, HeldOK
<1>7. CASE Disconnect(h)
  <2>1. ChannelsOK'
    BY <1>7, <1>a, <1>c, EnqueueFacts, DropFacts DEF Disconnect, ChannelsOK
  <2> QED
    BY <1>7, <1>a, <2>1 DEF Disconnect, FlagsOK, UnreadOK, HeldOK
<1>8. CASE DropHandle(h)
  <2>1. ChannelsOK'
    BY <1>8, <1>a, DropFacts DEF DropHandle, ChannelsOK
  <2> QED
    BY <1>8, <1>a, <2>1 DEF DropHandle, FlagsOK, UnreadOK, HeldOK
<1>9. CASE Reconnect(h)
  BY <1>9, <1>a, BusAssumption DEF Reconnect, FlagsOK, ChannelsOK, UnreadOK, HeldOK
<1> QED
  BY <1>1, <1>2, <1>3, <1>4, <1>5, <1>6, <1>7, <1>8, <1>9 DEF UserStep

(* A forwarding task.                                                      *)
LEMMA ForwardType ==
  ASSUME BusTypeInv, NEW h \in Handles, ForwardStep(h)
  PROVE  BusTypeInv'
<1>a. FlagsOK /\ ChannelsOK /\ UnreadOK /\ HeldOK
  BY TypeParts
<1>b. SUFFICES FlagsOK' /\ ChannelsOK' /\ UnreadOK' /\ HeldOK'
  BY DEF BusTypeInv, TypeOK, FlagsOK, ChannelsOK
<1>c. RingCap \in Nat \ {0} /\ InboundCap \in Nat
  BY BusAssumption
<1> USE DEF busVars, loopVars, fwdVars, NextRound
<1>1. CASE ForwardRecv(h)
  <2>1. Unread(h) \in Messages
    <3>1. unread[h] \in 1..Len(ring) /\ Len(ring) \in Nat
      BY <1>1, <1>a, <1>c DEF ForwardRecv, UnreadOK, ChannelsOK
    <3>2. Len(ring) - unread[h] + 1 \in 1..Len(ring)
      BY <3>1
    <3> QED
      BY <1>a, <3>2 DEF Unread, ChannelsOK
  <2>2. unread' \in [Handles -> 0..(RingCap + 1)] /\ unread'[h] = unread[h] - 1
        /\ \A g \in Handles : g # h => unread'[g] = unread[g]
    BY <1>1, <1>a, <1>c DEF ForwardRecv, FlagsOK
  <2>3. /\ fwd' \in [Handles -> {"wait", "ack", "push", "exit"}]
        /\ held' \in [Handles -> Messages \cup {Nothing}]
        /\ \A g \in Handles : g # h => fwd'[g] = fwd[g] /\ held'[g] = held[g]
        /\ fwd'[h] = "push" => held'[h] \in Messages
    BY <1>1, <1>a, <2>1 DEF ForwardRecv, FlagsOK
  <2>4. FlagsOK' /\ ChannelsOK'
    BY <1>1, <1>a, <2>2, <2>3 DEF ForwardRecv, FlagsOK, ChannelsOK
  <2>5. UnreadOK'
    BY <1>1, <1>a, <1>c, <2>2, <2>3 DEF ForwardRecv, UnreadOK, FlagsOK, ChannelsOK
  <2>6. HeldOK'
    <3> SUFFICES ASSUME NEW g \in Handles, fwd'[g] = "push" PROVE held'[g] \in Messages
      BY DEF HeldOK
    <3>1. CASE g = h
      BY <2>3, <3>1, Zenon
    <3>2. CASE g # h
      <4>1. fwd'[g] = fwd[g] /\ held'[g] = held[g]
        BY <2>3, <3>2, Zenon
      <4> QED
        BY <1>a, <4>1 DEF HeldOK
    <3> QED
      BY <3>1, <3>2
  <2> QED
    BY <2>4, <2>5, <2>6
<1>2. CASE ForwardLagged(h)
  BY <1>2, <1>a, <1>c DEF ForwardLagged, FlagsOK, ChannelsOK, UnreadOK, HeldOK
<1>3. CASE ForwardClosed(h)
  BY <1>3, <1>a DEF ForwardClosed, FlagsOK, ChannelsOK, UnreadOK, HeldOK
<1>4. CASE ForwardAck(h)
  <2>1. ChannelsOK'
    <3>1. Ack(NodeOf[h]) \in Commands
      BY BusAssumption DEF Commands
    <3> QED
      BY <1>4, <1>a, <3>1, EnqueueFacts DEF ForwardAck, ChannelsOK
  <2> QED
    BY <1>4, <1>a, <2>1 DEF ForwardAck, FlagsOK, UnreadOK, HeldOK
<1>5. CASE ForwardPush(h)
  <2>1. held[h] \in Messages
    BY <1>5, <1>a DEF ForwardPush, HeldOK
  <2>2. ChannelsOK'
    <3>1. CASE inbound' = inbound
      BY <1>5, <1>a, <3>1 DEF ForwardPush, ChannelsOK
    <3>2. CASE /\ Len(inbound[h]) < InboundCap
               /\ inbound' = [inbound EXCEPT ![h] = Append(inbound[h], held[h])]
      <4>1. inbound[h] \in Seq(Messages)
        BY <1>a DEF ChannelsOK
      <4>2. Append(inbound[h], held[h]) \in Seq(Messages)
            /\ Len(Append(inbound[h], held[h])) <= InboundCap
        BY <1>c, <2>1, <3>2, <4>1
      <4> QED
        BY <1>5, <1>a, <3>2, <4>2 DEF ForwardPush, ChannelsOK
    <3> QED
      BY <1>5, <3>1, <3>2 DEF ForwardPush
  <2>3. FlagsOK'
    <3>1. unread' \in [Handles -> 0..(RingCap + 1)]
          /\ fwd' \in [Handles -> {"wait", "ack", "push", "exit"}]
      <4>1. CASE Gone(h)
        BY <1>5, <1>a, <1>c, <4>1 DEF ForwardPush, FlagsOK
      <4>2. CASE ~Gone(h)
        BY <1>5, <1>a, <4>2 DEF ForwardPush, FlagsOK
      <4> QED
        BY <4>1, <4>2
    <3>2. held' \in [Handles -> Messages \cup {Nothing}]
      BY <1>5, <1>a DEF ForwardPush, FlagsOK
    <3> QED
      BY <1>5, <1>a, <3>1, <3>2 DEF ForwardPush, FlagsOK
  <2> QED
    BY <1>5, <1>a, <2>2, <2>3 DEF ForwardPush, FlagsOK, UnreadOK, HeldOK
<1> QED
  BY <1>1, <1>2, <1>3, <1>4, <1>5 DEF ForwardStep
(* What a tick sends: the heartbeat, then the dead nodes, all of them.     *)
LEMMA TickMessages ==
  ASSUME NEW S, S \subseteq Nodes, NEW q \in Orders(S)
  PROVE  LET ms == <<Heartbeat>> \o [i \in DOMAIN q |-> NodeOffline(q[i])] IN
         /\ ms \in Seq(Messages)
         /\ \A n \in Nodes : n \in S <=> \E i \in DOMAIN ms : OfNode(ms[i], n)
         /\ \A i \in DOMAIN ms : ms[i].type # "node_online"
<1> DEFINE k == Cardinality(S)
           off == [i \in DOMAIN q |-> NodeOffline(q[i])]
           ms == <<Heartbeat>> \o off
<1>1. IsFiniteSet(S) /\ k \in Nat
  BY BusAssumption, FS_Subset, FS_CardinalityType
<1>2. q \in [1..k -> S] /\ \A i, j \in 1..k : q[i] = q[j] => i = j
  BY DEF Orders
<1>3. \A n \in S : \E i \in 1..k : q[i] = n
  <2>1. q \in Injection(1..k, S)
    BY <1>2 DEF Injection, IsInjective
  <2>2. Cardinality(1..k) = k
    BY <1>1, FS_Interval
  <2>3. q \in Surjection(1..k, S)
    BY <1>1, <2>1, <2>2, FS_Injection
  <2> QED
    BY <2>3 DEF Surjection
<1>4. off \in Seq(Messages) /\ Len(off) = k /\ \A i \in 1..k : off[i] = NodeOffline(q[i])
  BY <1>1, <1>2, MessageFacts
<1> HIDE DEF off
<1>5. /\ ms \in Seq(Messages) /\ DOMAIN ms = 1..(k + 1) /\ ms[1] = Heartbeat
      /\ \A i \in 1..k : ms[i + 1] = off[i]
  <2>1. <<Heartbeat>> \in Seq(Messages) /\ Len(<<Heartbeat>>) = 1 /\ <<Heartbeat>>[1] = Heartbeat
    BY MessageFacts
  <2> QED
    BY <1>1, <1>4, <2>1, ConcatFacts
<1> HIDE DEF ms
<1>6. \A i \in DOMAIN ms : ms[i] = Heartbeat \/ \E j \in 1..k : ms[i] = NodeOffline(q[j])
  <2> SUFFICES ASSUME NEW i \in DOMAIN ms, i # 1
               PROVE  \E j \in 1..k : ms[i] = NodeOffline(q[j])
    BY <1>5
  <2>1. i - 1 \in 1..k /\ ms[(i - 1) + 1] = off[i - 1] /\ (i - 1) + 1 = i
    BY <1>1, <1>5
  <2> QED
    BY <1>4, <2>1
<1>7. ASSUME NEW n \in S PROVE \E i \in DOMAIN ms : OfNode(ms[i], n)
  <2>1. PICK j \in 1..k : q[j] = n
    BY <1>3
  <2>2. j + 1 \in DOMAIN ms /\ ms[j + 1] = NodeOffline(n)
    BY <1>1, <1>4, <1>5, <2>1
  <2> QED
    BY <2>2 DEF OfNode, NodeOffline
<1>8. ASSUME NEW n \in Nodes, NEW i \in DOMAIN ms, OfNode(ms[i], n) PROVE n \in S
  BY <1>2, <1>6, <1>8 DEF OfNode, NodeOffline, Heartbeat
<1>9. \A i \in DOMAIN ms : ms[i].type # "node_online"
  BY <1>6 DEF NodeOffline, Heartbeat
<1> QED
  BY <1>5, <1>7, <1>8, <1>9 DEF ms, off

(* The message loop.                                                       *)
LEMMA LoopType ==
  ASSUME BusTypeInv, LoopCommand \/ Tick
  PROVE  BusTypeInv'
<1>a. FlagsOK /\ ChannelsOK /\ UnreadOK /\ HeldOK
  BY TypeParts
<1>b. SUFFICES FlagsOK' /\ ChannelsOK' /\ UnreadOK' /\ HeldOK'
  BY DEF BusTypeInv, TypeOK, FlagsOK, ChannelsOK
<1>c. TimeoutTicks \in Nat /\ CmdCap \in Nat
  BY BusAssumption
<1>d. ASSUME NEW c, NEW step \in Phases, Answer(c, step) PROVE phase' \in [Handles -> Phases]
  BY <1>a, <1>d DEF Answer, FlagsOK
<1> DEFINE c == Head(cmdq)
<1> USE DEF busVars, loopVars, fwdVars
<1>1. CASE LoopSend
  <2>1. cmdq' \in Seq(Commands) /\ Len(cmdq') <= CmdCap /\ c \in Commands /\ c.op = "send"
    BY <1>1, <1>a, TakeFacts DEF LoopSend
  <2>2. /\ ring' \in Seq(Messages) /\ Len(ring') <= RingCap
        /\ unread' \in [Handles -> 0..(RingCap + 1)]
        /\ UnreadOK'
    <3>1. CASE UNCHANGED <<ring, unread>>
      BY <1>1, <1>a, <3>1 DEF LoopSend, FlagsOK, ChannelsOK, UnreadOK
    <3>2. CASE Publish(<<App(c.to)>>)
      <4>1. <<App(c.to)>> \in Seq(Messages)
        BY <2>1, CommandFacts, MessageFacts
      <4> QED
        BY <1>1, <3>2, <4>1, PublishType DEF LoopSend
    <3> QED
      BY <1>1, <3>1, <3>2 DEF LoopSend
  <2>3. phase' \in [Handles -> Phases]
    BY <1>1, <1>d DEF LoopSend, Phases
  <2> QED
    BY <1>1, <1>a, <2>1, <2>2, <2>3 DEF LoopSend, FlagsOK, ChannelsOK, HeldOK
<1>2. CASE LoopConnect
  <2>1. cmdq' \in Seq(Commands) /\ Len(cmdq') <= CmdCap /\ c \in Commands /\ c.op = "connect"
    BY <1>2, <1>a, TakeFacts DEF LoopConnect
  <2>2. c.node \in Nodes
    BY <2>1, CommandFacts
  <2>3. /\ ring' \in Seq(Messages) /\ Len(ring') <= RingCap
        /\ unread' \in [Handles -> 0..(RingCap + 1)]
        /\ UnreadOK'
    <3>1. CASE UNCHANGED <<ring, unread>>
      BY <1>2, <1>a, <3>1 DEF LoopConnect, FlagsOK, ChannelsOK, UnreadOK
    <3>2. CASE Publish(<<NodeOnline(c.node)>>)
      <4>1. <<NodeOnline(c.node)>> \in Seq(Messages)
        BY <2>2, MessageFacts
      <4> QED
        BY <1>2, <3>2, <4>1, PublishType DEF LoopConnect
    <3> QED
      BY <1>2, <3>1, <3>2 DEF LoopConnect
  <2>4. phase' \in [Handles -> Phases]
    BY <1>2, <1>d DEF LoopConnect, Phases
  <2>5. online' \subseteq Nodes /\ late' \in [Nodes -> 0..TimeoutTicks]
    BY <1>2, <1>a, <1>c, <2>2 DEF LoopConnect, FlagsOK
  <2> QED
    BY <1>2, <1>a, <2>1, <2>3, <2>4, <2>5 DEF LoopConnect, FlagsOK, ChannelsOK, HeldOK
<1>3. CASE LoopDisconnect
  <2>1. cmdq' \in Seq(Commands) /\ Len(cmdq') <= CmdCap /\ c \in Commands /\ c.op = "disconnect"
    BY <1>3, <1>a, TakeFacts DEF LoopDisconnect
  <2>2. <<NodeOffline(c.node)>> \in Seq(Messages)
    BY <2>1, CommandFacts, MessageFacts
  <2>3. /\ ring' \in Seq(Messages) /\ Len(ring') <= RingCap
        /\ unread' \in [Handles -> 0..(RingCap + 1)]
        /\ UnreadOK'
    BY <1>3, <2>2, PublishType DEF LoopDisconnect
  <2>4. phase' \in [Handles -> Phases]
    BY <1>3, <1>d DEF LoopDisconnect, Phases
  <2>5. online' \subseteq Nodes /\ late' \in [Nodes -> 0..TimeoutTicks]
    <3>1. c.node \in Nodes
      BY <2>1, CommandFacts
    <3> QED
      BY <1>3, <1>a, <1>c, <3>1 DEF LoopDisconnect, FlagsOK
  <2>6. /\ inbound' \in [Handles -> Seq(Messages)]
        /\ \A h \in Handles : Len(inbound'[h]) <= InboundCap
    BY <1>3, <1>a, DropFacts DEF LoopDisconnect, ChannelsOK
  <2> QED
    BY <1>3, <1>a, <2>1, <2>3, <2>4, <2>5, <2>6 DEF LoopDisconnect, FlagsOK, ChannelsOK, HeldOK
<1>4. CASE LoopAck
  <2>1. cmdq' \in Seq(Commands) /\ Len(cmdq') <= CmdCap /\ c \in Commands /\ c.op = "ack"
    BY <1>4, <1>a, TakeFacts DEF LoopAck
  <2>2. late' \in [Nodes -> 0..TimeoutTicks]
    <3>1. c.node \in Nodes
      BY <2>1, CommandFacts
    <3> QED
      BY <1>4, <1>a, <1>c, <3>1 DEF LoopAck, FlagsOK
  <2> QED
    BY <1>4, <1>a, <2>1, <2>2 DEF LoopAck, FlagsOK, ChannelsOK, UnreadOK, HeldOK
<1>5. CASE LoopShutdown
  <2>1. phase' \in [Handles -> Phases]
    BY <1>5, <1>a DEF LoopShutdown, FlagsOK, Phases
  <2>2. ChannelsOK'
    BY <1>5, <1>a, <1>c, DropFacts DEF LoopShutdown, ChannelsOK
  <2> QED
    BY <1>5, <1>a, <2>1, <2>2 DEF LoopShutdown, FlagsOK, UnreadOK, HeldOK
<1>6. CASE LoopEnds
  BY <1>6, <1>a DEF LoopEnds, FlagsOK, ChannelsOK, UnreadOK, HeldOK
<1>7. CASE Tick
  <2> DEFINE dead == {n \in online : late[n] + 1 > TimeoutTicks}
  <2>1. PICK q \in Orders(dead) :
          Publish(<<Heartbeat>> \o [i \in DOMAIN q |-> NodeOffline(q[i])])
    BY <1>7 DEF Tick
  <2>2. dead \subseteq Nodes
    BY <1>a DEF FlagsOK
  <2>3. <<Heartbeat>> \o [i \in DOMAIN q |-> NodeOffline(q[i])] \in Seq(Messages)
    BY <2>1, <2>2, TickMessages
  <2>4. /\ ring' \in Seq(Messages) /\ Len(ring') <= RingCap
        /\ unread' \in [Handles -> 0..(RingCap + 1)]
        /\ UnreadOK'
    BY <1>7, <2>1, <2>3, PublishType DEF Tick
  <2>5. online' \subseteq Nodes /\ late' \in [Nodes -> 0..TimeoutTicks]
    BY <1>7, <1>a, <1>c DEF Tick, FlagsOK
  <2> QED
    BY <1>7, <1>a, <2>4, <2>5 DEF Tick, FlagsOK, ChannelsOK, HeldOK
<1> QED
  BY <1>1, <1>2, <1>3, <1>4, <1>5, <1>6, <1>7 DEF LoopCommand
(* The owner of the Bus.                                                   *)
LEMMA OwnerType ==
  ASSUME BusTypeInv, OwnerStep
  PROVE  BusTypeInv'
<1>a. FlagsOK /\ ChannelsOK /\ UnreadOK /\ HeldOK
  BY TypeParts
<1>b. SUFFICES FlagsOK' /\ ChannelsOK' /\ UnreadOK' /\ HeldOK'
  BY DEF BusTypeInv, TypeOK, FlagsOK, ChannelsOK
<1>c. Shutdown \in Commands
  BY DEF Commands
<1>1. ChannelsOK'
  BY <1>a, <1>c, EnqueueFacts DEF OwnerStep, ShutdownBus, DropBus, SignalShutdown, AbandonBus,
     loopVars, fwdVars, ChannelsOK, Enqueue
<1> QED
  BY <1>a, <1>1 DEF OwnerStep, ShutdownBus, DropBus, SignalShutdown, AbandonBus, loopVars, fwdVars,
     FlagsOK, UnreadOK, HeldOK

LEMMA TypeInit == Init => BusTypeInv
<1> SUFFICES ASSUME Init PROVE FlagsOK /\ ChannelsOK /\ UnreadOK /\ HeldOK
  BY TypeParts
<1>1. FlagsOK
  BY BusAssumption DEF Init, FlagsOK, Phases
<1>2. ChannelsOK
  BY BusAssumption DEF Init, ChannelsOK
<1>3. UnreadOK /\ HeldOK
  BY DEF Init, UnreadOK, HeldOK
<1> QED
  BY <1>1, <1>2, <1>3

LEMMA TypeStep == BusTypeInv /\ [Next]_vars => BusTypeInv'
<1> SUFFICES ASSUME BusTypeInv, [Next]_vars PROVE BusTypeInv'
  OBVIOUS
<1>1. CASE UNCHANGED vars
  BY <1>1 DEF vars, busVars, loopVars, fwdVars, BusTypeInv, TypeOK, ChannelsOK, UnreadOK, HeldOK
<1> QED
  BY <1>1, UserType, ForwardType, LoopType, OwnerType DEF Next

-----------------------------------------------------------------------------
(* The registry and what was broadcast about it *)

LEMMA LifecycleStep ==
  BusTypeInv /\ LifecycleMatchesRegistry /\ [Next]_vars => LifecycleMatchesRegistry'
<1> SUFFICES ASSUME BusTypeInv, LifecycleMatchesRegistry, [Next]_vars
             PROVE  LifecycleMatchesRegistry'
  OBVIOUS
<1>a. FlagsOK /\ ChannelsOK
  BY TypeParts
<1> DEFINE c == Head(cmdq)
<1>1. CASE UNCHANGED <<ring, online>>
  BY <1>1 DEF LifecycleMatchesRegistry
<1>2. CASE LoopSend
  <2>1. c \in Commands /\ c.op = "send"
    BY <1>2, <1>a, TakeFacts DEF LoopSend
  <2>2. CASE Publish(<<App(c.to)>>)
    <3> DEFINE ms == <<App(c.to)>>
    <3>1. ms \in Seq(Messages) /\ DOMAIN ms = {1} /\ ms[1] = App(c.to)
      BY <2>1, CommandFacts, MessageFacts
    <3>2. \A n \in Nodes : ~OfNode(App(c.to), n)
      BY DEF OfNode, App
    <3> HIDE DEF ms
    <3>3. \A i \in DOMAIN ms, n \in Nodes : ~OfNode(ms[i], n)
      BY <3>1, <3>2
    <3>4. online' = online /\ Publish(ms)
      BY <1>2, <2>2 DEF LoopSend, ms
    <3> QED
      BY <3>1, <3>3, <3>4, PublishAgrees
  <2> QED
    BY <1>1, <1>2, <2>2 DEF LoopSend
<1>3. CASE LoopConnect
  <2>1. c \in Commands /\ c.op = "connect"
    BY <1>3, <1>a, TakeFacts DEF LoopConnect
  <2>2. CASE Publish(<<NodeOnline(c.node)>>) /\ online' = online \cup {c.node}
    <3> DEFINE ms == <<NodeOnline(c.node)>>
    <3>1. ms \in Seq(Messages) /\ DOMAIN ms = {1} /\ ms[1] = NodeOnline(c.node)
      BY <2>1, CommandFacts, MessageFacts
    <3>2. /\ \A n \in Nodes : OfNode(NodeOnline(c.node), n) <=> n = c.node
          /\ NodeOnline(c.node).type = "node_online"
      BY DEF OfNode, NodeOnline
    <3>3. Publish(ms)
      BY <2>2
    <3> HIDE DEF ms
    <3> QED
      BY <2>2, <3>1, <3>2, <3>3, PublishAgrees
  <2> QED
    BY <1>1, <1>3, <2>2 DEF LoopConnect
<1>4. CASE LoopDisconnect
  <2>1. c \in Commands /\ c.op = "disconnect"
    BY <1>4, <1>a, TakeFacts DEF LoopDisconnect
  <2> DEFINE ms == <<NodeOffline(c.node)>>
  <2>2. ms \in Seq(Messages) /\ DOMAIN ms = {1} /\ ms[1] = NodeOffline(c.node)
    BY <2>1, CommandFacts, MessageFacts
  <2>3. /\ \A n \in Nodes : OfNode(NodeOffline(c.node), n) <=> n = c.node
        /\ NodeOffline(c.node).type # "node_online"
    BY DEF OfNode, NodeOffline
  <2>4. Publish(ms) /\ online' = online \ {c.node}
    BY <1>4 DEF LoopDisconnect
  <2> HIDE DEF ms
  <2> QED
    BY <2>2, <2>3, <2>4, PublishAgrees
<1>5. CASE Tick
  <2> DEFINE dead == {n \in online : late[n] + 1 > TimeoutTicks}
  <2>1. PICK q \in Orders(dead) :
          Publish(<<Heartbeat>> \o [i \in DOMAIN q |-> NodeOffline(q[i])])
    BY <1>5 DEF Tick
  <2> DEFINE ms == <<Heartbeat>> \o [i \in DOMAIN q |-> NodeOffline(q[i])]
  <2>2. dead \subseteq Nodes
    BY <1>a DEF FlagsOK
  <2>3. online' = online \ dead
    BY <1>5 DEF Tick
  <2> HIDE DEF dead
  <2>4. /\ ms \in Seq(Messages)
        /\ \A n \in Nodes : n \in dead <=> \E i \in DOMAIN ms : OfNode(ms[i], n)
        /\ \A i \in DOMAIN ms : ms[i].type # "node_online"
    BY <2>1, <2>2, TickMessages
  <2>5. Publish(ms)
    BY <2>1
  <2> HIDE DEF ms
  <2> QED
    BY <2>3, <2>4, <2>5, PublishAgrees
<1> QED
  BY <1>1, <1>2, <1>3, <1>4, <1>5
     DEF Next, UserStep, Connect, Subscribe, Send, Recv, RecvEmpty, RecvIsClosed, Disconnect,
         DropHandle, Reconnect, ForwardStep, ForwardRecv, ForwardLagged, ForwardClosed, ForwardAck,
         ForwardPush, LoopCommand, LoopAck, LoopShutdown, LoopEnds, OwnerStep, ShutdownBus, DropBus,
         SignalShutdown, AbandonBus, vars, loopVars
-----------------------------------------------------------------------------
(* Calls and their commands *)

(* The command of a new call enters the queue.                             *)
LEMMA CallEnters ==
  ASSUME BusTypeInv, CallInv, running, running', NEW h \in Handles, NEW c, c.handle = {h},
         phase[h] \notin Calls, Waits[c.op] \in Calls, Enqueue(c),
         phase' = [phase EXCEPT ![h] = Waits[c.op]]
  PROVE  CallInv'
<1>1. cmdq \in Seq(Commands) /\ phase \in [Handles -> Phases]
  BY TypeParts DEF ChannelsOK, FlagsOK
<1> DEFINE k == Len(cmdq) + 1
<1>2. /\ DOMAIN cmdq = 1..Len(cmdq) /\ DOMAIN cmdq' = 1..k /\ cmdq'[k] = c /\ Len(cmdq) \in Nat
      /\ \A i \in 1..Len(cmdq) : cmdq'[i] = cmdq[i]
  BY <1>1 DEF Enqueue
<1>3. \A i \in DOMAIN cmdq : ~Queued(h, i)
  BY DEF CallInv
<1>4. \A i \in DOMAIN cmdq' : h \in cmdq'[i].handle <=> i = k
  BY <1>2, <1>3 DEF Queued
<1>5. ASSUME NEW g \in Handles, g # h
      PROVE  /\ phase'[g] = phase[g]
             /\ \A i \in DOMAIN cmdq' :
                  g \in cmdq'[i].handle => i \in DOMAIN cmdq /\ cmdq'[i] = cmdq[i]
             /\ \A i \in DOMAIN cmdq : i \in DOMAIN cmdq' /\ cmdq'[i] = cmdq[i]
  BY <1>1, <1>2, <1>5
<1> SUFFICES ASSUME NEW g \in Handles
             PROVE  /\ phase'[g] \in Calls <=> \E i \in DOMAIN cmdq' : g \in cmdq'[i].handle
                    /\ \A i \in DOMAIN cmdq' :
                         g \in cmdq'[i].handle => Waits[cmdq'[i].op] = phase'[g]
                    /\ \A i, j \in DOMAIN cmdq' :
                         g \in cmdq'[i].handle /\ g \in cmdq'[j].handle => i = j
  BY DEF CallInv, Queued
<1>6. CASE g = h
  <2>1. phase'[h] = Waits[c.op] /\ k \in DOMAIN cmdq'
    BY <1>1, <1>2
  <2> QED
    BY <1>2, <1>4, <1>6, <2>1
<1>7. CASE g # h
  <2>1. /\ phase[g] \in Calls <=> \E i \in DOMAIN cmdq : g \in cmdq[i].handle
        /\ \A i \in DOMAIN cmdq : g \in cmdq[i].handle => Waits[cmdq[i].op] = phase[g]
        /\ \A i, j \in DOMAIN cmdq : g \in cmdq[i].handle /\ g \in cmdq[j].handle => i = j
    BY DEF CallInv, Queued
  <2> QED
    BY <1>5, <1>7, <2>1
<1> QED
  BY <1>6, <1>7

(* A command that nobody waits for enters the queue.                       *)
LEMMA OtherEnters ==
  ASSUME BusTypeInv, CallInv, running, running', NEW c, c.handle = {}, Enqueue(c), phase' = phase
  PROVE  CallInv'
<1>1. cmdq \in Seq(Commands)
  BY TypeParts DEF ChannelsOK
<1> DEFINE k == Len(cmdq) + 1
<1>2. /\ DOMAIN cmdq = 1..Len(cmdq) /\ DOMAIN cmdq' = 1..k /\ cmdq'[k] = c /\ Len(cmdq) \in Nat
      /\ \A i \in 1..Len(cmdq) : cmdq'[i] = cmdq[i]
  BY <1>1 DEF Enqueue
<1>3. \A g \in Handles, i \in DOMAIN cmdq' :
        g \in cmdq'[i].handle => i \in DOMAIN cmdq /\ cmdq'[i] = cmdq[i]
  BY <1>2
<1>4. \A i \in DOMAIN cmdq : i \in DOMAIN cmdq' /\ cmdq'[i] = cmdq[i]
  BY <1>2
<1> QED
  BY <1>3, <1>4 DEF CallInv, Queued

(* The queue stays, and so does who is in a call.                          *)
LEMMA CallsStay ==
  ASSUME CallInv, cmdq' = cmdq, running' = running,
         \A h \in Handles : phase'[h] = phase[h] \/ (phase[h] \notin Calls /\ phase'[h] \notin Calls)
  PROVE  CallInv'
<1>1. ASSUME NEW h \in Handles
      PROVE  /\ phase'[h] \in Calls <=> phase[h] \in Calls
             /\ phase[h] \in Calls => phase'[h] = phase[h]
  OBVIOUS
<1> QED
  BY <1>1 DEF CallInv, Queued

(* The loop takes a command and answers its caller.                        *)
LEMMA CallLeaves ==
  ASSUME BusTypeInv, CallInv, NEW op, Take(op), running' = running,
         NEW step, step \notin Calls, Answer(Head(cmdq), step)
  PROVE  CallInv'
<1>1. cmdq \in Seq(Commands) /\ cmdq # <<>> /\ cmdq' = Tail(cmdq) /\ running
  BY TypeParts DEF ChannelsOK, Take
<1>2. /\ DOMAIN cmdq = 1..Len(cmdq) /\ DOMAIN cmdq' = 1..(Len(cmdq) - 1)
      /\ Len(cmdq) \in Nat /\ Len(cmdq) > 0
      /\ Head(cmdq) = cmdq[1]
      /\ \A i \in 1..(Len(cmdq) - 1) : cmdq'[i] = cmdq[i + 1]
  BY <1>1
<1> SUFFICES ASSUME NEW g \in Handles
             PROVE  /\ phase'[g] \in Calls <=> \E i \in DOMAIN cmdq' : g \in cmdq'[i].handle
                    /\ \A i \in DOMAIN cmdq' :
                         g \in cmdq'[i].handle => Waits[cmdq'[i].op] = phase'[g]
                    /\ \A i, j \in DOMAIN cmdq' :
                         g \in cmdq'[i].handle /\ g \in cmdq'[j].handle => i = j
  BY <1>1 DEF CallInv, Queued
<1>3. /\ phase[g] \in Calls <=> \E i \in DOMAIN cmdq : g \in cmdq[i].handle
      /\ \A i \in DOMAIN cmdq : g \in cmdq[i].handle => Waits[cmdq[i].op] = phase[g]
      /\ \A i, j \in DOMAIN cmdq : g \in cmdq[i].handle /\ g \in cmdq[j].handle => i = j
  BY DEF CallInv, Queued
<1>4. \A i \in DOMAIN cmdq' : i + 1 \in DOMAIN cmdq /\ cmdq'[i] = cmdq[i + 1] /\ i + 1 # 1
  BY <1>2
<1>5. CASE g \in Head(cmdq).handle
  <2>1. phase'[g] = step /\ 1 \in DOMAIN cmdq
    BY <1>2, <1>5 DEF Answer
  <2>2. \A i \in DOMAIN cmdq' : g \notin cmdq'[i].handle
    BY <1>2, <1>3, <1>4, <1>5, <2>1
  <2> QED
    BY <2>1, <2>2
<1>6. CASE g \notin Head(cmdq).handle
  <2>1. phase'[g] = phase[g]
    BY <1>6 DEF Answer
  <2>2. \A i \in DOMAIN cmdq : g \in cmdq[i].handle =>
          i - 1 \in DOMAIN cmdq' /\ cmdq'[i - 1] = cmdq[i]
    BY <1>2, <1>6
  <2>3. \A i, j \in DOMAIN cmdq' : i + 1 = j + 1 => i = j
    BY <1>2
  <2> QED
    BY <1>3, <1>4, <2>1, <2>2, <2>3
<1> QED
  BY <1>5, <1>6

LEMMA CallStep == BusTypeInv /\ CallInv /\ [Next]_vars => CallInv'
<1> SUFFICES ASSUME BusTypeInv, CallInv, [Next]_vars PROVE CallInv'
  OBVIOUS
<1>a. phase \in [Handles -> Phases] /\ ChannelsOK
  BY TypeParts DEF FlagsOK
<1>b. ASSUME NEW h \in Handles, NEW p, phase' = [phase EXCEPT ![h] = p],
             phase[h] \notin Calls, p \notin Calls, cmdq' = cmdq, running' = running
      PROVE  CallInv'
  BY <1>a, <1>b, CallsStay
<1>c. CASE UNCHANGED <<cmdq, running, phase>>
  BY <1>c, CallsStay
<1>d. /\ Waits["connect"] = "connecting" /\ Waits["send"] = "sending"
      /\ Waits["disconnect"] = "leaving"
  BY DEF Waits
<1> USE DEF Calls, busVars, loopVars, fwdVars
<1>1. ASSUME NEW h \in Handles, UserStep(h) PROVE CallInv'
  <2>1. CASE Connect(h)
    <3>1. CASE running /\ Enqueue(Command(h, "connect", {}))
               /\ phase' = [phase EXCEPT ![h] = "connecting"]
      BY <1>d, <2>1, <3>1, CallEnters DEF Connect, Command
    <3> QED
      BY <1>b, <2>1, <3>1 DEF Connect
  <2>2. CASE Subscribe(h)
    BY <1>b, <2>2 DEF Subscribe
  <2>3. CASE Send(h)
    BY <1>d, <2>3, CallEnters DEF Send, Command
  <2>4. CASE Recv(h)
    BY <1>c, <2>4 DEF Recv
  <2>5. CASE RecvEmpty(h) \/ RecvIsClosed(h) \/ DropHandle(h)
    BY <1>b, <2>5 DEF RecvEmpty, RecvIsClosed, DropHandle
  <2>6. CASE Disconnect(h)
    <3>1. CASE running /\ Enqueue(Command(h, "disconnect", {}))
               /\ phase' = [phase EXCEPT ![h] = "leaving"]
      BY <1>d, <2>6, <3>1, CallEnters DEF Disconnect, Command
    <3> QED
      BY <1>b, <2>6, <3>1 DEF Disconnect
  <2>7. CASE Reconnect(h)
    BY <1>b, <2>7 DEF Reconnect
  <2> QED
    BY <1>1, <2>1, <2>2, <2>3, <2>4, <2>5, <2>6, <2>7 DEF UserStep
<1>2. ASSUME NEW h \in Handles, ForwardStep(h) PROVE CallInv'
  <2>1. CASE ForwardAck(h)
    <3>1. CASE running /\ Enqueue(Ack(NodeOf[h]))
      BY <2>1, <3>1, OtherEnters DEF ForwardAck, Ack
    <3> QED
      BY <1>c, <2>1, <3>1 DEF ForwardAck
  <2> QED
    BY <1>2, <1>c, <2>1
       DEF ForwardStep, ForwardRecv, ForwardLagged, ForwardClosed, ForwardPush
<1>3. CASE LoopSend
  BY <1>3, CallLeaves DEF LoopSend
<1>4. CASE LoopConnect
  BY <1>4, CallLeaves DEF LoopConnect
<1>5. CASE LoopDisconnect
  BY <1>5, CallLeaves DEF LoopDisconnect
<1>6. CASE LoopAck
  <2>1. Head(cmdq) \in Commands /\ Head(cmdq).op = "ack"
    BY <1>6, <1>a, TakeFacts DEF LoopAck
  <2>2. Head(cmdq).handle = {}
    BY <2>1, CommandFacts
  <2>3. Answer(Head(cmdq), "open")
    BY <1>6, <1>a, <2>2 DEF LoopAck, Answer
  <2> QED
    BY <1>6, <2>3, CallLeaves DEF LoopAck
<1>7. CASE LoopShutdown
  <2>1. cmdq' = <<>> /\ \A h \in Handles : phase'[h] \notin Calls
    BY <1>7 DEF LoopShutdown
  <2> QED
    BY <2>1 DEF CallInv, Queued
<1>8. CASE LoopEnds
  BY <1>8 DEF LoopEnds, CallInv, Queued
<1>9. CASE Tick
  BY <1>9, <1>c DEF Tick
<1>10. CASE OwnerStep
  <2>1. CASE running /\ Enqueue(Shutdown) /\ UNCHANGED <<running, phase>>
    BY <2>1, OtherEnters DEF Shutdown
  <2> QED
    BY <1>10, <1>c, <2>1
       DEF OwnerStep, ShutdownBus, DropBus, SignalShutdown, AbandonBus, Enqueue
<1>11. CASE UNCHANGED vars
  BY <1>11, <1>c DEF vars
<1> QED
  BY <1>1, <1>2, <1>3, <1>4, <1>5, <1>6, <1>7, <1>8, <1>9, <1>10, <1>11 DEF Next, LoopCommand

-----------------------------------------------------------------------------
(* The theorems *)

LEMMA BusInv == Spec => []IInv
<1>1. Init => IInv
  <2>1. Init => LifecycleMatchesRegistry
    BY DEF Init, LifecycleMatchesRegistry
  <2>2. Init => CallInv
    BY DEF Init, CallInv, Calls, Queued
  <2> QED
    BY <2>1, <2>2, TypeInit DEF IInv
<1>2. IInv /\ [Next]_vars => IInv'
  BY TypeStep, LifecycleStep, CallStep DEF IInv
<1> QED
  BY <1>1, <1>2, PTL DEF Spec

(* Type correctness: the command queue, the broadcast ring and the inbound *)
(* queues keep their bounds, and a lagged receiver is reset into the ring. *)
THEOREM BusTypeCorrect == Spec => []TypeOK
<1>1. IInv => TypeOK
  BY DEF IInv, BusTypeInv
<1> QED
  BY <1>1, BusInv, PTL

(* The last lifecycle message of a node in the broadcast ring agrees with  *)
(* the nodes map, whichever of connect, disconnect and heartbeat timeout   *)
(* changed it and however many handles share the id.                       *)
THEOREM LifecycleIsBroadcast == Spec => []LifecycleMatchesRegistry
<1>1. IInv => LifecycleMatchesRegistry
  BY DEF IInv
<1> QED
  BY <1>1, BusInv, PTL

(* A connect, send or disconnect that waits has exactly one command in the *)
(* queue of a running loop: no answer channel is lost, not even when the   *)
(* loop shuts down with commands queued.                                   *)
THEOREM CallsAreQueued == Spec => []CallsQueued
<1>1. IInv => CallsQueued
  <2> SUFFICES ASSUME IInv, NEW h \in Handles
               PROVE  LET mine == {i \in DOMAIN cmdq : h \in cmdq[i].handle} IN
                      /\ phase[h] \in Calls <=> mine # {}
                      /\ \A i \in mine : running /\ Waits[cmdq[i].op] = phase[h]
                      /\ Cardinality(mine) <= 1
    BY DEF CallsQueued
  <2> DEFINE mine == {i \in DOMAIN cmdq : h \in cmdq[i].handle}
  <2>1. CallInv /\ running \in BOOLEAN
    BY TypeParts DEF IInv, FlagsOK
  <2>2. phase[h] \in Calls <=> mine # {}
    BY <2>1 DEF CallInv, Queued
  <2>3. \A i \in mine : running /\ Waits[cmdq[i].op] = phase[h]
    BY <2>1 DEF CallInv, Queued
  <2>4. Cardinality(mine) <= 1
    <3>1. CASE mine = {}
      BY <3>1, FS_EmptySet
    <3>2. CASE mine # {}
      <4>1. PICK i \in mine : TRUE
        BY <3>2
      <4>2. mine = {i}
        BY <2>1, <4>1 DEF CallInv, Queued
      <4> QED
        BY <4>2, FS_Singleton
    <3> QED
      BY <3>1, <3>2
  <2> QED
    BY <2>2, <2>3, <2>4
<1> QED
  BY <1>1, BusInv, PTL

-----------------------------------------------------------------------------
(* The heartbeat under prompt tasks *)

(* A tick's heartbeat_request and the node_offline messages of all nodes   *)
(* but one fit the broadcast ring, and the timeout is at least a tick.     *)
PaceAssumption == TimeoutTicks >= 1 /\ Cardinality(Nodes) <= RingCap

(* The handles the registry has to know: Live, and the ones whose command  *)
(* to leave is queued.                                                     *)
Held == {h \in Handles : phase[h] \in {"registered", "open", "polling", "sending", "leaving"}}

(* The last heartbeat is on its way through the task of h: unread in the   *)
(* ring, about to be acked, or its ack in the command queue.               *)
Waiting(h) ==
  unread[h] <= RingCap /\ \E i \in DOMAIN ring : i > Len(ring) - unread[h] /\ ring[i] = Heartbeat

AckQueued(h) == \E i \in DOMAIN cmdq : cmdq[i] = Ack(NodeOf[h])

Pending(h) == fwd[h] = "ack" \/ AckQueued(h) \/ Waiting(h)

(* A held handle is registered, its task runs, and it is late by no more   *)
(* than the one heartbeat that is still on its way.                        *)
Served(h) ==
  /\ NodeOf[h] \in online
  /\ phase[h] # "registered" => fwd[h] # "exit"
  /\ phase[h] # "leaving" /\ late[NodeOf[h]] # 0 =>
       phase[h] # "registered" /\ late[NodeOf[h]] = 1 /\ Pending(h)

OneHeld == \A g, h \in Held : NodeOf[g] = NodeOf[h] => g = h

PaceInv == pace = "read" => OneHeld /\ (running => \A h \in Held : Served(h))

(* A step after which every held handle was held, and is still served.     *)
LEMMA PaceKept ==
  ASSUME PaceInv, pace' = "read" => pace = "read", running' => running,
         \A h \in Handles : h \in Held' => h \in Held,
         ASSUME NEW h \in Handles, h \in Held, h \in Held', Served(h), running, running'
         PROVE  Served(h)'
  PROVE  PaceInv'
<1>1. OneHeld /\ pace = "read" => OneHeld'
  BY DEF OneHeld, Held
<1>2. ASSUME pace = "read", running', NEW h \in Held' PROVE Served(h)'
  <2>1. h \in Handles /\ h \in Held /\ running
    BY <1>2 DEF Held
  <2>2. Served(h)
    BY <1>2, <2>1 DEF PaceInv
  <2> QED
    BY <1>2, <2>1, <2>2
<1> QED
  BY <1>1, <1>2 DEF PaceInv

(* A command that enters the queue hides no ack.                           *)
LEMMA AckStays ==
  ASSUME BusTypeInv, NEW c, Enqueue(c), NEW h \in Handles, AckQueued(h)
  PROVE  AckQueued(h)'
<1>1. cmdq \in Seq(Commands)
  BY TypeParts DEF ChannelsOK
<1>2. PICK i \in DOMAIN cmdq : cmdq[i] = Ack(NodeOf[h])
  BY DEF AckQueued
<1>3. i \in DOMAIN cmdq' /\ cmdq'[i] = cmdq[i]
  BY <1>1 DEF Enqueue
<1> QED
  BY <1>2, <1>3 DEF AckQueued

(* What a user does leaves the heartbeat on its way.                       *)
LEMMA PaceUser ==
  ASSUME BusTypeInv, PaceInv, NEW h \in Handles, UserStep(h), pace' = pace
  PROVE  PaceInv'
<1>a. FlagsOK /\ ChannelsOK
  BY TypeParts
<1> USE DEF busVars, loopVars, fwdVars
<1>1. /\ running' = running /\ online' = online /\ late' = late /\ ring' = ring
      /\ \A g \in Handles : g # h => phase'[g] = phase[g] /\ fwd'[g] = fwd[g] /\ unread'[g] = unread[g]
      /\ cmdq' = cmdq \/ \E c : Enqueue(c)
  BY <1>a DEF UserStep, Connect, Subscribe, Send, Recv, RecvEmpty, RecvIsClosed, Disconnect,
     DropHandle, Reconnect, FlagsOK
<1>2. \A g \in Handles : AckQueued(g) => AckQueued(g)'
  BY <1>1, AckStays DEF AckQueued
<1>3. ASSUME NEW g \in Handles, g # h, Served(g) PROVE Served(g)'
  <2>1. Pending(g) => Pending(g)'
    BY <1>1, <1>2, <1>3 DEF Pending, Waiting
  <2> QED
    BY <1>1, <1>3, <2>1 DEF Served
<1>4. phase'[h] \in {"registered", "open", "polling", "sending", "leaving"} => h \in Held
  BY <1>a DEF UserStep, Connect, Subscribe, Send, Recv, RecvEmpty, RecvIsClosed, Disconnect,
     DropHandle, Reconnect, FlagsOK, Held
<1>5. ASSUME Served(h), h \in Held, h \in Held' PROVE Served(h)'
  <2>1. CASE Subscribe(h)
    <3>1. /\ phase[h] = "registered"
          /\ phase'[h] = "open" /\ fwd'[h] = "wait"
      BY <1>a, <1>5, <2>1 DEF Subscribe, FlagsOK, Held
    <3> QED
      BY <1>1, <1>5, <3>1 DEF Served
  <2>2. CASE ~Subscribe(h)
    <3>1. h \in Held' => /\ fwd'[h] = fwd[h] /\ unread'[h] = unread[h]
                         /\ phase[h] # "registered" /\ phase[h] # "leaving"
                         /\ phase'[h] # "registered"
      BY <1>a, <1>5, <2>2 DEF UserStep, Connect, Send, Recv, RecvEmpty, RecvIsClosed, Disconnect,
         DropHandle, Reconnect, FlagsOK, Held
    <3>2. Pending(h) => Pending(h)'
      BY <1>1, <1>2, <1>5, <3>1 DEF Pending, Waiting
    <3> QED
      BY <1>1, <1>5, <3>1, <3>2 DEF Served
  <2> QED
    BY <2>1, <2>2
<1>6. \A g \in Handles : g \in Held' => g \in Held
  BY <1>1, <1>4 DEF Held
<1>7. ASSUME NEW g \in Handles, g \in Held, g \in Held', Served(g), running, running'
      PROVE  Served(g)'
  BY <1>3, <1>5, <1>7
<1> QED
  BY <1>1, <1>6, <1>7, PaceKept

(* A forwarding task moves the heartbeat on, from the ring to its ack.     *)
LEMMA PaceForward ==
  ASSUME BusTypeInv, PaceInv, NEW h \in Handles, ForwardStep(h), pace' = pace
  PROVE  PaceInv'
<1>a. FlagsOK /\ ChannelsOK /\ UnreadOK
  BY TypeParts
<1>b. RingCap \in Nat \ {0} /\ Len(ring) \in Nat /\ unread[h] \in 0..(RingCap + 1)
  BY <1>a, BusAssumption DEF ChannelsOK, FlagsOK
<1> USE DEF busVars, loopVars, fwdVars, NextRound
<1>1. /\ running' = running /\ online' = online /\ late' = late /\ ring' = ring /\ phase' = phase
      /\ \A g \in Handles : g # h => fwd'[g] = fwd[g] /\ unread'[g] = unread[g]
      /\ cmdq' = cmdq \/ \E c : Enqueue(c)
  BY <1>a DEF ForwardStep, ForwardRecv, ForwardLagged, ForwardClosed, ForwardAck, ForwardPush, FlagsOK
<1>2. \A g \in Handles : AckQueued(g) => AckQueued(g)'
  BY <1>1, AckStays DEF AckQueued
<1>3. ASSUME NEW g \in Handles, g # h, Served(g) PROVE Served(g)'
  <2>1. Pending(g) => Pending(g)'
    BY <1>1, <1>2, <1>3 DEF Pending, Waiting
  <2> QED
    BY <1>1, <1>3, <2>1 DEF Served
<1>4. ASSUME Served(h), h \in Held, running PROVE Served(h)'
  <2>1. CASE phase[h] = "registered"
    BY <1>1, <1>4, <2>1 DEF Served
  <2>2. CASE phase[h] # "registered"
    <3>1. ~Gone(h)
      BY <1>4, <2>2 DEF Gone, Holding, Held
    <3>2. fwd'[h] # "exit"
      BY <1>a, <1>4, <2>2, <3>1 DEF ForwardStep, ForwardRecv, ForwardLagged, ForwardClosed, Closed,
         ForwardAck, ForwardPush, FlagsOK, Served
    <3>3. ASSUME Pending(h) PROVE Pending(h)'
      <4>1. CASE ForwardRecv(h)
        <5>1. fwd[h] = "wait" /\ unread'[h] = unread[h] - 1 /\ unread[h] \in 1..RingCap
          BY <1>a, <4>1 DEF ForwardRecv, FlagsOK
        <5>2. CASE Waiting(h)
          <6>1. PICK i \in DOMAIN ring : i > Len(ring) - unread[h] /\ ring[i] = Heartbeat
            BY <5>2 DEF Waiting
          <6>2. CASE i = Len(ring) - unread[h] + 1
            <7>1. fwd'[h] = "ack"
              BY <1>a, <4>1, <6>1, <6>2 DEF ForwardRecv, Unread, FlagsOK
            <7> QED
              BY <7>1 DEF Pending
          <6>3. CASE i # Len(ring) - unread[h] + 1
            <7>0. i \in Nat
              BY <1>a, <6>1 DEF ChannelsOK
            <7>1. i > Len(ring') - unread'[h] /\ unread'[h] <= RingCap
              BY <1>1, <1>b, <5>1, <6>1, <6>3, <7>0
            <7> QED
              BY <1>1, <6>1, <7>1 DEF Pending, Waiting
          <6> QED
            BY <6>2, <6>3
        <5> QED
          BY <1>2, <3>3, <5>1, <5>2 DEF Pending
      <4>2. CASE ForwardLagged(h)
        <5>1. fwd[h] = "wait" /\ ~Waiting(h)
          BY <1>b, <4>2 DEF ForwardLagged, Waiting
        <5> QED
          BY <1>2, <3>3, <5>1 DEF Pending
      <4>3. CASE ForwardAck(h)
        <5>1. Enqueue(Ack(NodeOf[h]))
          BY <1>4, <4>3 DEF ForwardAck
        <5>2. Len(cmdq) + 1 \in DOMAIN cmdq' /\ cmdq'[Len(cmdq) + 1] = Ack(NodeOf[h])
          BY <1>a, <5>1 DEF Enqueue, ChannelsOK
        <5> QED
          BY <5>2 DEF Pending, AckQueued
      <4>4. CASE ForwardPush(h)
        <5>1. fwd[h] = "push" /\ unread' = unread
          BY <3>1, <4>4 DEF ForwardPush
        <5> QED
          BY <1>1, <1>2, <3>3, <5>1 DEF Pending, Waiting
      <4>5. ~ForwardClosed(h)
        BY <1>4 DEF ForwardClosed, Closed
      <4> QED
        BY <4>1, <4>2, <4>3, <4>4, <4>5 DEF ForwardStep
    <3> QED
      BY <1>1, <1>4, <2>2, <3>2, <3>3 DEF Served
  <2> QED
    BY <2>1, <2>2
<1>5. \A g \in Handles : g \in Held' => g \in Held
  BY <1>1 DEF Held
<1>6. ASSUME NEW g \in Handles, g \in Held, g \in Held', Served(g), running, running'
      PROVE  Served(g)'
  BY <1>3, <1>4, <1>6
<1> QED
  BY <1>1, <1>5, <1>6, PaceKept

(* What a prompt pace says of the tasks when the loop takes a command: a   *)
(* pending heartbeat has left the ring.                                    *)
LEMMA PromptTask ==
  ASSUME BusTypeInv, PaceInv, pace' = Pace(\A h \in Handles : KeepsUp(h)), pace' = "read", running,
         NEW h \in Held, phase[h] # "registered"
  PROVE  /\ fwd[h] \in {"wait", "ack"} /\ ~(fwd[h] = "wait" /\ Waiting(h))
         /\ Pending(h) => fwd[h] = "ack" \/ AckQueued(h)
<1>1. pace = "read" /\ KeepsUp(h) /\ fwd[h] # "push" /\ h \in Handles
  BY DEF Pace, Held
<1>2. fwd[h] # "exit"
  BY <1>1 DEF PaceInv, Served
<1>3. fwd[h] \in {"wait", "ack"} /\ ring \in Seq(Messages)
  BY <1>1, <1>2, TypeParts DEF FlagsOK, ChannelsOK
<1>4. fwd[h] = "wait" => ~Waiting(h)
  BY <1>1, <1>3 DEF KeepsUp, Waiting
<1> QED
  BY <1>3, <1>4 DEF Pending

(* The head of the queue leaves it; other commands stay.                   *)
LEMMA AckLeaves ==
  ASSUME BusTypeInv, NEW op, Take(op), NEW h \in Handles, AckQueued(h), Head(cmdq) # Ack(NodeOf[h])
  PROVE  AckQueued(h)'
<1>1. cmdq \in Seq(Commands) /\ cmdq # <<>> /\ cmdq' = Tail(cmdq)
  BY TypeParts DEF ChannelsOK, Take
<1>2. PICK i \in DOMAIN cmdq : cmdq[i] = Ack(NodeOf[h])
  BY DEF AckQueued
<1>3. i # 1 /\ i \in 1..Len(cmdq) /\ Len(cmdq) \in Nat
  BY <1>1, <1>2
<1>4. i - 1 \in DOMAIN cmdq' /\ cmdq'[i - 1] = cmdq[i]
  BY <1>1, <1>3
<1> QED
  BY <1>2, <1>4 DEF AckQueued

(* The loop answers its commands.                                          *)
LEMMA PaceCommand ==
  ASSUME BusTypeInv, CallInv, PaceInv, LoopCommand, pace' = Pace(\A h \in Handles : KeepsUp(h))
  PROVE  PaceInv'
<1> SUFFICES ASSUME pace' = "read" PROVE PaceInv'
  BY DEF PaceInv
<1>a. FlagsOK /\ ChannelsOK
  BY TypeParts
<1>b. pace = "read" /\ running
  BY DEF Pace, LoopCommand, LoopSend, LoopConnect, LoopDisconnect, LoopAck, LoopShutdown, LoopEnds,
     Take
<1>c. OneHeld /\ \A h \in Held : Served(h)
  BY <1>b DEF PaceInv
<1> DEFINE c == Head(cmdq)
<1> USE DEF busVars, loopVars, fwdVars
<1>d. ASSUME NEW op, Take(op), op # "ack", NEW h \in Held, Served(h), fwd' = fwd,
             phase[h] # "registered", Pending(h)
      PROVE  Pending(h)'
  <2>1. h \in Handles /\ (fwd[h] = "ack" \/ AckQueued(h))
    BY <1>b, <1>d, PromptTask DEF Held
  <2>2. c # Ack(NodeOf[h])
    BY <1>d DEF Take, Ack
  <2> QED
    BY <1>d, <2>1, <2>2, AckLeaves DEF Pending
<1>1. CASE LoopSend
  <2>1. /\ c \in Commands /\ c.op = "send" /\ Take("send") /\ Answer(c, "open")
        /\ fwd' = fwd /\ online' = online /\ late' = late /\ running' = running
    BY <1>1, <1>a, TakeFacts DEF LoopSend
  <2>2. \A h \in c.handle : h \in Handles => phase[h] = "sending"
    <3>1. 1 \in DOMAIN cmdq /\ c = cmdq[1]
      BY <1>a, <2>1 DEF Take, ChannelsOK
    <3> QED
      BY <2>1, <3>1 DEF CallInv, Queued, Waits
  <2>3. \A h \in Handles : phase'[h] = phase[h] \/ (phase[h] = "sending" /\ phase'[h] = "open")
    BY <2>1, <2>2 DEF Answer
  <2>4. \A h \in Handles : h \in Held' => h \in Held
    BY <2>3 DEF Held
  <2>5. ASSUME NEW h \in Handles, h \in Held, h \in Held', Served(h), running, running'
        PROVE  Served(h)'
    <3>1. Pending(h) /\ phase[h] # "registered" => Pending(h)'
      BY <1>d, <2>1, <2>5
    <3> QED
      BY <2>1, <2>3, <2>5, <3>1 DEF Served
  <2> QED
    BY <1>b, <2>1, <2>4, <2>5, PaceKept
<1>2. CASE LoopConnect
  <2>1. /\ c \in Commands /\ c.op = "connect" /\ Take("connect")
        /\ fwd' = fwd /\ running' = running
    BY <1>2, <1>a, TakeFacts DEF LoopConnect
  <2>2. PICK g \in Handles : c.handle = {g} /\ c.node = NodeOf[g]
    BY <2>1 DEF Commands, Command, Ack, Shutdown
  <2>3. phase[g] = "connecting"
    <3>1. 1 \in DOMAIN cmdq /\ c = cmdq[1]
      BY <1>a, <2>1 DEF Take, ChannelsOK
    <3> QED
      BY <2>1, <2>2, <3>1 DEF CallInv, Queued, Waits
  <2>4. CASE c.node \in online
    <3>1. Answer(c, "refused") /\ online' = online /\ late' = late
      BY <1>2, <2>4 DEF LoopConnect
    <3>2. \A h \in Handles : h \in Held' => h # g /\ phase'[h] = phase[h] /\ h \in Held
      BY <2>2, <3>1 DEF Held, Answer
    <3>3. ASSUME NEW h \in Handles, h \in Held, h \in Held', Served(h), running, running'
          PROVE  Served(h)'
      <4>1. Pending(h) /\ phase[h] # "registered" => Pending(h)'
        BY <1>d, <2>1, <3>3
      <4> QED
        BY <2>1, <3>1, <3>2, <3>3, <4>1 DEF Served
    <3> QED
      BY <1>b, <2>1, <3>2, <3>3, PaceKept
  <2>5. CASE c.node \notin online
    <3>1. /\ Answer(c, "registered") /\ online' = online \cup {c.node}
          /\ late' = [late EXCEPT ![c.node] = 0]
      BY <1>2, <2>5 DEF LoopConnect
    <3>2. late \in [Nodes -> 0..TimeoutTicks] /\ NodeOf \in [Handles -> Nodes]
      BY <1>a, BusAssumption DEF FlagsOK
    <3>3. ASSUME NEW h \in Handles, h # g, h \in Held'
          PROVE  /\ phase'[h] = phase[h] /\ h \in Held /\ NodeOf[h] # NodeOf[g]
                 /\ Served(h) /\ Served(h)'
      <4>1. phase'[h] = phase[h] /\ h \in Held
        BY <2>2, <3>1, <3>3 DEF Held, Answer
      <4>2. Served(h) /\ NodeOf[h] # NodeOf[g]
        BY <1>c, <2>2, <2>5, <4>1 DEF Served
      <4>3. Pending(h) /\ phase[h] # "registered" => Pending(h)'
        BY <1>d, <2>1, <4>1, <4>2
      <4>4. late'[NodeOf[h]] = late[NodeOf[h]]
        BY <2>2, <3>1, <3>2, <4>2
      <4> QED
        BY <2>1, <3>1, <4>1, <4>2, <4>3, <4>4 DEF Served
    <3>4. phase'[g] = "registered" /\ NodeOf[g] \in online' /\ late'[NodeOf[g]] = 0
      BY <2>2, <3>1, <3>2 DEF Answer
    <3>5. Served(g)'
      BY <3>4 DEF Served
    <3>6. \A h \in Held' : Served(h)'
      BY <3>3, <3>5 DEF Held
    <3>7. OneHeld'
      BY <1>c, <3>3 DEF OneHeld, Held
    <3> QED
      BY <3>6, <3>7 DEF PaceInv
  <2> QED
    BY <2>4, <2>5
<1>3. CASE LoopDisconnect
  <2>1. /\ c \in Commands /\ c.op = "disconnect" /\ Take("disconnect") /\ Answer(c, "left")
        /\ fwd' = fwd /\ running' = running /\ online' = online \ {c.node}
        /\ late' = [late EXCEPT ![c.node] = 0]
    BY <1>3, <1>a, TakeFacts DEF LoopDisconnect
  <2>2. PICK g \in Handles : c.handle = {g} /\ c.node = NodeOf[g]
    BY <2>1 DEF Commands, Command, Ack, Shutdown
  <2>3. phase[g] = "leaving" /\ g \in Held
    <3>1. 1 \in DOMAIN cmdq /\ c = cmdq[1]
      BY <1>a, <2>1 DEF Take, ChannelsOK
    <3> QED
      BY <2>1, <2>2, <3>1 DEF CallInv, Queued, Waits, Held
  <2>4. ASSUME NEW h \in Handles, h \in Held'
        PROVE  h # g /\ phase'[h] = phase[h] /\ h \in Held /\ NodeOf[h] # NodeOf[g]
    <3>1. h # g /\ phase'[h] = phase[h] /\ h \in Held
      BY <2>1, <2>2, <2>4 DEF Held, Answer
    <3> QED
      BY <1>c, <2>3, <3>1 DEF OneHeld
  <2>5. ASSUME NEW h \in Handles, h \in Held, h \in Held', Served(h), running, running'
        PROVE  Served(h)'
    <3>1. Pending(h) /\ phase[h] # "registered" => Pending(h)'
      BY <1>d, <2>1, <2>5
    <3>2. late'[NodeOf[h]] = late[NodeOf[h]]
      BY <1>a, <2>1, <2>2, <2>4, <2>5, BusAssumption DEF FlagsOK
    <3> QED
      BY <2>1, <2>2, <2>4, <2>5, <3>1, <3>2 DEF Served
  <2> QED
    BY <1>b, <2>1, <2>4, <2>5, PaceKept
<1>4. CASE LoopAck
  <2>1. /\ c \in Commands /\ c.op = "ack" /\ Take("ack") /\ phase' = phase /\ fwd' = fwd
        /\ running' = running /\ online' = online /\ late' = [late EXCEPT ![c.node] = 0]
        /\ ring' = ring /\ unread' = unread
    BY <1>4, <1>a, TakeFacts DEF LoopAck
  <2>2. \A h \in Handles : h \in Held' => h \in Held
    BY <2>1 DEF Held
  <2>3. ASSUME NEW h \in Handles, h \in Held, h \in Held', Served(h), running, running'
        PROVE  Served(h)'
    <3>1. CASE NodeOf[h] = c.node
      <4>1. late'[NodeOf[h]] = 0
        BY <1>a, <2>1, <3>1, BusAssumption DEF FlagsOK
      <4> QED
        BY <2>1, <2>3, <4>1 DEF Served
    <3>2. CASE NodeOf[h] # c.node
      <4>1. late'[NodeOf[h]] = late[NodeOf[h]]
        BY <1>a, <2>1, <3>2, BusAssumption DEF FlagsOK
      <4>2. c # Ack(NodeOf[h])
        BY <3>2 DEF Ack
      <4>3. Pending(h) => Pending(h)'
        BY <2>1, <4>2, AckLeaves DEF Pending, Waiting
      <4> QED
        BY <2>1, <2>3, <4>1, <4>3 DEF Served
    <3> QED
      BY <3>1, <3>2
  <2> QED
    BY <1>b, <2>1, <2>2, <2>3, PaceKept
<1>5. CASE LoopShutdown \/ LoopEnds
  <2>1. running' = FALSE /\ \A h \in Handles : h \in Held' => h \in Held
    BY <1>5 DEF LoopShutdown, LoopEnds, Held
  <2> QED
    BY <1>c, <2>1 DEF PaceInv, OneHeld, Held
<1> QED
  BY <1>1, <1>2, <1>3, <1>4, <1>5 DEF LoopCommand

(* How many messages a tick sends, and which is the first.                 *)
LEMMA TickLength ==
  ASSUME NEW S, S \subseteq Nodes, NEW q \in Orders(S)
  PROVE  LET ms == <<Heartbeat>> \o [i \in DOMAIN q |-> NodeOffline(q[i])] IN
         ms \in Seq(Messages) /\ Len(ms) = Cardinality(S) + 1 /\ ms[1] = Heartbeat
<1> DEFINE k == Cardinality(S)
           off == [i \in DOMAIN q |-> NodeOffline(q[i])]
<1>1. k \in Nat
  BY BusAssumption, FS_Subset, FS_CardinalityType
<1>2. q \in [1..k -> S]
  BY DEF Orders
<1>3. off \in Seq(Messages) /\ Len(off) = k
  BY <1>1, <1>2, MessageFacts
<1> HIDE DEF off
<1>4. <<Heartbeat>> \in Seq(Messages) /\ Len(<<Heartbeat>>) = 1 /\ <<Heartbeat>>[1] = Heartbeat
  BY MessageFacts
<1>5. /\ <<Heartbeat>> \o off \in Seq(Messages) /\ Len(<<Heartbeat>> \o off) = k + 1
      /\ (<<Heartbeat>> \o off)[1] = Heartbeat
  BY <1>1, <1>3, <1>4, ConcatFacts
<1> QED
  BY <1>5 DEF off

(* A task that had read everything finds the heartbeat of a tick unread.   *)
LEMMA TickWaits ==
  ASSUME BusTypeInv, NEW ms \in Seq(Messages), Publish(ms), Len(ms) \in 1..RingCap,
         ms[1] = Heartbeat, NEW h \in Handles, fwd[h] # "exit", unread[h] = 0
  PROVE  Waiting(h)'
<1> DEFINE q == ring \o ms
<1>1. ring \in Seq(Messages) /\ Len(ring) \in Nat /\ Len(ms) \in Nat /\ RingCap \in Nat \ {0}
  BY BusAssumption, TypeParts DEF ChannelsOK
<1>2. q \in Seq(Messages) /\ Len(q) = Len(ring) + Len(ms) /\ q[Len(ring) + 1] = Heartbeat
  BY <1>1, ConcatFacts
<1> HIDE DEF q
<1>3. /\ ring' \in Seq(Messages) /\ Len(ring') = IF Len(q) <= RingCap THEN Len(q) ELSE RingCap
      /\ \A i \in DOMAIN ring' : ring'[i] = q[i + Len(q) - Len(ring')]
  <2>1. ring' = LastOf(q, RingCap)
    BY DEF Publish, q
  <2> QED
    BY <1>1, <1>2, <2>1, LastOfFacts
<1>4. unread'[h] = Len(ms) /\ unread'[h] <= RingCap
  BY <1>1 DEF Publish
<1> DEFINE i == Len(ring') - Len(ms) + 1
<1>5. i \in DOMAIN ring' /\ i + Len(q) - Len(ring') = Len(ring) + 1 /\ i > Len(ring') - Len(ms)
  <2>1. Len(ring') \in Nat /\ Len(ms) <= Len(ring') /\ Len(ms) >= 1 /\ DOMAIN ring' = 1..Len(ring')
    BY <1>1, <1>2, <1>3
  <2> QED
    BY <1>1, <1>2, <2>1
<1>6. ring'[i] = Heartbeat
  BY <1>2, <1>3, <1>5
<1> QED
  BY <1>4, <1>5, <1>6 DEF Waiting

(* The heartbeat finds every held handle with its last ack in, so it is    *)
(* late by this heartbeat only, which waits in the ring.                   *)
LEMMA PaceTick ==
  ASSUME PaceAssumption, BusTypeInv, CallInv, PaceInv, Tick,
         pace' = Pace(cmdq = <<>> /\ \A h \in Handles : Idle(h))
  PROVE  PaceInv'
<1> SUFFICES ASSUME pace' = "read" PROVE PaceInv'
  BY DEF PaceInv
<1>a. FlagsOK /\ ChannelsOK
  BY TypeParts
<1>b. /\ pace = "read" /\ running /\ cmdq = <<>>
      /\ \A h \in Handles : Idle(h) /\ fwd[h] # "push"
  BY DEF Pace, Tick
<1>c. OneHeld /\ \A h \in Held : Served(h)
  BY <1>b DEF PaceInv
<1> DEFINE dead == {n \in online : late[n] + 1 > TimeoutTicks}
<1>1. PICK q \in Orders(dead) :
        Publish(<<Heartbeat>> \o [i \in DOMAIN q |-> NodeOffline(q[i])])
  BY DEF Tick
<1> DEFINE ms == <<Heartbeat>> \o [i \in DOMAIN q |-> NodeOffline(q[i])]
<1>2. /\ online' = online \ dead /\ running' = running /\ cmdq' = cmdq /\ phase' = phase /\ fwd' = fwd
      /\ late' = [n \in Nodes |-> IF n \in online \ dead THEN late[n] + 1 ELSE 0]
  BY DEF Tick
<1>3. dead \subseteq Nodes
  BY <1>a DEF FlagsOK
<1>4. ms \in Seq(Messages) /\ Len(ms) = Cardinality(dead) + 1 /\ ms[1] = Heartbeat
  BY <1>1, <1>3, TickLength
<1>5. Publish(ms)
  BY <1>1
<1> HIDE DEF ms
<1>6. ASSUME NEW h \in Handles, h \in Held PROVE Served(h)'
  <2>1. phase[h] \notin {"registered", "leaving"} /\ fwd[h] # "ack" /\ KeepsUp(h)
    <3>1. phase[h] # "registered" /\ fwd[h] # "ack" /\ KeepsUp(h)
      BY <1>b DEF Idle
    <3>2. DOMAIN cmdq = {}
      BY <1>b
    <3>3. phase[h] \notin Calls
      BY <3>2 DEF CallInv
    <3> QED
      BY <3>1, <3>3 DEF Calls
  <2>2. fwd[h] = "wait" /\ unread[h] = 0 /\ NodeOf[h] \in online
    <3>1. fwd[h] # "exit" /\ NodeOf[h] \in online
      BY <1>c, <1>6, <2>1 DEF Served
    <3>2. fwd[h] = "wait"
      BY <1>a, <1>b, <2>1, <3>1 DEF FlagsOK
    <3> QED
      BY <2>1, <3>1, <3>2 DEF KeepsUp
  <2>3. ~Pending(h)
    <3>1. ring \in Seq(Messages)
      BY <1>a DEF ChannelsOK
    <3>2. ~Waiting(h)
      BY <2>2, <3>1 DEF Waiting
    <3>3. ~AckQueued(h)
      BY <1>b DEF AckQueued
    <3> QED
      BY <2>1, <3>2, <3>3 DEF Pending
  <2>4. late[NodeOf[h]] = 0
    BY <1>c, <1>6, <2>1, <2>3 DEF Served
  <2>5. NodeOf[h] \notin dead /\ NodeOf[h] \in Nodes
    BY <2>4, BusAssumption DEF PaceAssumption
  <2>6. Cardinality(dead) + 1 <= RingCap /\ Cardinality(dead) \in Nat
    <3>1. /\ IsFiniteSet(Nodes \ {NodeOf[h]})
          /\ Cardinality(Nodes \ {NodeOf[h]}) = Cardinality(Nodes) - 1
      BY <2>5, BusAssumption, FS_RemoveElement
    <3>2. dead \subseteq Nodes \ {NodeOf[h]}
      BY <1>3, <2>5
    <3>3. Cardinality(dead) <= Cardinality(Nodes) - 1 /\ IsFiniteSet(dead)
      BY <3>1, <3>2, FS_Subset
    <3>4. Cardinality(dead) \in Nat /\ Cardinality(Nodes) \in Nat /\ RingCap \in Nat
      BY <3>3, BusAssumption, FS_CardinalityType
    <3> HIDE DEF dead
    <3> QED
      BY <3>3, <3>4 DEF PaceAssumption
  <2> HIDE DEF dead
  <2>7. Len(ms) \in 1..RingCap
    BY <1>4, <2>6, BusAssumption
  <2>8. Waiting(h)'
    BY <1>4, <1>5, <2>2, <2>7, TickWaits
  <2>9. late'[NodeOf[h]] = 1 /\ NodeOf[h] \in online'
    BY <1>2, <2>2, <2>4, <2>5
  <2> QED
    BY <1>2, <2>1, <2>2, <2>8, <2>9 DEF Served, Pending
<1>7. \A h \in Held' : h \in Handles /\ h \in Held
  BY <1>2 DEF Held
<1>8. OneHeld'
  BY <1>c, <1>7 DEF OneHeld
<1> QED
  BY <1>6, <1>7, <1>8 DEF PaceInv

LEMMA PaceOwner ==
  ASSUME BusTypeInv, PaceInv, OwnerStep, pace' = pace
  PROVE  PaceInv'
<1>1. /\ running' = running /\ online' = online /\ late' = late /\ ring' = ring /\ phase' = phase
      /\ fwd' = fwd /\ unread' = unread
      /\ cmdq' = cmdq \/ \E c : Enqueue(c)
  BY DEF OwnerStep, ShutdownBus, DropBus, SignalShutdown, AbandonBus, loopVars, fwdVars, Enqueue
<1>2. \A h \in Handles : AckQueued(h) => AckQueued(h)'
  BY <1>1, AckStays DEF AckQueued
<1>3. \A h \in Handles : h \in Held' => h \in Held
  BY <1>1 DEF Held
<1>4. ASSUME NEW h \in Handles, h \in Held, h \in Held', Served(h), running, running'
      PROVE  Served(h)'
  <2>1. Pending(h) => Pending(h)'
    BY <1>1, <1>2 DEF Pending, Waiting
  <2> QED
    BY <1>1, <1>4, <2>1 DEF Served
<1> QED
  BY <1>1, <1>3, <1>4, PaceKept

(* As long as forwarding tasks are prompt and users read, no live handle   *)
(* is removed by the heartbeat, and no NodeId has two: handle_connect      *)
(* accepts an id again only when no handle that may still ack, send or     *)
(* disconnect under it is held.                                            *)
THEOREM LiveHandlesStayOnline ==
  ASSUME PaceAssumption
  PROVE  PacedSpec => []ReadersStayOnline
<1> DEFINE PInv == BusTypeInv /\ CallInv /\ PaceInv
<1>1. PacedInit => PInv
  <2>1. Init => BusTypeInv
    BY TypeInit
  <2>2. Init => CallInv
    BY DEF Init, CallInv, Calls, Queued
  <2>3. Init => Held = {}
    BY DEF Init, Held
  <2>4. Held = {} => PaceInv
    BY DEF PaceInv, OneHeld
  <2> QED
    BY <2>1, <2>2, <2>3, <2>4 DEF PacedInit
<1>2. PInv /\ [PacedNext]_<<vars, pace>> => PInv'
  <2> SUFFICES ASSUME PInv, [PacedNext]_<<vars, pace>> PROVE PInv'
    OBVIOUS
  <2>1. [Next]_vars
    BY DEF PacedNext, Next
  <2>2. BusTypeInv' /\ CallInv'
    BY <2>1, TypeStep, CallStep
  <2>3. PaceInv'
    <3>1. CASE UNCHANGED <<vars, pace>>
      BY <3>1 DEF vars, busVars, loopVars, fwdVars, PaceInv, OneHeld, Held, Served, Pending, Waiting,
         AckQueued
    <3>2. CASE (\E h \in Handles : UserStep(h) \/ ForwardStep(h)) /\ UNCHANGED pace
      BY <3>2, PaceUser, PaceForward
    <3>3. CASE LoopCommand /\ pace' = Pace(\A h \in Handles : KeepsUp(h))
      BY <3>3, PaceCommand
    <3>4. CASE Tick /\ pace' = Pace(cmdq = <<>> /\ \A h \in Handles : Idle(h))
      BY <3>4, PaceTick
    <3>5. CASE OwnerStep /\ UNCHANGED pace
      BY <3>5, PaceOwner
    <3> QED
      BY <3>1, <3>2, <3>3, <3>4, <3>5 DEF PacedNext
  <2> QED
    BY <2>2, <2>3
<1>3. PInv => ReadersStayOnline
  <2>1. \A h \in Live : h \in Held
    BY DEF Live, Held
  <2> QED
    BY <2>1 DEF PaceInv, ReadersStayOnline, LiveStaysOnline, OneHandlePerNode, OneHeld, Served
<1> QED
  BY <1>1, <1>2, <1>3, PTL DEF PacedSpec
=============================================================================
