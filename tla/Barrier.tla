------------------------------ MODULE Barrier ------------------------------
(***************************************************************************)
(* Barriers, and handles attached to several Buses.  Bus::barrier          *)
(* broadcasts a request and listens on a raw receiver of the same Bus for  *)
(* the acknowledgements, until all participants answered, the deadline     *)
(* passes, the receiver lags or the Bus closes.  A participant hears the   *)
(* request through whichever subscription of its handle carries it, and    *)
(* answers with barrier_ack, which always goes to the Bus it connected to  *)
(* first.                                                                  *)
(*                                                                         *)
(* A Bus is the sequence of what it broadcast; a receiver is a position in *)
(* it, and it has lagged when more than Capacity messages are ahead.  The  *)
(* registry, the heartbeats and the closing race of recv are module Bus.   *)
(***************************************************************************)
EXTENDS Naturals, Sequences, SequencesExt, FiniteSets

CONSTANTS
    Buses,
    Nodes,
    Calls,        \* calls of Bus::barrier, their correlation ids
    BusOf,        \* [Calls -> Buses], the Bus a barrier is called on
    Listed,       \* [Calls -> Seq(Nodes)], the participants argument
    Capacity,     \* how far a receiver may be behind: the broadcast ring
    Reach,        \* [Nodes -> SUBSET Buses], the Buses a node is attached to
    MaxLog,       \* [Buses -> Nat], bound on the broadcasts of each Bus
    MaxApps       \* [Buses -> Nat], bound on the application's messages among them

VARIABLES
    open,      \* Buses whose broadcast_tx is in place
    log,       \* per Bus, the messages broadcast
    subs,      \* per node, the Buses of its subscriptions in attach order
    cursor,    \* per node and Bus, what its handle has read
    heard,     \* per node, the barriers whose request it received
    call       \* per barrier, [step, at, acked, cause]

vars == <<open, log, subs, cursor, heard, call>>

Request(c) == [type |-> "barrier_request", cid |-> c, from |-> "bus"]
BarrierAck(n, c) == [type |-> "barrier_ack", cid |-> c, from |-> n]
App == [type |-> "app", cid |-> "none", from |-> "any"]

Participants(c) == Range(Listed[c])

Init ==
    /\ open = Buses
    /\ log = [b \in Buses |-> <<>>]
    /\ subs = [n \in Nodes |-> <<>>]
    /\ cursor = [n \in Nodes |-> [b \in Buses |-> 0]]
    /\ heard = [n \in Nodes |-> {}]
    /\ call = [c \in Calls |-> [step |-> "new", at |-> 0, acked |-> {}, cause |-> "none"]]

-----------------------------------------------------------------------------
(* Handles *)

Attached(n, b) == b \in Range(subs[n])

\* connect() for the first Bus, attach_to() for the others: the forwarding
\* task reads from here on.
AttachTo(n, b) ==
    /\ b \in open \cap Reach[n] /\ ~Attached(n, b)
    /\ subs' = [subs EXCEPT ![n] = Append(@, b)]
    /\ cursor' = [cursor EXCEPT ![n][b] = Len(log[b])]
    /\ UNCHANGED <<open, log, heard, call>>

\* The command of a send waits in turn for the Bus loop, which broadcasts it;
\* a closed Bus refuses it.
Submit(b, m) ==
    /\ b \in open
    /\ Len(log[b]) < MaxLog[b]
    /\ log' = [log EXCEPT ![b] = Append(@, m)]
    /\ UNCHANGED <<open, subs, cursor>>

\* send_via, for a Bus among the subscriptions.
SendVia(n, b) ==
    /\ Attached(n, b)
    /\ Cardinality({i \in DOMAIN log[b] : log[b][i] = App}) < MaxApps[b]
    /\ Submit(b, App)
    /\ UNCHANGED <<heard, call>>

\* The application answers a request it received, on its primary Bus.
Acknowledge(n, c) ==
    /\ c \in heard[n]
    /\ Submit(Head(subs[n]), BarrierAck(n, c))
    /\ heard' = [heard EXCEPT ![n] = @ \ {c}]
    /\ UNCHANGED call

Lags(b, at) == Len(log[b]) - at > Capacity

\* recv and try_recv take from the first subscription that has a message; the
\* forwarding task behind it skips what it lagged over and the acks, which the
\* node's filter leaves out.
Recv(n) ==
    LET ready == SelectSeq(subs[n], LAMBDA b : cursor[n][b] < Len(log[b]))
        b == Head(ready)
        m == log[b][cursor[n][b] + 1]
    IN  /\ ready # <<>>
        /\ \/ /\ Lags(b, cursor[n][b])
              /\ cursor' = [cursor EXCEPT ![n][b] = Len(log[b]) - Capacity]
              /\ UNCHANGED heard
           \/ /\ ~Lags(b, cursor[n][b])
              /\ cursor' = [cursor EXCEPT ![n][b] = @ + 1]
              /\ heard' = IF m.type = "barrier_request"
                          THEN [heard EXCEPT ![n] = @ \cup {m.cid}] ELSE heard
        /\ UNCHANGED <<open, log, subs, call>>

SignalShutdown(b) ==
    /\ b \in open
    /\ open' = open \ {b}
    /\ UNCHANGED <<log, subs, cursor, heard, call>>

-----------------------------------------------------------------------------
(* Bus::barrier *)

\* Subscribe, then broadcast: the listener stands just before the request.
BarrierStart(c) ==
    /\ call[c].step = "new"
    /\ BusOf[c] \in open
    /\ Len(log[BusOf[c]]) < MaxLog[BusOf[c]]
    /\ call' = [call EXCEPT ![c].step = "listening", ![c].at = Len(log[BusOf[c]])]
    /\ log' = [log EXCEPT ![BusOf[c]] = Append(@, Request(c))]
    /\ UNCHANGED <<open, subs, cursor, heard>>

Unread(c) == call[c].at < Len(log[BusOf[c]])

\* Seeded fault: an ack counts for whichever barrier listens.
FaultyCounts(c, m) ==
    m.type = "barrier_ack" /\ m.from \in Participants(c)

\* An ack bears this barrier's id and comes from a participant.
Counts(c, m) ==
    m.type = "barrier_ack" /\ m.cid = c /\ m.from \in Participants(c)

\* The code counts participants_set, in which a name is once.
Expected(c) == Cardinality(Participants(c))

\* barrier() returns, and its listener goes out of scope.
Done(acked, cause) == [step |-> "done", at |-> 0, acked |-> acked, cause |-> cause]

BarrierRecv(c) ==
    LET m == log[BusOf[c]][call[c].at + 1]
        acked == call[c].acked \cup (IF Counts(c, m) THEN {m.from} ELSE {})
    IN  /\ call[c].step = "listening" /\ Unread(c) /\ ~Lags(BusOf[c], call[c].at)
        /\ call' = [call EXCEPT ![c] =
             IF Cardinality(acked) = Expected(c) THEN Done(acked, "complete")
             ELSE [@ EXCEPT !.at = @ + 1, !.acked = acked]]
        /\ UNCHANGED <<open, log, subs, cursor, heard>>

\* Ok(Err(_)): the Bus closed, or the receiver lagged, which the code takes
\* for the same; Err(_): the deadline.
BarrierBreak(c) ==
    /\ call[c].step = "listening"
    /\ \E cause \in {"timeout", "lagged", "closed"} :
         /\ cause = "lagged" => Lags(BusOf[c], call[c].at)
         /\ cause = "closed" => BusOf[c] \notin open /\ ~Unread(c)
         /\ call' = [call EXCEPT ![c] = Done(@.acked, cause)]
    /\ UNCHANGED <<open, log, subs, cursor, heard>>

\* The receipt.
Missing(c) == Participants(c) \ call[c].acked

-----------------------------------------------------------------------------
Next ==
    \/ \E n \in Nodes, b \in Buses : AttachTo(n, b) \/ SendVia(n, b)
    \/ \E n \in Nodes : Recv(n) \/ \E c \in Calls : Acknowledge(n, c)
    \/ \E b \in Buses : SignalShutdown(b)
    \/ \E c \in Calls : BarrierStart(c) \/ BarrierRecv(c) \/ BarrierBreak(c)

\* The caller polls its listener; nothing makes the deadline pass.
Spec == Init /\ [][Next]_vars /\ \A c \in Calls : WF_vars(BarrierRecv(c))

-----------------------------------------------------------------------------
(* Properties *)

Acks(c) == {n \in Participants(c) : \E i \in DOMAIN log[BusOf[c]] :
                                       log[BusOf[c]][i] = BarrierAck(n, c)}

\* A barrier completes when, and only when, every participant's ack of it has
\* been broadcast on its Bus: no receipt has acks that are another barrier's or
\* went to another Bus, one given out at the end of the Bus has all there are,
\* and a barrier that has read everything waits only for an ack that is not
\* there, also when a name is listed twice.  Of its ends only the deadline and
\* a lag leave acks uncounted.
BarrierExact ==
    \A c \in Calls :
        /\ call[c].acked \subseteq Acks(c)
        /\ call[c].cause = "closed" => Missing(c) \cap Acks(c) = {}
        /\ call[c].step = "listening" /\ ~Unread(c) => Acks(c) # Participants(c)

\* So it does not need its deadline, unless its listener lags.
BarrierCompletes ==
    \A c \in Calls :
        (call[c].step = "listening" /\ Acks(c) = Participants(c))
            ~> (call[c].step = "done" \/ Lags(BusOf[c], call[c].at))

\* "Participants listed in the request that don't ack within `timeout` are
\* returned in `missing`" (barrier): before its deadline a barrier names nobody
\* as missing who did acknowledge.  A listener that lagged ends like one whose
\* Bus was shut down, with its acks unread.
MissingDidNotAck ==
    \A c \in Calls :
        call[c].step = "done" /\ call[c].cause # "timeout" => Missing(c) \cap Acks(c) = {}

\* A participant's barrier_ack is broadcast where the barrier listens.
AckReaches ==
    [][\A c \in Calls, n \in Nodes :
         n \in Participants(c) /\ c \in heard[n] /\ c \notin heard'[n] => n \in Acks(c)']_vars
=============================================================================
