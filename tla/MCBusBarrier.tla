---------------------------- MODULE MCBusBarrier ----------------------------
(***************************************************************************)
(* The bus with two handles of one id, and two barriers with the Buses     *)
(* they run over.  They share no state: a behaviour follows the one named  *)
(* by part while the other rests in its initial state.                     *)
(***************************************************************************)
EXTENDS MCBus

VARIABLES part, open, log, subs, cursor, heard, call

\* Two barriers on Bus b1 with q in common; one lists p twice.  Every node
\* hears both requests and may acknowledge both, invited or not, and q may have
\* attached to b2 before b1 or after it.  b1 has room for the requests and two
\* acks: both of the one barrier, one of each, or one that nobody asked for.  A
\* ring of three is overrun when all four are unread.
Bar == INSTANCE Barrier WITH
  Buses <- {"b1", "b2"}, Nodes <- {"p", "q"}, Calls <- {"k1", "k2"},
  BusOf <- [k1 |-> "b1", k2 |-> "b1"], Listed <- [k1 |-> <<"p", "q", "p">>, k2 |-> <<"q">>],
  Reach <- [p |-> {"b1"}, q |-> {"b1", "b2"}], MaxLog <- [b1 |-> 4, b2 |-> 1],
  MaxApps <- [b1 |-> 0, b2 |-> 1], Capacity <- 3

barVars == <<open, log, subs, cursor, heard, call>>
bothVars == <<part, vars, pace, barVars>>

BothInit == part \in {"bus", "barrier"} /\ PacedInit /\ Bar!Init

BothNext ==
  \/ part = "bus" /\ PacedNext /\ UNCHANGED <<part, barVars>>
  \/ part = "barrier" /\ Bar!Next /\ UNCHANGED <<part, vars, pace>>

BothSpec == BothInit /\ [][BothNext]_bothVars

-----------------------------------------------------------------------------
\* A barrier completes when and only when its own acks were broadcast on its
\* own Bus, whatever the other barrier's acks do, unless its listener lags.
BarrierExact == Bar!BarrierExact
=============================================================================
