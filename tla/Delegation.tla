----------------------------- MODULE Delegation -----------------------------
(***************************************************************************)
(* The Python objects an application delegates through, side by side: the  *)
(* engine handles, the team, the node handle and the event relay.  They    *)
(* share no state.                                                         *)
(***************************************************************************)
EXTENDS Naturals, Sequences

CONSTANTS
  Calls, None,                        \* coroutines; nobody
  PyEngines, PyStates, HandleIds,     \* of Handles
  Callers, Texts, NumEngines, MaxDelegates,   \* of Team: its coroutines, ...
  MaxMessages,                        \* of PyNodeHandle
  Members, Wanted, Types, BufferSize, TornWrites, MaxEvents   \* of Relay

VARIABLES
  engine, state, default, holder, pc, what, mine, turns,
  node, building, roster, handles, started, pool, owner, results, asked, callPc,
  request, got, sent,
  cell, busNode, closed, inbound, arrived, mutex, queue, op, opPc,
  file, exists, stream, tailed, pos, holding, chan, eventSeq, yielded

Hand == INSTANCE Handles
Team == INSTANCE Team WITH Calls <- Callers, NoCall <- None, inbox <- results, pc <- callPc
Nod  == INSTANCE PyNodeHandle WITH node <- busNode, holder <- mutex, pc <- opPc
Rel  == INSTANCE Relay WITH NoLine <- None

\* A delegate() of the Python team returns the result of the task it was given
\* or raises, although all calls subscribe under one node id and a coroutine
\* calls it again after one that timed out.
OwnResult == Team!OwnResult

\* Coroutines that share a PyState never overwrite each other's turn.
TurnsKept == Hand!TurnsKept

\* The stream hands Python each member's wanted events once each, in file
\* order and without a gap, with ids that count up by one.
RelayExact == Rel!RelayExact
=============================================================================
