---------------------------- MODULE MCDelegation -----------------------------
(***************************************************************************)
(* The parts an application hands work to and hears from: the subagent     *)
(* pool, the Python team with its delegate(), the Python engine and node   *)
(* handles and the event relay.  They share no state, so a behaviour       *)
(* follows one of them, the one named by part, while the others rest in    *)
(* their initial state.  The pool is SubagentPool itself; Delegation has   *)
(* the objects of the Python side.                                         *)
(***************************************************************************)
EXTENDS SubagentPool, Delegation

VARIABLE part

teamVars == <<node, building, roster, handles, started, pool, owner, results, asked,
              callPc, request, got, sent>>
handVars == <<engine, state, default, holder, pc, what, mine, turns>>
relVars  == <<file, exists, stream, tailed, pos, holding, chan, eventSeq, yielded>>
nodVars  == <<cell, busNode, closed, inbound, arrived, mutex, queue, op, opPc>>
mcVars == <<part, vars, teamVars, handVars, relVars, nodVars>>

MCInit ==
  /\ part \in {"subagent", "team", "handles", "relay", "node"}
  /\ part = "relay" \/ exists = {}
  /\ Init /\ Team!Init /\ Hand!Init /\ Rel!Init /\ Nod!Init

RestSub  == UNCHANGED <<part, teamVars, handVars, relVars, nodVars>>
RestTeam == UNCHANGED <<part, vars, handVars, relVars, nodVars>>
RestHand == UNCHANGED <<part, vars, teamVars, relVars, nodVars>>
RestRel  == UNCHANGED <<part, vars, teamVars, handVars, nodVars>>
RestNod  == UNCHANGED <<part, vars, teamVars, handVars, relVars>>

MCNext ==
  \/ part = "subagent" /\ Next /\ RestSub
  \/ part = "team" /\ Team!Next /\ RestTeam
  \/ part = "handles" /\ Hand!Next /\ RestHand
  \/ part = "relay" /\ Rel!Next /\ RestRel
  \/ part = "node" /\ Nod!Next /\ RestNod

\* Of the fairness of the five specifications what a property here needs:
\* that of SubagentPool and of PyNodeHandle.
MCFairness ==
  /\ \A t \in Tasks : WF_mcVars(part = "subagent" /\ DelegateStep(t) /\ RestSub)
  /\ WF_mcVars(part = "subagent" /\ PopulateStep /\ RestSub)
  /\ WF_mcVars(part = "subagent" /\ ListenerStep /\ RestSub)
  /\ \A c \in Calls : WF_mcVars(part = "node" /\ Nod!Step(c) /\ RestNod)

MCSpec == MCInit /\ [][MCNext]_mcVars /\ MCFairness

-----------------------------------------------------------------------------
\* After a shutdown of the Bus every call on a Python NodeHandle ends, also
\* those that wait for the mutex behind a recv() with nothing to receive.
HandleCallsEnd == Nod!HandleCallsEnd
=============================================================================
