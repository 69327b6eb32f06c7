---------------------------- MODULE MCMessaging ------------------------------
(***************************************************************************)
(* Requests and answers over the bus, from two sides: the facade that      *)
(* serves them through a resource pool, and the engine that waits for them *)
(* behind its message filter.  They share no state: a behaviour follows    *)
(* the one named by part while the other rests in its initial state.  The  *)
(* facade is PoolNode itself, the other an instance.                       *)
(***************************************************************************)
EXTENDS PoolNode

CONSTANT Nil   \* nothing

VARIABLES
  part,
  routes, types, online, wait, owed, inbox, sent, status

\* No route, the route of the ask-mode tools with that of a memory node, and
\* the other routes with a type of an application among them.
Box == INSTANCE Inbox WITH
  RouteChoices <- {{}, {"permission_request", "memory_op"},
                   {"human_handoff", "app", "peer_message", "subagent_delegate",
                    "compact_request"}},
  AutoChoices <- {{}, {"peer_reply"}}, Nodes <- {"n1", "n2"}, MaxRequests <- 2,
  NoWait <- Nil

boxVars == <<routes, types, online, wait, owed, inbox, sent, status>>
mcVars == <<part, vars, boxVars>>

MCInit ==
  /\ part \in {"poolnode", "inbox"}
  /\ part = "poolnode" \/ kind = "model"
  /\ Init /\ Box!Init

RestNode == UNCHANGED <<part, boxVars>>
RestBox  == UNCHANGED <<part, vars>>

MCNext ==
  \/ part = "poolnode" /\ Next /\ RestNode
  \/ part = "inbox" /\ Box!Next /\ RestBox

\* Steps of the facade that some task or timer of it takes.
Facade(A) == part = "poolnode" /\ A /\ UNCHANGED kind /\ RestNode

\* Of the fairness of the two specifications what the properties need: the
\* facade's calls and its pool's return task run, but its dispatcher and its
\* timer of 300 seconds need not.
MCFairness ==
  /\ \A q \in Requests : WF_mcVars(Facade(RequestStep(q)))
  /\ WF_mcVars(Facade(ReturnTask))
  /\ WF_mcVars(part = "inbox" /\ (\E o \in owed : Box!Answer(o)) /\ RestBox)
  /\ WF_mcVars(part = "inbox" /\ Box!Recv /\ RestBox)

MCSpec == MCInit /\ [][MCNext]_mcVars /\ MCFairness

-----------------------------------------------------------------------------
\* The answer to a built-in or declared request passes the filter fixed when
\* the engine connected, so the engine does not wait for ever for nodes that
\* stay online.
DeclaredIsHeard == Box!DeclaredIsHeard
=============================================================================
