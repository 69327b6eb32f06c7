------------------------------- MODULE MCPool -------------------------------
(* Instances of Pool for TLC.  A pool has one overflow strategy, chosen    *)
(* when it is made among those of the run.                                 *)
EXTENDS Pool

CONSTANTS
  a1, a2, a3, a4, r1, r2, r3,
  Strategies   \* overflow strategies of the run

VARIABLE strategy

Queueing  == INSTANCE Pool WITH Overflow <- "Queue"
Rejecting == INSTANCE Pool WITH Overflow <- "Reject"
Blocking  == INSTANCE Pool WITH Overflow <- "Block", HasProvisioner <- FALSE

MCInit == Init /\ strategy \in Strategies

MCNext ==
  /\ \/ strategy = "Queue" /\ Queueing!Next
     \/ strategy = "Reject" /\ Rejecting!Next
     \/ strategy = "Block" /\ Blocking!Next
  /\ UNCHANGED strategy

MCSpec == MCInit /\ [][MCNext]_<<vars, strategy>>

(* With the fairness of the strategy the constants name.                   *)
MCLive == MCSpec /\ Fairness
=============================================================================
