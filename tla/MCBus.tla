------------------------------- MODULE MCBus --------------------------------
(* Instances of PromptBus for TLC.                                         *)
EXTENDS PromptBus, TLC

CONSTANTS n1, h1, h2

(* Two handles of one id; one handle.                                      *)
SharedId == h1 :> n1 @@ h2 :> n1
OneId == h1 :> n1

(* The handles of one id are interchangeable.                              *)
Symmetry == Permutations(Handles)

DefaultMatch == [h \in Handles |-> "BroadcastAndDirectedToMe"]
AppOnly == [h \in Handles |-> {"app"}]

(* For liveness the history is not needed.                                 *)
MCLiveInit == Init /\ pace = "any"

MCLive ==
  MCLiveInit /\ [][Next /\ UNCHANGED pace]_<<vars, pace>> /\ Fairness
=============================================================================
