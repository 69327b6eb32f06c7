------------------------------ MODULE MCOutbox ------------------------------
(* Instances of Outbox for TLC: two peer messages, a handoff and a request *)
(* of an application's own type.                                           *)
EXTENDS Outbox, TLC

CONSTANTS p1, p2, h, a

Kinds4 == p1 :> "peer_message" @@ p2 :> "peer_message" @@ h :> "human_handoff" @@ a :> "custom"
Symmetry == Permutations({p1, p2})
Peer == p1 :> "peer_message"
=============================================================================
