----------------------------- MODULE PromptBus ------------------------------
(***************************************************************************)
(* Bus with a history variable: how prompt the forwarding tasks and the    *)
(* users have been since the start.  It restricts no step.                 *)
(***************************************************************************)
EXTENDS Bus

VARIABLE pace   \* "read", "tasks" or "any", see Pace

(* The loop's next command finds every forwarding task done with the ring, *)
(* and its next tick finds all that the last one caused done, but for      *)
(* tasks that wait for room in an inbound queue.                           *)
KeepsUp(h) == fwd[h] = "wait" => unread[h] = 0

Idle(h) ==
  /\ KeepsUp(h)
  /\ fwd[h] # "ack"
  /\ fwd[h] = "push" => ~Gone(h) /\ Len(inbound[h]) = InboundCap
  /\ phase[h] # "registered"

(* The pace after a step at which the tasks were prompt or not: "read"     *)
(* while no task waits for its user either, then "tasks", then "any".      *)
Pace(prompt) ==
  IF ~prompt \/ pace = "any" THEN "any"
  ELSE IF \E h \in Handles : fwd[h] = "push" THEN "tasks" ELSE pace

PacedInit == Init /\ pace = "read"

PacedNext ==
  \/ /\ \E h \in Handles : UserStep(h) \/ ForwardStep(h)
     /\ UNCHANGED pace
  \/ LoopCommand /\ pace' = Pace(\A h \in Handles : KeepsUp(h))
  \/ Tick /\ pace' = Pace(cmdq = <<>> /\ \A h \in Handles : Idle(h))
  \/ OwnerStep /\ UNCHANGED pace

PacedSpec == PacedInit /\ [][PacedNext]_<<vars, pace>>

(* As long as forwarding tasks are prompt and users read, the heartbeat    *)
(* never removes a live handle, and a NodeId has one live handle: what a   *)
(* dropped handle leaves behind (acks, a zombie entry, a queued command)   *)
(* does not touch its successor.                                           *)
ReadersStayOnline == pace = "read" => LiveStaysOnline /\ OneHandlePerNode

(* heartbeat.rs: while the inbound receiver lives, the forwarding task     *)
(* keeps acking, so prompt tasks keep every live handle online.            *)
HoldersStayOnline == pace # "any" => LiveStaysOnline
=============================================================================
