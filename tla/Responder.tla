----------------------------- MODULE Responder ------------------------------
(***************************************************************************)
(* What a node that answers requests promises the engine: an answer only   *)
(* to who asked, one only, and the answer to that request or an error.     *)
(* Whether and when it comes is not promised: the engine has its own token *)
(* and timeouts.                                                           *)
(***************************************************************************)
EXTENDS Sequences

CONSTANTS Requests, Errors

VARIABLES
  asked,     \* requests that were sent
  answers    \* what was sent back for each: an error, or the request whose
             \* result it is
vars == <<asked, answers>>

Init == asked = {} /\ answers = [q \in Requests |-> <<>>]

Ask(q) == q \notin asked /\ asked' = asked \cup {q} /\ UNCHANGED answers

Answer(q) ==
  /\ q \in asked /\ answers[q] = <<>>
  /\ \E w \in {q} \cup Errors : answers' = [answers EXCEPT ![q] = <<w>>]
  /\ UNCHANGED asked

Next == \E q \in Requests : Ask(q) \/ Answer(q)

Spec == Init /\ [][Next]_vars
=============================================================================
