---------------------------- MODULE PyNodeHandle ----------------------------
(***************************************************************************)
(* The Python NodeHandle (py-arf/src/lib.rs): a NodeHandle of the Bus in a *)
(* cell behind a tokio mutex.  send(), recv() and disconnect() hold the    *)
(* mutex over their awaits, try_recv() and node_info() only try it.        *)
(* asyncio may cancel a coroutine at any await, and also when its result   *)
(* is ready and not yet set.                                               *)
(*                                                                         *)
(* The Bus is reduced to what this handle sees of it: messages its         *)
(* forwarding task delivers, the end of that task, and whether the node is *)
(* registered (modules Bus and Barrier have the rest).                     *)
(***************************************************************************)
EXTENDS Naturals, Sequences, SequencesExt

CONSTANTS
  Calls,         \* coroutines, each makes one call
  MaxMessages,   \* bound: messages delivered
  None

VARIABLES
  cell,      \* "new" before connect(), then "open", at last "empty"
  node,      \* on the Bus: "off", "on", or "zombie": nobody holds its handle
  closed,    \* the forwarding task has ended
  inbound,   \* messages it delivered
  arrived,   \* how many it delivered so far
  holder,    \* the call that has the mutex, or None
  queue,     \* calls waiting for it: tokio's mutex is fair
  op,        \* [Calls -> the method called]
  pc         \* [Calls -> phase]

busVars == <<node, closed, inbound, arrived>>
vars == <<cell, busVars, holder, queue, op, pc>>

Ended == {"returned", "raised", "cancelled"}

Init ==
  /\ cell = "new" /\ node = "off"
  /\ closed = FALSE /\ inbound = <<>> /\ arrived = 0
  /\ holder = None /\ queue = <<>>
  /\ op = [c \in Calls |-> "none"] /\ pc = [c \in Calls |-> "new"]

Goto(c, phase) == pc' = [pc EXCEPT ![c] = phase]

(* The guard of c is dropped, and the first in the queue has the mutex.    *)
Unlock ==
  /\ holder' = IF queue = <<>> THEN None ELSE Head(queue)
  /\ queue' = IF queue = <<>> THEN <<>> ELSE Tail(queue)

-----------------------------------------------------------------------------
(* The Bus *)

(* PyBus.connect.                                                          *)
Connect ==
  /\ cell = "new" /\ ~closed
  /\ cell' = "open" /\ node' = "on"
  /\ UNCHANGED <<closed, inbound, arrived, holder, queue, op, pc>>

Arrive ==
  /\ node = "on" /\ cell = "open" /\ ~closed /\ arrived < MaxMessages
  /\ arrived' = arrived + 1 /\ inbound' = Append(inbound, arrived + 1)
  /\ UNCHANGED <<cell, node, closed, holder, queue, op, pc>>

(* PyBus.shutdown, once the forwarding task has met the end of the         *)
(* broadcast channel (when it does is in module Bus).                      *)
Shutdown ==
  /\ ~closed /\ closed' = TRUE
  /\ UNCHANGED <<cell, node, inbound, arrived, holder, queue, op, pc>>

(* The heartbeat removes a node whose task no longer acks.                 *)
Evict ==
  /\ node = "zombie" /\ node' = "off"
  /\ UNCHANGED <<cell, closed, inbound, arrived, holder, queue, op, pc>>

-----------------------------------------------------------------------------
(* send(), recv(), disconnect() *)

(* handle_arc.lock().await                                                 *)
Call(c, method) ==
  /\ cell # "new" /\ pc[c] = "new" /\ Goto(c, "lock")
  /\ op' = [op EXCEPT ![c] = method]
  /\ IF holder = None THEN holder' = c /\ UNCHANGED queue
                      ELSE queue' = Append(queue, c) /\ UNCHANGED holder
  /\ UNCHANGED <<cell, busVars>>

(* The guard is there: "node already disconnected", or the method begins.  *)
(* disconnect() takes the handle out of its cell.                          *)
Locked(c) ==
  /\ holder = c /\ pc[c] = "lock"
  /\ \/ cell = "empty" /\ Goto(c, "raised") /\ Unlock /\ UNCHANGED cell
     \/ /\ cell = "open" /\ Goto(c, op[c]) /\ UNCHANGED <<holder, queue>>
        /\ cell' = IF op[c] = "disconnect" THEN "empty" ELSE cell
  /\ UNCHANGED <<busVars, op>>

(* NodeHandle::send has its receipt, or the Bus has closed.                *)
SendDone(c) ==
  /\ pc[c] = "send" /\ Unlock
  /\ \/ Goto(c, "ready")
     \/ closed /\ Goto(c, "raised")
  /\ UNCHANGED <<cell, busVars, op>>

(* NodeHandle::recv: try_recv, or the await, has a message.                *)
RecvTake(c) ==
  /\ pc[c] \in {"recv", "await"} /\ inbound # <<>>
  /\ inbound' = Tail(inbound) /\ Goto(c, "ready") /\ Unlock
  /\ UNCHANGED <<cell, node, closed, arrived, op>>

(* The queue is empty ...                                                  *)
RecvEmpty(c) ==
  /\ pc[c] = "recv" /\ inbound = <<>> /\ Goto(c, "looked")
  /\ UNCHANGED <<cell, busVars, holder, queue, op>>

(* Seeded fault: the end of the subscription is not looked for.            *)
FaultyRecvIsClosed(c) ==
  /\ pc[c] = "looked" /\ Goto(c, "await")
  /\ UNCHANGED <<cell, busVars, holder, queue, op>>

(* ... and is_closed() says whether there is anything to wait for.         *)
RecvIsClosed(c) ==
  /\ pc[c] = "looked"
  /\ \/ closed /\ Goto(c, "raised") /\ Unlock
     \/ ~closed /\ Goto(c, "await") /\ UNCHANGED <<holder, queue>>
  /\ UNCHANGED <<cell, busVars, op>>

(* The subscription ended: the loop goes round.                            *)
RecvAgain(c) ==
  /\ pc[c] = "await" /\ closed /\ inbound = <<>> /\ Goto(c, "recv")
  /\ UNCHANGED <<cell, busVars, holder, queue, op>>

(* NodeHandle::disconnect has its answer.                                  *)
Disconnected(c) ==
  /\ pc[c] = "disconnect"
  /\ node' = "off" /\ inbound' = <<>> /\ Goto(c, "ready") /\ Unlock
  /\ UNCHANGED <<cell, closed, arrived, op>>

-----------------------------------------------------------------------------
(* try_recv(), node_info() and filter_config() raise when the mutex is not *)
(* free or the cell is empty; they do not wait.                            *)
TryLock(c) == cell # "new" /\ pc[c] = "new" /\ op' = [op EXCEPT ![c] = "try"]
Refused == holder # None \/ cell = "empty"

TryRecv(c) ==
  /\ TryLock(c)
  /\ \/ /\ ~Refused /\ inbound # <<>>
        /\ inbound' = Tail(inbound) /\ Goto(c, "returned")
     \/ ~Refused /\ inbound = <<>> /\ ~closed /\ Goto(c, "returned") /\ UNCHANGED inbound
     \/ (Refused \/ (inbound = <<>> /\ closed)) /\ Goto(c, "raised") /\ UNCHANGED inbound
  /\ UNCHANGED <<cell, node, closed, arrived, holder, queue>>

Peek(c) ==
  /\ TryLock(c) /\ Goto(c, IF Refused THEN "raised" ELSE "returned")
  /\ UNCHANGED <<cell, busVars, holder, queue>>

-----------------------------------------------------------------------------
(* pyo3-async-runtimes sets the result ...                                 *)
Deliver(c) ==
  /\ pc[c] = "ready" /\ Goto(c, "returned")
  /\ UNCHANGED <<cell, busVars, holder, queue, op>>

(* ... or drops the future, with its place in the queue, its guard or its  *)
(* result.  A handle that is leaving is dropped with it, its command       *)
(* served or not.                                                          *)
Cancel(c) ==
  /\ pc[c] \notin Ended \cup {"new"} /\ Goto(c, "cancelled")
  /\ IF holder = c THEN Unlock ELSE queue' = Remove(queue, c) /\ UNCHANGED holder
  /\ IF pc[c] = "disconnect" THEN node' \in {"off", "zombie"} /\ inbound' = <<>>
                             ELSE UNCHANGED <<node, inbound>>
  /\ UNCHANGED <<cell, closed, arrived, op>>

Step(c) ==
  \/ Locked(c) \/ SendDone(c) \/ Disconnected(c) \/ Deliver(c)
  \/ RecvTake(c) \/ RecvEmpty(c) \/ RecvIsClosed(c) \/ RecvAgain(c)

Next ==
  \/ Connect \/ Arrive \/ Shutdown \/ Evict
  \/ \E c \in Calls :
       \/ \E method \in {"send", "recv", "disconnect"} : Call(c, method)
       \/ TryRecv(c) \/ Peek(c) \/ Step(c) \/ Cancel(c)

(* The Bus answers (module Bus) and tokio polls what is ready.             *)
Spec == Init /\ [][Next]_vars /\ \A c \in Calls : WF_vars(Step(c))

-----------------------------------------------------------------------------
(* Once the Bus is shut down every call on the handle ends, also the ones  *)
(* that queued behind a recv() with nothing to receive, whoever is         *)
(* cancelled before (PyNodeHandle::recv, NodeHandle::recv).                *)
HandleCallsEnd == closed ~> (\A c \in Calls : pc[c] \in Ended \cup {"new"})

(* The same without a shutdown.  Violated: disconnect() and send() wait    *)
(* behind a recv() on a quiet Bus.                                         *)
RecvLetsPass ==
  \A c \in Calls : (pc[c] = "lock" /\ op[c] # "recv") ~> (pc[c] \in Ended)

(* A disconnect() that returned has left the Bus, and only a cancelled one *)
(* leaves its node behind.                                                 *)
DisconnectLeaves ==
  /\ \A c \in Calls : op[c] = "disconnect" /\ pc[c] = "returned" => node = "off"
  /\ node = "zombie" => \E c \in Calls : op[c] = "disconnect" /\ pc[c] = "cancelled"
=============================================================================
