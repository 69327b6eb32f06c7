---------------------------- MODULE SubagentPool ----------------------------
(***************************************************************************)
(* The pool of ephemeral engines of crates/arf-subagent-pool: delegate(),  *)
(* populate(), shutdown() and the listener that serves subagent_delegate   *)
(* messages of the bus.  A step is what runs between two awaits.           *)
(*                                                                         *)
(* A slot is an engine with the State it carries from task to task.  Of    *)
(* the State the model keeps whose messages it holds; every task takes one *)
(* model turn, so their number is over_view.turn_count.                    *)
(***************************************************************************)
EXTENDS Integers, Sequences, FiniteSets, SequencesExt

CONSTANTS
  Tasks,      \* calls of delegate(), one each
  Messages,   \* the tasks that come as a subagent_delegate message
  Engines,    \* identities an engine can get (a Uuid each)
  Size,       \* size of the pool
  MaxTurns,   \* EngineConfig.max_turns
  NoEngine, Nobody

VARIABLES
  stage,      \* where each delegate() is
  slot,       \* the engine each delegate() has taken
  permits,    \* of the semaphore
  waiting,    \* delegates queued at the semaphore, in order
  idle,       \* the idle queue
  lock,       \* its mutex: Nobody, or "populate", which awaits under it
  live,       \* engines that exist
  hist,       \* tasks whose messages are in the State of each engine
  populated,  \* populate() has been called
  ended,      \* tasks whose run ended, with "ok" or "err"; "none" before
  inbox,      \* messages the listener has not taken
  serving,    \* the message the listener is busy with, or Nobody
  replies     \* what was sent as subagent_result for each message

poolVars == <<permits, waiting, idle, lock, live, hist, populated>>
busVars  == <<inbox, serving, replies>>
vars == <<stage, slot, poolVars, ended, busVars>>

Stages == {"out", "waiting", "granted", "build", "running", "recycle", "count",
           "returned"}

(* The stages in which delegate() owns its permit.                         *)
Holding == {"granted", "build", "running", "recycle", "count"}

Init ==
  /\ stage = [t \in Tasks |-> "out"] /\ slot = [t \in Tasks |-> NoEngine]
  /\ permits = Size /\ waiting = <<>>
  /\ idle = <<>> /\ lock = Nobody
  /\ live = {} /\ hist = [e \in Engines |-> {}] /\ populated = FALSE
  /\ ended = [t \in Tasks |-> "none"]
  /\ inbox = <<>> /\ serving = Nobody /\ replies = [t \in Messages |-> <<>>]

Fresh == CHOOSE e \in Engines : e \notin live

Idle == {idle[i] : i \in DOMAIN idle}

(* An OwnedSemaphorePermit is dropped: it goes to the first waiter.        *)
HandOver(t, step) ==
  IF waiting = <<>>
  THEN permits' = permits + 1 /\ stage' = [stage EXCEPT ![t] = step] /\ UNCHANGED waiting
  ELSE /\ stage' = [stage EXCEPT ![t] = step, ![Head(waiting)] = "granted"]
       /\ waiting' = Tail(waiting) /\ UNCHANGED permits

(* An engine is dropped; its identity is never used again, its State gone. *)
Discard(S) == live' = live \ S /\ hist' = [e \in Engines |-> IF e \in S THEN {} ELSE hist[e]]

-----------------------------------------------------------------------------
(* Seeded faults: the failed run's State is kept; ...                      *)
FaultyRunErr(t) ==
  /\ stage[t] = "running"
  /\ ended' = [ended EXCEPT ![t] = "err"]
  /\ hist' = [hist EXCEPT ![slot[t]] = @ \cup {t}]
  /\ stage' = [stage EXCEPT ![t] = "recycle"]
  /\ UNCHANGED <<slot, permits, waiting, idle, lock, live, populated, busVars>>

(* ... the failed build keeps the permit.                                  *)
FaultyBuildFails(t) ==
  /\ stage[t] = "build"
  /\ ended' = [ended EXCEPT ![t] = "err"]
  /\ stage' = [stage EXCEPT ![t] = "returned"]
  /\ UNCHANGED <<slot, poolVars, busVars>>

-----------------------------------------------------------------------------
(* delegate() *)

Delegate(t) ==
  /\ stage[t] = "out" /\ (t \in Messages => serving = t)
  /\ \/ /\ permits > 0 /\ waiting = <<>>
        /\ permits' = permits - 1 /\ UNCHANGED waiting
        /\ stage' = [stage EXCEPT ![t] = "granted"]
     \/ /\ permits = 0 \/ waiting # <<>>
        /\ waiting' = Append(waiting, t) /\ UNCHANGED permits
        /\ stage' = [stage EXCEPT ![t] = "waiting"]
  /\ UNCHANGED <<slot, idle, lock, live, hist, populated, ended, busVars>>

(* take_slot: the front of the queue, under the lock.                      *)
TakeSlot(t) ==
  /\ stage[t] = "granted" /\ lock = Nobody
  /\ \/ /\ idle # <<>>
        /\ slot' = [slot EXCEPT ![t] = Head(idle)] /\ idle' = Tail(idle)
        /\ stage' = [stage EXCEPT ![t] = "running"]
     \/ idle = <<>> /\ stage' = [stage EXCEPT ![t] = "build"] /\ UNCHANGED <<slot, idle>>
  /\ UNCHANGED <<permits, waiting, lock, live, hist, populated, ended, busVars>>

(* build_slot, awaited without the lock.                                   *)
BuildSlot(t) ==
  /\ stage[t] = "build"
  /\ slot' = [slot EXCEPT ![t] = Fresh]
  /\ live' = live \cup {Fresh}
  /\ stage' = [stage EXCEPT ![t] = "running"]
  /\ UNCHANGED <<permits, waiting, idle, lock, hist, populated, ended, busVars>>

(* ... and when it fails: delegate() returns by ?, its permit dropped.     *)
BuildFails(t) ==
  /\ stage[t] = "build"
  /\ ended' = [ended EXCEPT ![t] = "err"]
  /\ HandOver(t, "returned")
  /\ UNCHANGED <<slot, idle, lock, live, hist, populated, busVars>>

(* run_once ends well: only while the turns of the State, those of former  *)
(* tasks included, are below the limit.  The State is kept.                *)
RunOk(t) ==
  /\ stage[t] = "running" /\ Cardinality(hist[slot[t]]) < MaxTurns
  /\ ended' = [ended EXCEPT ![t] = "ok"]
  /\ hist' = [hist EXCEPT ![slot[t]] = @ \cup {t}]
  /\ stage' = [stage EXCEPT ![t] = "recycle"]
  /\ UNCHANGED <<slot, permits, waiting, idle, lock, live, populated, busVars>>

(* run_once fails: reset_state.                                            *)
RunErr(t) ==
  /\ stage[t] = "running"
  /\ ended' = [ended EXCEPT ![t] = "err"]
  /\ hist' = [hist EXCEPT ![slot[t]] = {}]
  /\ stage' = [stage EXCEPT ![t] = "recycle"]
  /\ UNCHANGED <<slot, permits, waiting, idle, lock, live, populated, busVars>>

RecycleSlot(t) ==
  /\ stage[t] = "recycle" /\ lock = Nobody
  /\ \/ Len(idle) < Size /\ idle' = Append(idle, slot[t]) /\ UNCHANGED <<live, hist>>
     \/ Len(idle) >= Size /\ Discard({slot[t]}) /\ UNCHANGED idle
  /\ slot' = [slot EXCEPT ![t] = NoEngine]
  /\ stage' = [stage EXCEPT ![t] = "count"]
  /\ UNCHANGED <<permits, waiting, lock, populated, ended, busVars>>

(* The metrics (left out here) are read under the lock, then delegate()    *)
(* returns and drops its permit.                                           *)
Return(t) ==
  /\ stage[t] = "count" /\ lock = Nobody
  /\ HandOver(t, "returned")
  /\ UNCHANGED <<slot, idle, lock, live, hist, populated, ended, busVars>>

(* The caller drops the future at an await: what it owns is dropped too.   *)
Cancel(t) ==
  /\ t \notin Messages
  /\ \/ /\ stage[t] = "waiting"
        /\ \E i \in DOMAIN waiting : waiting[i] = t /\ waiting' = RemoveAt(waiting, i)
        /\ stage' = [stage EXCEPT ![t] = "returned"]
        /\ UNCHANGED <<permits, live, hist>>
     \/ /\ stage[t] \in Holding
        /\ HandOver(t, "returned")
        /\ Discard({slot[t]})
  /\ slot' = [slot EXCEPT ![t] = NoEngine]
  /\ ended' = [ended EXCEPT ![t] = IF @ = "none" THEN "err" ELSE @]
  /\ UNCHANGED <<idle, lock, populated, busVars>>

-----------------------------------------------------------------------------
(* populate(): the lock is held while engines are built.                   *)

PopulateStart ==
  /\ lock = Nobody /\ ~populated
  /\ lock' = "populate" /\ populated' = TRUE
  /\ UNCHANGED <<stage, slot, permits, waiting, idle, live, hist, ended, busVars>>

PopulateBuild ==
  /\ lock = "populate" /\ Len(idle) < Size
  /\ \/ idle' = Append(idle, Fresh) /\ live' = live \cup {Fresh} /\ UNCHANGED lock
     \/ lock' = Nobody /\ UNCHANGED <<idle, live>>          \* build failed
  /\ UNCHANGED <<stage, slot, permits, waiting, hist, populated, ended, busVars>>

PopulateEnd ==
  /\ lock = "populate" /\ Len(idle) >= Size
  /\ lock' = Nobody
  /\ UNCHANGED <<stage, slot, permits, waiting, idle, live, hist, populated, ended, busVars>>

(* shutdown(self): nobody else borrows the pool.                           *)
Shutdown ==
  /\ lock = Nobody /\ \A t \in Tasks : stage[t] = "returned"
  /\ idle # <<>> /\ idle' = <<>>
  /\ Discard(Idle)
  /\ UNCHANGED <<stage, slot, permits, waiting, lock, populated, ended, busVars>>

-----------------------------------------------------------------------------
(* The bus actor *)

SendDelegate(m) ==
  /\ stage[m] = "out" /\ serving # m /\ ~Contains(inbox, m)
  /\ inbox' = Append(inbox, m)
  /\ UNCHANGED <<stage, slot, poolVars, ended, serving, replies>>

(* The listener takes one message and awaits handle_delegate_msg.          *)
Listen ==
  /\ serving = Nobody /\ inbox # <<>>
  /\ serving' = Head(inbox) /\ inbox' = Tail(inbox)
  /\ UNCHANGED <<stage, slot, poolVars, ended, replies>>

(* handle_delegate_msg refuses a payload without "task" or "user_message". *)
Refuse(m) ==
  /\ serving = m /\ stage[m] = "out"
  /\ ended' = [ended EXCEPT ![m] = "err"]
  /\ stage' = [stage EXCEPT ![m] = "returned"]
  /\ UNCHANGED <<slot, poolVars, busVars>>

Reply(m) ==
  /\ serving = m /\ stage[m] = "returned"
  /\ serving' = Nobody
  /\ replies' = [replies EXCEPT ![m] = Append(@, ended[m])]
  /\ UNCHANGED <<stage, slot, poolVars, ended, inbox>>

-----------------------------------------------------------------------------
DelegateStep(t) ==
  \/ TakeSlot(t) \/ BuildSlot(t) \/ BuildFails(t) \/ RunOk(t) \/ RunErr(t)
  \/ RecycleSlot(t) \/ Return(t)

PopulateStep == PopulateBuild \/ PopulateEnd

ListenerStep ==
  \/ Listen
  \/ \E m \in Messages : Delegate(m) \/ Refuse(m) \/ Reply(m)

Next ==
  \/ \E t \in Tasks \ Messages : Delegate(t)
  \/ \E t \in Tasks : DelegateStep(t) \/ Cancel(t)
  \/ PopulateStart \/ PopulateStep \/ Shutdown
  \/ \E m \in Messages : SendDelegate(m)
  \/ ListenerStep

(* Spawned and awaited tasks run; an engine's run ends (it does when its   *)
(* responders answer).  Nobody need delegate, populate or cancel.          *)
Fairness ==
  /\ \A t \in Tasks : WF_vars(DelegateStep(t))
  /\ WF_vars(PopulateStep) /\ WF_vars(ListenerStep)

Spec == Init /\ [][Next]_vars /\ Fairness

-----------------------------------------------------------------------------
TypeOK ==
  /\ stage \in [Tasks -> Stages] /\ slot \in [Tasks -> Engines \cup {NoEngine}]
  /\ permits \in 0..Size /\ waiting \in Seq(Tasks) /\ idle \in Seq(Engines)
  /\ lock \in {Nobody, "populate"} /\ live \subseteq Engines
  /\ hist \in [Engines -> SUBSET Tasks] /\ populated \in BOOLEAN
  /\ ended \in [Tasks -> {"none", "ok", "err"}]
  /\ inbox \in Seq(Messages) /\ serving \in Messages \cup {Nobody}
  /\ replies \in [Messages -> Seq({"ok", "err"})]

(* A slot cycles as a unit through one place at a time: an engine is in    *)
(* the idle queue once or with one delegate(), so no two tasks ever run in *)
(* one State, and every engine that exists is in one of the two places.    *)
SlotExclusive ==
  /\ IsInjective(idle)
  /\ \A t \in Tasks : slot[t] \notin Idle
  /\ \A t, u \in Tasks : slot[t] = slot[u] => t = u \/ slot[t] = NoEngine
  /\ live = (Idle \cup {slot[t] : t \in Tasks}) \ {NoEngine}

(* The pool grows to `size` engines, counting those being built, whatever  *)
(* delegates overlap, fail or are cancelled; a populate() beside running   *)
(* delegates can at most double that.                                      *)
EnginesBounded ==
  Cardinality(live) + Cardinality({t \in Tasks : stage[t] = "build"})
    <= (IF populated THEN 2 * Size ELSE Size)

(* What a waiting task will find in the queue is never the State of a run  *)
(* that failed or was cancelled.                                           *)
NoInheritedFailure == \A e \in Idle : \A t \in hist[e] : ended[t] = "ok"

(* Every delegate() returns, with populate() beside it or without, and a   *)
(* listener that was asked answers each message exactly once.              *)
DelegatesReturn ==
  /\ \A t \in Tasks : stage[t] = "waiting" \/ stage[t] \in Holding ~> stage[t] = "returned"
  /\ \A m \in Messages : Contains(inbox, m) ~> Len(replies[m]) = 1

(* lib.rs: "The semaphore `size` caps the total leased+idle count."        *)
LeasedAndIdleCapped == Cardinality(live) <= Size
=============================================================================
