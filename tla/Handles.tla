------------------------------ MODULE Handles ------------------------------
(***************************************************************************)
(* The Python objects around an Engine (py-arf/src/engine.rs).  A PyEngine *)
(* and a PyState are cells whose content run() takes out and puts back; an *)
(* EngineHandle shares an engine behind a tokio mutex that chat() and      *)
(* chat_with_state() hold while it runs, with a default state per handle.  *)
(* A State is abstracted to the inputs it has answered, oldest first; an   *)
(* input is named by the coroutine that brings it.  asyncio may cancel a   *)
(* coroutine at any await, which drops what it holds.                      *)
(***************************************************************************)
EXTENDS Sequences

CONSTANTS
  Calls,       \* coroutines, each makes one call
  PyEngines,   \* PyEngine objects
  PyStates,    \* PyState objects
  HandleIds,   \* EngineHandle objects from one Team.engine(id)
  None         \* an emptied cell

VARIABLES
  engine,    \* [PyEngines -> BOOLEAN]: the cell holds its engine
  state,     \* [PyStates -> Seq(Calls) or None]
  default,   \* [HandleIds -> Seq(Calls)]: default_state
  holder,    \* the call that holds the engine mutex, or None
  pc,        \* [Calls -> phase]
  what,      \* [Calls -> [op, engine, cell]]
  mine,      \* [Calls -> Seq(Calls)]: the State a coroutine carries
  turns      \* [PyStates -> Seq(Calls)]: history; turns put back, in order

vars == <<engine, state, default, holder, pc, what, mine, turns>>

Op(o, e, c) == [op |-> o, engine |-> e, cell |-> c]

Init ==
  /\ engine = [e \in PyEngines |-> TRUE]
  /\ state = [s \in PyStates |-> <<>>]
  /\ default = [h \in HandleIds |-> <<>>]
  /\ holder = None
  /\ pc = [c \in Calls |-> "new"]
  /\ what = [c \in Calls |-> Op("none", None, None)]
  /\ mine = [c \in Calls |-> <<>>]
  /\ turns = [s \in PyStates |-> <<>>]

Raise(c) ==
  /\ pc' = [pc EXCEPT ![c] = "raised"]
  /\ UNCHANGED <<state, default, holder, what, mine, turns>>

-----------------------------------------------------------------------------
(* PyEngine.run: the engine is taken, then the state.  An empty state cell *)
(* returns by ? with the engine already out, and drops it.                 *)
Run(c, e, s) ==
  /\ pc[c] = "new"
  /\ \/ ~engine[e] /\ Raise(c) /\ UNCHANGED engine
     \/ /\ engine[e] /\ state[s] = None
        /\ Raise(c) /\ engine' = [engine EXCEPT ![e] = FALSE]
     \/ /\ engine[e] /\ state[s] # None
        /\ engine' = [engine EXCEPT ![e] = FALSE]
        /\ state' = [state EXCEPT ![s] = None]
        /\ mine' = [mine EXCEPT ![c] = state[s]]
        /\ what' = [what EXCEPT ![c] = Op("run", e, s)]
        /\ pc' = [pc EXCEPT ![c] = "running"]
        /\ UNCHANGED <<default, holder, turns>>

(* chat: the handle's default state is swapped for a new one.              *)
Chat(c, h) ==
  /\ pc[c] = "new"
  /\ mine' = [mine EXCEPT ![c] = default[h]]
  /\ default' = [default EXCEPT ![h] = <<>>]
  /\ what' = [what EXCEPT ![c] = Op("chat", None, h)]
  /\ pc' = [pc EXCEPT ![c] = "lock"]
  /\ UNCHANGED <<engine, state, holder, turns>>

(* Seeded fault: the state is copied out of its cell.                      *)
FaultyChatWithState(c, s) ==
  /\ pc[c] = "new" /\ state[s] # None
  /\ mine' = [mine EXCEPT ![c] = state[s]]
  /\ what' = [what EXCEPT ![c] = Op("chat_with_state", None, s)]
  /\ pc' = [pc EXCEPT ![c] = "lock"]
  /\ UNCHANGED <<engine, state, default, holder, turns>>

(* chat_with_state takes the App's state out of its cell.                  *)
ChatWithState(c, s) ==
  /\ pc[c] = "new"
  /\ \/ state[s] = None /\ Raise(c)
     \/ /\ state[s] # None
        /\ state' = [state EXCEPT ![s] = None]
        /\ mine' = [mine EXCEPT ![c] = state[s]]
        /\ what' = [what EXCEPT ![c] = Op("chat_with_state", None, s)]
        /\ pc' = [pc EXCEPT ![c] = "lock"]
        /\ UNCHANGED <<default, holder, turns>>
  /\ UNCHANGED engine

(* engine_arc.lock().await; tokio hands the mutex over in order of arrival *)
(* and every order is taken here.                                          *)
Locked(c) ==
  /\ pc[c] = "lock" /\ holder = None
  /\ holder' = c
  /\ pc' = [pc EXCEPT ![c] = "running"]
  /\ UNCHANGED <<engine, state, default, what, mine, turns>>

(* Engine::run returns, well or with an error: the state has the input,    *)
(* and the guard ends with the block.                                      *)
RunEnds(c) ==
  /\ pc[c] = "running"
  /\ mine' = [mine EXCEPT ![c] = Append(@, c)]
  /\ holder' = IF holder = c THEN None ELSE holder
  /\ pc' = [pc EXCEPT ![c] = "putback"]
  /\ UNCHANGED <<engine, state, default, what, turns>>

(* The cells are filled again.                                             *)
PutBack(c) ==
  LET w == what[c] IN
  /\ pc[c] = "putback"
  /\ pc' = [pc EXCEPT ![c] = "returned"]
  /\ IF w.op = "chat"
     THEN /\ default' = [default EXCEPT ![w.cell] = mine[c]]
          /\ UNCHANGED <<state, turns>>
     ELSE /\ state' = [state EXCEPT ![w.cell] = mine[c]]
          /\ turns' = [turns EXCEPT ![w.cell] = Append(@, c)]
          /\ UNCHANGED default
  /\ engine' = IF w.op = "run" THEN [engine EXCEPT ![w.engine] = TRUE] ELSE engine
  /\ UNCHANGED <<holder, what, mine>>

(* asyncio cancels the coroutine: its future is dropped where it stands.   *)
Cancel(c) ==
  /\ pc[c] \in {"lock", "running"}
  /\ pc' = [pc EXCEPT ![c] = "cancelled"]
  /\ holder' = IF holder = c THEN None ELSE holder
  /\ UNCHANGED <<engine, state, default, what, mine, turns>>

-----------------------------------------------------------------------------
Step(c) == Locked(c) \/ RunEnds(c) \/ PutBack(c)

Next == \E c \in Calls :
  \/ \E e \in PyEngines, s \in PyStates : Run(c, e, s)
  \/ \E h \in HandleIds : Chat(c, h)
  \/ \E s \in PyStates : ChatWithState(c, s)
  \/ Step(c) \/ Cancel(c)

(* Engine::run returns (module Engine) and tokio polls what is ready.      *)
Spec == Init /\ [][Next]_vars /\ \A c \in Calls : WF_vars(Step(c))

-----------------------------------------------------------------------------
(* A state that is in its cell has every turn that was put back into it,   *)
(* once and in order: two coroutines on one PyState never overwrite each   *)
(* other's turn.                                                           *)
TurnsKept == \A s \in PyStates : state[s] # None => state[s] = turns[s]

(* A call that waits for the engine gets to run and returns, whoever is    *)
(* cancelled meanwhile.                                                    *)
ChatsReturn == \A c \in Calls : (pc[c] = "lock") ~> (pc[c] \in {"returned", "cancelled"})

(* The doc of chat(): "create a fresh State, run the engine, return the    *)
(* assistant's text output".  mem::replace hands over the old one.         *)
ChatIsSingleTurn == \A c \in Calls : what[c].op = "chat" /\ pc[c] = "running" => mine[c] = <<>>

(* The comment on the two engine wrappers: "engine.run(...) call consumes  *)
(* the engine and restores it afterwards".                                 *)
EngineRestored == \A e \in PyEngines :
  engine[e] \/ \E c \in Calls : what[c].op = "run" /\ what[c].engine = e /\ pc[c] # "returned"
=============================================================================
