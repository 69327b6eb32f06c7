------------------------------- MODULE Relay -------------------------------
(***************************************************************************)
(* The SSE relay of the Python bindings (py-arf/src/relay): SseRelay.stream *)
(* opens one JsonlTailer per team member whose events file exists, driver  *)
(* tasks push the lines they read into one bounded channel, and            *)
(* SseRelayStream.__anext__ parses, filters, numbers and yields them.  The *)
(* files are written by the engines' JSONL session store at the same time. *)
(*                                                                         *)
(* A line is abstracted to three pieces, the two halves of its JSON text   *)
(* and the newline; the store appends text and newline with two writes.    *)
(***************************************************************************)
EXTENDS Naturals, Sequences, SequencesExt

CONSTANTS
  Members,      \* TeamMembership: ids of the team file's engines and pools
  Wanted,       \* the event types the stream's EventFilter lets through
  Types,        \* top-level event_type of a line; "" when it has none, as in
                \* the session store's lines, which nest theirs under "event"
  BufferSize,   \* capacity asked of the merged channel
  TornWrites,   \* may a reader see the first half of a text alone?
  MaxEvents,    \* bound: events per file
  NoLine        \* a driver that holds no line

VARIABLES
  file,      \* [Members -> Seq(piece)]: events.<member>.jsonl
  exists,    \* members whose file has been created
  stream,    \* "none", "built", "spawned" or "dropped"
  tailed,    \* members a tailer was built for
  pos,       \* [Members -> Nat]: pieces the BufReader has handed out
  holding,   \* [Members -> line or NoLine]: what a driver is sending
  chan,      \* Seq([from, line]): the mpsc channel
  eventSeq,  \* the stream's AtomicU64
  yielded    \* Seq([from, event, id]): chunks handed to Python

vars == <<file, exists, stream, tailed, pos, holding, chan, eventSeq, yielded>>
relayVars == <<stream, tailed, pos, holding, chan, eventSeq, yielded>>

Pieces == {"head", "tail", "newline"}
Event(n, t) == [n |-> n, type |-> t]
Piece(e, p) == [event |-> e, piece |-> p]

(* How many events were appended to the file of m.                         *)
Appended(m) == IF file[m] = <<>> THEN 0 ELSE Last(file[m]).event.n

Init ==
  /\ file = [m \in Members |-> <<>>]
  /\ exists \in SUBSET Members
  /\ stream = "none" /\ tailed = {}
  /\ pos = [m \in Members |-> 0]
  /\ holding = [m \in Members |-> NoLine]
  /\ chan = <<>> /\ eventSeq = 0 /\ yielded = <<>>

-----------------------------------------------------------------------------
(* The session store of engine m: record_event creates the file, writes    *)
(* the text and then the newline.                                          *)

(* What the last append still has to write.                                *)
Unfinished(m) == file[m] # <<>> /\ Last(file[m]).piece # "newline"

WriteText(m) ==
  /\ ~Unfinished(m) /\ Appended(m) < MaxEvents
  /\ \E t \in Types : LET e == Event(Appended(m) + 1, t) IN
       file' = [file EXCEPT ![m] = @ \o
         IF TornWrites THEN <<Piece(e, "head")>>
         ELSE <<Piece(e, "head"), Piece(e, "tail")>>]
  /\ exists' = exists \cup {m}
  /\ UNCHANGED relayVars

WriteRest(m) ==
  /\ Unfinished(m)
  /\ LET l == Last(file[m]) IN
       file' = [file EXCEPT ![m] = Append(@,
         Piece(l.event, IF l.piece = "head" THEN "tail" ELSE "newline"))]
  /\ UNCHANGED <<exists, relayVars>>

-----------------------------------------------------------------------------
(* SseRelay.stream: the members' files that exist now, and the channel.    *)
Capacity == IF BufferSize = 0 THEN 1 ELSE BufferSize

Stream ==
  /\ stream = "none"
  /\ stream' = "built"
  /\ tailed' = exists
  /\ UNCHANGED <<file, exists, pos, holding, chan, eventSeq, yielded>>

(* The first __anext__ spawns one driver per tailer.                       *)
EnsureDriversSpawned ==
  /\ stream = "built"
  /\ stream' = "spawned"
  /\ UNCHANGED <<file, exists, tailed, pos, holding, chan, eventSeq, yielded>>

(* BufRead::read_line: everything up to and with the next newline, or up   *)
(* to the end of the file.                                                 *)
LineEnd(m) ==
  LET ends == {i \in pos[m] + 1 .. Len(file[m]) : file[m][i].piece = "newline"} IN
  IF ends = {} THEN Len(file[m]) ELSE CHOOSE i \in ends : \A j \in ends : i <= j

-----------------------------------------------------------------------------
(* Seeded fault: the tailer opens the file again and starts over.          *)
FaultyNextLine(m) ==
  /\ stream = "spawned" /\ m \in tailed /\ holding[m] = NoLine
  /\ pos[m] < Len(file[m])
  /\ holding' = [holding EXCEPT ![m] = SubSeq(file[m], 1, LineEnd(m))]
  /\ pos' = [pos EXCEPT ![m] = LineEnd(m)]
  /\ UNCHANGED <<file, exists, stream, tailed, chan, eventSeq, yielded>>

-----------------------------------------------------------------------------
(* next_line: at the end of the file it sleeps and looks again; anything   *)
(* read_line returned is a line.                                           *)
NextLine(m) ==
  /\ stream = "spawned" /\ m \in tailed /\ holding[m] = NoLine
  /\ pos[m] < Len(file[m])
  /\ holding' = [holding EXCEPT ![m] = SubSeq(file[m], pos[m] + 1, LineEnd(m))]
  /\ pos' = [pos EXCEPT ![m] = LineEnd(m)]
  /\ UNCHANGED <<file, exists, stream, tailed, chan, eventSeq, yielded>>

(* tx.send(..).await waits for room.                                       *)
DriverSend(m) ==
  /\ stream = "spawned" /\ holding[m] # NoLine /\ Len(chan) < Capacity
  /\ chan' = Append(chan, [from |-> m, line |-> holding[m]])
  /\ holding' = [holding EXCEPT ![m] = NoLine]
  /\ UNCHANGED <<file, exists, stream, tailed, pos, eventSeq, yielded>>

(* serde_json::from_str of a line without its newline: both halves of one  *)
(* text and nothing else.  What is not JSON is skipped.                    *)
Text(line) == IF Last(line).piece = "newline" THEN Front(line) ELSE line
Parses(line) ==
  Len(Text(line)) = 2 /\ Text(line)[1].piece = "head" /\ Text(line)[2].piece = "tail"

(* One turn of the loop of __anext__.                                      *)
Anext ==
  /\ stream = "spawned" /\ chan # <<>>
  /\ chan' = Tail(chan)
  /\ LET it == Head(chan) IN
     \/ /\ Parses(it.line) /\ it.line[1].event.type \in Wanted
        /\ eventSeq' = eventSeq + 1
        /\ yielded' = Append(yielded,
             [from |-> it.from, event |-> it.line[1].event, id |-> eventSeq + 1])
     \/ /\ ~(Parses(it.line) /\ it.line[1].event.type \in Wanted)
        /\ UNCHANGED <<eventSeq, yielded>>
  /\ UNCHANGED <<file, exists, stream, tailed, pos, holding>>

(* Dropping the stream aborts the drivers.                                 *)
DropStream ==
  /\ stream \in {"built", "spawned"}
  /\ stream' = "dropped"
  /\ chan' = <<>>
  /\ holding' = [m \in Members |-> NoLine]
  /\ UNCHANGED <<file, exists, tailed, pos, eventSeq, yielded>>

-----------------------------------------------------------------------------
Driver(m) == NextLine(m) \/ DriverSend(m)

Next ==
  \/ \E m \in Members : WriteText(m) \/ WriteRest(m) \/ Driver(m)
  \/ Stream \/ EnsureDriversSpawned \/ Anext \/ DropStream

(* The driver tasks and a consumer that keeps calling __anext__ run.       *)
Spec == /\ Init /\ [][Next]_vars
        /\ WF_vars(EnsureDriversSpawned) /\ WF_vars(Anext)
        /\ \A m \in Members : WF_vars(NextLine(m)) /\ WF_vars(DriverSend(m))

-----------------------------------------------------------------------------
(* The wanted events m's file holds, and the first k of the chunks handed  *)
(* to Python that are m's.                                                 *)
Written(m) ==
  {file[m][i].event : i \in {j \in DOMAIN file[m] : file[m][j].event.type \in Wanted}}

YieldedOf(m, k) == {yielded[i].event : i \in {j \in 1 .. k : yielded[j].from = m}}

(* Each member's events reach Python once each, in file order and with     *)
(* none left out: before an event Python was given exactly the wanted      *)
(* events that come before it in its file.  The stream's ids count up by   *)
(* one.                                                                    *)
RelayExact ==
  \A i \in DOMAIN yielded : LET y == yielded[i] IN
    /\ y.id = i /\ y.event \in Written(y.from)
    /\ YieldedOf(y.from, i - 1) = {e \in Written(y.from) : e.n < y.event.n}

(* While the stream lives, a wanted event of a tailed file is yielded.     *)
RelayDelivers == \A m \in Members : \A n \in 1..MaxEvents :
  (stream = "spawned" /\ m \in tailed /\ \E e \in Written(m) : e.n = n)
    ~> ((\E e \in YieldedOf(m, Len(yielded)) : e.n = n) \/ stream = "dropped")
=============================================================================
