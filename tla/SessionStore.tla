---------------------------- MODULE SessionStore ----------------------------
(***************************************************************************)
(* The two session stores of crates/arf-session, for one session id:       *)
(* SqliteSessionStore (three tables, several statements per call and no    *)
(* transaction) and JsonlSessionStore (one append-only file, a line and    *)
(* its newline written separately).  A step is one statement or one write; *)
(* the process may die between any two and is then started again.          *)
(*                                                                         *)
(* The data of a session is a version number: every save() and snapshot()  *)
(* carries a new one.  captured_at is the number of the call.              *)
(***************************************************************************)
EXTENDS Integers, Sequences, FiniteSets, SequencesExt, FiniteSetsExt

CONSTANTS
  Stores,       \* the implementations looked at: "sqlite", "jsonl"
  Cids,         \* correlation ids
  Saved,        \* statuses an application saves a session with
  Marks,        \* events with no correlation id: "round_start", ...
  MaxCalls,     \* bound: calls of the store
  NoData        \* load() found nothing

VARIABLES
  impl,    \* the implementation this behaviour uses
  row,     \* sqlite: the sessions row, or NoData
  cps,     \* sqlite: the checkpoints table, as captured_at values
  events,  \* sqlite: the events table, oldest first
  file,    \* jsonl: the lines of the file; a line is a sequence of the
           \* records glued into it, so it parses when there is just one
  open,    \* jsonl: the last line has no newline yet
  step,    \* what the call in progress does next, "idle" between calls
  arg,     \* the argument of that call
  calls,   \* calls so far
  issued,  \* history: the events record_event() was called with
  acked    \* history: what callers were told: the version of the last save,
           \* of the last save or snapshot, and of the last checkpoint, and
           \* the places in issued

tables == <<row, cps, events>>
disk == <<tables, file, open>>
vars == <<impl, disk, step, arg, calls, issued, acked>>

Init ==
  /\ impl \in Stores
  /\ row = NoData /\ cps = {} /\ events = <<>>
  /\ file = <<>> /\ open = FALSE
  /\ step = "idle" /\ arg = NoData /\ calls = 0
  /\ issued = <<>> /\ acked = [saved |-> 0, state |-> 0, cp |-> 0, log |-> {}]

-----------------------------------------------------------------------------
(* What the readers make of the disk. *)

Torn == \E i \in DOMAIN file : Len(file[i]) > 1

SqliteLoad == IF row = NoData THEN NoData
              ELSE [state |-> row.state, status |-> row.status,
                    cp |-> IF cps = {} THEN 0 ELSE Max(cps)]

(* The lines load() remembers one after the other in latest_save, when     *)
(* every line parses.                                                      *)
SaveLines == {i \in DOMAIN file : file[i][1].kind = "save"}

(* The latest save line wins; snapshot lines never yield a session; one    *)
(* line that does not parse makes load() fail.                             *)
JsonlLoad ==
  LET latest == file[Max(SaveLines)][1]
  IN IF Torn THEN [state |-> -1, status |-> "active", cp |-> 0]
     ELSE IF SaveLines = {} THEN NoData
     ELSE [state |-> latest.state, status |-> latest.status, cp |-> latest.cp]

Load == IF impl = "sqlite" THEN SqliteLoad ELSE JsonlLoad

(* list() shows the session: its row; its file, when load() makes sense of *)
(* it.                                                                     *)
SqliteListed == row # NoData

JsonlListed == ~Torn /\ JsonlLoad # NoData

Listed == IF impl = "sqlite" THEN SqliteListed ELSE JsonlListed

(* A log has its events at the places of a table or of a file.             *)
Sends(log, c) == {i \in DOMAIN log : log[i].kind = "outbound_sent" /\ log[i].cid = c}

Replied(log) == {log[i].cid : i \in {j \in DOMAIN log : log[j].kind = "inbound_reply"}}

Attempts(log, c) == {log[i].attempt : i \in Sends(log, c)}

(* The places of the first sends.                                          *)
FirstSeen(log) ==
  {i \in DOMAIN log : log[i].kind = "outbound_sent" /\ \A j \in Sends(log, log[i].cid) : i <= j}

(* Places in their order.                                                  *)
Ordered(S) ==
  CHOOSE q \in [1 .. Cardinality(S) -> S] :
    Range(q) = S /\ \A i, j \in DOMAIN q : i < j => q[i] < q[j]

PendingAt(log, places) ==
  LET todo == Ordered(places)
  IN [k \in DOMAIN todo |-> [cid |-> log[todo[k]].cid,
                             attempt |-> Max(Attempts(log, log[todo[k]].cid))]]

(* Seeded fault: an answered message stays pending when it was sent again. *)
FaultyPendingOf(log) ==
  PendingAt(log, {i \in FirstSeen(log) : \/ log[i].cid \notin Replied(log)
                                         \/ Max(Attempts(log, log[i].cid)) > 1})

(* Sent and not answered, the highest attempt of each, first sent first.   *)
PendingOf(log) == PendingAt(log, {i \in FirstSeen(log) : log[i].cid \notin Replied(log)})

SqlitePending == PendingOf(events)

(* Lines that do not parse, among them glued records, are passed over.     *)
EventLines == {i \in DOMAIN file : Len(file[i]) = 1 /\ file[i][1].kind \notin {"save", "snapshot"}}

JsonlLog == [i \in EventLines |-> file[i][1]]

JsonlPending == PendingOf(JsonlLog)

PendingOutbound == IF impl = "sqlite" THEN SqlitePending ELSE JsonlPending

-----------------------------------------------------------------------------
(* Seeded fault: the row that exists keeps its state.                      *)
FaultySaveRow(d) ==
  /\ row' = IF row = NoData THEN [state |-> d.state, status |-> d.status]
            ELSE [row EXCEPT !.status = d.status]
  /\ UNCHANGED <<cps, events, file, open>>

(* save(): the upsert; created_at, the one column kept, is not modelled.   *)
SaveRow(d) ==
  /\ row' = [state |-> d.state, status |-> d.status]
  /\ UNCHANGED <<cps, events, file, open>>

(* The first write of an append: it lands behind whatever the file ends    *)
(* with, on the same line when that has no newline.                        *)
AppendLine(r) ==
  /\ file' = IF open THEN Append(Front(file), Append(Last(file), r)) ELSE Append(file, <<r>>)
  /\ open' = TRUE
  /\ UNCHANGED tables

(* A call begins with its first statement or write.                        *)
Start(next, d) ==
  /\ step = "idle" /\ calls < MaxCalls
  /\ calls' = calls + 1 /\ step' = next /\ arg' = d
  /\ UNCHANGED <<impl, acked>>

(* save(data), with the checkpoint that data carries or none (0).          *)
SaveData(status, withCp) == [kind |-> "save", state |-> calls + 1, status |-> status,
                             cp |-> IF withCp THEN calls + 1 ELSE 0]

SqliteSave(d) == impl = "sqlite" /\ Start("checkpoint", d) /\ SaveRow(d)

JsonlSave(d) == impl = "jsonl" /\ Start("newline", d) /\ AppendLine(d)

Save(status, withCp) ==
  LET d == SaveData(status, withCp)
  IN /\ UNCHANGED issued
     /\ SqliteSave(d) \/ JsonlSave(d)

(* snapshot(): NotFound without a row (sqlite), then the checkpoint row.   *)
SqliteSnapshot(d) ==
  /\ impl = "sqlite" /\ row # NoData
  /\ Start("state", d) /\ cps' = cps \cup {d.cp}
  /\ UNCHANGED <<row, events, file, open>>

JsonlSnapshot(d) == impl = "jsonl" /\ Start("newline", d) /\ AppendLine(d)

Snapshot ==
  LET d == [kind |-> "snapshot", state |-> calls + 1, cp |-> calls + 1]
  IN /\ UNCHANGED issued
     /\ SqliteSnapshot(d) \/ JsonlSnapshot(d)

(* The second statement of save(): INSERT OR REPLACE the checkpoint.       *)
SaveCheckpoint ==
  /\ step = "checkpoint" /\ step' = "return"
  /\ cps' = IF arg.cp = 0 THEN cps ELSE cps \cup {arg.cp}
  /\ UNCHANGED <<impl, row, events, file, open, arg, calls, issued, acked>>

(* Of snapshot(): state, updated_at and status; cancelling is kept.        *)
SnapshotState ==
  /\ step = "state" /\ step' = "return"
  /\ row' = [state |-> arg.state,
             status |-> IF row.status = "cancelling" THEN "cancelling" ELSE "interrupted"]
  /\ UNCHANGED <<impl, cps, events, file, open, arg, calls, issued, acked>>

(* Of every append: the newline, then sync_all().                          *)
Newline ==
  /\ step = "newline" /\ step' = "return"
  /\ open' = FALSE
  /\ UNCHANGED <<impl, tables, file, arg, calls, issued, acked>>

(* record_event(): one INSERT, or one line.                                *)
SqliteRecord(e) ==
  /\ impl = "sqlite" /\ Start("return", e) /\ events' = Append(events, e)
  /\ UNCHANGED <<row, cps, file, open>>

JsonlRecord(e) == impl = "jsonl" /\ Start("newline", e) /\ AppendLine(e)

RecordEvent(e) ==
  /\ issued' = Append(issued, e)
  /\ SqliteRecord(e) \/ JsonlRecord(e)

(* The wrappers of the trait.  A resend carries the next attempt.          *)
RecordPeerMessageSent(c) ==
  RecordEvent([kind |-> "outbound_sent", cid |-> c,
               attempt |-> 1 + Cardinality({i \in DOMAIN issued :
                                              issued[i].kind = "outbound_sent" /\ issued[i].cid = c})])

RecordPeerReplyReceived(c) ==
  /\ \E i \in DOMAIN issued : issued[i].kind = "outbound_sent" /\ issued[i].cid = c
  /\ RecordEvent([kind |-> "inbound_reply", cid |-> c])

RecordMark(k) == RecordEvent([kind |-> k])

(* The call returns Ok to its caller.                                      *)
Return ==
  /\ step = "return" /\ step' = "idle" /\ arg' = NoData
  /\ acked' = IF arg.kind = "save"
              THEN [acked EXCEPT !.saved = arg.state, !.state = arg.state,
                                 !.cp = IF arg.cp = 0 THEN @ ELSE arg.cp]
              ELSE IF arg.kind = "snapshot" THEN [acked EXCEPT !.state = arg.state, !.cp = arg.cp]
              ELSE [acked EXCEPT !.log = @ \cup {Len(issued)}]
  /\ UNCHANGED <<impl, disk, calls, issued>>

(* delete().  sqlite: the checkpoints, then the row (NotFound if there was *)
(* none); the events stay.  jsonl: the file, events and all.               *)
SqliteDelete ==
  /\ impl = "sqlite" /\ Start("deleteRow", NoData) /\ cps' = {}
  /\ UNCHANGED <<row, events, file, open, issued>>

JsonlDelete ==
  /\ impl = "jsonl" /\ step = "idle" /\ calls < MaxCalls /\ calls' = calls + 1
  /\ file' = <<>> /\ open' = FALSE
  /\ issued' = <<>> /\ acked' = [saved |-> 0, state |-> 0, cp |-> 0, log |-> {}]
  /\ UNCHANGED <<impl, tables, step, arg>>

DeleteRow ==
  /\ step = "deleteRow" /\ step' = "idle"
  /\ row' = NoData /\ acked' = [acked EXCEPT !.saved = 0, !.state = 0, !.cp = 0]
  /\ UNCHANGED <<impl, cps, events, file, open, arg, calls, issued>>

(* The process dies in the middle of a call and is started again.  A       *)
(* delete() that was cut short counts as asked for.                        *)
Crash ==
  /\ step # "idle" /\ step' = "idle" /\ arg' = NoData
  /\ acked' = IF step = "deleteRow" THEN [acked EXCEPT !.cp = 0] ELSE acked
  /\ UNCHANGED <<impl, disk, calls, issued>>

Next ==
  \/ \E s \in Saved, b \in BOOLEAN : Save(s, b)
  \/ SaveCheckpoint \/ Snapshot \/ SnapshotState \/ Newline
  \/ \E c \in Cids : RecordPeerMessageSent(c) \/ RecordPeerReplyReceived(c)
  \/ \E k \in Marks : RecordMark(k)
  \/ Return \/ SqliteDelete \/ JsonlDelete \/ DeleteRow \/ Crash

Spec == Init /\ [][Next]_vars

-----------------------------------------------------------------------------
(* Whatever the interruptions, list() shows the session and load() never   *)
(* answers with less than a caller was told is stored: sqlite gives at     *)
(* least the state of the last save() or snapshot() that returned Ok and a *)
(* checkpoint at least as recent as the last acknowledged one; jsonl at    *)
(* least the last save() (its snapshots are not loaded), as long as no two *)
(* records share a line.                                                   *)
AckedStateLoads ==
  /\ impl = "sqlite" /\ acked.state > 0 /\ step # "deleteRow" =>
       Listed /\ Load # NoData /\ Load.state >= acked.state /\ Load.cp >= acked.cp
  /\ impl = "jsonl" /\ acked.saved > 0 /\ ~Torn =>
       Listed /\ Load # NoData /\ Load.state >= acked.saved

AnswerIssued(c) == \E i \in DOMAIN issued : issued[i].kind = "inbound_reply" /\ issued[i].cid = c

AnswerAcked(c) == \E i \in acked.log : issued[i].kind = "inbound_reply" /\ issued[i].cid = c

FirstIssue(c) == Min({i \in DOMAIN issued : issued[i].kind = "outbound_sent" /\ issued[i].cid = c})

(* Every outbound message whose record_event() returned Ok and that nobody *)
(* answered is found by pending_outbound() after any crash, with at least  *)
(* the attempt that was recorded: what the engine resends on startup       *)
(* misses nothing.  (Violated for jsonl, whose next append lands on the    *)
(* line that a crash left without its newline.)                            *)
AckedSendsPending ==
  LET pending == PendingOutbound IN
  \A i \in acked.log :
    issued[i].kind = "outbound_sent" /\ ~AnswerIssued(issued[i].cid) =>
      \E j \in DOMAIN pending :
        pending[j].cid = issued[i].cid /\ pending[j].attempt >= issued[i].attempt

(* In both stores, as long as no two records share a line: nothing that    *)
(* was acknowledged is missing from pending_outbound(), nothing answered   *)
(* comes back, and the resends keep the order of the first sends.          *)
OutboxReplays ==
  LET pending == PendingOutbound IN
  Torn \/ /\ AckedSendsPending
          /\ \A j \in DOMAIN pending : ~AnswerAcked(pending[j].cid)
          /\ \A j, k \in DOMAIN pending :
               j < k => FirstIssue(pending[j].cid) < FirstIssue(pending[k].cid)

=============================================================================
