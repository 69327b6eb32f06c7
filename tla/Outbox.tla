------------------------------- MODULE Outbox -------------------------------
(***************************************************************************)
(* The persistent outbox of crates/arf-engine and crates/arf-session: an   *)
(* outgoing request is recorded before it is sent, its reply is recorded   *)
(* when it comes, and a new engine resends what has no recorded reply.     *)
(*                                                                         *)
(* The event log is kept as what pending_outbound reads from it: for each  *)
(* correlation id the highest attempt of its OutboundSent events and       *)
(* whether an InboundReply event names it.  Other events are left out, and *)
(* so are the wait events of the State, which module Engine models.        *)
(***************************************************************************)
EXTENDS Integers, Sequences

CONSTANTS
  Cids,        \* correlation ids of the requests
  NoCid,       \* no request
  Kind,        \* msg_type of each: "peer_message", "human_handoff" or an app's "custom"
  Capacity,    \* inbound_dedup_capacity
  MaxCrashes   \* bound: restarts

Kinds == {"peer_message", "human_handoff", "custom"}

ASSUME OutboxAssumption ==
  /\ NoCid \notin Cids
  /\ Kind \in [Cids -> Kinds]
  /\ Capacity \in Nat \ {0}
  /\ MaxCrashes \in Nat

VARIABLES
  attempt,     \* persistent: MAX(attempt) of the OutboundSent events; 0: none
  replied,     \* persistent: ids with an InboundReply event
  pc,          \* where the engine is
  cur,         \* the request it works on
  todo,        \* pending entries still to be resent
  used,        \* ids handed out
  atPeer,      \* copies of each request that no peer has answered
  inbox,       \* replies in the engine's inbound queue, by correlation id
  dedup,       \* InboundDedupCache, least recent first
  sends,       \* history: copies of each request put on the bus
  failed,      \* history: ids a bus or store error kept from being sent
  dispatched,  \* history: replies this process passed on to dispatch_incoming
  evicted,     \* history: ids this process dropped from dedup
  crashes

logVars  == <<attempt, replied>>
procVars == <<dedup, dispatched, evicted>>
vars == <<logVars, pc, cur, todo, used, atPeer, inbox, procVars, sends, failed, crashes>>

Counts == [Cids -> Nat]
Plus(f, c) == [f EXCEPT ![c] = @ + 1]
Minus(f, c) == [f EXCEPT ![c] = @ - 1]
None == [c \in Cids |-> 0]

Init ==
  /\ attempt = None /\ replied = {}
  /\ pc = "up" /\ cur = NoCid /\ todo = {} /\ used = {}
  /\ atPeer = None /\ inbox = None
  /\ dedup = <<>> /\ dispatched = None /\ evicted = {}
  /\ sends = None /\ failed = {} /\ crashes = 0

(* bus.send: the request reaches the peers.                                *)
PutOnBus(c) == sends' = Plus(sends, c) /\ atPeer' = Plus(atPeer, c)

-----------------------------------------------------------------------------
(* Publishing: publish_and_await_query, publish_only_command and           *)
(* handoff_to_human *)

(* maybe_record_outbound: a failure of the store ends the call.            *)
Record ==
  /\ pc = "up"
  /\ \E c \in Cids \ used :
       /\ used' = used \cup {c}
       /\ \/ attempt' = [attempt EXCEPT ![c] = 1] /\ pc' = "recorded" /\ cur' = c
          \/ UNCHANGED <<attempt, pc, cur>>
  /\ UNCHANGED <<replied, todo, atPeer, inbox, procVars, sends, failed, crashes>>

(* A query is then awaited; a command is not.                              *)
Send ==
  /\ pc = "recorded"
  /\ \/ PutOnBus(cur) /\ pc' = "await" /\ UNCHANGED <<cur, failed>>
     \/ Kind[cur] = "custom" /\ PutOnBus(cur) /\ pc' = "up" /\ cur' = NoCid /\ UNCHANGED failed
     \/ pc' = "up" /\ cur' = NoCid /\ failed' = failed \cup {cur} /\ UNCHANGED <<atPeer, sends>>
  /\ UNCHANGED <<logVars, todo, used, inbox, procVars, crashes>>

(* The reply that is awaited.  Only a peer_reply is recorded, and only if  *)
(* the store takes it; a processor that fails keeps it from being recorded.*)
TakeReply ==
  /\ pc = "await" /\ inbox[cur] > 0
  /\ inbox' = Minus(inbox, cur)
  /\ \/ Kind[cur] = "peer_message" /\ replied' = replied \cup {cur}
     \/ UNCHANGED replied
  /\ pc' = "up" /\ cur' = NoCid
  /\ UNCHANGED <<attempt, todo, used, atPeer, procVars, sends, failed, crashes>>

(* The round's token or the timeout of a handoff ends the wait.            *)
GiveUp ==
  /\ pc = "await"
  /\ pc' = "up" /\ cur' = NoCid
  /\ UNCHANGED <<logVars, todo, used, atPeer, inbox, procVars, sends, failed, crashes>>

-----------------------------------------------------------------------------
(* Replies that are not awaited, read while the engine waits for this or   *)
(* any other answer *)

Cached(c) == c \in {dedup[i] : i \in DOMAIN dedup}

(* Seeded fault: nothing is remembered.                                    *)
ForgetfulPut(c) == UNCHANGED <<dedup, evicted>>

(* LruCache::put: the least recent entry makes room.                       *)
CachePut(c) ==
  IF Len(dedup) < Capacity
    THEN dedup' = Append(dedup, c) /\ UNCHANGED evicted
    ELSE dedup' = Append(Tail(dedup), c) /\ evicted' = evicted \cup {Head(dedup)}

(* While a reply of the same type is awaited, others of it are dropped.    *)
SkipReply ==
  /\ pc = "await"
  /\ \E c \in Cids \ {cur} :
       Kind[c] = Kind[cur] /\ inbox[c] > 0 /\ inbox' = Minus(inbox, c)
  /\ UNCHANGED <<logVars, pc, cur, todo, used, atPeer, procVars, sends, failed, crashes>>

Unexpected(c) ==
  /\ pc \in {"up", "await"} /\ inbox[c] > 0
  /\ pc = "await" => Kind[c] # Kind[cur]
  /\ inbox' = Minus(inbox, c)
  /\ UNCHANGED <<attempt, todo, used, atPeer, sends, failed, crashes>>

(* maybe_record_inbound_reply: a repeated one is dropped.                  *)
DropDuplicate ==
  /\ \E c \in Cids : Unexpected(c) /\ Kind[c] # "custom" /\ Cached(c)
  /\ UNCHANGED <<replied, pc, cur, procVars>>

(* A first one is recorded, if the store takes it, and dispatched: the     *)
(* blocking_lock of dispatch_incoming unwinds the call in progress.        *)
Dispatch ==
  /\ \E c \in Cids :
       /\ Unexpected(c)
       /\ \/ Kind[c] = "custom" /\ UNCHANGED <<replied, dedup, evicted>>
          \/ /\ Kind[c] # "custom" /\ ~Cached(c) /\ CachePut(c)
             /\ \/ replied' = replied \cup {c}
                \/ UNCHANGED replied
       /\ dispatched' = Plus(dispatched, c)
  /\ pc' = "up" /\ cur' = NoCid

(* A peer answers one copy, or never does.                                 *)
Reply ==
  /\ pc # "down"
  /\ \E c \in Cids : atPeer[c] > 0 /\ atPeer' = Minus(atPeer, c) /\ inbox' = Plus(inbox, c)
  /\ UNCHANGED <<logVars, pc, cur, todo, used, procVars, sends, failed, crashes>>

-----------------------------------------------------------------------------
(* Crash and restart *)

Crash ==
  /\ pc # "down" /\ crashes < MaxCrashes
  /\ crashes' = crashes + 1
  /\ pc' = "down" /\ cur' = NoCid /\ todo' = {}
  /\ inbox' = None /\ dedup' = <<>> /\ dispatched' = None /\ evicted' = {}
  /\ UNCHANGED <<logVars, used, atPeer, sends, failed>>

(* Seeded faults: entries without a resend are not looked at, or those     *)
(* with a reply are.                                                       *)
HastyPending == {c \in Cids : attempt[c] > 1 /\ c \notin replied}
ForgetfulPending == {c \in Cids : attempt[c] > 0}

(* pending_outbound *)
Pending == {c \in Cids : attempt[c] > 0 /\ c \notin replied}

(* EngineBuilder::build goes on when the query fails.                      *)
Restart ==
  /\ pc = "down"
  /\ \/ pc' = "resend" /\ todo' = Pending /\ UNCHANGED failed
     \/ pc' = "up" /\ failed' = failed \cup Pending /\ UNCHANGED todo
  /\ UNCHANGED <<logVars, cur, used, atPeer, inbox, procVars, sends, crashes>>

(* Seeded fault: the attempt is recorded although the send failed.         *)
FaultyResend ==
  /\ pc = "resend"
  /\ \E c \in todo :
       /\ todo' = todo \ {c}
       /\ \/ Kind[c] = "custom" /\ UNCHANGED <<pc, cur, atPeer, sends, failed>>
          \/ Kind[c] # "custom" /\ PutOnBus(c) /\ pc' = "resent" /\ cur' = c /\ UNCHANGED failed
          \/ /\ Kind[c] # "custom" /\ failed' = failed \cup {c}
             /\ pc' = "resent" /\ cur' = c /\ UNCHANGED <<atPeer, sends>>
  /\ UNCHANGED <<logVars, used, inbox, procVars, crashes>>

(* reconstruct_message knows two types; send failures are logged.          *)
Resend ==
  /\ pc = "resend"
  /\ \E c \in todo :
       /\ todo' = todo \ {c}
       /\ \/ Kind[c] = "custom" /\ UNCHANGED <<pc, cur, atPeer, sends, failed>>
          \/ Kind[c] # "custom" /\ PutOnBus(c) /\ pc' = "resent" /\ cur' = c /\ UNCHANGED failed
          \/ /\ Kind[c] # "custom" /\ failed' = failed \cup {c}
             /\ UNCHANGED <<pc, cur, atPeer, sends>>
  /\ UNCHANGED <<logVars, used, inbox, procVars, crashes>>

(* The new attempt is recorded, best effort.                               *)
RecordAttempt ==
  /\ pc = "resent"
  /\ pc' = "resend" /\ cur' = NoCid
  /\ \/ attempt' = Plus(attempt, cur)
     \/ UNCHANGED attempt
  /\ UNCHANGED <<replied, todo, used, atPeer, inbox, procVars, sends, failed, crashes>>

Built ==
  /\ pc = "resend" /\ todo = {}
  /\ pc' = "up"
  /\ UNCHANGED <<logVars, cur, todo, used, atPeer, inbox, procVars, sends, failed, crashes>>

-----------------------------------------------------------------------------
Next ==
  \/ Record \/ Send \/ TakeReply \/ GiveUp \/ SkipReply \/ DropDuplicate \/ Dispatch \/ Reply
  \/ Crash \/ Restart \/ Resend \/ RecordAttempt \/ Built

Spec == Init /\ [][Next]_vars

-----------------------------------------------------------------------------
(* Properties *)

(* Each variable keeps its shape, and the dedup cache its capacity.        *)
TypeOK ==
  /\ attempt \in Counts /\ sends \in Counts /\ atPeer \in Counts /\ inbox \in Counts
  /\ dispatched \in Counts /\ replied \subseteq Cids /\ used \subseteq Cids
  /\ pc \in {"up", "recorded", "await", "down", "resend", "resent"}
  /\ cur \in Cids \cup {NoCid} /\ (pc \in {"recorded", "await", "resent"} <=> cur # NoCid)
  /\ todo \subseteq Cids /\ failed \subseteq Cids /\ evicted \subseteq Cids
  /\ dedup \in Seq(Cids) /\ Len(dedup) <= Capacity
  /\ crashes \in Nat

(* A crash between the record and the send loses nothing: whenever the     *)
(* engine is up, what it can rebuild and has recorded was sent, unless the *)
(* bus or the store refused.                                               *)
RecordedIsSent ==
  pc \in {"up", "await"} =>
    \A c \in Cids : attempt[c] > 0 /\ Kind[c] # "custom" /\ c \notin failed => sends[c] > 0

(* The attempts on record are backed by sends: apart from the first, which *)
(* is recorded before it, an attempt is recorded only once it was made.    *)
AttemptsBacked == \A c \in Cids : attempt[c] <= sends[c] + 1

(* A request whose reply is on record is never sent again.                 *)
AnsweredNotResent ==
  [][\A c \in Cids : c \in replied => sends'[c] = sends[c]]_vars

(* One process passes a reply on once, however many copies of the request  *)
(* were answered, until the cache has dropped its id.                      *)
DispatchedOnce ==
  \A c \in Cids \ evicted : Kind[c] # "custom" => dispatched[c] <= 1

(* "Persist the new attempt so a future restart doesn't re-send": one      *)
(* recorded resend is the last one.                                        *)
ResentOnce == \A c \in Cids : attempt[c] <= 2

=============================================================================
