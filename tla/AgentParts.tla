----------------------------- MODULE AgentParts -----------------------------
(***************************************************************************)
(* Five of the parts an agent is made of around its loop, side by side:    *)
(* the wiring of the engine to the nodes of its buses, the conversation    *)
(* with a model, the execution of tool calls, the store of its session and *)
(* its configuration files.  They share no state.                          *)
(***************************************************************************)
EXTENDS Integers, Sequences

CONSTANTS
  Buses, NodeIds, InfosOf, InitGraph, Resources, Model, Rules, Routes, NameLen,
  MaxChanges, All, Offline, Unbound,                              \* of Wiring
  Providers, Replies, Styles, SystemMsgs, MaxRetries, KeepTail,
  MaxTurns,                                                       \* of Conversation
  Calls, Stranger, Toolings, Bodies, ToolDirs, SkillDirs, Remote, \* of ToolExec
  Stores, Cids, Saved, Marks, MaxCalls, NoData,                   \* of SessionStore
  Names, AutoLists, Ambiguous, Waits, AgentFiles, MaxRoster, Nil, Error   \* of Config

VARIABLES
  graph, changes, wired, registry, built, seen, cache, skillsCache, skillsText, signals,
  listening, raced, outcome,
  provider, streaming, history, pc, wire, attempt, said, payload, todo, nextId, turns,
  compacted,
  backend, Tool, request, reply, deps, blocking, timed, phase, layer, stage, result,
  senders, signalled,
  impl, row, cps, events, lines, open, step, arg, calls, issued, acked,
  team, file, saved, agent

Wire  == INSTANCE Wiring WITH pc <- wired
Conv  == INSTANCE Conversation
Tools == INSTANCE ToolExec
Store == INSTANCE SessionStore WITH file <- lines
Cfg   == INSTANCE Config WITH None <- Nil

\* A cached receiver list is out of date only while a lifecycle signal waits,
\* after the listener ended, or after a change between graph() and the insert.
StaleOnlyByRace == Wire!StaleOnlyByRace

\* A tool offered to the model is owned by the node that offers it and by no
\* other while the graph is the one the registry was built from.
OfferedIsRoutable == Wire!OfferedIsRoutable

\* Requests to MiniMax keep tool results with the calls they answer until the
\* history is compacted.
NativeCallsPaired == Conv!NativeCallsPaired

\* execute() refuses exactly the sets that name an unknown call or
\* close a cycle, and sorts every other into its earliest layers.
SortsExactlyTheDags == Tools!SortsExactlyTheDags

\* No tool starts before the calls that block it succeeded, and below a call
\* that did not, every call is cancelled and reported.
BlockedUntilSuccess == Tools!BlockedUntilSuccess

\* load() never answers with less than a caller was told is stored, whatever
\* call a crash interrupted (SqliteStore, JsonlStore).
AckedStateLoads == Store!AckedStateLoads

\* pending_outbound() after any crash has every acknowledged send that was not
\* answered, no answered one, in the order of the first sends, as long as no
\* two records share a line.
OutboxReplays == Store!OutboxReplays

\* A team's roster survives to_yaml and from_yaml.
RosterRoundTrips == Cfg!RosterRoundTrips
=============================================================================
