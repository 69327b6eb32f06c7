CONSTANTS
  Nil = Nil
  Error = Error
  \* Three nodes on two buses, three changes of the graph.
  Buses <- MCBuses
  NodeIds = {1, 2, 3}
  InfosOf <- MCInfosOf
  InitGraph <- MCInitGraph
  Resources <- MCResources
  Model <- MCModel
  Rules <- MCRules
  Routes <- MCRoutes
  NameLen <- MCNameLen
  MaxChanges = 3
  All = All
  Offline = Offline
  Unbound = Unbound
  \* Three model turns.
  Providers = {"openai", "deepseek", "anthropic", "minimax"}
  Replies <- MCReplies
  Styles = {"first", "every"}
  SystemMsgs = {1, 2}
  MaxRetries = 2
  KeepTail = 2
  MaxTurns = 3
  \* Two clients and three calls of a composite of three backends.
  Clients = {"c1", "c2"}
  Raws <- MCRaws
  Words = {"u", "v"}
  Contents <- MCContents
  Batches <- MCBatches
  RouteList <- MCRouteList
  Env = {"", "filesystem", "other"}
  ShellChild = "fs"
  MaxOps = 3
  Nothing = Nothing
  \* Three tool calls.
  Calls = {1, 2, 3}
  Stranger = 9
  Toolings <- MCToolings
  Bodies <- MCBodies
  ToolDirs <- MCToolDirs
  SkillDirs <- MCSkillDirs
  Remote = {"sh", "rs"}
  \* Four calls of a store, enough for a send, its answer, and a crash between
  \* them that leaves a line without its newline.
  Stores = {"sqlite", "jsonl"}
  Cids = {"c1", "c2"}
  Saved = {"active"}
  Marks = {"round_start"}
  MaxCalls = 4
  NoData = NoData
  \* One engine and one pool, and a name that YAML takes for a number.
  Names = {"pm", "42"}
  AutoLists <- MCAutoLists
  Ambiguous = {"42"}
  Waits = {2000}
  AgentFiles <- MCAgentFiles
  MaxRoster = 1
SPECIFICATION MCSpec
INVARIANTS
  AckedStateLoads OutboxReplays SortsExactlyTheDags BlockedUntilSuccess
  OfferedIsRoutable StaleOnlyByRace NativeCallsPaired RosterRoundTrips
PROPERTY CompositeIsFlat
CHECK_DEADLOCK FALSE
