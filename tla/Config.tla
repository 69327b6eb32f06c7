------------------------------- MODULE Config -------------------------------
(***************************************************************************)
(* The Python configuration layer: TeamConfig, edited in memory, written   *)
(* with to_yaml and read with from_yaml, and the agent files that          *)
(* TeamBuilder and AgentConfig.from_yaml read (py-arf/src/team/            *)
(* team_config.rs, py-arf/src/engine.rs).                                  *)
(*                                                                         *)
(* A YAML mapping is a function from the keys present to their values.     *)
(* to_yaml writes names without quotes, so a name that YAML takes for a    *)
(* number, a boolean or null is not a string when it is read again;        *)
(* Ambiguous is the set of such names.                                     *)
(***************************************************************************)
EXTENDS Naturals, Sequences, SequencesExt

CONSTANTS
    Names,        \* ids a program uses
    AutoLists,    \* what an engine is told to subscribe to, sequences of names
    Ambiguous,    \* the names YAML reads as something else than a string
    Waits,        \* values of max_queue_wait_ms
    AgentFiles,   \* contents of agent.yaml files the team's engines may name
    MaxRoster,    \* bound on engines and on pools
    None, Error

VARIABLES
    team,     \* the TeamConfig in memory, or None
    file,     \* team.yaml on disk, or None
    saved,    \* ghost: the TeamConfig that to_yaml wrote
    agent     \* the AgentConfig last loaded, Error or None

vars == <<team, file, saved, agent>>

-----------------------------------------------------------------------------
(* Mappings *)

Has(m, key) == key \in DOMAIN m
Get(m, key, default) == IF Has(m, key) THEN m[key] ELSE default

\* .as_str() with the default of the caller.
AsStr(m, key, default) ==
    IF Has(m, key) /\ m[key] \notin Ambiguous THEN m[key] ELSE default

\* One entry of a hand-rolled mapping, left out when the field is None.
Optional(key, value) == IF value = None THEN << >> ELSE [k \in {key} |-> value]

Join(f, g) == [k \in DOMAIN f \cup DOMAIN g |-> IF k \in DOMAIN f THEN f[k] ELSE g[k]]

-----------------------------------------------------------------------------
(* team.yaml *)

EngineSpec(id, config, auto) == [id |-> id, config |-> config, auto |-> auto]

PoolSpec(id, config, size, wait) ==
    [id |-> id, config |-> config, size |-> size, wait |-> wait]

TeamConfig(id, bus) ==
    [id |-> id, bus |-> bus, description |-> None, engines |-> <<>>, pools |-> <<>>]

WriteEngine(e) ==
    Join([id |-> e.id, config |-> e.config],
         IF e.auto = <<>> THEN << >> ELSE [auto_subscribe |-> e.auto])

\* max_queue_wait_ms forgotten.
FaultyWritePool(p) == [id |-> p.id, config |-> p.config, size |-> p.size]

WritePool(p) ==
    Join([id |-> p.id, config |-> p.config, size |-> p.size],
         Optional("max_queue_wait_ms", p.wait))

\* What to_yaml puts in the file: no description, and no empty section.
Yaml(t) ==
    Join([team |-> [id |-> t.id, bus |-> t.bus]],
      Join(IF t.engines = <<>> THEN << >>
           ELSE [persistent_engines |-> [i \in DOMAIN t.engines |-> WriteEngine(t.engines[i])]],
           IF t.pools = <<>> THEN << >>
           ELSE [subagent_pools |-> [i \in DOMAIN t.pools |-> WritePool(t.pools[i])]]))

\* filter_map(|s| s.as_str()): the entries that are strings, in order.
Strings(seq) ==
    LET kept[k \in 0 .. Len(seq)] ==
          IF k = 0 THEN <<>>
          ELSE IF seq[k] \in Ambiguous THEN kept[k - 1] ELSE Append(kept[k - 1], seq[k])
    IN  kept[Len(seq)]

ReadEngine(m) ==
    EngineSpec(AsStr(m, "id", ""), AsStr(m, "config", ""),
               Strings(Get(m, "auto_subscribe", <<>>)))

ReadPool(m) ==
    PoolSpec(AsStr(m, "id", ""), AsStr(m, "config", ""), Get(m, "size", 1),
             Get(m, "max_queue_wait_ms", None))

FromYaml(y) ==
    LET section == Get(y, "team", << >>)
        engines == Get(y, "persistent_engines", <<>>)
        pools   == Get(y, "subagent_pools", <<>>)
    IN  [id |-> AsStr(section, "id", "default"), bus |-> AsStr(section, "bus", "shared"),
         description |-> Get(section, "description", None),
         engines |-> [i \in DOMAIN engines |-> ReadEngine(engines[i])],
         pools |-> [i \in DOMAIN pools |-> ReadPool(pools[i])]]

-----------------------------------------------------------------------------
(* agent.yaml *)

ParsePermission(word) ==
    CASE word \in {"ask", "Ask"} -> "ask" [] word \in {"deny", "Deny"} -> "deny"
      [] OTHER -> "allow"

\* A tools: entry is a name, a mapping with a name, or dropped.
ToolOf(entry) ==
    CASE entry.is = "string" -> <<[name |-> entry.name, permission |-> "allow"]>>
      [] entry.is = "mapping" /\ Has(entry, "name") ->
           <<[name |-> entry.name,
              permission |-> ParsePermission(Get(entry, "permission", "allow"))]>>
      [] OTHER -> << >>

\* A resources: entry needs a name under either key; its type defaults.
ResourceOf(entry) ==
    IF ~Has(entry, "resource_name") /\ ~Has(entry, "name") THEN << >>
    ELSE <<[name |-> Get(entry, "resource_name", Get(entry, "name", "")),
            type |-> Get(entry, "node_type", Get(entry, "type", "mcp"))]>>

Collect(seq, Of(_)) == FlattenSeq([i \in DOMAIN seq |-> Of(seq[i])])

\* The prompt is inline, in a file that must be readable, or the default.
PromptOf(a) ==
    IF Has(a, "system_prompt") THEN a["system_prompt"]
    ELSE Get(a, "system_prompt_file", "default")

ParseAgentYaml(doc) ==
    IF ~Has(doc, "agent") \/ ~Has(Get(doc, "agent", << >>), "model") THEN Error
    ELSE LET a == doc["agent"]
             m == a["model"]
         IN  IF PromptOf(a) = "unreadable" THEN Error
             ELSE [provider |-> Get(m, "provider", "deepseek"),
                   model |-> Get(m, "model_name", "deepseek-v4-flash"),
                   thinking |-> Get(m, "thinking_enabled", FALSE),
                   prompt |-> PromptOf(a),
                   max_turns |-> Get(a, "max_turns", None),
                   tools |-> Collect(Get(a, "tools", <<>>), ToolOf),
                   resources |-> Collect(Get(a, "resources", <<>>), ResourceOf)]

\* EngineConfig::default() with the file's max_turns: a file gives no routes.
BuildAgentConfig(f) ==
    IF f = Error THEN f
    ELSE [provider |-> f.provider, model |-> f.model, thinking |-> f.thinking,
          prompt |-> f.prompt, tools |-> f.tools, resources |-> f.resources,
          max_turns |-> IF f.max_turns = None THEN 10 ELSE f.max_turns,
          routes |-> {}]

\* AgentConfig(model=ModelDecl(...), routes=...) in Python: of the ModelDecl
\* the provider, name, endpoint and key survive; there are no tools.
PyAgentConfig(decl, turns, routes) ==
    [provider |-> decl.provider, model |-> decl.model, thinking |-> FALSE,
     prompt |-> "default", tools |-> <<>>, resources |-> <<>>,
     max_turns |-> IF turns = None THEN 10 ELSE turns, routes |-> routes]

-----------------------------------------------------------------------------
(* The program *)

Init == team = None /\ file = None /\ saved = None /\ agent = None

New ==
    /\ team = None
    /\ \E id, bus \in Names : team' = TeamConfig(id, bus)
    /\ UNCHANGED <<file, saved, agent>>

SetDescription ==
    /\ team # None
    /\ team' = [team EXCEPT !.description = "text"]
    /\ UNCHANGED <<file, saved, agent>>

AddPersistentEngine ==
    /\ team # None /\ Len(team.engines) < MaxRoster
    /\ \E id \in Names, auto \in AutoLists :
         team' = [team EXCEPT !.engines = Append(@, EngineSpec(id, "agent.yaml", auto))]
    /\ UNCHANGED <<file, saved, agent>>

AddSubagentPool ==
    /\ team # None /\ Len(team.pools) < MaxRoster
    /\ \E id \in Names, size \in {0, 1}, wait \in Waits \cup {None} :
         team' = [team EXCEPT !.pools = Append(@, PoolSpec(id, "agent.yaml", size, wait))]
    /\ UNCHANGED <<file, saved, agent>>

ToYaml ==
    /\ team # None
    /\ file' = Yaml(team) /\ saved' = team
    /\ UNCHANGED <<team, agent>>

Load ==
    /\ file # None
    /\ team' = FromYaml(file)
    /\ UNCHANGED <<file, saved, agent>>

LoadAgent ==
    /\ \E doc \in AgentFiles : agent' = BuildAgentConfig(ParseAgentYaml(doc))
    /\ UNCHANGED <<team, file, saved>>

NewAgent ==
    /\ \E thinking \in BOOLEAN, routes \in {{}, {"permission_request"}} :
         agent' = PyAgentConfig([provider |-> "p", model |-> "m", thinking |-> thinking],
                                None, routes)
    /\ UNCHANGED <<team, file, saved>>

Next ==
    \/ New \/ SetDescription \/ AddPersistentEngine \/ AddSubagentPool \/ ToYaml \/ Load
    \/ LoadAgent \/ NewAgent

Spec == Init /\ [][Next]_vars

-----------------------------------------------------------------------------
(* Properties *)

Texts(t) ==
    {t.id, t.bus} \cup {t.engines[i].id : i \in DOMAIN t.engines}
      \cup {t.pools[i].id : i \in DOMAIN t.pools}
      \cup UNION {Range(t.engines[i].auto) : i \in DOMAIN t.engines}

\* What a program adds to a roster survives to_yaml and from_yaml, in order
\* and with every optional field, when no name in it looks like another YAML
\* scalar (TeamConfig::to_yaml, from_yaml).
RosterRoundTrips ==
    file # None /\ Texts(saved) \cap Ambiguous = {} =>
        FromYaml(file) = [saved EXCEPT !.description = None]

\* The same with the description, which to_yaml drops even when it is set.
DescriptionRoundTrips ==
    file # None /\ Texts(saved) \cap Ambiguous = {} => FromYaml(file) = saved

\* The same for every name.
AnyNameRoundTrips == file # None => FromYaml(file) = [saved EXCEPT !.description = None]

\* An agent with an ask-mode tool listens for permission_response.
AskToolsHaveRoute ==
    agent \in {None, Error} \/
        ((\E i \in DOMAIN agent.tools : agent.tools[i].permission = "ask")
            => "permission_request" \in agent.routes)
=============================================================================
