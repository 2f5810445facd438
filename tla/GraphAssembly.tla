---------------------------- MODULE GraphAssembly ----------------------------
(***************************************************************************)
(* build_graph of internal/graph/builder/graph.py, on a request's list of  *)
(* agent configurations: which agents get into the graph, and when the     *)
(* graph cannot be built at all.                                           *)
(*                                                                         *)
(* The first configuration marked primary becomes the supervisor; the      *)
(* other primary ones are ignored.  build_subgraph goes through the rest,  *)
(* leaving out the disabled agents and those whose construction raises;    *)
(* then the nodes are added, and adding a node whose name is taken raises. *)
(* The two loops keep their place in their list as a position.             *)
(*                                                                         *)
(* A name is what _normalize_agent_name makes of it.  A model is the       *)
(* provider that chat_model.py recognises in it, or one it does not know.  *)
(***************************************************************************)
EXTENDS Integers, Sequences, FiniteSets

CONSTANTS
    Customs,        \* names of agents that are not built in
    Providers,      \* providers that chat_model.py recognises
    Unknown,        \* any other model
    ApiKeys,        \* providers for which the environment has an API key
    NoConfig,       \* no configuration
    MaxConfigs      \* bound on the agents of a request

\* INTERNAL_AGENT, with the node name (SANITIZED_NAME) of each agent in it.
INTERNAL_AGENT == [primary_agent |-> "supervisor", game_generator |-> "game_generator"]
BuiltIns == DOMAIN INTERNAL_AGENT
Supervisor == INTERNAL_AGENT.primary_agent

ASSUME AssemblyAssumption ==
    /\ ApiKeys \subseteq Providers
    /\ Unknown \notin Providers
    /\ Customs \cap BuiltIns = {}
    /\ MaxConfigs \in Nat

AgentConfig == [name : BuiltIns \cup Customs, model : Providers \cup {Unknown},
                is_enabled : BOOLEAN, is_primary : BOOLEAN]
Requests == UNION {[1 .. n -> AgentConfig] : n \in 0 .. MaxConfigs}

VARIABLES
    agent_configs,  \* the request's list
    at,             \* the step that build_graph is at
    primary,        \* primary_agent_config
    next,           \* position of the configuration build_subgraph comes to
    agents,         \* names of the agents built so far, in their order
    added,          \* how many of them have become nodes
    nodes           \* names of the nodes added so far

assemblyVars == <<agent_configs, at, primary, next, agents, added, nodes>>

Stages == {"begin", "subgraph", "lead", "nodes", "compiled", "failed"}

\* _construct_llm_model: a model of a known provider whose key is there.
Supported(config) == config.model \in ApiKeys

AssemblyInit ==
    /\ agent_configs \in Requests
    /\ at = "begin"
    /\ primary = NoConfig
    /\ next = 1 /\ agents = <<>>
    /\ added = 0 /\ nodes = {}

NoPrimary ==
    /\ at = "begin"
    /\ \A i \in DOMAIN agent_configs : ~agent_configs[i].is_primary
    /\ at' = "failed"
    /\ UNCHANGED <<agent_configs, primary, next, agents, added, nodes>>

\* A bug to be caught: the last primary configuration leads, not the first.
MutBegin ==
    /\ at = "begin"
    /\ \E i \in DOMAIN agent_configs :
        /\ agent_configs[i].is_primary
        /\ \A j \in DOMAIN agent_configs : agent_configs[j].is_primary => j <= i
        /\ primary' = agent_configs[i]
    /\ at' = "subgraph"
    /\ UNCHANGED <<agent_configs, next, agents, added, nodes>>

Begin ==
    /\ at = "begin"
    /\ \E i \in DOMAIN agent_configs :
        /\ agent_configs[i].is_primary
        /\ \A j \in 1 .. i - 1 : ~agent_configs[j].is_primary
        /\ primary' = agent_configs[i]
    /\ at' = "subgraph"
    /\ UNCHANGED <<agent_configs, next, agents, added, nodes>>

-----------------------------------------------------------------------------
(* build_subgraph.                                                         *)

\* The configuration that the loop comes to.
agent_config == agent_configs[next]

\* It is passed over, and the loop goes on.
Pass ==
    /\ at = "subgraph" /\ next <= Len(agent_configs)
    /\ next' = next + 1
    /\ UNCHANGED <<agent_configs, at, primary, agents, added, nodes>>

\* build_graph has left the primary configurations out of the list.
SkipPrimary == Pass /\ agent_config.is_primary

\* A configuration that build_subgraph tries to build.
Tried == ~agent_config.is_primary /\ agent_config.is_enabled

SkipDisabled == Pass /\ ~agent_config.is_primary /\ ~agent_config.is_enabled

\* A bug to be caught: the agent is named as it is configured.
MutAddInternal ==
    /\ at = "subgraph" /\ next <= Len(agent_configs)
    /\ Tried /\ agent_config.name \in BuiltIns /\ Supported(agent_config)
    /\ agents' = Append(agents, agent_config.name)
    /\ next' = next + 1
    /\ UNCHANGED <<agent_configs, at, primary, added, nodes>>

AddInternal ==
    /\ at = "subgraph" /\ next <= Len(agent_configs)
    /\ Tried /\ agent_config.name \in BuiltIns /\ Supported(agent_config)
    /\ agents' = Append(agents, INTERNAL_AGENT[agent_config.name])
    /\ next' = next + 1
    /\ UNCHANGED <<agent_configs, at, primary, added, nodes>>

DropInternal == Pass /\ Tried /\ agent_config.name \in BuiltIns /\ ~Supported(agent_config)

\* build_agent passes is_primary=False to _construct_llm_model, which does not
\* have that parameter: the call raises, whatever the configuration.
DropCustom == Pass /\ Tried /\ agent_config.name \in Customs

SubgraphEnds ==
    /\ at = "subgraph" /\ next > Len(agent_configs)
    /\ at' = "lead"
    /\ UNCHANGED <<agent_configs, primary, next, agents, added, nodes>>

-----------------------------------------------------------------------------
(* The primary agent, and the graph.                                       *)

LeadFails ==
    /\ at = "lead"
    /\ ~Supported(primary)
    /\ at' = "failed"
    /\ UNCHANGED <<agent_configs, primary, next, agents, added, nodes>>

\* build_primary_agent does not look at is_enabled.
Lead ==
    /\ at = "lead"
    /\ Supported(primary)
    /\ nodes' = {Supervisor}
    /\ at' = "nodes"
    /\ UNCHANGED <<agent_configs, primary, next, agents, added>>

\* The name of the agent that the second loop comes to.
Name == agents[added + 1]

AddNode ==
    /\ at = "nodes" /\ added < Len(agents)
    /\ Name \notin nodes
    /\ nodes' = nodes \cup {Name}
    /\ added' = added + 1
    /\ UNCHANGED <<agent_configs, at, primary, next, agents>>

\* add_node raises ValueError: the name is taken.
NameTaken ==
    /\ at = "nodes" /\ added < Len(agents)
    /\ Name \in nodes
    /\ at' = "failed"
    /\ UNCHANGED <<agent_configs, primary, next, agents, added, nodes>>

Compile ==
    /\ at = "nodes" /\ added = Len(agents)
    /\ at' = "compiled"
    /\ UNCHANGED <<agent_configs, primary, next, agents, added, nodes>>

AssemblyNext ==
    \/ NoPrimary \/ Begin
    \/ SkipPrimary \/ SkipDisabled \/ AddInternal \/ DropInternal \/ DropCustom
    \/ SubgraphEnds \/ LeadFails \/ Lead \/ AddNode \/ NameTaken \/ Compile

AssemblySpec == AssemblyInit /\ [][AssemblyNext]_assemblyVars

-----------------------------------------------------------------------------

\* The builder's state is well formed: the loops stay within their lists, and only
\* names of nodes have been collected.
AssemblyTypeOK ==
    /\ agent_configs \in Requests
    /\ at \in Stages
    /\ primary \in AgentConfig \cup {NoConfig}
    /\ next \in 1 .. Len(agent_configs) + 1
    /\ agents \in Seq({INTERNAL_AGENT[b] : b \in BuiltIns})
    /\ added \in 0 .. Len(agents)
    /\ nodes \subseteq {INTERNAL_AGENT[b] : b \in BuiltIns}

\* What build_graph answers, over the list as a whole and without its loops.
Primaries == {i \in DOMAIN agent_configs : agent_configs[i].is_primary}
Joining == {i \in DOMAIN agent_configs :
               /\ ~agent_configs[i].is_primary
               /\ agent_configs[i].is_enabled
               /\ agent_configs[i].name \in BuiltIns
               /\ Supported(agent_configs[i])}
Buildable ==
    /\ \E i \in Primaries :
        /\ \A j \in Primaries : i <= j
        /\ Supported(agent_configs[i])
    /\ \A i \in Joining : agent_configs[i].name # "primary_agent"
    /\ \A i, j \in Joining : agent_configs[i].name = agent_configs[j].name => i = j

\* build_graph raises exactly if the first primary configuration is missing or
\* has an unsupported model, or an agent that joins wants a name that is taken;
\* otherwise the graph has the supervisor and every agent that joins, and no
\* other: what one agent does to the list does not change what another gets.
AssemblyAsDefined ==
    /\ at = "failed" => ~Buildable
    /\ at = "compiled" =>
        /\ Buildable
        /\ nodes = {Supervisor} \cup {agent_configs[i].name : i \in Joining}

=============================================================================
