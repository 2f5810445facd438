-------------------------- MODULE GraphBuilder_proofs --------------------------
(***************************************************************************)
(* Proofs about GraphBuilder for any number of callers, configurations and *)
(* versions of the prompts, and about GraphAssembly, which its step Build  *)
(* stands for, on requests of any length.                                  *)
(***************************************************************************)
EXTENDS GraphBuilder, GraphAssembly, SequenceTheorems, TLAPS

Locked == {"prompts", "lookup", "build", "put", "again"}

StateOK ==
    /\ current \in Prompts
    /\ holder \in Callers \cup {None}
    /\ cache \in [Keys -> Graph \cup {None, Failure}]

(* The caller that is past the lock is the one that holds it.              *)
HolderOK == \A c \in Callers : call[c].at \in Locked <=> holder = c

(* What is kept under a key was compiled from that key.                    *)
CacheKeyed ==
    \A k \in Keys : cache[k] \in Graph =>
        k = <<cache[k].config.hashed, cache[k].prompts>>

(* A call that compiles has prompts, and what it has in hand is its own    *)
(* graph or an exception object; what it answers fits its own key.         *)
CallOK(r) ==
    /\ r.at \in {"build", "put"} => r.prompts \in Prompts
    /\ r.at = "put" =>
          r.graph \in {[config |-> r.config, prompts |-> r.prompts], Failure}
    /\ r.at = "idle" /\ r.graph \in Graph =>
          /\ r.graph.prompts = r.prompts
          /\ r.graph.config.hashed = r.config.hashed

Good == {r \in Calls : CallOK(r)}
CallsOK == call \in [Callers -> Good]

IInv == StateOK /\ HolderOK /\ CacheKeyed /\ CompilesOnlyMissing /\ CallsOK

-----------------------------------------------------------------------------
(* The local variables of a call.                                          *)

LEMMA InHand ==
    ASSUME CallsOK, NEW c \in Callers
    PROVE  /\ call[c] \in Good /\ call[c] \in Calls /\ CallOK(call[c])
           /\ call[c].config \in Config
           /\ call[c].prompts \in Prompts \cup {Broken}
           /\ call[c].graph \in Answers
           /\ MyGraph(c) \in Graph
<1>1. call[c] \in Calls /\ CallOK(call[c]) /\ call[c] \in Good
  BY DEF CallsOK, Good
<1>2. /\ call[c].config \in Config /\ call[c].prompts \in Prompts \cup {Broken}
      /\ call[c].graph \in Answers
  BY <1>1 DEF Calls
<1> QED
  BY <1>1, <1>2 DEF MyGraph, Graph

LEMMA KeyInHand ==
    ASSUME CallsOK, NEW c \in Callers, call[c].prompts # Broken
    PROVE  MyKey(c) \in Keys
<1>1. call[c].config \in Config /\ call[c].prompts \in Prompts
  BY InHand
<1>2. call[c].config.hashed \in Hashed
  BY <1>1 DEF Config
<1> QED
  BY <1>1, <1>2 DEF MyKey, Key, Keys

LEMMA BecomesGood ==
    ASSUME CallsOK, NEW c \in Callers, NEW r \in Good, Becomes(c, r)
    PROVE  /\ CallsOK'
           /\ call'[c] = r
           /\ \A b \in Callers \ {c} : call'[b] = call[b]
  BY DEF CallsOK, Becomes

(* A step of c that leaves the cache alone and the lock with c or gives it *)
(* back keeps the invariant.                                               *)
LEMMA OwnStep ==
    ASSUME IInv, NEW c \in Callers, NEW r \in Good, Becomes(c, r),
           UNCHANGED <<current, cache>>,
           \/ r.at \in Locked /\ holder' = c /\ holder \in {c, None}
           \/ r.at \notin Locked /\ holder' = None /\ holder = c
           \/ r.at \notin Locked /\ holder # c /\ UNCHANGED holder,
           r.at \in {"build", "put"} => cache[Key(r.config, r.prompts)] = None
    PROVE  IInv'
<1>1. CallsOK' /\ call'[c] = r /\ \A b \in Callers \ {c} : call'[b] = call[b]
  BY BecomesGood DEF IInv
<1>2. StateOK'
  BY DEF IInv, StateOK
<1>3. HolderOK'
  BY <1>1, BuilderAssumption DEF IInv, HolderOK
<1>4. CacheKeyed'
  BY DEF IInv, CacheKeyed
<1>5. CompilesOnlyMissing'
  BY <1>1 DEF IInv, CompilesOnlyMissing, MyKey
<1> QED
  BY <1>1, <1>2, <1>3, <1>4, <1>5 DEF IInv

-----------------------------------------------------------------------------
(* The invariant.                                                          *)

LEMMA Surroundings ==
    ASSUME IInv, Publish \/ Clear \/ \E k \in Keys : Expire(k)
    PROVE  IInv'
<1>1. StateOK'
  BY BuilderAssumption
  DEF IInv, StateOK, Publish, Clear, Expire, Prompts
<1>2. \A k \in Keys : cache'[k] = cache[k] \/ cache'[k] = None
  BY DEF IInv, StateOK, Publish, Clear, Expire
<1>3. UNCHANGED <<holder, call>>
  BY DEF Publish, Clear, Expire
<1>4. HolderOK' /\ CallsOK'
  BY <1>3 DEF IInv, HolderOK, CallsOK
<1>5. CacheKeyed'
  BY <1>2, BuilderAssumption DEF IInv, CacheKeyed
<1>6. CompilesOnlyMissing'
  <2> SUFFICES ASSUME NEW c \in Callers, call[c].at \in {"build", "put"}
               PROVE  cache'[MyKey(c)] = None
    BY <1>3 DEF CompilesOnlyMissing, MyKey
  <2>1. call[c].prompts \in Prompts
    BY InHand DEF IInv, CallOK
  <2>2. MyKey(c) \in Keys
    BY <2>1, KeyInHand DEF IInv, Prompts, Broken
  <2> QED
    BY <1>2, <2>2 DEF IInv, CompilesOnlyMissing
<1> QED
  BY <1>1, <1>4, <1>5, <1>6 DEF IInv

LEMMA StepKeeps ==
    ASSUME IInv, NEW c \in Callers, Step(c)
    PROVE  IInv'
<1>0. /\ call[c] \in Calls /\ CallOK(call[c]) /\ CallsOK /\ MyGraph(c) \in Graph
      /\ call[c].at \in Locked <=> holder = c
      /\ c # None /\ Raised \notin Graph /\ Failure \notin Graph
  BY InHand, BuilderAssumption DEF IInv, HolderOK
<1>1. CASE Lock(c)
  <2> DEFINE r == [call[c] EXCEPT !.at = "prompts"]
  <2>1. r \in Good /\ r.at = "prompts"
    BY <1>0 DEF Good, CallOK, Calls, Locations
  <2>2. Becomes(c, r) /\ holder = None /\ holder' = c /\ UNCHANGED <<current, cache>>
    BY <1>1 DEF Lock, Goto
  <2> HIDE DEF r
  <2> QED
    BY <2>1, <2>2, OwnStep DEF Locked
<1>2. CASE LoadPrompts(c)
  <2> DEFINE r == [call[c] EXCEPT !.at = "lookup", !.prompts = current]
  <2>1. r \in Good /\ r.at = "lookup"
    BY <1>0 DEF Good, CallOK, Calls, Locations, IInv, StateOK
  <2>2. Becomes(c, r) /\ UNCHANGED <<holder, current, cache>> /\ holder = c
    BY <1>0, <1>2 DEF LoadPrompts, At, Locked
  <2> HIDE DEF r
  <2> QED
    BY <2>1, <2>2, OwnStep DEF Locked
<1>3. CASE LoadBroken(c)
  <2> DEFINE r == [call[c] EXCEPT !.at = "lookup"]
  <2>1. r \in Good /\ r.at = "lookup"
    BY <1>0 DEF Good, CallOK, Calls, Locations
  <2>2. Becomes(c, r) /\ UNCHANGED <<holder, current, cache>> /\ holder = c
    BY <1>0, <1>3 DEF LoadBroken, At, Locked, Goto
  <2> HIDE DEF r
  <2> QED
    BY <2>1, <2>2, OwnStep DEF Locked
<1>4. ASSUME NEW g \in Answers, Answer(c, g), UNCHANGED <<current, cache>>,
             call[c].at \in Locked,
             g \in Graph => /\ g.prompts = call[c].prompts
                            /\ g.config.hashed = call[c].config.hashed
      PROVE  IInv'
  <2> DEFINE r == [call[c] EXCEPT !.at = "idle", !.graph = g]
  <2>1. r \in Calls /\ r.at = "idle" /\ r.graph = g
        /\ r.prompts = call[c].prompts /\ r.config = call[c].config
    BY <1>0 DEF Calls, Locations
  <2>2. Becomes(c, r) /\ holder' = None /\ holder = c
    BY <1>0, <1>4 DEF Answer
  <2> HIDE DEF r
  <2>3. r \in Good
    BY <1>4, <2>1 DEF Good, CallOK
  <2> QED
    BY <1>4, <2>1, <2>2, <2>3, OwnStep DEF Locked
<1>5. CASE LoadFails(c)
  BY <1>0, <1>4, <1>5 DEF LoadFails, At, Locked, Answers
<1>6. CASE Lookup(c)
  <2>1. CASE call[c].prompts = Broken
    <3> DEFINE r == [call[c] EXCEPT !.at = "again"]
    <3>1. r \in Good /\ r.at = "again"
      BY <1>0 DEF Good, CallOK, Calls, Locations
    <3>2. Becomes(c, r) /\ UNCHANGED <<holder, current, cache>> /\ holder = c
      BY <1>0, <1>6, <2>1 DEF Lookup, At, Locked, Goto
    <3> HIDE DEF r
    <3> QED
      BY <3>1, <3>2, OwnStep DEF Locked
  <2>2. CASE call[c].prompts # Broken /\ cache[MyKey(c)] # None
    <3> DEFINE g == cache[MyKey(c)]
    <3>1. MyKey(c) \in Keys
      BY <1>0, <2>2, KeyInHand
    <3>2. g \in Answers
      BY <3>1 DEF IInv, StateOK, Answers
    <3>3. g \in Graph => /\ g.prompts = call[c].prompts
                         /\ g.config.hashed = call[c].config.hashed
      BY <3>1 DEF IInv, CacheKeyed, MyKey, Key
    <3>4. Answer(c, g) /\ UNCHANGED <<current, cache>> /\ call[c].at \in Locked
      BY <1>6, <2>2 DEF Lookup, At, Locked
    <3> QED
      BY <1>4, <3>2, <3>3, <3>4
  <2>3. CASE call[c].prompts # Broken /\ cache[MyKey(c)] = None
    <3> DEFINE r == [call[c] EXCEPT !.at = "build"]
    <3>1. r \in Calls /\ r.at = "build" /\ r.prompts = call[c].prompts
          /\ r.config = call[c].config
      BY <1>0 DEF Calls, Locations
    <3>2. call[c].prompts \in Prompts
      BY <1>0, <2>3, InHand
    <3>3. Becomes(c, r) /\ UNCHANGED <<holder, current, cache>> /\ holder = c
      BY <1>0, <1>6, <2>3 DEF Lookup, At, Locked, Goto
    <3> HIDE DEF r
    <3>4. r \in Good
      BY <3>1, <3>2 DEF Good, CallOK
    <3>5. cache[Key(r.config, r.prompts)] = None
      BY <2>3, <3>1 DEF MyKey
    <3> QED
      BY <3>1, <3>3, <3>4, <3>5, OwnStep DEF Locked
  <2> QED
    BY <2>1, <2>2, <2>3
<1>7. CASE Build(c)
  <2>1. PICK g \in {MyGraph(c), Failure} :
           Becomes(c, [call[c] EXCEPT !.at = "put", !.graph = g])
    BY <1>7 DEF Build
  <2> DEFINE r == [call[c] EXCEPT !.at = "put", !.graph = g]
  <2>2. g \in Answers
    BY <1>0, <2>1 DEF Answers
  <2>3. r \in Calls /\ r.at = "put" /\ r.graph = g
        /\ r.prompts = call[c].prompts /\ r.config = call[c].config
    BY <1>0, <2>2 DEF Calls, Locations
  <2>4. call[c].prompts \in Prompts /\ cache[MyKey(c)] = None
    BY <1>0, <1>7 DEF Build, At, CallOK, IInv, CompilesOnlyMissing
  <2>5. UNCHANGED <<holder, current, cache>> /\ holder = c
    BY <1>0, <1>7 DEF Build, At, Locked
  <2>6. Becomes(c, r)
    BY <2>1
  <2> HIDE DEF r
  <2>7. r \in Good
    BY <2>1, <2>3, <2>4 DEF Good, CallOK, MyGraph
  <2>8. cache[Key(r.config, r.prompts)] = None
    BY <2>3, <2>4 DEF MyKey
  <2> QED
    BY <2>3, <2>5, <2>6, <2>7, <2>8, OwnStep DEF Locked
<1>8. CASE BuildFails(c)
  <2> DEFINE r == [call[c] EXCEPT !.at = "again"]
  <2>1. r \in Good /\ r.at = "again"
    BY <1>0 DEF Good, CallOK, Calls, Locations
  <2>2. Becomes(c, r) /\ UNCHANGED <<holder, current, cache>> /\ holder = c
    BY <1>0, <1>8 DEF BuildFails, At, Locked, Goto
  <2> HIDE DEF r
  <2> QED
    BY <2>1, <2>2, OwnStep DEF Locked
<1>9. CASE BuildAgain(c)
  <2>1. PICK g \in {MyGraph(c), Failure, Raised} : Answer(c, g)
    BY <1>9 DEF BuildAgain
  <2>2. g \in Answers
    BY <1>0, <2>1 DEF Answers
  <2>3. g \in Graph => /\ g.prompts = call[c].prompts
                       /\ g.config.hashed = call[c].config.hashed
    BY <1>0, <2>1 DEF MyGraph
  <2> QED
    BY <1>4, <1>9, <2>1, <2>2, <2>3 DEF BuildAgain, At, Locked
<1>10. CASE Put(c)
  <2> DEFINE g == call[c].graph
             k == MyKey(c)
             r == [call[c] EXCEPT !.at = "idle", !.graph = g]
  <2>1. /\ call[c].at = "put" /\ g \in {MyGraph(c), Failure}
        /\ call[c].prompts \in Prompts
    BY <1>0, <1>10 DEF Put, At, CallOK, MyGraph
  <2>2. k \in Keys
    BY <1>0, <2>1, KeyInHand DEF Prompts, Broken
  <2>3. /\ cache' = [cache EXCEPT ![k] = g] /\ UNCHANGED current
        /\ Becomes(c, r) /\ holder' = None /\ holder = c
    BY <1>0, <1>10, <2>1 DEF Put, Answer, Locked
  <2>4. StateOK'
    BY <1>0, <2>1, <2>2, <2>3 DEF IInv, StateOK
  <2>5. CacheKeyed'
    <3>1. g \in Graph => k = <<g.config.hashed, g.prompts>>
      BY <1>0, <2>1 DEF MyGraph, MyKey, Key
    <3>2. cache'[k] = g /\ \A j \in Keys \ {k} : cache'[j] = cache[j]
      BY <2>2, <2>3 DEF IInv, StateOK
    <3> QED
      BY <3>1, <3>2 DEF IInv, CacheKeyed
  <2>6. r \in Calls /\ r.at = "idle" /\ r.graph = g
        /\ r.prompts = call[c].prompts /\ r.config = call[c].config
    BY <1>0 DEF Calls, Locations
  <2>7. g \in Graph => /\ g.prompts = call[c].prompts
                       /\ g.config.hashed = call[c].config.hashed
    BY <1>0, <2>1 DEF MyGraph
  <2> HIDE DEF r, g
  <2>8. r \in Good
    BY <2>6, <2>7 DEF Good, CallOK
  <2>9. CallsOK' /\ call'[c] = r /\ \A b \in Callers \ {c} : call'[b] = call[b]
    BY <1>0, <2>3, <2>8, BecomesGood
  <2>10. HolderOK'
    BY <1>0, <2>3, <2>6, <2>9, BuilderAssumption DEF IInv, HolderOK, Locked
  <2>11. CompilesOnlyMissing'
    <3>1. \A b \in Callers : call'[b].at \notin {"build", "put"}
      BY <2>3, <2>10, BuilderAssumption DEF HolderOK, Locked
    <3> QED
      BY <3>1 DEF CompilesOnlyMissing
  <2> QED
    BY <2>4, <2>5, <2>9, <2>10, <2>11 DEF IInv
<1> QED
  BY <1>1, <1>2, <1>3, <1>5, <1>6, <1>7, <1>8, <1>9, <1>10 DEF Step

LEMMA CallKeeps ==
    ASSUME IInv, NEW c \in Callers, NEW config \in Config, Call(c, config)
    PROVE  IInv'
<1> DEFINE r == [at |-> "lock", config |-> config, prompts |-> Broken,
                 graph |-> None]
<1>1. r \in Good /\ r.at = "lock"
  BY DEF Good, CallOK, Calls, Locations, Answers
<1>2. Becomes(c, r) /\ UNCHANGED <<holder, current, cache>> /\ holder # c
  BY DEF Call, At, IInv, HolderOK, Locked
<1> HIDE DEF r
<1> QED
  BY <1>1, <1>2, OwnStep DEF Locked

THEOREM Inductive == Spec => []IInv
<1>1. Init => IInv
  <2> SUFFICES ASSUME Init PROVE IInv
    OBVIOUS
  <2>1. StateOK
    BY BuilderAssumption DEF Init, StateOK, Prompts
  <2>2. \A c \in Callers : call[c] \in Calls /\ call[c].at = "idle"
                           /\ call[c].graph = None
    BY DEF Init
  <2>3. HolderOK /\ CompilesOnlyMissing
    BY <2>2, BuilderAssumption DEF Init, HolderOK, Locked, CompilesOnlyMissing
  <2>4. CacheKeyed
    BY BuilderAssumption DEF Init, CacheKeyed
  <2>5. CallsOK
    <3>1. \A c \in Callers : call[c] \in Good
      BY <2>2, BuilderAssumption DEF Good, CallOK
    <3> QED
      BY <3>1 DEF Init, CallsOK
  <2> QED
    BY <2>1, <2>3, <2>4, <2>5 DEF IInv
<1>2. IInv /\ [Next]_vars => IInv'
  <2> SUFFICES ASSUME IInv, [Next]_vars PROVE IInv'
    OBVIOUS
  <2>1. CASE UNCHANGED vars
    BY <2>1
    DEF vars, IInv, StateOK, HolderOK, CacheKeyed, CompilesOnlyMissing, CallsOK,
        MyKey
  <2> QED
    BY <2>1, Surroundings, StepKeeps, CallKeeps DEF Next
<1> QED
  BY <1>1, <1>2, PTL DEF Spec

-----------------------------------------------------------------------------
(* The properties.                                                         *)

(* Every variable keeps its type: the cache holds what a build answered.   *)
THEOREM Typing == Spec => []TypeOK
<1>1. IInv => TypeOK
  BY DEF IInv, StateOK, CallsOK, Good, TypeOK
<1> QED
  BY <1>1, Inductive, PTL

(* For any number of callers, a graph is compiled only while the cache has *)
(* none for its key: one holder of the compilation lock at a time is       *)
(* between the lookup and the put (graph.py:218-231, 248).                 *)
THEOREM OneCompilation == Spec => []CompilesOnlyMissing
<1>1. IInv => CompilesOnlyMissing
  BY DEF IInv
<1> QED
  BY <1>1, Inductive, PTL

(* A graph that is answered was compiled from the prompts the call loaded  *)
(* and from the hashed part of its configuration: a graph is only ever     *)
(* kept under its own key (graph.py:218-233).                              *)
THEOREM CurrentPrompts == Spec => []AnswersWhatWasAsked
<1>1. IInv => AnswersWhatWasAsked
  BY InHand DEF IInv, AnswersWhatWasAsked, CallOK, At
<1> QED
  BY <1>1, Inductive, PTL

-----------------------------------------------------------------------------
(* build_graph, on a request of its own.                                   *)

NodeNames == {INTERNAL_AGENT[b] : b \in BuiltIns}

\* The two agents that are built in, and the names of their nodes.
LEMMA Names ==
    /\ BuiltIns = {"primary_agent", "game_generator"}
    /\ INTERNAL_AGENT["primary_agent"] = Supervisor
    /\ INTERNAL_AGENT["game_generator"] = "game_generator"
    /\ Supervisor # "game_generator"
    /\ NodeNames = {Supervisor, "game_generator"}
<1>1. /\ BuiltIns = {"primary_agent", "game_generator"}
      /\ INTERNAL_AGENT["primary_agent"] = Supervisor
      /\ INTERNAL_AGENT["game_generator"] = "game_generator"
      /\ Supervisor # "game_generator"
  BY DEF BuiltIns, INTERNAL_AGENT, Supervisor
<1> QED
  BY <1>1 DEF NodeNames

\* A request is a list of configurations.
LEMMA RequestIsList ==
    ASSUME AssemblyTypeOK
    PROVE  /\ agent_configs \in Seq(AgentConfig)
           /\ Len(agent_configs) \in Nat
           /\ DOMAIN agent_configs = 1 .. Len(agent_configs)
           /\ \A i \in DOMAIN agent_configs : agent_configs[i] \in AgentConfig
<1>1. PICK n \in 0 .. MaxConfigs : agent_configs \in [1 .. n -> AgentConfig]
  BY DEF AssemblyTypeOK, Requests
<1>2. n \in Nat
  BY AssemblyAssumption
<1>3. agent_configs \in Seq(AgentConfig)
  BY <1>1, <1>2, IsASeq
<1> QED
  BY <1>3, LenProperties, ElementOfSeq

LEMMA AssemblyTyped ==
    AssemblyTypeOK /\ [AssemblyNext]_assemblyVars => AssemblyTypeOK'
<1> SUFFICES ASSUME AssemblyTypeOK, [AssemblyNext]_assemblyVars
             PROVE  AssemblyTypeOK'
  OBVIOUS
<1>0. /\ Len(agent_configs) \in Nat /\ DOMAIN agent_configs = 1 .. Len(agent_configs)
      /\ \A i \in DOMAIN agent_configs : agent_configs[i] \in AgentConfig
  BY RequestIsList
<1> USE DEF AssemblyTypeOK, Stages
<1>1. CASE UNCHANGED assemblyVars
  BY <1>1 DEF assemblyVars
<1>2. CASE NoPrimary \/ Begin
  BY <1>0, <1>2 DEF NoPrimary, Begin
<1>3. CASE SkipPrimary \/ SkipDisabled \/ DropInternal \/ DropCustom
  BY <1>0, <1>3
     DEF SkipPrimary, SkipDisabled, DropInternal, DropCustom, Pass
<1>4. CASE AddInternal
  <2> DEFINE name == INTERNAL_AGENT[agent_config.name]
  <2>1. agents' = Append(agents, name) /\ name \in NodeNames
    BY <1>4 DEF AddInternal, NodeNames
  <2>2. agents \in Seq(NodeNames)
    BY DEF NodeNames
  <2> HIDE DEF name
  <2>3. agents' \in Seq(NodeNames) /\ Len(agents') = Len(agents) + 1
    BY <2>1, <2>2, AppendProperties
  <2>4. added \in 0 .. Len(agents') /\ Len(agents) \in Nat
    BY <2>2, <2>3, LenProperties
  <2> QED
    BY <1>0, <1>4, <2>3, <2>4 DEF AddInternal, NodeNames
<1>5. CASE SubgraphEnds \/ LeadFails \/ NameTaken \/ Compile
  BY <1>5 DEF SubgraphEnds, LeadFails, NameTaken, Compile
<1>6. CASE Lead
  BY <1>6, Names DEF Lead, NodeNames
<1>7. CASE AddNode
  <2>1. agents \in Seq(NodeNames) /\ added + 1 \in 1 .. Len(agents)
    BY <1>7, LenProperties DEF AddNode, NodeNames
  <2>2. Name \in NodeNames
    BY <2>1, ElementOfSeq DEF Name
  <2> QED
    BY <1>7, <2>1, <2>2 DEF AddNode, NodeNames
<1> QED
  BY <1>1, <1>2, <1>3, <1>4, <1>5, <1>6, <1>7 DEF AssemblyNext

LEMMA AssemblyStartsTyped == AssemblyInit => AssemblyTypeOK
<1> SUFFICES ASSUME AssemblyInit PROVE AssemblyTypeOK
  OBVIOUS
<1>1. PICK n \in 0 .. MaxConfigs : agent_configs \in [1 .. n -> AgentConfig]
  BY DEF AssemblyInit, Requests
<1>2. agent_configs \in Seq(AgentConfig)
  BY <1>1, IsASeq, AssemblyAssumption
<1>3. Len(agent_configs) \in Nat
  BY <1>2, LenProperties
<1>4. agents \in Seq(NodeNames) /\ Len(agents) = 0
  BY EmptySeq DEF AssemblyInit
<1> QED
  BY <1>3, <1>4 DEF AssemblyInit, AssemblyTypeOK, Stages, NodeNames

\* Every variable of build_graph has its type.
THEOREM AssemblyTyping == AssemblySpec => []AssemblyTypeOK
<1>1. AssemblyInit => AssemblyTypeOK
  BY AssemblyStartsTyped
<1> QED
  BY <1>1, AssemblyTyped, PTL DEF AssemblySpec

\* The configurations that join the graph among those that build_subgraph has come to.
Joined == {i \in Joining : i < next}

\* The agents built are theirs, one each.
Built ==
    \E f \in [1 .. Len(agents) -> Joined] :
        /\ \A k, l \in 1 .. Len(agents) : f[k] = f[l] => k = l
        /\ \A i \in Joined : \E k \in 1 .. Len(agents) : f[k] = i
        /\ \A k \in 1 .. Len(agents) :
               agents[k] = INTERNAL_AGENT[agent_configs[f[k]].name]

\* The first primary configuration leads.
Led ==
    at \notin {"begin", "failed"} =>
        \E i \in Primaries : /\ \A j \in Primaries : i <= j
                            /\ primary = agent_configs[i]

\* What has become a node, under a name of its own.
NodesOK ==
    /\ at \in {"begin", "subgraph", "lead"} => added = 0
    /\ at \in {"lead", "nodes", "compiled"} => next = Len(agent_configs) + 1
    /\ at \in {"nodes", "compiled"} =>
          /\ Supported(primary)
          /\ nodes = {Supervisor} \cup {agents[k] : k \in 1 .. added}
          /\ \A k \in 1 .. added : agents[k] # Supervisor
          /\ \A k, l \in 1 .. added : agents[k] = agents[l] => k = l
    /\ at = "compiled" => added = Len(agents)

AInv == /\ AssemblyTypeOK /\ Built /\ Led /\ NodesOK
        /\ at = "failed" => ~Buildable

\* What joins has the name of an agent that is built in.
LEMMA JoiningIsBuiltIn ==
    ASSUME NEW i \in Joining
    PROVE  /\ i \in DOMAIN agent_configs
           /\ agent_configs[i].name \in {"primary_agent", "game_generator"}
           /\ INTERNAL_AGENT[agent_configs[i].name] = Supervisor
                <=> agent_configs[i].name = "primary_agent"
  BY Names DEF Joining

\* A step that leaves the agents, the request and what has joined alone.
LEMMA SameBuilt ==
    ASSUME Built, UNCHANGED <<agent_configs, agents>>, Joined' = Joined
    PROVE  Built'
  BY DEF Built

\* The two halves of the answer do not depend on how far build_graph has come.
LEMMA RequestStays ==
    ASSUME UNCHANGED agent_configs
    PROVE  /\ Joining' = Joining
           /\ Primaries' = Primaries
           /\ Buildable' = Buildable
<1>1. Joining' = Joining /\ Primaries' = Primaries
  BY DEF Joining, Primaries, Supported
<1> QED
  BY <1>1 DEF Buildable, Supported

\* build_subgraph passes over a configuration that does not join.
LEMMA PassKeeps ==
    ASSUME AInv, SkipPrimary \/ SkipDisabled \/ DropInternal \/ DropCustom
    PROVE  Built' /\ Led' /\ NodesOK' /\ at' # "failed"
<1>1. /\ Pass /\ at = "subgraph"
      /\ next \notin Joining
  BY AssemblyAssumption
     DEF SkipPrimary, SkipDisabled, DropInternal, DropCustom, Pass, Tried,
         agent_config, Joining
<1>2. /\ UNCHANGED <<agent_configs, at, primary, agents, added, nodes>>
      /\ next' = next + 1
  BY <1>1 DEF Pass
<1>3. Joining' = Joining /\ Primaries' = Primaries
  BY <1>2, RequestStays
<1>4. Joined' = Joined
  <2>1. next \in Nat /\ Len(agent_configs) \in Nat
        /\ DOMAIN agent_configs = 1 .. Len(agent_configs)
    BY RequestIsList DEF AInv, AssemblyTypeOK
  <2>2. \A i \in Joining : i \in 1 .. Len(agent_configs)
    BY <2>1 DEF Joining
  <2>3. \A i \in Joining : i < next + 1 <=> i < next
    BY <1>1, <2>1, <2>2
  <2> QED
    BY <1>2, <1>3, <2>3 DEF Joined
<1>5. Built'
  BY <1>2, <1>4, SameBuilt DEF AInv
<1>6. Led' /\ NodesOK'
  BY <1>1, <1>2, <1>3 DEF AInv, Led, NodesOK
<1> QED
  BY <1>1, <1>2, <1>5, <1>6

\* An agent that is built joins.
LEMMA AddKeeps ==
    ASSUME AInv, AddInternal
    PROVE  Built' /\ Led' /\ NodesOK' /\ at' # "failed"
<1> DEFINE name == INTERNAL_AGENT[agent_config.name]
           n == Len(agents)
<1>1. /\ at = "subgraph" /\ next \in Joining
      /\ UNCHANGED <<agent_configs, at, primary, added, nodes>>
      /\ next' = next + 1 /\ agents' = Append(agents, name)
      /\ name = INTERNAL_AGENT[agent_configs[next].name]
  <2>1. next \in DOMAIN agent_configs
    BY RequestIsList DEF AInv, AddInternal, AssemblyTypeOK
  <2> QED
    BY <2>1 DEF AddInternal, Tried, agent_config, Joining
<1>2. Joining' = Joining /\ Primaries' = Primaries
  BY <1>1, RequestStays
<1>3. Joined' = Joined \cup {next} /\ next \notin Joined
  <2>1. next \in Nat /\ Len(agent_configs) \in Nat
        /\ DOMAIN agent_configs = 1 .. Len(agent_configs)
    BY RequestIsList DEF AInv, AssemblyTypeOK
  <2>2. \A i \in Joining : i \in 1 .. Len(agent_configs)
    BY <2>1 DEF Joining
  <2>3. \A i \in Joining : i < next + 1 <=> i < next \/ i = next
    BY <2>1, <2>2
  <2>4. ~ (next < next)
    BY <2>1
  <2> QED
    BY <1>1, <1>2, <2>3, <2>4 DEF Joined
<1>4. agents \in Seq(NodeNames) /\ n \in Nat
  BY LenProperties DEF AInv, AssemblyTypeOK, NodeNames
<1> HIDE DEF name
<1>5. /\ Len(agents') = n + 1 /\ agents'[n + 1] = name
      /\ \A k \in 1 .. n : agents'[k] = agents[k]
  <2>1. agents \in Seq(NodeNames \cup {name})
    BY <1>4, SeqMonotonic, NodeNames \subseteq NodeNames \cup {name}
  <2> QED
    BY <1>1, <2>1, AppendProperties
<1>6. PICK f \in [1 .. n -> Joined] :
        /\ \A k, l \in 1 .. n : f[k] = f[l] => k = l
        /\ \A i \in Joined : \E k \in 1 .. n : f[k] = i
        /\ \A k \in 1 .. n :
               agents[k] = INTERNAL_AGENT[agent_configs[f[k]].name]
  BY DEF AInv, Built
<1> DEFINE g == [k \in 1 .. n + 1 |-> IF k = n + 1 THEN next ELSE f[k]]
<1> HIDE DEF n
<1>7. \A k \in 1 .. n + 1 : k \in 1 .. n \/ k = n + 1
  BY <1>4
<1>8. /\ g \in [1 .. n + 1 -> Joined']
      /\ g[n + 1] = next /\ \A k \in 1 .. n : g[k] = f[k] /\ k # n + 1
  BY <1>3, <1>4, <1>7
<1>9. \A k \in 1 .. n : k \in 1 .. n + 1 /\ g[k] \in Joined
  BY <1>4, <1>8
<1>10. n + 1 \in 1 .. n + 1
  BY <1>4
<1> HIDE DEF g
<1>11. \A k, l \in 1 .. n + 1 : g[k] = g[l] => k = l
  BY <1>3, <1>6, <1>7, <1>8, <1>9
<1>12. \A i \in Joined' : \E k \in 1 .. n + 1 : g[k] = i
  BY <1>3, <1>6, <1>8, <1>9, <1>10
<1>13. \A k \in 1 .. n + 1 :
         agents'[k] = INTERNAL_AGENT[agent_configs[g[k]].name]
  BY <1>1, <1>5, <1>6, <1>7, <1>8 DEF n
<1>14. Built'
  BY <1>1, <1>5, <1>8, <1>11, <1>12, <1>13 DEF Built, n
<1>15. Led' /\ NodesOK'
  BY <1>1, <1>2 DEF AInv, Led, NodesOK
<1> QED
  BY <1>1, <1>14, <1>15

\* The first step of build_graph: the first primary configuration leads, if there is
\* one, and nothing has been built.
LEMMA BeginKeeps ==
    ASSUME AInv, NoPrimary \/ Begin
    PROVE  /\ Built' /\ Led' /\ NodesOK'
           /\ at' = "failed" => ~Buildable'
<1>1. /\ UNCHANGED <<agent_configs, next, agents, added, nodes>>
      /\ at' \in {"failed", "subgraph"}
  BY DEF NoPrimary, Begin
<1>2. /\ Joining' = Joining /\ Primaries' = Primaries
      /\ Buildable' = Buildable
  BY <1>1, RequestStays
<1>3. Built'
  BY <1>1, <1>2, SameBuilt DEF AInv, Joined
<1>4. NodesOK'
  BY <1>1 DEF AInv, NodesOK, NoPrimary, Begin
<1>5. CASE NoPrimary
  BY <1>2, <1>3, <1>4, <1>5
     DEF NoPrimary, Buildable, Primaries, Led
<1>6. CASE Begin
  <2>1. PICK i \in DOMAIN agent_configs :
          /\ agent_configs[i].is_primary
          /\ \A j \in 1 .. i - 1 : ~agent_configs[j].is_primary
          /\ primary' = agent_configs[i]
    BY <1>6 DEF Begin
  <2>2. DOMAIN agent_configs = 1 .. Len(agent_configs) /\ Len(agent_configs) \in Nat
    BY RequestIsList DEF AInv
  <2>3. \A j \in Primaries : j \in 1 .. Len(agent_configs) /\ j \notin 1 .. i - 1
    BY <2>1, <2>2 DEF Primaries
  <2>4. \A j \in Primaries : i <= j
    BY <2>2, <2>3
  <2>5. i \in Primaries
    BY <2>1 DEF Primaries
  <2>6. Led'
    BY <1>1, <1>2, <2>1, <2>4, <2>5 DEF Led
  <2> QED
    BY <1>3, <1>4, <1>6, <2>6 DEF Begin
<1> QED
  BY <1>5, <1>6

\* The end of build_subgraph, and the primary agent.
LEMMA LeadKeeps ==
    ASSUME AInv, SubgraphEnds \/ LeadFails \/ Lead
    PROVE  /\ Built' /\ Led' /\ NodesOK'
           /\ at' = "failed" => ~Buildable'
<1>1. /\ UNCHANGED <<agent_configs, primary, next, agents, added>>
      /\ at \in {"subgraph", "lead"}
  BY DEF SubgraphEnds, LeadFails, Lead
<1>2. /\ Joining' = Joining /\ Primaries' = Primaries
      /\ Buildable' = Buildable
  BY <1>1, RequestStays
<1>3. Built' /\ Led'
  BY <1>1, <1>2, SameBuilt DEF AInv, Joined, Led
<1>4. CASE SubgraphEnds
  <2>1. next \in 1 .. Len(agent_configs) + 1 /\ next > Len(agent_configs)
    BY <1>4 DEF AInv, AssemblyTypeOK, SubgraphEnds
  <2>2. next = Len(agent_configs) + 1
    BY <2>1, RequestIsList DEF AInv
  <2> QED
    BY <1>1, <1>3, <1>4, <2>2 DEF AInv, SubgraphEnds, NodesOK
<1>5. CASE LeadFails
  <2>1. PICK i \in Primaries :
          (\A j \in Primaries : i <= j) /\ ~Supported(agent_configs[i])
    BY <1>5 DEF AInv, Led, LeadFails
  <2>2. ASSUME NEW h \in Primaries, \A j \in Primaries : h <= j
        PROVE  h = i
    <3>1. h \in Nat /\ i \in Nat
      BY RequestIsList DEF AInv, Primaries
    <3>2. h <= i /\ i <= h
      BY <2>1, <2>2
    <3> QED
      BY <3>1, <3>2
  <2>3. ~Buildable
    BY <2>1, <2>2 DEF Buildable
  <2> QED
    BY <1>1, <1>2, <1>3, <1>5, <2>3 DEF LeadFails, NodesOK
<1>6. CASE Lead
  <2>1. added = 0
    BY <1>6 DEF AInv, NodesOK, Lead
  <2>2. \A k : k \notin 1 .. added'
    BY <1>1, <2>1
  <2> QED
    BY <1>1, <1>3, <1>6, <2>2 DEF AInv, NodesOK, Lead
<1> QED
  BY <1>4, <1>5, <1>6

\* Once build_subgraph has ended, all that joins is built.
LEMMA AllJoined ==
    ASSUME AInv, at \in {"nodes", "compiled"}
    PROVE  Joined = Joining
<1>1. next = Len(agent_configs) + 1 /\ Len(agent_configs) \in Nat
  BY RequestIsList DEF AInv, NodesOK
<1>2. \A i \in Joining : i \in 1 .. Len(agent_configs)
  BY RequestIsList DEF AInv, Joining
<1>3. \A i \in Joining : i < next
  BY <1>1, <1>2
<1> QED
  BY <1>3 DEF Joined

\* A name can be taken by the supervisor or by an agent added before, and in both
\* cases the request is to blame.
LEMMA TakenMeansNotBuildable ==
    ASSUME AInv, NameTaken
    PROVE  ~Buildable
<1> DEFINE n == Len(agents)
           k == added + 1
<1>1. PICK f \in [1 .. n -> Joined] :
        /\ \A h, l \in 1 .. n : f[h] = f[l] => h = l
        /\ \A h \in 1 .. n :
               agents[h] = INTERNAL_AGENT[agent_configs[f[h]].name]
  BY DEF AInv, Built
<1>2. k \in 1 .. n /\ k \notin 1 .. added /\ (\A l \in 1 .. added : l \in 1 .. n)
  BY LenProperties DEF AInv, AssemblyTypeOK, NameTaken
<1>3. /\ agents[k] \in {Supervisor} \cup {agents[l] : l \in 1 .. added}
      /\ Joined = Joining
  BY AllJoined DEF AInv, NodesOK, NameTaken, Name
<1> HIDE DEF n, k
<1>4. f[k] \in Joining /\ \A l \in 1 .. added : f[l] \in Joining
  BY <1>1, <1>2, <1>3
<1>5. CASE agents[k] = Supervisor
  <2>1. agent_configs[f[k]].name = "primary_agent"
    BY <1>1, <1>2, <1>4, <1>5, JoiningIsBuiltIn
  <2> QED
    BY <1>4, <2>1 DEF Buildable
<1>6. CASE agents[k] # Supervisor
  <2>1. PICK l \in 1 .. added : agents[l] = agents[k]
    BY <1>3, <1>6
  <2>2. f[l] # f[k]
    BY <1>1, <1>2, <2>1
  <2>3. /\ agent_configs[f[k]].name = "game_generator"
        /\ agent_configs[f[l]].name = "game_generator"
    BY <1>1, <1>2, <1>4, <1>6, <2>1, JoiningIsBuiltIn
  <2> QED
    BY <1>4, <2>2, <2>3 DEF Buildable
<1> QED
  BY <1>5, <1>6

\* The nodes are added one after the other, until a name is taken or all are there.
LEMMA NodeKeeps ==
    ASSUME AInv, AddNode \/ NameTaken \/ Compile
    PROVE  /\ Built' /\ Led' /\ NodesOK'
           /\ at' = "failed" => ~Buildable'
<1>1. UNCHANGED <<agent_configs, primary, next, agents>> /\ at = "nodes"
  BY DEF AddNode, NameTaken, Compile
<1>2. /\ Joining' = Joining /\ Primaries' = Primaries
      /\ Buildable' = Buildable
  BY <1>1, RequestStays
<1>3. Built' /\ Led'
  BY <1>1, <1>2, SameBuilt DEF AInv, Joined, Led
<1>4. CASE AddNode
  <2>1. /\ added' = added + 1 /\ nodes' = nodes \cup {agents[added + 1]}
        /\ agents[added + 1] \notin nodes /\ at' = "nodes"
    BY <1>1, <1>4 DEF AddNode, Name
  <2>2. \A k : k \in 1 .. added' <=> k \in 1 .. added \/ k = added'
    BY <2>1, LenProperties DEF AInv, AssemblyTypeOK
  <2>3. /\ nodes = {Supervisor} \cup {agents[k] : k \in 1 .. added}
        /\ \A k \in 1 .. added : agents[k] # Supervisor
        /\ \A k, l \in 1 .. added : agents[k] = agents[l] => k = l
        /\ Supported(primary) /\ next = Len(agent_configs) + 1
    BY <1>1 DEF AInv, NodesOK
  <2>4. nodes' = {Supervisor} \cup {agents'[k] : k \in 1 .. added'}
    BY <1>1, <2>1, <2>2, <2>3
  <2>5. \A k \in 1 .. added' : agents'[k] # Supervisor
    BY <1>1, <2>1, <2>2, <2>3
  <2>6. \A k, l \in 1 .. added' : agents'[k] = agents'[l] => k = l
    BY <1>1, <2>1, <2>2, <2>3
  <2>7. Supported(primary)' /\ next' = Len(agent_configs') + 1
    BY <1>1, <2>3 DEF Supported
  <2> QED
    BY <1>3, <2>1, <2>4, <2>5, <2>6, <2>7 DEF NodesOK
<1>5. CASE NameTaken
  <2>1. ~Buildable
    BY <1>5, TakenMeansNotBuildable
  <2> QED
    BY <1>2, <1>3, <1>5, <2>1 DEF NameTaken, NodesOK
<1>6. CASE Compile
  BY <1>1, <1>3, <1>6 DEF AInv, Compile, NodesOK, Supported
<1> QED
  BY <1>4, <1>5, <1>6

\* A graph that is compiled is the one the request defines.
LEMMA CompiledAsDefined ==
    ASSUME AInv, at = "compiled"
    PROVE  /\ Buildable
           /\ nodes = {Supervisor}
                        \cup {agent_configs[i].name : i \in Joining}
<1> DEFINE n == Len(agents)
<1>1. PICK f \in [1 .. n -> Joined] :
        /\ \A k, l \in 1 .. n : f[k] = f[l] => k = l
        /\ \A i \in Joined : \E k \in 1 .. n : f[k] = i
        /\ \A k \in 1 .. n :
               agents[k] = INTERNAL_AGENT[agent_configs[f[k]].name]
  BY DEF AInv, Built
<1>2. Joined = Joining
  BY AllJoined
<1>3. /\ nodes = {Supervisor} \cup {agents[k] : k \in 1 .. n}
      /\ \A k \in 1 .. n : agents[k] # Supervisor
      /\ \A k, l \in 1 .. n : agents[k] = agents[l] => k = l
      /\ Supported(primary)
  BY DEF AInv, NodesOK
<1> HIDE DEF n
<1>4. \A k \in 1 .. n : f[k] \in Joining
  BY <1>1, <1>2
<1>5. \A k \in 1 .. n : /\ agent_configs[f[k]].name = "game_generator"
                        /\ agents[k] = agent_configs[f[k]].name
  BY <1>1, <1>3, <1>4, JoiningIsBuiltIn, Names
<1>6. \A i \in Joining : \E k \in 1 .. n : f[k] = i
  BY <1>1, <1>2
<1>7. \A i \in Joining : agent_configs[i].name # "primary_agent"
  BY <1>5, <1>6
<1>8. ASSUME NEW i \in Joining, NEW j \in Joining,
             agent_configs[i].name = agent_configs[j].name
      PROVE  i = j
  <2>1. PICK k \in 1 .. n, l \in 1 .. n : f[k] = i /\ f[l] = j
    BY <1>6
  <2>2. k = l
    BY <1>3, <1>5, <1>8, <2>1
  <2> QED
    BY <2>1, <2>2
<1>9. {agents[k] : k \in 1 .. n} = {agent_configs[i].name : i \in Joining}
  BY <1>4, <1>5, <1>6
<1>10. Buildable
  <2>1. \E i \in Primaries : /\ \A j \in Primaries : i <= j
                              /\ primary = agent_configs[i]
    BY DEF AInv, Led
  <2>2. \E i \in Primaries : /\ \A j \in Primaries : i <= j
                              /\ Supported(agent_configs[i])
    BY <1>3, <2>1
  <2> QED
    BY <1>7, <1>8, <2>2 DEF Buildable
<1> QED
  BY <1>3, <1>9, <1>10

\* build_graph fails exactly on the requests that cannot be built, and otherwise the
\* graph has the supervisor and one node for each agent that joins: what is built, and
\* so what is worth caching, depends on nothing but the request.
THEOREM AssemblyIsAsDefined == AssemblySpec => []AssemblyAsDefined
<1>1. AssemblyInit => AssemblyTypeOK
  BY AssemblyStartsTyped
<1>2. AssemblyInit => AInv
  <2> SUFFICES ASSUME AssemblyInit PROVE AInv
    OBVIOUS
  <2>1. at = "begin" /\ next = 1 /\ agents = <<>> /\ added = 0
    BY DEF AssemblyInit
  <2>2. Len(agents) = 0 /\ \A k : k \notin 1 .. 0
    BY <2>1, EmptySeq
  <2>3. Joined = {}
    <3>1. \A i \in Joining : i \in Nat /\ i >= 1
      BY <1>1, RequestIsList DEF Joining
    <3> QED
      BY <2>1, <3>1 DEF Joined
  <2>4. Built
    <3> DEFINE f == [k \in 1 .. 0 |-> 0]
    <3>1. f \in [1 .. Len(agents) -> Joined]
      BY <2>2
    <3> QED
      BY <2>2, <2>3, <3>1 DEF Built
  <2> QED
    BY <1>1, <2>1, <2>4 DEF AInv, Led, NodesOK
<1>3. AInv /\ [AssemblyNext]_assemblyVars => AInv'
  <2> SUFFICES ASSUME AInv, [AssemblyNext]_assemblyVars PROVE AInv'
    OBVIOUS
  <2>1. AssemblyTypeOK'
    BY AssemblyTyped DEF AInv
  <2>2. CASE UNCHANGED assemblyVars
    <3>1. UNCHANGED <<agent_configs, at, primary, next, agents, added, nodes>>
      BY <2>2 DEF assemblyVars
    <3>2. /\ Joining' = Joining
          /\ Primaries' = Primaries
          /\ Buildable' = Buildable
      BY <3>1, RequestStays
    <3>3. Built'
      BY <3>1, <3>2, SameBuilt DEF AInv, Joined
    <3> QED
      BY <2>1, <3>1, <3>2, <3>3 DEF AInv, Led, NodesOK, Supported
  <2> QED
    BY <2>1, <2>2, PassKeeps, AddKeeps, BeginKeeps, LeadKeeps, NodeKeeps
       DEF AInv, AssemblyNext
<1>4. AInv => AssemblyAsDefined
  BY CompiledAsDefined DEF AInv, AssemblyAsDefined
<1> QED
  BY <1>2, <1>3, <1>4, PTL DEF AssemblySpec

===============================================================================
