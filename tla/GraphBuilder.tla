----------------------------- MODULE GraphBuilder -----------------------------
(***************************************************************************)
(* get_compiled_graph of internal/graph/builder/graph.py, called by every  *)
(* request's thread: under the compilation lock the agents' prompts are    *)
(* loaded, the graph is looked up in the graph cache under a hash of the   *)
(* configuration, and compiled and cached if it is not there.              *)
(*                                                                         *)
(* A configuration is what goes into the hash and the rest (model_kwargs,  *)
(* stream_usage, id, ... are not hashed).  The prompts are the version of  *)
(* them the prompt service has; they are written into the copy of the      *)
(* configuration before it is hashed.  The graph cache is the MemCache of  *)
(* module MemCache, seen through get, put and clear: an entry may expire   *)
(* at any time.  Compiling is external: it answers a graph, raises, or     *)
(* raises one of the errors that the decorator of build_graph handles by   *)
(* RETURNING an exception object.                                          *)
(*                                                                         *)
(* call[c].at, the next step of the call that thread c is in:              *)
(*    lock prompts             get_compiled_graph                          *)
(*    lookup build put again   _get_or_create_graph_safely                 *)
(***************************************************************************)
EXTENDS Naturals

CONSTANTS
    Callers,        \* worker threads
    Hashed, Rest,   \* the two parts of a list of agent configurations
    None,           \* nothing in the cache, nobody holds the lock
    Failure,        \* an exception object, answered like a graph
    Raised,         \* the call raised
    MaxPrompts      \* bound on the versions of the prompts

Config == [hashed : Hashed, rest : Rest]

\* The prompts loaded; Broken stands for an exception object among them.
Broken == 0
Prompts == 1 .. MaxPrompts

\* A compiled graph is known by what it was compiled from.
Graph == [config : Config, prompts : Prompts \cup {Broken}]

ASSUME BuilderAssumption ==
    /\ None \notin Callers \cup Graph \cup {Failure, Raised}
    /\ {Failure, Raised} \cap Graph = {} /\ Failure # Raised
    /\ MaxPrompts \in Nat \ {0}

VARIABLES
    current,    \* the version of the prompts in the prompt service
    holder,     \* holder of _compilation_lock
    cache,      \* graph_cache: the live entry of each key
    call        \* what each caller is doing, with its local variables

vars == <<current, holder, cache, call>>

\* _generate_agent_config_hash, of a configuration with its prompts.
Keys == Hashed \X Prompts

\* A bug to be caught: the configuration is hashed before its prompts are in.
MutKey(config, prompts) == <<config.hashed, 1>>

Key(config, prompts) == <<config.hashed, prompts>>

Answers == Graph \cup {None, Failure, Raised}
Locations == {"idle", "lock", "prompts", "lookup", "build", "put", "again"}

\* graph: new_graph, and what the last call answered once it is over.
Calls == [at : Locations, config : Config, prompts : Prompts \cup {Broken},
          graph : Answers]

At(c, l) == call[c].at = l
MyKey(c) == Key(call[c].config, call[c].prompts)
MyGraph(c) == [config |-> call[c].config, prompts |-> call[c].prompts]
Becomes(c, r) == call' = [call EXCEPT ![c] = r]
Goto(c, l) == Becomes(c, [call[c] EXCEPT !.at = l])

\* Out of the with block: the lock is given back whatever happened.
Answer(c, g) ==
    /\ Becomes(c, [call[c] EXCEPT !.at = "idle", !.graph = g])
    /\ holder' = None

Init ==
    /\ current = 1
    /\ holder = None
    /\ cache = [k \in Keys |-> None]
    /\ call \in [Callers -> {r \in Calls :
                                /\ r.at = "idle" /\ r.prompts = Broken
                                /\ r.graph = None}]

-----------------------------------------------------------------------------
(* The surroundings.                                                       *)

Publish ==
    /\ current < MaxPrompts
    /\ current' = current + 1
    /\ UNCHANGED <<holder, cache, call>>

\* A time to live has passed.
Expire(k) ==
    /\ cache[k] # None
    /\ cache' = [cache EXCEPT ![k] = None]
    /\ UNCHANGED <<current, holder, call>>

\* clear_all_cache takes the cache's own lock, not the compilation lock.
Clear ==
    /\ cache' = [k \in Keys |-> None]
    /\ UNCHANGED <<current, holder, call>>

-----------------------------------------------------------------------------
(* get_compiled_graph.                                                     *)

Call(c, config) ==
    /\ At(c, "idle")
    /\ Becomes(c, [at |-> "lock", config |-> config, prompts |-> Broken,
                   graph |-> None])
    /\ UNCHANGED <<current, holder, cache>>

\* A bug to be caught: get_compiled_graph goes on without the lock.
MutLock(c) ==
    /\ At(c, "lock")
    /\ Goto(c, "prompts")
    /\ UNCHANGED <<current, holder, cache>>

Lock(c) ==
    /\ At(c, "lock")
    /\ holder = None
    /\ holder' = c
    /\ Goto(c, "prompts")
    /\ UNCHANGED <<current, cache>>

LoadPrompts(c) ==
    /\ At(c, "prompts")
    /\ Becomes(c, [call[c] EXCEPT !.at = "lookup", !.prompts = current])
    /\ UNCHANGED <<current, holder, cache>>

\* The decorated loader answers the exception it caught as if it were a text.
LoadBroken(c) ==
    /\ At(c, "prompts")
    /\ Goto(c, "lookup")
    /\ UNCHANGED <<current, holder, cache>>

\* A bug to be caught: the lock stays with a call that could not load.
MutLoadFails(c) ==
    /\ At(c, "prompts")
    /\ Becomes(c, [call[c] EXCEPT !.at = "idle", !.graph = Raised])
    /\ UNCHANGED <<current, holder, cache>>

LoadFails(c) ==
    /\ At(c, "prompts")
    /\ Answer(c, Raised)
    /\ UNCHANGED <<current, cache>>

-----------------------------------------------------------------------------
(* _get_or_create_graph_safely.                                            *)

\* Hashing a prompt that is no text raises: on to the uncached fallback.
Lookup(c) ==
    /\ At(c, "lookup")
    /\ IF call[c].prompts = Broken
       THEN Goto(c, "again") /\ UNCHANGED holder
       ELSE IF cache[MyKey(c)] # None
       THEN Answer(c, cache[MyKey(c)])
       ELSE Goto(c, "build") /\ UNCHANGED holder
    /\ UNCHANGED <<current, cache>>

\* build_graph answers a graph or, for some errors, the error.
Build(c) ==
    /\ At(c, "build")
    /\ \E g \in {MyGraph(c), Failure} :
          Becomes(c, [call[c] EXCEPT !.at = "put", !.graph = g])
    /\ UNCHANGED <<current, holder, cache>>

BuildFails(c) ==
    /\ At(c, "build")
    /\ Goto(c, "again")
    /\ UNCHANGED <<current, holder, cache>>

\* A bug to be caught: what went wrong is cached as if it were a graph.
MutPut(c) ==
    /\ At(c, "put")
    /\ cache' = [cache EXCEPT ![MyKey(c)] = Raised]
    /\ Answer(c, call[c].graph)
    /\ UNCHANGED current

Put(c) ==
    /\ At(c, "put")
    /\ cache' = [cache EXCEPT ![MyKey(c)] = call[c].graph]
    /\ Answer(c, call[c].graph)
    /\ UNCHANGED current

\* "Fallback: create graph without caching", outside of the try.
BuildAgain(c) ==
    /\ At(c, "again")
    /\ \E g \in {MyGraph(c), Failure, Raised} : Answer(c, g)
    /\ UNCHANGED <<current, cache>>

-----------------------------------------------------------------------------

Step(c) ==
    \/ Lock(c) \/ LoadPrompts(c) \/ LoadBroken(c) \/ LoadFails(c)
    \/ Lookup(c) \/ Build(c) \/ BuildFails(c) \/ Put(c) \/ BuildAgain(c)

Next ==
    \/ \E c \in Callers : Step(c) \/ \E config \in Config : Call(c, config)
    \/ \E k \in Keys : Expire(k)
    \/ Publish \/ Clear

Spec == Init /\ [][Next]_vars

\* A thread inside a call runs on, the prompt service answers or times out.
FairSpec == Spec /\ \A c \in Callers : WF_vars(Step(c))

-----------------------------------------------------------------------------
(* Properties.                                                             *)

(* Every variable has its type: what the cache holds was answered by a     *)
(* build, never raised.                                                    *)
TypeOK ==
    /\ current \in Prompts
    /\ holder \in Callers \cup {None}
    /\ cache \in [Keys -> Graph \cup {None, Failure}]
    /\ call \in [Callers -> Calls]

(* A graph is compiled and cached only while there is none: requests for   *)
(* one configuration that arrive together compile it once, and no live     *)
(* graph is ever replaced (graph.py:246, "prevents race conditions").      *)
CompilesOnlyMissing ==
    \A c \in Callers : call[c].at \in {"build", "put"} => cache[MyKey(c)] = None

(* The graph a call answers was compiled from the prompts it has loaded    *)
(* itself and from the hashed part of its own configuration: a prompt that *)
(* is replaced in the service is never served from the cache               *)
(* (graph.py:218-224, 250-253).                                            *)
AnswersWhatWasAsked ==
    \A c \in Callers : At(c, "idle") /\ call[c].graph \in Graph =>
        /\ call[c].graph.prompts = call[c].prompts
        /\ call[c].graph.config.hashed = call[c].config.hashed

(* Once nobody makes new calls, every call returns: the lock is given back *)
(* on every path (graph.py:248).                                           *)
EveryCallReturns ==
    <>[][\A c \in Callers : ~At(c, "idle") \/ At(c, "idle")']_vars
        => \A c \in Callers : []<>At(c, "idle")
===============================================================================
