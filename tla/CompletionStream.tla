--------------------------- MODULE CompletionStream ---------------------------
(***************************************************************************)
(* The Completion RPC, from the gRPC worker thread that takes a request to *)
(* the end of its stream: handler/grpc/completion.py drives the async      *)
(* generator of action/completion/grpc.py, which guards a conversation     *)
(* with a lock kept in a dictionary shared by all worker threads           *)
(* (action/completion/base.py).                                            *)
(*                                                                         *)
(* A request is a thread: pc[r] is the next thing it does.                 *)
(*    idle                  not yet taken by a worker                      *)
(*    parse                 converting the protobuf request                *)
(*    lookup, acquire       finding and trying the conversation's lock     *)
(*    build, graph          compiling the agent graph and streaming it     *)
(*    yBusy yChunk yLast yError   suspended at a yield, the chunk is with  *)
(*                          the transport                                  *)
(*    release, clean, check, delete, leave   the finally block             *)
(*    done, dropped         the generator was exhausted / thrown away      *)
(*                                                                         *)
(* A lock object is named by the request whose lookup created it: the      *)
(* dictionary makes at most one object per lookup.                         *)
(***************************************************************************)
EXTENDS Naturals, Sequences, FiniteSets

CONSTANTS
    Requests,       \* the RPCs that ever arrive
    Conversations,  \* conversation ids
    None,           \* no lock object, no thread
    MaxWorkers,     \* Config.MAX_WORKERS, the size of the thread pool
    MaxChunks       \* bound on the content chunks of one stream

ASSUME StreamAssumption ==
    /\ None \notin Requests
    /\ MaxWorkers \in Nat \ {0}
    /\ MaxChunks \in Nat

VARIABLES
    pc,         \* control state of each request
    conv,       \* conversation id carried by each request
    alive,      \* the client has not cancelled or disconnected
    lockRef,    \* the local variable conversation_lock of each request
    registry,   \* _conversation_locks: the lock object kept per conversation
    locked,     \* the lock objects that are held
    cleaner,    \* holder of _locks_cleanup_lock
    raising,    \* an exception is travelling through the finally block
    out,        \* chunks handed to the transport, by kind
    abandoned   \* requests whose suspended generator died with the lock

vars == <<pc, conv, alive, lockRef, registry, locked, cleaner, raising, out,
          abandoned>>

AtYield == {"yBusy", "yChunk", "yLast", "yError"}
Ended == {"done", "dropped"}
Cleanup == {"clean", "check", "delete", "leave"}
Inside == {"build", "graph", "yChunk", "yLast", "release"}
Locations == {"idle", "parse", "lookup", "acquire"} \cup Inside \cup AtYield
             \cup Cleanup \cup Ended
ChunkKind == {"content", "final", "error"}

\* A worker thread is bound to the request from its start to its end.
Busy == {r \in Requests : pc[r] \notin Ended \cup {"idle"}}

\* r acquired its conversation's lock and has not released it.  A request whose
\* generator was thrown away is over and holds its lock for ever.
Holding(r) == pc[r] \in Inside \/ r \in abandoned

Goto(r, l) == pc' = [pc EXCEPT ![r] = l]

\* The next chunk of kind k goes to the transport and r waits at the yield.
Yield(r, k, l) == out' = [out EXCEPT ![r] = Append(@, k)] /\ Goto(r, l)

lockVars == <<lockRef, registry, locked, cleaner>>

Init ==
    /\ pc = [r \in Requests |-> "idle"]
    /\ conv \in [Requests -> Conversations]
    /\ alive = [r \in Requests |-> TRUE]
    /\ lockRef = [r \in Requests |-> None]
    /\ registry = [c \in Conversations |-> None]
    /\ locked = {}
    /\ cleaner = None
    /\ raising = [r \in Requests |-> FALSE]
    /\ out = [r \in Requests |-> <<>>]
    /\ abandoned = {}

-----------------------------------------------------------------------------
(* The handler, before the completion action is reached.                   *)

\* The thread pool has a free worker for r.
Begin(r) ==
    /\ pc[r] = "idle"
    /\ Cardinality(Busy) < MaxWorkers
    /\ Goto(r, "parse")
    /\ UNCHANGED <<conv, alive, lockVars, raising, out, abandoned>>

ParseOK(r) ==
    /\ pc[r] = "parse"
    /\ Goto(r, "lookup")
    /\ UNCHANGED <<conv, alive, lockVars, raising, out, abandoned>>

\* The request does not convert: the outer handler answers an error chunk.
ParseFails(r) ==
    /\ pc[r] = "parse"
    /\ Yield(r, "error", "yError")
    /\ UNCHANGED <<conv, alive, lockVars, raising, abandoned>>

-----------------------------------------------------------------------------
(* create_completion_stream.                                               *)

\* A bug to be caught: a plain dict.get leaves the request without a lock.
MutLookup(r) ==
    /\ pc[r] = "lookup"
    /\ lockRef' = [lockRef EXCEPT ![r] = registry[conv[r]]]
    /\ registry' = [registry EXCEPT ![conv[r]] = r]
    /\ Goto(r, "acquire")
    /\ UNCHANGED <<conv, alive, locked, cleaner, raising, out, abandoned>>

\* defaultdict: the entry is created when there is none.
Lookup(r) ==
    LET entry == IF registry[conv[r]] = None THEN r ELSE registry[conv[r]]
    IN  /\ pc[r] = "lookup"
        /\ registry' = [registry EXCEPT ![conv[r]] = entry]
        /\ lockRef' = [lockRef EXCEPT ![r] = entry]
        /\ Goto(r, "acquire")
        /\ UNCHANGED <<conv, alive, locked, cleaner, raising, out, abandoned>>

\* A bug to be caught: the result of the non-blocking acquire is not looked at.
MutAcquire(r) ==
    /\ pc[r] = "acquire"
    /\ locked' = locked \cup {lockRef[r]}
    /\ Goto(r, "build")
    /\ UNCHANGED <<conv, alive, lockRef, registry, cleaner, raising, out,
                   abandoned>>

Acquire(r) ==
    /\ pc[r] = "acquire"
    /\ lockRef[r] \notin locked
    /\ locked' = locked \cup {lockRef[r]}
    /\ Goto(r, "build")
    /\ UNCHANGED <<conv, alive, lockRef, registry, cleaner, raising, out,
                   abandoned>>

\* A bug to be caught: a blocking acquire waits where the code answers.
MutRefuse(r) ==
    /\ pc[r] = "acquire"
    /\ lockRef[r] \in locked
    /\ UNCHANGED vars

\* "Conversation is already being processed": one chunk, and no cleanup.
Refuse(r) ==
    /\ pc[r] = "acquire"
    /\ lockRef[r] \in locked
    /\ Yield(r, "error", "yBusy")
    /\ UNCHANGED <<conv, alive, lockVars, raising, abandoned>>

BuildOK(r) ==
    /\ pc[r] = "build"
    /\ Goto(r, "graph")
    /\ UNCHANGED <<conv, alive, lockVars, raising, out, abandoned>>

\* get_compiled_graph or the graph's input raises: only the finally runs.
BuildFails(r) ==
    /\ pc[r] = "build"
    /\ raising' = [raising EXCEPT ![r] = TRUE]
    /\ Goto(r, "release")
    /\ UNCHANGED <<conv, alive, lockVars, out, abandoned>>

\* A piece of the graph's answer, whichever kind and text it is converted to.
GraphChunk(r) ==
    /\ pc[r] = "graph"
    /\ Len(out[r]) < MaxChunks
    /\ Yield(r, "content", "yChunk")
    /\ UNCHANGED <<conv, alive, lockVars, raising, abandoned>>

\* A chunk the handler cannot convert: it answers an error chunk and leaves
\* the generator suspended, then closes the loop that would finalize it.
ConvertFails(r) ==
    /\ pc[r] = "graph"
    /\ Yield(r, "error", "yError")
    /\ abandoned' = abandoned \cup {r}
    /\ UNCHANGED <<conv, alive, lockVars, raising>>

GraphEnds(r) ==
    /\ pc[r] = "graph"
    /\ Yield(r, "final", "yLast")
    /\ UNCHANGED <<conv, alive, lockVars, raising, abandoned>>

\* The graph raises, or the conversion of one of its pieces.
GraphFails(r) ==
    /\ pc[r] = "graph"
    /\ Yield(r, "error", "yLast")
    /\ UNCHANGED <<conv, alive, lockVars, raising, abandoned>>

-----------------------------------------------------------------------------
(* What the transport does with a generator suspended at a yield.          *)

AfterYield == [yChunk |-> "graph", yLast |-> "release",
               yBusy |-> "done", yError |-> "done"]

\* The chunk was sent and the next one is asked for.
Resume(r) ==
    /\ pc[r] \in AtYield
    /\ alive[r]
    /\ Goto(r, AfterYield[pc[r]])
    /\ UNCHANGED <<conv, alive, lockVars, raising, out, abandoned>>

\* The RPC is no longer active: the iterator is thrown away.  The handler's
\* finally closes the loop first, so the async generators beneath are never
\* finalized and a finally they wait in never runs.
Drop(r) ==
    /\ pc[r] \in AtYield
    /\ ~alive[r]
    /\ abandoned' = IF pc[r] \in {"yChunk", "yLast"}
                    THEN abandoned \cup {r} ELSE abandoned
    /\ Goto(r, "dropped")
    /\ UNCHANGED <<conv, alive, lockVars, raising, out>>

\* The client cancels, disconnects or runs into its deadline.
Cancel(r) ==
    /\ alive[r]
    /\ r \in Busy
    /\ alive' = [alive EXCEPT ![r] = FALSE]
    /\ UNCHANGED <<pc, conv, lockVars, raising, out, abandoned>>

-----------------------------------------------------------------------------
(* The finally block of create_completion_stream.                          *)

Release(r) ==
    /\ pc[r] = "release"
    /\ locked' = locked \ {lockRef[r]}
    /\ Goto(r, "clean")
    /\ UNCHANGED <<conv, alive, lockRef, registry, cleaner, raising, out,
                   abandoned>>

\* A bug to be caught: the cleanup runs without _locks_cleanup_lock.
MutCleanEnter(r) ==
    /\ pc[r] = "clean"
    /\ Goto(r, "check")
    /\ UNCHANGED <<conv, alive, lockVars, raising, out, abandoned>>

CleanEnter(r) ==
    /\ pc[r] = "clean"
    /\ cleaner = None
    /\ cleaner' = r
    /\ Goto(r, "check")
    /\ UNCHANGED <<conv, alive, lockRef, registry, locked, raising, out,
                   abandoned>>

\* A bug to be caught: no entry is ever found deletable.
MutCleanCheck(r) ==
    /\ pc[r] = "check"
    /\ Goto(r, "leave")
    /\ UNCHANGED <<conv, alive, lockVars, raising, out, abandoned>>

\* Is the conversation still in the dictionary, with a lock nobody holds?
CleanCheck(r) ==
    /\ pc[r] = "check"
    /\ Goto(r, IF registry[conv[r]] \notin locked \cup {None}
               THEN "delete" ELSE "leave")
    /\ UNCHANGED <<conv, alive, lockVars, raising, out, abandoned>>

CleanDelete(r) ==
    /\ pc[r] = "delete"
    /\ registry' = [registry EXCEPT ![conv[r]] = None]
    /\ Goto(r, "leave")
    /\ UNCHANGED <<conv, alive, lockRef, locked, cleaner, raising, out,
                   abandoned>>

\* A bug to be caught: an exception that crosses the finally block is lost.
MutCleanLeave(r) ==
    /\ pc[r] = "leave"
    /\ cleaner' = None
    /\ Goto(r, "done")
    /\ UNCHANGED <<conv, alive, lockRef, registry, locked, raising, out,
                   abandoned>>

\* The generator is exhausted, or its exception reaches the handler, which
\* answers it with an error chunk.
CleanLeave(r) ==
    /\ pc[r] = "leave"
    /\ cleaner' = None
    /\ IF raising[r]
       THEN Yield(r, "error", "yError")
       ELSE Goto(r, "done") /\ UNCHANGED out
    /\ UNCHANGED <<conv, alive, lockRef, registry, locked, raising, abandoned>>

-----------------------------------------------------------------------------

\* Every request has ended and no new one arrives: only then does all stop.
Quiet == (\A r \in Requests : pc[r] \in Ended) /\ UNCHANGED vars

ServerStep(r) ==
    \/ Begin(r) \/ ParseOK(r) \/ ParseFails(r)
    \/ Lookup(r) \/ Acquire(r) \/ Refuse(r)
    \/ BuildOK(r) \/ BuildFails(r)
    \/ GraphChunk(r) \/ ConvertFails(r) \/ GraphEnds(r) \/ GraphFails(r)
    \/ Resume(r) \/ Drop(r)
    \/ Release(r) \/ CleanEnter(r) \/ CleanCheck(r) \/ CleanDelete(r)
    \/ CleanLeave(r)

Next == (\E r \in Requests : ServerStep(r) \/ Cancel(r)) \/ Quiet

Spec == Init /\ [][Next]_vars

\* A thread that can run does run; clients are free never to cancel.
FairSpec == Spec /\ \A r \in Requests : WF_vars(ServerStep(r))

-----------------------------------------------------------------------------
(* Properties.                                                             *)

(* Every variable has its type; in particular a request that has looked up *)
(* its conversation always has a lock object in hand (grpc.py:92).         *)
TypeOK ==
    /\ pc \in [Requests -> Locations]
    /\ conv \in [Requests -> Conversations]
    /\ alive \in [Requests -> BOOLEAN]
    /\ lockRef \in [Requests -> Requests \cup {None}]
    /\ registry \in [Conversations -> Requests \cup {None}]
    /\ locked \subseteq Requests
    /\ cleaner \in Requests \cup {None}
    /\ raising \in [Requests -> BOOLEAN]
    /\ out \in [Requests -> Seq(ChunkKind)]
    /\ abandoned \subseteq Requests
    /\ \A r \in Requests :
          pc[r] \notin {"idle", "parse", "lookup", "yError", "done", "dropped"}
              => lockRef[r] # None

(* A lock object has one holder at a time, and it is held exactly while a  *)
(* request is between its acquire and its release or has died in between:  *)
(* no request ever frees a lock that another one holds (grpc.py:95, 135).  *)
LockDiscipline ==
    /\ \A r, s \in Requests :
          Holding(r) /\ Holding(s) /\ lockRef[r] = lockRef[s] => r = s
    /\ locked = {lockRef[r] : r \in {s \in Requests : Holding(s)}}

(* An entry is in the dictionary only while a request of the conversation  *)
(* with that lock in hand has yet to come to its end: it is about to try   *)
(* it, works under it, or cleans up (grpc.py:137-142, "prevents memory     *)
(* leak").  A refused request leaves without cleaning, so the one that     *)
(* made it fail must do it.  The code keeps this only for locks that no    *)
(* abandoned generator took with it: NothingLeftBehind is about the others.*)
CleanedUnlessAbandoned ==
    \A c \in Conversations :
        registry[c] \notin {None} \cup {lockRef[a] : a \in abandoned} =>
            \E r \in Requests :
                /\ conv[r] = c
                /\ lockRef[r] = registry[c]
                /\ pc[r] \in {"acquire", "clean", "check", "delete"} \cup Inside

(* The entry that a thread found deletable is still in the dictionary when *)
(* it deletes it, so the del raises no KeyError: lookups only add entries  *)
(* and deletions are serialized (grpc.py:138-142).                         *)
DeletesAnEntry ==
    \A r \in Requests : pc[r] = "delete" => registry[conv[r]] # None

\* What the client sees of a request that is at location l.
StreamAt(l) ==
    CASE l = "idle" -> "idle"
      [] l = "done" -> "closed"
      [] l = "dropped" -> "cut"
      [] OTHER -> "open"

Stream == [r \in Requests |-> StreamAt(pc[r])]

Contract == INSTANCE StreamContract WITH stream <- Stream

(* Whatever fails inside, the client sees what StreamContract promises:    *)
(* content chunks, then exactly one finished chunk, then the end of the    *)
(* stream (handler/grpc/completion.py:118-141).                            *)
KeepsContract == Contract!Spec

(* Every request is answered to the end or loses its client: the lock is   *)
(* tried without blocking, so a leaked lock delays nobody (grpc.py:95).    *)
EveryRequestEnds ==
    \A r \in Requests : pc[r] = "idle" ~> pc[r] \in Ended

-----------------------------------------------------------------------------
(* What the source says of itself and the code does not do.                *)

(* base.py:46 "Conversation-level locks to prevent concurrent processing   *)
(* of same conversation": two requests are never both inside one.          *)
ConversationExclusion ==
    \A r, s \in Requests :
        pc[r] \in Inside /\ pc[s] \in Inside /\ conv[r] = conv[s] => r = s

(* grpc.py:134 "Always release the lock" and grpc.py:137 "Cleanup lock if  *)
(* no longer needed (optional, prevents memory leak)": when no request of  *)
(* a conversation is on its way, nothing of it is left.  Its entry is gone *)
(* and no lock is held for which a later request would be refused.         *)
NothingLeftBehind ==
    \A c \in Conversations :
        LET its == {r \in Requests : conv[r] = c}
        IN  (\A r \in its : pc[r] \in {"idle"} \cup Ended) =>
                /\ registry[c] = None
                /\ \A r \in its : lockRef[r] \notin locked
===============================================================================
