---------------------------- MODULE LibraryIndexer ----------------------------
(***************************************************************************)
(* The path from the "library" bucket to the vector index: MinIO publishes *)
(* a notification per object change to a Kafka partition; one consumer     *)
(* thread per service instance (services/connector/kafka_service.py)       *)
(* polls it and runs the handler chain handler/consumer -> handler/        *)
(* consumer/cdc -> action/cdc_handler/minio_bucket/library.py, which       *)
(* rewrites the points of the object in Qdrant, and commits the offset.    *)
(*                                                                         *)
(* MinIO, Kafka and Qdrant are external; they are modelled as src uses     *)
(* them: a store read by key, a log with a committed position that only    *)
(* the partition's owner may move, and a set of points deleted by object   *)
(* key and inserted under fresh random ids (so inserting never replaces).  *)
(*                                                                         *)
(* pc[c], the next thing consumer c does:                                  *)
(*    poll                     waiting for a message                       *)
(*    delete load upsert       inside process_notification                 *)
(*    skip finish              the handler returned False / True           *)
(*    dead                     the loop ended on a KafkaException          *)
(*    down                     the process is not running                  *)
(***************************************************************************)
EXTENDS Naturals, Sequences

CONSTANTS
    Consumers,      \* service instances, all in one consumer group
    Objects,        \* object keys of the bucket that share the partition
    None,           \* nobody owns the partition
    MaxEvents,      \* bound on the object changes
    MaxCrashes,     \* bound on processes killed and loops that die
    MaxFaults,      \* bound on failing Qdrant, MinIO or embedding calls
    MaxMoves        \* bound on partitions taken from a running consumer

ASSUME IndexerAssumption ==
    /\ None \notin Consumers
    /\ MaxEvents \in Nat /\ MaxCrashes \in Nat
    /\ MaxFaults \in Nat /\ MaxMoves \in Nat

VARIABLES
    bucket,     \* the version of each object in MinIO, 0 when there is none
    log,        \* the partition: every notification so far, never truncated
    committed,  \* number of messages the group has committed
    owner,      \* the consumer the partition is assigned to
    pc,         \* control state of each consumer thread
    next,       \* next position each consumer fetches, from 1
    found,      \* version each consumer has loaded and vectorized
    index,      \* per object, the versions whose points are in Qdrant
    handled,    \* history: positions whose handler has returned
    newest,     \* history: per object, the version indexed last
    disturbed,  \* history: objects whose last rewriting went wrong or was not
                \* the only one
    crashes, faults, moves      \* how much of each bound is used up

vars == <<bucket, log, committed, owner, pc, next, found, index, handled,
          newest, disturbed, crashes, faults, moves>>

worldVars == <<bucket, log>>
kafkaVars == <<committed, owner>>
boundVars == <<crashes, faults, moves>>
pastVars == <<handled, newest, disturbed>>

Kinds == {"created", "unsupported", "removed", "other", "malformed"}
Message == [obj : Objects, kind : Kinds]
Working == {"delete", "load", "upsert", "skip", "finish"}
Locations == Working \cup {"poll", "dead", "down"}

\* The message consumer c has in hand, its position and its object.
At(c) == next[c] - 1
Event(c) == log[At(c)]
Key(c) == Event(c).obj

Goto(c, l) == pc' = [pc EXCEPT ![c] = l]

Init ==
    /\ bucket = [o \in Objects |-> 0]
    /\ log = <<>>
    /\ committed = 0
    /\ owner = None
    /\ pc = [c \in Consumers |-> "poll"]
    /\ next = [c \in Consumers |-> 1]
    /\ found = [c \in Consumers |-> 0]
    /\ index = [o \in Objects |-> <<>>]
    /\ handled = {}
    /\ newest = [o \in Objects |-> 0]
    /\ disturbed = {}
    /\ crashes = 0 /\ faults = 0 /\ moves = 0

-----------------------------------------------------------------------------
(* Users of the bucket.  The version of an object is the position of the   *)
(* notification that announced it.                                         *)

Notify(o, kind) ==
    /\ Len(log) < MaxEvents
    /\ log' = Append(log, [obj |-> o, kind |-> kind])
    /\ UNCHANGED <<kafkaVars, pc, next, found, index, pastVars, boundVars>>

\* An upload or overwrite, with a mimetype some processor supports or not.
Put(o, kind) ==
    /\ kind \in {"created", "unsupported"}
    /\ Notify(o, kind)
    /\ bucket' = [bucket EXCEPT ![o] = Len(log) + 1]

Remove(o) ==
    /\ bucket[o] # 0
    /\ Notify(o, "removed")
    /\ bucket' = [bucket EXCEPT ![o] = 0]

\* Another event (an access), or a message that does not parse.
Noise(o, kind) ==
    /\ kind \in {"other", "malformed"}
    /\ Notify(o, kind)
    /\ UNCHANGED bucket

-----------------------------------------------------------------------------
(* The group coordinator.                                                  *)

\* Inside its poll c is given the partition and starts at the committed
\* position, or at the earliest one.
Assign(c) ==
    /\ pc[c] = "poll"
    /\ owner = None
    /\ owner' = c
    /\ next' = [next EXCEPT ![c] = committed + 1]
    /\ UNCHANGED <<worldVars, committed, pc, found, index, pastVars, boundVars>>

\* A handler that outlasts max.poll.interval.ms, or a new member of the
\* group: the partition is taken from its owner, which works on regardless.
Revoke ==
    /\ owner # None
    /\ moves < MaxMoves
    /\ owner' = None
    /\ moves' = moves + 1
    /\ UNCHANGED <<worldVars, committed, pc, next, found, index, pastVars,
                   crashes, faults>>

-----------------------------------------------------------------------------
(* The consumer loop and the handler chain.                                *)

\* Where the handler chain branches on the notification's kind.
Dispatch == [created |-> "delete", removed |-> "delete",
             unsupported |-> "finish", other |-> "finish",
             malformed |-> "skip"]

\* A bug to be caught: what the handler raises escapes and ends the loop.
MutPoll(c) ==
    /\ pc[c] = "poll"
    /\ owner = c
    /\ next[c] <= Len(log)
    /\ next' = [next EXCEPT ![c] = @ + 1]
    /\ Goto(c, IF log[next[c]].kind = "malformed" THEN "dead"
               ELSE Dispatch[log[next[c]].kind])
    /\ UNCHANGED <<worldVars, kafkaVars, found, index, pastVars, boundVars>>

\* A bug to be caught: auto commit, the position moves when it is delivered.
MutAutoCommit(c) ==
    /\ pc[c] = "poll"
    /\ owner = c
    /\ next[c] <= Len(log)
    /\ next' = [next EXCEPT ![c] = @ + 1]
    /\ committed' = next[c]
    /\ Goto(c, Dispatch[log[next[c]].kind])
    /\ UNCHANGED <<worldVars, owner, found, index, pastVars, boundVars>>

\* poll() returns the next message and the handler is entered.
Poll(c) ==
    /\ pc[c] = "poll"
    /\ owner = c
    /\ next[c] <= Len(log)
    /\ next' = [next EXCEPT ![c] = @ + 1]
    /\ Goto(c, Dispatch[log[next[c]].kind])
    /\ UNCHANGED <<worldVars, kafkaVars, found, index, pastVars, boundVars>>

\* Consumer c is between deleting and inserting the points of object o.
Rewriting(c, o) == pc[c] \in {"load", "upsert"} /\ Key(c) = o

\* The message c has in hand was given to another consumer as well, and c
\* may be late: another owner is past it, or the group committed it.
PassedOver(c) ==
    IF owner \in Consumers \ {c} THEN next[owner] > At(c)
    ELSE committed >= At(c)

\* History: what is begun late, or while another consumer is at the same
\* object, may be mixed up with the other's work; what is begun alone starts
\* afresh.
BeginRewriting(c) ==
    disturbed' = IF PassedOver(c) \/ \E d \in Consumers \ {c} : Rewriting(d, Key(c))
                 THEN disturbed \cup {Key(c)}
                 ELSE disturbed \ {Key(c)}

\* A bug to be caught: a created object is indexed without the delete.
MutDeletePoints(c) ==
    /\ pc[c] = "delete"
    /\ index' = IF Event(c).kind = "removed"
                THEN [index EXCEPT ![Key(c)] = <<>>] ELSE index
    /\ BeginRewriting(c)
    /\ Goto(c, IF Event(c).kind = "removed" THEN "finish" ELSE "load")
    /\ UNCHANGED <<worldVars, kafkaVars, next, found, handled, newest, boundVars>>

\* _delete_by_object_key, the first thing done for both kinds of event.
DeletePoints(c) ==
    /\ pc[c] = "delete"
    /\ index' = [index EXCEPT ![Key(c)] = <<>>]
    /\ BeginRewriting(c)
    /\ Goto(c, IF Event(c).kind = "removed" THEN "finish" ELSE "load")
    /\ UNCHANGED <<worldVars, kafkaVars, next, found, handled, newest, boundVars>>

\* Nothing can be vectorized of version v.
Unreadable(v) == IF v = 0 THEN TRUE ELSE log[v].kind = "unsupported"

\* A bug to be caught: a missing object is not told from an empty one.
MutLoad(c) ==
    /\ pc[c] = "load"
    /\ found' = [found EXCEPT ![c] = bucket[Key(c)]]
    /\ Goto(c, "upsert")
    /\ UNCHANGED <<worldVars, kafkaVars, next, index, pastVars, boundVars>>

\* A bug to be caught: the notification's version is indexed, whatever the
\* bucket holds by now.
MutStaleLoad(c) ==
    /\ pc[c] = "load"
    /\ found' = [found EXCEPT ![c] = At(c)]
    /\ Goto(c, "upsert")
    /\ UNCHANGED <<worldVars, kafkaVars, next, index, pastVars, boundVars>>

\* The object is read and vectorized as it is now.  If it is gone there are
\* no points; if it is now of an unsupported type there may be none.
Load(c) ==
    LET now == bucket[Key(c)]
    IN  /\ pc[c] = "load"
        /\ \/ /\ now # 0
              /\ found' = [found EXCEPT ![c] = now]
              /\ Goto(c, "upsert")
           \/ /\ Unreadable(now)
              /\ UNCHANGED found
              /\ Goto(c, "finish")
        /\ UNCHANGED <<worldVars, kafkaVars, next, index, pastVars, boundVars>>

\* A bug to be caught: the insertion is tried again when no answer comes.
MutUpsert(c) ==
    /\ pc[c] = "upsert"
    /\ index' = [index EXCEPT ![Key(c)] = Append(@, found[c])]
    /\ newest' = [newest EXCEPT ![Key(c)] = found[c]]
    /\ \E l \in {"upsert", "finish"} : Goto(c, l)
    /\ UNCHANGED <<worldVars, kafkaVars, next, found, handled, disturbed,
                   boundVars>>

Upsert(c) ==
    /\ pc[c] = "upsert"
    /\ index' = [index EXCEPT ![Key(c)] = Append(@, found[c])]
    /\ newest' = [newest EXCEPT ![Key(c)] = found[c]]
    /\ Goto(c, "finish")
    /\ UNCHANGED <<worldVars, kafkaVars, next, found, handled, disturbed,
                   boundVars>>

\* A call to Qdrant, MinIO or the embedding model fails: logged and dropped
\* on the way, so that the handler still returns True.
CallFails(c) ==
    /\ pc[c] \in {"delete", "load", "upsert"}
    /\ faults < MaxFaults
    /\ faults' = faults + 1
    /\ disturbed' = disturbed \cup {Key(c)}
    /\ Goto(c, "finish")
    /\ UNCHANGED <<worldVars, kafkaVars, next, found, index, handled, newest,
                   crashes, moves>>

\* True: the offset is stored and committed asynchronously.  The broker may
\* never see the commit, and refuses it from a consumer that lost the
\* partition.
Commit(c) ==
    /\ pc[c] = "finish"
    /\ handled' = handled \cup {At(c)}
    /\ committed' \in {committed, IF owner = c THEN At(c) ELSE committed}
    /\ Goto(c, "poll")
    /\ UNCHANGED <<worldVars, owner, next, found, index, newest, disturbed,
                   boundVars>>

\* False: nothing is committed, and the loop goes on with the next message.
Skip(c) ==
    /\ pc[c] = "skip"
    /\ handled' = handled \cup {At(c)}
    /\ Goto(c, "poll")
    /\ UNCHANGED <<worldVars, kafkaVars, next, found, index, newest, disturbed,
                   boundVars>>

-----------------------------------------------------------------------------
(* Crashes.  The group learns of a lost member by its session timeout.     *)

Leaves(c) ==
    /\ crashes < MaxCrashes
    /\ crashes' = crashes + 1
    /\ owner' = IF owner = c THEN None ELSE owner
    /\ UNCHANGED <<worldVars, committed, next, found, index, pastVars, faults,
                   moves>>

Crash(c) == pc[c] \notin {"dead", "down"} /\ Goto(c, "down") /\ Leaves(c)

\* poll() raises: the loop ends and the process lives on without a consumer.
LoopDies(c) == pc[c] = "poll" /\ Goto(c, "dead") /\ Leaves(c)

\* The container is restarted (restart: unless-stopped).
Restart(c) ==
    /\ pc[c] = "down"
    /\ Goto(c, "poll")
    /\ UNCHANGED <<worldVars, kafkaVars, next, found, index, pastVars, boundVars>>

-----------------------------------------------------------------------------

User ==
    \E o \in Objects :
        \/ \E kind \in Kinds : Put(o, kind) \/ Noise(o, kind)
        \/ Remove(o)

ConsumerStep(c) ==
    \/ Assign(c) \/ Poll(c) \/ DeletePoints(c) \/ Load(c) \/ Upsert(c)
    \/ Commit(c) \/ Skip(c) \/ Restart(c)

Fault(c) == CallFails(c) \/ Crash(c) \/ LoopDies(c)

Next ==
    \/ User
    \/ Revoke
    \/ \E c \in Consumers : ConsumerStep(c) \/ Fault(c)

Spec == Init /\ [][Next]_vars

\* A live process runs and a killed one is restarted; users and faults are
\* free.
FairSpec == Spec /\ \A c \in Consumers : WF_vars(ConsumerStep(c))

-----------------------------------------------------------------------------
(* Properties.                                                             *)

(* Every variable has its type; only versions that exist are ever indexed  *)
(* (vectorizer/base.py:44-46 stops at an object that could not be loaded). *)
TypeOK ==
    /\ bucket \in [Objects -> 0 .. MaxEvents]
    /\ log \in Seq(Message) /\ Len(log) <= MaxEvents
    /\ committed \in 0 .. Len(log)
    /\ owner \in Consumers \cup {None}
    /\ pc \in [Consumers -> Locations]
    /\ next \in [Consumers -> 1 .. Len(log) + 1]
    /\ found \in [Consumers -> 0 .. MaxEvents]
    /\ index \in [Objects -> Seq(1 .. MaxEvents)]
    /\ handled \subseteq 1 .. Len(log)
    /\ newest \in [Objects -> 0 .. MaxEvents]
    /\ disturbed \subseteq Objects
    /\ crashes \in Nat /\ faults \in Nat /\ moves \in Nat

(* At least once: a committed message, and every message before it, has    *)
(* been handed to a handler that returned, through any crash, lost commit  *)
(* or change of owner in the middle of a handler (kafka_service.py:182).   *)
NoEventLost == 1 .. committed \subseteq handled

\* The owner has read all there is and nobody is inside a handler.
Quiescent ==
    /\ owner # None
    /\ next[owner] = Len(log) + 1
    /\ \A c \in Consumers : pc[c] \notin Working

\* Exactly one set of points, of the current version.  An overwrite with an
\* unsupported type is left out: the code leaves the old points in place.
Reflects(o) ==
    /\ bucket[o] = 0 => index[o] = <<>>
    /\ bucket[o] # 0 /\ log[bucket[o]].kind = "created" =>
            index[o] = <<bucket[o]>>

(* When everything has been consumed, the index holds each object once, at *)
(* its current version, and no removed object, although messages are       *)
(* handled again after a crash, and their objects may have been replaced   *)
(* or removed meanwhile (library.py:80-88, 90-111).  A failing call, which *)
(* is committed all the same (library.py:102), and two consumers at the    *)
(* same object (vectorizer/base.py:51) spoil that object and no other, and *)
(* its next notification that is handled undisturbed repairs it.           *)
QuiescentMeansIndexed ==
    Quiescent => \A o \in Objects \ disturbed : Reflects(o)

(* At every moment, in the middle of handlers too, the index holds no more *)
(* than one set of points of an object, of the version indexed last: what  *)
(* is inserted under fresh ids never adds to what an earlier or repeated   *)
(* handling has left, as it is deleted first and the insertion is not      *)
(* tried again (library.py:51-61, 80-97; vectorizer/base.py:51).           *)
OneSetOfPoints ==
    \A o \in Objects \ disturbed : index[o] \in {<<>>, <<newest[o]>>}

(* Handling an old message again never puts back an old version of the     *)
(* object: the content is what the bucket holds (vectorizer/base.py:43).   *)
(* Only a consumer that kept what it had read while another one rewrote    *)
(* the object can.                                                         *)
NeverGoesBack ==
    [][\A o \in Objects \ disturbed' : newest'[o] >= newest[o]]_vars

(* Every notification is handled in the end, if one process more than the  *)
(* consumer threads that may die is running (kafka_service.py:147-189).    *)
EventuallyHandled ==
    \A n \in 1 .. MaxEvents : Len(log) >= n ~> n \in handled
===============================================================================
