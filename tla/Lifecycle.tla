------------------------------- MODULE Lifecycle -------------------------------
(***************************************************************************)
(* One life of the process: main.py, whose lifespan starts a thread for    *)
(* the gRPC server and one for the Kafka consumer and stops both, and the  *)
(* start and stop of the consumer in services/connector/kafka_service.py.  *)
(*                                                                         *)
(* The second that the lifespan sleeps after starting the threads, and the *)
(* five of the grace and of the join, are no bounds on what other threads  *)
(* do meanwhile.  A thread that nobody joins takes steps until the process *)
(* is gone.                                                                *)
(***************************************************************************)
EXTENDS Integers

CONSTANT
    Requests        \* requests of clients

VARIABLES
    main,           \* the lifespan of the web application
    stage,          \* grpc_server: None until the global is assigned
    request,        \* what has become of each request
    kafka_thread,   \* start_kafka_consumer, and start_consumer in it
    stop,           \* _stop is set
    poll,           \* _loop, the consumer's background thread
    coroutine,      \* the handler's coroutine that was handed to the event loop
    late            \* history: messages handed over with _stop set

vars == <<main, stage, request, kafka_thread, stop, poll, coroutine, late>>
server == <<stage, request>>
loop == <<poll, coroutine, late>>

\* How close() has left: joined, without a thread to join, after the timeout.
Closed == {"joined", "no thread", "gave up"}

\* How the lifespan is left; "raised" by a join before the thread's start.
Left == Closed \cup {"no consumer", "raised"}

Init ==
    /\ main = "new"
    /\ stage = "None"
    /\ request = [r \in Requests |-> "new"]
    /\ kafka_thread = "new"
    /\ stop = FALSE
    /\ poll = "none" /\ coroutine = "none"
    /\ late = 0

Alive == main # "exited"
Started == main \notin {"new", "exited"}

-----------------------------------------------------------------------------
(* The lifespan.                                                           *)

MainGoes(l, m) == main = l /\ main' = m

Startup == MainGoes("new", "serving") /\ UNCHANGED <<server, kafka_thread, stop, loop>>

\* The signal to stop: uvicorn resumes the lifespan after its yield.
Signal == MainGoes("serving", "shutdown") /\ UNCHANGED <<server, kafka_thread, stop, loop>>

\* stop(grace) returns at once, and leaves a server alone that is not started.
StopServer ==
    /\ MainGoes("shutdown", "close")
    /\ stage' = IF stage = "started" THEN "grace" ELSE stage
    /\ UNCHANGED <<request, kafka_thread, stop, loop>>

\* The global kafka_consumer is assigned when its constructor has returned.
Published == kafka_thread \notin {"new", "failed"}

NoConsumer ==
    /\ MainGoes("close", "no consumer") /\ ~Published
    /\ UNCHANGED <<server, kafka_thread, stop, loop>>

StopConsumer ==
    /\ MainGoes("close", "join") /\ Published
    /\ stop' = TRUE
    /\ UNCHANGED <<server, kafka_thread, loop>>

\* _thread is assigned in one step and started in the next.
Join ==
    /\ \/ MainGoes("join", "joined") /\ poll = "ended"
       \/ MainGoes("join", "raised") /\ kafka_thread = "assigned"
       \/ MainGoes("join", "no thread")
              /\ kafka_thread \in {"constructed", "cleared", "ended"}
    /\ UNCHANGED <<server, kafka_thread, stop, loop>>

\* A bug to be caught: the join has no timeout.
MutJoinTimesOut == FALSE /\ UNCHANGED vars

JoinTimesOut ==
    /\ MainGoes("join", "gave up") /\ poll \notin {"none", "ended"}
    /\ UNCHANGED <<server, kafka_thread, stop, loop>>

\* The interpreter joins the threads of the server's pool and no others.
Exit ==
    /\ main \in Left /\ main' = "exited"
    /\ \A r \in Requests : request[r] \in {"new", "over"}
    /\ UNCHANGED <<server, kafka_thread, stop, loop>>

-----------------------------------------------------------------------------
(* start_grpc_server and the server's pool.                                *)

StartServer ==
    /\ Started
    /\ \/ stage = "None" /\ stage' = "made"
       \/ stage = "made" /\ stage' = "started"
    /\ UNCHANGED <<main, request, kafka_thread, stop, loop>>

Serve(r) ==
    /\ Alive /\ stage = "started"
    /\ request[r] = "new"
    /\ request' = [request EXCEPT ![r] = "running"]
    /\ UNCHANGED <<main, stage, kafka_thread, stop, loop>>

\* The servicer leaves its worker.
RequestEnds(r) ==
    /\ Alive /\ request[r] \in {"running", "cancelled"}
    /\ request' = [request EXCEPT ![r] = "over"]
    /\ UNCHANGED <<main, stage, kafka_thread, stop, loop>>

\* The calls that are left are cancelled; the workers that run them go on.
GraceEnds ==
    /\ Alive /\ stage = "grace" /\ stage' = "dead"
    /\ request' = [r \in Requests |-> IF request[r] = "running" THEN "cancelled"
                                      ELSE request[r]]
    /\ UNCHANGED <<main, kafka_thread, stop, loop>>

-----------------------------------------------------------------------------
(* start_kafka_consumer, and start_consumer in it.                         *)

KafkaGoes(l, m) == Started /\ kafka_thread = l /\ kafka_thread' = m

\* The constructor, or subscribe, raises: the event loop is closed.
StartFails ==
    /\ KafkaGoes("new", "failed") \/ KafkaGoes("constructed", "ended")
    /\ UNCHANGED <<main, server, stop, loop>>

Construct == KafkaGoes("new", "constructed") /\ UNCHANGED <<main, server, stop, loop>>

\* subscribe, _stop.clear().
ClearStop ==
    /\ KafkaGoes("constructed", "cleared")
    /\ stop' = FALSE
    /\ UNCHANGED <<main, server, loop>>

AssignThread == KafkaGoes("cleared", "assigned") /\ UNCHANGED <<main, server, stop, loop>>

StartThread ==
    /\ KafkaGoes("assigned", "launched")
    /\ poll' = "check"
    /\ UNCHANGED <<main, server, stop, coroutine, late>>

\* A bug to be caught: the thread ends after start_consumer, its loop closed.
MutRunForever == KafkaGoes("launched", "ended") /\ UNCHANGED <<main, server, stop, loop>>

RunForever == KafkaGoes("launched", "forever") /\ UNCHANGED <<main, server, stop, loop>>

\* The event loop runs what it was handed.
RunCoroutine ==
    /\ Alive /\ kafka_thread = "forever"
    /\ \/ coroutine = "queued" /\ coroutine' = "running"
       \/ coroutine = "running" /\ coroutine' = "done"
    /\ UNCHANGED <<main, server, kafka_thread, stop, poll, late>>

-----------------------------------------------------------------------------
(* The poll thread, _loop of start_consumer.                               *)

PollGoes(l, m) == Alive /\ poll = l /\ poll' = m

CheckStop ==
    /\ PollGoes("check", IF stop THEN "close" ELSE "poll")
    /\ UNCHANGED <<main, server, kafka_thread, stop, coroutine, late>>

\* No message, or an error of the consumer.
PollNothing ==
    /\ PollGoes("poll", "check")
    /\ UNCHANGED <<main, server, kafka_thread, stop, coroutine, late>>

\* A message: the handler's coroutine is handed over, and waited for.
HandOver ==
    /\ PollGoes("poll", "waiting")
    /\ coroutine' = "queued"
    /\ late' = IF stop /\ late < 2 THEN late + 1 ELSE late
    /\ UNCHANGED <<main, server, kafka_thread, stop>>

\* A bug to be caught: on to the next message without a look at the flag.
MutTakeResult ==
    /\ PollGoes("waiting", "poll") /\ coroutine = "done"
    /\ coroutine' = "none"
    /\ UNCHANGED <<main, server, kafka_thread, stop, late>>

\* result(), then the commit.
TakeResult ==
    /\ PollGoes("waiting", "check") /\ coroutine = "done"
    /\ coroutine' = "none"
    /\ UNCHANGED <<main, server, kafka_thread, stop, late>>

\* An exception of poll, or of what is outside the inner try.
LoopFails ==
    /\ PollGoes("poll", "close")
    /\ UNCHANGED <<main, server, kafka_thread, stop, coroutine, late>>

\* finally: consumer.close().
CloseConsumer ==
    /\ PollGoes("close", "ended")
    /\ UNCHANGED <<main, server, kafka_thread, stop, coroutine, late>>

-----------------------------------------------------------------------------

Shutdown == StopServer \/ NoConsumer \/ StopConsumer \/ Join \/ JoinTimesOut \/ Exit
Grpc == StartServer \/ GraceEnds \/ \E r \in Requests : Serve(r) \/ RequestEnds(r)
Starting == Construct \/ ClearStop \/ AssignThread \/ StartThread \/ RunForever
Polling == CheckStop \/ PollNothing \/ HandOver \/ TakeResult \/ LoopFails \/ CloseConsumer

Next == Startup \/ Signal \/ Shutdown \/ Grpc \/ StartFails \/ Starting
        \/ RunCoroutine \/ Polling

Spec == Init /\ [][Next]_vars

\* Threads are scheduled, a handler's coroutine ends, and so does a request
\* (EveryRequestEnds of CompletionStream).  Nothing makes the signal come.
FairSpec ==
    /\ Spec
    /\ WF_vars(Shutdown) /\ WF_vars(Starting \/ StartFails)
    /\ WF_vars(RunCoroutine) /\ WF_vars(Polling)
    /\ \A r \in Requests : WF_vars(RequestEnds(r))

-----------------------------------------------------------------------------

\* Every thread is at one of its steps, and the counter has not run away.
TypeOK ==
    /\ main \in {"new", "serving", "shutdown", "close", "join", "exited"} \cup Left
    /\ stage \in {"None", "made", "started", "grace", "dead"}
    /\ request \in [Requests -> {"new", "running", "cancelled", "over"}]
    /\ kafka_thread \in {"new", "failed", "constructed", "cleared", "assigned",
                         "launched", "forever", "ended"}
    /\ stop \in BOOLEAN
    /\ poll \in {"none", "check", "poll", "waiting", "close", "ended"}
    /\ coroutine \in {"none", "queued", "running", "done"}
    /\ late \in 0 .. 2

\* However close() races with the poll thread and the consumer's start, at most
\* one more message is handed to the handlers while the stop flag is set: the
\* one whose poll had begun.
OneMessageAfterStop == late <= 1

\* The poll thread has handed over one coroutine exactly while it waits, to an
\* event loop that runs or is about to, never to one that is closed.
HandsOneMessage ==
    /\ poll = "waiting" <=> coroutine # "none"
    /\ poll = "waiting" => kafka_thread \in {"launched", "forever"}

\* Asked to stop, the process exits, whatever start and stop have done to each
\* other and whatever hangs on to the consumer's thread.
ShutdownEnds == main = "shutdown" ~> main = "exited"

\* A message that was handed over comes to its answer, also when it was handed
\* over before the event loop ran, unless the process exits.
HandedOverIsAnswered == poll = "waiting" ~> (poll # "waiting" \/ main = "exited")

=============================================================================
