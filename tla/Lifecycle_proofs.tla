--------------------------- MODULE Lifecycle_proofs ---------------------------
(***************************************************************************)
(* Proofs about Lifecycle, for any set of requests.                        *)
(***************************************************************************)
EXTENDS Lifecycle, TLAPS

\* The poll thread is there once the consumer's thread has started it, and that
\* thread is past the point where it clears the stop flag.
Launched == poll # "none" <=> kafka_thread \in {"launched", "forever"}

\* A message that was handed over late is the poll thread's last: the flag was set
\* before its poll returned, nobody clears it any more, and the next look sees it.
LastPoll ==
    late > 0 => /\ late = 1 /\ stop
                /\ poll \in {"waiting", "check", "close", "ended"}

LInv ==
    /\ TypeOK /\ Launched /\ LastPoll
    /\ poll = "waiting" <=> coroutine # "none"

\* All but the poll thread, the consumer's start and the stop flag.
Elsewhere ==
    \/ Startup \/ Signal \/ StopServer \/ NoConsumer \/ Join \/ JoinTimesOut \/ Exit
    \/ Grpc

\* The lifespan and the server touch none of what the invariant is about.
LEMMA ElsewhereKeeps == LInv /\ Elsewhere => LInv'
<1> SUFFICES ASSUME LInv, Elsewhere PROVE LInv'
  OBVIOUS
<1> USE DEF LInv
<1>1. UNCHANGED <<kafka_thread, stop, poll, coroutine, late>>
  BY DEF Elsewhere, Startup, Signal, StopServer, NoConsumer, Join, JoinTimesOut, Exit,
     Grpc, StartServer, Serve, RequestEnds, GraceEnds, loop
<1>2. CASE Startup \/ Signal \/ StopServer \/ NoConsumer \/ Join \/ JoinTimesOut \/ Exit
  <2>1. main' \in {"new", "serving", "shutdown", "close", "join", "exited"} \cup Left
    BY <1>2 DEF TypeOK, Startup, Signal, StopServer, NoConsumer, Join, JoinTimesOut,
       Exit, MainGoes, Left, Closed
  <2>2. /\ stage' \in {"None", "made", "started", "grace", "dead"}
        /\ request' = request
    BY <1>2 DEF TypeOK, Startup, Signal, StopServer, NoConsumer, Join, JoinTimesOut,
       Exit, server
  <2> QED
    BY <1>1, <2>1, <2>2 DEF TypeOK, Launched, LastPoll
<1>3. CASE Grpc
  <2>1. main' = main /\ stage' \in {"None", "made", "started", "grace", "dead"}
    BY <1>3 DEF TypeOK, Grpc, StartServer, Serve, RequestEnds, GraceEnds
  <2>2. request' \in [Requests -> {"new", "running", "cancelled", "over"}]
    BY <1>3 DEF TypeOK, Grpc, StartServer, Serve, RequestEnds, GraceEnds
  <2> QED
    BY <1>1, <2>1, <2>2 DEF TypeOK, Launched, LastPoll
<1> QED
  BY <1>2, <1>3 DEF Elsewhere

\* close() sets the flag, and the consumer's start may clear it only before there
\* is a poll thread.
LEMMA StartAndStopKeep == LInv /\ (StopConsumer \/ StartFails \/ Starting) => LInv'
<1> SUFFICES ASSUME LInv, StopConsumer \/ StartFails \/ Starting PROVE LInv'
  OBVIOUS
<1> USE DEF LInv, TypeOK, Launched, LastPoll
<1>1. CASE StopConsumer
  BY <1>1 DEF StopConsumer, MainGoes, server, loop
<1>2. CASE StartFails
  BY <1>2 DEF StartFails, KafkaGoes, server, loop
<1>3. CASE Construct
  BY <1>3 DEF Construct, KafkaGoes, server, loop
<1>4. CASE ClearStop
  BY <1>4 DEF ClearStop, KafkaGoes, server, loop
<1>5. CASE AssignThread
  BY <1>5 DEF AssignThread, KafkaGoes, server, loop
<1>6. CASE StartThread
  BY <1>6 DEF StartThread, KafkaGoes, server
<1>7. CASE RunForever
  BY <1>7 DEF RunForever, KafkaGoes, server, loop
<1> QED
  BY <1>1, <1>2, <1>3, <1>4, <1>5, <1>6, <1>7 DEF Starting

\* The poll thread looks at the flag between two messages.
LEMMA PollingKeeps == LInv /\ (RunCoroutine \/ Polling) => LInv'
<1> SUFFICES ASSUME LInv, RunCoroutine \/ Polling PROVE LInv'
  OBVIOUS
<1> USE DEF LInv, TypeOK, Launched, LastPoll
<1>1. CASE RunCoroutine
  BY <1>1 DEF RunCoroutine, server
<1>2. CASE CheckStop
  BY <1>2 DEF CheckStop, PollGoes, server
<1>3. CASE PollNothing
  BY <1>3 DEF PollNothing, PollGoes, server
<1>4. CASE HandOver
  BY <1>4 DEF HandOver, PollGoes, server
<1>5. CASE TakeResult
  <2>1. /\ poll = "waiting" /\ poll' = "check" /\ coroutine' = "none"
        /\ UNCHANGED <<main, stage, request, kafka_thread, stop, late>>
    BY <1>5 DEF TakeResult, PollGoes, server
  <2> QED
    BY <2>1
<1>6. CASE LoopFails
  BY <1>6 DEF LoopFails, PollGoes, server
<1>7. CASE CloseConsumer
  BY <1>7 DEF CloseConsumer, PollGoes, server
<1> QED
  BY <1>1, <1>2, <1>3, <1>4, <1>5, <1>6, <1>7 DEF Polling

\* The invariant holds of every behaviour.
LEMMA Inductive == Spec => []LInv
<1>1. Init => LInv
  <2> SUFFICES ASSUME Init PROVE LInv
    OBVIOUS
  <2>1. request \in [Requests -> {"new", "running", "cancelled", "over"}]
    BY DEF Init
  <2>2. TypeOK
    <3>1. stop \in BOOLEAN
      BY Zenon DEF Init
    <3>2. main = "new" /\ stage = "None" /\ kafka_thread = "new" /\ late = 0
      BY DEF Init
    <3>3. poll = "none" /\ coroutine = "none"
      BY DEF Init
    <3>4. late \in 0 .. 2
      BY <3>2
    <3> QED
      BY <2>1, <3>1, <3>2, <3>3, <3>4, Zenon DEF TypeOK
  <2>3. Launched /\ LastPoll /\ (poll = "waiting" <=> coroutine # "none")
    BY DEF Init, Launched, LastPoll
  <2> QED
    BY <2>2, <2>3 DEF LInv
<1>2. LInv /\ [Next]_vars => LInv'
  <2> SUFFICES ASSUME LInv, [Next]_vars PROVE LInv'
    OBVIOUS
  <2>1. CASE UNCHANGED vars
    BY <2>1 DEF LInv, TypeOK, Launched, LastPoll, vars
  <2>2. CASE Next
    BY <2>2, ElsewhereKeeps, StartAndStopKeep, PollingKeeps
       DEF Next, Shutdown, Elsewhere
  <2> QED
    BY <2>1, <2>2
<1> QED
  BY <1>1, <1>2, PTL DEF Spec

\* Every thread is at one of its steps.
THEOREM Typing == Spec => []TypeOK
<1>1. LInv => TypeOK
  BY DEF LInv
<1> QED
  BY <1>1, Inductive, PTL

\* However close() races with the consumer's start and its poll thread, one more
\* message at most is handed to the handlers with the stop flag set.
THEOREM OneMessage == Spec => []OneMessageAfterStop
<1>1. LInv => OneMessageAfterStop
  BY DEF LInv, TypeOK, LastPoll, OneMessageAfterStop
<1> QED
  BY <1>1, Inductive, PTL

\* The poll thread waits for one coroutine of an event loop that is not closed.
THEOREM OneCoroutine == Spec => []HandsOneMessage
<1>1. LInv => HandsOneMessage
  BY DEF LInv, Launched, HandsOneMessage
<1> QED
  BY <1>1, Inductive, PTL

===============================================================================
