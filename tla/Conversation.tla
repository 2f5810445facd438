----------------------------- MODULE Conversation -----------------------------
(***************************************************************************)
(* One conversation through the graph that internal/graph/builder/graph.py *)
(* builds: the primary agent answers, uses its tools, or hands over to     *)
(* another agent, whose last message is reported back to it.  The messages *)
(* of the conversation are kept by the checkpointer (internal/graph/       *)
(* memory.py) under the conversation's id: a run starts from the newest    *)
(* checkpoint and adds one after every step, which a thread behind it      *)
(* writes to the database.                                                 *)
(*                                                                         *)
(* LangGraph's run, retries and checkpoints, and LangChain's agent loop    *)
(* and summaries, are external; they are modelled as src configures them.  *)
(* Runs of one conversation should not overlap, but may (the modules       *)
(* CompletionStream and StreamContract are about that).                    *)
(*                                                                         *)
(* pc[r], where the run of request r is:                                   *)
(*    idle                            not begun                            *)
(*    primary agent                   a step of the graph                  *)
(*    finishing failing leaving       over, but for checkpoints on the way *)
(*    answered failed cut dead        over                                 *)
(***************************************************************************)
EXTENDS Naturals, Sequences, FiniteSets

CONSTANTS
    Requests,           \* requests of one conversation
    Attaching,          \* those with images and the console's logs
    RECURSION_LIMIT,    \* steps of a graph, DEFAULT_RECURSION_LIMIT
    MAX_ATTEMPTS,       \* attempts of an agent, RetryPolicy's default
    MaxSummaries,       \* bound on the summaries in a conversation
    MaxOverlapped,      \* bound on the runs that are not alone
    MaxFaults,          \* bound on calls of the database that fail
    MaxCrashes          \* bound on the deaths of the process

ASSUME ConversationAssumption ==
    /\ Attaching \subseteq Requests
    /\ RECURSION_LIMIT \in Nat \ {0} /\ MAX_ATTEMPTS \in Nat \ {0}
    /\ MaxSummaries \in Nat /\ MaxOverlapped \in Nat
    /\ MaxFaults \in Nat /\ MaxCrashes \in Nat

VARIABLES
    memory,         \* the conversation's newest checkpoint in the database
    clock,          \* checkpoints made so far, which gives them their order
    pc,
    messages,       \* the graph's messages in each run
    fresh,          \* what the primary agent has added to them in its turn
    steps,          \* steps of the graph
    turns,          \* calls of the model in a turn of the primary agent
    attempts,       \* failed attempts of the agent at work
    pending,        \* checkpoints on their way to the database
    broken,         \* runs with a checkpoint that could not be written
    faults, crashes,
    overlapped      \* history: runs that were not alone

vars == <<memory, clock, pc, messages, fresh, steps, turns, attempts, pending,
          broken, faults, crashes, overlapped>>
counts == <<steps, turns, attempts>>
bounds == <<faults, crashes>>

Kinds == {"user", "images", "console", "call", "result", "summary", "report",
          "answer"}
Message == [kind : Kinds, run : Requests, step : Nat, turn : Nat]
Checkpoint == [stamp : Nat, messages : Seq(Message)]

Closing == [finishing |-> "answered", failing |-> "failed", leaving |-> "cut"]
Active == {"primary", "agent", "finishing", "failing", "leaving"}
Over == {"answered", "failed", "cut", "dead"}

\* What run r says next.
Says(kind, r) == [kind |-> kind, run |-> r, step |-> steps[r], turn |-> turns[r]]

Goto(r, l) == pc' = [pc EXCEPT ![r] = l]

\* The run is given up, with what it had in hand, and l comes next.
GiveUp(r, l) ==
    /\ Goto(r, l)
    /\ messages' = [messages EXCEPT ![r] = <<>>]
    /\ fresh' = [fresh EXCEPT ![r] = <<>>]
    /\ steps' = [steps EXCEPT ![r] = 0]
    /\ turns' = [turns EXCEPT ![r] = 0]
    /\ attempts' = [attempts EXCEPT ![r] = 0]
    /\ UNCHANGED <<memory, clock, pending, broken, bounds, overlapped>>

\* The graph raises.
Fails(r) == GiveUp(r, "failing")

\* The graph's messages become m, and are put on their way to the database.
Save(r, m) ==
    /\ messages' = [messages EXCEPT ![r] = m]
    /\ clock' = clock + 1
    /\ pending' = [pending EXCEPT
            ![r] = Append(@, [stamp |-> clock + 1, messages |-> m])]

Fault == faults < MaxFaults /\ faults' = faults + 1

Init ==
    /\ memory = [stamp |-> 0, messages |-> <<>>]
    /\ clock = 0
    /\ pc = [r \in Requests |-> "idle"]
    /\ messages = [r \in Requests |-> <<>>]
    /\ fresh = [r \in Requests |-> <<>>]
    /\ steps = [r \in Requests |-> 0]
    /\ turns = [r \in Requests |-> 0]
    /\ attempts = [r \in Requests |-> 0]
    /\ pending = [r \in Requests |-> <<>>]
    /\ broken = {}
    /\ faults = 0 /\ crashes = 0
    /\ overlapped = {}

-----------------------------------------------------------------------------
(* The beginning of a run.                                                 *)

\* The text, the images if any could be fetched, and the console's logs.
Inputs(r) ==
    IF r \in Attaching
    THEN {<<Says("user", r)>> \o images \o <<Says("console", r)>> :
            images \in {<<>>, <<Says("images", r)>>}}
    ELSE {<<Says("user", r)>>}

Running == {r \in Requests : pc[r] \in Active}

\* A bug to be caught: the thread is not named by the conversation, and the run
\* finds no checkpoint.
MutStart(r) ==
    /\ pc[r] = "idle"
    /\ \E input \in Inputs(r) : Save(r, input)
    /\ steps' = [steps EXCEPT ![r] = 1]
    /\ overlapped' = IF Running = {} THEN overlapped
                     ELSE overlapped \cup Running \cup {r}
    /\ Cardinality(overlapped') <= MaxOverlapped
    /\ Goto(r, "primary")
    /\ UNCHANGED <<memory, fresh, turns, attempts, broken, bounds>>

\* The input is added to the messages of the conversation's newest checkpoint.
Start(r) ==
    /\ pc[r] = "idle"
    /\ \E input \in Inputs(r) : Save(r, memory.messages \o input)
    /\ steps' = [steps EXCEPT ![r] = 1]
    /\ overlapped' = IF Running = {} THEN overlapped
                     ELSE overlapped \cup Running \cup {r}
    /\ Cardinality(overlapped') <= MaxOverlapped
    /\ Goto(r, "primary")
    /\ UNCHANGED <<memory, fresh, turns, attempts, broken, bounds>>

\* The checkpoint could not be read.
LoadFails(r) ==
    /\ pc[r] = "idle"
    /\ Fault
    /\ Goto(r, "failed")
    /\ UNCHANGED <<memory, clock, messages, fresh, counts, pending, broken,
                   crashes, overlapped>>

-----------------------------------------------------------------------------
(* The primary agent.                                                      *)

\* Neither the graph nor the agent, which is a graph itself, goes beyond the
\* recursion limit.  A turn of the agent takes three steps: the middleware, the
\* model, and the tools.
MayRun(r) == pc[r] \in {"primary", "agent"} /\ steps[r] <= RECURSION_LIMIT
MayAnswer(r) ==
    MayRun(r) /\ pc[r] = "primary" /\ 3 * turns[r] + 2 <= RECURSION_LIMIT
MayCall(r) ==
    MayRun(r) /\ pc[r] = "primary" /\ 3 * turns[r] + 3 <= RECURSION_LIMIT

TooManySteps(r) ==
    /\ \/ pc[r] = "primary" /\ ~MayCall(r)
       \/ pc[r] = "agent" /\ ~MayRun(r)
    /\ Fails(r)

\* Where the agent's own messages may be cut: no result is cut off from its call.
Cuts(r) ==
    {k \in 1 .. Len(fresh[r]) + 1 :
        k \in DOMAIN fresh[r] => fresh[r][k].kind # "result"}

Summaries(m) == {i \in DOMAIN m : m[i].kind = "summary"}

\* What the middleware leaves of them before the model is called: all, or a
\* summary and the last ones.
Summarized(r) ==
    {fresh[r]} \cup
    {<<Says("summary", r)>> \o SubSeq(fresh[r], k, Len(fresh[r])) :
        k \in {k \in Cuts(r) :
            Cardinality(Summaries(messages[r] \o fresh[r])) < MaxSummaries}}

\* add_messages: what the agent has in its view of the messages and the graph
\* has not is added to them; what a summary took out of the view stays.
Merged(r, m) == messages[r] \o m

\* The model calls a tool, which answers whatever happens to it.
UseTool(r) ==
    /\ MayCall(r)
    /\ \E m \in Summarized(r) :
        fresh' = [fresh EXCEPT ![r] = m \o <<Says("call", r), Says("result", r)>>]
    /\ turns' = [turns EXCEPT ![r] = @ + 1]
    /\ UNCHANGED <<memory, clock, pc, messages, steps, attempts, pending, broken,
                   bounds, overlapped>>

\* A step of the graph ends with messages m, and the next is at l.
StepEnds(r, m, l) ==
    /\ Save(r, m)
    /\ fresh' = [fresh EXCEPT ![r] = <<>>]
    /\ steps' = [steps EXCEPT ![r] = @ + 1]
    /\ turns' = [turns EXCEPT ![r] = 0]
    /\ attempts' = [attempts EXCEPT ![r] = 0]
    /\ Goto(r, l)

\* A bug to be caught: the call of the handoff tool is handed over with the rest.
MutHandoff(r) ==
    /\ MayCall(r)
    /\ \E m \in Summarized(r) :
        StepEnds(r, Merged(r, m \o <<Says("call", r)>>), "agent")
    /\ UNCHANGED <<memory, broken, bounds, overlapped>>

\* The model calls a handoff tool.  The message with that call, which never
\* gets a result, is left out, and with it every call made beside it.
Handoff(r) ==
    /\ MayCall(r)
    /\ \E m \in Summarized(r) : StepEnds(r, Merged(r, m), "agent")
    /\ UNCHANGED <<memory, broken, bounds, overlapped>>

Answer(r) ==
    /\ MayAnswer(r)
    /\ \E m \in Summarized(r) :
        StepEnds(r, Merged(r, m \o <<Says("answer", r)>>), "finishing")
    /\ UNCHANGED <<memory, broken, bounds, overlapped>>

\* The model's client gave up: the primary agent is not retried.
ModelFails(r) ==
    /\ pc[r] = "primary"
    /\ Fails(r)

-----------------------------------------------------------------------------
(* Another agent.                                                          *)

\* Of all that the agent said, call_agent returns the last message.
Report(r) ==
    /\ pc[r] = "agent" /\ MayRun(r)
    /\ StepEnds(r, Merged(r, <<Says("report", r)>>), "primary")
    /\ UNCHANGED <<memory, broken, bounds, overlapped>>

\* A bug to be caught: an agent that has failed too often starts over.
MutAgentFails(r) ==
    /\ pc[r] = "agent"
    /\ attempts' = [attempts EXCEPT ![r] = (@ + 1) % MAX_ATTEMPTS]
    /\ UNCHANGED <<memory, clock, pc, messages, fresh, steps, turns, pending,
                   broken, bounds, overlapped>>

\* A bug to be caught: one attempt too many.
MutOneMore(r) ==
    /\ pc[r] = "agent"
    /\ \/ /\ attempts[r] + 1 <= MAX_ATTEMPTS
          /\ attempts' = [attempts EXCEPT ![r] = @ + 1]
          /\ UNCHANGED <<memory, clock, pc, messages, fresh, steps, turns,
                         pending, broken, bounds, overlapped>>
       \/ Fails(r)

\* The agent raises, and is tried again unless that was its last attempt or
\* the policy does not retry the error.
AgentFails(r) ==
    /\ pc[r] = "agent"
    /\ \/ /\ attempts[r] + 1 < MAX_ATTEMPTS
          /\ attempts' = [attempts EXCEPT ![r] = @ + 1]
          /\ UNCHANGED <<memory, clock, pc, messages, fresh, steps, turns,
                         pending, broken, bounds, overlapped>>
       \/ Fails(r)

-----------------------------------------------------------------------------
(* Checkpoints and the end of a run.                                       *)

\* The checkpoint made last is the one that is read, however late it came.
Write(r) ==
    /\ pending[r] # <<>>
    /\ memory' = IF Head(pending[r]).stamp > memory.stamp THEN Head(pending[r])
                 ELSE memory
    /\ pending' = [pending EXCEPT ![r] = Tail(@)]
    /\ UNCHANGED <<clock, pc, messages, fresh, counts, broken, bounds, overlapped>>

\* The run goes on, and the error is raised at its end.
WriteFails(r) ==
    /\ pending[r] # <<>>
    /\ Fault
    /\ pending' = [pending EXCEPT ![r] = Tail(@)]
    /\ broken' = broken \cup {r}
    /\ UNCHANGED <<memory, clock, pc, messages, fresh, counts, crashes, overlapped>>

\* stream() returns when its checkpoints are written.
End(r) ==
    /\ pc[r] \in DOMAIN Closing /\ pending[r] = <<>>
    /\ GiveUp(r, IF pc[r] = "finishing" /\ r \in broken THEN "failed"
                 ELSE Closing[pc[r]])

\* The client goes away between two chunks, and the generator is given up.
Abandon(r) ==
    /\ pc[r] \in {"primary", "agent"}
    /\ GiveUp(r, "leaving")

Crash ==
    /\ crashes < MaxCrashes /\ crashes' = crashes + 1
    /\ pc' = [r \in Requests |-> IF r \in Running THEN "dead" ELSE pc[r]]
    /\ messages' = [r \in Requests |-> <<>>]
    /\ fresh' = [r \in Requests |-> <<>>]
    /\ steps' = [r \in Requests |-> 0]
    /\ turns' = [r \in Requests |-> 0]
    /\ attempts' = [r \in Requests |-> 0]
    /\ pending' = [r \in Requests |-> <<>>]
    /\ UNCHANGED <<memory, clock, broken, faults, overlapped>>

-----------------------------------------------------------------------------

Step(r) ==
    \/ TooManySteps(r) \/ UseTool(r) \/ Handoff(r) \/ Answer(r) \/ ModelFails(r)
    \/ Report(r) \/ AgentFails(r) \/ Write(r) \/ WriteFails(r) \/ End(r)

Next ==
    \/ Crash
    \/ \E r \in Requests :
        \/ Start(r) \/ LoadFails(r) \/ Abandon(r) \/ Step(r)

Spec == Init /\ [][Next]_vars

\* A run that is begun goes on: models and tools answer or time out.
FairSpec == Spec /\ \A r \in Requests : WF_vars(Step(r))

-----------------------------------------------------------------------------
(* Properties.                                                             *)

\* Every variable has its type.
TypeOK ==
    /\ memory \in Checkpoint /\ clock \in Nat
    /\ pc \in [Requests -> {"idle"} \cup Active \cup Over]
    /\ messages \in [Requests -> Seq(Message)]
    /\ fresh \in [Requests -> Seq(Message)]
    /\ steps \in [Requests -> Nat] /\ turns \in [Requests -> Nat]
    /\ attempts \in [Requests -> 0 .. MAX_ATTEMPTS - 1]
    /\ pending \in [Requests -> Seq(Checkpoint)]
    /\ broken \subseteq Requests /\ overlapped \subseteq Requests
    /\ faults \in 0 .. MaxFaults /\ crashes \in 0 .. MaxCrashes

\* Each call in m has its result behind it, and each result its call before it.
Paired(m) ==
    \A i \in DOMAIN m :
        /\ m[i].kind = "call" =>
            i + 1 \in DOMAIN m /\ m[i + 1] = [m[i] EXCEPT !.kind = "result"]
        /\ m[i].kind = "result" =>
            i - 1 \in DOMAIN m /\ m[i - 1] = [m[i] EXCEPT !.kind = "call"]

\* No model ever refuses a conversation because of a call without its result or
\* a result without its call: what a run shows to the next step, and what it
\* leaves for later runs, has them in pairs, through handoffs, summaries, retries and
\* failing steps (primary_agent.py:86-97, graph.py:147-157).
CallsAreAnswered ==
    Paired(memory.messages) /\ \A r \in Requests : Paired(messages[r])

\* The question of r is in m, and its answer after it.
Remembers(m, r) ==
    \E i, j \in DOMAIN m :
        /\ i < j
        /\ m[i].kind = "user" /\ m[i].run = r
        /\ m[j].kind = "answer" /\ m[j].run = r

\* What a client got an answer to is never forgotten: the input and the answer
\* after it are in the newest checkpoint from then on, whatever later runs,
\* crashes and failing writes do, if the run was alone (graph.py:39-41,188-192).
AnsweredIsRemembered ==
    \A r \in Requests \ overlapped :
        pc[r] = "answered" => Remembers(memory.messages, r)

\* A run that is begun is over in the end, however often agents hand over, use
\* tools, fail and are tried again (base.py:259, graph.py:179-183).
RunsEnd == \A r \in Requests : pc[r] # "idle" ~> pc[r] \in Over

===============================================================================
