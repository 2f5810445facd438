------------------------- MODULE Conversation_proofs -------------------------
(***************************************************************************)
(* Proofs about Conversation, for any number of requests and any limits.   *)
(***************************************************************************)
EXTENDS Conversation, SequenceTheorems, TLAPS

\* Whoever is not at work has nothing on the way to the database.
AtRest == \A r \in Requests : pc[r] \notin Active => pending[r] = <<>>

\* A run that was never with another is not with one now.
Alone ==
    \A r, q \in Requests :
        r \notin overlapped /\ pc[r] \in Active /\ q # r => pc[q] \notin Active

\* Checkpoints are stamped in the order in which they are made.
Stamped ==
    /\ memory.stamp <= clock
    /\ \A r \in Requests : \A i \in DOMAIN pending[r] :
        /\ pending[r][i].stamp <= clock
        /\ \A j \in DOMAIN pending[r] :
            i < j => pending[r][i].stamp < pending[r][j].stamp

\* What a run that is alone has on its way is newer than what is there.
Newer ==
    \A r \in Requests \ overlapped : \A i \in DOMAIN pending[r] :
        pc[r] \in Active => memory.stamp < pending[r][i].stamp

Asked(m, r) == \E i \in DOMAIN m : m[i].kind = "user" /\ m[i].run = r

\* The newest checkpoint as it will be when run r has written its own.
Latest(r) == IF pending[r] = <<>> THEN memory.messages
             ELSE pending[r][Len(pending[r])].messages

\* A run at work has its question, and a run that has answered its answer.
Own ==
    \A r \in Requests \ overlapped :
        /\ pc[r] \in {"primary", "agent"} => Asked(messages[r], r)
        /\ pc[r] = "finishing" /\ r \notin broken => Remembers(Latest(r), r)

\* What was answered is in everything that may become the newest checkpoint.
Others ==
    \A r \in Requests \ overlapped : pc[r] = "answered" =>
        /\ Remembers(memory.messages, r)
        /\ \A q \in Requests :
            /\ pc[q] \in {"primary", "agent"} => Remembers(messages[q], r)
            /\ \A i \in DOMAIN pending[q] : Remembers(pending[q][i].messages, r)

RInv == AtRest /\ Alone /\ Stamped /\ Newer /\ Own /\ Others

\* Calls and results are paired wherever there are messages.
PInv ==
    /\ Paired(memory.messages)
    /\ \A r \in Requests :
        /\ Paired(messages[r]) /\ Paired(fresh[r])
        /\ \A i \in DOMAIN pending[r] : Paired(pending[r][i].messages)

-----------------------------------------------------------------------------
(* Messages and sequences of them.                                         *)

\* What is said is a message.
LEMMA SaysTyped ==
    ASSUME TypeOK, NEW r \in Requests, NEW kind \in Kinds
    PROVE  Says(kind, r) \in Message
BY DEF TypeOK, Says, Message

\* The input of a run is made of messages.
LEMMA InputTyped ==
    ASSUME TypeOK, NEW r \in Requests, NEW input \in Inputs(r)
    PROVE  input \in Seq(Message)
<1>1. /\ Says("user", r) \in Message /\ Says("images", r) \in Message
      /\ Says("console", r) \in Message
  BY SaysTyped DEF Kinds
<1>2. /\ <<Says("user", r)>> \in Seq(Message)
      /\ <<Says("console", r)>> \in Seq(Message)
      /\ {<<>>, <<Says("images", r)>>} \subseteq Seq(Message)
  BY <1>1
<1>3. \A s \in Seq(Message) :
        <<Says("user", r)>> \o s \o <<Says("console", r)>> \in Seq(Message)
  BY <1>2, ConcatProperties
<1> QED
  BY <1>2, <1>3 DEF Inputs

\* A suffix of the agent's own messages.
LEMMA SuffixOfFresh ==
    ASSUME TypeOK, NEW r \in Requests, NEW k \in 1 .. Len(fresh[r]) + 1
    PROVE  LET s == SubSeq(fresh[r], k, Len(fresh[r])) IN
           /\ s \in Seq(Message)
           /\ Len(s) = Len(fresh[r]) - k + 1
           /\ \A i \in 1 .. Len(s) : s[i] = fresh[r][k + i - 1]
<1>1. fresh[r] \in Seq(Message)
  BY DEF TypeOK
<1>2. Len(fresh[r]) \in Nat /\ \A i \in 1 .. Len(fresh[r]) : fresh[r][i] \in Message
  BY <1>1
<1>3. \A i \in k .. Len(fresh[r]) : fresh[r][i] \in Message
  BY <1>2
<1> QED
  BY <1>2, <1>3, SubSeqProperties

\* So is what the middleware leaves of the agent's own messages.
LEMMA SummarizedTyped ==
    ASSUME TypeOK, NEW r \in Requests, NEW m \in Summarized(r)
    PROVE  m \in Seq(Message)
<1>1. CASE m = fresh[r]
  BY <1>1 DEF TypeOK
<1>2. CASE \E k \in Cuts(r) :
            m = <<Says("summary", r)>> \o SubSeq(fresh[r], k, Len(fresh[r]))
  <2>1. PICK k \in 1 .. Len(fresh[r]) + 1 :
            m = <<Says("summary", r)>> \o SubSeq(fresh[r], k, Len(fresh[r]))
    BY <1>2 DEF Cuts
  <2>2. SubSeq(fresh[r], k, Len(fresh[r])) \in Seq(Message)
    BY SuffixOfFresh
  <2>3. <<Says("summary", r)>> \in Seq(Message)
    BY SaysTyped DEF Kinds
  <2> QED
    BY <2>1, <2>2, <2>3, ConcatProperties
<1> QED
  BY <1>1, <1>2 DEF Summarized

\* What the agent adds to the graph's messages.
LEMMA MergedTyped ==
    ASSUME TypeOK, NEW r \in Requests, NEW m \in Seq(Message)
    PROVE  /\ Merged(r, m) \in Seq(Message)
           /\ \A kind \in Kinds : m \o <<Says(kind, r)>> \in Seq(Message)
<1>1. messages[r] \in Seq(Message)
  BY DEF TypeOK
<1>2. \A kind \in Kinds : <<Says(kind, r)>> \in Seq(Message)
  BY SaysTyped
<1> QED
  BY <1>1, <1>2, ConcatProperties DEF Merged

-----------------------------------------------------------------------------
(* Types.                                                                  *)

\* A checkpoint of messages keeps the types.
LEMMA SaveTyped ==
    ASSUME TypeOK, NEW r \in Requests, NEW m \in Seq(Message), Save(r, m)
    PROVE  /\ messages' \in [Requests -> Seq(Message)]
           /\ clock' \in Nat
           /\ pending' \in [Requests -> Seq(Checkpoint)]
<1>1. [stamp |-> clock + 1, messages |-> m] \in Checkpoint
  BY DEF TypeOK, Checkpoint
<1>2. pending[r] \in Seq(Checkpoint) /\ pending \in [Requests -> Seq(Checkpoint)]
  BY DEF TypeOK
<1>3. Append(pending[r], [stamp |-> clock + 1, messages |-> m]) \in Seq(Checkpoint)
  BY <1>1, <1>2, AppendProperties
<1> QED
  BY <1>2, <1>3 DEF TypeOK, Save

\* So does a step of the graph that ends.
LEMMA StepEndsTyped ==
    ASSUME TypeOK, NEW r \in Requests, NEW m \in Seq(Message),
           NEW l \in Active, StepEnds(r, m, l),
           UNCHANGED <<memory, broken, bounds, overlapped>>
    PROVE  TypeOK'
<1>1. /\ messages' \in [Requests -> Seq(Message)]
      /\ clock' \in Nat
      /\ pending' \in [Requests -> Seq(Checkpoint)]
  BY SaveTyped DEF StepEnds
<1>2. fresh' \in [Requests -> Seq(Message)]
  <2>1. <<>> \in Seq(Message)
    BY EmptySeq
  <2> QED
    BY <2>1 DEF TypeOK, StepEnds
<1>3. /\ steps' \in [Requests -> Nat] /\ turns' \in [Requests -> Nat]
      /\ attempts' \in [Requests -> 0 .. MAX_ATTEMPTS - 1]
  BY ConversationAssumption DEF TypeOK, StepEnds
<1>4. pc' \in [Requests -> {"idle"} \cup Active \cup Over]
  BY DEF TypeOK, StepEnds, Goto
<1> QED
  BY <1>1, <1>2, <1>3, <1>4 DEF TypeOK, bounds

\* And so does giving up.
LEMMA GiveUpTyped ==
    ASSUME TypeOK, NEW r \in Requests, NEW l \in Active \cup Over, GiveUp(r, l)
    PROVE  TypeOK'
<1>1. <<>> \in Seq(Message)
  BY EmptySeq
<1>2. messages' \in [Requests -> Seq(Message)] /\ fresh' \in [Requests -> Seq(Message)]
  BY <1>1 DEF TypeOK, GiveUp
<1>3. /\ steps' \in [Requests -> Nat] /\ turns' \in [Requests -> Nat]
      /\ attempts' \in [Requests -> 0 .. MAX_ATTEMPTS - 1]
  BY ConversationAssumption DEF TypeOK, GiveUp
<1>4. pc' \in [Requests -> {"idle"} \cup Active \cup Over]
  BY DEF TypeOK, GiveUp, Goto
<1> QED
  BY <1>2, <1>3, <1>4 DEF TypeOK, GiveUp, bounds

\* A run that begins keeps the types.
LEMMA StartTyped ==
    ASSUME TypeOK, NEW r \in Requests, Start(r)
    PROVE  TypeOK'
<1>1. PICK input \in Inputs(r) : Save(r, memory.messages \o input)
  BY DEF Start
<1>2. memory.messages \o input \in Seq(Message)
  <2>1. memory.messages \in Seq(Message)
    BY DEF TypeOK, Checkpoint
  <2> QED
    BY <2>1, InputTyped, ConcatProperties
<1>3. /\ messages' \in [Requests -> Seq(Message)]
      /\ clock' \in Nat
      /\ pending' \in [Requests -> Seq(Checkpoint)]
  BY <1>1, <1>2, SaveTyped
<1>4. pc' \in [Requests -> {"idle"} \cup Active \cup Over]
  BY DEF TypeOK, Start, Goto, Active
<1>5. overlapped' \subseteq Requests
  BY DEF TypeOK, Start, Running
<1>6. steps' \in [Requests -> Nat]
  BY DEF TypeOK, Start
<1> QED
  BY <1>3, <1>4, <1>5, <1>6 DEF TypeOK, Start, bounds

\* A tool that is used keeps the types.
LEMMA UseToolTyped ==
    ASSUME TypeOK, NEW r \in Requests, UseTool(r)
    PROVE  TypeOK'
<1>1. PICK m \in Summarized(r) :
        fresh' = [fresh EXCEPT ![r] = m \o <<Says("call", r), Says("result", r)>>]
  BY DEF UseTool
<1>2. m \o <<Says("call", r), Says("result", r)>> \in Seq(Message)
  <2>1. <<Says("call", r), Says("result", r)>> \in Seq(Message)
    BY SaysTyped DEF Kinds
  <2> QED
    BY <2>1, SummarizedTyped, ConcatProperties
<1>3. fresh' \in [Requests -> Seq(Message)]
  BY <1>1, <1>2 DEF TypeOK
<1>4. turns' \in [Requests -> Nat]
  BY DEF TypeOK, UseTool
<1> QED
  BY <1>3, <1>4 DEF TypeOK, UseTool, bounds

\* The rest of what a run does by itself.
LEMMA OthersTyped ==
    ASSUME TypeOK, NEW r \in Requests,
           \/ LoadFails(r) \/ Write(r) \/ WriteFails(r) \/ AgentFails(r)
           \/ End(r) \/ TooManySteps(r) \/ ModelFails(r) \/ Abandon(r)
    PROVE  TypeOK'
<1>1. CASE LoadFails(r)
  BY <1>1, ConversationAssumption DEF TypeOK, LoadFails, Fault, Goto, Over, counts
<1>2. ASSUME pending[r] # <<>>
      PROVE  /\ Head(pending[r]) \in Checkpoint
             /\ [pending EXCEPT ![r] = Tail(@)] \in [Requests -> Seq(Checkpoint)]
  <2>1. pending[r] \in Seq(Checkpoint) /\ pending \in [Requests -> Seq(Checkpoint)]
    BY DEF TypeOK
  <2>2. Head(pending[r]) \in Checkpoint /\ Tail(pending[r]) \in Seq(Checkpoint)
    BY <1>2, <2>1, HeadTailProperties
  <2> QED
    BY <2>1, <2>2
<1>3. CASE Write(r)
  BY <1>2, <1>3 DEF TypeOK, Write, counts, bounds
<1>4. CASE WriteFails(r)
  BY <1>2, <1>4, ConversationAssumption DEF TypeOK, WriteFails, Fault, counts
<1>5. CASE AgentFails(r) /\ ~Fails(r)
  <2>1. /\ attempts[r] + 1 < MAX_ATTEMPTS
        /\ attempts' = [attempts EXCEPT ![r] = @ + 1]
        /\ UNCHANGED <<memory, clock, pc, messages, fresh, steps, turns, pending,
                       broken, bounds, overlapped>>
    BY <1>5 DEF AgentFails
  <2>2. attempts' \in [Requests -> 0 .. MAX_ATTEMPTS - 1]
    BY <2>1, ConversationAssumption DEF TypeOK
  <2> QED
    BY <2>1, <2>2 DEF TypeOK, bounds
<1>6. ASSUME NEW l \in Active \cup Over, GiveUp(r, l)
      PROVE  TypeOK'
  BY <1>6, GiveUpTyped
<1>7. CASE Fails(r)
  BY <1>6, <1>7 DEF Fails, Active
<1>8. CASE End(r)
  BY <1>6, <1>8 DEF End, Closing, Over
<1>9. CASE Abandon(r)
  BY <1>6, <1>9 DEF Abandon, Active
<1> QED
  BY <1>1, <1>3, <1>4, <1>5, <1>7, <1>8, <1>9 DEF TooManySteps, ModelFails

\* A crash keeps the types.
LEMMA CrashTyped == ASSUME TypeOK, Crash PROVE TypeOK'
<1>1. <<>> \in Seq(Message) /\ <<>> \in Seq(Checkpoint)
  BY EmptySeq
<1> QED
  BY <1>1, ConversationAssumption DEF TypeOK, Crash, Over

\* Every step keeps the types.
LEMMA TypingOfNext == TypeOK /\ [Next]_vars => TypeOK'
<1> SUFFICES ASSUME TypeOK, [Next]_vars PROVE TypeOK'
  OBVIOUS
<1>1. CASE UNCHANGED vars
  BY <1>1 DEF TypeOK, vars
<1>2. CASE Crash
  BY <1>2, CrashTyped
<1>3. ASSUME NEW r \in Requests, Handoff(r) \/ Answer(r) \/ Report(r)
      PROVE  TypeOK'
  <2>1. \E m \in Seq(Message), l \in Active : StepEnds(r, m, l)
    <3>1. CASE Handoff(r)
      BY <3>1, SummarizedTyped, MergedTyped DEF Handoff, Active
    <3>2. CASE Answer(r)
      BY <3>2, SummarizedTyped, MergedTyped DEF Answer, Active, Kinds
    <3>3. CASE Report(r)
      <4>1. <<Says("report", r)>> \in Seq(Message)
        BY SaysTyped DEF Kinds
      <4> QED
        BY <3>3, <4>1, MergedTyped DEF Report, Active
    <3> QED
      BY <1>3, <3>1, <3>2, <3>3
  <2>2. UNCHANGED <<memory, broken, bounds, overlapped>>
    BY <1>3 DEF Handoff, Answer, Report
  <2> QED
    BY <2>1, <2>2, StepEndsTyped
<1> QED
  BY <1>1, <1>2, <1>3, StartTyped, UseToolTyped, OthersTyped DEF Next, Step

\* Every variable keeps its type.
THEOREM Typing == Spec => []TypeOK
<1>1. Init => TypeOK
  <2>1. <<>> \in Seq(Message) /\ <<>> \in Seq(Checkpoint)
    BY EmptySeq
  <2> QED
    BY <2>1, ConversationAssumption DEF Init, TypeOK, Checkpoint
<1> QED
  BY <1>1, TypingOfNext, PTL DEF Spec

-----------------------------------------------------------------------------
(* Calls and their results.                                                *)

\* Where nothing is said, nothing is missing.
LEMMA PairedEmpty == Paired(<<>>)
BY DEF Paired

\* What is neither a call nor a result needs no partner.
LEMMA PairedOne ==
    ASSUME NEW r \in Requests, NEW kind \in Kinds \ {"call", "result"}
    PROVE  Paired(<<Says(kind, r)>>)
BY DEF Paired, Says

\* A call with its result behind it is a pair.
LEMMA PairedCall ==
    ASSUME NEW r \in Requests
    PROVE  Paired(<<Says("call", r), Says("result", r)>>)
BY DEF Paired, Says

\* Pairs stay together when messages are put behind one another.
LEMMA PairedConcat ==
    ASSUME NEW s \in Seq(Message), NEW t \in Seq(Message), Paired(s), Paired(t)
    PROVE  Paired(s \o t)
<1> DEFINE u == s \o t
<1>1. /\ Len(s) \in Nat /\ Len(t) \in Nat
      /\ DOMAIN s = 1 .. Len(s) /\ DOMAIN t = 1 .. Len(t)
  BY LenProperties
<1>2. /\ DOMAIN u = 1 .. (Len(s) + Len(t))
      /\ \A i \in 1 .. Len(s) : u[i] = s[i]
      /\ \A i \in 1 .. Len(t) : u[Len(s) + i] = t[i]
  BY <1>1, ConcatProperties, LenProperties
<1> SUFFICES ASSUME NEW i \in DOMAIN u
             PROVE  /\ u[i].kind = "call" =>
                        i + 1 \in DOMAIN u /\ u[i + 1] = [u[i] EXCEPT !.kind = "result"]
                    /\ u[i].kind = "result" =>
                        i - 1 \in DOMAIN u /\ u[i - 1] = [u[i] EXCEPT !.kind = "call"]
  BY DEF Paired
<1> HIDE DEF u
<1>3. CASE i \in 1 .. Len(s)
  <2>1. u[i] = s[i]
    BY <1>2, <1>3
  <2>2. /\ s[i].kind = "call" =>
            i + 1 \in 1 .. Len(s) /\ s[i + 1] = [s[i] EXCEPT !.kind = "result"]
        /\ s[i].kind = "result" =>
            i - 1 \in 1 .. Len(s) /\ s[i - 1] = [s[i] EXCEPT !.kind = "call"]
    BY <1>1, <1>3 DEF Paired
  <2> QED
    BY <1>1, <1>2, <1>3, <2>1, <2>2
<1>4. CASE i \notin 1 .. Len(s)
  <2> DEFINE j == i - Len(s)
  <2>1. j \in 1 .. Len(t) /\ i = Len(s) + j
    BY <1>1, <1>2, <1>4
  <2>2. u[i] = t[j]
    BY <1>2, <2>1
  <2>3. /\ t[j].kind = "call" =>
            j + 1 \in 1 .. Len(t) /\ t[j + 1] = [t[j] EXCEPT !.kind = "result"]
        /\ t[j].kind = "result" =>
            j - 1 \in 1 .. Len(t) /\ t[j - 1] = [t[j] EXCEPT !.kind = "call"]
    BY <1>1, <2>1 DEF Paired
  <2>4. /\ j + 1 \in 1 .. Len(t) => u[i + 1] = t[j + 1] /\ i + 1 \in DOMAIN u
        /\ j - 1 \in 1 .. Len(t) => u[i - 1] = t[j - 1] /\ i - 1 \in DOMAIN u
    <3>1. i + 1 = Len(s) + (j + 1) /\ i - 1 = Len(s) + (j - 1)
      BY <1>1, <2>1
    <3>2. \A x \in 1 .. Len(t) : Len(s) + x \in DOMAIN u /\ u[Len(s) + x] = t[x]
      BY <1>1, <1>2
    <3> HIDE DEF j
    <3> QED
      BY <3>1, <3>2
  <2> QED
    BY <2>2, <2>3, <2>4
<1> QED
  BY <1>3, <1>4

\* A summary cuts off no result from its call.
LEMMA SummarizedPaired ==
    ASSUME TypeOK, NEW r \in Requests, Paired(fresh[r]), NEW m \in Summarized(r)
    PROVE  Paired(m)
<1>1. CASE m = fresh[r]
  BY <1>1
<1>2. CASE m # fresh[r]
  <2>1. PICK k \in Cuts(r) :
            m = <<Says("summary", r)>> \o SubSeq(fresh[r], k, Len(fresh[r]))
    BY <1>2 DEF Summarized
  <2> DEFINE s == SubSeq(fresh[r], k, Len(fresh[r]))
  <2>2. k \in 1 .. Len(fresh[r]) + 1
    BY DEF Cuts
  <2>3. fresh[r] \in Seq(Message)
    BY DEF TypeOK
  <2>4. Len(fresh[r]) \in Nat /\ DOMAIN fresh[r] = 1 .. Len(fresh[r])
    BY <2>3, LenProperties
  <2>5. /\ s \in Seq(Message) /\ Len(s) = Len(fresh[r]) - k + 1
        /\ \A i \in 1 .. Len(s) : s[i] = fresh[r][k + i - 1]
    BY <2>2, SuffixOfFresh
  <2>6. DOMAIN s = 1 .. Len(s)
    BY <2>5, LenProperties
  <2>7. k \in DOMAIN fresh[r] => fresh[r][k].kind # "result"
    BY DEF Cuts
  <2> HIDE DEF s
  <2>8. Paired(s)
    <3> SUFFICES ASSUME NEW i \in 1 .. Len(s)
                 PROVE  /\ s[i].kind = "call" =>
                            /\ i + 1 \in 1 .. Len(s)
                            /\ s[i + 1] = [s[i] EXCEPT !.kind = "result"]
                        /\ s[i].kind = "result" =>
                            /\ i - 1 \in 1 .. Len(s)
                            /\ s[i - 1] = [s[i] EXCEPT !.kind = "call"]
      BY <2>6 DEF Paired
    <3> DEFINE j == k + i - 1
    <3>1. j \in 1 .. Len(fresh[r]) /\ s[i] = fresh[r][j]
      BY <2>2, <2>4, <2>5
    <3>2. /\ s[i].kind = "call" =>
                /\ j + 1 \in 1 .. Len(fresh[r])
                /\ fresh[r][j + 1] = [s[i] EXCEPT !.kind = "result"]
          /\ s[i].kind = "result" =>
                /\ j - 1 \in 1 .. Len(fresh[r])
                /\ fresh[r][j - 1] = [s[i] EXCEPT !.kind = "call"]
      BY <2>4, <3>1 DEF Paired
    <3>3. /\ j + 1 \in 1 .. Len(fresh[r]) =>
                i + 1 \in 1 .. Len(s) /\ s[i + 1] = fresh[r][j + 1]
          /\ i # 1 => i - 1 \in 1 .. Len(s) /\ s[i - 1] = fresh[r][j - 1]
      <4>1. j + 1 = k + (i + 1) - 1 /\ j - 1 = k + (i - 1) - 1
        BY <2>2, <2>4
      <4> QED
        BY <2>2, <2>4, <2>5, <3>1, <4>1
    <3>4. i = 1 => s[i].kind # "result"
      BY <2>2, <2>4, <2>7, <3>1
    <3> QED
      BY <3>2, <3>3, <3>4
  <2>9. Paired(<<Says("summary", r)>>) /\ <<Says("summary", r)>> \in Seq(Message)
    BY PairedOne, SaysTyped DEF Kinds
  <2> QED
    BY <2>1, <2>5, <2>8, <2>9, PairedConcat DEF s
<1> QED
  BY <1>1, <1>2

\* The input of a run has no calls.
LEMMA InputPaired ==
    ASSUME TypeOK, NEW r \in Requests, NEW input \in Inputs(r)
    PROVE  Paired(input)
<1> DEFINE u == <<Says("user", r)>>
           c == <<Says("console", r)>>
           i == <<Says("images", r)>>
<1>1. /\ u \in Seq(Message) /\ c \in Seq(Message) /\ i \in Seq(Message)
      /\ Paired(u) /\ Paired(c) /\ Paired(i)
  BY PairedOne, SaysTyped DEF Kinds
<1>2. \A s \in {<<>>, i} : u \o s \in Seq(Message) /\ Paired(u \o s)
  <2>1. <<>> \in Seq(Message) /\ Paired(<<>>)
    BY EmptySeq, PairedEmpty
  <2> HIDE DEF u, i, c
  <2> QED
    BY <1>1, <2>1, PairedConcat, ConcatProperties
<1>3. \A s \in {<<>>, i} : Paired((u \o s) \o c)
  <2> HIDE DEF u, i, c
  <2> QED
    BY <1>1, <1>2, PairedConcat
<1> QED
  BY <1>1, <1>3 DEF Inputs

\* What is on its way to the database after a checkpoint more, and after one less.
LEMMA OneMore ==
    ASSUME NEW s \in Seq(Checkpoint), NEW c \in Checkpoint
    PROVE  /\ DOMAIN s = 1 .. Len(s) /\ Len(s) \in Nat
           /\ DOMAIN Append(s, c) = 1 .. Len(s) + 1
           /\ Len(Append(s, c)) = Len(s) + 1
           /\ \A i \in 1 .. Len(s) : Append(s, c)[i] = s[i]
           /\ Append(s, c)[Len(s) + 1] = c
BY AppendProperties, LenProperties

\* What is left on the way when its first checkpoint has gone.
LEMMA OneLess ==
    ASSUME NEW s \in Seq(Checkpoint), s # <<>>
    PROVE  /\ Head(s) = s[1] /\ 1 \in DOMAIN s
           /\ DOMAIN s = 1 .. Len(s) /\ Len(s) \in Nat \ {0}
           /\ DOMAIN Tail(s) = 1 .. Len(s) - 1
           /\ Len(Tail(s)) = Len(s) - 1
           /\ \A i \in 1 .. Len(s) - 1 : i + 1 \in DOMAIN s /\ Tail(s)[i] = s[i + 1]
<1>1. Len(s) \in Nat \ {0} /\ DOMAIN s = 1 .. Len(s)
  BY EmptySeq, LenProperties
<1>2. Tail(s) \in Seq(Checkpoint) /\ Len(Tail(s)) = Len(s) - 1
  BY HeadTailProperties
<1> QED
  BY <1>1, <1>2, LenProperties, HeadTailProperties

\* A run's messages become m, which keeps calls and results together.
LEMMA SavePaired ==
    ASSUME TypeOK, PInv, NEW r \in Requests, NEW m \in Seq(Message), Paired(m),
           Save(r, m), UNCHANGED memory,
           \A q \in Requests : Paired(fresh'[q])
    PROVE  PInv'
<1> DEFINE c == [stamp |-> clock + 1, messages |-> m]
<1>1. c \in Checkpoint /\ c.messages = m
  BY DEF TypeOK, Checkpoint
<1>2. pending[r] \in Seq(Checkpoint)
  BY DEF TypeOK
<1>3. /\ messages' = [messages EXCEPT ![r] = m]
      /\ pending' = [pending EXCEPT ![r] = Append(pending[r], c)]
  BY DEF Save
<1> HIDE DEF c
<1>4. ASSUME NEW q \in Requests
      PROVE  Paired(messages'[q])
  BY <1>3 DEF PInv, TypeOK
<1>5. ASSUME NEW q \in Requests, NEW i \in DOMAIN pending'[q]
      PROVE  Paired(pending'[q][i].messages)
  <2>1. CASE q # r
    BY <1>3, <1>5, <2>1 DEF PInv, TypeOK
  <2>2. CASE q = r
    <3>1. pending'[q] = Append(pending[r], c)
      BY <1>3, <2>2 DEF TypeOK
    <3>2. /\ i \in 1 .. Len(pending[r]) + 1 /\ Len(pending[r]) \in Nat
          /\ DOMAIN pending[r] = 1 .. Len(pending[r])
          /\ pending'[q][i] = IF i \in 1 .. Len(pending[r]) THEN pending[r][i] ELSE c
      BY <1>1, <1>2, <1>5, <3>1, OneMore
    <3> QED
      BY <1>1, <3>2 DEF PInv
  <2> QED
    BY <2>1, <2>2
<1> QED
  BY <1>4, <1>5 DEF PInv

\* One that has given up shows nothing to anybody.
LEMMA GiveUpPaired ==
    ASSUME TypeOK, PInv, NEW r \in Requests, NEW l, GiveUp(r, l)
    PROVE  PInv'
BY PairedEmpty DEF PInv, GiveUp, TypeOK

\* A run begins with what was in pairs before it, and its input.
LEMMA StartPaired ==
    ASSUME TypeOK, PInv, NEW r \in Requests, Start(r)
    PROVE  PInv'
<1>1. PICK input \in Inputs(r) : Save(r, memory.messages \o input)
  BY DEF Start
<1>2. memory.messages \in Seq(Message) /\ input \in Seq(Message)
  BY InputTyped DEF TypeOK, Checkpoint
<1>3. /\ memory.messages \o input \in Seq(Message)
      /\ Paired(memory.messages \o input)
  BY <1>2, InputPaired, PairedConcat, ConcatProperties DEF PInv
<1>4. memory' = memory /\ \A q \in Requests : Paired(fresh'[q])
  BY DEF Start, PInv
<1> QED
  BY <1>1, <1>3, <1>4, SavePaired

\* The middleware keeps calls with their results, and a tool always answers.
LEMMA UseToolPaired ==
    ASSUME TypeOK, PInv, NEW r \in Requests, UseTool(r)
    PROVE  PInv'
<1> DEFINE both == <<Says("call", r), Says("result", r)>>
<1>1. PICK m \in Summarized(r) : fresh' = [fresh EXCEPT ![r] = m \o both]
  BY DEF UseTool
<1>2. both \in Seq(Message) /\ Paired(both)
  BY SaysTyped, PairedCall DEF Kinds
<1> HIDE DEF both
<1>3. m \in Seq(Message) /\ Paired(m)
  BY SummarizedTyped, SummarizedPaired DEF PInv
<1>4. Paired(m \o both)
  BY <1>2, <1>3, PairedConcat
<1>5. \A q \in Requests : Paired(fresh'[q])
  BY <1>1, <1>4 DEF PInv, TypeOK
<1> QED
  BY <1>5 DEF UseTool, PInv

\* A step of the graph leaves out the call that nobody answers.
LEMMA StepEndsPaired ==
    ASSUME TypeOK, PInv, NEW r \in Requests, NEW m \in Seq(Message), Paired(m),
           NEW l, StepEnds(r, Merged(r, m), l), UNCHANGED memory
    PROVE  PInv'
<1>1. messages[r] \in Seq(Message) /\ Paired(messages[r])
  BY DEF TypeOK, PInv
<1>2. Merged(r, m) \in Seq(Message) /\ Paired(Merged(r, m))
  BY <1>1, PairedConcat, ConcatProperties DEF Merged
<1>3. \A q \in Requests : Paired(fresh'[q])
  BY PairedEmpty DEF StepEnds, PInv, TypeOK
<1> QED
  BY <1>2, <1>3, SavePaired DEF StepEnds

\* What the agents add in a step is in pairs.
LEMMA TurnPaired ==
    ASSUME TypeOK, PInv, NEW r \in Requests, Handoff(r) \/ Answer(r) \/ Report(r)
    PROVE  PInv'
<1>1. \A m \in Summarized(r) : m \in Seq(Message) /\ Paired(m)
  BY SummarizedTyped, SummarizedPaired DEF PInv
<1>2. \A kind \in {"answer", "report"} :
        <<Says(kind, r)>> \in Seq(Message) /\ Paired(<<Says(kind, r)>>)
  BY SaysTyped, PairedOne DEF Kinds
<1>3. CASE Handoff(r)
  BY <1>1, <1>3, StepEndsPaired DEF Handoff
<1>4. CASE Answer(r)
  <2>1. PICK m \in Summarized(r) :
            StepEnds(r, Merged(r, m \o <<Says("answer", r)>>), "finishing")
    BY <1>4 DEF Answer
  <2>2. /\ m \o <<Says("answer", r)>> \in Seq(Message)
        /\ Paired(m \o <<Says("answer", r)>>)
    BY <1>1, <1>2, PairedConcat, ConcatProperties
  <2> QED
    BY <1>4, <2>1, <2>2, StepEndsPaired DEF Answer
<1>5. CASE Report(r)
  BY <1>2, <1>5, StepEndsPaired DEF Report
<1> QED
  BY <1>3, <1>4, <1>5

\* What reaches the database was on its way there.
LEMMA WritePaired ==
    ASSUME TypeOK, PInv, NEW r \in Requests, Write(r) \/ WriteFails(r)
    PROVE  PInv'
<1>1. pending[r] \in Seq(Checkpoint) /\ pending[r] # <<>>
  BY DEF TypeOK, Write, WriteFails
<1>2. Paired(Head(pending[r]).messages)
  BY <1>1, OneLess DEF PInv
<1>3. Paired(memory'.messages)
  BY <1>2 DEF PInv, Write, WriteFails
<1>4. pending' = [pending EXCEPT ![r] = Tail(pending[r])]
  BY DEF Write, WriteFails
<1>5. ASSUME NEW q \in Requests, NEW i \in DOMAIN pending'[q]
      PROVE  Paired(pending'[q][i].messages)
  <2>1. CASE q # r
    BY <1>4, <1>5, <2>1 DEF PInv, TypeOK
  <2>2. CASE q = r
    <3>1. pending'[q] = Tail(pending[r])
      BY <1>4, <2>2 DEF TypeOK
    <3>2. i + 1 \in DOMAIN pending[r] /\ pending'[q][i] = pending[r][i + 1]
      BY <1>1, <1>5, <3>1, OneLess
    <3> QED
      BY <3>2 DEF PInv
  <2> QED
    BY <2>1, <2>2
<1>6. messages' = messages /\ fresh' = fresh
  BY DEF Write, WriteFails
<1> QED
  BY <1>3, <1>5, <1>6 DEF PInv

\* A conversation without messages has its calls and results in pairs.
LEMMA PairedInit == Init => PInv
<1> SUFFICES ASSUME Init PROVE PInv
  OBVIOUS
<1>1. \A r \in Requests : pending[r] = <<>> /\ DOMAIN pending[r] = {}
  BY DEF Init
<1> QED
  BY <1>1, PairedEmpty DEF Init, PInv

\* Every step keeps them in pairs.
LEMMA PairedNext == TypeOK /\ PInv /\ [Next]_vars => PInv'
<1> SUFFICES ASSUME TypeOK, PInv, [Next]_vars PROVE PInv'
  OBVIOUS
<1>1. CASE UNCHANGED vars
  BY <1>1 DEF PInv, vars
<1>2. CASE Crash
  <2>1. \A r \in Requests : pending'[r] = <<>> /\ DOMAIN pending'[r] = {}
    BY <1>2 DEF Crash
  <2> QED
    BY <1>2, <2>1, PairedEmpty DEF Crash, PInv
<1>3. ASSUME NEW r \in Requests, LoadFails(r) PROVE PInv'
  BY <1>3 DEF LoadFails, PInv
<1>4. ASSUME NEW r \in Requests,
             TooManySteps(r) \/ ModelFails(r) \/ End(r) \/ Abandon(r)
      PROVE  PInv'
  BY <1>4, GiveUpPaired DEF TooManySteps, ModelFails, End, Abandon, Fails
<1>5. ASSUME NEW r \in Requests, AgentFails(r) PROVE PInv'
  <2>1. CASE Fails(r)
    BY <2>1, GiveUpPaired DEF Fails
  <2>2. CASE UNCHANGED <<memory, messages, fresh, pending>>
    BY <2>2 DEF PInv
  <2> QED
    BY <1>5, <2>1, <2>2 DEF AgentFails
<1> QED
  BY <1>1, <1>2, <1>3, <1>4, <1>5, StartPaired, UseToolPaired, TurnPaired,
     WritePaired DEF Next, Step

\* No model is shown a call without its result or a result without its call, in
\* any number of runs, however they overlap, fail and end.
THEOREM CallsPaired == Spec => []CallsAreAnswered
<1>1. PInv => CallsAreAnswered
  BY DEF PInv, CallsAreAnswered
<1> QED
  BY <1>1, PairedInit, PairedNext, Typing, PTL DEF Spec

-----------------------------------------------------------------------------
(* What is remembered.                                                     *)

\* What a run said is still there when more is said.
LEMMA MoreIsSaid ==
    ASSUME NEW s \in Seq(Message), NEW t \in Seq(Message), NEW r \in Requests
    PROVE  /\ Remembers(s, r) => Remembers(s \o t, r)
           /\ Asked(s, r) => Asked(s \o t, r)
<1> DEFINE u == s \o t
<1>1. \A i \in DOMAIN s : i \in DOMAIN u /\ u[i] = s[i]
  BY ConcatProperties, LenProperties
<1> HIDE DEF u
<1>2. Remembers(s, r) => Remembers(u, r)
  BY <1>1 DEF Remembers
<1>3. Asked(s, r) => Asked(u, r)
  BY <1>1 DEF Asked
<1> QED
  BY <1>2, <1>3 DEF u

\* Who has asked and says its answer has both in the conversation, in that order.
LEMMA AskedAndAnswered ==
    ASSUME TypeOK, NEW s \in Seq(Message), NEW t \in Seq(Message),
           NEW r \in Requests, Asked(s, r)
    PROVE  Remembers(s \o (t \o <<Says("answer", r)>>), r)
<1> DEFINE a == Says("answer", r)
           v == t \o <<a>>
           u == s \o v
<1>1. a \in Message /\ a.kind = "answer" /\ a.run = r
  <2>1. a \in Message
    BY SaysTyped DEF Kinds
  <2> QED
    BY <2>1 DEF Says
<1> HIDE DEF a
<1>2. /\ v \in Seq(Message) /\ Len(t) \in Nat /\ Len(v) = Len(t) + 1
      /\ v[Len(t) + 1] = a
  BY <1>1, ConcatProperties, LenProperties
<1> HIDE DEF v
<1>3. /\ Len(s) \in Nat /\ DOMAIN s = 1 .. Len(s)
      /\ DOMAIN u = 1 .. Len(s) + Len(t) + 1
      /\ \A i \in DOMAIN s : u[i] = s[i]
      /\ u[Len(s) + Len(t) + 1] = a
  <2>1. /\ Len(s) \in Nat /\ DOMAIN s = 1 .. Len(s)
        /\ u \in Seq(Message) /\ Len(u) = Len(s) + Len(v)
        /\ \A i \in 1 .. Len(s) + Len(v) :
                u[i] = IF i <= Len(s) THEN s[i] ELSE v[i - Len(s)]
    BY <1>2, ConcatProperties, LenProperties
  <2>2. DOMAIN u = 1 .. Len(u)
    BY <2>1, LenProperties
  <2> HIDE DEF u
  <2>3. /\ Len(s) + Len(t) + 1 \in 1 .. Len(s) + Len(v)
        /\ ~(Len(s) + Len(t) + 1 <= Len(s))
        /\ Len(s) + Len(t) + 1 - Len(s) = Len(t) + 1
    BY <1>2, <2>1
  <2>4. u[Len(s) + Len(t) + 1] = a
    BY <1>2, <2>1, <2>3
  <2> QED
    BY <1>2, <2>1, <2>2, <2>4
<1> HIDE DEF u
<1>4. PICK i \in DOMAIN s : s[i].kind = "user" /\ s[i].run = r
  BY DEF Asked
<1>5. /\ i \in DOMAIN u /\ Len(s) + Len(t) + 1 \in DOMAIN u
      /\ i < Len(s) + Len(t) + 1
      /\ u[i].kind = "user" /\ u[i].run = r
  BY <1>2, <1>3, <1>4
<1>6. Remembers(u, r)
  BY <1>1, <1>3, <1>5 DEF Remembers
<1> QED
  BY <1>6 DEF u, v, a

\* The input holds the question.
LEMMA InputAsks ==
    ASSUME TypeOK, NEW r \in Requests, NEW input \in Inputs(r)
    PROVE  Asked(input, r)
<1> DEFINE u == <<Says("user", r)>>
           c == <<Says("console", r)>>
           i == <<Says("images", r)>>
<1>1. /\ u \in Seq(Message) /\ c \in Seq(Message) /\ i \in Seq(Message)
      /\ <<>> \in Seq(Message)
  BY SaysTyped, EmptySeq DEF Kinds
<1>2. Asked(u, r)
  BY DEF Asked, Says
<1> HIDE DEF u, c, i
<1>3. \A s \in {<<>>, i} : Asked((u \o s) \o c, r)
  BY <1>1, <1>2, MoreIsSaid, ConcatProperties
<1> QED
  BY <1>2, <1>3 DEF Inputs, u, c, i

\* What there is after a checkpoint has been made.
LEMMA SavedThen ==
    ASSUME TypeOK, NEW r \in Requests, NEW m \in Seq(Message), Save(r, m)
    PROVE  /\ clock' = clock + 1 /\ clock \in Nat /\ messages'[r] = m
           /\ \A q \in Requests \ {r} :
                messages'[q] = messages[q] /\ pending'[q] = pending[q]
           /\ Len(pending[r]) \in Nat
           /\ DOMAIN pending[r] = 1 .. Len(pending[r])
           /\ DOMAIN pending'[r] = 1 .. Len(pending[r]) + 1
           /\ Len(pending'[r]) = Len(pending[r]) + 1
           /\ \A i \in 1 .. Len(pending[r]) : pending'[r][i] = pending[r][i]
           /\ pending'[r][Len(pending[r]) + 1] = [stamp |-> clock + 1, messages |-> m]
           /\ pending'[r] # <<>>
<1> DEFINE c == [stamp |-> clock + 1, messages |-> m]
<1>1. c \in Checkpoint
  BY DEF TypeOK, Checkpoint
<1>2. pending[r] \in Seq(Checkpoint)
  BY DEF TypeOK
<1>3. /\ messages' = [messages EXCEPT ![r] = m] /\ clock' = clock + 1
      /\ pending' = [pending EXCEPT ![r] = Append(pending[r], c)]
  BY DEF Save
<1> HIDE DEF c
<1>4. pending'[r] = Append(pending[r], c)
  BY <1>3 DEF TypeOK
<1>5. /\ Len(pending[r]) \in Nat
      /\ DOMAIN pending[r] = 1 .. Len(pending[r])
      /\ DOMAIN pending'[r] = 1 .. Len(pending[r]) + 1
      /\ Len(pending'[r]) = Len(pending[r]) + 1
      /\ \A i \in 1 .. Len(pending[r]) : pending'[r][i] = pending[r][i]
      /\ pending'[r][Len(pending[r]) + 1] = c
  BY <1>1, <1>2, <1>4, OneMore
<1>6. pending'[r] # <<>>
  BY <1>5, EmptySeq
<1> QED
  BY <1>3, <1>5, <1>6 DEF TypeOK, c

\* What there is after one has left for the database.
LEMMA WrittenThen ==
    ASSUME TypeOK, NEW r \in Requests, pending[r] # <<>>,
           pending' = [pending EXCEPT ![r] = Tail(@)]
    PROVE  /\ \A q \in Requests \ {r} : pending'[q] = pending[q]
           /\ Head(pending[r]) = pending[r][1] /\ 1 \in DOMAIN pending[r]
           /\ DOMAIN pending[r] = 1 .. Len(pending[r])
           /\ Len(pending[r]) \in Nat \ {0}
           /\ Len(pending'[r]) = Len(pending[r]) - 1
           /\ DOMAIN pending'[r] = 1 .. Len(pending[r]) - 1
           /\ \A i \in 1 .. Len(pending[r]) - 1 :
                i + 1 \in DOMAIN pending[r] /\ pending'[r][i] = pending[r][i + 1]
           /\ pending'[r] = <<>> <=> Len(pending[r]) = 1
<1>1. pending[r] \in Seq(Checkpoint)
  BY DEF TypeOK
<1>2. pending'[r] = Tail(pending[r]) /\ \A q \in Requests \ {r} : pending'[q] = pending[q]
  BY DEF TypeOK
<1>3. Tail(pending[r]) \in Seq(Checkpoint)
  BY <1>1, HeadTailProperties
<1>4. /\ Head(pending[r]) = pending[r][1] /\ 1 \in DOMAIN pending[r]
      /\ DOMAIN pending[r] = 1 .. Len(pending[r])
      /\ Len(pending[r]) \in Nat \ {0}
      /\ DOMAIN pending'[r] = 1 .. Len(pending[r]) - 1
      /\ Len(pending'[r]) = Len(pending[r]) - 1
      /\ \A i \in 1 .. Len(pending[r]) - 1 :
            i + 1 \in DOMAIN pending[r] /\ pending'[r][i] = pending[r][i + 1]
  <2> DEFINE s == pending[r]
  <2>1. s \in Seq(Checkpoint) /\ s # <<>>
    BY <1>1
  <2> HIDE DEF s
  <2>2. /\ Head(s) = s[1] /\ 1 \in DOMAIN s
        /\ DOMAIN s = 1 .. Len(s) /\ Len(s) \in Nat \ {0}
        /\ DOMAIN Tail(s) = 1 .. Len(s) - 1
        /\ Len(Tail(s)) = Len(s) - 1
        /\ \A i \in 1 .. Len(s) - 1 : i + 1 \in DOMAIN s /\ Tail(s)[i] = s[i + 1]
    BY <2>1, OneLess
  <2> QED
    BY <1>2, <2>2, Zenon DEF s
<1>5. pending'[r] = <<>> <=> Len(pending'[r]) = 0
  BY <1>2, <1>3, EmptySeq
<1>6. Len(pending[r]) \in Nat \ {0} /\ Len(pending'[r]) = Len(pending[r]) - 1
  BY <1>4
<1>7. pending'[r] = <<>> <=> Len(pending[r]) = 1
  <2>1. Len(pending'[r]) = 0 <=> Len(pending[r]) = 1
    BY <1>6
  <2> QED
    BY <1>5, <2>1, Zenon
<1>8. \A q \in Requests \ {r} : pending'[q] = pending[q]
  BY <1>2
<1> QED
  BY <1>4, <1>7, <1>8

\* A checkpoint is made: it is the newest, and holds what r and those before it said.
LEMMA SaveRemembers ==
    ASSUME TypeOK, RInv, NEW r \in Requests, NEW m \in Seq(Message), Save(r, m),
           NEW l \in {"primary", "agent", "finishing"}, Goto(r, l),
           memory' = memory, broken' = broken, overlapped \subseteq overlapped',
           Alone',
           r \notin overlapped' =>
                IF l = "finishing" THEN Remembers(m, r) ELSE Asked(m, r),
           \A q \in Requests \ overlapped : pc[q] = "answered" => Remembers(m, q)
    PROVE  RInv'
<1>0. /\ clock' = clock + 1 /\ clock \in Nat /\ messages'[r] = m
      /\ \A q \in Requests \ {r} :
            messages'[q] = messages[q] /\ pending'[q] = pending[q]
      /\ Len(pending[r]) \in Nat
      /\ DOMAIN pending[r] = 1 .. Len(pending[r])
      /\ DOMAIN pending'[r] = 1 .. Len(pending[r]) + 1
      /\ Len(pending'[r]) = Len(pending[r]) + 1
      /\ \A i \in 1 .. Len(pending[r]) : pending'[r][i] = pending[r][i]
      /\ pending'[r][Len(pending[r]) + 1] = [stamp |-> clock + 1, messages |-> m]
      /\ pending'[r] # <<>>
  BY SavedThen
<1>1. \A q \in Requests : pc'[q] = IF q = r THEN l ELSE pc[q]
  BY DEF Goto, TypeOK
<1>2. AtRest'
  BY <1>1, <1>0 DEF RInv, AtRest, Active
<1>3. Stamped'
  <2>1. memory'.stamp <= clock'
    BY <1>0 DEF RInv, Stamped, TypeOK, Checkpoint
  <2>2. ASSUME NEW q \in Requests, NEW i \in DOMAIN pending'[q]
        PROVE  /\ pending'[q][i].stamp <= clock'
               /\ \A j \in DOMAIN pending'[q] :
                    i < j => pending'[q][i].stamp < pending'[q][j].stamp
    <3>0. \A p \in Requests : \A k \in DOMAIN pending[p] : pending[p][k].stamp \in Nat
      <4> SUFFICES ASSUME NEW p \in Requests, NEW k \in DOMAIN pending[p]
                   PROVE  pending[p][k].stamp \in Nat
        OBVIOUS
      <4>1. pending[p] \in Seq(Checkpoint)
        BY DEF TypeOK
      <4>2. pending[p][k] \in Checkpoint
        BY <4>1, LenProperties, ElementOfSeq
      <4> QED
        BY <4>2 DEF Checkpoint
    <3>1. CASE q # r
      BY <2>2, <3>0, <3>1, <1>0 DEF RInv, Stamped
    <3>2. CASE q = r
      <4>1. \A k \in 1 .. Len(pending[r]) : pending'[r][k].stamp < clock + 1
        BY <3>0, <1>0 DEF RInv, Stamped
      <4>2. pending'[r][Len(pending[r]) + 1].stamp = clock + 1
        BY <1>0
      <4>3. \A k, j \in 1 .. Len(pending[r]) :
                k < j => pending'[r][k].stamp < pending'[r][j].stamp
        BY <1>0 DEF RInv, Stamped
      <4>4. /\ DOMAIN pending'[r] = 1 .. Len(pending[r]) + 1
            /\ Len(pending[r]) \in Nat /\ clock' = clock + 1 /\ clock \in Nat
        BY <1>0
      <4>5. \A k \in DOMAIN pending'[r] : pending'[r][k].stamp \in Nat
        BY <3>0, <4>2, <4>4, <1>0
      <4>6. \A k \in DOMAIN pending'[r] :
                /\ pending'[r][k].stamp <= clock'
                /\ k # Len(pending[r]) + 1 => k \in 1 .. Len(pending[r])
        <5>1. \A k \in DOMAIN pending'[r] :
                k # Len(pending[r]) + 1 => k \in 1 .. Len(pending[r])
          BY <4>4
        <5> QED
          BY <4>1, <4>2, <4>4, <4>5, <5>1
      <4>7. ASSUME NEW j \in DOMAIN pending'[r], i < j
            PROVE  pending'[r][i].stamp < pending'[r][j].stamp
        <5>1. i \in DOMAIN pending'[r] /\ i \in 1 .. Len(pending[r])
          BY <2>2, <3>2, <4>4, <4>7
        <5>2. CASE j = Len(pending[r]) + 1
          BY <4>1, <4>2, <5>1, <5>2
        <5>3. CASE j # Len(pending[r]) + 1
          BY <4>3, <4>6, <4>7, <5>1, <5>3
        <5> QED
          BY <5>2, <5>3
      <4> QED
        BY <2>2, <3>2, <4>6, <4>7
    <3> QED
      BY <3>1, <3>2
  <2> QED
    BY <2>1, <2>2 DEF Stamped
<1>4. Newer'
  <2> SUFFICES ASSUME NEW q \in Requests \ overlapped', NEW i \in DOMAIN pending'[q],
                      pc'[q] \in Active
               PROVE  memory.stamp < pending'[q][i].stamp
    BY DEF Newer
  <2>1. q \in Requests \ overlapped
    OBVIOUS
  <2>2. CASE q # r
    BY <1>1, <2>1, <2>2, <1>0 DEF RInv, Newer
  <2>3. CASE q = r /\ i = Len(pending[r]) + 1
    BY <2>3, <1>0 DEF RInv, Stamped, TypeOK, Checkpoint
  <2>4. CASE q = r /\ i # Len(pending[r]) + 1
    <3>1. i \in 1 .. Len(pending[r]) /\ pending'[r][i] = pending[r][i]
          /\ i \in DOMAIN pending[r]
      BY <2>4, <1>0
    <3>2. pending[r] # <<>>
      BY <3>1, EmptySeq
    <3> QED
      BY <2>1, <2>4, <3>1, <3>2 DEF RInv, AtRest, Newer
  <2> QED
    BY <2>2, <2>3, <2>4
<1>5. Own'
  <2> SUFFICES ASSUME NEW q \in Requests \ overlapped'
               PROVE  /\ pc'[q] \in {"primary", "agent"} => Asked(messages'[q], q)
                      /\ pc'[q] = "finishing" /\ q \notin broken =>
                            Remembers(Latest(q)', q)
    BY DEF Own
  <2>1. CASE q = r
    <3>1. Latest(q)' = m
      BY <2>1, <1>0 DEF Latest
    <3> QED
      BY <1>1, <2>1, <3>1, <1>0
  <2>2. CASE q # r
    <3>1. Latest(q)' = Latest(q)
      BY <2>2, <1>0 DEF Latest
    <3> QED
      BY <1>1, <2>2, <3>1, <1>0 DEF RInv, Own
  <2> QED
    BY <2>1, <2>2
<1>6. Others'
  <2> SUFFICES ASSUME NEW p \in Requests \ overlapped', pc'[p] = "answered",
                      NEW q \in Requests
               PROVE  /\ Remembers(memory.messages, p)
                      /\ pc'[q] \in {"primary", "agent"} => Remembers(messages'[q], p)
                      /\ \A i \in DOMAIN pending'[q] :
                            Remembers(pending'[q][i].messages, p)
    BY DEF Others
  <2>1. p # r /\ pc[p] = "answered" /\ p \in Requests \ overlapped
    BY <1>1
  <2>2. Remembers(memory.messages, p) /\ Remembers(m, p)
    BY <2>1 DEF RInv, Others
  <2>3. CASE q # r
    BY <1>1, <2>1, <2>2, <2>3, <1>0 DEF RInv, Others
  <2>4. CASE q = r
    <3>1. ASSUME NEW i \in DOMAIN pending'[r]
          PROVE  Remembers(pending'[r][i].messages, p)
      <4>1. CASE i = Len(pending[r]) + 1
        <5>1. pending'[r][i].messages = m
          BY <4>1, <1>0
        <5> QED
          BY <2>2, <5>1
      <4>2. CASE i # Len(pending[r]) + 1
        <5>1. i \in DOMAIN pending[r] /\ pending'[r][i] = pending[r][i]
          BY <3>1, <4>2, <1>0
        <5> QED
          BY <2>1, <5>1 DEF RInv, Others
      <4> QED
        BY <4>1, <4>2
    <3> QED
      BY <2>2, <2>4, <3>1, <1>0
  <2> QED
    BY <2>3, <2>4
<1> QED
  BY <1>2, <1>3, <1>4, <1>5, <1>6 DEF RInv

\* A question put behind what was said before is in the conversation.
LEMMA AskedBehind ==
    ASSUME NEW s \in Seq(Message), NEW t \in Seq(Message), NEW r \in Requests,
           Asked(t, r)
    PROVE  Asked(s \o t, r)
<1> DEFINE u == s \o t
<1>1. PICK i \in DOMAIN t : t[i].kind = "user" /\ t[i].run = r
  BY DEF Asked
<1>2. /\ Len(s) \in Nat /\ DOMAIN t = 1 .. Len(t) /\ Len(t) \in Nat
      /\ u \in Seq(Message) /\ Len(u) = Len(s) + Len(t)
      /\ \A j \in 1 .. Len(s) + Len(t) :
            u[j] = IF j <= Len(s) THEN s[j] ELSE t[j - Len(s)]
  BY LenProperties, ConcatProperties
<1>3. DOMAIN u = 1 .. Len(u)
  BY <1>2, LenProperties
<1> HIDE DEF u
<1>4. /\ Len(s) + i \in 1 .. Len(s) + Len(t) /\ ~(Len(s) + i <= Len(s))
      /\ Len(s) + i - Len(s) = i
  BY <1>1, <1>2
<1>5. Len(s) + i \in DOMAIN u /\ u[Len(s) + i] = t[i]
  BY <1>2, <1>3, <1>4
<1>6. Asked(u, r)
  BY <1>1, <1>5 DEF Asked
<1> QED
  BY <1>6 DEF u

\* A run begins with all that was answered, and its own question behind it.
LEMMA StartRemembers ==
    ASSUME TypeOK, RInv, NEW r \in Requests, Start(r)
    PROVE  RInv'
<1>1. PICK input \in Inputs(r) : Save(r, memory.messages \o input)
  BY DEF Start
<1> DEFINE m == memory.messages \o input
<1>2. /\ memory.messages \in Seq(Message) /\ input \in Seq(Message)
      /\ m \in Seq(Message) /\ Asked(m, r)
  <2>1. memory.messages \in Seq(Message) /\ input \in Seq(Message)
    BY InputTyped DEF TypeOK, Checkpoint
  <2> QED
    BY <2>1, InputAsks, AskedBehind, ConcatProperties
<1>3. \A q \in Requests \ overlapped : pc[q] = "answered" => Remembers(m, q)
  BY <1>2, MoreIsSaid DEF RInv, Others
<1>4. /\ pc[r] = "idle" /\ Goto(r, "primary") /\ memory' = memory /\ broken' = broken
      /\ overlapped' = IF Running = {} THEN overlapped
                       ELSE overlapped \cup Running \cup {r}
  BY DEF Start
<1>5. \A q \in Requests : pc'[q] = IF q = r THEN "primary" ELSE pc[q]
  BY <1>4 DEF Goto, TypeOK
<1>6. Alone'
  <2>1. CASE Running = {}
    BY <1>5, <2>1 DEF Running, Alone
  <2>2. CASE Running # {}
    <3>1. \A q \in Requests : pc'[q] \in Active => q \in overlapped'
      BY <1>4, <1>5, <2>2 DEF Running
    <3> QED
      BY <3>1 DEF Alone
  <2> QED
    BY <2>1, <2>2
<1>7. overlapped \subseteq overlapped'
  BY <1>4
<1> HIDE DEF m
<1>8. Save(r, m)
  BY <1>1 DEF m
<1> QED
  BY <1>2, <1>3, <1>4, <1>6, <1>7, <1>8, SaveRemembers

\* A step of the graph ends with more said than before.
LEMMA StepEndsRemembers ==
    ASSUME TypeOK, RInv, NEW r \in Requests, NEW m \in Seq(Message),
           NEW l \in {"primary", "agent", "finishing"},
           pc[r] \in {"primary", "agent"}, StepEnds(r, Merged(r, m), l),
           UNCHANGED <<memory, broken, overlapped>>,
           l = "finishing" => \E t \in Seq(Message) : m = t \o <<Says("answer", r)>>
    PROVE  RInv'
<1> DEFINE n == Merged(r, m)
<1>1. messages[r] \in Seq(Message) /\ n \in Seq(Message)
  BY ConcatProperties DEF Merged, TypeOK
<1>2. Save(r, n) /\ Goto(r, l)
  BY DEF StepEnds
<1>3. r \notin overlapped =>
        IF l = "finishing" THEN Remembers(n, r) ELSE Asked(n, r)
  <2> SUFFICES ASSUME r \notin overlapped
               PROVE  IF l = "finishing" THEN Remembers(n, r) ELSE Asked(n, r)
    OBVIOUS
  <2>1. Asked(messages[r], r)
    BY DEF RInv, Own
  <2>2. Asked(n, r)
    BY <1>1, <2>1, MoreIsSaid DEF Merged
  <2>3. ASSUME l = "finishing" PROVE Remembers(n, r)
    <3>1. PICK t \in Seq(Message) : m = t \o <<Says("answer", r)>>
      BY <2>3
    <3> QED
      BY <1>1, <2>1, <3>1, AskedAndAnswered DEF Merged
  <2> QED
    BY <2>2, <2>3
<1>4. \A q \in Requests \ overlapped : pc[q] = "answered" => Remembers(n, q)
  BY <1>1, MoreIsSaid DEF RInv, Others, Merged
<1>5. \A q \in Requests : pc'[q] = IF q = r THEN l ELSE pc[q]
  BY <1>2 DEF Goto, TypeOK
<1>6. Alone'
  BY <1>5 DEF RInv, Alone, Active
<1> HIDE DEF n
<1> QED
  BY <1>1, <1>2, <1>3, <1>4, <1>6, SaveRemembers

\* What the agents add in a step comes behind all that was said.
LEMMA TurnRemembers ==
    ASSUME TypeOK, RInv, NEW r \in Requests, Handoff(r) \/ Answer(r) \/ Report(r)
    PROVE  RInv'
<1>1. \A m \in Summarized(r) : m \in Seq(Message)
  BY SummarizedTyped
<1>2. \A kind \in {"answer", "report"} : <<Says(kind, r)>> \in Seq(Message)
  BY SaysTyped DEF Kinds
<1>3. CASE Handoff(r)
  BY <1>1, <1>3, StepEndsRemembers DEF Handoff, MayCall
<1>4. CASE Answer(r)
  <2>1. PICK m \in Summarized(r) :
            StepEnds(r, Merged(r, m \o <<Says("answer", r)>>), "finishing")
    BY <1>4 DEF Answer
  <2>2. m \in Seq(Message) /\ m \o <<Says("answer", r)>> \in Seq(Message)
    BY <1>1, <1>2, ConcatProperties
  <2> QED
    BY <1>4, <2>1, <2>2, StepEndsRemembers DEF Answer, MayAnswer
<1>5. CASE Report(r)
  BY <1>2, <1>5, StepEndsRemembers DEF Report
<1> QED
  BY <1>3, <1>4, <1>5

\* Who gives up takes nothing away; who is through has nothing on the way.
LEMMA GiveUpRemembers ==
    ASSUME TypeOK, RInv, NEW r \in Requests, pc[r] \in Active,
           NEW l \in {"failing", "leaving"} \cup Over, GiveUp(r, l),
           l \in Over => pending[r] = <<>>,
           l = "answered" /\ r \notin overlapped => Remembers(memory.messages, r)
    PROVE  RInv'
<1>1. \A q \in Requests : pc'[q] = IF q = r THEN l ELSE pc[q]
  BY DEF GiveUp, Goto, TypeOK
<1>2. /\ UNCHANGED <<memory, clock, pending, broken, overlapped>>
      /\ \A q \in Requests \ {r} : messages'[q] = messages[q]
  BY DEF GiveUp, TypeOK
<1>3. AtRest' /\ Alone' /\ Stamped' /\ Newer'
  BY <1>1, <1>2 DEF RInv, AtRest, Alone, Stamped, Newer, Active, Over
<1>4. Own'
  BY <1>1, <1>2 DEF RInv, Own, Latest, Over
<1>5. Others'
  <2> SUFFICES ASSUME NEW p \in Requests \ overlapped, pc'[p] = "answered",
                      NEW q \in Requests
               PROVE  /\ Remembers(memory.messages, p)
                      /\ pc'[q] \in {"primary", "agent"} => Remembers(messages'[q], p)
                      /\ \A i \in DOMAIN pending[q] :
                            Remembers(pending[q][i].messages, p)
    BY <1>2 DEF Others
  <2>1. CASE p # r
    BY <1>1, <1>2, <2>1 DEF RInv, Others, Over
  <2>2. CASE p = r
    <3>1. l = "answered" /\ pending[r] = <<>> /\ Remembers(memory.messages, p)
      BY <1>1, <2>2 DEF Over
    <3>2. q # r => pc[q] \notin Active /\ pending[q] = <<>>
      BY <2>2 DEF RInv, Alone, AtRest
    <3>3. pending[q] = <<>> /\ pc'[q] \notin {"primary", "agent"}
      BY <1>1, <3>1, <3>2 DEF Active
    <3>4. DOMAIN pending[q] = {}
      BY <3>3
    <3> QED
      BY <3>1, <3>3, <3>4
  <2> QED
    BY <2>1, <2>2
<1> QED
  BY <1>3, <1>4, <1>5 DEF RInv

\* A run that has answered has all its checkpoints in the database.
LEMMA EndRemembers ==
    ASSUME TypeOK, RInv, NEW r \in Requests, End(r)
    PROVE  RInv'
<1> DEFINE l == IF pc[r] = "finishing" /\ r \in broken THEN "failed"
                ELSE Closing[pc[r]]
<1>1. /\ pc[r] \in {"finishing", "failing", "leaving"} /\ pending[r] = <<>>
      /\ GiveUp(r, l)
  BY DEF End, Closing
<1>2. l \in Over /\ (l = "answered" => pc[r] = "finishing" /\ r \notin broken)
  BY <1>1 DEF Closing, Over
<1>3. l = "answered" /\ r \notin overlapped => Remembers(memory.messages, r)
  BY <1>1, <1>2 DEF RInv, Own, Latest
<1> HIDE DEF l
<1> QED
  BY <1>1, <1>2, <1>3, GiveUpRemembers DEF Active

\* A run that is alone writes its own checkpoints in order, and the last of them
\* is what is left; whoever else writes has what was answered before.
LEMMA WriteRemembers ==
    ASSUME TypeOK, RInv, NEW r \in Requests, Write(r) \/ WriteFails(r)
    PROVE  RInv'
<1> DEFINE n == Len(pending[r])
           h == pending[r][1]
<1>1. /\ pending[r] # <<>> /\ pending' = [pending EXCEPT ![r] = Tail(@)]
      /\ UNCHANGED <<clock, pc, messages, overlapped>>
  BY DEF Write, WriteFails
<1>2. /\ \A q \in Requests \ {r} : pending'[q] = pending[q]
      /\ Head(pending[r]) = h /\ 1 \in DOMAIN pending[r]
      /\ DOMAIN pending[r] = 1 .. n /\ n \in Nat \ {0}
      /\ Len(pending'[r]) = n - 1 /\ DOMAIN pending'[r] = 1 .. n - 1
      /\ \A i \in 1 .. n - 1 :
            i + 1 \in DOMAIN pending[r] /\ pending'[r][i] = pending[r][i + 1]
      /\ pending'[r] = <<>> <=> n = 1
  BY <1>1, WrittenThen
<1>3. /\ \/ memory' = memory
         \/ memory' = h /\ h.stamp > memory.stamp
      /\ \/ broken' = broken \cup {r}
         \/ broken' = broken /\ (h.stamp > memory.stamp => memory' = h)
  BY <1>2 DEF Write, WriteFails
<1>4. pc[r] \in Active
  BY <1>1 DEF RInv, AtRest
<1>5. /\ memory.stamp \in Nat
      /\ \A p \in Requests : \A k \in DOMAIN pending[p] : pending[p][k].stamp \in Nat
  <2>1. ASSUME NEW p \in Requests, NEW k \in DOMAIN pending[p]
        PROVE  pending[p][k].stamp \in Nat
    <3>1. pending[p] \in Seq(Checkpoint)
      BY DEF TypeOK
    <3>2. pending[p][k] \in Checkpoint
      BY <3>1, LenProperties, ElementOfSeq
    <3> QED
      BY <3>2 DEF Checkpoint
  <2> QED
    BY <2>1 DEF TypeOK, Checkpoint
<1> HIDE DEF n, h
<1>6. AtRest'
  BY <1>1, <1>2, <1>4 DEF RInv, AtRest
<1>7. Alone'
  BY <1>1 DEF RInv, Alone
<1>8. Stamped'
  <2>1. memory'.stamp <= clock'
    BY <1>1, <1>2, <1>3, <1>5 DEF RInv, Stamped, h
  <2>2. ASSUME NEW q \in Requests, NEW i \in DOMAIN pending'[q]
        PROVE  /\ pending'[q][i].stamp <= clock'
               /\ \A j \in DOMAIN pending'[q] :
                    i < j => pending'[q][i].stamp < pending'[q][j].stamp
    <3>1. CASE q # r
      BY <1>1, <1>2, <2>2, <3>1 DEF RInv, Stamped
    <3>2. CASE q = r
      <4>1. \A k \in DOMAIN pending'[r] :
                /\ k \in 1 .. n - 1 /\ k + 1 \in DOMAIN pending[r]
                /\ pending'[r][k] = pending[r][k + 1]
        BY <1>2
      <4>2. ASSUME NEW j \in DOMAIN pending'[r], i < j
            PROVE  pending'[r][i].stamp < pending'[r][j].stamp
        <5>1. /\ i + 1 \in DOMAIN pending[r] /\ j + 1 \in DOMAIN pending[r]
              /\ i + 1 < j + 1
              /\ pending'[r][i] = pending[r][i + 1]
              /\ pending'[r][j] = pending[r][j + 1]
          BY <1>2, <2>2, <3>2, <4>1, <4>2
        <5>2. pending[r][i + 1].stamp < pending[r][j + 1].stamp
          BY <5>1 DEF RInv, Stamped
        <5> QED
          BY <5>1, <5>2
      <4>3. pending'[r][i].stamp <= clock'
        BY <1>1, <2>2, <3>2, <4>1 DEF RInv, Stamped
      <4> QED
        BY <3>2, <4>2, <4>3
    <3> QED
      BY <3>1, <3>2
  <2> QED
    BY <2>1, <2>2 DEF Stamped
<1>9. \A q \in Requests \ overlapped : pc[q] \in Active => q = r
  BY <1>4 DEF RInv, Alone
<1>10. Newer'
  <2> SUFFICES ASSUME r \notin overlapped, NEW i \in DOMAIN pending'[r]
               PROVE  memory'.stamp < pending'[r][i].stamp
    BY <1>1, <1>9 DEF Newer
  <2>1. /\ i + 1 \in DOMAIN pending[r] /\ pending'[r][i] = pending[r][i + 1]
        /\ 1 < i + 1
    BY <1>2
  <2>2. memory.stamp < pending[r][i + 1].stamp
    BY <1>4, <2>1 DEF RInv, Newer
  <2>3. h.stamp < pending[r][i + 1].stamp
    BY <1>2, <2>1 DEF RInv, Stamped, h
  <2> QED
    BY <1>3, <2>1, <2>2, <2>3
<1>11. Own'
  <2> SUFFICES ASSUME NEW q \in Requests \ overlapped
               PROVE  /\ pc[q] \in {"primary", "agent"} => Asked(messages[q], q)
                      /\ pc[q] = "finishing" /\ q \notin broken' =>
                            Remembers(Latest(q)', q)
    BY <1>1 DEF Own
  <2>1. pc[q] \in {"primary", "agent"} => Asked(messages[q], q)
    BY DEF RInv, Own
  <2>2. ASSUME pc[q] = "finishing", q \notin broken'
        PROVE  Remembers(Latest(q)', q)
    <3>1. q = r /\ r \notin overlapped
      BY <1>9, <2>2 DEF Active
    <3>2. r \notin broken /\ broken' = broken
      BY <1>3, <2>2, <3>1
    <3>3. memory' = h
      <4>1. memory.stamp < h.stamp /\ h.stamp \in Nat
        BY <1>2, <1>4, <1>5, <3>1 DEF RInv, Newer, h
      <4>2. h.stamp > memory.stamp
        BY <1>5, <4>1
      <4>3. h.stamp > memory.stamp => memory' = h
        BY <1>3, <2>2, <3>1
      <4> QED
        BY <4>2, <4>3
    <3>4. Latest(r)' = Latest(r)
      <4>1. Latest(r) = pending[r][n].messages
        BY <1>1 DEF Latest, n
      <4>2. CASE n = 1
        <5>1. pending'[r] = <<>>
          BY <1>2, <4>2
        <5> QED
          BY <3>3, <4>1, <4>2, <5>1 DEF Latest, h
      <4>3. CASE n # 1
        <5>1. /\ pending'[r] # <<>> /\ n - 1 \in 1 .. n - 1 /\ n - 1 + 1 = n
              /\ Len(pending'[r]) = n - 1
          BY <1>2, <4>3
        <5>2. pending'[r][n - 1] = pending[r][n]
          BY <1>2, <5>1
        <5> QED
          BY <4>1, <5>1, <5>2 DEF Latest
      <4> QED
        BY <4>2, <4>3
    <3> QED
      BY <2>2, <3>1, <3>2, <3>4 DEF RInv, Own
  <2> QED
    BY <2>1, <2>2
<1>12. Others'
  <2> SUFFICES ASSUME NEW p \in Requests \ overlapped, pc[p] = "answered",
                      NEW q \in Requests
               PROVE  /\ Remembers(memory'.messages, p)
                      /\ pc[q] \in {"primary", "agent"} => Remembers(messages[q], p)
                      /\ \A i \in DOMAIN pending'[q] :
                            Remembers(pending'[q][i].messages, p)
    BY <1>1 DEF Others
  <2>1. Remembers(memory.messages, p) /\ Remembers(h.messages, p)
    BY <1>2 DEF RInv, Others, h
  <2>2. pc[q] \in {"primary", "agent"} => Remembers(messages[q], p)
    BY DEF RInv, Others
  <2>3. ASSUME NEW i \in DOMAIN pending'[q]
        PROVE  Remembers(pending'[q][i].messages, p)
    <3>1. \E k \in DOMAIN pending[q] : pending'[q][i] = pending[q][k]
      <4>1. CASE q = r
        BY <1>2, <2>3, <4>1
      <4>2. CASE q # r
        BY <1>2, <2>3, <4>2
      <4> QED
        BY <4>1, <4>2
    <3> QED
      BY <3>1 DEF RInv, Others
  <2> QED
    BY <1>3, <2>1, <2>2, <2>3
<1> QED
  BY <1>6, <1>7, <1>8, <1>10, <1>11, <1>12 DEF RInv

\* A crash takes only what nobody was answered.
LEMMA CrashRemembers == ASSUME TypeOK, RInv, Crash PROVE RInv'
<1>1. /\ \A r \in Requests : pc'[r] = IF pc[r] \in Active THEN "dead" ELSE pc[r]
      /\ \A r \in Requests : pending'[r] = <<>> /\ DOMAIN pending'[r] = {}
      /\ UNCHANGED <<memory, clock, broken, overlapped>>
  BY DEF Crash, Running
<1>2. \A r \in Requests : pc'[r] \notin Active
  BY <1>1 DEF Active
<1>3. AtRest' /\ Alone' /\ Stamped' /\ Newer'
  BY <1>1, <1>2 DEF RInv, AtRest, Alone, Stamped, Newer
<1>4. Own'
  BY <1>1, <1>2 DEF Own, Active
<1>5. Others'
  BY <1>1, <1>2 DEF RInv, Others, Active
<1> QED
  BY <1>3, <1>4, <1>5 DEF RInv

\* A run that finds no conversation says nothing.
LEMMA LoadFailsRemembers ==
    ASSUME TypeOK, RInv, NEW r \in Requests, LoadFails(r)
    PROVE  RInv'
<1>1. /\ \A q \in Requests : pc'[q] = IF q = r THEN "failed" ELSE pc[q]
      /\ UNCHANGED <<memory, clock, messages, pending, broken, overlapped>>
      /\ pc[r] = "idle"
  BY DEF LoadFails, Goto, TypeOK
<1>2. AtRest' /\ Alone' /\ Stamped' /\ Newer'
  BY <1>1 DEF RInv, AtRest, Alone, Stamped, Newer, Active
<1>3. Own' /\ Others'
  BY <1>1 DEF RInv, Own, Others, Latest
<1> QED
  BY <1>2, <1>3 DEF RInv

\* Nothing was answered in the beginning.
LEMMA RememberedInit == Init => RInv
<1> SUFFICES ASSUME Init PROVE RInv
  OBVIOUS
<1>1. /\ \A r \in Requests :
            pending[r] = <<>> /\ DOMAIN pending[r] = {} /\ pc[r] = "idle"
      /\ memory.stamp = 0 /\ clock = 0
  BY DEF Init
<1> QED
  BY <1>1 DEF RInv, AtRest, Alone, Stamped, Newer, Own, Others, Active

\* Every step keeps what was answered.
LEMMA RememberedNext == TypeOK /\ RInv /\ [Next]_vars => RInv'
<1> SUFFICES ASSUME TypeOK, RInv, [Next]_vars PROVE RInv'
  OBVIOUS
<1>1. ASSUME UNCHANGED <<memory, clock, pc, messages, pending, broken, overlapped>>
      PROVE  RInv'
  BY <1>1 DEF RInv, AtRest, Alone, Stamped, Newer, Own, Others, Latest
<1>2. CASE UNCHANGED vars
  BY <1>1, <1>2 DEF vars
<1>3. ASSUME NEW r \in Requests, UseTool(r) PROVE RInv'
  BY <1>1, <1>3 DEF UseTool
<1>4. ASSUME NEW r \in Requests,
             TooManySteps(r) \/ ModelFails(r) \/ Abandon(r)
                \/ (AgentFails(r) /\ Fails(r))
      PROVE  RInv'
  <2>1. /\ pc[r] \in {"primary", "agent"}
        /\ GiveUp(r, "failing") \/ GiveUp(r, "leaving")
    BY <1>4 DEF TooManySteps, ModelFails, Abandon, AgentFails, Fails
  <2> QED
    BY <2>1, GiveUpRemembers DEF Active, Over
<1>5. ASSUME NEW r \in Requests, AgentFails(r), ~Fails(r) PROVE RInv'
  BY <1>1, <1>5 DEF AgentFails
<1> QED
  BY <1>2, <1>3, <1>4, <1>5, StartRemembers, TurnRemembers, EndRemembers,
     WriteRemembers, CrashRemembers, LoadFailsRemembers DEF Next, Step

\* What a client got an answer to stays in the conversation, with the answer
\* behind it, in any number of runs and whatever fails in them.
THEOREM Remembered == Spec => []AnsweredIsRemembered
<1>1. RInv => AnsweredIsRemembered
  BY DEF RInv, Others, AnsweredIsRemembered
<1> QED
  BY <1>1, RememberedInit, RememberedNext, Typing, PTL DEF Spec

===============================================================================
