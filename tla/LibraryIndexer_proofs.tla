------------------------ MODULE LibraryIndexer_proofs ------------------------
(***************************************************************************)
(* Proofs about LibraryIndexer for any number of service instances,        *)
(* objects, events, crashes, failed calls and moves of the partition.      *)
(***************************************************************************)
EXTENDS LibraryIndexer, TLAPS

(* A consumer inside a handler has a message in hand, and one that is      *)
(* about to write points has something to write.                           *)
InHand ==
    \A c \in Consumers :
        /\ pc[c] \in Working => next[c] >= 2
        /\ pc[c] = "upsert" => found[c] >= 1

(* Everything before the message in hand has been handled, and so has      *)
(* everything before the next fetch of the partition's owner.              *)
PrefixHandled ==
    \A c \in Consumers :
        /\ pc[c] \in Working => 1 .. (next[c] - 2) \subseteq handled
        /\ owner = c /\ pc[c] = "poll" => 1 .. (next[c] - 1) \subseteq handled
        /\ owner = c => pc[c] \in Working \cup {"poll"}

HandledInv == NoEventLost /\ PrefixHandled

(* The message in hand is a message of the partition.                      *)
LEMMA MessageInHand ==
    ASSUME TypeOK, InHand, NEW c \in Consumers, pc[c] \in Working
    PROVE  /\ At(c) \in 1 .. Len(log)
           /\ Event(c) \in Message
           /\ Key(c) \in Objects
<1>1. next[c] \in 1 .. Len(log) + 1 /\ next[c] >= 2
  BY DEF TypeOK, InHand
<1>2. log \in Seq(Message) /\ Len(log) \in Nat
  BY DEF TypeOK
<1>3. At(c) \in 1 .. Len(log)
  BY <1>1, <1>2 DEF At
<1>4. log[At(c)] \in Message
  BY <1>2, <1>3
<1> QED
  BY <1>3, <1>4 DEF Event, Key, Message

(* The message to be fetched leads to one of three places.                 *)
LEMMA Dispatched ==
    ASSUME TypeOK, NEW c \in Consumers, next[c] <= Len(log)
    PROVE  Dispatch[log[next[c]].kind] \in {"delete", "finish", "skip"}
<1>1. next[c] \in 1 .. Len(log)
  <2>1. next[c] \in 1 .. Len(log) + 1 /\ Len(log) \in Nat
    BY DEF TypeOK
  <2> QED
    BY <2>1
<1>2. log[next[c]] \in Message
  <2>1. log \in Seq(Message)
    BY DEF TypeOK
  <2> QED
    BY <1>1, <2>1
<1>3. log[next[c]].kind \in Kinds
  BY <1>2 DEF Message
<1> QED
  BY <1>3 DEF Dispatch, Kinds

(* Every step of the specification keeps the types, together with what a   *)
(* consumer inside a handler has in hand.                                  *)
THEOREM Typing == Spec => [](TypeOK /\ InHand)
<1>1. Init => TypeOK /\ InHand
  BY IndexerAssumption DEF Init, TypeOK, InHand, Locations, Working, Kinds
<1>2. TypeOK /\ InHand /\ [Next]_vars => (TypeOK /\ InHand)'
  <2> SUFFICES ASSUME TypeOK, InHand, [Next]_vars PROVE (TypeOK /\ InHand)'
    OBVIOUS
  <2> USE IndexerAssumption
      DEF TypeOK, InHand, Locations, Working, Goto, worldVars, kafkaVars,
          boundVars, pastVars
  <2>2. ASSUME NEW o \in Objects, NEW kind \in Kinds, Notify(o, kind)
        PROVE  /\ log' \in Seq(Message)
               /\ Len(log') = Len(log) + 1 /\ Len(log') <= MaxEvents
    BY <2>2 DEF Notify, Message
  <2>3. ASSUME NEW o \in Objects, NEW kind \in Kinds,
               Put(o, kind) \/ Noise(o, kind)
        PROVE  (TypeOK /\ InHand)'
    <3>1. CASE Put(o, kind)
      <4>1. Notify(o, kind) /\ bucket' = [bucket EXCEPT ![o] = Len(log) + 1]
        BY <3>1 DEF Put
      <4>2. log' \in Seq(Message) /\ Len(log') = Len(log) + 1
            /\ Len(log') <= MaxEvents
        BY <4>1, <2>2
      <4>3. bucket' \in [Objects -> 0 .. MaxEvents]
        BY <4>1, <4>2
      <4> QED
        BY <4>1, <4>2, <4>3 DEF Notify
    <3>2. CASE Noise(o, kind)
      <4>1. Notify(o, kind) /\ bucket' = bucket
        BY <3>2 DEF Noise
      <4>2. log' \in Seq(Message) /\ Len(log') = Len(log) + 1
            /\ Len(log') <= MaxEvents
        BY <4>1, <2>2
      <4> QED
        BY <4>1, <4>2 DEF Notify
    <3> QED
      BY <2>3, <3>1, <3>2
  <2>4. ASSUME NEW o \in Objects, Remove(o) PROVE (TypeOK /\ InHand)'
    <3>1. Notify(o, "removed") /\ bucket' = [bucket EXCEPT ![o] = 0]
      BY <2>4 DEF Remove
    <3>2. log' \in Seq(Message) /\ Len(log') = Len(log) + 1
          /\ Len(log') <= MaxEvents
      BY <3>1, <2>2 DEF Kinds
    <3>3. bucket' \in [Objects -> 0 .. MaxEvents]
      BY <3>1
    <3> QED
      BY <3>1, <3>2, <3>3 DEF Notify
  <2>5. CASE Revoke
    BY <2>5 DEF Revoke
  <2>6. ASSUME NEW c \in Consumers, ConsumerStep(c) \/ Fault(c)
        PROVE  (TypeOK /\ InHand)'
    <3>1. CASE Assign(c)
      BY <3>1 DEF Assign
    <3>2. CASE Poll(c)
      <4>1. PICK l \in {"delete", "finish", "skip"} : pc' = [pc EXCEPT ![c] = l]
        BY <3>2, Dispatched DEF Poll
      <4> QED
        BY <3>2, <4>1 DEF Poll
    <3>3. CASE DeletePoints(c)
      <4>1. PICK l \in {"finish", "load"} : pc' = [pc EXCEPT ![c] = l]
        BY <3>3 DEF DeletePoints
      <4>2. index' \in [Objects -> Seq(1 .. MaxEvents)]
        <5>1. index' = [index EXCEPT ![Key(c)] = <<>>]
          BY <3>3 DEF DeletePoints
        <5>2. <<>> \in Seq(1 .. MaxEvents)
          OBVIOUS
        <5>3. index \in [Objects -> Seq(1 .. MaxEvents)]
          OBVIOUS
        <5> HIDE DEF TypeOK
        <5> QED
          BY <5>1, <5>2, <5>3
      <4>3. disturbed' \subseteq Objects
        BY <3>3, MessageInHand DEF DeletePoints, BeginRewriting
      <4> QED
        BY <3>3, <4>1, <4>2, <4>3 DEF DeletePoints
    <3>4. CASE Load(c)
      <4>1. Key(c) \in Objects
        BY <3>4, MessageInHand DEF Load
      <4>2. bucket[Key(c)] \in 0 .. MaxEvents
        BY <4>1
      <4>3. CASE /\ bucket[Key(c)] # 0
                 /\ found' = [found EXCEPT ![c] = bucket[Key(c)]]
                 /\ pc' = [pc EXCEPT ![c] = "upsert"]
        BY <3>4, <4>2, <4>3 DEF Load
      <4>4. CASE found' = found /\ pc' = [pc EXCEPT ![c] = "finish"]
        BY <3>4, <4>4 DEF Load
      <4> QED
        BY <3>4, <4>3, <4>4 DEF Load
    <3>5. CASE Upsert(c)
      <4>1. Key(c) \in Objects /\ found[c] \in 1 .. MaxEvents
        BY <3>5, MessageInHand DEF Upsert
      <4>2. Append(index[Key(c)], found[c]) \in Seq(1 .. MaxEvents)
        BY <4>1
      <4>3. index' \in [Objects -> Seq(1 .. MaxEvents)]
        BY <3>5, <4>1, <4>2 DEF Upsert
      <4>4. newest' \in [Objects -> 0 .. MaxEvents]
        BY <3>5, <4>1 DEF Upsert
      <4> QED
        BY <3>5, <4>3, <4>4 DEF Upsert
    <3>6. CASE Commit(c)
      <4>1. At(c) \in 1 .. Len(log)
        BY <3>6, MessageInHand DEF Commit
      <4>2. committed' = committed \/ committed' = At(c)
        BY <3>6 DEF Commit
      <4>3. committed' \in 0 .. Len(log)
        BY <4>1, <4>2
      <4>4. handled' = handled \cup {At(c)}
        BY <3>6 DEF Commit
      <4>5. handled' \subseteq 1 .. Len(log)
        BY <4>1, <4>4
      <4> QED
        BY <3>6, <4>3, <4>5 DEF Commit
    <3>7. CASE Skip(c)
      BY <3>7, MessageInHand DEF Skip
    <3>8. CASE Restart(c)
      BY <3>8 DEF Restart
    <3>9. CASE CallFails(c)
      <4>1. disturbed' \subseteq Objects
        BY <3>9, MessageInHand DEF CallFails
      <4> QED
        BY <3>9, <4>1 DEF CallFails
    <3>10. CASE Crash(c)
      BY <3>10 DEF Crash, Leaves
    <3>11. CASE LoopDies(c)
      BY <3>11 DEF LoopDies, Leaves
    <3> QED
      BY <2>6, <3>1, <3>2, <3>3, <3>4, <3>5, <3>6, <3>7, <3>8, <3>9, <3>10,
         <3>11
      DEF ConsumerStep, Fault
  <2>7. CASE UNCHANGED vars
    BY <2>7 DEF vars
  <2> QED
    BY <2>3, <2>4, <2>5, <2>6, <2>7 DEF Next, User
<1> QED
  BY <1>1, <1>2, PTL DEF Spec

(* No crash, lost commit or change of owner makes the group pass over a    *)
(* message that no handler has finished with.                              *)
THEOREM NothingIsSkippedOver == Spec => []NoEventLost
<1>1. Init => HandledInv
  BY IndexerAssumption DEF Init, HandledInv, NoEventLost, PrefixHandled, Working
<1>2. TypeOK /\ InHand /\ HandledInv /\ [Next]_vars => HandledInv'
  <2> SUFFICES ASSUME TypeOK, InHand, HandledInv, [Next]_vars
               PROVE  HandledInv'
    OBVIOUS
  <2> USE IndexerAssumption
      DEF HandledInv, NoEventLost, PrefixHandled, TypeOK, InHand, Locations,
          Working, Goto, worldVars, kafkaVars, boundVars, pastVars
  <2>1. ASSUME NEW o \in Objects, NEW kind \in Kinds, Notify(o, kind)
        PROVE  HandledInv'
    BY <2>1 DEF Notify
  <2>2. CASE Revoke
    BY <2>2 DEF Revoke
  <2>3. ASSUME NEW c \in Consumers, ConsumerStep(c) \/ Fault(c)
        PROVE  HandledInv'
    <3>1. CASE Assign(c)
      BY <3>1 DEF Assign
    <3>2. CASE Poll(c)
      <4>1. PICK l \in {"delete", "finish", "skip"} : pc' = [pc EXCEPT ![c] = l]
        BY <3>2, Dispatched DEF Poll
      <4> QED
        BY <3>2, <4>1 DEF Poll
    <3>3. CASE DeletePoints(c)
      BY <3>3 DEF DeletePoints
    <3>4. CASE Load(c)
      BY <3>4 DEF Load
    <3>5. CASE Upsert(c)
      BY <3>5 DEF Upsert
    <3>6. CASE Commit(c)
      <4>1. 1 .. At(c) \subseteq handled'
        BY <3>6 DEF Commit, At
      <4>2. handled \subseteq handled' /\ next' = next /\ owner' = owner
        BY <3>6 DEF Commit
      <4>3. NoEventLost'
        BY <3>6, <4>1, <4>2 DEF Commit
      <4>4. PrefixHandled'
        BY <3>6, <4>1, <4>2 DEF Commit, At
      <4> QED
        BY <4>3, <4>4
    <3>7. CASE Skip(c)
      BY <3>7 DEF Skip, At
    <3>8. CASE Restart(c)
      BY <3>8 DEF Restart
    <3>9. CASE CallFails(c)
      BY <3>9 DEF CallFails
    <3>10. CASE Crash(c)
      BY <3>10 DEF Crash, Leaves
    <3>11. CASE LoopDies(c)
      BY <3>11 DEF LoopDies, Leaves
    <3> QED
      BY <2>3, <3>1, <3>2, <3>3, <3>4, <3>5, <3>6, <3>7, <3>8, <3>9, <3>10,
         <3>11
      DEF ConsumerStep, Fault
  <2>4. CASE UNCHANGED vars
    BY <2>4 DEF vars
  <2> QED
    BY <2>1, <2>2, <2>3, <2>4 DEF Next, User, Put, Noise, Remove, Kinds
<1> QED
  BY <1>1, <1>2, Typing, PTL DEF Spec, HandledInv

-----------------------------------------------------------------------------
(* What a consumer is about to write is the newest version, unless another *)
(* consumer is at the same object, and then the object counts as disturbed.*)
VersionsOrdered ==
    \A o \in Objects :
        /\ bucket[o] <= Len(log) /\ newest[o] <= Len(log)
        /\ bucket[o] # 0 => newest[o] <= bucket[o]

WritesNewest ==
    \A c \in Consumers :
        /\ found[c] <= Len(log)
        /\ pc[c] = "upsert" =>
            /\ bucket[Key(c)] # 0 => found[c] <= bucket[Key(c)]
            /\ Key(c) \notin disturbed => newest[Key(c)] <= found[c]

OverlapIsMarked ==
    \A c, d \in Consumers :
        (/\ c # d
         /\ pc[c] \in {"load", "upsert"} /\ pc[d] \in {"load", "upsert"}
         /\ Key(c) = Key(d)) => Key(d) \in disturbed

Ordered == VersionsOrdered /\ WritesNewest /\ OverlapIsMarked

(* A consumer in a handler keeps its message while the log grows.          *)
LEMMA MessageStays ==
    ASSUME TypeOK, InHand, NEW c \in Consumers, pc[c] \in Working,
           next'[c] = next[c],
           log' = log \/ \E m \in Message : log' = Append(log, m)
    PROVE  At(c)' = At(c) /\ Event(c)' = Event(c) /\ Key(c)' = Key(c)
<1>1. At(c) \in 1 .. Len(log) /\ log \in Seq(Message)
  BY MessageInHand DEF TypeOK
<1>2. At(c)' = At(c)
  BY DEF At
<1>3. log'[At(c)] = log[At(c)]
  <2>1. ASSUME NEW m \in Message, log' = Append(log, m)
        PROVE  log'[At(c)] = log[At(c)]
    BY <1>1, <2>1
  <2> QED
    BY <2>1
<1> QED
  BY <1>2, <1>3 DEF Key, Event

(* A consumer that the step leaves alone goes on rewriting the same object.*)
LEMMA KeysStay ==
    ASSUME TypeOK, InHand,
           log' = log \/ \E m \in Message : log' = Append(log, m),
           NEW S \in SUBSET Consumers,
           \A c \in S : pc'[c] = pc[c] /\ next'[c] = next[c]
    PROVE  \A c \in S : pc[c] \in {"load", "upsert"} =>
               /\ Key(c)' = Key(c)
               /\ Key(c) \in Objects
BY MessageStays, MessageInHand DEF Working

(* Users only add versions, which are newer than all there were.           *)
LEMMA UsersKeepOrder ==
    ASSUME TypeOK, InHand, Ordered, NEW o \in Objects, NEW kind \in Kinds,
           Notify(o, kind),
           \/ bucket' = bucket
           \/ bucket' = [bucket EXCEPT ![o] = 0]
           \/ bucket' = [bucket EXCEPT ![o] = Len(log) + 1]
    PROVE  Ordered'
<1>1. \E m \in Message : log' = Append(log, m)
  BY DEF Notify, Message
<1>2. Len(log') = Len(log) + 1 /\ Len(log) \in Nat
  BY <1>1 DEF TypeOK
<1>3. UNCHANGED <<pc, next, found, newest, disturbed>>
  BY DEF Notify, pastVars
<1>4. \A c \in Consumers : pc[c] \in {"load", "upsert"} =>
          Key(c)' = Key(c) /\ Key(c) \in Objects
  BY <1>1, <1>3, KeysStay
<1>5. \A x \in Objects : \/ bucket'[x] = bucket[x]
                         \/ bucket'[x] = 0
                         \/ bucket'[x] = Len(log) + 1
  BY DEF TypeOK
<1>6. VersionsOrdered'
  <2> SUFFICES ASSUME NEW x \in Objects
               PROVE  /\ bucket'[x] <= Len(log') /\ newest[x] <= Len(log')
                      /\ bucket'[x] # 0 => newest[x] <= bucket'[x]
    BY <1>3 DEF VersionsOrdered
  <2>1. /\ bucket[x] \in Nat /\ newest[x] \in Nat
        /\ bucket[x] <= Len(log) /\ newest[x] <= Len(log)
        /\ bucket[x] # 0 => newest[x] <= bucket[x]
    BY DEF TypeOK, Ordered, VersionsOrdered
  <2> QED
    BY <1>2, <1>5, <2>1
<1>7. WritesNewest'
  <2> SUFFICES ASSUME NEW c \in Consumers
               PROVE  /\ found[c] <= Len(log')
                      /\ pc[c] = "upsert" =>
                          /\ bucket'[Key(c)'] # 0 => found[c] <= bucket'[Key(c)']
                          /\ Key(c)' \notin disturbed => newest[Key(c)'] <= found[c]
    BY <1>3 DEF WritesNewest
  <2>1. /\ found[c] \in Nat /\ found[c] <= Len(log)
        /\ pc[c] = "upsert" =>
            /\ bucket[Key(c)] # 0 => found[c] <= bucket[Key(c)]
            /\ Key(c) \notin disturbed => newest[Key(c)] <= found[c]
    BY DEF TypeOK, Ordered, WritesNewest
  <2>2. CASE pc[c] = "upsert"
    <3>1. Key(c)' = Key(c) /\ Key(c) \in Objects
      BY <1>4, <2>2
    <3>2. \/ bucket'[Key(c)] = bucket[Key(c)]
          \/ bucket'[Key(c)] = 0
          \/ bucket'[Key(c)] = Len(log) + 1
      BY <1>5, <3>1
    <3> QED
      BY <1>2, <2>1, <2>2, <3>1, <3>2
  <2>3. CASE pc[c] # "upsert"
    BY <1>2, <2>1, <2>3
  <2> QED
    BY <2>2, <2>3
<1>8. OverlapIsMarked'
  BY <1>3, <1>4 DEF Ordered, OverlapIsMarked
<1> QED
  BY <1>6, <1>7, <1>8 DEF Ordered

(* A step that leaves the points and what was read alone, disturbs at      *)
(* most, and takes consumers out of the rewriting at most, keeps the order.*)
LEMMA OthersKeepOrder ==
    ASSUME TypeOK, InHand, Ordered,
           UNCHANGED <<bucket, log, found, newest>>,
           disturbed \subseteq disturbed',
           \A c \in Consumers : pc'[c] \in {"load", "upsert"} =>
               pc'[c] = pc[c] /\ next'[c] = next[c]
    PROVE  Ordered'
<1> DEFINE S == {c \in Consumers : pc'[c] \in {"load", "upsert"}}
<1>1. \A c \in S : pc[c] \in {"load", "upsert"} =>
          Key(c)' = Key(c) /\ Key(c) \in Objects
  <2>1. S \in SUBSET Consumers /\ log' = log
    OBVIOUS
  <2>2. \A c \in S : pc'[c] = pc[c] /\ next'[c] = next[c]
    OBVIOUS
  <2> HIDE DEF S
  <2> QED
    BY <2>1, <2>2, KeysStay
<1>2. \A c \in Consumers : pc'[c] \in {"load", "upsert"} =>
          pc'[c] = pc[c] /\ Key(c)' = Key(c) /\ Key(c) \in Objects
  BY <1>1
<1>3. VersionsOrdered'
  BY DEF Ordered, VersionsOrdered
<1>4. WritesNewest'
  BY <1>2 DEF Ordered, WritesNewest
<1>5. OverlapIsMarked'
  BY <1>2 DEF Ordered, OverlapIsMarked
<1> QED
  BY <1>3, <1>4, <1>5 DEF Ordered

(* A deletion that is not the only rewriting of its object marks it.       *)
LEMMA DeletionKeepsOrder ==
    ASSUME TypeOK, InHand, Ordered, NEW c \in Consumers, DeletePoints(c)
    PROVE  Ordered'
<1> DEFINE others == Consumers \ {c}
<1>1. /\ UNCHANGED <<bucket, log, next, found, newest>>
      /\ c \in Consumers /\ pc[c] = "delete"
      /\ \E l \in {"finish", "load"} : pc' = [pc EXCEPT ![c] = l]
  BY DEF DeletePoints, Goto, worldVars, kafkaVars, boundVars
<1>2. \A d \in others : pc'[d] = pc[d] /\ next'[d] = next[d]
  BY <1>1 DEF TypeOK
<1>3. \A d \in others : pc[d] \in {"load", "upsert"} =>
          Key(d)' = Key(d) /\ Key(d) \in Objects
  <2>1. others \in SUBSET Consumers /\ log' = log
    BY <1>1
  <2> HIDE DEF others
  <2> QED
    BY <1>2, <2>1, KeysStay
<1>4. Key(c)' = Key(c) /\ Key(c) \in Objects
  BY <1>1, MessageStays, MessageInHand DEF Working
<1>5. pc'[c] \in {"finish", "load"}
  BY <1>1 DEF TypeOK
<1>6. \A d \in others : pc[d] \in {"load", "upsert"} =>
          (Key(d) \in disturbed' <=> Key(d) \in disturbed \/ Key(d) = Key(c))
  BY DEF DeletePoints, BeginRewriting, Rewriting
<1>7. VersionsOrdered'
  BY <1>1 DEF Ordered, VersionsOrdered
<1>8. WritesNewest'
  <2> SUFFICES ASSUME NEW d \in Consumers
               PROVE  /\ found[d] <= Len(log)
                      /\ pc'[d] = "upsert" =>
                          /\ bucket[Key(d)'] # 0 => found[d] <= bucket[Key(d)']
                          /\ Key(d)' \notin disturbed' => newest[Key(d)'] <= found[d]
    BY <1>1 DEF WritesNewest
  <2>1. CASE d = c
    BY <1>5, <2>1 DEF Ordered, WritesNewest
  <2>2. CASE d \in others
    BY <1>2, <1>3, <1>6, <2>2 DEF Ordered, WritesNewest
  <2> QED
    BY <2>1, <2>2
<1>9. OverlapIsMarked'
  <2> SUFFICES ASSUME NEW d \in Consumers, NEW e \in Consumers, d # e,
                      pc'[d] \in {"load", "upsert"},
                      pc'[e] \in {"load", "upsert"}, Key(d)' = Key(e)'
               PROVE  Key(e)' \in disturbed'
    BY DEF OverlapIsMarked
  <2>1. CASE d = c
    BY <1>2, <1>3, <1>4, <1>6, <2>1
  <2>2. CASE e = c
    BY <1>2, <1>3, <1>4, <1>6, <2>2
  <2>3. CASE d \in others /\ e \in others
    BY <1>2, <1>3, <1>6, <2>3 DEF Ordered, OverlapIsMarked
  <2> QED
    BY <2>1, <2>2, <2>3
<1> QED
  BY <1>7, <1>8, <1>9 DEF Ordered

(* What is read is the newest version of the moment.                       *)
LEMMA LoadKeepsOrder ==
    ASSUME TypeOK, InHand, Ordered, NEW c \in Consumers, Load(c)
    PROVE  Ordered'
<1>1. CASE UNCHANGED found /\ Goto(c, "finish")
  <2>1. UNCHANGED <<bucket, log, next, found, newest, disturbed>>
    BY <1>1 DEF Load, worldVars, pastVars
  <2>2. \A d \in Consumers : pc'[d] \in {"load", "upsert"} =>
            pc'[d] = pc[d] /\ next'[d] = next[d]
    BY <1>1, <2>1 DEF Goto, TypeOK
  <2> QED
    BY <2>1, <2>2, OthersKeepOrder
<1>2. CASE /\ bucket[Key(c)] # 0
           /\ found' = [found EXCEPT ![c] = bucket[Key(c)]]
           /\ Goto(c, "upsert")
  <2>1. /\ UNCHANGED <<bucket, log, next, newest, disturbed>>
        /\ pc[c] = "load" /\ pc' = [pc EXCEPT ![c] = "upsert"]
    BY <1>2 DEF Load, worldVars, pastVars, Goto
  <2>2. \A d \in Consumers : pc'[d] \in {"load", "upsert"} =>
            /\ pc[d] \in {"load", "upsert"}
            /\ Key(d)' = Key(d) /\ Key(d) \in Objects
    <3>1. \A d \in Consumers : pc'[d] \in {"load", "upsert"} =>
              pc[d] \in {"load", "upsert"} /\ next'[d] = next[d]
      BY <2>1 DEF TypeOK
    <3> QED
      BY <2>1, <3>1, MessageStays, MessageInHand DEF Working
  <2>3. VersionsOrdered'
    BY <2>1 DEF Ordered, VersionsOrdered
  <2>4. WritesNewest'
    <3> SUFFICES ASSUME NEW d \in Consumers
                 PROVE  /\ found'[d] <= Len(log)
                        /\ pc'[d] = "upsert" =>
                            /\ bucket[Key(d)'] # 0 => found'[d] <= bucket[Key(d)']
                            /\ Key(d)' \notin disturbed => newest[Key(d)'] <= found'[d]
      BY <2>1 DEF WritesNewest
    <3>1. CASE d = c
      <4>1. Key(c)' = Key(c) /\ Key(c) \in Objects
        BY <2>1, <2>2 DEF TypeOK
      <4>2. found'[c] = bucket[Key(c)] /\ bucket[Key(c)] \in Nat
        BY <1>2, <4>1 DEF TypeOK
      <4>3. bucket[Key(c)] <= Len(log) /\ newest[Key(c)] <= bucket[Key(c)]
        BY <1>2, <4>1 DEF Ordered, VersionsOrdered
      <4> QED
        BY <3>1, <4>1, <4>2, <4>3
    <3>2. CASE d # c
      <4>1. found'[d] = found[d] /\ pc'[d] = pc[d]
        BY <1>2, <2>1, <3>2 DEF TypeOK
      <4> QED
        BY <2>2, <4>1 DEF Ordered, WritesNewest
    <3> QED
      BY <3>1, <3>2
  <2>5. OverlapIsMarked'
    BY <2>1, <2>2 DEF Ordered, OverlapIsMarked
  <2> QED
    BY <2>3, <2>4, <2>5 DEF Ordered
<1> QED
  BY <1>1, <1>2 DEF Load

(* Writing points for an object that is not disturbed never goes back.     *)
LEMMA UpsertKeepsOrder ==
    ASSUME TypeOK, InHand, Ordered, NEW c \in Consumers, Upsert(c)
    PROVE  /\ Ordered'
           /\ \A o \in Objects \ disturbed' : newest'[o] >= newest[o]
<1>1. /\ UNCHANGED <<bucket, log, next, found, disturbed>>
      /\ pc[c] = "upsert" /\ pc' = [pc EXCEPT ![c] = "finish"]
      /\ newest' = [newest EXCEPT ![Key(c)] = found[c]]
  BY DEF Upsert, Goto, worldVars
<1>2. Key(c) \in Objects /\ found[c] \in Nat
  BY <1>1, MessageInHand DEF Working, TypeOK
<1>3. /\ found[c] <= Len(log)
      /\ bucket[Key(c)] # 0 => found[c] <= bucket[Key(c)]
      /\ Key(c) \notin disturbed => newest[Key(c)] <= found[c]
  BY <1>1 DEF Ordered, WritesNewest
<1>4. \A o \in Objects : /\ newest[o] \in Nat
                         /\ newest'[o] = IF o = Key(c) THEN found[c] ELSE newest[o]
  BY <1>1, <1>2 DEF TypeOK
<1>5. \A d \in Consumers : pc'[d] \in {"load", "upsert"} =>
          /\ d # c /\ pc[d] = pc'[d]
          /\ Key(d)' = Key(d) /\ Key(d) \in Objects
  <2>1. \A d \in Consumers : pc'[d] \in {"load", "upsert"} =>
            d # c /\ pc[d] = pc'[d] /\ next'[d] = next[d]
    BY <1>1 DEF TypeOK
  <2> QED
    BY <1>1, <2>1, MessageStays, MessageInHand DEF Working
<1>6. VersionsOrdered'
  BY <1>1, <1>3, <1>4 DEF Ordered, VersionsOrdered
<1>7. WritesNewest'
  <2> SUFFICES ASSUME NEW d \in Consumers
               PROVE  /\ found[d] <= Len(log)
                      /\ pc'[d] = "upsert" =>
                          /\ bucket[Key(d)'] # 0 => found[d] <= bucket[Key(d)']
                          /\ Key(d)' \notin disturbed => newest'[Key(d)'] <= found[d]
    BY <1>1 DEF WritesNewest
  <2>1. /\ found[d] <= Len(log)
        /\ pc[d] = "upsert" =>
            /\ bucket[Key(d)] # 0 => found[d] <= bucket[Key(d)]
            /\ Key(d) \notin disturbed => newest[Key(d)] <= found[d]
    BY DEF Ordered, WritesNewest
  <2>2. ASSUME pc'[d] = "upsert", Key(d) = Key(c) PROVE Key(d) \in disturbed
    BY <1>1, <1>5, <2>2 DEF Ordered, OverlapIsMarked
  <2> QED
    BY <1>4, <1>5, <2>1, <2>2
<1>8. OverlapIsMarked'
  BY <1>1, <1>5 DEF Ordered, OverlapIsMarked
<1>9. \A o \in Objects \ disturbed' : newest'[o] >= newest[o]
  BY <1>1, <1>2, <1>3, <1>4
<1> QED
  BY <1>6, <1>7, <1>8, <1>9 DEF Ordered

(* Every step keeps the order and takes no undisturbed object back.        *)
LEMMA StepsKeepOrder ==
    ASSUME TypeOK, InHand, Ordered, [Next]_vars
    PROVE  /\ Ordered'
           /\ \A o \in Objects \ disturbed' : newest'[o] >= newest[o]
<1>1. ASSUME newest' = newest
      PROVE  \A o \in Objects \ disturbed' : newest'[o] >= newest[o]
  BY <1>1 DEF TypeOK
<1>2. ASSUME NEW o \in Objects, NEW kind \in Kinds,
             Put(o, kind) \/ Noise(o, kind) \/ Remove(o)
      PROVE  Ordered' /\ newest' = newest
  <2>1. CASE Put(o, kind)
    <3>1. /\ Notify(o, kind)
          /\ bucket' = [bucket EXCEPT ![o] = Len(log) + 1]
      BY <2>1 DEF Put
    <3> QED
      BY <3>1, UsersKeepOrder DEF Notify, pastVars
  <2>2. CASE Noise(o, kind)
    <3>1. Notify(o, kind) /\ bucket' = bucket
      BY <2>2 DEF Noise
    <3> QED
      BY <3>1, UsersKeepOrder DEF Notify, pastVars
  <2>3. CASE Remove(o)
    <3>1. Notify(o, "removed") /\ bucket' = [bucket EXCEPT ![o] = 0]
      BY <2>3 DEF Remove
    <3>2. "removed" \in Kinds
      BY DEF Kinds
    <3> QED
      BY <3>1, <3>2, UsersKeepOrder DEF Notify, pastVars
  <2> QED
    BY <1>2, <2>1, <2>2, <2>3
<1>3. ASSUME /\ UNCHANGED <<bucket, log, found, newest>>
             /\ disturbed \subseteq disturbed',
             \A c \in Consumers : pc'[c] \in {"load", "upsert"} =>
                 pc'[c] = pc[c] /\ next'[c] = next[c]
      PROVE  Ordered' /\ newest' = newest
  BY <1>3, OthersKeepOrder
<1>4. CASE Revoke
  BY <1>1, <1>3, <1>4 DEF Revoke, worldVars, pastVars
<1>5. ASSUME NEW c \in Consumers, ConsumerStep(c) \/ Fault(c)
      PROVE  /\ Ordered'
             /\ \A o \in Objects \ disturbed' : newest'[o] >= newest[o]
  <2> USE DEF Goto, worldVars, kafkaVars, boundVars, pastVars
  <2>1. CASE Assign(c)
    <3>1. \A d \in Consumers : pc'[d] \in {"load", "upsert"} =>
              pc'[d] = pc[d] /\ next'[d] = next[d]
      BY <2>1 DEF Assign, TypeOK
    <3> QED
      BY <1>1, <1>3, <2>1, <3>1 DEF Assign
  <2>2. CASE Poll(c)
    <3>1. PICK l \in {"delete", "finish", "skip"} : pc' = [pc EXCEPT ![c] = l]
      BY <2>2, Dispatched DEF Poll
    <3>2. \A d \in Consumers : pc'[d] \in {"load", "upsert"} =>
              pc'[d] = pc[d] /\ next'[d] = next[d]
      BY <2>2, <3>1 DEF Poll, TypeOK
    <3> QED
      BY <1>1, <1>3, <2>2, <3>2 DEF Poll
  <2>3. CASE DeletePoints(c)
    BY <1>1, <2>3, DeletionKeepsOrder DEF DeletePoints
  <2>4. CASE Load(c)
    BY <1>1, <2>4, LoadKeepsOrder DEF Load
  <2>5. CASE Upsert(c)
    BY <2>5, UpsertKeepsOrder
  <2>6. ASSUME NEW l \in {"finish", "poll", "down", "dead"},
               pc' = [pc EXCEPT ![c] = l],
               UNCHANGED <<bucket, log, next, found, newest>>,
               disturbed \subseteq disturbed'
        PROVE  /\ Ordered'
               /\ \A o \in Objects \ disturbed' : newest'[o] >= newest[o]
    <3>1. \A d \in Consumers : pc'[d] \in {"load", "upsert"} =>
              pc'[d] = pc[d] /\ next'[d] = next[d]
      BY <2>6 DEF TypeOK
    <3> QED
      BY <1>1, <1>3, <2>6, <3>1
  <2>7. CASE Commit(c)
    BY <2>6, <2>7 DEF Commit
  <2>8. CASE Skip(c)
    BY <2>6, <2>8 DEF Skip
  <2>9. CASE Restart(c)
    BY <2>6, <2>9 DEF Restart
  <2>10. CASE CallFails(c)
    BY <2>6, <2>10 DEF CallFails
  <2>11. CASE Crash(c)
    BY <2>6, <2>11 DEF Crash, Leaves
  <2>12. CASE LoopDies(c)
    BY <2>6, <2>12 DEF LoopDies, Leaves
  <2> QED
    BY <1>5, <2>1, <2>2, <2>3, <2>4, <2>5, <2>7, <2>8, <2>9, <2>10, <2>11,
       <2>12
    DEF ConsumerStep, Fault
<1>6. CASE UNCHANGED vars
  BY <1>1, <1>3, <1>6 DEF vars
<1> QED
  BY <1>1, <1>2, <1>4, <1>5, <1>6 DEF Next, User, Kinds

(* With any crashes, failing calls and changes of owner, handling an old   *)
(* notification again puts no undisturbed object back to an older version. *)
THEOREM IndexNeverGoesBack == Spec => NeverGoesBack
<1> DEFINE Forward == \A o \in Objects \ disturbed' : newest'[o] >= newest[o]
<1>1. Init => Ordered
  BY DEF Init, Ordered, VersionsOrdered, WritesNewest, OverlapIsMarked
<1>2. TypeOK /\ InHand /\ Ordered /\ [Next]_vars => Ordered' /\ [Forward]_vars
  BY StepsKeepOrder
<1> HIDE DEF Forward
<1>3. Spec => [][Forward]_vars
  BY <1>1, <1>2, Typing, PTL DEF Spec
<1> QED
  BY <1>3 DEF NeverGoesBack, Forward

-----------------------------------------------------------------------------
(* One set of points.                                                      *)

(* An undisturbed object has one set of points or none, and none while it  *)
(* is being rewritten.                                                     *)
OneSetInv ==
    \A o \in Objects \ disturbed :
        /\ index[o] \in {<<>>, <<newest[o]>>}
        /\ \A c \in Consumers : Rewriting(c, o) => index[o] = <<>>

(* A consumer that does not begin goes on with the object it was at.       *)
LEMMA NoneBegins ==
    ASSUME TypeOK, InHand,
           log' = log \/ \E m \in Message : log' = Append(log, m),
           NEW c \in Consumers,
           pc'[c] \in {"load", "upsert"} =>
               pc[c] \in {"load", "upsert"} /\ next'[c] = next[c]
    PROVE  \A o \in Objects : Rewriting(c, o)' => Rewriting(c, o)
<1>1. CASE pc'[c] \notin {"load", "upsert"}
  BY <1>1 DEF Rewriting
<1>2. CASE pc'[c] \in {"load", "upsert"}
  <2>1. pc[c] \in Working /\ next'[c] = next[c]
    BY <1>2 DEF Working
  <2>2. Key(c)' = Key(c)
    BY <2>1, MessageStays
  <2> QED
    BY <1>2, <2>2 DEF Rewriting
<1> QED
  BY <1>1, <1>2

(* As long as no points change, none begins and what is disturbed stays.   *)
LEMMA QuietKeepsOneSet ==
    ASSUME TypeOK, InHand, OneSetInv,
           UNCHANGED <<index, newest>>, disturbed \subseteq disturbed',
           log' = log \/ \E m \in Message : log' = Append(log, m),
           \A c \in Consumers : pc'[c] \in {"load", "upsert"} =>
               pc[c] \in {"load", "upsert"} /\ next'[c] = next[c]
    PROVE  OneSetInv'
<1>1. \A c \in Consumers, o \in Objects : Rewriting(c, o)' => Rewriting(c, o)
  BY NoneBegins
<1> QED
  BY <1>1 DEF OneSetInv

LEMMA DeletionKeepsOneSet ==
    ASSUME TypeOK, InHand, OneSetInv, NEW c \in Consumers, DeletePoints(c)
    PROVE  OneSetInv'
<1>1. /\ UNCHANGED <<log, next, newest>>
      /\ pc[c] = "delete" /\ \E l \in {"finish", "load"} : pc' = [pc EXCEPT ![c] = l]
      /\ index' = [index EXCEPT ![Key(c)] = <<>>]
  BY DEF DeletePoints, Goto, worldVars
<1>2. Key(c)' = Key(c) /\ Key(c) \in Objects
  BY <1>1, MessageStays, MessageInHand DEF Working
<1>3. \A o \in Objects \ {Key(c)} : o \in disturbed' <=> o \in disturbed
  BY DEF DeletePoints, BeginRewriting
<1>4. index'[Key(c)] = <<>> /\ \A o \in Objects \ {Key(c)} : index'[o] = index[o]
  BY <1>1, <1>2 DEF TypeOK
<1>5. \A d \in Consumers, o \in Objects \ {Key(c)} :
         Rewriting(d, o)' => Rewriting(d, o)
  <2> TAKE d \in Consumers, o \in Objects \ {Key(c)}
  <2>1. CASE d = c
    BY <1>2, <2>1 DEF Rewriting
  <2>2. CASE d # c
    <3>1. pc'[d] = pc[d] /\ next'[d] = next[d]
      BY <1>1, <2>2 DEF TypeOK
    <3> QED
      BY <1>1, <3>1, NoneBegins
  <2> QED
    BY <2>1, <2>2
<1> QED
  BY <1>1, <1>3, <1>4, <1>5 DEF OneSetInv

(* What is inserted is all there is: the object's points were deleted, and *)
(* no other consumer is at it.                                             *)
LEMMA InsertionKeepsOneSet ==
    ASSUME TypeOK, InHand, Ordered, OneSetInv, NEW c \in Consumers, Upsert(c)
    PROVE  OneSetInv'
<1>1. /\ UNCHANGED <<log, next, disturbed>>
      /\ pc[c] = "upsert" /\ pc' = [pc EXCEPT ![c] = "finish"]
      /\ index' = [index EXCEPT ![Key(c)] = Append(@, found[c])]
      /\ newest' = [newest EXCEPT ![Key(c)] = found[c]]
  BY DEF Upsert, Goto, worldVars
<1>2. Key(c) \in Objects
  BY <1>1, MessageInHand DEF Working
<1>3. \A d \in Consumers, o \in Objects :
         Rewriting(d, o)' => Rewriting(d, o) /\ d # c
  <2>1. pc'[c] = "finish"
    BY <1>1 DEF TypeOK
  <2>2. \A d \in Consumers : pc'[d] \in {"load", "upsert"} =>
            pc[d] \in {"load", "upsert"} /\ next'[d] = next[d]
    BY <1>1 DEF TypeOK
  <2>3. \A d \in Consumers, o \in Objects : Rewriting(d, o)' => Rewriting(d, o)
    BY <1>1, <2>2, NoneBegins
  <2> QED
    BY <2>1, <2>3 DEF Rewriting
<1>4. Rewriting(c, Key(c))
  BY <1>1 DEF Rewriting
<1>5. ASSUME NEW o \in Objects \ disturbed'
      PROVE  /\ index'[o] \in {<<>>, <<newest'[o]>>}
             /\ \A d \in Consumers : Rewriting(d, o)' => index'[o] = <<>>
  <2>1. o \in Objects \ disturbed
    BY <1>1
  <2>2. CASE o = Key(c)
    <3>1. index[o] = <<>>
      BY <1>4, <2>1, <2>2 DEF OneSetInv
    <3>2. index'[o] = <<found[c]>> /\ newest'[o] = found[c]
      BY <1>1, <1>2, <2>2, <3>1 DEF TypeOK
    <3>3. \A d \in Consumers : ~Rewriting(d, o)'
      <4> SUFFICES ASSUME NEW d \in Consumers, Rewriting(d, o)' PROVE FALSE
        OBVIOUS
      <4>1. d # c /\ Rewriting(d, o)
        BY <1>3
      <4>2. Key(d) \in disturbed
        BY <1>4, <2>2, <4>1 DEF Ordered, OverlapIsMarked, Rewriting
      <4> QED
        BY <2>1, <4>1, <4>2 DEF Rewriting
    <3> QED
      BY <3>2, <3>3
  <2>3. CASE o # Key(c)
    <3>1. index'[o] = index[o] /\ newest'[o] = newest[o]
      BY <1>1, <1>2, <2>3 DEF TypeOK
    <3> QED
      BY <1>3, <2>1, <3>1 DEF OneSetInv
  <2> QED
    BY <2>2, <2>3
<1> QED
  BY <1>5 DEF OneSetInv

LEMMA StepsKeepOneSet ==
    ASSUME TypeOK, InHand, Ordered, OneSetInv, [Next]_vars
    PROVE  OneSetInv'
<1>1. ASSUME NEW o \in Objects, NEW kind \in Kinds, Notify(o, kind)
      PROVE  OneSetInv'
  <2>1. /\ UNCHANGED <<index, newest, disturbed, pc, next>>
        /\ \E m \in Message : log' = Append(log, m)
    BY <1>1 DEF Notify, pastVars, Message
  <2> QED
    BY <2>1, QuietKeepsOneSet
<1>2. CASE Revoke
  BY <1>2, QuietKeepsOneSet DEF Revoke, worldVars, pastVars
<1>3. ASSUME NEW c \in Consumers, ConsumerStep(c) \/ Fault(c)
      PROVE  OneSetInv'
  <2> USE DEF Goto, worldVars, kafkaVars, boundVars, pastVars
  <2>1. CASE Assign(c)
    <3>1. \A d \in Consumers : pc'[d] \in {"load", "upsert"} =>
              pc[d] \in {"load", "upsert"} /\ next'[d] = next[d]
      BY <2>1 DEF Assign, TypeOK
    <3> QED
      BY <2>1, <3>1, QuietKeepsOneSet DEF Assign
  <2>2. CASE Poll(c)
    <3>1. PICK l \in {"delete", "finish", "skip"} : pc' = [pc EXCEPT ![c] = l]
      BY <2>2, Dispatched DEF Poll
    <3>2. \A d \in Consumers : pc'[d] \in {"load", "upsert"} =>
              pc[d] \in {"load", "upsert"} /\ next'[d] = next[d]
      BY <2>2, <3>1 DEF Poll, TypeOK
    <3> QED
      BY <2>2, <3>2, QuietKeepsOneSet DEF Poll
  <2>3. CASE DeletePoints(c)
    BY <2>3, DeletionKeepsOneSet
  <2>4. CASE Load(c)
    <3>1. \E l \in {"finish", "upsert"} : pc' = [pc EXCEPT ![c] = l]
      BY <2>4 DEF Load
    <3>2. \A d \in Consumers : pc'[d] \in {"load", "upsert"} =>
              pc[d] \in {"load", "upsert"} /\ next'[d] = next[d]
      BY <2>4, <3>1 DEF Load, TypeOK
    <3> QED
      BY <2>4, <3>2, QuietKeepsOneSet DEF Load
  <2>5. CASE Upsert(c)
    BY <2>5, InsertionKeepsOneSet
  <2>6. ASSUME NEW l \in {"finish", "poll", "down", "dead"},
               pc' = [pc EXCEPT ![c] = l],
               UNCHANGED <<log, next, index, newest>>,
               disturbed \subseteq disturbed'
        PROVE  OneSetInv'
    <3>1. \A d \in Consumers : pc'[d] \in {"load", "upsert"} =>
              pc[d] \in {"load", "upsert"} /\ next'[d] = next[d]
      BY <2>6 DEF TypeOK
    <3> QED
      BY <2>6, <3>1, QuietKeepsOneSet
  <2>7. CASE Commit(c)
    BY <2>6, <2>7 DEF Commit
  <2>8. CASE Skip(c)
    BY <2>6, <2>8 DEF Skip
  <2>9. CASE Restart(c)
    BY <2>6, <2>9 DEF Restart
  <2>10. CASE CallFails(c)
    BY <2>6, <2>10 DEF CallFails
  <2>11. CASE Crash(c)
    BY <2>6, <2>11 DEF Crash, Leaves
  <2>12. CASE LoopDies(c)
    BY <2>6, <2>12 DEF LoopDies, Leaves
  <2> QED
    BY <1>3, <2>1, <2>2, <2>3, <2>4, <2>5, <2>7, <2>8, <2>9, <2>10, <2>11,
       <2>12
    DEF ConsumerStep, Fault
<1>4. CASE UNCHANGED vars
  BY <1>4, QuietKeepsOneSet DEF vars
<1> QED
  BY <1>1, <1>2, <1>3, <1>4 DEF Next, User, Put, Noise, Remove, Kinds

(* With any crashes, redeliveries, failing calls and changes of owner, the *)
(* index never holds two sets of points of an undisturbed object, nor      *)
(* points of any version but the one indexed last (library.py:51-97).      *)
THEOREM OneSetAtATime == Spec => []OneSetOfPoints
<1>1. Init => Ordered /\ OneSetInv
  BY DEF Init, Ordered, VersionsOrdered, WritesNewest, OverlapIsMarked,
         OneSetInv, Rewriting
<1>2. TypeOK /\ InHand /\ Ordered /\ OneSetInv /\ [Next]_vars
         => (Ordered /\ OneSetInv)'
  BY StepsKeepOrder, StepsKeepOneSet
<1>3. OneSetInv => OneSetOfPoints
  BY DEF OneSetInv, OneSetOfPoints
<1> QED
  BY <1>1, <1>2, <1>3, Typing, PTL DEF Spec

-----------------------------------------------------------------------------
(* What is still owed to an object that is not disturbed.                  *)

(* The first message that the owner, or the next one, has yet to fetch.    *)
Frontier == IF owner \in Consumers THEN next[owner] ELSE committed + 1

Rewritten == {"created", "removed"}

(* A message is still to come that has the points of o written anew.       *)
Due(o) == \E p \in 1 .. Len(log) :
            p >= Frontier /\ log[p].obj = o /\ log[p].kind \in Rewritten

(* The owner is about to do so.                                            *)
Coming(o) == \E c \in Consumers : owner = c /\ pc[c] = "delete" /\ Key(c) = o

(* The owner is at it, and what it will write is what the bucket holds.    *)
Under(o) ==
    /\ index[o] = <<>>
    /\ \E c \in Consumers :
        /\ owner = c /\ Rewriting(c, o)
        /\ pc[c] = "upsert" =>
            /\ bucket[o] # 0
            /\ log[bucket[o]].kind = "created" => found[c] = bucket[o]

(* It is done.                                                             *)
Settled(o) == Reflects(o) /\ \A c \in Consumers : owner = c => ~Rewriting(c, o)

(* The handlers that delete and those that load have such messages in hand.*)
KindInHand ==
    \A c \in Consumers :
        /\ pc[c] = "delete" => Event(c).kind \in Rewritten
        /\ pc[c] \in {"load", "upsert"} => Event(c).kind = "created"

(* The owner is in its loop, and ahead of what is committed.               *)
OwnerAhead ==
    \A c \in Consumers : owner = c =>
        /\ pc[c] \in Working \cup {"poll"}
        /\ committed < next[c]
        /\ pc[c] \in Working => committed < At(c)

(* The version of an object is the position of its notification, and every *)
(* removal was followed by what the bucket holds.                          *)
BucketFollowsLog ==
    \A o \in Objects :
        /\ bucket[o] # 0 => bucket[o] \in 1 .. Len(log) /\ log[bucket[o]].obj = o
                            /\ log[bucket[o]].kind \in {"created", "unsupported"}
        /\ \A p \in 1 .. Len(log) :
              log[p] = [obj |-> o, kind |-> "removed"] =>
                  bucket[o] = 0 \/ bucket[o] > p

(* What a consumer rewrites after it lost the partition is handled again   *)
(* by its owner, unless the object is disturbed.                           *)
LateIsRepeated ==
    \A c \in Consumers : \A o \in Objects \ disturbed :
        Rewriting(c, o) /\ c # owner =>
            At(c) > committed /\ (At(c) >= Frontier \/ Coming(o))

(* An object that is not disturbed will be rewritten, is being rewritten,  *)
(* or is as the bucket has it.                                             *)
NothingOwed ==
    \A o \in Objects \ disturbed : Due(o) \/ Coming(o) \/ Under(o) \/ Settled(o)

OwedInv == /\ KindInHand /\ OwnerAhead /\ BucketFollowsLog
        /\ LateIsRepeated /\ NothingOwed

(* Where the next message to be handled is.                                *)
LEMMA FrontierIs ==
    ASSUME TypeOK
    PROVE  /\ owner \in Consumers => Frontier = next[owner]
           /\ owner = None => Frontier = committed + 1
           /\ Frontier \in 1 .. Len(log) + 1
<1>1. /\ owner \in Consumers \cup {None} /\ committed \in 0 .. Len(log)
      /\ next \in [Consumers -> 1 .. Len(log) + 1] /\ Len(log) \in Nat
  BY DEF TypeOK
<1> QED
  BY <1>1, IndexerAssumption DEF Frontier

(* The message in hand depends on the log and the position only.           *)
LEMMA SameMessages ==
    ASSUME log' = log, NEW c, next'[c] = next[c]
    PROVE  At(c)' = At(c) /\ Event(c)' = Event(c) /\ Key(c)' = Key(c)
  BY DEF At, Event, Key

(* A step that gives nobody the partition, begins no handler and leaves    *)
(* the bucket, the log and the points alone owes nothing new, if the owner *)
(* drops what it is at only with its object marked.                        *)
LEMMA OwedWithOwner ==
    ASSUME TypeOK, OwedInv,
           UNCHANGED <<bucket, log, found, index, next, owner>>,
           disturbed \subseteq disturbed',
           \A d \in Consumers :
               /\ pc'[d] \in Working => pc[d] \in Working
               /\ pc'[d] \in {"delete", "load", "upsert"} => pc'[d] = pc[d]
               /\ owner = d =>
                   /\ pc'[d] \in Working \cup {"poll"}
                   /\ pc[d] \in {"delete", "load", "upsert"} =>
                        pc'[d] = pc[d] \/ Key(d) \in disturbed',
           \/ committed' = committed
           \/ \E d \in Consumers : /\ owner = d /\ committed' = At(d)
                                   /\ pc[d] = "finish" /\ pc'[d] = "poll"
    PROVE  OwedInv'
<1>1. \A d \in Consumers : At(d)' = At(d) /\ Event(d)' = Event(d) /\ Key(d)' = Key(d)
  BY SameMessages
<1>2. /\ committed \in Nat /\ next \in [Consumers -> Nat]
      /\ owner \in Consumers \cup {None}
  BY DEF TypeOK
<1>3. KindInHand'
  BY <1>1 DEF OwedInv, KindInHand
<1>4. OwnerAhead'
  <2> SUFFICES ASSUME NEW d \in Consumers, owner = d
               PROVE  /\ pc'[d] \in Working \cup {"poll"}
                      /\ committed' < next[d]
                      /\ pc'[d] \in Working => committed' < At(d)
    BY <1>1 DEF OwnerAhead
  <2>1. /\ committed < next[d]
        /\ pc[d] \in Working => committed < At(d)
    BY DEF OwedInv, OwnerAhead
  <2>2. CASE committed' = committed
    BY <2>1, <2>2
  <2>3. CASE committed' = At(d) /\ pc'[d] = "poll"
    BY <1>2, <2>3 DEF At, Working
  <2> QED
    BY <2>2, <2>3
<1>5. BucketFollowsLog'
  BY DEF OwedInv, BucketFollowsLog
<1>6. Frontier' = Frontier
  <2>1. CASE owner \in Consumers
    BY <2>1 DEF Frontier
  <2>2. CASE owner \notin Consumers
    BY <2>2 DEF Frontier
  <2> QED
    BY <2>1, <2>2
<1>7. \A o \in Objects : Due(o) => Due(o)'
  BY <1>6 DEF Due
<1>8. \A o \in Objects \ disturbed' : Coming(o) => Coming(o)'
  BY <1>1 DEF Coming
<1>9. \A d \in Consumers : \A o : Rewriting(d, o)' => Rewriting(d, o) /\ pc'[d] = pc[d]
  BY <1>1 DEF Rewriting
<1>10. LateIsRepeated'
  <2> SUFFICES ASSUME NEW d \in Consumers, NEW o \in Objects \ disturbed',
                      Rewriting(d, o)', d # owner
               PROVE  At(d) > committed' /\ (At(d) >= Frontier \/ Coming(o)')
    BY <1>1, <1>6 DEF LateIsRepeated
  <2>1. At(d) > committed /\ (At(d) >= Frontier \/ Coming(o))
    BY <1>9 DEF OwedInv, LateIsRepeated
  <2>2. CASE committed' = committed
    BY <1>8, <2>1, <2>2
  <2>3. ASSUME NEW e \in Consumers, owner = e, committed' = At(e),
               pc[e] = "finish"
        PROVE  At(d) > committed' /\ At(d) >= Frontier
    <3>1. ~Coming(o)
      BY <2>3 DEF Coming
    <3>2. Frontier = next[e]
      BY <2>3 DEF Frontier
    <3> QED
      BY <1>2, <2>1, <2>3, <3>1, <3>2 DEF At
  <2> QED
    BY <2>2, <2>3
<1>11. NothingOwed'
  <2> SUFFICES ASSUME NEW o \in Objects \ disturbed'
               PROVE  Due(o)' \/ Coming(o)' \/ Under(o)' \/ Settled(o)'
    BY DEF NothingOwed
  <2>1. CASE Under(o)
    <3>1. PICK d \in Consumers :
            /\ owner = d /\ Rewriting(d, o)
            /\ pc[d] = "upsert" =>
                /\ bucket[o] # 0
                /\ log[bucket[o]].kind = "created" => found[d] = bucket[o]
      BY <2>1 DEF Under
    <3>2. pc'[d] = pc[d]
      BY <3>1 DEF Rewriting
    <3>3. Rewriting(d, o)'
      BY <1>1, <3>1, <3>2 DEF Rewriting
    <3> QED
      BY <2>1, <3>1, <3>2, <3>3 DEF Under
  <2>2. CASE Settled(o)
    <3>1. Reflects(o)'
      BY <2>2 DEF Settled, Reflects
    <3> QED
      BY <1>9, <2>2, <3>1 DEF Settled
  <2> QED
    BY <1>7, <1>8, <2>1, <2>2 DEF OwedInv, NothingOwed
<1> QED
  BY <1>3, <1>4, <1>5, <1>10, <1>11 DEF OwedInv

(* Whoever loses the partition with a message in hand leaves it to the     *)
(* next owner, since it has not committed it.                              *)
LEMMA OwedWithoutOwner ==
    ASSUME TypeOK, InHand, OwedInv,
           UNCHANGED <<bucket, log, found, index, next, committed, disturbed>>,
           owner' = None,
           \A d \in Consumers : pc'[d] \in Working => pc'[d] = pc[d]
    PROVE  OwedInv'
<1>1. \A d \in Consumers : At(d)' = At(d) /\ Event(d)' = Event(d) /\ Key(d)' = Key(d)
  BY SameMessages
<1>2. \A d \in Consumers : owner' # d
  BY IndexerAssumption
<1>3. /\ committed \in Nat /\ next \in [Consumers -> Nat]
      /\ owner \in Consumers \cup {None} /\ Len(log) \in Nat
  BY DEF TypeOK
<1>4. KindInHand' /\ OwnerAhead' /\ BucketFollowsLog'
  BY <1>1, <1>2 DEF OwedInv, KindInHand, OwnerAhead, BucketFollowsLog, Working
<1>5. Frontier' = committed + 1 /\ Frontier' <= Frontier /\ Frontier \in Nat
  <2>1. Frontier' = committed + 1
    BY <1>2 DEF Frontier
  <2>2. CASE owner \in Consumers
    BY <1>3, <2>1, <2>2 DEF OwedInv, OwnerAhead, Frontier
  <2>3. CASE owner \notin Consumers
    BY <1>3, <2>1, <2>3 DEF Frontier
  <2> QED
    BY <2>1, <2>2, <2>3
<1>6. \A o \in Objects : Due(o) => Due(o)'
  BY <1>5 DEF Due
<1>7. ASSUME NEW o, NEW d \in Consumers, owner = d, Key(d) = o,
             pc[d] \in {"delete", "load", "upsert"}
      PROVE  Due(o)'
  <2>1. At(d) \in 1 .. Len(log) /\ At(d) >= committed + 1
    BY <1>3, <1>7, MessageInHand DEF OwedInv, OwnerAhead, Working
  <2>2. Event(d).kind \in Rewritten
    BY <1>7 DEF OwedInv, KindInHand, Rewritten
  <2>3. At(d) >= Frontier' /\ log'[At(d)].obj = o /\ log'[At(d)].kind \in Rewritten
        /\ At(d) \in 1 .. Len(log')
    BY <1>5, <1>7, <2>1, <2>2 DEF Event, Key
  <2> QED
    BY <2>3 DEF Due
<1>8. LateIsRepeated'
  <2> SUFFICES ASSUME NEW d \in Consumers, NEW o \in Objects \ disturbed,
                      Rewriting(d, o)'
               PROVE  At(d) > committed /\ At(d) >= Frontier'
    BY <1>1 DEF LateIsRepeated
  <2>1. Rewriting(d, o) /\ pc[d] \in Working
    BY <1>1 DEF Rewriting, Working
  <2>2. At(d) > committed
    <3>1. CASE owner = d
      BY <2>1, <3>1 DEF OwedInv, OwnerAhead
    <3>2. CASE owner # d
      BY <2>1, <3>2 DEF OwedInv, LateIsRepeated
    <3> QED
      BY <3>1, <3>2
  <2> QED
    BY <1>3, <1>5, <2>2 DEF At
<1>9. NothingOwed'
  <2> SUFFICES ASSUME NEW o \in Objects \ disturbed
               PROVE  Due(o)' \/ Settled(o)'
    BY DEF NothingOwed
  <2>1. CASE Coming(o)
    BY <1>7, <2>1 DEF Coming
  <2>2. CASE Under(o)
    BY <1>7, <2>2 DEF Under, Rewriting
  <2>3. CASE Settled(o)
    <3>1. Reflects(o)'
      BY <2>3 DEF Settled, Reflects
    <3> QED
      BY <1>2, <3>1 DEF Settled
  <2> QED
    BY <1>6, <2>1, <2>2, <2>3 DEF OwedInv, NothingOwed
<1> QED
  BY <1>4, <1>8, <1>9 DEF OwedInv

(* Users change an object and announce it; what they announce is still to  *)
(* come.                                                                   *)
LEMMA OwedToUsers ==
    ASSUME TypeOK, InHand, OwedInv, NEW o \in Objects, NEW kind \in Kinds,
           Notify(o, kind),
           \/ kind \in {"other", "malformed"} /\ bucket' = bucket
           \/ kind = "removed" /\ bucket' = [bucket EXCEPT ![o] = 0]
           \/ kind \in {"created", "unsupported"}
              /\ bucket' = [bucket EXCEPT ![o] = Len(log) + 1]
    PROVE  OwedInv'
<1> DEFINE m == [obj |-> o, kind |-> kind]
<1>1. /\ log' = Append(log, m) /\ m \in Message /\ m.obj = o /\ m.kind = kind
      /\ UNCHANGED <<pc, next, found, index, owner, committed, disturbed>>
  BY DEF Notify, Message, kafkaVars, pastVars
<1>2. /\ log \in Seq(Message) /\ Len(log) \in Nat
      /\ bucket \in [Objects -> Nat]
  BY DEF TypeOK
<1> HIDE DEF m
<1>3. /\ Len(log') = Len(log) + 1 /\ log'[Len(log) + 1] = m
      /\ \A p \in 1 .. Len(log) : log'[p] = log[p]
  BY <1>1, <1>2
<1>4. \A d \in Consumers : pc[d] \in Working =>
          At(d)' = At(d) /\ Event(d)' = Event(d) /\ Key(d)' = Key(d)
  BY <1>1, MessageStays
<1>5. \A d \in Consumers : \A x : Rewriting(d, x)' <=> Rewriting(d, x)
  BY <1>1, <1>4 DEF Rewriting, Working
<1>6. Frontier' = Frontier /\ Frontier \in 1 .. Len(log) + 1
  BY <1>1, FrontierIs DEF Frontier
<1>7. \A x : Due(x) => Due(x)'
  BY <1>2, <1>3, <1>6 DEF Due
<1>8. \A x : Coming(x) <=> Coming(x)'
  BY <1>1, <1>4 DEF Coming, Working
<1>9. KindInHand'
  BY <1>1, <1>4 DEF OwedInv, KindInHand, Working
<1>10. OwnerAhead'
  BY <1>1, <1>4 DEF OwedInv, OwnerAhead
<1>11. LateIsRepeated'
  <2> SUFFICES ASSUME NEW d \in Consumers, NEW x \in Objects \ disturbed,
                      Rewriting(d, x), d # owner
               PROVE  At(d)' > committed /\ (At(d)' >= Frontier \/ Coming(x))
    BY <1>1, <1>5, <1>6, <1>8 DEF LateIsRepeated
  <2>1. At(d)' = At(d)
    BY <1>4 DEF Rewriting, Working
  <2> QED
    BY <2>1 DEF OwedInv, LateIsRepeated
<1>12. BucketFollowsLog'
  <2> SUFFICES ASSUME NEW x \in Objects
               PROVE  /\ bucket'[x] # 0 =>
                          /\ bucket'[x] \in 1 .. Len(log')
                          /\ log'[bucket'[x]].obj = x
                          /\ log'[bucket'[x]].kind \in {"created", "unsupported"}
                      /\ \A p \in 1 .. Len(log') :
                            log'[p] = [obj |-> x, kind |-> "removed"] =>
                                bucket'[x] = 0 \/ bucket'[x] > p
    BY DEF BucketFollowsLog
  <2>1. /\ bucket[x] # 0 =>
            /\ bucket[x] \in 1 .. Len(log)
            /\ log[bucket[x]].obj = x
            /\ log[bucket[x]].kind \in {"created", "unsupported"}
        /\ \A p \in 1 .. Len(log) :
              log[p] = [obj |-> x, kind |-> "removed"] =>
                  bucket[x] = 0 \/ bucket[x] > p
    BY DEF OwedInv, BucketFollowsLog
  <2>2. log'[Len(log) + 1] = [obj |-> x, kind |-> "removed"] =>
            x = o /\ kind = "removed"
    BY <1>3 DEF m
  <2>3. CASE x = o /\ kind \in {"created", "unsupported"}
    <3>1. bucket'[x] = Len(log) + 1
      BY <1>2, <2>3
    <3> QED
      BY <1>1, <1>2, <1>3, <2>2, <2>3, <3>1
  <2>4. CASE x = o /\ kind = "removed"
    <3>1. bucket'[x] = 0
      BY <1>2, <2>4
    <3> QED
      BY <3>1
  <2>5. CASE x # o \/ kind \in {"other", "malformed"}
    <3>1. bucket'[x] = bucket[x]
      BY <1>2, <2>5
    <3> QED
      BY <1>2, <1>3, <2>1, <2>2, <2>5, <3>1
  <2> QED
    BY <2>3, <2>4, <2>5
<1>13. NothingOwed'
  <2> SUFFICES ASSUME NEW x \in Objects \ disturbed
               PROVE  Due(x)' \/ Coming(x)' \/ Under(x)' \/ Settled(x)'
    BY <1>1 DEF NothingOwed
  <2>0. Due(x) \/ Coming(x) \/ Under(x) \/ Settled(x)
    BY DEF OwedInv, NothingOwed
  <2>1. CASE x = o /\ kind \in Rewritten
    BY <1>1, <1>2, <1>3, <1>6, <2>1 DEF Due
  <2>2. CASE x # o \/ kind \notin Rewritten
    <3>1. \/ bucket'[x] = bucket[x]
          \/ bucket'[x] = Len(log) + 1 /\ log'[bucket'[x]].kind = "unsupported"
      BY <1>1, <1>2, <1>3, <2>2 DEF Rewritten
    <3>2. bucket[x] # 0 => log'[bucket[x]] = log[bucket[x]]
      BY <1>3 DEF OwedInv, BucketFollowsLog
    <3>3. Reflects(x) => Reflects(x)'
      <4>1. CASE bucket'[x] = bucket[x]
        BY <1>1, <3>2, <4>1 DEF Reflects
      <4>2. CASE bucket'[x] = Len(log) + 1 /\ log'[bucket'[x]].kind = "unsupported"
        <5>1. bucket'[x] # 0 /\ log'[bucket'[x]].kind # "created"
          BY <1>2, <4>2
        <5> QED
          BY <5>1 DEF Reflects
      <4> QED
        BY <3>1, <4>1, <4>2
    <3>4. Settled(x) => Settled(x)'
      BY <1>1, <1>5, <3>3 DEF Settled
    <3>5. ASSUME Under(x) PROVE Under(x)'
      <4>1. PICK d \in Consumers :
              /\ owner = d /\ Rewriting(d, x)
              /\ pc[d] = "upsert" =>
                  /\ bucket[x] # 0
                  /\ log[bucket[x]].kind = "created" => found[d] = bucket[x]
        BY <3>5 DEF Under
      <4>2. pc[d] = "upsert" =>
              /\ bucket'[x] # 0
              /\ log'[bucket'[x]].kind = "created" => found[d] = bucket'[x]
        BY <1>2, <3>1, <3>2, <4>1
      <4> QED
        BY <1>1, <1>5, <3>5, <4>1, <4>2 DEF Under
    <3> QED
      BY <1>7, <1>8, <2>0, <3>4, <3>5
  <2> QED
    BY <2>1, <2>2
<1> QED
  BY <1>9, <1>10, <1>11, <1>12, <1>13 DEF OwedInv

(* A new owner begins with the first message that is not committed.        *)
LEMMA OwedToNewOwner ==
    ASSUME TypeOK, InHand, OwedInv, NEW c \in Consumers, Assign(c)
    PROVE  OwedInv'
<1>1. /\ pc[c] = "poll" /\ owner = None /\ owner' = c
      /\ next' = [next EXCEPT ![c] = committed + 1]
      /\ UNCHANGED <<bucket, log, committed, pc, found, index, disturbed>>
  BY DEF Assign, worldVars, pastVars
<1>2. /\ committed \in Nat /\ next \in [Consumers -> Nat]
  BY DEF TypeOK
<1>3. \A d \in Consumers : owner # d
  BY <1>1, IndexerAssumption
<1>4. \A d \in Consumers : pc[d] \in Working => d # c /\ next'[d] = next[d]
  BY <1>1, <1>2 DEF Working
<1>5. \A d \in Consumers : pc[d] \in Working =>
          At(d)' = At(d) /\ Event(d)' = Event(d) /\ Key(d)' = Key(d)
  BY <1>1, <1>4 DEF At, Event, Key
<1>6. \A d \in Consumers : \A x : Rewriting(d, x)' <=> Rewriting(d, x)
  BY <1>1, <1>5 DEF Rewriting, Working
<1>7. Frontier' = Frontier /\ Frontier = committed + 1
  BY <1>1, <1>2, <1>3 DEF Frontier
<1>8. \A x : Due(x) => Due(x)'
  BY <1>1, <1>7 DEF Due
<1>9. \A x : ~Coming(x) /\ ~Under(x)
  BY <1>3 DEF Coming, Under
<1>10. KindInHand' /\ BucketFollowsLog'
  BY <1>1, <1>5 DEF OwedInv, KindInHand, BucketFollowsLog, Working
<1>11. OwnerAhead'
  BY <1>1, <1>2 DEF OwnerAhead, Working
<1>12. LateIsRepeated'
  <2> SUFFICES ASSUME NEW d \in Consumers, NEW x \in Objects \ disturbed,
                      Rewriting(d, x)
               PROVE  At(d)' > committed /\ At(d)' >= Frontier
    BY <1>1, <1>6, <1>7 DEF LateIsRepeated
  <2>1. At(d)' = At(d)
    BY <1>5 DEF Rewriting, Working
  <2> QED
    BY <1>3, <1>9, <2>1 DEF OwedInv, LateIsRepeated
<1>13. NothingOwed'
  <2> SUFFICES ASSUME NEW x \in Objects \ disturbed
               PROVE  Due(x)' \/ Settled(x)'
    BY <1>1 DEF NothingOwed
  <2>1. ASSUME Settled(x) PROVE Settled(x)'
    <3>1. Reflects(x)'
      BY <1>1, <2>1 DEF Settled, Reflects
    <3>2. ~Rewriting(c, x)'
      BY <1>1, <1>6 DEF Rewriting
    <3> QED
      BY <1>1, <3>1, <3>2 DEF Settled
  <2> QED
    BY <1>8, <1>9, <2>1 DEF OwedInv, NothingOwed
<1> QED
  BY <1>10, <1>11, <1>12, <1>13 DEF OwedInv

(* The owner takes the next message: what was due with it is coming.       *)
LEMMA OwedOnPoll ==
    ASSUME TypeOK, InHand, OwedInv, NEW c \in Consumers, Poll(c)
    PROVE  OwedInv'
<1> DEFINE n == next[c]
<1>1. /\ pc[c] = "poll" /\ owner = c /\ owner' = c /\ next' = [next EXCEPT ![c] = n + 1]
      /\ pc' = [pc EXCEPT ![c] = Dispatch[log[n].kind]]
      /\ n <= Len(log)
      /\ UNCHANGED <<bucket, log, committed, found, index, disturbed>>
  BY DEF Poll, Goto, worldVars, kafkaVars, pastVars
<1>2. /\ committed \in Nat /\ next \in [Consumers -> Nat] /\ Len(log) \in Nat
      /\ pc \in [Consumers -> Locations] /\ log \in Seq(Message)
      /\ n \in 1 .. Len(log)
  BY <1>1 DEF TypeOK
<1>3. log[n].kind \in Kinds
  <2>1. log[n] \in Message
    <3> HIDE DEF n
    <3> QED
      BY <1>2
  <2> QED
    BY <2>1 DEF Message
<1>4. /\ pc'[c] \in {"delete", "finish", "skip"}
      /\ log[n].kind \in Rewritten <=> pc'[c] = "delete"
  BY <1>1, <1>2, <1>3 DEF Dispatch, Kinds, Rewritten
<1>5. \A d \in Consumers \ {c} : pc'[d] = pc[d] /\ next'[d] = next[d]
  BY <1>1, <1>2
<1>6. /\ \A d \in Consumers \ {c} :
            At(d)' = At(d) /\ Event(d)' = Event(d) /\ Key(d)' = Key(d)
      /\ At(c)' = n /\ Event(c)' = log[n] /\ Key(c)' = log[n].obj
  BY <1>1, <1>2, <1>5 DEF At, Event, Key
<1>7. \A d \in Consumers : \A x :
        /\ Rewriting(d, x)' => d # c /\ Rewriting(d, x)
        /\ Rewriting(d, x) => Rewriting(d, x)'
  BY <1>1, <1>4, <1>5, <1>6 DEF Rewriting
<1>8. Frontier = n /\ Frontier' = n + 1
  BY <1>1, <1>2 DEF Frontier
<1>9. ASSUME NEW x, Due(x) PROVE Due(x)' \/ Coming(x)'
  <2>1. PICK p \in 1 .. Len(log) :
          p >= n /\ log[p].obj = x /\ log[p].kind \in Rewritten
    BY <1>8, <1>9 DEF Due
  <2>2. CASE p >= n + 1
    BY <1>1, <1>8, <2>1, <2>2 DEF Due
  <2>3. CASE p = n
    BY <1>1, <1>4, <1>6, <2>1, <2>3 DEF Coming
  <2> QED
    BY <1>2, <2>1, <2>2, <2>3
<1>10. \A x : ~Coming(x) /\ ~Under(x)
  BY <1>1 DEF Coming, Under, Rewriting
<1>11. KindInHand'
  BY <1>4, <1>5, <1>6 DEF OwedInv, KindInHand
<1>12. BucketFollowsLog'
  BY <1>1 DEF OwedInv, BucketFollowsLog
<1>13. OwnerAhead'
  <2>1. committed < n
    BY <1>1 DEF OwedInv, OwnerAhead
  <2> QED
    BY <1>1, <1>2, <1>4, <1>6, <2>1 DEF OwnerAhead, Working
<1>14. LateIsRepeated'
  <2> SUFFICES ASSUME NEW d \in Consumers, NEW x \in Objects \ disturbed,
                      Rewriting(d, x)', d # c
               PROVE  At(d) > committed /\ (At(d) >= n + 1 \/ Coming(x)')
    BY <1>1, <1>6, <1>8 DEF LateIsRepeated
  <2>1. At(d) > committed /\ At(d) >= n
    BY <1>1, <1>7, <1>8, <1>10 DEF OwedInv, LateIsRepeated
  <2>2. CASE At(d) = n
    <3>1. log[n].obj = x /\ log[n].kind = "created"
      BY <1>7, <2>2 DEF OwedInv, KindInHand, Rewriting, Key, Event
    <3> QED
      BY <1>1, <1>4, <1>6, <2>1, <3>1 DEF Coming, Rewritten
  <2>3. CASE At(d) # n
    BY <1>2, <2>1, <2>3 DEF At
  <2> QED
    BY <2>2, <2>3
<1>15. NothingOwed'
  <2> SUFFICES ASSUME NEW x \in Objects \ disturbed
               PROVE  Due(x)' \/ Coming(x)' \/ Settled(x)'
    BY <1>1 DEF NothingOwed
  <2>1. ASSUME Settled(x) PROVE Settled(x)'
    <3>1. Reflects(x)'
      BY <1>1, <2>1 DEF Settled, Reflects
    <3> QED
      BY <1>1, <1>7, <2>1, <3>1 DEF Settled
  <2> QED
    BY <1>9, <1>10, <2>1 DEF OwedInv, NothingOwed
<1> QED
  BY <1>11, <1>12, <1>13, <1>14, <1>15 DEF OwedInv

(* The points of an object are deleted, and those who were at it already   *)
(* are marked.                                                             *)
LEMMA OwedOnDelete ==
    ASSUME TypeOK, InHand, OwedInv, NEW c \in Consumers, DeletePoints(c)
    PROVE  OwedInv'
<1>0. Key(c) \in Objects
  BY MessageInHand DEF DeletePoints, Working
<1> PICK k \in Objects : k = Key(c)
  BY <1>0
<1>1. /\ pc[c] = "delete" /\ index' = [index EXCEPT ![k] = <<>>]
      /\ pc' = [pc EXCEPT ![c] = IF Event(c).kind = "removed" THEN "finish"
                                 ELSE "load"]
      /\ UNCHANGED <<bucket, log, committed, owner, next, found>>
  BY DEF DeletePoints, Goto, worldVars, kafkaVars
<1>2. /\ committed \in Nat /\ next \in [Consumers -> Nat] /\ Len(log) \in Nat
      /\ pc \in [Consumers -> Locations] /\ k \in Objects
      /\ At(c) \in 1 .. Len(log) /\ log[At(c)] = Event(c)
      /\ DOMAIN index = Objects
      /\ owner \in Consumers \cup {None}
  BY <1>1, MessageInHand DEF TypeOK, Working, Event
<1>18. bucket[k] \in Nat /\ At(c) \in Nat \ {0}
  BY <1>2 DEF TypeOK
<1>3. \A d \in Consumers : At(d)' = At(d) /\ Event(d)' = Event(d) /\ Key(d)' = Key(d)
  BY <1>1, SameMessages
<1>4. Event(c).kind \in Rewritten
  BY <1>1 DEF OwedInv, KindInHand
<1>5. /\ \A d \in Consumers \ {c} : pc'[d] = pc[d]
      /\ Event(c).kind = "removed" => pc'[c] = "finish"
      /\ Event(c).kind = "created" => pc'[c] = "load"
  BY <1>1, <1>2
<1>6. \A d \in Consumers \ {c} : \A x : Rewriting(d, x)' <=> Rewriting(d, x)
  BY <1>3, <1>5 DEF Rewriting
<1>7. \A x : Rewriting(c, x)' => x = k /\ Event(c).kind = "created"
  BY <1>3, <1>4, <1>5 DEF Rewriting, Rewritten
<1>8. /\ \A x : x # k => (x \in disturbed' <=> x \in disturbed)
      /\ k \notin disturbed' => ~PassedOver(c)
                                /\ \A d \in Consumers \ {c} : ~Rewriting(d, k)
  BY DEF DeletePoints, BeginRewriting
<1>9. Frontier' = Frontier
  BY <1>1 DEF Frontier
<1>10. \A x : Due(x) => Due(x)'
  BY <1>1, <1>9 DEF Due
<1>11. \A x : x # k /\ Coming(x) => Coming(x)'
  BY <1>1, <1>3, <1>5 DEF Coming
<1>12. KindInHand'
  BY <1>3, <1>4, <1>5 DEF OwedInv, KindInHand, Rewritten
<1>13. BucketFollowsLog'
  BY <1>1 DEF OwedInv, BucketFollowsLog
<1>14. OwnerAhead'
  <2>1. pc'[c] \in Working /\ pc[c] \in Working
    BY <1>1, <1>4, <1>5 DEF Working, Rewritten
  <2> QED
    BY <1>1, <1>3, <1>5, <2>1 DEF OwedInv, OwnerAhead
<1>15. ASSUME k \notin disturbed', owner # c
       PROVE  At(c) > committed /\ At(c) >= Frontier /\ Due(k)'
  <2>1. CASE owner \in Consumers \ {c}
    <3>1. next[owner] <= At(c)
      BY <1>2, <1>8, <1>15, <2>1 DEF PassedOver, At
    <3>2. committed < next[owner]
      BY <2>1 DEF OwedInv, OwnerAhead
    <3>3. Frontier = next[owner] /\ next[owner] \in Nat
      BY <1>2, <2>1 DEF Frontier
    <3>4. At(c) > committed /\ At(c) >= Frontier
      BY <1>2, <3>1, <3>2, <3>3
    <3> QED
      BY <1>1, <1>2, <1>4, <1>9, <3>4 DEF Due, Key
  <2>2. CASE owner \notin Consumers
    <3>1. At(c) > committed /\ At(c) >= Frontier
      BY <1>2, <1>8, <1>15, <2>2 DEF PassedOver, Frontier
    <3> QED
      BY <1>1, <1>2, <1>4, <1>9, <3>1 DEF Due, Key
  <2> QED
    BY <1>15, <2>1, <2>2
<1>16. LateIsRepeated'
  <2> SUFFICES ASSUME NEW d \in Consumers, NEW x \in Objects \ disturbed',
                      Rewriting(d, x)', d # owner
               PROVE  At(d) > committed /\ (At(d) >= Frontier \/ Coming(x)')
    BY <1>1, <1>3, <1>9 DEF LateIsRepeated
  <2>1. CASE d = c
    BY <1>7, <1>15, <2>1
  <2>2. CASE d # c
    BY <1>6, <1>8, <1>11, <2>2 DEF OwedInv, LateIsRepeated
  <2> QED
    BY <2>1, <2>2
<1>17. NothingOwed'
  <2> SUFFICES ASSUME NEW x \in Objects \ disturbed'
               PROVE  Due(x)' \/ Coming(x)' \/ Under(x)' \/ Settled(x)'
    BY DEF NothingOwed
  <2>1. CASE x # k
    <3>1. index'[x] = index[x] /\ x \notin disturbed
      BY <1>1, <1>2, <1>8, <2>1
    <3>2. ASSUME Settled(x) PROVE Settled(x)'
      <4>1. Reflects(x)'
        BY <1>1, <3>1, <3>2 DEF Settled, Reflects
      <4> QED
        BY <1>1, <1>6, <1>7, <2>1, <3>2, <4>1 DEF Settled
    <3>3. ASSUME Under(x) PROVE Under(x)'
      <4>1. PICK d \in Consumers :
              /\ owner = d /\ Rewriting(d, x)
              /\ pc[d] = "upsert" =>
                  /\ bucket[x] # 0
                  /\ log[bucket[x]].kind = "created" => found[d] = bucket[x]
        BY <3>3 DEF Under
      <4>2. d # c
        BY <1>1, <4>1 DEF Rewriting
      <4> QED
        BY <1>1, <1>5, <1>6, <3>1, <3>3, <4>1, <4>2 DEF Under
    <3>4. Due(x) \/ Coming(x) \/ Under(x) \/ Settled(x)
      BY <3>1 DEF OwedInv, NothingOwed
    <3> QED
      BY <1>10, <1>11, <2>1, <3>2, <3>3, <3>4
  <2>2. CASE x = k /\ owner # c
    BY <1>15, <2>2
  <2>3. CASE x = k /\ owner = c /\ Event(c).kind = "created"
    <3>1. Rewriting(c, k)' /\ pc'[c] = "load"
      BY <1>3, <1>5, <2>3 DEF Rewriting
    <3>2. index'[k] = <<>>
      BY <1>1, <1>2
    <3> QED
      BY <1>1, <2>3, <3>1, <3>2 DEF Under
  <2>4. CASE x = k /\ owner = c /\ Event(c).kind = "removed"
    <3>1. index'[k] = <<>> /\ bucket' = bucket /\ log' = log
      BY <1>1, <1>2
    <3>2. log[At(c)] \in Message /\ log[At(c)].obj = k
          /\ log[At(c)].kind = "removed"
      BY <1>1, <1>2, <2>4, MessageInHand DEF Working, Key
    <3>3. log[At(c)] = [obj |-> k, kind |-> "removed"]
      BY <3>2 DEF Message
    <3>4. bucket[k] = 0 \/ bucket[k] > At(c)
      BY <1>2, <3>3 DEF OwedInv, BucketFollowsLog
    <3>5. ~Rewriting(c, k)'
      BY <1>5, <2>4 DEF Rewriting
    <3>6. CASE bucket[k] = 0
      BY <1>1, <2>4, <3>1, <3>5, <3>6 DEF Settled, Reflects
    <3>7. CASE bucket[k] > At(c)
      <4>1. /\ bucket[k] \in 1 .. Len(log) /\ log[bucket[k]].obj = k
            /\ log[bucket[k]].kind \in {"created", "unsupported"}
        <5>1. bucket[k] # 0
          BY <1>18, <3>7
        <5> QED
          BY <5>1 DEF OwedInv, BucketFollowsLog
      <4>2. CASE log[bucket[k]].kind = "created"
        <5>1. bucket[k] >= Frontier
          BY <1>2, <2>4, <3>7, <4>1 DEF Frontier, At
        <5> QED
          BY <1>9, <2>4, <3>1, <4>1, <4>2, <5>1 DEF Due, Rewritten
      <4>3. CASE log[bucket[k]].kind = "unsupported"
        <5>1. bucket'[k] # 0 /\ log'[bucket'[k]].kind # "created"
          BY <3>1, <4>1, <4>3
        <5>2. Reflects(k)'
          BY <5>1 DEF Reflects
        <5> QED
          BY <1>1, <2>4, <3>5, <5>2 DEF Settled
      <4> QED
        BY <4>1, <4>2, <4>3
    <3> QED
      BY <3>4, <3>6, <3>7
  <2> QED
    BY <1>4, <2>1, <2>2, <2>3, <2>4 DEF Rewritten
<1> QED
  BY <1>12, <1>13, <1>14, <1>16, <1>17 DEF OwedInv

(* A consumer that reads or writes an object for somebody else's turn      *)
(* leaves it to the turn that is to come; others it does not touch.        *)
LEMMA OwedOnRewriting ==
    ASSUME TypeOK, InHand, OwedInv, NEW c \in Consumers,
           pc[c] \in {"load", "upsert"},
           NEW k \in Objects, k = Key(c),
           NEW l \in {"upsert", "finish"}, pc' = [pc EXCEPT ![c] = l],
           UNCHANGED <<bucket, log, committed, owner, next, disturbed>>,
           \A d \in Consumers \ {c} : found'[d] = found[d],
           \A x \in Objects \ {k} : index'[x] = index[x],
           owner = c /\ Under(k) => Under(k)' \/ Settled(k)'
    PROVE  OwedInv'
<1>1. \A d \in Consumers : At(d)' = At(d) /\ Event(d)' = Event(d) /\ Key(d)' = Key(d)
  BY SameMessages
<1>2. /\ pc'[c] = l /\ \A d \in Consumers \ {c} : pc'[d] = pc[d]
      /\ At(c) \in 1 .. Len(log) /\ Event(c).kind = "created"
  BY MessageInHand DEF TypeOK, Working, OwedInv, KindInHand
<1>3. \A d \in Consumers \ {c} : \A x : Rewriting(d, x)' <=> Rewriting(d, x)
  BY <1>1, <1>2 DEF Rewriting
<1>4. \A x : /\ Rewriting(c, x)' => Rewriting(c, x)
             /\ Rewriting(c, x) <=> x = k
  BY <1>1 DEF Rewriting
<1>5. Frontier' = Frontier
  BY DEF Frontier
<1>6. \A x : (Due(x) => Due(x)') /\ (Coming(x) => Coming(x)')
  <2>1. \A x : Due(x) => Due(x)'
    BY <1>5 DEF Due
  <2>2. \A x : Coming(x) => Coming(x)'
    BY <1>1, <1>2 DEF Coming
  <2> QED
    BY <2>1, <2>2
<1>7. KindInHand'
  BY <1>1, <1>2 DEF OwedInv, KindInHand
<1>8. BucketFollowsLog'
  BY DEF OwedInv, BucketFollowsLog
<1>9. OwnerAhead'
  BY <1>1, <1>2 DEF OwedInv, OwnerAhead, Working
<1>10. LateIsRepeated'
  BY <1>1, <1>3, <1>4, <1>5, <1>6 DEF OwedInv, LateIsRepeated
<1>11. NothingOwed'
  <2> SUFFICES ASSUME NEW x \in Objects \ disturbed
               PROVE  Due(x)' \/ Coming(x)' \/ Under(x)' \/ Settled(x)'
    BY DEF NothingOwed
  <2>0. Due(x) \/ Coming(x) \/ Under(x) \/ Settled(x)
    BY DEF OwedInv, NothingOwed
  <2>1. CASE x # k
    <3>1. ASSUME Settled(x) PROVE Settled(x)'
      <4>1. Reflects(x)'
        BY <2>1, <3>1 DEF Settled, Reflects
      <4> QED
        BY <1>3, <1>4, <2>1, <3>1, <4>1 DEF Settled
    <3>2. ASSUME Under(x) PROVE Under(x)'
      <4>1. PICK d \in Consumers :
              /\ owner = d /\ Rewriting(d, x)
              /\ pc[d] = "upsert" =>
                  /\ bucket[x] # 0
                  /\ log[bucket[x]].kind = "created" => found[d] = bucket[x]
        BY <3>2 DEF Under
      <4>2. d # c
        BY <1>4, <2>1, <4>1
      <4> QED
        BY <1>2, <1>3, <2>1, <3>2, <4>1, <4>2 DEF Under
    <3> QED
      BY <1>6, <2>0, <3>1, <3>2
  <2>2. CASE x = k /\ owner # c
    <3>1. At(c) >= Frontier \/ Coming(k)
      BY <1>4, <2>2 DEF OwedInv, LateIsRepeated
    <3>2. log[At(c)].obj = k /\ log[At(c)].kind = "created"
      BY <1>2 DEF Key, Event
    <3>3. At(c) >= Frontier => Due(k)
      BY <1>2, <3>2 DEF Due, Rewritten
    <3> QED
      BY <1>6, <2>2, <3>1, <3>3
  <2>3. CASE x = k /\ owner = c
    <3>1. ~Settled(k)
      BY <1>4, <2>3 DEF Settled
    <3> QED
      BY <1>6, <2>0, <2>3, <3>1
  <2> QED
    BY <2>1, <2>2, <2>3
<1> QED
  BY <1>7, <1>8, <1>9, <1>10, <1>11 DEF OwedInv

(* What is read is what the bucket holds.                                  *)
LEMMA OwedOnLoad ==
    ASSUME TypeOK, InHand, OwedInv, NEW c \in Consumers, Load(c)
    PROVE  OwedInv'
<1>0. Key(c) \in Objects /\ pc[c] = "load"
  BY MessageInHand DEF Load, Working
<1> PICK k \in Objects : k = Key(c)
  BY <1>0
<1>1. /\ UNCHANGED <<bucket, log, committed, owner, next, index, disturbed>>
      /\ \/ /\ bucket[k] # 0 /\ pc' = [pc EXCEPT ![c] = "upsert"]
            /\ found' = [found EXCEPT ![c] = bucket[k]]
         \/ /\ Unreadable(bucket[k]) /\ pc' = [pc EXCEPT ![c] = "finish"]
            /\ found' = found
  BY DEF Load, Goto, worldVars, kafkaVars, pastVars
<1>2. PICK l \in {"upsert", "finish"} : pc' = [pc EXCEPT ![c] = l]
  BY <1>1
<1>3. pc'[c] = l /\ Key(c)' = Key(c)
  BY <1>1, <1>2, SameMessages DEF TypeOK
<1>4. \A d \in Consumers \ {c} : found'[d] = found[d]
  BY <1>1 DEF TypeOK
<1>5. ASSUME owner = c, Under(k) PROVE Under(k)' \/ Settled(k)'
  <2>1. index'[k] = <<>>
    BY <1>1, <1>5 DEF Under
  <2>2. CASE bucket[k] # 0 /\ pc' = [pc EXCEPT ![c] = "upsert"]
             /\ found' = [found EXCEPT ![c] = bucket[k]]
    <3>1. found'[c] = bucket'[k] /\ bucket'[k] # 0
      BY <1>1, <2>2 DEF TypeOK
    <3>2. Rewriting(c, k)'
      BY <1>3, <2>2 DEF Rewriting, TypeOK
    <3> QED
      BY <1>1, <1>5, <2>1, <3>1, <3>2 DEF Under
  <2>3. CASE Unreadable(bucket[k]) /\ pc' = [pc EXCEPT ![c] = "finish"]
    <3>1. ~Rewriting(c, k)'
      BY <2>3 DEF Rewriting, TypeOK
    <3>2. bucket[k] = 0 \/ log[bucket[k]].kind = "unsupported"
      BY <2>3 DEF Unreadable
    <3>3. Reflects(k)'
      BY <1>1, <2>1, <3>2 DEF Reflects
    <3> QED
      BY <1>1, <1>5, <3>1, <3>3 DEF Settled
  <2> QED
    BY <1>1, <2>2, <2>3
<1> QED
  BY <1>0, <1>1, <1>2, <1>4, <1>5, OwedOnRewriting

(* The points that are written are those of what was read.                 *)
LEMMA OwedOnUpsert ==
    ASSUME TypeOK, InHand, OwedInv, NEW c \in Consumers, Upsert(c)
    PROVE  OwedInv'
<1>0. Key(c) \in Objects /\ pc[c] = "upsert"
  BY MessageInHand DEF Upsert, Working
<1> PICK k \in Objects : k = Key(c)
  BY <1>0
<1>1. /\ UNCHANGED <<bucket, log, committed, owner, next, found, disturbed>>
      /\ pc' = [pc EXCEPT ![c] = "finish"]
      /\ index' = [index EXCEPT ![k] = Append(@, found[c])]
  BY DEF Upsert, Goto, worldVars, kafkaVars
<1>2. /\ index'[k] = Append(index[k], found[c])
      /\ \A x \in Objects \ {k} : index'[x] = index[x]
  BY <1>1 DEF TypeOK
<1>3. ASSUME owner = c, Under(k) PROVE Settled(k)'
  <2>1. /\ index[k] = <<>> /\ bucket[k] # 0
        /\ log[bucket[k]].kind = "created" => found[c] = bucket[k]
    BY <1>0, <1>3 DEF Under
  <2>2. log[bucket[k]].kind = "created" => index'[k] = <<bucket[k]>>
    BY <1>2, <2>1
  <2>3. Reflects(k)'
    BY <1>1, <2>1, <2>2 DEF Reflects
  <2>4. ~Rewriting(c, k)'
    BY <1>1 DEF Rewriting, TypeOK
  <2> QED
    BY <1>1, <1>3, <2>3, <2>4 DEF Settled
<1> QED
  BY <1>0, <1>1, <1>2, <1>3, OwedOnRewriting

(* Every step leaves every object settled or owed.                         *)
LEMMA OwedAfterNext ==
    ASSUME TypeOK, InHand, OwedInv, [Next]_vars
    PROVE  OwedInv'
<1>1. ASSUME NEW o \in Objects, NEW kind \in Kinds,
             Put(o, kind) \/ Noise(o, kind) \/ Remove(o)
      PROVE  OwedInv'
  BY <1>1, OwedToUsers DEF Put, Noise, Remove, Kinds
<1>2. CASE Revoke
  BY <1>2, OwedWithoutOwner DEF Revoke, worldVars, pastVars
<1>3. ASSUME NEW c \in Consumers,
             Commit(c) \/ Skip(c) \/ Restart(c) \/ CallFails(c)
      PROVE  OwedInv'
  <2>1. /\ UNCHANGED <<bucket, log, found, index, next, owner>>
        /\ disturbed \subseteq disturbed'
        /\ \/ committed' = committed
           \/ committed' = At(c) /\ owner = c /\ pc[c] = "finish" /\ pc'[c] = "poll"
    BY <1>3 DEF Commit, Skip, Restart, CallFails, Goto, worldVars, kafkaVars,
                pastVars, boundVars, TypeOK
  <2>2. PICK l \in {"poll", "finish"} : pc' = [pc EXCEPT ![c] = l]
    BY <1>3 DEF Commit, Skip, Restart, CallFails, Goto
  <2>3. pc'[c] = l /\ \A d \in Consumers \ {c} : pc'[d] = pc[d]
    BY <2>2 DEF TypeOK
  <2>4. l = "finish" => pc[c] \in Working /\ Key(c) \in disturbed'
    BY <1>3, <2>2, <2>3 DEF Commit, Skip, Restart, CallFails, Goto, Working, TypeOK
  <2>5. l = "poll" => pc[c] \notin {"delete", "load", "upsert"}
    BY <1>3, <2>2, <2>3 DEF Commit, Skip, Restart, CallFails, Goto, TypeOK
  <2>6. \A d \in Consumers :
            /\ pc'[d] \in Working => pc[d] \in Working
            /\ pc'[d] \in {"delete", "load", "upsert"} => pc'[d] = pc[d]
            /\ owner = d =>
                /\ pc'[d] \in Working \cup {"poll"}
                /\ pc[d] \in {"delete", "load", "upsert"} =>
                    pc'[d] = pc[d] \/ Key(d) \in disturbed'
    BY <2>3, <2>4, <2>5 DEF OwedInv, OwnerAhead, Working
  <2> QED
    BY <2>1, <2>6, OwedWithOwner
<1>4. ASSUME NEW c \in Consumers, Crash(c) \/ LoopDies(c)
      PROVE  OwedInv'
  <2>1. /\ UNCHANGED <<bucket, log, found, index, next, committed, disturbed>>
        /\ owner' = IF owner = c THEN None ELSE owner
    BY <1>4 DEF Crash, LoopDies, Leaves, worldVars, pastVars
  <2>2. PICK l \in {"down", "dead"} : pc' = [pc EXCEPT ![c] = l]
    BY <1>4 DEF Crash, LoopDies, Goto
  <2>3. pc'[c] = l /\ \A d \in Consumers \ {c} : pc'[d] = pc[d]
    BY <2>2 DEF TypeOK
  <2>4. \A d \in Consumers : pc'[d] \in Working => pc'[d] = pc[d]
    BY <2>3 DEF Working
  <2>5. CASE owner = c
    BY <2>1, <2>4, <2>5, OwedWithoutOwner
  <2>6. CASE owner # c
    <3>1. \A d \in Consumers :
            /\ pc'[d] \in Working => pc[d] \in Working
            /\ pc'[d] \in {"delete", "load", "upsert"} => pc'[d] = pc[d]
            /\ owner = d => pc'[d] \in Working \cup {"poll"} /\ pc'[d] = pc[d]
      BY <2>3, <2>6 DEF OwedInv, OwnerAhead, Working
    <3> QED
      BY <2>1, <2>6, <3>1, OwedWithOwner
  <2> QED
    BY <2>5, <2>6
<1>5. CASE UNCHANGED vars
  <2>1. \A d \in Consumers : owner = d => pc[d] \in Working \cup {"poll"}
    BY DEF OwedInv, OwnerAhead
  <2> QED
    BY <1>5, <2>1, OwedWithOwner DEF vars
<1> QED
  BY <1>1, <1>2, <1>3, <1>4, <1>5, OwedToNewOwner, OwedOnPoll, OwedOnDelete,
     OwedOnLoad, OwedOnUpsert
  DEF Next, User, ConsumerStep, Fault, Kinds

(* With any instances, crashes, failures and changes of owner: once all is *)
(* consumed, the index shows what the bucket holds, but for the objects    *)
(* that a failure or two consumers at once spoiled.                        *)
THEOREM QuiescentIsIndexed == Spec => []QuiescentMeansIndexed
<1>1. Init => OwedInv
  <2> SUFFICES ASSUME Init PROVE OwedInv
    OBVIOUS
  <2>1. /\ \A c \in Consumers : owner # c /\ pc[c] = "poll"
        /\ \A o \in Objects : bucket[o] = 0 /\ index[o] = <<>>
        /\ Len(log) = 0
    BY IndexerAssumption DEF Init
  <2>2. \A o \in Objects : Settled(o)
    BY <2>1 DEF Settled, Reflects
  <2>3. KindInHand /\ OwnerAhead /\ BucketFollowsLog /\ LateIsRepeated
    BY <2>1 DEF KindInHand, OwnerAhead, BucketFollowsLog, LateIsRepeated, Rewriting
  <2> QED
    BY <2>2, <2>3 DEF OwedInv, NothingOwed
<1>2. TypeOK /\ InHand /\ OwedInv /\ [Next]_vars => OwedInv'
  BY OwedAfterNext
<1>3. TypeOK /\ OwedInv => QuiescentMeansIndexed
  <2> SUFFICES ASSUME TypeOK, OwedInv, Quiescent, NEW o \in Objects \ disturbed
               PROVE  Reflects(o)
    BY DEF QuiescentMeansIndexed
  <2>1. owner \in Consumers /\ Frontier = Len(log) + 1 /\ Len(log) \in Nat
    BY FrontierIs DEF Quiescent, TypeOK
  <2>2. ~Due(o)
    BY <2>1 DEF Due
  <2>3. ~Coming(o) /\ ~Under(o)
    BY DEF Coming, Under, Rewriting, Quiescent, Working
  <2> QED
    BY <2>2, <2>3 DEF OwedInv, NothingOwed, Settled
<1> QED
  BY <1>1, <1>2, <1>3, Typing, PTL DEF Spec
===============================================================================
