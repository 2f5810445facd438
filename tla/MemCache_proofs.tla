---------------------------- MODULE MemCache_proofs ----------------------------
(***************************************************************************)
(* Proofs about MemCache for any number of threads, keys and items, any    *)
(* time to live and any clock.                                             *)
(***************************************************************************)
EXTENDS MemCache, FiniteSetTheorems, TLAPS

(* A call that will look for a key and keep an item has both.              *)
Fit(c) ==
    \/ c.at \in {"stamp", "check", "create", "store", "put"}
    \/ c.at \in {"enter", "collect", "sweep"} /\ c.key # None
    => c.key \in Keys /\ c.item \in Items

Ready == {c \in Calls : Fit(c)}
Equipped == call \in [Threads -> Ready]

-----------------------------------------------------------------------------
(* The local variables of a call.                                          *)

LEMMA IdleIsReady == \A r \in 0 .. MaxItems + 1 : Idle(r) \in Ready
  BY CacheAssumption DEF Idle, Ready, Fit, Calls, Locations

(* The calls that start with a key and an item, and those without.         *)
LEMMA StartIsReady ==
    /\ \A i \in Items, k \in Keys :
          [Idle(i) EXCEPT !.at = "enter", !.key = k] \in Ready
    /\ \A i \in Items, k \in Keys, n \in 0 .. MaxTime :
          [Idle(i) EXCEPT !.at = "put", !.key = k, !.time = n] \in Ready
    /\ [Idle(Nothing) EXCEPT !.at = "enter"] \in Ready
    /\ \A s \in Nat :
          [Idle(Nothing) EXCEPT !.at = "len", !.size = s] \in Ready
    /\ \A h \in SUBSET Keys, s \in Nat :
          [Idle(Nothing) EXCEPT !.at = "iterate", !.todo = h, !.size = s]
             \in Ready
<1>1. ASSUME NEW c \in Calls
      PROVE  /\ \A k \in Keys : c.item \in Items =>
                   [c EXCEPT !.at = "enter", !.key = k] \in Ready
             /\ \A k \in Keys, n \in 0 .. MaxTime : c.item \in Items =>
                   [c EXCEPT !.at = "put", !.key = k, !.time = n] \in Ready
             /\ c.key = None => [c EXCEPT !.at = "enter"] \in Ready
             /\ \A s \in Nat : [c EXCEPT !.at = "len", !.size = s] \in Ready
             /\ \A h \in SUBSET Keys, s \in Nat :
                   [c EXCEPT !.at = "iterate", !.todo = h, !.size = s] \in Ready
  BY DEF Ready, Fit, Calls, Locations
<1>2. \A r \in 0 .. MaxItems + 1 :
         Idle(r) \in Calls /\ Idle(r).item = r /\ Idle(r).key = None
  <2> TAKE r \in 0 .. MaxItems + 1
  <2>1. Idle(r) \in Calls
    BY IdleIsReady DEF Ready
  <2>2. Idle(r).item = r /\ Idle(r).key = None
    BY DEF Idle
  <2> QED
    BY <2>1, <2>2
<1>3. Nothing \in 0 .. MaxItems + 1 /\ Items \subseteq 0 .. MaxItems + 1
  BY CacheAssumption DEF Nothing, Items
<1> QED
  BY <1>1, <1>2, <1>3

(* The steps inside a call keep what the call needs later.                 *)
LEMMA StepIsReady ==
    ASSUME NEW c \in Ready
    PROVE  /\ \A n \in 0 .. MaxTime : c.at = "enter" =>
                 [c EXCEPT !.at = "collect", !.time = n] \in Ready
           /\ \A h \in SUBSET Keys : c.at = "collect" =>
                 [c EXCEPT !.at = "sweep", !.todo = h] \in Ready
           /\ c.at = "sweep" /\ c.key # None =>
                 [c EXCEPT !.at = "stamp"] \in Ready
           /\ \A n \in 0 .. MaxTime : c.at = "stamp" =>
                 [c EXCEPT !.at = "check", !.time = n] \in Ready
           /\ c.at = "check" => [c EXCEPT !.at = "create"] \in Ready
           /\ c.at = "create" => [c EXCEPT !.at = "store"] \in Ready
           /\ \A h \in SUBSET Keys : [c EXCEPT !.todo = h] \in Ready
  BY DEF Ready, Fit, Calls, Locations

(* What a call becomes is all that changes in call.                        *)
LEMMA BecomesReady ==
    ASSUME Equipped, NEW t \in Threads, NEW c \in Ready, Becomes(t, c)
    PROVE  /\ Equipped'
           /\ call'[t] = c
           /\ \A u \in Threads \ {t} : call'[u] = call[u]
  BY DEF Equipped, Becomes

LEMMA HeldIsCounted == Held \in SUBSET Keys /\ Cardinality(Held) \in Nat
<1>1. Held \subseteq Keys
  BY DEF Held
<1>2. IsFiniteSet(Held)
  BY <1>1, CacheAssumption, FS_Subset
<1> QED
  BY <1>1, <1>2, FS_CardinalityType

-----------------------------------------------------------------------------
(* The types.                                                              *)

StateOK ==
    /\ clock \in 0 .. MaxTime
    /\ cache \in [Keys -> Entry \cup {None}]
    /\ cleaner \in Threads \cup {None}
    /\ made \in 0 .. MaxItems
    /\ born \in [Items -> 0 .. MaxTime]

LEMMA DropKeeps ==
    ASSUME cache \in [Keys -> Entry \cup {None}], NEW k, Drop(k)
    PROVE  cache' \in [Keys -> Entry \cup {None}]
  BY DEF Drop

LEMMA KeepKeeps ==
    ASSUME cache \in [Keys -> Entry \cup {None}],
           NEW k, NEW i \in Items, NEW s \in 0 .. MaxTime, Keep(k, i, s)
    PROVE  cache' \in [Keys -> Entry \cup {None}]
<1>1. [item |-> i, stamp |-> s] \in Entry
  BY DEF Entry
<1> QED
  BY <1>1 DEF Keep

(* What a call in hand is known to be.                                     *)
LEMMA InHand ==
    ASSUME Equipped, NEW t \in Threads
    PROVE  /\ call[t] \in Ready
           /\ call[t].time \in 0 .. MaxTime
           /\ call[t].item \in 0 .. MaxItems + 1
           /\ call[t].todo \in SUBSET Keys
           /\ call[t].at \in {"stamp", "check", "create", "store", "put"} =>
                 call[t].key \in Keys /\ call[t].item \in Items
<1>1. call[t] \in Ready
  BY DEF Equipped
<1> QED
  BY <1>1 DEF Ready, Calls, Fit

LEMMA EntryInHand ==
    ASSUME StateOK, NEW k \in Held
    PROVE  k \in Keys /\ cache[k] \in Entry /\ cache[k].item \in Items
           /\ cache[k].item \in 0 .. MaxItems + 1 /\ cache[k].stamp \in 0 .. MaxTime
<1>1. k \in Keys /\ cache[k] \in Entry
  BY DEF StateOK, Held
<1>2. cache[k].item \in Items /\ cache[k].stamp \in 0 .. MaxTime
  BY <1>1 DEF Entry
<1> QED
  BY <1>1, <1>2, CacheAssumption DEF Items

(* Every step of the specification keeps the types.                        *)
LEMMA TypesKept ==
    ASSUME StateOK, Equipped, [Next]_vars
    PROVE  StateOK' /\ Equipped'
<1>1. CASE Tick
  <2>1. Equipped'
    BY <1>1 DEF Tick, Equipped
  <2> QED
    BY <1>1, <2>1, CacheAssumption DEF Tick, StateOK
<1>2. ASSUME NEW t \in Threads, NEW k \in Keys,
            CallGetOrCreate(t, k) \/ CallPut(t, k) \/ Get(t, k) \/ Remove(t, k)
     PROVE  StateOK' /\ Equipped'
  <2> call[t] \in Ready
    BY InHand
  <2>1. CASE CallGetOrCreate(t, k)
    <3>1. made + 1 \in Items
      BY <2>1, CacheAssumption DEF CallGetOrCreate, StateOK, Items
    <3>2. [Idle(made + 1) EXCEPT !.at = "enter", !.key = k] \in Ready
      BY <3>1, StartIsReady
    <3>3. Equipped'
      BY <2>1, <3>2, BecomesReady DEF CallGetOrCreate
    <3> QED
      BY <2>1, <3>1, <3>3 DEF CallGetOrCreate, StateOK, Items
  <2>2. CASE CallPut(t, k)
    <3>1. made + 1 \in Items
      BY <2>2, CacheAssumption DEF CallPut, StateOK, Items
    <3>2. [Idle(made + 1) EXCEPT !.at = "put", !.key = k, !.time = clock] \in Ready
      BY <3>1, StartIsReady DEF StateOK
    <3>3. Equipped'
      BY <2>2, <3>2, BecomesReady DEF CallPut
    <3> QED
      BY <2>2, <3>1, <3>3 DEF CallPut, StateOK, Items
  <2>3. CASE Get(t, k)
    <3>1. CASE Live(k)
      <4>1. Idle(cache[k].item) \in Ready
        BY <3>1, EntryInHand, IdleIsReady DEF Live
      <4>2. Equipped'
        BY <2>3, <3>1, <4>1, BecomesReady DEF Get, Return
      <4> QED
        BY <2>3, <3>1, <4>2 DEF Get, StateOK
    <3>2. CASE ~Live(k)
      <4>1. Idle(Nothing) \in Ready
        BY IdleIsReady, CacheAssumption DEF Nothing
      <4>2. Equipped'
        BY <2>3, <3>2, <4>1, BecomesReady DEF Get, Return
      <4> QED
        BY <2>3, <3>2, <4>2, DropKeeps DEF Get, StateOK
    <3> QED
      BY <3>1, <3>2
  <2>4. CASE Remove(t, k)
    <3>1. Idle(Nothing) \in Ready
      BY IdleIsReady, CacheAssumption DEF Nothing
    <3>2. Equipped'
      BY <2>4, <3>1, BecomesReady DEF Remove, Return
    <3> QED
      BY <2>4, <3>2, DropKeeps DEF Remove, StateOK
  <2> QED
    BY <1>2, <2>1, <2>2, <2>3, <2>4
<1>3. ASSUME NEW t \in Threads,
            CallForceCleanup(t) \/ Clear(t) \/ CallStats(t) \/ CallKeys(t)
     PROVE  StateOK' /\ Equipped'
  <2> call[t] \in Ready
    BY InHand
  <2>1. CASE CallForceCleanup(t)
    <3>1. [Idle(Nothing) EXCEPT !.at = "enter"] \in Ready
      BY StartIsReady
    <3>2. Equipped'
      BY <2>1, <3>1, BecomesReady DEF CallForceCleanup
    <3> QED
      BY <2>1, <3>2 DEF CallForceCleanup, StateOK
  <2>2. CASE Clear(t)
    <3>1. Idle(Nothing) \in Ready
      BY IdleIsReady, CacheAssumption DEF Nothing
    <3>2. Equipped'
      BY <2>2, <3>1, BecomesReady DEF Clear, Return
    <3> QED
      BY <2>2, <3>2 DEF Clear, StateOK
  <2>3. CASE CallStats(t)
    <3>1. [Idle(Nothing) EXCEPT !.at = "len", !.size = Cardinality(Held)] \in Ready
      BY HeldIsCounted, StartIsReady
    <3>2. Equipped'
      BY <2>3, <3>1, BecomesReady DEF CallStats
    <3> QED
      BY <2>3, <3>2 DEF CallStats, StateOK
  <2>4. CASE CallKeys(t)
    <3>1. [Idle(Nothing) EXCEPT !.at = "iterate", !.todo = Held,
                               !.size = Cardinality(Held)] \in Ready
      BY HeldIsCounted, StartIsReady
    <3>2. Equipped'
      BY <2>4, <3>1, BecomesReady DEF CallKeys
    <3> QED
      BY <2>4, <3>2 DEF CallKeys, StateOK
  <2> QED
    BY <1>3, <2>1, <2>2, <2>3, <2>4
<1>4. ASSUME NEW t \in Threads,
            Step(t)
     PROVE  StateOK' /\ Equipped'
  <2> call[t] \in Ready
    BY InHand
  <2>1. CASE Enter(t)
    <3>1. [call[t] EXCEPT !.at = "collect", !.time = clock] \in Ready
      BY <2>1, StepIsReady DEF Enter, At, StateOK
    <3>2. Equipped'
      BY <2>1, <3>1, BecomesReady DEF Enter, Goto
    <3> QED
      BY <2>1, <3>2 DEF Enter, StateOK
  <2>2. CASE Collect(t)
    <3> DEFINE old == {k \in Held : Old(call[t].time, cache[k])}
    <3>1. old \in SUBSET Keys
      BY HeldIsCounted
    <3>2. [call[t] EXCEPT !.at = "sweep", !.todo = old] \in Ready
      BY <2>2, <3>1, StepIsReady DEF Collect, At
    <3>3. Equipped'
      BY <2>2, <3>2, BecomesReady DEF Collect
    <3> QED
      BY <2>2, <3>3 DEF Collect, StateOK
  <2>3. CASE Sweep(t)
    <3>1. PICK k \in call[t].todo :
             Strike(t, k) /\ (Drop(k) \/ UNCHANGED cache)
      BY <2>3 DEF Sweep
    <3>2. call[t].todo \ {k} \in SUBSET Keys
      BY InHand
    <3>3. [call[t] EXCEPT !.todo = @ \ {k}] \in Ready
      BY <3>2, StepIsReady
    <3>4. Equipped'
      BY <3>1, <3>3, BecomesReady DEF Strike
    <3> QED
      BY <2>3, <3>1, <3>4, DropKeeps DEF Sweep, StateOK
  <2>4. CASE Leave(t)
    <3>1. ASSUME call[t].key = None PROVE Equipped'
      <4>1. Idle(Nothing) \in Ready
        BY IdleIsReady, CacheAssumption DEF Nothing
      <4>2. Becomes(t, Idle(Nothing))
        BY <2>4, <3>1 DEF Leave, AfterCleanup, Return
      <4> QED
        BY <4>1, <4>2, BecomesReady
    <3>2. ASSUME call[t].key # None PROVE Equipped'
      <4>1. [call[t] EXCEPT !.at = "stamp"] \in Ready
        BY <2>4, <3>2, StepIsReady DEF Leave, At
      <4>2. Becomes(t, [call[t] EXCEPT !.at = "stamp"])
        BY <2>4, <3>2 DEF Leave, AfterCleanup, Goto
      <4> QED
        BY <4>1, <4>2, BecomesReady
    <3>3. Equipped'
      BY <3>1, <3>2
    <3> QED
      BY <2>4, <3>3 DEF Leave, StateOK
  <2>5. CASE Stamp(t)
    <3>1. [call[t] EXCEPT !.at = "check", !.time = clock] \in Ready
      BY <2>5, StepIsReady DEF Stamp, At, StateOK
    <3>2. Equipped'
      BY <2>5, <3>1, BecomesReady DEF Stamp, Goto
    <3> QED
      BY <2>5, <3>2 DEF Stamp, StateOK
  <2>6. CASE Check(t)
    <3> DEFINE k == call[t].key
    <3>1. k \in Keys /\ call[t].item \in Items /\ call[t].time \in 0 .. MaxTime
      BY <2>6, InHand DEF Check, At
    <3>2. CASE Live(k)
      <4>1. Idle(cache[k].item) \in Ready
        BY <3>2, EntryInHand, IdleIsReady DEF Live
      <4>2. Equipped'
        BY <2>6, <3>2, <4>1, BecomesReady DEF Check, Return
      <4> QED
        BY <2>6, <3>2, <4>2 DEF Check, StateOK
    <3>3. CASE ~Live(k)
      <4>1. [call[t] EXCEPT !.at = "create"] \in Ready
        BY <2>6, StepIsReady DEF Check, At
      <4>2. Equipped'
        BY <2>6, <3>3, <4>1, BecomesReady DEF Check, Goto
      <4> QED
        BY <2>6, <3>1, <3>3, <4>2, DropKeeps DEF Check, StateOK
    <3> QED
      BY <3>2, <3>3
  <2>7. CASE Create(t)
    <3>1. [call[t] EXCEPT !.at = "store"] \in Ready
      BY <2>7, StepIsReady DEF Create, At
    <3>2. Equipped'
      BY <2>7, <3>1, BecomesReady DEF Create, Goto
    <3> QED
      BY <2>7, <3>2 DEF Create, StateOK
  <2>8. CASE CreateFails(t)
    <3>1. Idle(Raised) \in Ready
      BY IdleIsReady, CacheAssumption DEF Raised
    <3>2. Equipped'
      BY <2>8, <3>1, BecomesReady DEF CreateFails, Return
    <3> QED
      BY <2>8, <3>2 DEF CreateFails, StateOK
  <2>9. CASE Store(t)
    <3> DEFINE k == call[t].key
    <3>1. k \in Keys /\ call[t].item \in Items /\ call[t].time \in 0 .. MaxTime
      BY <2>9, InHand DEF Store, At
    <3>2. CASE Live(k)
      <4>1. Idle(cache[k].item) \in Ready
        BY <3>2, EntryInHand, IdleIsReady DEF Live
      <4>2. Equipped'
        BY <2>9, <3>2, <4>1, BecomesReady DEF Store, Return
      <4> QED
        BY <2>9, <3>2, <4>2 DEF Store, StateOK
    <3>3. CASE ~Live(k)
      <4>1. Idle(call[t].item) \in Ready
        BY <3>1, IdleIsReady, CacheAssumption DEF Items
      <4>2. Equipped'
        BY <2>9, <3>3, <4>1, BecomesReady DEF Store, Return
      <4> QED
        BY <2>9, <3>1, <3>3, <4>2, KeepKeeps DEF Store, StateOK
    <3> QED
      BY <3>2, <3>3
  <2>10. CASE PutStore(t)
    <3>1. call[t].item \in Items /\ call[t].time \in 0 .. MaxTime
      BY <2>10, InHand DEF PutStore, At
    <3>2. Idle(Nothing) \in Ready
      BY IdleIsReady, CacheAssumption DEF Nothing
    <3>3. Equipped'
      BY <2>10, <3>2, BecomesReady DEF PutStore, Return
    <3> QED
      BY <2>10, <3>1, <3>3, KeepKeeps DEF PutStore, StateOK
  <2>11. CASE StatsLen(t)
    <3>1. Idle(Nothing) \in Ready
      BY IdleIsReady, CacheAssumption DEF Nothing
    <3>2. Equipped'
      BY <2>11, <3>1, BecomesReady DEF StatsLen, Return
    <3> QED
      BY <2>11, <3>2 DEF StatsLen, StateOK
  <2>12. CASE Iterate(t)
    <3>1. Idle(Nothing) \in Ready /\ Idle(Raised) \in Ready
      BY IdleIsReady, CacheAssumption DEF Nothing, Raised
    <3>2. \A k : [call[t] EXCEPT !.todo = @ \ {k}] \in Ready
      <4> TAKE k
      <4>1. call[t].todo \ {k} \in SUBSET Keys
        BY InHand
      <4> QED
        BY <4>1, StepIsReady
    <3>3. PICK c \in Ready : Becomes(t, c)
      BY <2>12, <3>1, <3>2 DEF Iterate, Return, Strike
    <3>4. Equipped'
      BY <3>3, BecomesReady
    <3> QED
      BY <2>12, <3>4 DEF Iterate, StateOK
  <2> QED
    BY <1>4, <2>1, <2>2, <2>3, <2>4, <2>5, <2>6, <2>7, <2>8, <2>9, <2>10, <2>11, <2>12 DEF Step
<1>5. CASE UNCHANGED vars
  BY <1>5 DEF vars, StateOK, Equipped
<1> QED
  BY <1>1, <1>2, <1>3, <1>4, <1>5 DEF Next, Call

(* Every variable keeps its type, what the cache holds is always an item   *)
(* that a caller made or put, and a call that looks for a key has one.     *)
THEOREM Typing == Spec => [](TypeOK /\ Equipped)
<1>1. Init => StateOK /\ Equipped
  <2> SUFFICES ASSUME Init PROVE StateOK /\ Equipped
    OBVIOUS
  <2>1. Idle(Nothing) \in Ready
    BY IdleIsReady, CacheAssumption DEF Nothing
  <2> QED
    BY <2>1, CacheAssumption DEF Init, StateOK, Equipped
<1>2. StateOK /\ Equipped /\ [Next]_vars => (StateOK /\ Equipped)'
  BY TypesKept
<1>3. StateOK /\ Equipped => TypeOK
  BY DEF StateOK, Equipped, TypeOK, Ready
<1> QED
  BY <1>1, <1>2, <1>3, PTL DEF Spec

-----------------------------------------------------------------------------
(* The times.                                                              *)

(* No time that was read lies ahead of the clock, and no entry is stamped  *)
(* later than its item was made.                                           *)
TimeOK(t) ==
    /\ call[t].time <= clock
    /\ call[t].at \in {"store", "put"} => call[t].time <= born[call[t].item]

TimesOK ==
    /\ \A i \in Items : born[i] <= clock
    /\ \A t \in Threads : TimeOK(t)
    /\ \A k \in Held : cache[k].stamp <= born[cache[k].item]

LEMMA BecomesOnly ==
    ASSUME Equipped, NEW t \in Threads, NEW c, Becomes(t, c)
    PROVE  /\ call'[t] = c
           /\ \A u \in Threads \ {t} : call'[u] = call[u]
  BY DEF Equipped, Becomes

(* Time does not run backwards, and an item is born once or later again.   *)
LEMMA Ageing ==
    ASSUME StateOK, Equipped, TimesOK, [Next]_vars
    PROVE  /\ clock <= clock'
           /\ \A i \in Items : born[i] <= born'[i] /\ born'[i] <= clock'
<1> USE DEF StateOK, TimesOK
<1>1. CASE Tick
  BY <1>1 DEF Tick
<1>2. ASSUME NEW t \in Threads, NEW k \in Keys, CallPut(t, k)
      PROVE  /\ clock <= clock'
             /\ \A i \in Items : born[i] <= born'[i] /\ born'[i] <= clock'
  BY <1>2 DEF CallPut
<1>3. ASSUME NEW t \in Threads, Create(t)
      PROVE  /\ clock <= clock'
             /\ \A i \in Items : born[i] <= born'[i] /\ born'[i] <= clock'
  BY <1>3 DEF Create
<1>4. CASE UNCHANGED <<clock, born>>
  BY <1>4
<1>5. \/ Tick \/ UNCHANGED <<clock, born>>
      \/ \E t \in Threads : Create(t) \/ \E k \in Keys : CallPut(t, k)
  <2>1. ASSUME NEW t \in Threads, Call(t)
        PROVE  UNCHANGED <<clock, born>> \/ \E k \in Keys : CallPut(t, k)
    BY <2>1 DEF Call, CallGetOrCreate, Get, Remove, CallForceCleanup, Clear,
                CallStats, CallKeys
  <2>2. ASSUME NEW t \in Threads, Step(t)
        PROVE  UNCHANGED <<clock, born>> \/ Create(t)
    BY <2>2 DEF Step, Enter, Collect, Sweep, Leave, Stamp, Check, CreateFails,
                Store, PutStore, StatsLen, Iterate
  <2> QED
    BY <2>1, <2>2 DEF Next, vars
<1> QED
  BY <1>1, <1>2, <1>3, <1>4, <1>5

(* An entry is written by the last step of get_or_create or of put, with   *)
(* the time the call has read.                                             *)
LEMMA Written ==
    ASSUME StateOK, Equipped, [Next]_vars, NEW k \in Keys, cache'[k] # cache[k]
    PROVE  \/ cache'[k] = None
           \/ \E t \in Threads :
                 /\ call[t].at \in {"store", "put"}
                 /\ cache'[k] = [item |-> call[t].item, stamp |-> call[t].time]
<1> DEFINE W == \E t \in Threads :
                   /\ call[t].at \in {"store", "put"}
                   /\ cache'[k] = [item |-> call[t].item, stamp |-> call[t].time]
<1>1. ASSUME NEW j, Drop(j) PROVE cache'[k] = None \/ cache'[k] = cache[k]
  BY <1>1 DEF Drop, StateOK
<1>2. ASSUME NEW t \in Threads, call[t].at \in {"store", "put"},
             Keep(call[t].key, call[t].item, call[t].time)
      PROVE  cache'[k] = cache[k] \/ W
  BY <1>2 DEF Keep, StateOK
<1>3. ASSUME NEW t \in Threads, Call(t) PROVE cache'[k] = None
  <2>1. CASE Clear(t)
    BY <2>1 DEF Clear
  <2>2. CASE \E j \in Keys : Get(t, j) \/ Remove(t, j)
    BY <1>1, <2>2 DEF Get, Remove
  <2> QED
    BY <1>3, <2>1, <2>2
    DEF Call, CallGetOrCreate, CallPut, CallForceCleanup, CallStats, CallKeys
<1>4. ASSUME NEW t \in Threads, Step(t) PROVE cache'[k] = None \/ W
  <2>1. CASE Sweep(t)
    BY <1>1, <2>1 DEF Sweep
  <2>2. CASE Check(t)
    BY <1>1, <2>2 DEF Check
  <2>3. CASE Store(t)
    BY <1>2, <2>3 DEF Store, At
  <2>4. CASE PutStore(t)
    BY <1>2, <2>4 DEF PutStore, At
  <2> QED
    BY <1>4, <2>1, <2>2, <2>3, <2>4
    DEF Step, Enter, Collect, Leave, Stamp, Create, CreateFails, StatsLen, Iterate
<1> QED
  BY <1>3, <1>4 DEF Next, Tick, vars

(* The thread that moves has no time from the future either.               *)
LEMMA MoverTimeOK ==
    ASSUME StateOK, Equipped, TimesOK, [Next]_vars,
           NEW t \in Threads, Call(t) \/ Step(t)
    PROVE  TimeOK(t)'
<1>0. /\ clock \in Nat /\ clock' \in Nat /\ clock <= clock'
      /\ call[t].time \in Nat /\ call[t].time <= clock
      /\ 0 <= clock'
  <2>1. clock \in Nat /\ clock <= clock'
    BY Ageing, CacheAssumption DEF StateOK
  <2>2. clock' \in Nat
    BY TypesKept, CacheAssumption DEF StateOK
  <2>3. call[t].time \in Nat /\ call[t].time <= clock
    BY InHand, CacheAssumption DEF TimesOK, TimeOK
  <2> QED
    BY <2>1, <2>2, <2>3
<1>1. ASSUME NEW c, Becomes(t, c), c.at \notin {"store", "put"},
             c.time = 0 \/ c.time = clock \/ c.time = call[t].time
      PROVE  TimeOK(t)'
  <2>1. call'[t] = c
    BY <1>1, BecomesOnly
  <2> QED
    BY <1>0, <1>1, <2>1 DEF TimeOK
<1>2. ASSUME NEW r, Return(t, r) PROVE TimeOK(t)'
  BY <1>1, <1>2 DEF Return, Idle
<1>3. ASSUME NEW k \in Keys, CallPut(t, k) PROVE TimeOK(t)'
  <2>1. call'[t] = [Idle(made + 1) EXCEPT !.at = "put", !.key = k,
                                          !.time = clock]
    BY <1>3, BecomesOnly DEF CallPut
  <2>2. call'[t].time = clock /\ call'[t].item = made + 1
    BY <2>1 DEF Idle
  <2>3. made + 1 \in Items
    BY <1>3, CacheAssumption DEF CallPut, StateOK, Items
  <2>4. born'[made + 1] = clock
    BY <1>3, <2>3 DEF CallPut, StateOK
  <2> QED
    BY <1>0, <1>3, <2>2, <2>4 DEF CallPut, TimeOK
<1>4. ASSUME Create(t) PROVE TimeOK(t)'
  <2>1. call'[t] = [call[t] EXCEPT !.at = "store"]
    BY <1>4, BecomesOnly DEF Create, Goto
  <2>2. call[t] \in Ready /\ call[t].item \in Items
    BY <1>4, InHand DEF Create, At
  <2>3. call'[t].time = call[t].time /\ call'[t].item = call[t].item
    BY <2>1, <2>2 DEF Ready, Calls
  <2>4. born'[call[t].item] = clock
    BY <1>4, <2>2 DEF Create, StateOK
  <2> QED
    BY <1>0, <1>4, <2>3, <2>4 DEF Create, TimeOK
<1>5. \A i, k : /\ [Idle(i) EXCEPT !.at = "enter", !.key = k].at = "enter"
                /\ [Idle(i) EXCEPT !.at = "enter", !.key = k].time = 0
  BY DEF Idle
<1>6. \A i, h, s :
         /\ [Idle(i) EXCEPT !.at = "enter"].at = "enter"
         /\ [Idle(i) EXCEPT !.at = "enter"].time = 0
         /\ [Idle(i) EXCEPT !.at = "len", !.size = s].at = "len"
         /\ [Idle(i) EXCEPT !.at = "len", !.size = s].time = 0
         /\ [Idle(i) EXCEPT !.at = "iterate", !.todo = h, !.size = s].at
               = "iterate"
         /\ [Idle(i) EXCEPT !.at = "iterate", !.todo = h, !.size = s].time = 0
  BY DEF Idle
<1>7. CASE Call(t)
  <2>1. ASSUME NEW k \in Keys, CallGetOrCreate(t, k) PROVE TimeOK(t)'
    <3> DEFINE c == [Idle(made + 1) EXCEPT !.at = "enter", !.key = k]
    <3>1. c.at = "enter" /\ c.time = 0
      BY <1>5
    <3>2. Becomes(t, c)
      BY <2>1 DEF CallGetOrCreate
    <3> HIDE DEF c
    <3> QED
      BY <1>1, <3>1, <3>2
  <2>2. ASSUME NEW k \in Keys, Get(t, k) \/ Remove(t, k) PROVE TimeOK(t)'
    BY <1>2, <2>2 DEF Get, Remove
  <2>3. CASE CallForceCleanup(t)
    <3> DEFINE c == [Idle(Nothing) EXCEPT !.at = "enter"]
    <3>1. c.at = "enter" /\ c.time = 0
      BY <1>6
    <3>2. Becomes(t, c)
      BY <2>3 DEF CallForceCleanup
    <3> HIDE DEF c
    <3> QED
      BY <1>1, <3>1, <3>2
  <2>4. CASE Clear(t)
    BY <1>2, <2>4 DEF Clear
  <2>5. CASE CallStats(t)
    <3> DEFINE c == [Idle(Nothing) EXCEPT !.at = "len", !.size = Cardinality(Held)]
    <3>1. c.at = "len" /\ c.time = 0
      BY <1>6
    <3>2. Becomes(t, c)
      BY <2>5 DEF CallStats
    <3> HIDE DEF c
    <3> QED
      BY <1>1, <3>1, <3>2
  <2>6. CASE CallKeys(t)
    <3> DEFINE c == [Idle(Nothing) EXCEPT !.at = "iterate", !.todo = Held,
                              !.size = Cardinality(Held)]
    <3>1. c.at = "iterate" /\ c.time = 0
      BY <1>6
    <3>2. Becomes(t, c)
      BY <2>6 DEF CallKeys
    <3> HIDE DEF c
    <3> QED
      BY <1>1, <3>1, <3>2
  <2> QED
    BY <1>3, <1>7, <2>1, <2>2, <2>3, <2>4, <2>5, <2>6 DEF Call
<1>8. CASE Step(t)
  <2>0. call[t] \in Ready
    BY InHand
  <2>1. \A l \in {"stamp", "create"} :
           /\ [call[t] EXCEPT !.at = l].at = l
           /\ [call[t] EXCEPT !.at = l].time = call[t].time
    BY <2>0 DEF Ready, Calls
  <2>2. \A l \in {"collect", "check"} :
           /\ [call[t] EXCEPT !.at = l, !.time = clock].at = l
           /\ [call[t] EXCEPT !.at = l, !.time = clock].time = clock
    BY <2>0 DEF Ready, Calls
  <2>3. CASE Enter(t)
    BY <1>1, <2>2, <2>3 DEF Enter
  <2>4. CASE Collect(t)
    <3>1. \A h : /\ [call[t] EXCEPT !.at = "sweep", !.todo = h].at = "sweep"
                 /\ [call[t] EXCEPT !.at = "sweep", !.todo = h].time
                       = call[t].time
      BY <2>0 DEF Ready, Calls
    <3> QED
      BY <1>1, <2>4, <3>1 DEF Collect
  <2>5. ASSUME NEW k, Strike(t, k), call[t].at \in {"sweep", "iterate"}
        PROVE  TimeOK(t)'
    <3>1. /\ [call[t] EXCEPT !.todo = @ \ {k}].at = call[t].at
          /\ [call[t] EXCEPT !.todo = @ \ {k}].time = call[t].time
      BY <2>0 DEF Ready, Calls
    <3> QED
      BY <1>1, <2>5, <3>1 DEF Strike
  <2>6. CASE Sweep(t)
    BY <2>5, <2>6 DEF Sweep, At
  <2>7. CASE Leave(t)
    BY <1>1, <1>2, <2>1, <2>7 DEF Leave, AfterCleanup, Goto
  <2>8. CASE Stamp(t)
    BY <1>1, <2>2, <2>8 DEF Stamp
  <2>9. CASE Check(t)
    BY <1>1, <1>2, <2>1, <2>9 DEF Check, Goto
  <2>10. CASE CreateFails(t)
    BY <1>2, <2>10 DEF CreateFails
  <2>11. CASE Store(t)
    BY <1>2, <2>11 DEF Store
  <2>12. CASE PutStore(t)
    BY <1>2, <2>12 DEF PutStore
  <2>13. CASE StatsLen(t)
    BY <1>2, <2>13 DEF StatsLen
  <2>14. CASE Iterate(t)
    BY <1>2, <2>5, <2>14 DEF Iterate, At
  <2> QED
    BY <1>4, <1>8, <2>3, <2>4, <2>6, <2>7, <2>8, <2>9, <2>10, <2>11, <2>12,
       <2>13, <2>14
    DEF Step
<1> QED
  BY <1>7, <1>8

(* A thread moves by an action of its own or not at all.                   *)
LEMMA OwnMoves ==
    ASSUME Equipped, [Next]_vars, NEW u \in Threads
    PROVE  call'[u] = call[u] \/ Call(u) \/ Step(u)
<1>1. ASSUME NEW t \in Threads, Call(t) \/ Step(t), t # u
      PROVE  call'[u] = call[u]
  <2>1. CASE Call(t)
    <3>1. \E c : Becomes(t, c)
      BY <2>1
      DEF Call, CallGetOrCreate, CallPut, Get, Remove, CallForceCleanup, Clear,
          CallStats, CallKeys, Return
    <3> QED
      BY <1>1, <3>1, BecomesOnly
  <2>2. CASE Step(t)
    <3>1. \E c : Becomes(t, c)
      BY <2>2
      DEF Step, Enter, Collect, Sweep, Leave, Stamp, Check, Create, CreateFails,
          Store, PutStore, StatsLen, Iterate, AfterCleanup, Return, Goto, Strike
    <3> QED
      BY <1>1, <3>1, BecomesOnly
  <2> QED
    BY <1>1, <2>1, <2>2
<1> QED
  BY <1>1 DEF Next, Tick, vars

LEMMA TimesKept ==
    ASSUME StateOK, Equipped, TimesOK, [Next]_vars
    PROVE  TimesOK'
<1>0. StateOK' /\ Equipped'
  BY TypesKept
<1>1. \A i \in Items : /\ born[i] \in Nat /\ born'[i] \in Nat
                       /\ born[i] <= born'[i] /\ born'[i] <= clock'
  BY <1>0, Ageing, CacheAssumption DEF StateOK
<1>2. ASSUME NEW t \in Threads PROVE TimeOK(t)'
  <2>1. CASE Call(t) \/ Step(t)
    BY <2>1, MoverTimeOK
  <2>2. CASE call'[t] = call[t]
    <3>1. call[t].time \in Nat /\ clock \in Nat /\ clock' \in Nat
      BY <1>0, InHand, CacheAssumption DEF StateOK
    <3>2. clock <= clock' /\ TimeOK(t)
      BY Ageing DEF TimesOK
    <3>3. call[t].at \in {"store", "put"} => call[t].item \in Items
      BY InHand
    <3> QED
      BY <1>1, <2>2, <3>1, <3>2, <3>3 DEF TimeOK
  <2> QED
    BY <2>1, <2>2, OwnMoves
<1>3. ASSUME NEW k \in Held' PROVE cache'[k].stamp <= born'[cache'[k].item]
  <2>0. k \in Keys /\ cache'[k] # None
    BY <1>3 DEF Held
  <2>1. CASE cache'[k] = cache[k]
    <3>1. k \in Held
      BY <2>0, <2>1 DEF Held
    <3>2. cache[k].item \in Items /\ cache[k].stamp \in Nat
      BY <3>1, EntryInHand, CacheAssumption
    <3>3. cache[k].stamp <= born[cache[k].item]
      BY <3>1 DEF TimesOK
    <3> QED
      BY <1>1, <2>1, <3>2, <3>3
  <2>2. CASE cache'[k] # cache[k]
    <3>1. PICK t \in Threads :
             /\ call[t].at \in {"store", "put"}
             /\ cache'[k] = [item |-> call[t].item, stamp |-> call[t].time]
      BY <2>0, <2>2, Written
    <3>2. call[t].item \in Items /\ call[t].time \in Nat
      BY <3>1, InHand, CacheAssumption
    <3>3. call[t].time <= born[call[t].item]
      BY <3>1 DEF TimesOK, TimeOK
    <3>4. cache'[k].item = call[t].item /\ cache'[k].stamp = call[t].time
      BY <3>1
    <3> QED
      BY <1>1, <3>2, <3>3, <3>4
  <2> QED
    BY <2>1, <2>2
<1> QED
  BY <1>1, <1>2, <1>3 DEF TimesOK

(* No time read lies ahead of the clock, and an entry is stamped with a    *)
(* time read before its item was made (mem_cache.py:113-138, 168).         *)
THEOREM TimesAreHonest == Spec => []TimesOK
<1>1. Init => StateOK /\ Equipped /\ TimesOK
  <2> SUFFICES ASSUME Init PROVE StateOK /\ Equipped /\ TimesOK
    OBVIOUS
  <2>1. Idle(Nothing) \in Ready
    BY IdleIsReady, CacheAssumption DEF Nothing
  <2>2. StateOK /\ Equipped
    BY <2>1, CacheAssumption DEF Init, StateOK, Equipped
  <2>3. TimesOK
    BY DEF Init, TimesOK, TimeOK, Idle, Held
  <2> QED
    BY <2>2, <2>3
<1>2. StateOK /\ Equipped /\ TimesOK /\ [Next]_vars
         => (StateOK /\ Equipped /\ TimesOK)'
  BY TypesKept, TimesKept
<1> QED
  BY <1>1, <1>2, PTL DEF Spec

-----------------------------------------------------------------------------
(* The properties.                                                         *)

LEMMA Pinned ==
    ASSUME StateOK, Equipped, TimesOK, Next, NEW k \in Keys, Live(k),
           cache'[k] # cache[k]
    PROVE  \E t \in Threads : PutStore(t) \/ Remove(t, k) \/ Clear(t)
<1>1. ASSUME NEW j, j # k, Drop(j) PROVE FALSE
  BY <1>1 DEF Drop, StateOK
<1>2. ASSUME NEW j, j # k, NEW i, NEW s, Keep(j, i, s) PROVE FALSE
  BY <1>2 DEF Keep, StateOK
<1>3. ASSUME NEW t \in Threads, Call(t) PROVE Remove(t, k) \/ Clear(t)
  <2>1. ASSUME NEW j \in Keys, Get(t, j) PROVE FALSE
    BY <1>1, <2>1 DEF Get
  <2>2. ASSUME NEW j \in Keys, Remove(t, j) PROVE Remove(t, k)
    BY <1>1, <2>2 DEF Remove
  <2> QED
    BY <1>3, <2>1, <2>2
    DEF Call, CallGetOrCreate, CallPut, CallForceCleanup, CallStats, CallKeys
<1>4. ASSUME NEW t \in Threads, Step(t) PROVE PutStore(t)
  <2>1. CASE Sweep(t)
    <3>1. k \in Held /\ Drop(k) /\ Old(call[t].time, cache[k])
      BY <1>1, <2>1 DEF Sweep
    <3>2. /\ clock \in Nat /\ call[t].time \in Nat /\ cache[k].stamp \in Nat
          /\ call[t].time <= clock /\ TTL \in Nat
      BY <3>1, InHand, EntryInHand, CacheAssumption
      DEF StateOK, TimesOK, TimeOK
    <3> QED
      BY <3>1, <3>2 DEF Live, Old
  <2>2. CASE Check(t)
    BY <1>1, <2>2 DEF Check
  <2>3. CASE Store(t)
    BY <1>2, <2>3 DEF Store
  <2> QED
    BY <1>4, <2>1, <2>2, <2>3
    DEF Step, Enter, Collect, Leave, Stamp, Create, CreateFails, StatsLen, Iterate
<1> QED
  BY <1>3, <1>4 DEF Next, Tick

(* A live entry is only lost to put, remove or clear: a cleanup looks at   *)
(* each key again before it deletes it, and the time it works with is      *)
(* never ahead of the clock (mem_cache.py:62-75).                          *)
THEOREM LiveEntriesStay == Spec => LiveEntriesArePinned
<1> DEFINE A == \A k \in Keys : Live(k) /\ cache'[k] # cache[k] =>
                   \E t \in Threads : PutStore(t) \/ Remove(t, k) \/ Clear(t)
<1>1. StateOK /\ Equipped /\ TimesOK /\ [Next]_vars => [A]_vars
  BY Pinned
<1>2. TypeOK /\ Equipped => StateOK
  BY DEF TypeOK, StateOK
<1> QED
  BY <1>1, <1>2, Typing, TimesAreHonest, PTL DEF LiveEntriesArePinned, Spec

(* What get answers was made no longer than TTL ago (mem_cache.py:41-48,   *)
(* 113, 142-159).                                                          *)
THEOREM ServedIsYoung == Spec => ServedItemsAreYoung
<1> DEFINE A == \A t \in Threads, k \in Keys :
                   Get(t, k) /\ call'[t].item # Nothing =>
                      clock - born[call'[t].item] <= TTL
<1>1. StateOK /\ Equipped /\ TimesOK => [A]_vars
  <2> SUFFICES ASSUME StateOK, Equipped, TimesOK, NEW t \in Threads,
                      NEW k \in Keys, Get(t, k), call'[t].item # Nothing
               PROVE  clock - born[call'[t].item] <= TTL
    OBVIOUS
  <2>1. Live(k)
    <3>1. ~Live(k) => call'[t] = Idle(Nothing)
      BY BecomesOnly DEF Get, Return
    <3> QED
      BY <3>1 DEF Idle
  <2>2. call'[t].item = cache[k].item
    <3>1. call'[t] = Idle(cache[k].item)
      BY <2>1, BecomesOnly DEF Get, Return
    <3> QED
      BY <3>1 DEF Idle
  <2>3. /\ cache[k].item \in Items /\ cache[k].stamp \in Nat /\ clock \in Nat
        /\ cache[k].stamp <= born[cache[k].item] /\ TTL \in Nat
    BY <2>1, EntryInHand, CacheAssumption DEF StateOK, TimesOK, Live
  <2>4. born[cache[k].item] \in Nat
    BY <2>3, CacheAssumption DEF StateOK
  <2> QED
    BY <2>1, <2>2, <2>3, <2>4 DEF Live, Old
<1>2. TypeOK /\ Equipped => StateOK
  BY DEF TypeOK, StateOK
<1> QED
  BY <1>1, <1>2, Typing, TimesAreHonest, PTL DEF ServedItemsAreYoung, Spec
-----------------------------------------------------------------------------
(* The contract.                                                           *)

Calling == [t \in Threads |-> Asked(call[t])]

(* How far a call has come, by its next step.                              *)
LEMMA PromiseIs ==
    ASSUME NEW c \in Calls
    PROVE  /\ c.at = "idle" => Promise(c) = "none"
           /\ c.at \in {"enter", "collect", "sweep"} =>
                 Promise(c) = IF c.key = None THEN "question" ELSE "wanted"
           /\ c.at = "stamp" => Promise(c) = "wanted"
           /\ c.at \in {"check", "create"} => Promise(c) = "timed"
           /\ c.at = "store" => Promise(c) = "created"
           /\ c.at = "put" => Promise(c) = "put"
           /\ c.at \in {"len", "iterate"} => Promise(c) = "question"
  BY DEF Promise

LEMMA ShapeOfCall ==
    ASSUME NEW c \in Calls
    PROVE  Asked(c) = Contract!Asking(Promise(c), c.key,
                         IF Promise(c) \in {"timed", "created", "put"}
                         THEN c.time ELSE 0, c.item)
<1> DEFINE n == IF Promise(c) \in {"timed", "created", "put"}
                THEN c.time ELSE 0
<1>1. Asked(c) = [call |-> Promise(c), key |-> c.key, item |-> c.item,
                  time |-> n]
  BY DEF Asked
<1> HIDE DEF n
<1>2. Asked(c) = Contract!Asking(Promise(c), c.key, n, c.item)
  BY <1>1 DEF Contract!Asking
<1> QED
  BY <1>2 DEF n

(* A call over is an answer in the contract, and a call made is a call of  *)
(* the contract.                                                           *)
LEMMA StartIsAsked ==
    /\ \A r \in 0 .. MaxItems + 1 : Asked(Idle(r)) = Contract!Answered(r)
    /\ \A i \in Items, k \in Keys :
          Asked([Idle(i) EXCEPT !.at = "enter", !.key = k])
             = Contract!Asking("wanted", k, 0, i)
    /\ \A i \in Items, k \in Keys, n \in 0 .. MaxTime :
          Asked([Idle(i) EXCEPT !.at = "put", !.key = k, !.time = n])
             = Contract!Asking("put", k, n, i)
    /\ Asked([Idle(Nothing) EXCEPT !.at = "enter"])
          = Contract!Asking("question", None, 0, Nothing)
    /\ \A s \in Nat :
          Asked([Idle(Nothing) EXCEPT !.at = "len", !.size = s])
             = Contract!Asking("question", None, 0, Nothing)
    /\ \A h \in SUBSET Keys, s \in Nat :
          Asked([Idle(Nothing) EXCEPT !.at = "iterate", !.todo = h, !.size = s])
             = Contract!Asking("question", None, 0, Nothing)
<1> USE DEF Ready
<1>1. ASSUME NEW r \in 0 .. MaxItems + 1
      PROVE  Asked(Idle(r)) = Contract!Answered(r)
  <2>1. Idle(r) \in Calls
    BY IdleIsReady
  <2>2. Idle(r).at = "idle" /\ Idle(r).key = None /\ Idle(r).item = r
    BY DEF Idle
  <2> QED
    BY <2>1, <2>2, PromiseIs, ShapeOfCall DEF Contract!Answered
<1>2. ASSUME NEW i \in Items, NEW k \in Keys
      PROVE  Asked([Idle(i) EXCEPT !.at = "enter", !.key = k])
                = Contract!Asking("wanted", k, 0, i)
  <2> DEFINE c == [Idle(i) EXCEPT !.at = "enter", !.key = k]
  <2>1. c \in Calls
    BY StartIsReady
  <2>2. c.at = "enter" /\ c.key = k /\ c.item = i
    BY DEF Idle
  <2>3. k # None
    BY CacheAssumption
  <2> HIDE DEF c
  <2>4. Asked(c) = Contract!Asking("wanted", k, 0, i)
    BY <2>1, <2>2, <2>3, PromiseIs, ShapeOfCall
  <2> QED
    BY <2>4 DEF c
<1>3. ASSUME NEW i \in Items, NEW k \in Keys, NEW n \in 0 .. MaxTime
      PROVE  Asked([Idle(i) EXCEPT !.at = "put", !.key = k, !.time = n])
                = Contract!Asking("put", k, n, i)
  <2> DEFINE c == [Idle(i) EXCEPT !.at = "put", !.key = k, !.time = n]
  <2>1. c \in Calls
    BY StartIsReady
  <2>2. c.at = "put" /\ c.key = k /\ c.item = i /\ c.time = n
    BY DEF Idle
  <2> HIDE DEF c
  <2>3. Asked(c) = Contract!Asking("put", k, n, i)
    BY <2>1, <2>2, PromiseIs, ShapeOfCall
  <2> QED
    BY <2>3 DEF c
<1>4. ASSUME NEW c \in Calls, c.at \in {"enter", "len", "iterate"},
             c.key = None, c.item = Nothing
      PROVE  Asked(c) = Contract!Asking("question", None, 0, Nothing)
  BY <1>4, PromiseIs, ShapeOfCall
<1>5. Asked([Idle(Nothing) EXCEPT !.at = "enter"])
         = Contract!Asking("question", None, 0, Nothing)
  <2> DEFINE c == [Idle(Nothing) EXCEPT !.at = "enter"]
  <2>1. c \in Calls
    BY StartIsReady
  <2>2. c.at = "enter" /\ c.key = None /\ c.item = Nothing
    BY DEF Idle
  <2> HIDE DEF c
  <2>3. Asked(c) = Contract!Asking("question", None, 0, Nothing)
    BY <1>4, <2>1, <2>2
  <2> QED
    BY <2>3 DEF c
<1>6. ASSUME NEW s \in Nat
      PROVE  Asked([Idle(Nothing) EXCEPT !.at = "len", !.size = s])
                = Contract!Asking("question", None, 0, Nothing)
  <2> DEFINE c == [Idle(Nothing) EXCEPT !.at = "len", !.size = s]
  <2>1. c \in Calls
    BY StartIsReady
  <2>2. c.at = "len" /\ c.key = None /\ c.item = Nothing
    BY DEF Idle
  <2> HIDE DEF c
  <2>3. Asked(c) = Contract!Asking("question", None, 0, Nothing)
    BY <1>4, <2>1, <2>2
  <2> QED
    BY <2>3 DEF c
<1>7. ASSUME NEW h \in SUBSET Keys, NEW s \in Nat
      PROVE  Asked([Idle(Nothing) EXCEPT !.at = "iterate", !.todo = h, !.size = s])
                = Contract!Asking("question", None, 0, Nothing)
  <2> DEFINE c == [Idle(Nothing) EXCEPT !.at = "iterate", !.todo = h, !.size = s]
  <2>1. c \in Calls
    BY StartIsReady
  <2>2. c.at = "iterate" /\ c.key = None /\ c.item = Nothing
    BY DEF Idle
  <2> HIDE DEF c
  <2>3. Asked(c) = Contract!Asking("question", None, 0, Nothing)
    BY <1>4, <2>1, <2>2
  <2> QED
    BY <2>3 DEF c
<1> HIDE DEF Ready
<1> QED
  BY <1>1, <1>2, <1>3, <1>5, <1>6, <1>7

(* The steps inside a call: those the contract sees and those it does not. *)
LEMMA StepIsAsked ==
    ASSUME NEW c \in Ready
    PROVE  /\ \A n \in 0 .. MaxTime : c.at = "enter" =>
                 Asked([c EXCEPT !.at = "collect", !.time = n]) = Asked(c)
           /\ \A h \in SUBSET Keys : c.at = "collect" =>
                 Asked([c EXCEPT !.at = "sweep", !.todo = h]) = Asked(c)
           /\ c.at = "sweep" /\ c.key # None =>
                 Asked([c EXCEPT !.at = "stamp"]) = Asked(c)
           /\ \A n \in 0 .. MaxTime : c.at = "stamp" =>
                 Asked([c EXCEPT !.at = "check", !.time = n])
                    = Contract!Asking("timed", c.key, n, c.item)
           /\ c.at = "check" => Asked([c EXCEPT !.at = "create"]) = Asked(c)
           /\ c.at = "create" =>
                 Asked([c EXCEPT !.at = "store"])
                    = Contract!Asking("created", c.key, c.time, c.item)
           /\ \A h \in SUBSET Keys : Asked([c EXCEPT !.todo = h]) = Asked(c)
<1>0. c \in Calls
  BY DEF Ready
<1>1. ASSUME NEW d \in Calls, d.key = c.key, d.item = c.item,
             Promise(d) = Promise(c),
             d.time = c.time \/ Promise(c) \notin {"timed", "created", "put"}
      PROVE  Asked(d) = Asked(c)
  BY <1>0, <1>1, ShapeOfCall
<1>2. ASSUME NEW n \in 0 .. MaxTime, c.at = "enter"
      PROVE  Asked([c EXCEPT !.at = "collect", !.time = n]) = Asked(c)
  <2> DEFINE d == [c EXCEPT !.at = "collect", !.time = n]
  <2>1. d \in Calls /\ d.at = "collect" /\ d.key = c.key /\ d.item = c.item
    BY <1>0 DEF Calls, Locations
  <2> HIDE DEF d
  <2>2. Asked(d) = Asked(c)
    BY <1>0, <1>1, <1>2, <2>1, PromiseIs
  <2> QED
    BY <2>2 DEF d
<1>3. ASSUME NEW h \in SUBSET Keys, c.at = "collect"
      PROVE  Asked([c EXCEPT !.at = "sweep", !.todo = h]) = Asked(c)
  <2> DEFINE d == [c EXCEPT !.at = "sweep", !.todo = h]
  <2>1. d \in Calls /\ d.at = "sweep" /\ d.key = c.key /\ d.item = c.item
    BY <1>0 DEF Calls, Locations
  <2> HIDE DEF d
  <2>2. Asked(d) = Asked(c)
    BY <1>0, <1>1, <1>3, <2>1, PromiseIs
  <2> QED
    BY <2>2 DEF d
<1>4. ASSUME c.at = "sweep", c.key # None
      PROVE  Asked([c EXCEPT !.at = "stamp"]) = Asked(c)
  <2> DEFINE d == [c EXCEPT !.at = "stamp"]
  <2>1. d \in Calls /\ d.at = "stamp" /\ d.key = c.key /\ d.item = c.item
    BY <1>0 DEF Calls, Locations
  <2> HIDE DEF d
  <2>2. Asked(d) = Asked(c)
    BY <1>0, <1>1, <1>4, <2>1, PromiseIs
  <2> QED
    BY <2>2 DEF d
<1>5. ASSUME NEW n \in 0 .. MaxTime, c.at = "stamp"
      PROVE  Asked([c EXCEPT !.at = "check", !.time = n])
                = Contract!Asking("timed", c.key, n, c.item)
  <2> DEFINE d == [c EXCEPT !.at = "check", !.time = n]
  <2>1. /\ d \in Calls /\ d.at = "check" /\ d.key = c.key /\ d.item = c.item
        /\ d.time = n
    BY <1>0 DEF Calls, Locations
  <2> HIDE DEF d
  <2>2. Asked(d) = Contract!Asking("timed", c.key, n, c.item)
    BY <2>1, PromiseIs, ShapeOfCall
  <2> QED
    BY <2>2 DEF d
<1>6. ASSUME c.at = "check"
      PROVE  Asked([c EXCEPT !.at = "create"]) = Asked(c)
  <2> DEFINE d == [c EXCEPT !.at = "create"]
  <2>1. /\ d \in Calls /\ d.at = "create" /\ d.key = c.key /\ d.item = c.item
        /\ d.time = c.time
    BY <1>0 DEF Calls, Locations
  <2> HIDE DEF d
  <2>2. Asked(d) = Asked(c)
    BY <1>0, <1>1, <1>6, <2>1, PromiseIs
  <2> QED
    BY <2>2 DEF d
<1>7. ASSUME c.at = "create"
      PROVE  Asked([c EXCEPT !.at = "store"])
                = Contract!Asking("created", c.key, c.time, c.item)
  <2> DEFINE d == [c EXCEPT !.at = "store"]
  <2>1. /\ d \in Calls /\ d.at = "store" /\ d.key = c.key /\ d.item = c.item
        /\ d.time = c.time
    BY <1>0 DEF Calls, Locations
  <2> HIDE DEF d
  <2>2. Asked(d) = Contract!Asking("created", c.key, c.time, c.item)
    BY <2>1, PromiseIs, ShapeOfCall
  <2> QED
    BY <2>2 DEF d
<1>8. ASSUME NEW h \in SUBSET Keys
      PROVE  Asked([c EXCEPT !.todo = h]) = Asked(c)
  <2> DEFINE d == [c EXCEPT !.todo = h]
  <2>1. /\ d \in Calls /\ d.at = c.at /\ d.key = c.key /\ d.item = c.item
        /\ d.time = c.time
    BY <1>0 DEF Calls
  <2> HIDE DEF d
  <2>2. Promise(d) = Promise(c)
    BY <2>1 DEF Promise
  <2>3. Asked(d) = Asked(c)
    BY <1>1, <2>1, <2>2
  <2> QED
    BY <2>3 DEF d
<1> QED
  BY <1>2, <1>3, <1>4, <1>5, <1>6, <1>7, <1>8

LEMMA AskedBecomes ==
    ASSUME Equipped, NEW t \in Threads, NEW c, Becomes(t, c)
    PROVE  /\ Contract!Becomes(t, Asked(c))
           /\ Asked(c) = Asked(call[t]) => Calling' = Calling
<1>1. Calling' = [Calling EXCEPT ![t] = Asked(c)]
  BY BecomesOnly DEF Calling
<1>2. Calling[t] = Asked(call[t])
  BY DEF Calling
<1>3. Asked(c) = Asked(call[t]) => Calling' = Calling
  BY <1>1, <1>2 DEF Calling
<1> QED
  BY <1>1, <1>3 DEF Calling, Contract!Becomes

LEMMA AskedAnswers ==
    ASSUME Equipped, NEW t \in Threads, NEW r \in 0 .. MaxItems + 1, Return(t, r)
    PROVE  Contract!Answer(t, r)
<1>1. Contract!Becomes(t, Asked(Idle(r)))
  BY AskedBecomes DEF Return
<1>2. Asked(Idle(r)) = Contract!Answered(r)
  BY StartIsAsked
<1> QED
  BY <1>1, <1>2 DEF Contract!Answer

(* What the contract reads off a call.                                     *)
LEMMA AskedInHand ==
    ASSUME Equipped, NEW t \in Threads
    PROVE  /\ Calling[t].call = Promise(call[t])
           /\ Calling[t].key = call[t].key
           /\ Calling[t].item = call[t].item
           /\ Promise(call[t]) \in {"timed", "created", "put"} =>
                 Calling[t].time = call[t].time
           /\ \A q : Contract!Asks(t, q) <=> Promise(call[t]) = q
  BY DEF Calling, Asked, Contract!Asks

(* What an expired entry, or one that is dropped or kept, is to the map.   *)
LEMMA ContentIs ==
    ASSUME NEW k \in Keys
    PROVE  /\ Content[k] # None <=> Live(k)
           /\ Live(k) => Content[k] = cache[k]
  BY DEF Content, Live, Held

LEMMA LeftIs ==
    ASSUME StateOK, NEW k \in Keys
    PROVE  Content[k] = Contract!Left(clock, cache[k])
  BY DEF Content, Live, Held, Old, Contract!Left

LEMMA ContentStays ==
    ASSUME UNCHANGED <<clock, cache>>
    PROVE  Content' = Content
  BY DEF Content, Live, Held, Old

LEMMA DropSets ==
    ASSUME StateOK, UNCHANGED clock, NEW k, Drop(k)
    PROVE  /\ Contract!Set(k, None)
           /\ k \notin Keys \/ ~Live(k) => Content' = Content
<1>1. ASSUME NEW j \in Keys
      PROVE  Content'[j] = IF j = k THEN None ELSE Content[j]
  BY <1>1 DEF Drop, StateOK, Content, Live, Held, Old
<1>2. k \notin Keys \/ ~Live(k) => Content' = Content
  BY <1>1 DEF Content
<1>3. Contract!Left(clock, None) = None
  BY DEF Contract!Left
<1>4. Content' = [Content EXCEPT ![k] = None]
  BY <1>1 DEF Content
<1> QED
  BY <1>2, <1>3, <1>4 DEF Contract!Set

LEMMA KeepSets ==
    ASSUME StateOK, UNCHANGED clock, NEW k \in Keys, NEW i \in Items,
           NEW s \in 0 .. MaxTime, Keep(k, i, s)
    PROVE  Contract!Set(k, [item |-> i, stamp |-> s])
<1> DEFINE e == [item |-> i, stamp |-> s]
<1>1. e \in Entry /\ e # None
  BY CacheAssumption DEF Entry
<1>2. cache'[k] = e /\ \A j \in Keys \ {k} : cache'[j] = cache[j]
  BY DEF Keep, StateOK
<1> HIDE DEF e
<1>3. Content'[k] = Contract!Left(clock, e)
  BY <1>1, <1>2 DEF Content, Live, Held, Old, Contract!Left
<1>4. \A j \in Keys \ {k} : Content'[j] = Content[j]
  BY <1>2 DEF Content, Live, Held, Old
<1>5. Content' = [Content EXCEPT ![k] = Contract!Left(clock, e)]
  BY <1>3, <1>4 DEF Content
<1> QED
  BY <1>5 DEF Contract!Set, e

(* Time passes for the map as it does for the cache: what has expired once *)
(* stays expired.                                                          *)
LEMMA TickLeaves ==
    ASSUME StateOK, Tick
    PROVE  Contract!Tick
<1>1. ASSUME NEW k \in Keys
      PROVE  Content'[k] = Contract!Left(clock + 1, Content[k])
  <2>1. CASE cache[k] = None
    BY <2>1 DEF Tick, Content, Live, Held, Contract!Left
  <2>2. CASE cache[k] # None
    <3>1. cache[k] \in Entry
      BY <2>2 DEF StateOK
    <3>2. cache[k].stamp \in Nat /\ clock \in Nat /\ TTL \in Nat
      BY <3>1, CacheAssumption DEF Entry, StateOK
    <3>3. clock - cache[k].stamp > TTL => clock + 1 - cache[k].stamp > TTL
      BY <3>2
    <3>4. Content'[k] = Contract!Left(clock + 1, cache[k])
      BY <2>2 DEF Tick, Content, Live, Held, Old, Contract!Left
    <3>5. Content[k] = Contract!Left(clock, cache[k])
      BY LeftIs
    <3>6. CASE clock - cache[k].stamp > TTL
      <4>1. Content[k] = None
        BY <3>5, <3>6 DEF Contract!Left
      <4>2. Content'[k] = None
        <5>1. clock + 1 - cache[k].stamp > TTL
          BY <3>3, <3>6
        <5> QED
          BY <3>2, <3>4, <5>1 DEF Contract!Left
      <4>3. Contract!Left(clock + 1, None) = None
        BY DEF Contract!Left
      <4> QED
        BY <4>1, <4>2, <4>3
    <3>7. CASE ~(clock - cache[k].stamp > TTL)
      BY <2>2, <3>4, <3>5, <3>7 DEF Contract!Left
    <3> QED
      BY <3>6, <3>7
  <2> QED
    BY <2>1, <2>2
<1>2. Content' = [k \in Keys |-> Contract!Left(clock + 1, Content[k])]
  BY <1>1 DEF Content
<1>3. Calling' = Calling
  BY DEF Tick, Calling
<1> QED
  BY <1>2, <1>3 DEF Tick, Contract!Tick, Calling

(* What get_or_create finds, and what get answers.                         *)
LEMMA LiveIsContent ==
    ASSUME StateOK, NEW k \in Keys
    PROVE  /\ Live(k) => /\ Content[k] # None
                         /\ Content[k].item = cache[k].item
                         /\ cache[k].item \in 0 .. MaxItems + 1
           /\ ~Live(k) => Content[k] = None
<1>1. Live(k) => cache[k].item \in 0 .. MaxItems + 1
  BY EntryInHand DEF Live
<1> QED
  BY <1>1, ContentIs

(* The calls.                                                              *)
LEMMA CallIsPromised ==
    ASSUME StateOK, Equipped, NEW t \in Threads, Call(t)
    PROVE  Contract!Next
<1> USE DEF Calling
<1>0. /\ call[t] \in Calls
      /\ call[t].at = "idle" => Contract!Asks(t, "none")
      /\ Nothing \in 0 .. MaxItems + 1
      /\ Nothing = Contract!Nothing
  <2>1. call[t] \in Calls
    BY InHand DEF Ready
  <2> QED
    BY <2>1, PromiseIs, AskedInHand, CacheAssumption
    DEF Nothing, Contract!Nothing
<1>1. ASSUME NEW k \in Keys, CallGetOrCreate(t, k) PROVE Contract!Want(t, k)
  <2>1. made + 1 \in Items
    BY <1>1, CacheAssumption DEF CallGetOrCreate, StateOK, Items
  <2>2. Contract!Becomes(t, Contract!Asking("wanted", k, 0, made + 1))
    <3> DEFINE c == [Idle(made + 1) EXCEPT !.at = "enter", !.key = k]
    <3>1. Contract!Becomes(t, Asked(c))
      BY <1>1, AskedBecomes DEF CallGetOrCreate
    <3>2. Asked(c) = Contract!Asking("wanted", k, 0, made + 1)
      BY <2>1, StartIsAsked
    <3> QED
      BY <3>1, <3>2
  <2>3. Content' = Content
    BY <1>1, ContentStays DEF CallGetOrCreate
  <2> QED
    BY <1>0, <1>1, <2>2, <2>3 DEF CallGetOrCreate, Contract!Want, At
<1>2. ASSUME NEW k \in Keys, CallPut(t, k) PROVE Contract!StartPut(t, k)
  <2>1. made + 1 \in Items /\ clock \in 0 .. MaxTime
    BY <1>2, CacheAssumption DEF CallPut, StateOK, Items
  <2>2. Contract!Becomes(t, Contract!Asking("put", k, clock, made + 1))
    <3> DEFINE c == [Idle(made + 1) EXCEPT !.at = "put", !.key = k,
                                           !.time = clock]
    <3>1. Contract!Becomes(t, Asked(c))
      BY <1>2, AskedBecomes DEF CallPut
    <3>2. Asked(c) = Contract!Asking("put", k, clock, made + 1)
      BY <2>1, StartIsAsked
    <3> QED
      BY <3>1, <3>2
  <2>3. Content' = Content
    BY <1>2, ContentStays DEF CallPut
  <2> QED
    BY <1>0, <1>2, <2>2, <2>3 DEF CallPut, Contract!StartPut, At
<1>3. ASSUME NEW k \in Keys, Get(t, k) PROVE Contract!Get(t, k)
  <2>1. CASE Live(k)
    <3>1. Contract!Answer(t, cache[k].item)
      BY <1>3, <2>1, LiveIsContent, AskedAnswers DEF Get
    <3>2. Content' = Content
      BY <1>3, <2>1, ContentStays DEF Get
    <3> QED
      BY <1>0, <1>3, <2>1, <3>1, <3>2, LiveIsContent DEF Get, Contract!Get, At
  <2>2. CASE ~Live(k)
    <3>1. Contract!Answer(t, Contract!Nothing)
      BY <1>0, <1>3, <2>2, AskedAnswers DEF Get
    <3>2. Content' = Content
      BY <1>3, <2>2, DropSets DEF Get
    <3> QED
      BY <1>0, <1>3, <2>2, <3>1, <3>2, LiveIsContent DEF Get, Contract!Get, At
  <2> QED
    BY <2>1, <2>2
<1>4. ASSUME NEW k \in Keys, Remove(t, k) PROVE Contract!Remove(t, k)
  <2>1. Contract!Answer(t, Contract!Nothing)
    BY <1>0, <1>4, AskedAnswers DEF Remove
  <2>2. Contract!Set(k, None)
    BY <1>4, DropSets DEF Remove
  <2> QED
    BY <1>0, <1>4, <2>1, <2>2 DEF Remove, Contract!Remove, At
<1>5. ASSUME CallForceCleanup(t) \/ CallStats(t) \/ CallKeys(t)
      PROVE  Contract!Ask(t)
  <2>1. Contract!Becomes(t, Contract!Asking("question", None, 0, Nothing))
    <3>1. CASE CallForceCleanup(t)
      BY <3>1, AskedBecomes, StartIsAsked DEF CallForceCleanup
    <3>2. CASE CallStats(t)
      <4> DEFINE c == [Idle(Nothing) EXCEPT !.at = "len",
                                            !.size = Cardinality(Held)]
      <4>1. Contract!Becomes(t, Asked(c))
        BY <3>2, AskedBecomes DEF CallStats
      <4>2. Asked(c) = Contract!Asking("question", None, 0, Nothing)
        BY HeldIsCounted, StartIsAsked
      <4> QED
        BY <4>1, <4>2
    <3>3. CASE CallKeys(t)
      <4> DEFINE c == [Idle(Nothing) EXCEPT !.at = "iterate", !.todo = Held,
                                            !.size = Cardinality(Held)]
      <4>1. Contract!Becomes(t, Asked(c))
        BY <3>3, AskedBecomes DEF CallKeys
      <4>2. Asked(c) = Contract!Asking("question", None, 0, Nothing)
        BY HeldIsCounted, StartIsAsked
      <4> QED
        BY <4>1, <4>2
    <3> QED
      BY <1>5, <3>1, <3>2, <3>3
  <2>2. Content' = Content
    BY <1>5, ContentStays DEF CallForceCleanup, CallStats, CallKeys
  <2> QED
    BY <1>0, <1>5, <2>1, <2>2
    DEF CallForceCleanup, CallStats, CallKeys, Contract!Ask, At
<1>6. ASSUME Clear(t) PROVE Contract!Clear(t)
  <2>1. Contract!Answer(t, Contract!Nothing)
    BY <1>0, <1>6, AskedAnswers DEF Clear
  <2>2. Content' = [k \in Keys |-> None]
    BY <1>6 DEF Clear, Content, Live, Held
  <2> QED
    BY <1>0, <1>6, <2>1, <2>2 DEF Clear, Contract!Clear, At
<1> HIDE DEF Calling
<1> QED
  BY <1>1, <1>2, <1>3, <1>4, <1>5, <1>6 DEF Call, Contract!Next

(* The steps inside the calls: each is what the contract allows, or shows  *)
(* nothing.                                                                *)
LEMMA StepIsPromised ==
    ASSUME StateOK, Equipped, TimesOK, NEW t \in Threads, Step(t)
    PROVE  Contract!Next \/ UNCHANGED Contract!cvars
<1> USE DEF Calling
<1>0. /\ call[t] \in Ready /\ call[t] \in Calls
      /\ clock \in 0 .. MaxTime
      /\ Nothing \in 0 .. MaxItems + 1 /\ Raised \in 0 .. MaxItems + 1
      /\ Nothing = Contract!Nothing /\ Raised = Contract!Raised
  BY InHand, CacheAssumption
  DEF Ready, StateOK, Nothing, Raised, Contract!Nothing, Contract!Raised
<1>1. ASSUME NEW c, Becomes(t, c), Asked(c) = Asked(call[t]), Content' = Content,
             UNCHANGED <<clock, made, born>>
      PROVE  UNCHANGED Contract!cvars
  BY <1>1, AskedBecomes DEF Contract!cvars
<1>2. ASSUME Contract!Asks(t, "question"),
             Return(t, Nothing) \/ Return(t, Raised),
             UNCHANGED <<clock, cache, made, born>>
      PROVE  Contract!Reply(t)
  <2>1. Content' = Content
    BY <1>2, ContentStays
  <2> QED
    BY <1>0, <1>2, <2>1, AskedAnswers DEF Contract!Reply
<1>3. CASE Enter(t)
  <2>1. Asked([call[t] EXCEPT !.at = "collect", !.time = clock]) = Asked(call[t])
    BY <1>0, <1>3, StepIsAsked DEF Enter, At
  <2> QED
    BY <1>1, <1>3, <2>1, ContentStays DEF Enter
<1>4. CASE Collect(t)
  <2> DEFINE old == {k \in Held : Old(call[t].time, cache[k])}
  <2>1. old \in SUBSET Keys
    BY HeldIsCounted
  <2>2. Asked([call[t] EXCEPT !.at = "sweep", !.todo = old]) = Asked(call[t])
    BY <1>0, <1>4, <2>1, StepIsAsked DEF Collect, At
  <2> QED
    BY <1>1, <1>4, <2>2, ContentStays DEF Collect
<1>5. CASE Sweep(t)
  <2>1. PICK k \in call[t].todo :
           /\ Strike(t, k)
           /\ IF k \in Held /\ Old(call[t].time, cache[k])
              THEN Drop(k) ELSE UNCHANGED cache
    BY <1>5 DEF Sweep
  <2>2. Asked([call[t] EXCEPT !.todo = @ \ {k}]) = Asked(call[t])
    <3>1. call[t].todo \ {k} \in SUBSET Keys
      BY InHand
    <3> QED
      BY <1>0, <3>1, StepIsAsked
  <2>3. Content' = Content
    <3>1. CASE k \in Held /\ Old(call[t].time, cache[k])
      <4>1. /\ clock \in Nat /\ call[t].time \in Nat /\ cache[k].stamp \in Nat
            /\ call[t].time <= clock /\ TTL \in Nat
        BY <3>1, InHand, EntryInHand, CacheAssumption
        DEF StateOK, TimesOK, TimeOK
      <4>2. ~Live(k)
        BY <3>1, <4>1 DEF Live, Old
      <4> QED
        BY <1>5, <2>1, <3>1, <4>2, DropSets DEF Sweep
    <3>2. CASE ~(k \in Held /\ Old(call[t].time, cache[k]))
      BY <1>5, <2>1, <3>2, ContentStays DEF Sweep
    <3> QED
      BY <3>1, <3>2
  <2> QED
    BY <1>1, <1>5, <2>1, <2>2, <2>3 DEF Sweep, Strike
<1>6. CASE Leave(t)
  <2>1. CASE call[t].key = None
    <3>1. Contract!Asks(t, "question")
      BY <1>0, <1>6, <2>1, PromiseIs, AskedInHand DEF Leave, At
    <3>2. Contract!Reply(t)
      BY <1>2, <1>6, <2>1, <3>1 DEF Leave, AfterCleanup
    <3> QED
      BY <3>2 DEF Contract!Next
  <2>2. CASE call[t].key # None
    <3>1. Asked([call[t] EXCEPT !.at = "stamp"]) = Asked(call[t])
      BY <1>0, <1>6, <2>2, StepIsAsked DEF Leave, At
    <3> QED
      BY <1>1, <1>6, <2>2, <3>1, ContentStays DEF Leave, AfterCleanup, Goto
  <2> QED
    BY <2>1, <2>2
<1>7. CASE Stamp(t)
  <2>1. Asked([call[t] EXCEPT !.at = "check", !.time = clock])
           = Contract!Asking("timed", call[t].key, clock, call[t].item)
    BY <1>0, <1>7, StepIsAsked DEF Stamp, At
  <2>2. Contract!Becomes(t, Contract!Asking("timed", Calling[t].key, clock,
                                            Calling[t].item))
    BY <1>7, <2>1, AskedBecomes, AskedInHand DEF Stamp
  <2>3. Contract!Asks(t, "wanted")
    BY <1>0, <1>7, PromiseIs, AskedInHand DEF Stamp, At
  <2>4. Contract!ReadTime(t)
    BY <1>7, <2>2, <2>3, ContentStays DEF Stamp, Contract!ReadTime
  <2> QED
    BY <2>4 DEF Contract!Next
<1>8. ASSUME call[t].at = "check" \/ call[t].at = "store",
             Live(call[t].key), Return(t, cache[call[t].key].item),
             UNCHANGED <<clock, cache, made, born>>
      PROVE  Contract!Find(t)
  <2>1. call[t].key \in Keys
    BY <1>8, InHand
  <2>2. Contract!Answer(t, cache[call[t].key].item)
    BY <1>8, <2>1, LiveIsContent, AskedAnswers
  <2>3. Contract!Asks(t, "timed") \/ Contract!Asks(t, "created")
    BY <1>0, <1>8, PromiseIs, AskedInHand
  <2> QED
    BY <1>8, <2>1, <2>2, <2>3, LiveIsContent, AskedInHand, ContentStays
    DEF Contract!Find
<1>9. CASE Check(t)
  <2>1. CASE Live(call[t].key)
    <3>1. Contract!Find(t)
      BY <1>8, <1>9, <2>1 DEF Check, At
    <3> QED
      BY <3>1 DEF Contract!Next
  <2>2. CASE ~Live(call[t].key)
    <3>1. Asked([call[t] EXCEPT !.at = "create"]) = Asked(call[t])
      BY <1>0, <1>9, StepIsAsked DEF Check, At
    <3>2. Content' = Content
      BY <1>9, <2>2, DropSets DEF Check
    <3> QED
      BY <1>1, <1>9, <2>2, <3>1, <3>2 DEF Check, Goto
  <2> QED
    BY <2>1, <2>2
<1>10. CASE Create(t)
  <2>1. Asked([call[t] EXCEPT !.at = "store"])
           = Contract!Asking("created", call[t].key, call[t].time, call[t].item)
    BY <1>0, <1>10, StepIsAsked DEF Create, At
  <2>2. Promise(call[t]) = "timed"
    BY <1>0, <1>10, PromiseIs DEF Create, At
  <2>3. Contract!Becomes(t, Contract!Asking("created", Calling[t].key,
                                            Calling[t].time, Calling[t].item))
    BY <1>10, <2>1, <2>2, AskedBecomes, AskedInHand DEF Create, Goto
  <2>4. Contract!Create(t)
    BY <1>10, <2>2, <2>3, AskedInHand, ContentStays DEF Create, Contract!Create
  <2> QED
    BY <2>4 DEF Contract!Next
<1>11. CASE CreateFails(t)
  <2>1. Contract!Answer(t, Contract!Raised)
    BY <1>0, <1>11, AskedAnswers DEF CreateFails
  <2>2. Contract!Asks(t, "timed")
    BY <1>0, <1>11, PromiseIs, AskedInHand DEF CreateFails, At
  <2>3. Contract!Fail(t)
    BY <1>11, <2>1, <2>2, ContentStays DEF CreateFails, Contract!Fail
  <2> QED
    BY <2>3 DEF Contract!Next
<1>12. CASE Store(t)
  <2>1. CASE Live(call[t].key)
    <3>1. Contract!Find(t)
      BY <1>8, <1>12, <2>1 DEF Store, At
    <3> QED
      BY <3>1 DEF Contract!Next
  <2>2. CASE ~Live(call[t].key)
    <3>1. /\ call[t].key \in Keys /\ call[t].item \in Items
          /\ call[t].item \in 0 .. MaxItems + 1 /\ call[t].time \in 0 .. MaxTime
      BY <1>12, InHand DEF Store, At
    <3>2. Promise(call[t]) = "created"
      BY <1>0, <1>12, PromiseIs DEF Store, At
    <3>3. Contract!Answer(t, call[t].item)
      BY <1>12, <2>2, <3>1, AskedAnswers DEF Store
    <3>4. Contract!Set(call[t].key, [item |-> call[t].item,
                                     stamp |-> call[t].time])
      BY <1>12, <2>2, <3>1, KeepSets DEF Store
    <3>5. Content[call[t].key] = None
      BY <2>2, <3>1, LiveIsContent
    <3>6. Contract!Offer(t)
      BY <1>12, <3>2, <3>3, <3>4, <3>5, AskedInHand DEF Store, Contract!Offer
    <3> QED
      BY <3>6 DEF Contract!Next
  <2> QED
    BY <2>1, <2>2
<1>13. CASE PutStore(t)
  <2>1. /\ call[t].key \in Keys /\ call[t].item \in Items
        /\ call[t].time \in 0 .. MaxTime
    BY <1>13, InHand DEF PutStore, At
  <2>2. Promise(call[t]) = "put"
    BY <1>0, <1>13, PromiseIs DEF PutStore, At
  <2>3. Contract!Answer(t, Contract!Nothing)
    BY <1>0, <1>13, AskedAnswers DEF PutStore
  <2>4. Contract!Set(call[t].key, [item |-> call[t].item,
                                   stamp |-> call[t].time])
    BY <1>13, <2>1, KeepSets DEF PutStore
  <2>5. Contract!Put(t)
    BY <1>13, <2>2, <2>3, <2>4, AskedInHand DEF PutStore, Contract!Put
  <2> QED
    BY <2>5 DEF Contract!Next
<1>14. CASE StatsLen(t)
  <2>1. Contract!Asks(t, "question")
    BY <1>0, <1>14, PromiseIs, AskedInHand DEF StatsLen, At
  <2>2. Contract!Reply(t)
    BY <1>2, <1>14, <2>1 DEF StatsLen
  <2> QED
    BY <2>2 DEF Contract!Next
<1>15. CASE Iterate(t)
  <2>1. Contract!Asks(t, "question")
    BY <1>0, <1>15, PromiseIs, AskedInHand DEF Iterate, At
  <2>2. CASE Return(t, Nothing) \/ Return(t, Raised)
    <3>1. Contract!Reply(t)
      BY <1>2, <1>15, <2>1, <2>2 DEF Iterate
    <3> QED
      BY <3>1 DEF Contract!Next
  <2>3. ASSUME NEW k, Strike(t, k) PROVE UNCHANGED Contract!cvars
    <3>1. call[t].todo \ {k} \in SUBSET Keys
      BY InHand
    <3>2. Asked([call[t] EXCEPT !.todo = @ \ {k}]) = Asked(call[t])
      BY <1>0, <3>1, StepIsAsked
    <3> QED
      BY <1>1, <1>15, <2>3, <3>2, ContentStays DEF Iterate, Strike
  <2> QED
    BY <1>15, <2>2, <2>3 DEF Iterate
<1> HIDE DEF Calling
<1> QED
  BY <1>3, <1>4, <1>5, <1>6, <1>7, <1>9, <1>10, <1>11, <1>12, <1>13, <1>14,
     <1>15
  DEF Step

(* MemCache implements CacheContract: to its callers it is a map that      *)
(* forgets what is older than ttl_seconds, on which every call acts at     *)
(* once, however the regions under the locks, the cleanups and the         *)
(* creations of the threads interleave (mem_cache.py:50-140).              *)
THEOREM ContractKept == Spec => KeepsContract
<1>1. Init => Contract!Init
  <2> SUFFICES ASSUME Init PROVE Contract!Init
    OBVIOUS
  <2>1. Content = [k \in Keys |-> None]
    BY DEF Init, Content, Live, Held
  <2>2. Asked(Idle(Nothing)) = Contract!Answered(Contract!Nothing)
    <3>1. Nothing \in 0 .. MaxItems + 1 /\ Nothing = Contract!Nothing
      BY CacheAssumption DEF Nothing, Contract!Nothing
    <3> QED
      BY <3>1, StartIsAsked
  <2>3. Calling = [t \in Threads |-> Contract!Answered(Contract!Nothing)]
    BY <2>2 DEF Init, Calling
  <2> QED
    BY <2>1, <2>3 DEF Init, Contract!Init, Calling, Items
<1>2. StateOK /\ Equipped /\ TimesOK /\ [Next]_vars
         => [Contract!Next]_(Contract!cvars)
  <2> SUFFICES ASSUME StateOK, Equipped, TimesOK, [Next]_vars
               PROVE  Contract!Next \/ UNCHANGED Contract!cvars
    OBVIOUS
  <2>1. CASE Tick
    BY <2>1, TickLeaves DEF Contract!Next
  <2>2. ASSUME NEW t \in Threads, Call(t) \/ Step(t)
        PROVE  Contract!Next \/ UNCHANGED Contract!cvars
    BY <2>2, CallIsPromised, StepIsPromised
  <2>3. CASE UNCHANGED vars
    <3>1. Content' = Content
      BY <2>3, ContentStays DEF vars
    <3> QED
      BY <2>3, <3>1 DEF vars, Contract!cvars
  <2> QED
    BY <2>1, <2>2, <2>3 DEF Next
<1>3. TypeOK /\ Equipped => StateOK
  BY DEF TypeOK, StateOK
<1> QED
  BY <1>1, <1>2, <1>3, Typing, TimesAreHonest, PTL
  DEF Spec, KeepsContract, Contract!Spec
===============================================================================
