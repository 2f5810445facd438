------------------------------- MODULE MemCache -------------------------------
(***************************************************************************)
(* internal/cache/mem_cache.py: a dictionary of items with a time to live, *)
(* used by several threads.  A region under _cache_lock is one action; the *)
(* calls made of several regions (get_or_create, put, force_cleanup,       *)
(* get_stats) and the methods that take no lock are one action per step.   *)
(*                                                                         *)
(* call[t].at, the next step of the call that thread t is in:              *)
(*    enter collect sweep      _cleanup_expired_entries                    *)
(*    stamp check create store the rest of get_or_create                   *)
(*    put                      put, with the time already read             *)
(*    len                      get_stats, out of the lock                  *)
(*    iterate                  get_non_expired_keys, which takes no lock   *)
(* An item is a number, taken by the call that will create or put it.      *)
(***************************************************************************)
EXTENDS Naturals, FiniteSets

CONSTANTS
    Threads, Keys,
    None,           \* no entry, no key, no thread
    TTL,            \* ttl_seconds
    MaxTime,        \* bound on the clock
    MaxItems        \* bound on the items ever created or put

Items == 1 .. MaxItems
Entry == [item : Items, stamp : 0 .. MaxTime]

ASSUME CacheAssumption ==
    /\ None \notin Threads \cup Keys \cup Entry
    /\ IsFiniteSet(Keys)
    /\ TTL \in Nat /\ MaxTime \in Nat /\ MaxItems \in Nat

VARIABLES
    clock,      \* time.time()
    cache,      \* _cache: an entry [item, stamp] or None for each key
    cleaner,    \* holder of _cleanup_lock
    call,       \* what each thread is doing, with its local variables
    made,       \* items taken so far
    born        \* history: when each item was created or put

vars == <<clock, cache, cleaner, call, made, born>>

Held == {k \in Keys : cache[k] # None}
Old(now, e) == now - e.stamp > TTL
Live(k) == k \in Held /\ ~Old(clock, cache[k])
Drop(k) == cache' = [cache EXCEPT ![k] = None]
Keep(k, i, s) == cache' = [cache EXCEPT ![k] = [item |-> i, stamp |-> s]]

\* What a call answers when it is not an item.
Nothing == 0
Raised == MaxItems + 1

Locations == {"idle", "enter", "collect", "sweep", "stamp", "check", "create",
              "store", "put", "len", "iterate"}

\* key: cache_key.  time: current_time.  item: the call's own item, and what
\* the thread's last call answered once it is over.  todo: expired_keys, or
\* the keys still to be iterated over.  size: entries seen in the dictionary.
Calls == [at : Locations, key : Keys \cup {None}, time : 0 .. MaxTime,
          item : 0 .. MaxItems + 1, todo : SUBSET Keys, size : Nat]

Idle(r) == [at |-> "idle", key |-> None, time |-> 0, item |-> r, todo |-> {},
            size |-> 0]

At(t, l) == call[t].at = l
Becomes(t, c) == call' = [call EXCEPT ![t] = c]
Goto(t, l) == Becomes(t, [call[t] EXCEPT !.at = l])
Return(t, r) == Becomes(t, Idle(r))
Strike(t, k) == Becomes(t, [call[t] EXCEPT !.todo = @ \ {k}])

Init ==
    /\ clock = 0
    /\ cache = [k \in Keys |-> None]
    /\ cleaner = None
    /\ call = [t \in Threads |-> Idle(Nothing)]
    /\ made = 0
    /\ born = [i \in Items |-> 0]

Tick ==
    /\ clock < MaxTime
    /\ clock' = clock + 1
    /\ UNCHANGED <<cache, cleaner, call, made, born>>

-----------------------------------------------------------------------------
(* The calls.                                                              *)

CallGetOrCreate(t, k) ==
    /\ At(t, "idle")
    /\ made < MaxItems
    /\ made' = made + 1
    /\ Becomes(t, [Idle(made + 1) EXCEPT !.at = "enter", !.key = k])
    /\ UNCHANGED <<clock, cache, cleaner, born>>

\* The first half of get_or_create on its own.
CallForceCleanup(t) ==
    /\ At(t, "idle")
    /\ Becomes(t, [Idle(Nothing) EXCEPT !.at = "enter"])
    /\ UNCHANGED <<clock, cache, cleaner, made, born>>

\* put reads the time before it takes the lock.
CallPut(t, k) ==
    /\ At(t, "idle")
    /\ made < MaxItems
    /\ made' = made + 1
    /\ born' = [born EXCEPT ![made + 1] = clock]
    /\ Becomes(t, [Idle(made + 1) EXCEPT !.at = "put", !.key = k,
                                         !.time = clock])
    /\ UNCHANGED <<clock, cache, cleaner>>

Get(t, k) ==
    /\ At(t, "idle")
    /\ IF Live(k)
       THEN Return(t, cache[k].item) /\ UNCHANGED cache
       ELSE Return(t, Nothing) /\ Drop(k)
    /\ UNCHANGED <<clock, cleaner, made, born>>

Remove(t, k) ==
    /\ At(t, "idle")
    /\ Drop(k)
    /\ Return(t, Nothing)
    /\ UNCHANGED <<clock, cleaner, made, born>>

Clear(t) ==
    /\ At(t, "idle")
    /\ cache' = [k \in Keys |-> None]
    /\ Return(t, Nothing)
    /\ UNCHANGED <<clock, cleaner, made, born>>

\* get_stats walks the dictionary under the lock and counts every entry as
\* expired or not expired.
CallStats(t) ==
    /\ At(t, "idle")
    /\ Becomes(t, [Idle(Nothing) EXCEPT !.at = "len",
                                        !.size = Cardinality(Held)])
    /\ UNCHANGED <<clock, cache, cleaner, made, born>>

\* get_non_expired_keys iterates over the dictionary without the lock.
CallKeys(t) ==
    /\ At(t, "idle")
    /\ Becomes(t, [Idle(Nothing) EXCEPT !.at = "iterate", !.todo = Held,
                                        !.size = Cardinality(Held)])
    /\ UNCHANGED <<clock, cache, cleaner, made, born>>

-----------------------------------------------------------------------------
(* _cleanup_expired_entries.                                               *)

Enter(t) ==
    /\ At(t, "enter")
    /\ cleaner = None
    /\ cleaner' = t
    /\ Becomes(t, [call[t] EXCEPT !.at = "collect", !.time = clock])
    /\ UNCHANGED <<clock, cache, made, born>>

Collect(t) ==
    LET old == {k \in Held : Old(call[t].time, cache[k])}
    IN  /\ At(t, "collect")
        /\ Becomes(t, [call[t] EXCEPT !.at = "sweep", !.todo = old])
        /\ UNCHANGED <<clock, cache, cleaner, made, born>>

\* A bug to be caught: an expired key is deleted without the second look.
MutSweep(t) ==
    /\ At(t, "sweep")
    /\ \E k \in call[t].todo :
          /\ Strike(t, k)
          /\ Drop(k)
    /\ UNCHANGED <<clock, cleaner, made, born>>

\* One of the collected keys, if it is still there and still expired.
Sweep(t) ==
    /\ At(t, "sweep")
    /\ \E k \in call[t].todo :
          /\ Strike(t, k)
          /\ IF k \in Held /\ Old(call[t].time, cache[k])
             THEN Drop(k) ELSE UNCHANGED cache
    /\ UNCHANGED <<clock, cleaner, made, born>>

\* force_cleanup is over here, get_or_create goes on.
AfterCleanup(t) ==
    IF call[t].key = None THEN Return(t, Nothing) ELSE Goto(t, "stamp")

Leave(t) ==
    /\ At(t, "sweep")
    /\ call[t].todo = {}
    /\ cleaner' = None
    /\ AfterCleanup(t)
    /\ UNCHANGED <<clock, cache, made, born>>

-----------------------------------------------------------------------------
(* get_or_create, once the cleanup is done.                                *)

Stamp(t) ==
    /\ At(t, "stamp")
    /\ Becomes(t, [call[t] EXCEPT !.at = "check", !.time = clock])
    /\ UNCHANGED <<clock, cache, cleaner, made, born>>

\* A bug to be caught: the first look does not ask whether the entry it
\* finds has expired.
MutCheck(t) ==
    LET k == call[t].key
    IN  /\ At(t, "check")
        /\ IF k \in Held
           THEN Return(t, cache[k].item) /\ UNCHANGED cache
           ELSE Goto(t, "create") /\ Drop(k)
        /\ UNCHANGED <<clock, cleaner, made, born>>

Check(t) ==
    LET k == call[t].key
    IN  /\ At(t, "check")
        /\ IF Live(k)
           THEN Return(t, cache[k].item) /\ UNCHANGED cache
           ELSE Goto(t, "create") /\ Drop(k)
        /\ UNCHANGED <<clock, cleaner, made, born>>

\* _create_item, out of the lock.
Create(t) ==
    /\ At(t, "create")
    /\ born' = [born EXCEPT ![call[t].item] = clock]
    /\ Goto(t, "store")
    /\ UNCHANGED <<clock, cache, cleaner, made>>

\* A bug to be caught: a failed creation is cached like an item.
MutCreateFails(t) ==
    /\ At(t, "create")
    /\ Becomes(t, [call[t] EXCEPT !.at = "store", !.item = Raised])
    /\ UNCHANGED <<clock, cache, cleaner, made, born>>

\* What _create_item raises goes to the caller.
CreateFails(t) ==
    /\ At(t, "create")
    /\ Return(t, Raised)
    /\ UNCHANGED <<clock, cache, cleaner, made, born>>

\* A bug to be caught: the entry is stamped when it is stored.
MutStoreLate(t) ==
    LET k == call[t].key
    IN  /\ At(t, "store")
        /\ IF Live(k)
           THEN Return(t, cache[k].item) /\ UNCHANGED cache
           ELSE Return(t, call[t].item) /\ Keep(k, call[t].item, clock)
        /\ UNCHANGED <<clock, cleaner, made, born>>

\* The item another thread has cached meanwhile, or the new one.
Store(t) ==
    LET k == call[t].key
    IN  /\ At(t, "store")
        /\ IF Live(k)
           THEN Return(t, cache[k].item) /\ UNCHANGED cache
           ELSE Return(t, call[t].item) /\ Keep(k, call[t].item, call[t].time)
        /\ UNCHANGED <<clock, cleaner, made, born>>

-----------------------------------------------------------------------------
(* The last steps of put, get_stats and get_non_expired_keys.              *)

PutStore(t) ==
    /\ At(t, "put")
    /\ Keep(call[t].key, call[t].item, call[t].time)
    /\ Return(t, Nothing)
    /\ UNCHANGED <<clock, cleaner, made, born>>

\* total_entries is read after the lock is released.
StatsLen(t) ==
    /\ At(t, "len")
    /\ Return(t, Nothing)
    /\ UNCHANGED <<clock, cache, cleaner, made, born>>

\* The dictionary iterator raises RuntimeError if the size has changed.
Iterate(t) ==
    /\ At(t, "iterate")
    /\ IF call[t].todo = {} THEN Return(t, Nothing)
       ELSE IF Cardinality(Held) # call[t].size THEN Return(t, Raised)
       ELSE \E k \in call[t].todo : Strike(t, k)
    /\ UNCHANGED <<clock, cache, cleaner, made, born>>

-----------------------------------------------------------------------------

Call(t) ==
    \/ \E k \in Keys :
          CallGetOrCreate(t, k) \/ CallPut(t, k) \/ Get(t, k) \/ Remove(t, k)
    \/ CallForceCleanup(t) \/ Clear(t) \/ CallStats(t) \/ CallKeys(t)

Step(t) ==
    \/ Enter(t) \/ Collect(t) \/ Sweep(t) \/ Leave(t)
    \/ Stamp(t) \/ Check(t) \/ Create(t) \/ CreateFails(t) \/ Store(t)
    \/ PutStore(t) \/ StatsLen(t) \/ Iterate(t)

Next == Tick \/ \E t \in Threads : Call(t) \/ Step(t)

Spec == Init /\ [][Next]_vars

-----------------------------------------------------------------------------
(* Properties.                                                             *)

(* Every variable has its type; what the cache keeps is always an item.    *)
TypeOK ==
    /\ clock \in 0 .. MaxTime
    /\ cache \in [Keys -> Entry \cup {None}]
    /\ cleaner \in Threads \cup {None}
    /\ call \in [Threads -> Calls]
    /\ made \in 0 .. MaxItems
    /\ born \in [Items -> 0 .. MaxTime]

(* An entry that has not expired leaves the cache, or changes its item,    *)
(* only by put, remove or clear: neither a cleanup that works from an old  *)
(* list nor a slow creation ever costs it (mem_cache.py:70-75, 130-135).   *)
LiveEntriesArePinned ==
    [][\A k \in Keys : Live(k) /\ cache'[k] # cache[k] =>
          \E t \in Threads : PutStore(t) \/ Remove(t, k) \/ Clear(t)]_vars

(* get never answers an item later than TTL after it was created or put:   *)
(* the time kept with it is read before the creation, not after            *)
(* (mem_cache.py:113, 138, 168).                                           *)
ServedItemsAreYoung ==
    [][\A t \in Threads, k \in Keys : Get(t, k) /\ call'[t].item # Nothing =>
          clock - born[call'[t].item] <= TTL]_vars

\* A call as the users of the cache see it.
Content == [k \in Keys |-> IF Live(k) THEN cache[k] ELSE None]

Promise(c) ==
    CASE c.at = "idle" -> "none"
      [] c.at \in {"enter", "collect", "sweep"} ->
            IF c.key = None THEN "question" ELSE "wanted"
      [] c.at = "stamp" -> "wanted"
      [] c.at \in {"check", "create"} -> "timed"
      [] c.at = "store" -> "created"
      [] c.at = "put" -> "put"
      [] c.at \in {"len", "iterate"} -> "question"

Asked(c) ==
    [call |-> Promise(c), key |-> c.key, item |-> c.item,
     time |-> IF Promise(c) \in {"timed", "created", "put"} THEN c.time ELSE 0]

Contract == INSTANCE CacheContract WITH
    content <- Content, asked <- [t \in Threads |-> Asked(call[t])]

(* What the threads see is a map that forgets what is too old, on which    *)
(* each call acts at once (CacheContract): the regions under the locks,    *)
(* the cleanups and the expired entries between them never show            *)
(* (mem_cache.py:14-20, 102-140, 142-193).                                 *)
KeepsContract == Contract!Spec
===============================================================================
