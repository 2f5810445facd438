----------------------------- MODULE CacheContract -----------------------------
(***************************************************************************)
(* What the users of a MemCache are promised (internal/cache/mem_cache.py, *)
(* the docstrings of MemCache and of its methods): the cache is a map that *)
(* forgets an entry ttl_seconds after the time it is stamped with, and     *)
(* each call takes effect at once, somewhere between the moment it is made *)
(* and the moment it answers.  There are no locks, no cleanups and no      *)
(* expired entries here.                                                   *)
(***************************************************************************)
EXTENDS Naturals

CONSTANTS Threads, Keys, None, TTL, MaxTime, MaxItems

VARIABLES
    clock,      \* time.time()
    content,    \* for each key its entry [item, stamp], or None
    asked,      \* for each thread the call it has made, or the last answer
    made,       \* items taken so far
    born        \* when each item was created or put

cvars == <<clock, content, asked, made, born>>

Nothing == 0
Raised == MaxItems + 1

\* asked[t].call: the call, or how far it has come.
\*    none       no call: item is the answer to the last one
\*    question   a call that changes nothing: statistics, keys, a cleanup
\*    wanted     get_or_create, and its time is yet to be read
\*    timed      get_or_create, and its time is read
\*    created    get_or_create, and it has made an item of its own
\*    put        put, and its time is read
Asking(q, k, n, i) == [call |-> q, key |-> k, time |-> n, item |-> i]
Answered(r) == Asking("none", None, 0, r)
Asks(t, q) == asked[t].call = q
Becomes(t, a) == asked' = [asked EXCEPT ![t] = a]
Answer(t, r) == Becomes(t, Answered(r))

\* What is left of an entry at a time.
Left(now, e) == IF e # None /\ ~(now - e.stamp > TTL) THEN e ELSE None
Set(k, e) == content' = [content EXCEPT ![k] = Left(clock, e)]

Init ==
    /\ clock = 0
    /\ content = [k \in Keys |-> None]
    /\ asked = [t \in Threads |-> Answered(Nothing)]
    /\ made = 0
    /\ born = [i \in 1 .. MaxItems |-> 0]

\* As time passes, what has become too old is gone.
Tick ==
    /\ clock < MaxTime
    /\ clock' = clock + 1
    /\ content' = [k \in Keys |-> Left(clock + 1, content[k])]
    /\ UNCHANGED <<asked, made, born>>

Ask(t) ==
    /\ Asks(t, "none")
    /\ Becomes(t, Asking("question", None, 0, Nothing))
    /\ UNCHANGED <<clock, content, made, born>>

\* What the answer to a question says is not promised, and the iteration of
\* get_non_expired_keys may raise.
Reply(t) ==
    /\ Asks(t, "question")
    /\ \E r \in {Nothing, Raised} : Answer(t, r)
    /\ UNCHANGED <<clock, content, made, born>>

Want(t, k) ==
    /\ Asks(t, "none")
    /\ made < MaxItems
    /\ made' = made + 1
    /\ Becomes(t, Asking("wanted", k, 0, made + 1))
    /\ UNCHANGED <<clock, content, born>>

\* The time an item will be stamped with is read before it is created.
ReadTime(t) ==
    /\ Asks(t, "wanted")
    /\ Becomes(t, Asking("timed", asked[t].key, clock, asked[t].item))
    /\ UNCHANGED <<clock, content, made, born>>

\* get_or_create answers what the cache has, before or after it has made an
\* item of its own ...
Find(t) ==
    /\ Asks(t, "timed") \/ Asks(t, "created")
    /\ content[asked[t].key] # None
    /\ Answer(t, content[asked[t].key].item)
    /\ UNCHANGED <<clock, content, made, born>>

Create(t) ==
    /\ Asks(t, "timed")
    /\ Becomes(t, Asking("created", asked[t].key, asked[t].time, asked[t].item))
    /\ born' = [born EXCEPT ![asked[t].item] = clock]
    /\ UNCHANGED <<clock, content, made>>

Fail(t) ==
    /\ Asks(t, "timed")
    /\ Answer(t, Raised)
    /\ UNCHANGED <<clock, content, made, born>>

\* ... or its own, which the cache has from then on.
Offer(t) ==
    LET a == asked[t]
    IN  /\ Asks(t, "created")
        /\ content[a.key] = None
        /\ Set(a.key, [item |-> a.item, stamp |-> a.time])
        /\ Answer(t, a.item)
        /\ UNCHANGED <<clock, made, born>>

StartPut(t, k) ==
    /\ Asks(t, "none")
    /\ made < MaxItems
    /\ made' = made + 1
    /\ born' = [born EXCEPT ![made + 1] = clock]
    /\ Becomes(t, Asking("put", k, clock, made + 1))
    /\ UNCHANGED <<clock, content>>

Put(t) ==
    LET a == asked[t]
    IN  /\ Asks(t, "put")
        /\ Set(a.key, [item |-> a.item, stamp |-> a.time])
        /\ Answer(t, Nothing)
        /\ UNCHANGED <<clock, made, born>>

Get(t, k) ==
    /\ Asks(t, "none")
    /\ Answer(t, IF content[k] = None THEN Nothing ELSE content[k].item)
    /\ UNCHANGED <<clock, content, made, born>>

Remove(t, k) ==
    /\ Asks(t, "none")
    /\ Set(k, None)
    /\ Answer(t, Nothing)
    /\ UNCHANGED <<clock, made, born>>

Clear(t) ==
    /\ Asks(t, "none")
    /\ content' = [k \in Keys |-> None]
    /\ Answer(t, Nothing)
    /\ UNCHANGED <<clock, made, born>>

Next ==
    \/ Tick
    \/ \E t \in Threads :
          \/ Ask(t) \/ Reply(t) \/ Clear(t)
          \/ ReadTime(t) \/ Find(t) \/ Create(t) \/ Fail(t) \/ Offer(t) \/ Put(t)
          \/ \E k \in Keys :
                Want(t, k) \/ StartPut(t, k) \/ Get(t, k) \/ Remove(t, k)

Spec == Init /\ [][Next]_cvars
===============================================================================
