------------------------ MODULE CompletionStream_proofs ------------------------
(***************************************************************************)
(* Proofs about CompletionStream for any number of requests,               *)
(* conversations, workers and chunks.  The inductive invariant is built in *)
(* layers: types, then who refers to which lock object, then who holds it, *)
(* then who may still clean up after it, then the cleanup lock, then the   *)
(* chunks already sent.                                                    *)
(***************************************************************************)
EXTENDS CompletionStream, TLAPS

(* A request only ever holds in hand a lock made for its own conversation, *)
(* and the dictionary only maps a conversation to a lock made for it.      *)
RefsOK ==
    /\ \A r \in Requests : lockRef[r] # None => conv[lockRef[r]] = conv[r]
    /\ \A c \in Conversations : registry[c] # None => conv[registry[c]] = c

(* A generator that died with the lock never runs again.                   *)
AbandonedOK == \A r \in abandoned : pc[r] \in Ended \cup {"yError"}

(* Only one thread is in the cleanup, the one the cleanup lock names.      *)
OneCleaner ==
    \A r \in Requests : pc[r] \in {"check", "delete", "leave"} <=> cleaner = r

(* What has been sent, by the place a request is at: nothing terminal      *)
(* while it runs, a terminal chunk once it waits for the end, and in the   *)
(* finally block a terminal chunk unless an exception is under way.        *)
ChunksOK ==
    \A r \in Requests :
        /\ pc[r] \in {"parse", "lookup", "acquire", "build", "graph", "yChunk"}
              => ~Contract!Finished(out[r]) /\ ~raising[r]
        /\ pc[r] \in {"yBusy", "yLast", "yError", "done"}
              => Contract!Finished(out[r])
        /\ pc[r] \in {"release"} \cup Cleanup
              => (raising[r] <=> ~Contract!Finished(out[r]))
        /\ pc[r] = "idle" => out[r] = <<>> /\ ~raising[r]
        /\ pc[r] = "yLast" => ~raising[r]
        /\ pc[r] = "yChunk" => out[r] # <<>>

(* Every step of the specification keeps the type invariant.               *)
THEOREM Typing == Spec => []TypeOK
<1>1. Init => TypeOK
  BY DEF Init, TypeOK, Locations, ChunkKind
<1>2. TypeOK /\ [Next]_vars => TypeOK'
  <2> SUFFICES ASSUME TypeOK, [Next]_vars PROVE TypeOK'
    OBVIOUS
  <2> USE StreamAssumption DEF TypeOK, Locations, Inside, AtYield, Cleanup, Ended, ChunkKind, Goto, lockVars
  <2>1. ASSUME NEW r \in Requests, ServerStep(r) \/ Cancel(r) PROVE TypeOK'
    <3>1. CASE Begin(r)
      BY <3>1 DEF Begin
    <3>2. CASE ParseOK(r)
      BY <3>2 DEF ParseOK
    <3>3. CASE ParseFails(r)
      BY <3>3 DEF ParseFails, Yield
    <3>4. CASE Lookup(r)
      BY <3>4 DEF Lookup
    <3>5. CASE Acquire(r)
      BY <3>5 DEF Acquire
    <3>6. CASE Refuse(r)
      BY <3>6 DEF Refuse, Yield
    <3>7. CASE BuildOK(r)
      BY <3>7 DEF BuildOK
    <3>8. CASE BuildFails(r)
      BY <3>8 DEF BuildFails
    <3>9. CASE GraphChunk(r)
      BY <3>9 DEF GraphChunk, Yield
    <3>10. CASE ConvertFails(r)
      BY <3>10 DEF ConvertFails, Yield
    <3>11. CASE GraphEnds(r)
      BY <3>11 DEF GraphEnds, Yield
    <3>12. CASE GraphFails(r)
      BY <3>12 DEF GraphFails, Yield
    <3>13. CASE Resume(r)
      BY <3>13 DEF Resume, AfterYield, Busy
    <3>14. CASE Drop(r)
      BY <3>14 DEF Drop
    <3>15. CASE Release(r)
      BY <3>15 DEF Release
    <3>16. CASE CleanEnter(r)
      BY <3>16 DEF CleanEnter
    <3>17. CASE CleanCheck(r)
      BY <3>17 DEF CleanCheck
    <3>18. CASE CleanDelete(r)
      BY <3>18 DEF CleanDelete
    <3>19. CASE CleanLeave(r)
      <4>1. CASE raising[r]
        <5>1. /\ out' = [out EXCEPT ![r] = Append(@, "error")]
              /\ pc' = [pc EXCEPT ![r] = "yError"]
          BY <3>19, <4>1, Zenon DEF CleanLeave, Yield
        <5>2. out' \in [Requests -> Seq(ChunkKind)]
          BY <5>1
        <5> QED
          BY <3>19, <5>1, <5>2 DEF CleanLeave
      <4>2. CASE ~raising[r]
        BY <3>19, <4>2 DEF CleanLeave
      <4> QED
        BY <4>1, <4>2
    <3>20. CASE Cancel(r)
      BY <3>20 DEF Cancel
    <3> QED
      BY <2>1, <3>1, <3>2, <3>3, <3>4, <3>5, <3>6, <3>7, <3>8, <3>9, <3>10, <3>11, <3>12, <3>13, <3>14, <3>15, <3>16, <3>17, <3>18, <3>19, <3>20 DEF ServerStep
  <2>2. CASE UNCHANGED vars
    BY <2>2 DEF vars
  <2> QED
    BY <2>1, <2>2 DEF Next, Quiet
<1> QED
  BY <1>1, <1>2, PTL DEF Spec

(***************************************************************************)
(* Who refers to which lock object, and who died holding one.              *)
(***************************************************************************)
(* Lock objects never cross from one conversation to another.              *)
THEOREM References == Spec => []RefsOK
<1>1. Init => RefsOK
  BY StreamAssumption DEF Init, RefsOK
<1>2. TypeOK /\ RefsOK /\ [Next]_vars => RefsOK'
  <2> SUFFICES ASSUME TypeOK, RefsOK, [Next]_vars PROVE RefsOK'
    OBVIOUS
  <2> USE StreamAssumption DEF RefsOK, TypeOK, lockVars
  <2>1. ASSUME NEW r \in Requests, ServerStep(r) \/ Cancel(r) PROVE RefsOK'
    <3>1. CASE Begin(r)
      BY <3>1 DEF Begin
    <3>2. CASE ParseOK(r)
      BY <3>2 DEF ParseOK
    <3>3. CASE ParseFails(r)
      BY <3>3 DEF ParseFails, Yield
    <3>4. CASE Lookup(r)
      BY <3>4 DEF Lookup
    <3>5. CASE Acquire(r)
      BY <3>5 DEF Acquire
    <3>6. CASE Refuse(r)
      BY <3>6 DEF Refuse, Yield
    <3>7. CASE BuildOK(r)
      BY <3>7 DEF BuildOK
    <3>8. CASE BuildFails(r)
      BY <3>8 DEF BuildFails
    <3>9. CASE GraphChunk(r)
      BY <3>9 DEF GraphChunk, Yield
    <3>10. CASE ConvertFails(r)
      BY <3>10 DEF ConvertFails, Yield
    <3>11. CASE GraphEnds(r)
      BY <3>11 DEF GraphEnds, Yield
    <3>12. CASE GraphFails(r)
      BY <3>12 DEF GraphFails, Yield
    <3>13. CASE Resume(r)
      BY <3>13 DEF Resume
    <3>14. CASE Drop(r)
      BY <3>14 DEF Drop
    <3>15. CASE Release(r)
      BY <3>15 DEF Release
    <3>16. CASE CleanEnter(r)
      BY <3>16 DEF CleanEnter
    <3>17. CASE CleanCheck(r)
      BY <3>17 DEF CleanCheck
    <3>18. CASE CleanDelete(r)
      BY <3>18 DEF CleanDelete
    <3>19. CASE CleanLeave(r)
      BY <3>19 DEF CleanLeave, Yield
    <3>20. CASE Cancel(r)
      BY <3>20 DEF Cancel
    <3> QED
      BY <2>1, <3>1, <3>2, <3>3, <3>4, <3>5, <3>6, <3>7, <3>8, <3>9, <3>10, <3>11,
         <3>12, <3>13, <3>14, <3>15, <3>16, <3>17, <3>18, <3>19, <3>20
      DEF ServerStep
  <2>2. CASE UNCHANGED vars
    BY <2>2 DEF vars
  <2> QED
    BY <2>1, <2>2 DEF Next, Quiet
<1> QED
  BY <1>1, <1>2, Typing, PTL DEF Spec

(* A request that died with the lock takes no further step of its own      *)
(* beyond the error chunk.                                                 *)
THEOREM AbandonedStayDead == Spec => []AbandonedOK
<1>1. Init => AbandonedOK
  BY StreamAssumption DEF Init, AbandonedOK
<1>2. TypeOK /\ AbandonedOK /\ [Next]_vars => AbandonedOK'
  <2> SUFFICES ASSUME TypeOK, AbandonedOK, [Next]_vars PROVE AbandonedOK'
    OBVIOUS
  <2> USE StreamAssumption DEF AbandonedOK, TypeOK, Locations, Inside, AtYield, Cleanup, Ended, Goto, lockVars
  <2>1. ASSUME NEW r \in Requests, ServerStep(r) \/ Cancel(r) PROVE AbandonedOK'
    <3>1. CASE Begin(r)
      BY <3>1 DEF Begin
    <3>2. CASE ParseOK(r)
      BY <3>2 DEF ParseOK
    <3>3. CASE ParseFails(r)
      BY <3>3 DEF ParseFails, Yield
    <3>4. CASE Lookup(r)
      BY <3>4 DEF Lookup
    <3>5. CASE Acquire(r)
      BY <3>5 DEF Acquire
    <3>6. CASE Refuse(r)
      BY <3>6 DEF Refuse, Yield
    <3>7. CASE BuildOK(r)
      BY <3>7 DEF BuildOK
    <3>8. CASE BuildFails(r)
      BY <3>8 DEF BuildFails
    <3>9. CASE GraphChunk(r)
      BY <3>9 DEF GraphChunk, Yield
    <3>10. CASE ConvertFails(r)
      BY <3>10 DEF ConvertFails, Yield
    <3>11. CASE GraphEnds(r)
      BY <3>11 DEF GraphEnds, Yield
    <3>12. CASE GraphFails(r)
      BY <3>12 DEF GraphFails, Yield
    <3>13. CASE Resume(r)
      BY <3>13 DEF Resume, AfterYield
    <3>14. CASE Drop(r)
      BY <3>14 DEF Drop
    <3>15. CASE Release(r)
      BY <3>15 DEF Release
    <3>16. CASE CleanEnter(r)
      BY <3>16 DEF CleanEnter
    <3>17. CASE CleanCheck(r)
      BY <3>17 DEF CleanCheck
    <3>18. CASE CleanDelete(r)
      BY <3>18 DEF CleanDelete
    <3>19. CASE CleanLeave(r)
      BY <3>19 DEF CleanLeave, Yield
    <3>20. CASE Cancel(r)
      BY <3>20 DEF Cancel
    <3> QED
      BY <2>1, <3>1, <3>2, <3>3, <3>4, <3>5, <3>6, <3>7, <3>8, <3>9, <3>10, <3>11,
         <3>12, <3>13, <3>14, <3>15, <3>16, <3>17, <3>18, <3>19, <3>20
      DEF ServerStep
  <2>2. CASE UNCHANGED vars
    BY <2>2 DEF vars
  <2> QED
    BY <2>1, <2>2 DEF Next, Quiet
<1> QED
  BY <1>1, <1>2, Typing, PTL DEF Spec


(***************************************************************************)
(* Who holds a lock object.                                                *)
(***************************************************************************)
(* A lock object has one holder at a time and is held exactly while that   *)
(* holder has neither released it nor died and been forgotten.             *)
THEOREM Exclusion == Spec => []LockDiscipline
<1>1. Init => LockDiscipline
  BY StreamAssumption DEF Init, LockDiscipline, Holding, Inside
<1>2. TypeOK /\ AbandonedOK /\ LockDiscipline /\ [Next]_vars => LockDiscipline'
  <2> SUFFICES ASSUME TypeOK, AbandonedOK, LockDiscipline, [Next]_vars PROVE LockDiscipline'
    OBVIOUS
  <2> USE StreamAssumption DEF LockDiscipline, Holding, AbandonedOK, TypeOK, Locations, Inside, AtYield, Cleanup, Ended, Goto, lockVars
  <2>1. ASSUME NEW r \in Requests, ServerStep(r) \/ Cancel(r) PROVE LockDiscipline'
    <3>1. CASE Begin(r)
      BY <3>1 DEF Begin
    <3>2. CASE ParseOK(r)
      BY <3>2 DEF ParseOK
    <3>3. CASE ParseFails(r)
      BY <3>3 DEF ParseFails, Yield
    <3>4. CASE Lookup(r)
      <4>1. ~Holding(r)
        BY <3>4 DEF Lookup
      <4>2. \A s \in Requests : Holding(s)' <=> Holding(s)
        BY <3>4 DEF Lookup
      <4>3. \A s \in Requests : Holding(s) => lockRef'[s] = lockRef[s]
        BY <3>4, <4>1 DEF Lookup
      <4>4. locked' = locked
        BY <3>4 DEF Lookup
      <4> HIDE DEF Holding
      <4>5. {lockRef'[s] : s \in {q \in Requests : Holding(q)'}}
              = {lockRef[s] : s \in {q \in Requests : Holding(q)}}
        BY <4>2, <4>3
      <4> QED
        BY <4>2, <4>3, <4>4, <4>5
    <3>5. CASE Acquire(r)
      BY <3>5 DEF Acquire
    <3>6. CASE Refuse(r)
      BY <3>6 DEF Refuse, Yield
    <3>7. CASE BuildOK(r)
      BY <3>7 DEF BuildOK
    <3>8. CASE BuildFails(r)
      BY <3>8 DEF BuildFails
    <3>9. CASE GraphChunk(r)
      BY <3>9 DEF GraphChunk, Yield
    <3>10. CASE ConvertFails(r)
      BY <3>10 DEF ConvertFails, Yield
    <3>11. CASE GraphEnds(r)
      BY <3>11 DEF GraphEnds, Yield
    <3>12. CASE GraphFails(r)
      BY <3>12 DEF GraphFails, Yield
    <3>13. CASE Resume(r)
      BY <3>13 DEF Resume, AfterYield
    <3>14. CASE Drop(r)
      BY <3>14 DEF Drop
    <3>15. CASE Release(r)
      <4>1. Holding(r) /\ ~Holding(r)'
        BY <3>15 DEF Release
      <4>2. \A s \in Requests \ {r} : Holding(s)' <=> Holding(s)
        BY <3>15 DEF Release
      <4>3. lockRef' = lockRef /\ locked' = locked \ {lockRef[r]}
        BY <3>15 DEF Release
      <4> HIDE DEF Holding
      <4>4. {lockRef[s] : s \in {q \in Requests : Holding(q)'}}
              = {lockRef[s] : s \in {q \in Requests : Holding(q)}} \ {lockRef[r]}
        BY <4>1, <4>2
      <4>5. \A p, q \in Requests :
              Holding(p)' /\ Holding(q)' /\ lockRef'[p] = lockRef'[q] => p = q
        BY <4>1, <4>2, <4>3
      <4>6. locked' = {lockRef'[s] : s \in {q \in Requests : Holding(q)'}}
        BY <4>3, <4>4
      <4> QED
        BY <4>5, <4>6
    <3>16. CASE CleanEnter(r)
      BY <3>16 DEF CleanEnter
    <3>17. CASE CleanCheck(r)
      BY <3>17 DEF CleanCheck
    <3>18. CASE CleanDelete(r)
      BY <3>18 DEF CleanDelete
    <3>19. CASE CleanLeave(r)
      <4>1. pc' \in [Requests -> Locations] /\ pc'[r] \in {"yError", "done"}
            /\ \A s \in Requests \ {r} : pc'[s] = pc[s]
        <5>1. CASE raising[r]
          <6>1. pc' = [pc EXCEPT ![r] = "yError"]
            BY <3>19, <5>1, Zenon DEF CleanLeave, Yield
          <6> QED
            BY <6>1
        <5>2. CASE ~raising[r]
          <6>1. pc' = [pc EXCEPT ![r] = "done"]
            BY <3>19, <5>2, Zenon DEF CleanLeave
          <6> QED
            BY <6>1
        <5> QED
          BY <5>1, <5>2
      <4>2. \A s \in Requests : Holding(s)' <=> Holding(s)
        BY <3>19, <4>1 DEF CleanLeave
      <4> HIDE DEF Holding
      <4> QED
        BY <3>19, <4>2 DEF CleanLeave
    <3>20. CASE Cancel(r)
      BY <3>20 DEF Cancel
    <3> QED
      BY <2>1, <3>1, <3>2, <3>3, <3>4, <3>5, <3>6, <3>7, <3>8, <3>9, <3>10, <3>11,
         <3>12, <3>13, <3>14, <3>15, <3>16, <3>17, <3>18, <3>19, <3>20
      DEF ServerStep
  <2>2. CASE UNCHANGED vars
    BY <2>2 DEF vars
  <2> QED
    BY <2>1, <2>2 DEF Next, Quiet
<1> QED
  BY <1>1, <1>2, Typing, AbandonedStayDead, PTL DEF Spec

(* The cleanup lock serializes the cleanup of the dictionary.              *)
THEOREM OneCleanerAlways == Spec => []OneCleaner
<1>1. Init => OneCleaner
  BY StreamAssumption DEF Init, OneCleaner
<1>2. TypeOK /\ OneCleaner /\ [Next]_vars => OneCleaner'
  <2> SUFFICES ASSUME TypeOK, OneCleaner, [Next]_vars PROVE OneCleaner'
    OBVIOUS
  <2> USE StreamAssumption DEF OneCleaner, TypeOK, Locations, Inside, AtYield, Cleanup, Ended, Goto, lockVars
  <2>1. ASSUME NEW r \in Requests, ServerStep(r) \/ Cancel(r) PROVE OneCleaner'
    <3>1. CASE Begin(r)
      BY <3>1 DEF Begin
    <3>2. CASE ParseOK(r)
      BY <3>2 DEF ParseOK
    <3>3. CASE ParseFails(r)
      BY <3>3 DEF ParseFails, Yield
    <3>4. CASE Lookup(r)
      BY <3>4 DEF Lookup
    <3>5. CASE Acquire(r)
      BY <3>5 DEF Acquire
    <3>6. CASE Refuse(r)
      BY <3>6 DEF Refuse, Yield
    <3>7. CASE BuildOK(r)
      BY <3>7 DEF BuildOK
    <3>8. CASE BuildFails(r)
      BY <3>8 DEF BuildFails
    <3>9. CASE GraphChunk(r)
      BY <3>9 DEF GraphChunk, Yield
    <3>10. CASE ConvertFails(r)
      BY <3>10 DEF ConvertFails, Yield
    <3>11. CASE GraphEnds(r)
      BY <3>11 DEF GraphEnds, Yield
    <3>12. CASE GraphFails(r)
      BY <3>12 DEF GraphFails, Yield
    <3>13. CASE Resume(r)
      BY <3>13 DEF Resume, AfterYield
    <3>14. CASE Drop(r)
      BY <3>14 DEF Drop
    <3>15. CASE Release(r)
      BY <3>15 DEF Release
    <3>16. CASE CleanEnter(r)
      BY <3>16 DEF CleanEnter
    <3>17. CASE CleanCheck(r)
      BY <3>17 DEF CleanCheck
    <3>18. CASE CleanDelete(r)
      BY <3>18 DEF CleanDelete
    <3>19. CASE CleanLeave(r)
      BY <3>19 DEF CleanLeave, Yield
    <3>20. CASE Cancel(r)
      BY <3>20 DEF Cancel
    <3> QED
      BY <2>1, <3>1, <3>2, <3>3, <3>4, <3>5, <3>6, <3>7, <3>8, <3>9, <3>10, <3>11,
         <3>12, <3>13, <3>14, <3>15, <3>16, <3>17, <3>18, <3>19, <3>20
      DEF ServerStep
  <2>2. CASE UNCHANGED vars
    BY <2>2 DEF vars
  <2> QED
    BY <2>1, <2>2 DEF Next, Quiet
<1> QED
  BY <1>1, <1>2, Typing, PTL DEF Spec

(* The del of the finally block always finds its key.                      *)
THEOREM NoKeyError == Spec => []DeletesAnEntry
<1>1. Init => DeletesAnEntry
  BY StreamAssumption DEF Init, DeletesAnEntry
<1>2. TypeOK /\ OneCleaner /\ DeletesAnEntry /\ [Next]_vars => DeletesAnEntry'
  <2> SUFFICES ASSUME TypeOK, OneCleaner, DeletesAnEntry, [Next]_vars PROVE DeletesAnEntry'
    OBVIOUS
  <2> USE StreamAssumption DEF DeletesAnEntry, OneCleaner, TypeOK, Locations, Inside, AtYield, Cleanup, Ended, Goto, lockVars
  <2>1. ASSUME NEW r \in Requests, ServerStep(r) \/ Cancel(r) PROVE DeletesAnEntry'
    <3>1. CASE Begin(r)
      BY <3>1 DEF Begin
    <3>2. CASE ParseOK(r)
      BY <3>2 DEF ParseOK
    <3>3. CASE ParseFails(r)
      BY <3>3 DEF ParseFails, Yield
    <3>4. CASE Lookup(r)
      BY <3>4 DEF Lookup
    <3>5. CASE Acquire(r)
      BY <3>5 DEF Acquire
    <3>6. CASE Refuse(r)
      BY <3>6 DEF Refuse, Yield
    <3>7. CASE BuildOK(r)
      BY <3>7 DEF BuildOK
    <3>8. CASE BuildFails(r)
      BY <3>8 DEF BuildFails
    <3>9. CASE GraphChunk(r)
      BY <3>9 DEF GraphChunk, Yield
    <3>10. CASE ConvertFails(r)
      BY <3>10 DEF ConvertFails, Yield
    <3>11. CASE GraphEnds(r)
      BY <3>11 DEF GraphEnds, Yield
    <3>12. CASE GraphFails(r)
      BY <3>12 DEF GraphFails, Yield
    <3>13. CASE Resume(r)
      BY <3>13 DEF Resume, AfterYield
    <3>14. CASE Drop(r)
      BY <3>14 DEF Drop
    <3>15. CASE Release(r)
      BY <3>15 DEF Release
    <3>16. CASE CleanEnter(r)
      BY <3>16 DEF CleanEnter
    <3>17. CASE CleanCheck(r)
      BY <3>17 DEF CleanCheck
    <3>18. CASE CleanDelete(r)
      BY <3>18 DEF CleanDelete
    <3>19. CASE CleanLeave(r)
      BY <3>19 DEF CleanLeave, Yield
    <3>20. CASE Cancel(r)
      BY <3>20 DEF Cancel
    <3> QED
      BY <2>1, <3>1, <3>2, <3>3, <3>4, <3>5, <3>6, <3>7, <3>8, <3>9, <3>10, <3>11,
         <3>12, <3>13, <3>14, <3>15, <3>16, <3>17, <3>18, <3>19, <3>20
      DEF ServerStep
  <2>2. CASE UNCHANGED vars
    BY <2>2 DEF vars
  <2> QED
    BY <2>1, <2>2 DEF Next, Quiet
<1> QED
  BY <1>1, <1>2, Typing, OneCleanerAlways, PTL DEF Spec

(* Every entry of the dictionary is the lock of a request that will clean  *)
(* up, or was taken along by a generator that never will.                  *)
Accounted ==
    \A c \in Conversations : registry[c] # None =>
        \E r \in Requests :
            /\ conv[r] = c
            /\ lockRef[r] = registry[c]
            /\ pc[r] \in {"acquire", "clean", "check", "delete"} \/ Holding(r)

(* The lookup makes an entry for the request that is about to try it; the  *)
(* holder keeps it; whoever finds the lock free deletes it.                *)
THEOREM EntriesAccounted == Spec => []Accounted
<1>1. Init => Accounted
  BY StreamAssumption DEF Init, Accounted
<1>2. TypeOK /\ RefsOK /\ AbandonedOK /\ LockDiscipline /\ Accounted /\ [Next]_vars => Accounted'
  <2> SUFFICES ASSUME TypeOK, RefsOK, AbandonedOK, LockDiscipline, Accounted, [Next]_vars PROVE Accounted'
    OBVIOUS
  <2> USE StreamAssumption DEF Accounted, LockDiscipline, Holding, RefsOK, AbandonedOK, TypeOK, Locations, Inside, AtYield, Cleanup, Ended, Goto, lockVars
  <2>1. ASSUME NEW r \in Requests, ServerStep(r) \/ Cancel(r) PROVE Accounted'
    <3>1. CASE Begin(r)
      BY <3>1 DEF Begin
    <3>2. CASE ParseOK(r)
      BY <3>2 DEF ParseOK
    <3>3. CASE ParseFails(r)
      BY <3>3 DEF ParseFails, Yield
    <3>4. CASE Lookup(r)
      <4> SUFFICES ASSUME NEW c \in Conversations, registry'[c] # None
                   PROVE \E q \in Requests :
                            /\ conv'[q] = c
                            /\ lockRef'[q] = registry'[c]
                            /\ \/ pc'[q] \in {"acquire", "clean", "check", "delete"}
                               \/ Holding(q)'
        BY DEF Accounted
      <4>1. CASE c = conv[r] /\ registry[c] = None
        BY <3>4, <4>1 DEF Lookup
      <4>2. CASE ~(c = conv[r] /\ registry[c] = None)
        <5>1. registry'[c] = registry[c] /\ registry[c] # None
          BY <3>4, <4>2 DEF Lookup
        <5>2. PICK q \in Requests :
                /\ conv[q] = c
                /\ lockRef[q] = registry[c]
                /\ pc[q] \in {"acquire", "clean", "check", "delete"} \/ Holding(q)
          BY <5>1
        <5>3. q # r
          BY <3>4, <5>2 DEF Lookup
        <5>4. lockRef'[q] = lockRef[q] /\ pc'[q] = pc[q] /\ conv' = conv
              /\ abandoned' = abandoned
          BY <3>4, <5>3 DEF Lookup
        <5> QED
          BY <5>1, <5>2, <5>4
      <4> QED
        BY <4>1, <4>2
    <3>5. CASE Acquire(r)
      BY <3>5 DEF Acquire
    <3>6. CASE Refuse(r)
      BY <3>6 DEF Refuse, Yield
    <3>7. CASE BuildOK(r)
      BY <3>7 DEF BuildOK
    <3>8. CASE BuildFails(r)
      BY <3>8 DEF BuildFails
    <3>9. CASE GraphChunk(r)
      BY <3>9 DEF GraphChunk, Yield
    <3>10. CASE ConvertFails(r)
      BY <3>10 DEF ConvertFails, Yield
    <3>11. CASE GraphEnds(r)
      BY <3>11 DEF GraphEnds, Yield
    <3>12. CASE GraphFails(r)
      BY <3>12 DEF GraphFails, Yield
    <3>13. CASE Resume(r)
      <4> SUFFICES ASSUME NEW c \in Conversations, registry'[c] # None
                   PROVE \E q \in Requests :
                            /\ conv'[q] = c
                            /\ lockRef'[q] = registry'[c]
                            /\ \/ pc'[q] \in {"acquire", "clean", "check", "delete"}
                               \/ Holding(q)'
        BY DEF Accounted
      <4>1. registry' = registry /\ conv' = conv /\ lockRef' = lockRef
            /\ abandoned' = abandoned /\ \A s \in Requests \ {r} : pc'[s] = pc[s]
        BY <3>13 DEF Resume
      <4>2. Holding(r) => Holding(r)'
        BY <3>13 DEF Resume, AfterYield
      <4>3. PICK q \in Requests :
              /\ conv[q] = c
              /\ lockRef[q] = registry[c]
              /\ pc[q] \in {"acquire", "clean", "check", "delete"} \/ Holding(q)
        BY <4>1
      <4>4. CASE q = r
        <5>1. Holding(r)
          BY <3>13, <4>3, <4>4 DEF Resume
        <5> QED
          BY <4>1, <4>2, <4>3, <4>4, <5>1
      <4>5. CASE q # r
        BY <4>1, <4>3, <4>5
      <4> QED
        BY <4>4, <4>5
    <3>14. CASE Drop(r)
      BY <3>14 DEF Drop
    <3>15. CASE Release(r)
      BY <3>15 DEF Release
    <3>16. CASE CleanEnter(r)
      BY <3>16 DEF CleanEnter
    <3>17. CASE CleanCheck(r)
      BY <3>17 DEF CleanCheck
    <3>18. CASE CleanDelete(r)
      <4> SUFFICES ASSUME NEW c \in Conversations, registry'[c] # None
                   PROVE \E q \in Requests :
                            /\ conv'[q] = c
                            /\ lockRef'[q] = registry'[c]
                            /\ \/ pc'[q] \in {"acquire", "clean", "check", "delete"}
                               \/ Holding(q)'
        BY DEF Accounted
      <4>1. c # conv[r] /\ registry'[c] = registry[c]
        BY <3>18 DEF CleanDelete
      <4>2. PICK q \in Requests :
              /\ conv[q] = c
              /\ lockRef[q] = registry[c]
              /\ pc[q] \in {"acquire", "clean", "check", "delete"} \/ Holding(q)
        BY <4>1
      <4>3. q # r
        BY <4>1, <4>2
      <4> QED
        BY <3>18, <4>1, <4>2, <4>3 DEF CleanDelete
    <3>19. CASE CleanLeave(r)
      <4> SUFFICES ASSUME NEW c \in Conversations, registry'[c] # None
                   PROVE \E q \in Requests :
                            /\ conv'[q] = c
                            /\ lockRef'[q] = registry'[c]
                            /\ \/ pc'[q] \in {"acquire", "clean", "check", "delete"}
                               \/ Holding(q)'
        BY DEF Accounted
      <4>1. pc' \in [Requests -> Locations] /\ pc'[r] \in {"yError", "done"}
            /\ \A s \in Requests \ {r} : pc'[s] = pc[s]
        <5>1. CASE raising[r]
          <6>1. pc' = [pc EXCEPT ![r] = "yError"]
            BY <3>19, <5>1, Zenon DEF CleanLeave, Yield
          <6> QED
            BY <6>1
        <5>2. CASE ~raising[r]
          <6>1. pc' = [pc EXCEPT ![r] = "done"]
            BY <3>19, <5>2, Zenon DEF CleanLeave
          <6> QED
            BY <6>1
        <5> QED
          BY <5>1, <5>2
      <4>2. PICK q \in Requests :
              /\ conv[q] = c
              /\ lockRef[q] = registry[c]
              /\ pc[q] \in {"acquire", "clean", "check", "delete"} \/ Holding(q)
        BY <3>19 DEF CleanLeave
      <4>3. CASE q = r
        BY <3>19, <4>2, <4>3 DEF CleanLeave
      <4>4. CASE q # r
        BY <3>19, <4>1, <4>2, <4>4 DEF CleanLeave
      <4> QED
        BY <4>3, <4>4
    <3>20. CASE Cancel(r)
      BY <3>20 DEF Cancel
    <3> QED
      BY <2>1, <3>1, <3>2, <3>3, <3>4, <3>5, <3>6, <3>7, <3>8, <3>9, <3>10, <3>11,
         <3>12, <3>13, <3>14, <3>15, <3>16, <3>17, <3>18, <3>19, <3>20
      DEF ServerStep
  <2>2. CASE UNCHANGED vars
    BY <2>2 DEF vars
  <2> QED
    BY <2>1, <2>2 DEF Next, Quiet
<1> QED
  BY <1>1, <1>2, Typing, References, AbandonedStayDead, Exclusion, PTL DEF Spec

(* An entry that no abandoned generator took with it has a request that is *)
(* not over and will come to its cleanup.                                  *)
THEOREM OnlyAbandonedLeak == Spec => []CleanedUnlessAbandoned
<1>1. Accounted => CleanedUnlessAbandoned
  BY DEF Accounted, CleanedUnlessAbandoned, Holding, Inside
<1> QED
  BY <1>1, EntriesAccounted, PTL

(* A stream is finished exactly when the last chunk put on it says so.      *)
LEMMA LastChunk ==
    ASSUME NEW s \in Seq(ChunkKind), NEW k \in ChunkKind
    PROVE  /\ Append(s, k) # <<>>
           /\ Contract!Finished(Append(s, k)) <=> k \in {"final", "error"}
  BY DEF Contract!Finished, Contract!Terminal, ChunkKind

(* The chunks a request has sent agree with the place it is at.            *)
THEOREM ChunksSent == Spec => []ChunksOK
<1>1. Init => ChunksOK
  BY StreamAssumption DEF Init, ChunksOK, Contract!Finished, Cleanup
<1>2. TypeOK /\ ChunksOK /\ [Next]_vars => ChunksOK'
  <2> SUFFICES ASSUME TypeOK, ChunksOK, [Next]_vars PROVE ChunksOK'
    OBVIOUS
  <2> USE StreamAssumption DEF ChunksOK, Contract!Finished, Contract!Terminal, ChunkKind, TypeOK, Locations, Inside, AtYield, Cleanup, Ended, Goto, lockVars
  <2>1. ASSUME NEW r \in Requests, ServerStep(r) \/ Cancel(r) PROVE ChunksOK'
    <3>1. CASE Begin(r)
      BY <3>1 DEF Begin
    <3>2. CASE ParseOK(r)
      BY <3>2 DEF ParseOK
    <3>3. CASE ParseFails(r)
      BY <3>3 DEF ParseFails, Yield
    <3>4. CASE Lookup(r)
      BY <3>4 DEF Lookup
    <3>5. CASE Acquire(r)
      BY <3>5 DEF Acquire
    <3>6. CASE Refuse(r)
      <4>1. Yield(r, "error", "yBusy")
        BY <3>6 DEF Refuse
      <4>3. raising' = raising
        BY <3>6 DEF Refuse
      <4>2. Contract!Finished(out'[r])
        <5>1. out'[r] = Append(out[r], "error") /\ out[r] \in Seq(ChunkKind)
          BY <4>1 DEF Yield
        <5> QED
          BY <5>1, LastChunk
      <4> QED
        BY <4>1, <4>2, <4>3 DEF Yield
    <3>7. CASE BuildOK(r)
      BY <3>7 DEF BuildOK
    <3>8. CASE BuildFails(r)
      BY <3>8 DEF BuildFails
    <3>9. CASE GraphChunk(r)
      BY <3>9 DEF GraphChunk, Yield
    <3>10. CASE ConvertFails(r)
      BY <3>10 DEF ConvertFails, Yield
    <3>11. CASE GraphEnds(r)
      BY <3>11 DEF GraphEnds, Yield
    <3>12. CASE GraphFails(r)
      BY <3>12 DEF GraphFails, Yield
    <3>13. CASE Resume(r)
      BY <3>13 DEF Resume, AfterYield
    <3>14. CASE Drop(r)
      BY <3>14 DEF Drop
    <3>15. CASE Release(r)
      BY <3>15 DEF Release
    <3>16. CASE CleanEnter(r)
      BY <3>16 DEF CleanEnter
    <3>17. CASE CleanCheck(r)
      BY <3>17 DEF CleanCheck
    <3>18. CASE CleanDelete(r)
      BY <3>18 DEF CleanDelete
    <3>19. CASE CleanLeave(r)
      BY <3>19 DEF CleanLeave, Yield
    <3>20. CASE Cancel(r)
      BY <3>20 DEF Cancel
    <3> QED
      BY <2>1, <3>1, <3>2, <3>3, <3>4, <3>5, <3>6, <3>7, <3>8, <3>9, <3>10, <3>11,
         <3>12, <3>13, <3>14, <3>15, <3>16, <3>17, <3>18, <3>19, <3>20
      DEF ServerStep
  <2>2. CASE UNCHANGED vars
    BY <2>2 DEF vars
  <2> QED
    BY <2>1, <2>2 DEF Next, Quiet
<1> QED
  BY <1>1, <1>2, Typing, PTL DEF Spec


(***************************************************************************)
(* What clients are told.                                                  *)
(***************************************************************************)
(* Moving one request moves one stream.                                    *)
LEMMA StreamMoves ==
    ASSUME TypeOK, NEW r \in Requests, NEW l \in Locations,
           pc' = [pc EXCEPT ![r] = l]
    PROVE  Stream' = [Stream EXCEPT ![r] = StreamAt(l)]
  BY DEF TypeOK, Stream

(* The chunks a client receives are those of StreamContract: every step of *)
(* a request opens, extends, closes or cuts its stream, or is invisible.   *)
THEOREM ContractKept == Spec => KeepsContract
<1>1. Init => Contract!Init
  BY DEF Init, Contract!Init, Stream, StreamAt
<1>2. TypeOK /\ ChunksOK /\ [Next]_vars => [Contract!Next]_(Contract!svars)
  <2> SUFFICES ASSUME TypeOK, ChunksOK, [Next]_vars
               PROVE  [Contract!Next]_(Contract!svars)
    OBVIOUS
  <2>1. ASSUME NEW r \in Requests, Begin(r) PROVE Contract!Open(r)
    <3>1. pc[r] = "idle" /\ pc' = [pc EXCEPT ![r] = "parse"] /\ out' = out
      BY <2>1 DEF Begin, Goto
    <3>2. Stream' = [Stream EXCEPT ![r] = "open"]
      <4>1. Stream' = [Stream EXCEPT ![r] = StreamAt("parse")]
        BY <3>1, StreamMoves DEF Locations
      <4> QED
        BY <4>1 DEF StreamAt
    <3> QED
      BY <3>1, <3>2 DEF Contract!Open, Stream, StreamAt
  <2>2. ASSUME NEW r \in Requests, NEW k \in ChunkKind,
               NEW l \in AtYield, Yield(r, k, l),
               pc[r] \in {"parse", "acquire", "graph", "leave"},
               pc[r] = "leave" => raising[r]
        PROVE  Contract!Send(r)
    <3>1. Stream[r] = "open"
      BY <2>2 DEF Stream, StreamAt
    <3>2. ~Contract!Finished(out[r])
      BY <2>2 DEF ChunksOK, Cleanup
    <3>3. Stream' = [Stream EXCEPT ![r] = "open"]
      <4>1. Stream' = [Stream EXCEPT ![r] = StreamAt(l)]
        BY <2>2, StreamMoves DEF Yield, Goto, Locations
      <4> QED
        BY <4>1, <2>2 DEF StreamAt, AtYield
    <3>4. Stream' = Stream
      BY <3>1, <3>3 DEF Stream
    <3>5. out' = [out EXCEPT ![r] = Append(@, k)]
      BY <2>2 DEF Yield
    <3> QED
      BY <3>1, <3>2, <3>4, <3>5, <2>2
      DEF Contract!Send, Contract!ChunkKind, Contract!Terminal, ChunkKind
  <2>3. ASSUME NEW r \in Requests, pc[r] \notin {"idle", "done", "dropped"},
               NEW l \in Locations \ {"idle", "done", "dropped"},
               Goto(r, l), out' = out
        PROVE  UNCHANGED Contract!svars
    <3>1. Stream' = [Stream EXCEPT ![r] = StreamAt(l)]
      BY <2>3, StreamMoves DEF Goto
    <3>2. StreamAt(l) = "open" /\ Stream[r] = "open"
      BY <2>3 DEF Stream, StreamAt
    <3>3. Stream' = Stream
      BY <3>1, <3>2 DEF Stream
    <3> QED
      BY <3>3, <2>3 DEF Contract!svars
  <2>4. ASSUME NEW r \in Requests, Goto(r, "done"), out' = out,
               pc[r] \in {"yBusy", "yError", "leave"},
               pc[r] = "leave" => ~raising[r]
        PROVE  Contract!Close(r)
    <3>1. Stream' = [Stream EXCEPT ![r] = "closed"]
      BY <2>4, StreamMoves DEF Goto, StreamAt, Locations, Ended
    <3>2. Stream[r] = "open"
      BY <2>4 DEF Stream, StreamAt
    <3>3. Contract!Finished(out[r])
      BY <2>4 DEF ChunksOK, Cleanup
    <3> QED
      BY <3>1, <3>2, <3>3, <2>4 DEF Contract!Close
  <2>5. ASSUME NEW r \in Requests, Drop(r) PROVE Contract!Cut(r)
    <3>1. pc[r] \in AtYield /\ pc' = [pc EXCEPT ![r] = "dropped"] /\ out' = out
      BY <2>5 DEF Drop, Goto
    <3>2. Stream' = [Stream EXCEPT ![r] = "cut"]
      BY <3>1, StreamMoves DEF StreamAt, Locations, Ended
    <3>3. Stream[r] = "open"
      BY <3>1 DEF Stream, StreamAt, AtYield
    <3>4. out[r] # <<>>
      BY <3>1 DEF ChunksOK, AtYield, Contract!Finished
    <3> QED
      BY <3>1, <3>2, <3>3, <3>4 DEF Contract!Cut
  <2>6. ASSUME NEW r \in Requests, Resume(r)
        PROVE  [Contract!Next]_(Contract!svars)
    <3>1. out' = out /\ Goto(r, AfterYield[pc[r]])
      BY <2>6 DEF Resume
    <3>2. CASE pc[r] \in {"yChunk", "yLast"}
      <4>1. AfterYield[pc[r]] \in Locations \ {"idle", "done", "dropped"}
        BY <3>2 DEF AfterYield, Locations, Inside
      <4> QED
        BY <3>1, <3>2, <4>1, <2>3
    <3>3. CASE pc[r] \in {"yBusy", "yError"}
      <4>1. AfterYield[pc[r]] = "done"
        BY <3>3 DEF AfterYield
      <4>2. Goto(r, "done")
        BY <3>1, <4>1 DEF Goto
      <4>3. Contract!Close(r)
        BY <3>1, <3>3, <4>2, <2>4
      <4> QED
        BY <4>3 DEF Contract!Next
    <3> QED
      BY <2>6, <3>2, <3>3 DEF Resume, AtYield
  <2>7. ASSUME NEW r \in Requests, CleanLeave(r)
        PROVE  [Contract!Next]_(Contract!svars)
    <3>1. CASE raising[r]
      <4>1. pc[r] = "leave" /\ Yield(r, "error", "yError")
        BY <2>7, <3>1 DEF CleanLeave
      <4>2. Contract!Send(r)
        BY <3>1, <4>1, <2>2 DEF ChunkKind, AtYield
      <4> QED
        BY <4>2 DEF Contract!Next
    <3>2. CASE ~raising[r]
      <4>1. pc[r] = "leave" /\ Goto(r, "done") /\ out' = out
        BY <2>7, <3>2 DEF CleanLeave
      <4>2. Contract!Close(r)
        BY <3>2, <4>1, <2>4
      <4> QED
        BY <4>2 DEF Contract!Next
    <3> QED
      BY <3>1, <3>2
  <2>8. ASSUME NEW r \in Requests,
               \/ ParseFails(r) \/ Refuse(r) \/ GraphChunk(r)
               \/ ConvertFails(r) \/ GraphEnds(r) \/ GraphFails(r)
        PROVE  Contract!Send(r)
    <3> USE DEF ChunkKind, AtYield
    <3>1. CASE ParseFails(r)
      <4>1. Yield(r, "error", "yError") /\ pc[r] \in {"parse", "acquire", "graph"}
        BY <3>1 DEF ParseFails
      <4> QED
        BY <4>1, <2>2
    <3>2. CASE Refuse(r)
      <4>1. Yield(r, "error", "yBusy") /\ pc[r] \in {"parse", "acquire", "graph"}
        BY <3>2 DEF Refuse
      <4> QED
        BY <4>1, <2>2
    <3>3. CASE GraphChunk(r)
      <4>1. Yield(r, "content", "yChunk") /\ pc[r] \in {"parse", "acquire", "graph"}
        BY <3>3 DEF GraphChunk
      <4> QED
        BY <4>1, <2>2
    <3>4. CASE ConvertFails(r)
      <4>1. Yield(r, "error", "yError") /\ pc[r] \in {"parse", "acquire", "graph"}
        BY <3>4 DEF ConvertFails
      <4> QED
        BY <4>1, <2>2
    <3>5. CASE GraphEnds(r)
      <4>1. Yield(r, "final", "yLast") /\ pc[r] \in {"parse", "acquire", "graph"}
        BY <3>5 DEF GraphEnds
      <4> QED
        BY <4>1, <2>2
    <3>6. CASE GraphFails(r)
      <4>1. Yield(r, "error", "yLast") /\ pc[r] \in {"parse", "acquire", "graph"}
        BY <3>6 DEF GraphFails
      <4> QED
        BY <4>1, <2>2
    <3> QED
      BY <2>8, <3>1, <3>2, <3>3, <3>4, <3>5, <3>6
  <2>9. ASSUME NEW r \in Requests,
               \/ ParseOK(r) \/ Lookup(r) \/ Acquire(r) \/ BuildOK(r)
               \/ BuildFails(r) \/ Release(r) \/ CleanEnter(r)
               \/ CleanCheck(r) \/ CleanDelete(r)
        PROVE  UNCHANGED Contract!svars
    BY <2>9, <2>3 DEF ParseOK, Lookup, Acquire, BuildOK, BuildFails, Release,
                      CleanEnter, CleanCheck, CleanDelete, Locations, Inside,
                      Cleanup
  <2>10. ASSUME NEW r \in Requests, Cancel(r) PROVE UNCHANGED Contract!svars
    BY <2>10 DEF Cancel, Contract!svars, Stream
  <2>11. CASE UNCHANGED vars
    BY <2>11 DEF vars, Contract!svars, Stream
  <2> QED
    BY <2>1, <2>5, <2>6, <2>7, <2>8, <2>9, <2>10, <2>11
    DEF Next, Quiet, ServerStep, Contract!Next
<1> QED
  BY <1>1, <1>2, Typing, ChunksSent, PTL DEF Spec, KeepsContract, Contract!Spec
===============================================================================
