-------------------------- MODULE GameWorkspace_proofs --------------------------
(***************************************************************************)
(* Proofs about GameWorkspace for any number of callers, files, passages,  *)
(* versions, failures and crashes.                                         *)
(***************************************************************************)
EXTENDS GameWorkspace, FiniteSetTheorems, TLAPS

(* A call that works on a file has one, one that builds has a version.     *)
CallOK(r) ==
    /\ r.at \in {"read", "open", "flush"} => r.file \in Files
    /\ r.at \in {"list", "download", "upload", "built"} => r.version \in 1 .. MaxVersion

Good == {r \in Calls : CallOK(r)}
CallsOK == call \in [Callers -> Good]

DiskOK == made \in BOOLEAN /\ local \in Directory
GamesOK == games \in [1 .. MaxVersion -> Directory]
CountersOK ==
    told \in 0 .. MaxVersion /\ faults \in 0 .. MaxFaults
    /\ crashes \in 0 .. MaxCrashes
HistoryOK ==
    /\ kept \in [Files -> Text] /\ mixed \subseteq Files
    /\ hollow \in BOOLEAN /\ blurred \in BOOLEAN

TInv == DiskOK /\ GamesOK /\ CountersOK /\ HistoryOK /\ CallsOK

-----------------------------------------------------------------------------
(* The local variables of a call.                                          *)

LEMMA IdleGood == Idle \in Good
  BY WorkspaceAssumption DEF Idle, Good, Calls, CallOK, Locations, Text

LEMMA InHand ==
    ASSUME CallsOK, NEW c \in Callers
    PROVE  /\ call[c] \in Calls /\ CallOK(call[c])
           /\ call[c].text \in Text /\ call[c].old \in Text /\ call[c].new \in Text
           /\ call[c].todo \subseteq Files /\ call[c].version \in 0 .. MaxVersion
           /\ call[c].file \in Files \cup {None} /\ call[c].at \in Locations
<1>1. call[c] \in Calls /\ CallOK(call[c])
  BY DEF CallsOK, Good
<1> QED
  BY <1>1 DEF Calls

LEMMA BecomesGood ==
    ASSUME CallsOK, NEW c \in Callers, NEW r \in Good, Becomes(c, r)
    PROVE  CallsOK' /\ call'[c] = r /\ \A b \in Callers \ {c} : call'[b] = call[b]
  BY DEF CallsOK, Becomes

LEMMA DoneGood ==
    ASSUME CallsOK, NEW c \in Callers, Done(c)
    PROVE  CallsOK' /\ call'[c] = Idle /\ \A b \in Callers \ {c} : call'[b] = call[b]
  BY BecomesGood, IdleGood DEF Done

(* Taking f off the list of c and unbinding f leaves the calls well formed, *)
(* at their locations and with their versions.                             *)
LEMMA UnbindGood ==
    ASSUME CallsOK, NEW c \in Callers, NEW f \in Files,
           call' = [Unbind(f, call) EXCEPT ![c].todo = @ \ {f}]
    PROVE  /\ CallsOK'
           /\ \A b \in Callers : /\ call'[b].at = call[b].at
                                 /\ call'[b].version = call[b].version
                                 /\ call'[b].file = call[b].file
<1>1. ASSUME NEW b \in Callers
      PROVE  /\ call'[b] \in Good
             /\ call'[b].at = call[b].at /\ call'[b].version = call[b].version
             /\ call'[b].file = call[b].file
  <2>1. call[b] \in Calls /\ CallOK(call[b])
    BY InHand
  <2>2. Unbind(f, call)[b] \in Calls
    BY <2>1 DEF Unbind, Calls
  <2>3. /\ Unbind(f, call)[b].at = call[b].at
        /\ Unbind(f, call)[b].version = call[b].version
        /\ Unbind(f, call)[b].file = call[b].file
    BY <2>1 DEF Unbind, Calls
  <2>4. call'[b] = IF b = c THEN [Unbind(f, call)[b] EXCEPT !.todo = @ \ {f}]
                   ELSE Unbind(f, call)[b]
    BY DEF Unbind
  <2>5. call'[b] \in Calls
    BY <2>2, <2>4 DEF Calls
  <2>6. /\ call'[b].at = call[b].at /\ call'[b].version = call[b].version
        /\ call'[b].file = call[b].file
    BY <2>2, <2>3, <2>4 DEF Calls
  <2> QED
    BY <2>1, <2>5, <2>6 DEF Good, CallOK
<1>2. DOMAIN call' = Callers /\ call' = [b \in Callers |-> call'[b]]
  BY DEF Unbind
<1> QED
  BY <1>1, <1>2 DEF CallsOK

LEMMA CountBounds ==
    /\ Count \in 0 .. MaxVersion
    /\ \A n \in 0 .. MaxVersion : Versions = 1 .. n => Count = n
<1>1. IsFiniteSet(1 .. MaxVersion) /\ Cardinality(1 .. MaxVersion) = MaxVersion
  BY FS_Interval, WorkspaceAssumption
<1>2. Versions \subseteq 1 .. MaxVersion
  BY DEF Versions
<1>3. Count \in Nat /\ Count <= MaxVersion
  BY <1>1, <1>2, FS_Subset, FS_CardinalityType DEF Count
<1>4. ASSUME NEW n \in 0 .. MaxVersion, Versions = 1 .. n
      PROVE  Count = n
  BY <1>4, FS_Interval, WorkspaceAssumption DEF Count
<1> QED
  BY <1>3, <1>4, WorkspaceAssumption

-----------------------------------------------------------------------------
(* Type correctness.                                                       *)

LEMMA TypingOfLoad ==
    ASSUME TInv, NEW c \in Callers,
           Load(c) \/ Listed(c) \/ ListFiles(c) \/ StartsWithV1(c) \/ Loaded(c)
           \/ \E f \in Files : Download(c, f)
    PROVE  TInv'
<1> USE DEF TInv, Becomes
<1>1. CASE Load(c)
  <2>1. [call[c] EXCEPT !.at = "count"] \in Good
    BY InHand DEF Good, Calls, CallOK, Locations
  <2> QED
    BY <1>1, <2>1, BecomesGood
    DEF Load, Starts, Goto, DiskOK, GamesOK, CountersOK, HistoryOK, marks
<1>2. CASE Listed(c)
  <2> DEFINE r == [call[c] EXCEPT !.at = "list", !.version = Count]
  <2>1. Count \in 1 .. MaxVersion
    BY <1>2, CountBounds DEF Listed
  <2>2. r \in Calls /\ r.at = "list" /\ r.version = Count
    <3> DEFINE n == Count
    <3>1. n \in 0 .. MaxVersion /\ call[c] \in Calls
      BY <2>1, InHand, WorkspaceAssumption
    <3> HIDE DEF n
    <3>2. /\ [call[c] EXCEPT !.at = "list", !.version = n] \in Calls
          /\ [call[c] EXCEPT !.at = "list", !.version = n].at = "list"
          /\ [call[c] EXCEPT !.at = "list", !.version = n].version = n
      BY <3>1 DEF Calls, Locations
    <3> QED
      BY <3>2 DEF n
  <2>3. r \in Good
    BY <2>1, <2>2 DEF Good, CallOK
  <2> QED
    BY <1>2, <2>3, BecomesGood
    DEF Listed, disk, history, DiskOK, GamesOK, CountersOK, HistoryOK, marks
<1>6. CASE ListFiles(c)
  <2> DEFINE files == Present(games[call[c].version])
             r == [call[c] EXCEPT !.at = "download", !.todo = files]
  <2>1. files \in SUBSET Files
    BY DEF Present
  <2>2. call[c].version \in 1 .. MaxVersion
    BY <1>6, InHand DEF ListFiles, At, CallOK
  <2>3. Becomes(c, r)
    BY <1>6 DEF ListFiles
  <2> HIDE DEF files
  <2>4. r \in Calls /\ r.at = "download" /\ r.version = call[c].version
    BY <2>1, InHand DEF Calls, Locations
  <2>5. r \in Good
    BY <2>2, <2>4 DEF Good, CallOK
  <2> HIDE DEF r
  <2> QED
    BY <1>6, <2>3, <2>5, BecomesGood
    DEF ListFiles, disk, history, DiskOK, GamesOK, CountersOK, HistoryOK, marks
<1>3. CASE StartsWithV1(c)
  <2>1. faults' \in 0 .. MaxFaults
    BY <1>3, WorkspaceAssumption DEF StartsWithV1, Fault, CountersOK
  <2>2. blurred' \in BOOLEAN
    BY <1>3 DEF StartsWithV1, HistoryOK
  <2> QED
    BY <1>3, <2>1, <2>2, DoneGood, WorkspaceAssumption
    DEF StartsWithV1, disk, DiskOK, GamesOK, CountersOK, HistoryOK
<1>4. CASE Loaded(c)
  BY <1>4, DoneGood, InHand, WorkspaceAssumption
  DEF Loaded, Fault, disk, history, DiskOK, GamesOK, CountersOK, HistoryOK, marks
<1>5. ASSUME NEW f \in Files, Download(c, f) PROVE TInv'
  <2>1. CallsOK'
    BY <1>5, UnbindGood DEF Download
  <2>2. call[c].version \in 1 .. MaxVersion
    BY <1>5, InHand DEF Download, At, CallOK
  <2>3. games[call[c].version][f] \in Text \cup {None}
    BY <2>2 DEF GamesOK, Directory
  <2>4. DiskOK'
    BY <1>5, <2>3 DEF Download, DiskOK, Directory
  <2>5. kept' \in [Files -> Text]
    BY <1>5 DEF Download, HistoryOK, Text
  <2> QED
    BY <1>5, <2>1, <2>4, <2>5 DEF Download, GamesOK, CountersOK, HistoryOK, marks
<1> QED
  BY <1>1, <1>2, <1>3, <1>4, <1>5, <1>6

LEMMA TypingOfFiles ==
    ASSUME TInv, NEW c \in Callers,
           \/ Read(c) \/ FetchFails(c) \/ Open(c) \/ Flush(c)
           \/ \E f \in Files : \E old \in Passages, new \in Passages :
                    Edit(c, f, old, new)
           \/ \E f \in Files, text \in Text : Write(c, f, text)
    PROVE  TInv'
<1> USE DEF TInv, Becomes
<1>0. /\ call[c] \in Calls /\ call[c].text \in Text
      /\ call[c].old \in Text /\ call[c].new \in Text
  BY InHand
<1>1. ASSUME NEW f \in Files, NEW old \in Passages, NEW new \in Passages,
             Edit(c, f, old, new)
      PROVE  TInv'
  <2>1. [call[c] EXCEPT !.at = "read", !.file = f, !.old = {old}, !.new = {new}]
           \in Good
    BY <1>0 DEF Good, Calls, CallOK, Locations, Text
  <2> QED
    BY <1>1, <2>1, BecomesGood
    DEF Edit, Starts, disk, DiskOK, GamesOK, CountersOK, HistoryOK, marks
<1>2. ASSUME NEW f \in Files, NEW text \in Text, Write(c, f, text)
      PROVE  TInv'
  <2>1. [call[c] EXCEPT !.at = "open", !.file = f, !.text = text, !.wipe = TRUE]
           \in Good
    BY <1>0 DEF Good, Calls, CallOK, Locations
  <2> QED
    BY <1>2, <2>1, BecomesGood
    DEF Write, Starts, DiskOK, GamesOK, CountersOK, HistoryOK, marks
<1>3. CASE Read(c)
  <2>1. call[c].at = "read" /\ call[c].file \in Files
    BY <1>3, InHand DEF Read, At, CallOK
  <2>2. CASE local[call[c].file] = None
    BY <1>3, <2>2, DoneGood
    DEF Read, disk, history, DiskOK, GamesOK, CountersOK, HistoryOK, marks
  <2>3. CASE local[call[c].file] # None
    <3> DEFINE f == call[c].file
               t == IF call[c].old \subseteq local[f]
                    THEN (local[f] \ call[c].old) \cup call[c].new
                    ELSE local[f]
    <3>1. local[f] \in Text
      BY <2>1, <2>3 DEF DiskOK, Directory
    <3>2. t \in Text
      BY <1>0, <3>1 DEF Text
    <3>3. Becomes(c, [call[c] EXCEPT !.at = "open", !.text = t])
      BY <1>3, <2>3 DEF Read
    <3> HIDE DEF t
    <3>4. [call[c] EXCEPT !.at = "open", !.text = t] \in Good
      BY <1>0, <2>1, <3>2 DEF Good, Calls, CallOK, Locations
    <3>5. CallsOK'
      BY <3>3, <3>4, BecomesGood
    <3> QED
      BY <1>3, <3>5
      DEF Read, disk, history, DiskOK, GamesOK, CountersOK, HistoryOK, marks
  <2> QED
    BY <2>2, <2>3
<1>4. CASE FetchFails(c)
  BY <1>4, DoneGood, WorkspaceAssumption
  DEF FetchFails, Fault, disk, history, DiskOK, GamesOK, CountersOK, HistoryOK, marks
<1>5. CASE Open(c)
  <2>1. call[c].file \in Files
    BY <1>5, InHand DEF Open, At, CallOK
  <2>2. [call[c] EXCEPT !.at = "flush", !.bound = TRUE] \in Good
    BY <1>0, <2>1 DEF Good, Calls, CallOK, Locations
  <2>3. CallsOK'
    BY <1>5, <2>2, BecomesGood, DoneGood DEF Open
  <2>4. {} \in Text
    BY DEF Text
  <2>5. DiskOK'
    BY <1>5, <2>4 DEF Open, DiskOK, Directory
  <2> QED
    BY <1>5, <2>3, <2>5 DEF Open, history, GamesOK, CountersOK, HistoryOK, marks
<1>6. CASE Flush(c)
  <2> DEFINE f == call[c].file
  <2>1. f \in Files
    BY <1>6, InHand DEF Flush, At, CallOK
  <2>2. CallsOK'
    BY <1>6, DoneGood DEF Flush
  <2>3. PICK rest \in SUBSET (IF local[f] = None THEN {} ELSE local[f]) :
            local' = IF call[c].bound
                     THEN [local EXCEPT ![f] = call[c].text \cup rest] ELSE local
    BY <1>6 DEF Flush
  <2>4. local[f] = None \/ local[f] \in Text
    BY <2>1 DEF DiskOK, Directory
  <2>5. call[c].text \cup rest \in Text
    BY <1>0, <2>4 DEF Text
  <2>6. DiskOK'
    BY <1>6, <2>3, <2>5 DEF Flush, DiskOK, Directory
  <2>7. kept[f] \in Text
    BY <2>1 DEF HistoryOK, marks
  <2>8. (kept[f] \ call[c].old) \cup (call[c].new \cap call[c].text) \in Text
    BY <1>0, <2>7 DEF Text
  <2>9. kept' \in [Files -> Text]
    BY <1>0, <1>6, <2>8 DEF Flush, HistoryOK, marks
  <2> QED
    BY <1>6, <2>2, <2>6, <2>9 DEF Flush, GamesOK, CountersOK, HistoryOK, marks
<1> QED
  BY <1>1, <1>2, <1>3, <1>4, <1>5, <1>6

LEMMA TypingOfBuild ==
    ASSUME TInv, NEW c \in Callers,
           \/ UploadEnds(c) \/ Built(c)
           \/ \E f \in Files : Upload(c, f)
           \/ \E v \in 1 .. MaxVersion : Build(c, v)
    PROVE  TInv'
<1> USE DEF TInv, Becomes
<1>0. call[c] \in Calls /\ call[c].todo \subseteq Files
  BY InHand
<1>1. ASSUME NEW v \in 1 .. MaxVersion, Build(c, v) PROVE TInv'
  <2> DEFINE files == Present(local)
             r == [call[c] EXCEPT !.at = "upload", !.version = v, !.todo = files]
  <2>1. Becomes(c, r)
    BY <1>1 DEF Build
  <2>2. files \in SUBSET Files /\ v \in 0 .. MaxVersion
    BY WorkspaceAssumption DEF Present
  <2> HIDE DEF files
  <2>3. r \in Calls /\ r.at = "upload" /\ r.version = v
    BY <1>0, <2>2 DEF Calls, Locations
  <2>4. r \in Good
    BY <2>3 DEF Good, CallOK
  <2>5. CallsOK'
    BY <2>1, <2>4, BecomesGood
  <2> QED
    BY <1>1, <2>5
    DEF Build, disk, history, DiskOK, GamesOK, CountersOK, HistoryOK, marks
<1>2. ASSUME NEW f \in Files, Upload(c, f) PROVE TInv'
  <2>1. call[c].at = "upload" /\ call[c].version \in 1 .. MaxVersion
    BY <1>2, InHand DEF Upload, At, CallOK
  <2>2. [call[c] EXCEPT !.todo = @ \ {f}] \in Good
    BY <1>0, <2>1 DEF Good, Calls, CallOK
  <2>3. CallsOK'
    BY <1>2, <2>2, BecomesGood DEF Upload
  <2>4. local[f] \in Text \cup {None}
    BY DEF DiskOK, Directory
  <2>5. [games[call[c].version] EXCEPT ![f] = local[f]] \in Directory
    BY <2>1, <2>4 DEF GamesOK, Directory
  <2>6. GamesOK'
    BY <1>2, <2>5 DEF Upload, GamesOK
  <2> QED
    BY <1>2, <2>3, <2>6 DEF Upload, disk, history, DiskOK, CountersOK, HistoryOK, marks
<1>3. CASE UploadEnds(c)
  <2>1. call[c].at = "upload" /\ call[c].version \in 1 .. MaxVersion
    BY <1>3, InHand DEF UploadEnds, At, CallOK
  <2>2. [call[c] EXCEPT !.at = "built"] \in Good
    BY <1>0, <2>1 DEF Good, Calls, CallOK, Locations
  <2>3. CallsOK'
    BY <1>3, <2>2, BecomesGood DEF UploadEnds, Goto
  <2> QED
    BY <1>3, <2>3, WorkspaceAssumption
    DEF UploadEnds, Fault, disk, history, DiskOK, GamesOK, CountersOK, HistoryOK, marks
<1>4. CASE Built(c)
  BY <1>4, DoneGood, InHand
  DEF Built, disk, DiskOK, GamesOK, CountersOK, HistoryOK, marks
<1> QED
  BY <1>1, <1>2, <1>3, <1>4

LEMMA TypingOfClean ==
    ASSUME TInv, NEW c \in Callers,
           Clean(c) \/ Removed(c) \/ \E f \in Files : Unlink(c, f)
    PROVE  TInv'
<1> USE DEF TInv, Becomes
<1>0. call[c] \in Calls
  BY InHand
<1>1. CASE Clean(c)
  <2> DEFINE files == Present(local)
             r == [call[c] EXCEPT !.at = "clean", !.todo = files]
  <2>1. Becomes(c, r)
    BY <1>1 DEF Clean
  <2>2. files \in SUBSET Files
    BY DEF Present
  <2> HIDE DEF files
  <2>3. r \in Good
    BY <1>0, <2>2 DEF Good, Calls, CallOK, Locations
  <2>4. CallsOK'
    BY <2>1, <2>3, BecomesGood
  <2> QED
    BY <1>1, <2>4 DEF Clean, Starts, disk, DiskOK, GamesOK, CountersOK, HistoryOK, marks
<1>2. ASSUME NEW f \in Files, Unlink(c, f) PROVE TInv'
  <2>1. CallsOK'
    BY <1>2, UnbindGood, DoneGood DEF Unlink
  <2>2. kept' \in [Files -> Text] /\ DiskOK'
    BY <1>2 DEF Unlink, HistoryOK, Text, DiskOK, Directory
  <2> QED
    BY <1>2, <2>1, <2>2 DEF Unlink, GamesOK, CountersOK, HistoryOK, marks
<1>3. CASE Removed(c)
  BY <1>3, DoneGood
  DEF Removed, history, DiskOK, GamesOK, CountersOK, HistoryOK, marks
<1> QED
  BY <1>1, <1>2, <1>3

LEMMA TypingOfCrash ==
    ASSUME TInv, Crash
    PROVE  TInv'
<1>1. CallsOK'
  BY IdleGood DEF Crash, CallsOK
<1>2. mixed' \subseteq Files
  <2>1. Emptied \subseteq Files
    BY InHand DEF Emptied, At, CallOK, TInv
  <2> QED
    BY <2>1 DEF Crash, TInv, HistoryOK, marks
<1> QED
  BY <1>1, <1>2, WorkspaceAssumption
  DEF Crash, TInv, disk, DiskOK, GamesOK, CountersOK, HistoryOK, marks

LEMMA TypingOfNext ==
    ASSUME TInv, [Next]_vars
    PROVE  TInv'
<1>1. CASE UNCHANGED vars
  BY <1>1 DEF vars, TInv, DiskOK, GamesOK, CountersOK, HistoryOK, CallsOK
<1>2. CASE Crash
  BY <1>2, TypingOfCrash
<1>3. ASSUME NEW c \in Callers, Ask(c) \/ Step(c) PROVE TInv'
  <2>1. CASE Ask(c)
    BY <2>1, TypingOfLoad, TypingOfFiles, TypingOfBuild, TypingOfClean DEF Ask
  <2>2. CASE Step(c)
    BY <2>2, TypingOfLoad, TypingOfFiles, TypingOfBuild, TypingOfClean DEF Step
  <2> QED
    BY <1>3, <2>1, <2>2
<1> QED
  BY <1>1, <1>2, <1>3 DEF Next

LEMMA TypingOfInit == Init => TInv
<1> SUFFICES ASSUME Init PROVE TInv
  OBVIOUS
<1>1. DiskOK /\ GamesOK
  BY DEF Init, DiskOK, GamesOK, Directory
<1>2. CountersOK
  BY WorkspaceAssumption DEF Init, CountersOK
<1>3. HistoryOK
  BY DEF Init, HistoryOK, Text
<1>4. CallsOK
  BY IdleGood DEF Init, CallsOK
<1> QED
  BY <1>1, <1>2, <1>3, <1>4 DEF TInv

LEMMA AlwaysTyped == Spec => []TInv
  BY TypingOfInit, TypingOfNext, PTL DEF Spec

(* Every variable has its type, and a call that works on a file has one.   *)
THEOREM Typing == Spec => []TypeOK
<1>1. TInv => TypeOK
  BY InHand DEF TInv, TypeOK, DiskOK, GamesOK, CountersOK, HistoryOK, CallsOK,
                Good, CallOK
<1> QED
  BY <1>1, AlwaysTyped, PTL

-----------------------------------------------------------------------------
(* The versions are numbered without a gap.  A call that builds is at most *)
(* one version ahead of them, because the agent was told of none that is   *)
(* not there; versions never disappear, so the call stays at most one      *)
(* ahead while others build.                                               *)

Fits(r, n) ==
    /\ r.at \in {"upload", "built"} => r.version <= n + 1
    /\ r.at \in {"list", "download"} => r.version <= n

Numbered(n) ==
    /\ Versions = 1 .. n
    /\ told <= n
    /\ \A c \in Callers : Fits(call[c], n)

NInv == hollow \/ \E n \in 0 .. MaxVersion : Numbered(n)

(* A step that leaves the bucket alone keeps the numbering, if what it     *)
(* tells and what its call holds fits.                                     *)
LEMMA NumberingKept ==
    ASSUME NEW n \in 0 .. MaxVersion, Numbered(n), UNCHANGED games,
           told' <= n, \A c \in Callers : Fits(call'[c], n)
    PROVE  NInv'
  BY DEF NInv, Numbered, Versions, Present

LEMMA IdleFits == \A n : Fits(Idle, n)
  BY DEF Fits, Idle

LEMMA NumberingOfStep ==
    ASSUME TInv, NInv, NEW c \in Callers,
           \/ Load(c) \/ Listed(c) \/ ListFiles(c) \/ StartsWithV1(c) \/ Loaded(c)
           \/ Read(c) \/ FetchFails(c) \/ Open(c) \/ Flush(c)
           \/ UploadEnds(c) \/ Built(c) \/ Removed(c) \/ Clean(c)
           \/ \E f \in Files : Download(c, f) \/ Unlink(c, f)
           \/ \E f \in Files : \E old \in Passages, new \in Passages :
                    Edit(c, f, old, new)
           \/ \E f \in Files, text \in Text : Write(c, f, text)
    PROVE  NInv'
<1> USE DEF TInv
<1>0. UNCHANGED games /\ (hollow => hollow')
  <2>1. ASSUME \/ Load(c) \/ Listed(c) \/ ListFiles(c) \/ StartsWithV1(c) \/ Loaded(c)
               \/ Clean(c) \/ Removed(c) \/ UploadEnds(c)
               \/ \E f \in Files : Download(c, f) \/ Unlink(c, f)
        PROVE  UNCHANGED <<games, hollow>>
    BY <2>1 DEF Load, Listed, ListFiles, StartsWithV1, Loaded, Clean, Removed,
                UploadEnds, Download, Unlink, history, marks
  <2>3. CASE Built(c)
    BY <2>3 DEF Built
  <2>2. CASE \/ Read(c) \/ FetchFails(c) \/ Open(c) \/ Flush(c)
             \/ \E f \in Files : \E old \in Passages, new \in Passages :
                    Edit(c, f, old, new)
             \/ \E f \in Files, text \in Text : Write(c, f, text)
    <3>1. UNCHANGED <<games, hollow>>
      BY <2>2 DEF Read, FetchFails, Open, Flush, Edit, Write, history, marks
    <3> QED
      BY <3>1
  <2> QED
    BY <2>1, <2>2, <2>3
<1>1. CASE hollow
  BY <1>0, <1>1 DEF NInv
<1>2. CASE ~hollow
  <2>1. PICK n \in 0 .. MaxVersion : Numbered(n)
    BY <1>2 DEF NInv
  <2>2. Fits(call[c], n) /\ told <= n /\ Count = n /\ Versions = 1 .. n
    BY <2>1, CountBounds DEF Numbered
  <2>3. call[c] \in Calls /\ call[c].version \in 0 .. MaxVersion
    BY InHand
  <2>4. ASSUME NEW r, Becomes(c, r), Fits(r, n), told' <= n
        PROVE  NInv'
    <3>1. \A b \in Callers : Fits(call'[b], n)
      BY <2>1, <2>4 DEF Numbered, Becomes, CallsOK
    <3> QED
      BY <2>1, <2>4, <3>1, <1>0, NumberingKept
  <2>5. ASSUME Done(c), told' <= n PROVE NInv'
    BY <2>4, <2>5, IdleFits DEF Done
  <2>6. ASSUME NEW f \in Files,
               call' = [Unbind(f, call) EXCEPT ![c].todo = @ \ {f}],
               UNCHANGED told
        PROVE  NInv'
    <3>1. \A b \in Callers : /\ call'[b].at = call[b].at
                             /\ call'[b].version = call[b].version
      BY <2>6, UnbindGood
    <3>2. \A b \in Callers : Fits(call'[b], n)
      BY <2>1, <3>1 DEF Numbered, Fits
    <3> QED
      BY <2>1, <2>2, <2>6, <3>2, <1>0, NumberingKept
  <2>7. CASE Load(c)
    <3>1. Fits([call[c] EXCEPT !.at = "count"], n)
      BY <2>3 DEF Fits, Calls
    <3> QED
      BY <2>2, <2>4, <2>7, <3>1 DEF Load, Goto
  <2>8. CASE Listed(c)
    <3>1. Becomes(c, [call[c] EXCEPT !.at = "list", !.version = Count])
          /\ UNCHANGED told
      BY <2>8 DEF Listed
    <3>2. Fits([call[c] EXCEPT !.at = "list", !.version = Count], n)
      BY <2>2, <2>3 DEF Fits, Calls
    <3> QED
      BY <2>2, <2>4, <3>1, <3>2
  <2>22. CASE ListFiles(c)
    <3> DEFINE files == Present(games[call[c].version])
    <3>1. Becomes(c, [call[c] EXCEPT !.at = "download", !.todo = files])
          /\ UNCHANGED told /\ call[c].version <= n
      BY <2>2, <2>22 DEF ListFiles, At, Fits
    <3> HIDE DEF files
    <3>2. Fits([call[c] EXCEPT !.at = "download", !.todo = files], n)
      BY <2>3, <3>1 DEF Fits, Calls
    <3> QED
      BY <2>2, <2>4, <3>1, <3>2
  <2>9. CASE StartsWithV1(c)
    BY <2>5, <2>9 DEF StartsWithV1
  <2>10. CASE Loaded(c)
    BY <2>2, <2>5, <2>10 DEF Loaded, At, Fits
  <2>11. CASE Read(c)
    <3>1. PICK t : \/ Done(c)
                   \/ Becomes(c, [call[c] EXCEPT !.at = "open", !.text = t])
      BY <2>11 DEF Read
    <3>2. Fits([call[c] EXCEPT !.at = "open", !.text = t], n)
      BY <2>3 DEF Fits, Calls
    <3> QED
      BY <2>2, <2>4, <2>5, <2>11, <3>1, <3>2 DEF Read
  <2>12. CASE FetchFails(c)
    BY <2>2, <2>5, <2>12 DEF FetchFails
  <2>13. CASE Open(c)
    <3>1. Fits([call[c] EXCEPT !.at = "flush", !.bound = TRUE], n)
      BY <2>3 DEF Fits, Calls
    <3> QED
      BY <2>2, <2>4, <2>5, <2>13, <3>1 DEF Open
  <2>14. CASE Flush(c)
    BY <2>2, <2>5, <2>14 DEF Flush
  <2>15. CASE UploadEnds(c)
    <3>1. Fits([call[c] EXCEPT !.at = "built"], n)
      BY <2>2, <2>3, <2>15 DEF UploadEnds, At, Fits, Calls
    <3> QED
      BY <2>2, <2>4, <2>15, <3>1 DEF UploadEnds, Goto
  <2>16. CASE Built(c)
    <3>1. CASE call[c].version \notin Versions
      BY <2>16, <3>1 DEF Built, NInv
    <3>2. CASE call[c].version \in Versions
      BY <2>2, <2>5, <2>16, <3>2 DEF Built
    <3> QED
      BY <3>1, <3>2
  <2>17. CASE Removed(c)
    BY <2>2, <2>5, <2>17 DEF Removed
  <2>18. CASE Clean(c)
    <3>1. PICK files : Becomes(c, [call[c] EXCEPT !.at = "clean", !.todo = files])
      BY <2>18 DEF Clean
    <3>2. Fits([call[c] EXCEPT !.at = "clean", !.todo = files], n)
      BY <2>3 DEF Fits, Calls
    <3> QED
      BY <2>2, <2>4, <2>18, <3>1, <3>2 DEF Clean
  <2>19. ASSUME NEW f \in Files, Download(c, f) \/ Unlink(c, f) PROVE NInv'
    BY <2>2, <2>5, <2>6, <2>19 DEF Download, Unlink
  <2>20. ASSUME NEW f \in Files, NEW old, NEW new, Edit(c, f, old, new)
         PROVE  NInv'
    <3>1. Fits([call[c] EXCEPT !.at = "read", !.file = f, !.old = {old},
                               !.new = {new}], n)
      BY <2>3 DEF Fits, Calls
    <3> QED
      BY <2>2, <2>4, <2>20, <3>1 DEF Edit
  <2>21. ASSUME NEW f \in Files, NEW text \in Text, Write(c, f, text)
         PROVE  NInv'
    <3>1. Fits([call[c] EXCEPT !.at = "open", !.file = f, !.text = text,
                               !.wipe = TRUE], n)
      BY <2>3 DEF Fits, Calls
    <3> QED
      BY <2>2, <2>4, <2>21, <3>1 DEF Write
  <2> QED
    BY <2>7, <2>8, <2>9, <2>10, <2>11, <2>12, <2>13, <2>14, <2>15, <2>16, <2>17,
       <2>18, <2>19, <2>20, <2>21, <2>22
<1> QED
  BY <1>1, <1>2

(* The agent asks for the version it was told of or for the one after it.  *)
LEMMA NumberingOfBuild ==
    ASSUME TInv, NInv, NEW c \in Callers,
           NEW v \in {told, told + 1} \cap (1 .. MaxVersion), Build(c, v)
    PROVE  NInv'
<1>1. UNCHANGED <<games, told, hollow>>
  BY DEF Build, history, marks
<1>2. CASE hollow
  BY <1>1, <1>2 DEF NInv
<1>3. CASE ~hollow
  <2>1. PICK n \in 0 .. MaxVersion : Numbered(n)
    BY <1>3 DEF NInv
  <2>2. PICK files : Becomes(c, [call[c] EXCEPT !.at = "upload", !.version = v,
                                                !.todo = files])
    BY DEF Build
  <2>3. Fits([call[c] EXCEPT !.at = "upload", !.version = v, !.todo = files], n)
    BY <2>1, InHand, WorkspaceAssumption DEF TInv, CountersOK, Numbered, Fits, Calls
  <2>4. \A b \in Callers : Fits(call'[b], n)
    BY <2>1, <2>2, <2>3 DEF Numbered, Becomes, TInv, CallsOK
  <2> QED
    BY <1>1, <2>1, <2>4, NumberingKept DEF Numbered
<1> QED
  BY <1>2, <1>3

(* A version with a file put into it is there.                             *)
LEMMA UploadAdds ==
    ASSUME TInv, NEW c \in Callers, NEW f \in Files, Upload(c, f)
    PROVE  /\ call[c].version \in 1 .. MaxVersion
           /\ Versions' = Versions \cup {call[c].version}
<1> DEFINE v == call[c].version
<1>1. v \in 1 .. MaxVersion
  BY InHand DEF Upload, At, CallOK, TInv
<1>2. \A u \in 1 .. MaxVersion : u # v => games'[u] = games[u]
  BY DEF Upload, TInv, GamesOK
<1>3. games'[v][f] # None
  BY <1>1 DEF Upload, TInv, GamesOK, Directory
<1> QED
  BY <1>1, <1>2, <1>3 DEF Versions, Present

(* A file put into the version after the last makes it the last.           *)
LEMMA NumberingOfUpload ==
    ASSUME TInv, NInv, NEW c \in Callers, NEW f \in Files, Upload(c, f)
    PROVE  NInv'
<1>0. UNCHANGED <<told, hollow>>
  BY DEF Upload, history, marks
<1>1. CASE hollow
  BY <1>0, <1>1 DEF NInv
<1>2. CASE ~hollow
  <2> DEFINE v == call[c].version
  <2>1. PICK n \in 0 .. MaxVersion : Numbered(n)
    BY <1>2 DEF NInv
  <2>2. call[c].at = "upload" /\ v \in 1 .. MaxVersion
    BY UploadAdds DEF Upload, At
  <2>3. v <= n + 1
    BY <2>1, <2>2 DEF Numbered, Fits
  <2>6. Versions' = Versions \cup {v}
    BY UploadAdds
  <2>7. PICK m \in {n, n + 1} \cap (0 .. MaxVersion) : Versions' = 1 .. m
    <3>1. CASE v <= n
      <4>1. Versions' = 1 .. n
        BY <2>1, <2>2, <2>6, <3>1 DEF Numbered
      <4> QED
        BY <4>1
    <3>2. CASE v = n + 1
      <4>1. Versions' = 1 .. (n + 1)
        BY <2>1, <2>6, <3>2 DEF Numbered
      <4> QED
        BY <2>2, <3>2, <4>1, WorkspaceAssumption
    <3> QED
      BY <2>2, <2>3, <3>1, <3>2, WorkspaceAssumption
  <2>8. \A b \in Callers : call[b] \in Calls /\ call[b].version \in 0 .. MaxVersion
    BY InHand DEF TInv
  <2>9. \A b \in Callers : /\ call'[b].at = call[b].at
                           /\ call'[b].version = call[b].version
    BY <2>8 DEF Upload, Becomes, TInv, CallsOK, Calls
  <2>10. \A b \in Callers : Fits(call'[b], m)
    BY <2>1, <2>7, <2>8, <2>9, WorkspaceAssumption DEF Numbered, Fits
  <2>11. told' <= m
    BY <1>0, <2>1, <2>7, WorkspaceAssumption DEF Numbered, TInv, CountersOK
  <2> QED
    BY <2>7, <2>10, <2>11 DEF NInv, Numbered
<1> QED
  BY <1>1, <1>2

LEMMA NumberingOfCrash ==
    ASSUME TInv, NInv, Crash
    PROVE  NInv'
<1>1. UNCHANGED <<games, told, hollow>> /\ \A c \in Callers : call'[c] = Idle
  BY DEF Crash
<1>2. CASE hollow
  BY <1>1, <1>2 DEF NInv
<1>3. CASE ~hollow
  BY <1>1, <1>3, IdleFits, NumberingKept DEF NInv, Numbered
<1> QED
  BY <1>2, <1>3

LEMMA NumberingOfNext ==
    ASSUME TInv, NInv, [Next]_vars
    PROVE  NInv'
<1>1. CASE UNCHANGED vars
  BY <1>1 DEF vars, NInv, Numbered, Versions, Present
<1>2. CASE Crash
  BY <1>2, NumberingOfCrash
<1>3. ASSUME NEW c \in Callers, Ask(c) \/ Step(c) PROVE NInv'
  <2>1. CASE Ask(c)
    BY <2>1, NumberingOfStep, NumberingOfBuild DEF Ask
  <2>2. CASE Step(c)
    BY <2>2, NumberingOfStep, NumberingOfUpload DEF Step
  <2> QED
    BY <1>3, <2>1, <2>2
<1> QED
  BY <1>1, <1>2, <1>3 DEF Next

LEMMA NumberingOfInit == Init => NInv
<1> SUFFICES ASSUME Init PROVE Numbered(0)
  BY WorkspaceAssumption DEF NInv
<1>1. Versions = {}
  BY DEF Init, Versions, Present
<1> QED
  BY <1>1, IdleFits DEF Init, Numbered

(* The number of versions is the newest version's, unless some build       *)
(* answered without having put a file into its version.                    *)
THEOREM NoVersionIsSkipped == Spec => []VersionsAreCounted
<1>1. NInv => VersionsAreCounted
  BY CountBounds DEF NInv, Numbered, VersionsAreCounted
<1>2. Spec => [](TInv /\ NInv)
  <2>1. Init => TInv /\ NInv
    BY TypingOfInit, NumberingOfInit
  <2>2. (TInv /\ NInv) /\ [Next]_vars => (TInv /\ NInv)'
    BY TypingOfNext, NumberingOfNext
  <2> QED
    BY <2>1, <2>2, PTL DEF Spec
<1> QED
  BY <1>1, <1>2, PTL

-----------------------------------------------------------------------------
(* What the agent was told last is the newest version, as long as nothing  *)
(* blurred it: one call at a time finds out or builds versions, and it     *)
(* builds the newest one or the next.                                      *)

AboutVersions == {"count", "list", "download", "upload", "built"}

Knows(n) ==
    /\ Versions = 1 .. n
    /\ Versioning = {} => told = n
    /\ \A c \in Versioning :
        /\ Versioning = {c}
        /\ At(c, "count") => told = n
        /\ call[c].at \in {"list", "download"} => told = n /\ call[c].version = n
        /\ call[c].at \in {"upload", "built"} => call[c].version \in {n, n + 1}

KInv == hollow \/ blurred \/ \E n \in 0 .. MaxVersion : Knows(n)

LEMMA IdleOut == Idle.at \notin AboutVersions
  BY DEF Idle, AboutVersions

(* A step that leaves the bucket and the calls about versions alone.       *)
LEMMA KnowledgeKept ==
    ASSUME NEW n \in 0 .. MaxVersion, Knows(n), UNCHANGED <<games, told>>,
           \A b \in Callers :
               \/ call'[b].at = call[b].at /\ call'[b].version = call[b].version
               \/ /\ call[b].at \notin AboutVersions
                  /\ call'[b].at \notin AboutVersions
    PROVE  Knows(n)'
<1>1. Versions' = Versions
  BY DEF Versions, Present
<1>2. Versioning' = Versioning
  BY DEF Versioning, AboutVersions
<1>3. \A b \in Versioning : /\ call'[b].at = call[b].at
                            /\ call'[b].version = call[b].version
  BY DEF Versioning, AboutVersions
<1> QED
  BY <1>1, <1>2, <1>3 DEF Knows, At

(* The steps of calls that read, write and remove files, and the fetches   *)
(* of a download, are such steps.                                          *)
LEMMA KnowledgeElsewhere ==
    ASSUME TInv, NEW c \in Callers, NEW n \in 0 .. MaxVersion, Knows(n),
           \/ Read(c) \/ FetchFails(c) \/ Open(c) \/ Flush(c)
           \/ Removed(c) \/ Clean(c)
           \/ \E f \in Files : Download(c, f) \/ Unlink(c, f)
           \/ \E f \in Files : \E old \in Passages, new \in Passages :
                    Edit(c, f, old, new)
           \/ \E f \in Files, text \in Text : Write(c, f, text)
    PROVE  Knows(n)'
<1>0. call[c] \in Calls
  BY InHand DEF TInv
<1>1. ASSUME NEW r, Becomes(c, r), r.at \notin AboutVersions,
             call[c].at \notin AboutVersions, UNCHANGED <<games, told>>
      PROVE  Knows(n)'
  <2>1. \A b \in Callers : call'[b] = IF b = c THEN r ELSE call[b]
    BY <1>1 DEF Becomes, TInv, CallsOK
  <2> QED
    BY <1>1, <2>1, KnowledgeKept
<1>2. ASSUME Done(c), call[c].at \notin AboutVersions, UNCHANGED <<games, told>>
      PROVE  Knows(n)'
  BY <1>1, <1>2, IdleOut DEF Done
<1>3. ASSUME NEW f \in Files,
             call' = [Unbind(f, call) EXCEPT ![c].todo = @ \ {f}],
             UNCHANGED <<games, told>>
      PROVE  Knows(n)'
  BY <1>3, UnbindGood, KnowledgeKept DEF TInv
<1>4. CASE Read(c)
  <2>1. PICK t : Done(c) \/ Becomes(c, [call[c] EXCEPT !.at = "open", !.text = t])
    BY <1>4 DEF Read
  <2>2. [call[c] EXCEPT !.at = "open", !.text = t].at = "open"
    BY <1>0 DEF Calls
  <2>3. call[c].at \notin AboutVersions /\ UNCHANGED <<games, told>>
    BY <1>4 DEF Read, At, AboutVersions
  <2> QED
    BY <1>1, <1>2, <2>1, <2>2, <2>3 DEF AboutVersions
<1>5. CASE FetchFails(c)
  BY <1>2, <1>5 DEF FetchFails, At, AboutVersions
<1>6. CASE Open(c)
  <2>1. [call[c] EXCEPT !.at = "flush", !.bound = TRUE].at = "flush"
    BY <1>0 DEF Calls
  <2> QED
    BY <1>1, <1>2, <1>6, <2>1 DEF Open, At, AboutVersions
<1>7. CASE Flush(c)
  BY <1>2, <1>7 DEF Flush, At, AboutVersions
<1>8. CASE Removed(c)
  BY <1>2, <1>8 DEF Removed, At, AboutVersions
<1>9. CASE Clean(c)
  <2>1. PICK files : Becomes(c, [call[c] EXCEPT !.at = "clean", !.todo = files])
    BY <1>9 DEF Clean
  <2>2. [call[c] EXCEPT !.at = "clean", !.todo = files].at = "clean"
    BY <1>0 DEF Calls
  <2> QED
    BY <1>1, <1>9, <2>1, <2>2 DEF Clean, Starts, At, AboutVersions
<1>10. ASSUME NEW f \in Files, Download(c, f) \/ Unlink(c, f) PROVE Knows(n)'
  <2>1. CASE Download(c, f)
    BY <1>3, <2>1 DEF Download
  <2>2. CASE Unlink(c, f)
    BY <1>2, <1>3, <2>2 DEF Unlink, At, AboutVersions
  <2> QED
    BY <1>10, <2>1, <2>2
<1>11. ASSUME NEW f \in Files, NEW old, NEW new, Edit(c, f, old, new)
       PROVE  Knows(n)'
  <2>1. [call[c] EXCEPT !.at = "read", !.file = f, !.old = {old},
                        !.new = {new}].at = "read"
    BY <1>0 DEF Calls
  <2> QED
    BY <1>1, <1>11, <2>1 DEF Edit, Starts, At, AboutVersions
<1>12. ASSUME NEW f \in Files, NEW text \in Text, Write(c, f, text)
       PROVE  Knows(n)'
  <2>1. [call[c] EXCEPT !.at = "open", !.file = f, !.text = text,
                        !.wipe = TRUE].at = "open"
    BY <1>0 DEF Calls
  <2> QED
    BY <1>1, <1>12, <2>1 DEF Write, Starts, At, AboutVersions
<1> QED
  BY <1>4, <1>5, <1>6, <1>7, <1>8, <1>9, <1>10, <1>11, <1>12

(* A step of the only call about versions keeps the knowledge, if what it  *)
(* tells and what it holds is right.                                       *)
LEMMA KnowledgeAlone ==
    ASSUME TInv, NEW c \in Callers, NEW r, NEW m \in 0 .. MaxVersion,
           Becomes(c, r), Versioning \subseteq {c}, Versions' = 1 .. m,
           r.at \notin {"upload", "built"} => told' = m,
           r.at \in {"list", "download"} => r.version = m,
           r.at \in {"upload", "built"} => r.version \in {m, m + 1}
    PROVE  Knows(m)'
<1>1. \A b \in Callers : call'[b] = IF b = c THEN r ELSE call[b]
  BY DEF Becomes, TInv, CallsOK
<1>2. Versioning' = IF r.at \in AboutVersions THEN {c} ELSE {}
  BY <1>1 DEF Versioning, AboutVersions
<1>3. CASE r.at \in AboutVersions
  BY <1>1, <1>2, <1>3 DEF Knows, At
<1>4. CASE r.at \notin AboutVersions
  BY <1>2, <1>4 DEF Knows, At, AboutVersions
<1> QED
  BY <1>3, <1>4

LEMMA KnowledgeOfVersionStep ==
    ASSUME TInv, NEW c \in Callers, NEW n \in 0 .. MaxVersion, Knows(n),
           ~hollow', ~blurred',
           \/ Load(c) \/ Listed(c) \/ ListFiles(c) \/ StartsWithV1(c) \/ Loaded(c)
           \/ UploadEnds(c) \/ Built(c)
           \/ \E v \in {told, told + 1} \cap (1 .. MaxVersion) : Build(c, v)
           \/ \E f \in Files : Upload(c, f)
    PROVE  KInv'
<1>0. call[c] \in Calls /\ call[c].version \in 0 .. MaxVersion
  BY InHand DEF TInv
<1>1. Versions = 1 .. n /\ Count = n
  BY CountBounds DEF Knows
<1>2. ASSUME UNCHANGED games PROVE Versions' = 1 .. n
  BY <1>1, <1>2 DEF Versions, Present
<1>3. ASSUME call[c].at \in AboutVersions
      PROVE  /\ Versioning = {c}
             /\ call[c].at \in {"count", "list", "download"} => told = n
             /\ call[c].at \in {"list", "download"} => call[c].version = n
             /\ call[c].at \in {"upload", "built"} => call[c].version \in {n, n + 1}
  BY <1>3 DEF Knows, Versioning, AboutVersions, At
<1>4. CASE Load(c)
  <2>1. Versioning = {} /\ told' = n /\ UNCHANGED games
    BY <1>4 DEF Load, Knows
  <2>2. [call[c] EXCEPT !.at = "count"].at = "count"
    BY <1>0 DEF Calls
  <2>3. Becomes(c, [call[c] EXCEPT !.at = "count"])
    BY <1>4 DEF Load, Goto
  <2>4. Knows(n)'
    BY <1>2, <2>1, <2>2, <2>3, KnowledgeAlone
  <2> QED
    BY <2>4 DEF KInv
<1>5. CASE Listed(c)
  <2> DEFINE r == [call[c] EXCEPT !.at = "list", !.version = Count]
  <2>1. Becomes(c, r) /\ UNCHANGED <<games, told>> /\ call[c].at = "count"
    BY <1>5 DEF Listed, At
  <2>2. r.at = "list" /\ r.version = Count
    BY <1>0 DEF Calls
  <2>3. Versioning = {c} /\ told = n
    BY <1>3, <2>1 DEF AboutVersions
  <2> HIDE DEF r
  <2>4. Knows(n)'
    BY <1>1, <1>2, <2>1, <2>2, <2>3, KnowledgeAlone
  <2> QED
    BY <2>4 DEF KInv
<1>20. CASE ListFiles(c)
  <2> DEFINE files == Present(games[call[c].version])
             r == [call[c] EXCEPT !.at = "download", !.todo = files]
  <2>1. Becomes(c, r) /\ UNCHANGED <<games, told>> /\ call[c].at = "list"
    BY <1>20 DEF ListFiles, At
  <2> HIDE DEF files
  <2>2. r.at = "download" /\ r.version = call[c].version
    BY <1>0 DEF Calls
  <2>3. Versioning = {c} /\ told = n /\ call[c].version = n
    BY <1>3, <2>1 DEF AboutVersions
  <2> HIDE DEF r
  <2>4. Knows(n)'
    BY <1>2, <2>1, <2>2, <2>3, KnowledgeAlone
  <2> QED
    BY <2>4 DEF KInv
<1>6. ASSUME Done(c), call[c].at \in AboutVersions, told' = n, UNCHANGED games
      PROVE  KInv'
  <2>1. Idle.at = "idle" /\ Becomes(c, Idle)
    BY <1>6 DEF Done, Idle
  <2>2. Knows(n)'
    BY <1>2, <1>3, <1>6, <2>1, KnowledgeAlone
  <2> QED
    BY <2>2 DEF KInv
<1>7. CASE StartsWithV1(c)
  <2>1. Count = 0 /\ told' = 0 /\ UNCHANGED games /\ Done(c) /\ call[c].at = "count"
    BY <1>7 DEF StartsWithV1, At
  <2> QED
    BY <1>1, <1>6, <2>1 DEF AboutVersions
<1>8. CASE Loaded(c)
  <2>1. told' = call[c].version /\ UNCHANGED games /\ Done(c)
        /\ call[c].at \in {"list", "download"}
    BY <1>8 DEF Loaded, At
  <2> QED
    BY <1>3, <1>6, <2>1 DEF AboutVersions
<1>9. CASE UploadEnds(c)
  <2> DEFINE r == [call[c] EXCEPT !.at = "built"]
  <2>1. Becomes(c, r) /\ UNCHANGED games /\ call[c].at = "upload"
    BY <1>9 DEF UploadEnds, Goto, At
  <2>2. r.at = "built" /\ r.version = call[c].version
    BY <1>0 DEF Calls
  <2>3. Versioning = {c} /\ call[c].version \in {n, n + 1}
    BY <1>3, <2>1 DEF AboutVersions
  <2> HIDE DEF r
  <2>4. Knows(n)'
    BY <1>2, <2>1, <2>2, <2>3, KnowledgeAlone
  <2> QED
    BY <2>4 DEF KInv
<1>10. CASE Built(c)
  <2>1. told' = call[c].version /\ UNCHANGED games /\ Done(c)
        /\ call[c].at = "built" /\ call[c].version \in Versions
    BY <1>10 DEF Built, At
  <2>2. call[c].version \in {n, n + 1}
    BY <1>3, <2>1 DEF AboutVersions
  <2>3. call[c].version = n
    BY <1>1, <2>1, <2>2
  <2> QED
    BY <1>6, <2>1, <2>3 DEF AboutVersions
<1>11. ASSUME NEW v \in {told, told + 1} \cap (1 .. MaxVersion), Build(c, v)
       PROVE  KInv'
  <2>1. PICK files : Becomes(c, [call[c] EXCEPT !.at = "upload", !.version = v,
                                                !.todo = files])
    BY <1>11 DEF Build
  <2> DEFINE r == [call[c] EXCEPT !.at = "upload", !.version = v,
                                  !.todo = files]
  <2>2. Versioning = {} /\ told = n /\ UNCHANGED games
    BY <1>11 DEF Build, Knows
  <2>3. r.at = "upload" /\ r.version = v
    BY <1>0 DEF Calls
  <2>4. v \in {n, n + 1}
    BY <2>2
  <2> HIDE DEF r
  <2>5. Becomes(c, r)
    BY <2>1 DEF r
  <2>6. Knows(n)'
    BY <1>2, <2>2, <2>3, <2>4, <2>5, KnowledgeAlone
  <2> QED
    BY <2>6 DEF KInv
<1>12. ASSUME NEW f \in Files, Upload(c, f) PROVE KInv'
  <2> DEFINE v == call[c].version
             r == [call[c] EXCEPT !.todo = @ \ {f}]
  <2>1. Becomes(c, r) /\ call[c].at = "upload"
    BY <1>12 DEF Upload, At
  <2>2. r.at = "upload" /\ r.version = v
    BY <1>0, <2>1 DEF Calls
  <2>3. Versioning = {c} /\ v \in {n, n + 1}
    BY <1>3, <2>1 DEF AboutVersions
  <2>4. v \in 1 .. MaxVersion /\ Versions' = (1 .. n) \cup {v}
    BY <1>1, <1>12, UploadAdds
  <2>5. Versions' = 1 .. v /\ v \in {v, v + 1}
    <3>1. CASE v = n
      BY <2>4, <3>1
    <3>2. CASE v = n + 1
      BY <2>4, <3>2
    <3> QED
      BY <2>3, <3>1, <3>2
  <2>6. PICK m \in 0 .. MaxVersion : m = v
    BY <2>4
  <2> HIDE DEF r, v
  <2>7. Versions' = 1 .. m /\ r.version \in {m, m + 1} /\ r.at = "upload"
    BY <2>2, <2>5, <2>6
  <2>8. Knows(m)'
    BY <2>1, <2>3, <2>7, KnowledgeAlone
  <2> QED
    BY <2>8 DEF KInv
<1> QED
  BY <1>4, <1>5, <1>7, <1>8, <1>9, <1>10, <1>11, <1>12, <1>20

(* A crash that hits no build leaves the agent with what it was told.      *)
LEMMA KnowledgeOfCrash ==
    ASSUME TInv, NEW n \in 0 .. MaxVersion, Knows(n), Crash, ~blurred'
    PROVE  Knows(n)'
<1>1. UNCHANGED <<games, told>> /\ \A c \in Callers : call'[c] = Idle
  BY DEF Crash
<1>2. Versioning' = {} /\ Versions' = Versions
  BY <1>1, IdleOut DEF Versioning, AboutVersions, Versions, Present
<1>3. \A c \in Callers : call[c].at \notin {"upload", "built"}
  BY DEF Crash
<1>4. told = n
  <2>1. CASE Versioning = {}
    BY <2>1 DEF Knows
  <2>2. ASSUME NEW c \in Versioning PROVE told = n
    BY <1>3, <2>2 DEF Knows, Versioning, At
  <2> QED
    BY <2>1, <2>2
<1> QED
  BY <1>1, <1>2, <1>4 DEF Knows

(* Doubts stay.                                                            *)
LEMMA MarksStay ==
    ASSUME TInv, [Next]_vars
    PROVE  (hollow => hollow') /\ (blurred => blurred')
<1>0. hollow \in BOOLEAN /\ blurred \in BOOLEAN
  BY DEF TInv, HistoryOK
<1>1. CASE UNCHANGED vars
  BY <1>1 DEF vars
<1>2. CASE Crash
  BY <1>2 DEF Crash
<1>3. ASSUME NEW c \in Callers, Ask(c) \/ Step(c)
      PROVE  (hollow => hollow') /\ (blurred => blurred')
  <2>1. CASE \/ Load(c) \/ Clean(c)
             \/ \E f \in Files : \E old \in Passages, new \in Passages :
                    Edit(c, f, old, new)
             \/ \E f \in Files, text \in Text : Write(c, f, text)
             \/ \E v \in {told, told + 1} \cap (1 .. MaxVersion) : Build(c, v)
    BY <2>1, <1>0 DEF Load, Clean, Edit, Write, Build, marks
  <2>2. CASE StartsWithV1(c) \/ Built(c)
    BY <2>2, <1>0 DEF StartsWithV1, Built
  <2>3. CASE \/ Listed(c) \/ ListFiles(c) \/ Loaded(c) \/ Read(c)
             \/ FetchFails(c) \/ Open(c) \/ UploadEnds(c) \/ Removed(c)
             \/ \E f \in Files : Upload(c, f)
    <3>1. UNCHANGED history
      BY <2>3 DEF Listed, ListFiles, Loaded, Read, FetchFails, Open, UploadEnds,
                  Removed, Upload
    <3> QED
      BY <3>1 DEF history, marks
  <2>4. CASE \/ Flush(c)
             \/ \E f \in Files : Download(c, f) \/ Unlink(c, f)
    BY <2>4 DEF Flush, Download, Unlink, marks
  <2> QED
    BY <1>3, <2>1, <2>2, <2>3, <2>4 DEF Ask, Step
<1> QED
  BY <1>1, <1>2, <1>3 DEF Next

(* Every step keeps what the agent knows.                                  *)
LEMMA KnowledgeOfNext ==
    ASSUME TInv, KInv, [Next]_vars
    PROVE  KInv'
<1>1. CASE hollow' \/ blurred'
  BY <1>1 DEF KInv
<1>2. CASE ~hollow' /\ ~blurred'
  <2>1. PICK n \in 0 .. MaxVersion : Knows(n)
    BY <1>2, MarksStay DEF KInv
  <2>2. CASE UNCHANGED vars
    BY <2>1, <2>2
    DEF vars, KInv, Knows, Versions, Versioning, Present, At
  <2>3. CASE Crash
    BY <1>2, <2>1, <2>3, KnowledgeOfCrash DEF KInv
  <2>4. ASSUME NEW c \in Callers, Ask(c) \/ Step(c) PROVE KInv'
    <3>1. CASE \/ Load(c) \/ Listed(c) \/ ListFiles(c) \/ StartsWithV1(c) \/ Loaded(c)
               \/ UploadEnds(c) \/ Built(c)
               \/ \E v \in {told, told + 1} \cap (1 .. MaxVersion) : Build(c, v)
               \/ \E f \in Files : Upload(c, f)
      BY <1>2, <2>1, <3>1, KnowledgeOfVersionStep
    <3>2. CASE \/ Read(c) \/ FetchFails(c) \/ Open(c) \/ Flush(c)
               \/ Removed(c) \/ Clean(c)
               \/ \E f \in Files : Download(c, f) \/ Unlink(c, f)
               \/ \E f \in Files : \E old \in Passages, new \in Passages :
                        Edit(c, f, old, new)
               \/ \E f \in Files, text \in Text : Write(c, f, text)
      BY <2>1, <3>2, KnowledgeElsewhere DEF KInv
    <3> QED
      BY <2>4, <3>1, <3>2 DEF Ask, Step
  <2> QED
    BY <2>2, <2>3, <2>4 DEF Next
<1> QED
  BY <1>1, <1>2

(* Only an upload writes a version, and the agent had it built.            *)
LEMMA OnlyNewestWritten ==
    ASSUME TInv, KInv, [Next]_vars, NEW v \in 1 .. MaxVersion,
           games'[v] # games[v]
    PROVE  v >= Count \/ hollow \/ blurred
<1>1. PICK c \in Callers, f \in Files : Upload(c, f)
  <2>1. CASE UNCHANGED vars \/ Crash
    BY <2>1 DEF vars, Crash
  <2>2. ASSUME NEW c \in Callers, Ask(c) \/ Step(c)
        PROVE  \E f \in Files : Upload(c, f)
    <3>1. CASE Ask(c)
      BY <3>1 DEF Ask, Load, Edit, Write, Build, Clean
    <3>2. CASE Step(c)
      BY <3>2 DEF Step, Listed, ListFiles, StartsWithV1, Loaded, Read,
                  FetchFails, Open, Flush, UploadEnds, Built, Removed, Download, Unlink
    <3> QED
      BY <2>2, <3>1, <3>2
  <2> QED
    BY <2>1, <2>2 DEF Next
<1>2. v = call[c].version
  BY <1>1 DEF Upload, TInv, GamesOK
<1>3. CASE ~hollow /\ ~blurred
  <2>1. PICK n \in 0 .. MaxVersion : Knows(n)
    BY <1>3 DEF KInv
  <2>2. call[c].version \in {n, n + 1}
    BY <1>1, <2>1 DEF Knows, Versioning, Upload, At
  <2>3. Count = n
    BY <2>1, CountBounds DEF Knows
  <2> QED
    BY <1>2, <2>2, <2>3
<1> QED
  BY <1>3

(* A version that was followed by a newer one is not written again, with   *)
(* any callers, files, faults and crashes, unless the agent was told wrong.*)
THEOREM OldVersionsAreSafe == Spec => OldVersionsStay
<1> DEFINE Forward == \A v \in 1 .. MaxVersion : games'[v] # games[v] =>
                        v >= Count \/ hollow \/ blurred
<1>1. Init => KInv
  <2> SUFFICES ASSUME Init PROVE Knows(0)
    BY WorkspaceAssumption DEF KInv
  <2>1. Versions = {} /\ Versioning = {}
    BY IdleOut DEF Init, Versions, Present, Versioning, AboutVersions
  <2> QED
    BY <2>1 DEF Init, Knows
<1>2. TInv /\ KInv /\ [Next]_vars => KInv' /\ [Forward]_vars
  BY KnowledgeOfNext, OnlyNewestWritten
<1> HIDE DEF Forward
<1>3. Spec => [][Forward]_vars
  BY <1>1, <1>2, AlwaysTyped, PTL DEF Spec
<1> QED
  BY <1>3 DEF OldVersionsStay, Forward

-----------------------------------------------------------------------------
(* What answered edits and writes left in the files.                       *)

(* The files that two calls work on at once are the mixed ones; an open    *)
(* handle of any other file is still the file's; and what an edit will     *)
(* write keeps what answered calls left, but for the passage it replaces.  *)
Apart == \A c, d \in Callers : c # d => Touches(c) \cap Touches(d) \subseteq mixed
Bound == \A c \in Callers :
            call[c].at = "flush" /\ call[c].file \notin mixed => call[c].bound
TextKeeps == \A c \in Callers :
                /\ call[c].at \in {"open", "flush"} /\ ~call[c].wipe
                /\ call[c].file \notin mixed
                => kept[call[c].file] \ call[c].old \subseteq call[c].text

EInv == Apart /\ Bound /\ TextKeeps /\ UndisturbedEditsStay

(* A step of a call that leaves the files alone, is not the end of a write *)
(* and marks the files that it begins to share.                            *)
LEMMA EditsByCalls ==
    ASSUME TInv, EInv, NEW c \in Callers, NEW r \in Good, Becomes(c, r),
           UNCHANGED <<local, kept>>, mixed \subseteq mixed',
           \A d \in Callers \ {c} : Touches(c)' \cap Touches(d) \subseteq mixed',
           call[c].at # "flush", r.at # "flush",
           r.at = "open" /\ ~r.wipe /\ r.file \notin mixed'
               => kept[r.file] \ r.old \subseteq r.text
    PROVE  EInv'
<1>1. \A d \in Callers : call'[d] = IF d = c THEN r ELSE call[d]
  BY DEF Becomes, TInv, CallsOK
<1>2. \A d \in Callers \ {c} : Touches(d)' = Touches(d)
  BY <1>1 DEF Touches
<1>3. Apart'
  BY <1>2 DEF Apart, EInv
<1>4. Bound'
  BY <1>1 DEF Bound, EInv
<1>5. TextKeeps'
  BY <1>1 DEF TextKeeps, EInv
<1>6. Emptied \subseteq Emptied'
  BY <1>1 DEF Emptied, At
<1>7. UndisturbedEditsStay'
  BY <1>6 DEF UndisturbedEditsStay, EInv
<1> QED
  BY <1>3, <1>4, <1>5, <1>7 DEF EInv

(* A call that is over, in whatever way, touches nothing.                  *)
LEMMA EditsByDone ==
    ASSUME TInv, EInv, NEW c \in Callers, Done(c),
           UNCHANGED <<local, kept, mixed>>, call[c].at # "flush"
    PROVE  EInv'
<1>1. call'[c] = Idle /\ Idle.at = "idle"
  BY DoneGood DEF TInv, Idle
<1>2. Touches(c)' = {}
  BY <1>1 DEF Touches
<1> QED
  BY <1>1, <1>2, IdleGood, EditsByCalls DEF Done

(* Replacing or removing a file takes it from nobody that has it open and  *)
(* is not mixed with this call.                                            *)
LEMMA EditsByUnbind ==
    ASSUME TInv, EInv, NEW c \in Callers, NEW f \in Files,
           call[c].at \in {"download", "clean"},
           call' = [Unbind(f, call) EXCEPT ![c].todo = @ \ {f}],
           mixed' = mixed, kept' = [kept EXCEPT ![f] = {}],
           \A g \in Files \ {f} : local'[g] = local[g]
    PROVE  EInv'
<1>1. ASSUME NEW b \in Callers
      PROVE  /\ call'[b].at = call[b].at /\ call'[b].file = call[b].file
             /\ call'[b].wipe = call[b].wipe /\ call'[b].old = call[b].old
             /\ call'[b].text = call[b].text
             /\ call[b].file # f => call'[b].bound = call[b].bound
  <2>1. call[b] \in Calls
    BY InHand DEF TInv
  <2>2. call'[b] = IF b = c THEN [Unbind(f, call)[b] EXCEPT !.todo = @ \ {f}]
                   ELSE Unbind(f, call)[b]
    BY DEF Unbind
  <2>3. Unbind(f, call)[b] = IF call[b].file = f THEN [call[b] EXCEPT !.bound = FALSE]
                             ELSE call[b]
    BY DEF Unbind
  <2> QED
    BY <2>1, <2>2, <2>3 DEF Calls
<1>2. \A b \in Callers : Touches(b)' = Touches(b)
  BY <1>1 DEF Touches
<1>3. Apart'
  BY <1>2 DEF Apart, EInv
<1>4. ASSUME NEW b \in Callers, call[b].at = "flush", call[b].file = f
      PROVE  f \in mixed
  <2>1. b # c /\ Touches(b) = {f} /\ Touches(c) = Files
    BY <1>4 DEF Touches
  <2> QED
    BY <2>1 DEF Apart, EInv
<1>5. Bound'
  BY <1>1, <1>4 DEF Bound, EInv
<1>6. \A g \in Files : kept'[g] = IF g = f THEN {} ELSE kept[g]
  BY DEF TInv, HistoryOK
<1>7. TextKeeps'
  <2> SUFFICES ASSUME NEW b \in Callers, call[b].at \in {"open", "flush"},
                      ~call[b].wipe, call[b].file \notin mixed
               PROVE  kept'[call[b].file] \ call[b].old \subseteq call[b].text
    BY <1>1 DEF TextKeeps
  <2>1. call[b].file \in Files
    BY InHand DEF TInv, CallOK
  <2> QED
    BY <1>6, <2>1 DEF TextKeeps, EInv
<1>8. Emptied' = Emptied
  BY <1>1 DEF Emptied, At
<1>9. UndisturbedEditsStay'
  BY <1>6, <1>8 DEF UndisturbedEditsStay, EInv
<1> QED
  BY <1>3, <1>5, <1>7, <1>9 DEF EInv

(* The file is emptied, and it is in hand.                                 *)
LEMMA EditsByOpen ==
    ASSUME TInv, EInv, NEW c \in Callers, Open(c)
    PROVE  EInv'
<1> DEFINE f == call[c].file
           r == [call[c] EXCEPT !.at = "flush", !.bound = TRUE]
<1>1. call[c] \in Calls /\ f \in Files /\ call[c].at = "open"
  BY InHand DEF Open, At, CallOK, TInv
<1>2. CASE ~made
  BY <1>1, <1>2, EditsByDone DEF Open, history
<1>3. CASE made
  <2>1. /\ Becomes(c, r) /\ UNCHANGED <<kept, mixed>>
        /\ local' = [local EXCEPT ![f] = {}]
    BY <1>3 DEF Open, history
  <2>2. /\ r.at = "flush" /\ r.bound /\ r.file = f /\ r.wipe = call[c].wipe
        /\ r.old = call[c].old /\ r.text = call[c].text
    BY <1>1 DEF Calls
  <2>3. \A d \in Callers : call'[d] = IF d = c THEN r ELSE call[d]
    BY <2>1 DEF Becomes, TInv, CallsOK
  <2>4. \A d \in Callers : Touches(d)' = Touches(d)
    BY <1>1, <2>2, <2>3 DEF Touches
  <2>5. Apart'
    BY <2>1, <2>4 DEF Apart, EInv
  <2>6. Bound'
    BY <2>1, <2>2, <2>3 DEF Bound, EInv
  <2>7. TextKeeps'
    BY <1>1, <2>1, <2>2, <2>3 DEF TextKeeps, EInv
  <2>8. Emptied \cup {f} \subseteq Emptied'
    <3>1. f \in Emptied'
      BY <2>2, <2>3 DEF Emptied, At
    <3>2. ASSUME NEW d \in Callers, call[d].at = "flush"
          PROVE  call[d].file \in Emptied'
      BY <1>1, <2>3, <3>2 DEF Emptied, At
    <3> QED
      BY <3>1, <3>2 DEF Emptied, At
  <2>9. \A g \in Files \ {f} : local'[g] = local[g]
    BY <2>1 DEF TInv, DiskOK, Directory
  <2>10. UndisturbedEditsStay'
    BY <2>1, <2>8, <2>9 DEF UndisturbedEditsStay, EInv
  <2> QED
    BY <2>5, <2>6, <2>7, <2>10 DEF EInv
<1> QED
  BY <1>2, <1>3

(* The text in hand holds what answered calls left, and it reaches the     *)
(* file, which no other call has in hand.                                  *)
LEMMA EditsByFlush ==
    ASSUME TInv, EInv, NEW c \in Callers, Flush(c)
    PROVE  EInv'
<1> DEFINE f == call[c].file
           left == IF call[c].wipe THEN call[c].text
                   ELSE (kept[f] \ call[c].old) \cup (call[c].new \cap call[c].text)
<1>1. call[c] \in Calls /\ f \in Files /\ call[c].at = "flush"
  BY InHand DEF Flush, At, CallOK, TInv
<1>2. PICK rest \in SUBSET (IF local[f] = None THEN {} ELSE local[f]) :
          local' = IF call[c].bound
                   THEN [local EXCEPT ![f] = call[c].text \cup rest] ELSE local
  BY DEF Flush
<1>3. mixed' = mixed /\ kept' = [kept EXCEPT ![f] = left] /\ Done(c)
  BY DEF Flush
<1>4. Idle.at = "idle" /\ \A d \in Callers : call'[d] = IF d = c THEN Idle ELSE call[d]
  BY <1>3, DoneGood DEF TInv, Idle
<1>5. \A d \in Callers : Touches(d)' = IF d = c THEN {} ELSE Touches(d)
  BY <1>4 DEF Touches
<1>6. Apart'
  BY <1>3, <1>5 DEF Apart, EInv
<1>7. Bound'
  BY <1>3, <1>4 DEF Bound, EInv
<1>8. ASSUME NEW d \in Callers \ {c}, f \in Touches(d) PROVE f \in mixed
  <2>1. f \in Touches(c)
    BY <1>1 DEF Touches
  <2> QED
    BY <1>8, <2>1 DEF Apart, EInv
<1>9. \A g \in Files : kept'[g] = IF g = f THEN left ELSE kept[g]
  BY <1>3 DEF TInv, HistoryOK
<1>10. TextKeeps'
  <2> SUFFICES ASSUME NEW d \in Callers, d # c, call[d].at \in {"open", "flush"},
                      ~call[d].wipe, call[d].file \notin mixed
               PROVE  kept'[call[d].file] \ call[d].old \subseteq call[d].text
    BY <1>3, <1>4 DEF TextKeeps
  <2>1. call[d].file \in Files
    BY InHand DEF TInv, CallOK
  <2>2. call[d].file # f
    <3>1. Touches(d) = {call[d].file}
      BY DEF Touches
    <3> QED
      BY <1>8, <3>1
  <2> QED
    BY <1>9, <2>1, <2>2 DEF TextKeeps, EInv
<1>11. UndisturbedEditsStay'
  <2> SUFFICES ASSUME NEW g \in Files, g \notin mixed, g \notin Emptied'
               PROVE  kept'[g] \subseteq (IF local'[g] = None THEN {} ELSE local'[g])
    BY <1>3 DEF UndisturbedEditsStay
  <2>1. CASE g = f
    <3>1. call[c].bound
      BY <1>1, <2>1 DEF Bound, EInv
    <3>2. local'[f] = call[c].text \cup rest
      BY <1>1, <1>2, <3>1 DEF TInv, DiskOK, Directory
    <3>3. left \subseteq call[c].text
      BY <1>1, <2>1 DEF TextKeeps, EInv
    <3>4. local'[f] # None
      <4>1. DiskOK
        BY DEF TInv
      <4>2. call[c].text \cup rest \in Text
        BY <1>1, <4>1 DEF Calls, Text, DiskOK, Directory
      <4> QED
        BY <3>2, <4>2, WorkspaceAssumption
    <3> QED
      BY <1>9, <2>1, <3>2, <3>3, <3>4
  <2>2. CASE g # f
    <3>1. local'[g] = local[g] /\ kept'[g] = kept[g]
      BY <1>2, <1>9, <2>2 DEF TInv, DiskOK, Directory
    <3>2. g \notin Emptied
      BY <1>4, <2>2 DEF Emptied, At
    <3> QED
      BY <3>1, <3>2 DEF UndisturbedEditsStay, EInv
  <2> QED
    BY <2>1, <2>2
<1> QED
  BY <1>6, <1>7, <1>10, <1>11 DEF EInv

(* A call that begins marks what it shares with those under way.           *)
LEMMA EditsByStart ==
    ASSUME TInv, EInv, NEW c \in Callers,
           \/ Load(c) \/ Clean(c)
           \/ \E f \in Files : \E old \in Passages, new \in Passages :
                    Edit(c, f, old, new)
           \/ \E f \in Files, text \in Text : Write(c, f, text)
    PROVE  EInv'
<1>1. call[c] \in Calls
  BY InHand DEF TInv
<1>2. ASSUME NEW files \in SUBSET Files, NEW r \in Calls, Becomes(c, r),
             Starts(c, files), UNCHANGED kept,
             UNCHANGED local,
             \/ r.at \in {"count", "clean"} /\ files = Files
             \/ r.at = "read" /\ r.file \in Files /\ files = {r.file}
             \/ r.at = "open" /\ r.file \in Files /\ files = {r.file} /\ r.wipe
      PROVE  EInv'
  <2>1. call'[c] = r /\ r \in Good
    BY <1>2 DEF Becomes, TInv, CallsOK, Good, CallOK
  <2>2. Touches(c)' = files
    BY <1>2, <2>1 DEF Touches
  <2>3. \A d \in Callers : Touches(d) \subseteq Busy
    BY DEF Busy
  <2>4. mixed' = mixed \cup (files \cap Busy) /\ call[c].at = "idle"
    BY <1>2 DEF Starts, At
  <2>5. \A d \in Callers \ {c} : Touches(c)' \cap Touches(d) \subseteq mixed'
    BY <2>2, <2>3, <2>4
  <2> QED
    BY <1>2, <2>1, <2>4, <2>5, EditsByCalls
<1>3. CASE Load(c)
  <2>1. [call[c] EXCEPT !.at = "count"] \in Calls
        /\ [call[c] EXCEPT !.at = "count"].at = "count"
    BY <1>1 DEF Calls, Locations
  <2> QED
    BY <1>2, <1>3, <2>1 DEF Load, Goto
<1>4. CASE Clean(c)
  <2> DEFINE files == Present(local)
  <2>1. Becomes(c, [call[c] EXCEPT !.at = "clean", !.todo = files])
    BY <1>4 DEF Clean
  <2>2. files \in SUBSET Files
    BY DEF Present
  <2> HIDE DEF files
  <2>3. [call[c] EXCEPT !.at = "clean", !.todo = files] \in Calls
        /\ [call[c] EXCEPT !.at = "clean", !.todo = files].at = "clean"
    BY <1>1, <2>2 DEF Calls, Locations
  <2> QED
    BY <1>2, <1>4, <2>1, <2>3 DEF Clean, disk
<1>5. ASSUME NEW f \in Files, NEW old \in Passages, NEW new \in Passages,
             Edit(c, f, old, new)
      PROVE  EInv'
  <2> DEFINE r == [call[c] EXCEPT !.at = "read", !.file = f, !.old = {old},
                                  !.new = {new}]
  <2>1. r \in Calls /\ r.at = "read" /\ r.file = f
    BY <1>1 DEF Calls, Locations, Text
  <2>2. Becomes(c, r) /\ Starts(c, {f}) /\ UNCHANGED <<local, kept>>
    BY <1>5 DEF Edit, disk
  <2> HIDE DEF r
  <2> QED
    BY <1>2, <2>1, <2>2
<1>6. ASSUME NEW f \in Files, NEW text \in Text, Write(c, f, text)
      PROVE  EInv'
  <2> DEFINE r == [call[c] EXCEPT !.at = "open", !.file = f, !.text = text,
                                  !.wipe = TRUE]
  <2>1. r \in Calls /\ r.at = "open" /\ r.file = f /\ r.wipe
    BY <1>1 DEF Calls, Locations
  <2>2. Becomes(c, r) /\ Starts(c, {f}) /\ UNCHANGED <<local, kept>>
    BY <1>6 DEF Write
  <2> HIDE DEF r
  <2> QED
    BY <1>2, <2>1, <2>2
<1> QED
  BY <1>3, <1>4, <1>5, <1>6

(* What is read has everything that answered calls left.                   *)
LEMMA EditsByRead ==
    ASSUME TInv, EInv, NEW c \in Callers, Read(c)
    PROVE  EInv'
<1> DEFINE f == call[c].file
           t == IF call[c].old \subseteq local[f]
                THEN (local[f] \ call[c].old) \cup call[c].new
                ELSE local[f]
           r == [call[c] EXCEPT !.at = "open", !.text = t]
<1>1. /\ call[c] \in Calls /\ f \in Files /\ call[c].at = "read"
      /\ call[c].new \in Text
  BY InHand DEF Read, At, CallOK, TInv
<1>2. CASE local[f] = None
  BY <1>1, <1>2, EditsByDone DEF Read, disk, history
<1>3. CASE local[f] # None
  <2>1. Becomes(c, r) /\ UNCHANGED <<local, kept, mixed>>
    BY <1>3 DEF Read, disk, history
  <2>2. local[f] \in Text
    BY <1>1, <1>3 DEF TInv, DiskOK, Directory
  <2>3. t \in Text
    BY <1>1, <2>2 DEF Text
  <2>4. ASSUME f \notin mixed PROVE kept[f] \ call[c].old \subseteq t
    <3>1. f \in Touches(c)
      BY <1>1 DEF Touches
    <3>2. \A d \in Callers \ {c} : f \notin Touches(d)
      BY <2>4, <3>1 DEF Apart, EInv
    <3>3. f \notin Emptied
      BY <1>1, <3>2 DEF Emptied, At, Touches
    <3>4. kept[f] \subseteq local[f]
      BY <1>1, <1>3, <2>4, <3>3 DEF UndisturbedEditsStay, EInv
    <3> QED
      BY <3>4
  <2> HIDE DEF t
  <2>5. /\ r \in Calls /\ r.at = "open" /\ r.file = f /\ r.text = t
        /\ r.old = call[c].old
    BY <1>1, <2>3 DEF Calls, Locations
  <2>6. r \in Good
    BY <1>1, <2>5 DEF Good, CallOK
  <2>7. call'[c] = r
    BY <2>1 DEF Becomes, TInv, CallsOK
  <2>8. Touches(c)' = Touches(c)
    BY <1>1, <2>5, <2>7 DEF Touches
  <2>9. \A d \in Callers \ {c} : Touches(c)' \cap Touches(d) \subseteq mixed'
    BY <2>1, <2>8 DEF Apart, EInv
  <2> HIDE DEF r
  <2> QED
    BY <1>1, <2>1, <2>4, <2>5, <2>6, <2>9, EditsByCalls
<1> QED
  BY <1>2, <1>3

(* Steps about versions touch no more than they did.                       *)
LEMMA EditsByVersions ==
    ASSUME TInv, EInv, NEW c \in Callers,
           \/ Listed(c) \/ ListFiles(c) \/ UploadEnds(c)
           \/ \E f \in Files : Upload(c, f)
           \/ \E v \in 1 .. MaxVersion : Build(c, v)
    PROVE  EInv'
<1>1. call[c] \in Calls
  BY InHand DEF TInv
<1>2. PICK r : Becomes(c, r)
  BY DEF Listed, ListFiles, UploadEnds, Upload, Build, Goto
<1>3. /\ UNCHANGED <<local, kept, mixed>>
      /\ call[c].at \in {"count", "list", "upload", "idle"}
  BY DEF Listed, ListFiles, UploadEnds, Upload, Build, Goto, At, disk, history
<1>4. /\ call'[c].at \in {"list", "download", "upload", "built"}
      /\ call'[c].at \in {"list", "download"} => call[c].at \in {"count", "list"}
  <2>1. ASSUME NEW s, Becomes(c, s) PROVE call'[c] = s
    BY <2>1 DEF Becomes, TInv, CallsOK
  <2>2. CASE Listed(c)
    <3> DEFINE n == Count
    <3>1. Becomes(c, [call[c] EXCEPT !.at = "list", !.version = n])
      BY <2>2 DEF Listed
    <3> HIDE DEF n
    <3>2. [call[c] EXCEPT !.at = "list", !.version = n].at = "list"
      BY <1>1 DEF Calls
    <3> QED
      BY <2>1, <2>2, <3>1, <3>2 DEF Listed, At
  <2>6. CASE ListFiles(c)
    <3> DEFINE files == Present(games[call[c].version])
    <3>1. Becomes(c, [call[c] EXCEPT !.at = "download", !.todo = files])
      BY <2>6 DEF ListFiles
    <3> HIDE DEF files
    <3>2. [call[c] EXCEPT !.at = "download", !.todo = files].at = "download"
      BY <1>1 DEF Calls
    <3> QED
      BY <2>1, <2>6, <3>1, <3>2 DEF ListFiles, At
  <2>3. CASE UploadEnds(c)
    BY <1>1, <2>1, <2>3 DEF UploadEnds, Goto, Calls
  <2>4. ASSUME NEW f \in Files, Upload(c, f) PROVE call'[c].at = "upload"
    BY <1>1, <2>1, <2>4 DEF Upload, At, Calls
  <2>5. ASSUME NEW v \in 1 .. MaxVersion, Build(c, v) PROVE call'[c].at = "upload"
    <3> DEFINE files == Present(local)
    <3>1. Becomes(c, [call[c] EXCEPT !.at = "upload", !.version = v,
                                     !.todo = files])
      BY <2>5 DEF Build
    <3> HIDE DEF files
    <3>2. [call[c] EXCEPT !.at = "upload", !.version = v, !.todo = files].at
            = "upload"
      BY <1>1 DEF Calls
    <3> QED
      BY <2>1, <3>1, <3>2
  <2> QED
    BY <2>2, <2>3, <2>4, <2>5, <2>6
<1>5. TInv'
  BY TypingOfLoad, TypingOfBuild
<1>6. call'[c] = r /\ r \in Good
  BY <1>2, <1>5 DEF Becomes, TInv, CallsOK
<1>7. Touches(c)' \subseteq Touches(c)
  BY <1>3, <1>4 DEF Touches
<1>8. \A d \in Callers \ {c} : Touches(c)' \cap Touches(d) \subseteq mixed'
  BY <1>3, <1>7 DEF Apart, EInv
<1> QED
  BY <1>2, <1>3, <1>4, <1>6, <1>8, EditsByCalls

(* The emptied files are marked.                                           *)
LEMMA EditsByCrash ==
    ASSUME TInv, EInv, Crash
    PROVE  EInv'
<1>1. /\ UNCHANGED <<local, kept>> /\ mixed' = mixed \cup Emptied
      /\ \A c \in Callers : call'[c] = Idle
  BY DEF Crash, disk
<1>2. Idle.at = "idle"
  BY DEF Idle
<1>3. Apart' /\ Bound' /\ TextKeeps'
  BY <1>1, <1>2 DEF Apart, Bound, TextKeeps, Touches
<1>4. UndisturbedEditsStay'
  BY <1>1 DEF UndisturbedEditsStay, EInv
<1> QED
  BY <1>3, <1>4 DEF EInv

(* Every step keeps what answered calls left.                              *)
LEMMA EditsOfNext ==
    ASSUME TInv, EInv, [Next]_vars
    PROVE  EInv'
<1>1. CASE UNCHANGED vars
  BY <1>1 DEF vars, EInv, Apart, Bound, TextKeeps, UndisturbedEditsStay, Touches,
              Emptied, At
<1>2. CASE Crash
  BY <1>2, EditsByCrash
<1>3. ASSUME NEW c \in Callers, Ask(c) \/ Step(c) PROVE EInv'
  <2>1. CASE StartsWithV1(c) \/ Loaded(c) \/ FetchFails(c) \/ Built(c) \/ Removed(c)
    <3>1. Done(c) /\ UNCHANGED <<local, kept, mixed>> /\ call[c].at # "flush"
      BY <2>1 DEF StartsWithV1, Loaded, FetchFails, Built, Removed, disk, history, At
    <3> QED
      BY <3>1, EditsByDone
  <2>2. ASSUME NEW f \in Files, Download(c, f) \/ Unlink(c, f) PROVE EInv'
    <3>1. CASE Download(c, f)
      <4>1. \A g \in Files \ {f} : local'[g] = local[g]
        BY <3>1 DEF Download, TInv, DiskOK, Directory
      <4> QED
        BY <3>1, <4>1, EditsByUnbind DEF Download, At
    <3>2. CASE Unlink(c, f) /\ local[f] = None
      BY <3>2, EditsByDone DEF Unlink, At
    <3>3. CASE Unlink(c, f) /\ local[f] # None
      <4>1. \A g \in Files \ {f} : local'[g] = local[g]
        BY <3>3 DEF Unlink, TInv, DiskOK, Directory
      <4> QED
        BY <3>3, <4>1, EditsByUnbind DEF Unlink, At
    <3> QED
      BY <2>2, <3>1, <3>2, <3>3
  <2>3. CASE Ask(c)
    <3>1. CASE \E v \in {told, told + 1} \cap (1 .. MaxVersion) : Build(c, v)
      BY <3>1, EditsByVersions
    <3>2. CASE ~\E v \in {told, told + 1} \cap (1 .. MaxVersion) : Build(c, v)
      BY <2>3, <3>2, EditsByStart DEF Ask
    <3> QED
      BY <3>1, <3>2
  <2>4. CASE Step(c)
    BY <2>1, <2>2, <2>4, EditsByVersions, EditsByRead, EditsByOpen, EditsByFlush
    DEF Step
  <2> QED
    BY <1>3, <2>3, <2>4
<1> QED
  BY <1>1, <1>2, <1>3 DEF Next

(* With any threads, files, failures and crashes, what answered calls left *)
(* in a file stays there unless two calls worked on it at once.            *)
THEOREM EditsStay == Spec => []UndisturbedEditsStay
<1>1. Init => EInv
  BY IdleOut DEF Init, EInv, Apart, Bound, TextKeeps, UndisturbedEditsStay,
                 Touches, Emptied, At, Idle
<1>2. TInv /\ EInv /\ [Next]_vars => EInv'
  BY EditsOfNext
<1>3. EInv => UndisturbedEditsStay
  BY DEF EInv
<1> QED
  BY <1>1, <1>2, <1>3, AlwaysTyped, PTL DEF Spec
=============================================================================
