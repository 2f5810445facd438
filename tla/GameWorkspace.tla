----------------------------- MODULE GameWorkspace -----------------------------
(***************************************************************************)
(* The tools of the game generator agent, internal/graph/built_in/tools/   *)
(* game_generator.py, on one conversation: a local directory with the      *)
(* sources of a game (data/<thread_id>, on a volume that outlives the      *)
(* process) and the versions v1, v2, ... of it in the bucket "games", read *)
(* and written through helper/minio_games.py.                              *)
(*                                                                         *)
(* The tool calls of one model answer run in threads of their own, and     *)
(* nothing orders their accesses to the directory; a process may die       *)
(* between any two.  The tools name no version by themselves: the agent    *)
(* builds its current version or the next, as init_or_load_game_source and *)
(* build_source last told it.                                              *)
(*                                                                         *)
(* The text of a file is the set of passages in it.  Folders below the     *)
(* directory, and the tools that only read, are left out.                  *)
(*                                                                         *)
(* call[c].at, the next step of the tool call that thread c is in:         *)
(*    count list download       init_or_load_game_source                   *)
(*    read open flush           str_replace_editor, write_game_file        *)
(*    upload built              build_source                               *)
(*    clean                     clean_up                                   *)
(***************************************************************************)
EXTENDS Integers, FiniteSets

CONSTANTS
    Callers,        \* threads that run tool calls
    Files,          \* files of the game
    Passages,       \* what a file may say
    None,           \* no such file
    MaxVersion,     \* bound on the versions built
    MaxFaults,      \* bound on the calls of MinIO, or fetches, that fail
    MaxCrashes      \* bound on the deaths of the process

Text == SUBSET Passages
Directory == [Files -> Text \cup {None}]

ASSUME WorkspaceAssumption ==
    /\ IsFiniteSet(Files)
    /\ None \notin Files /\ \A t \in Text : t # None
    /\ MaxVersion \in Nat \ {0} /\ MaxFaults \in Nat /\ MaxCrashes \in Nat

VARIABLES
    made,       \* the directory exists
    local,      \* the files in it
    games,      \* the files of each version in the bucket
    told,       \* the version that the agent was last told is the current one
    call,       \* what each thread is doing, with its local variables
    faults, crashes,    \* faults and crashes so far
    kept,       \* history: the passages that answered calls left in each file
    mixed,      \* history: files that two calls worked on at once, or a crash cut
    hollow,     \* history: a build answered and its version has no file
    blurred     \* history: the agent may have been told an old version

vars == <<made, local, games, told, call, faults, crashes, kept, mixed, hollow,
          blurred>>
disk == <<made, local>>
marks == <<hollow, blurred>>
history == <<kept, mixed, marks>>

Locations == {"idle", "count", "list", "download", "read", "open", "flush",
              "upload", "built", "clean"}

\* wipe: the call is a write_game_file; bound: its handle is still the file's.
Calls == [at : Locations, file : Files \cup {None}, old : Text, new : Text,
          text : Text, wipe : BOOLEAN, bound : BOOLEAN, todo : SUBSET Files,
          version : 0 .. MaxVersion]

Idle == [at |-> "idle", file |-> None, old |-> {}, new |-> {}, text |-> {},
         wipe |-> FALSE, bound |-> FALSE, todo |-> {}, version |-> 0]

At(c, l) == call[c].at = l
Becomes(c, r) == call' = [call EXCEPT ![c] = r]
Goto(c, l) == Becomes(c, [call[c] EXCEPT !.at = l])
Done(c) == Becomes(c, Idle)

Present(dir) == {f \in Files : dir[f] # None}
Versions == {v \in 1 .. MaxVersion : Present(games[v]) # {}}

\* _count_folders_in_thread: how many versions there are, not which.
Count == Cardinality(Versions)

\* The files a call may change.
Touches(c) ==
    IF call[c].at \in {"read", "open", "flush"} THEN {call[c].file}
    ELSE IF call[c].at \in {"count", "list", "download", "clean"} THEN Files
    ELSE {}

Busy == UNION {Touches(c) : c \in Callers}

\* The files that somebody has emptied and not yet written.
Emptied == {call[c].file : c \in {d \in Callers : At(d, "flush")}}

\* The calls that find out or build a version.
Versioning ==
    {c \in Callers : call[c].at \in {"count", "list", "download", "upload", "built"}}

\* Whoever has file f open now writes to a file that has no name any more.
Unbind(f, calls) ==
    [c \in Callers |-> IF calls[c].file = f THEN [calls[c] EXCEPT !.bound = FALSE]
                       ELSE calls[c]]

Fault == faults < MaxFaults /\ faults' = faults + 1

Init ==
    /\ made = FALSE
    /\ local = [f \in Files |-> None]
    /\ games = [v \in 1 .. MaxVersion |-> [f \in Files |-> None]]
    /\ told = 0
    /\ call = [c \in Callers |-> Idle]
    /\ faults = 0 /\ crashes = 0
    /\ kept = [f \in Files |-> {}]
    /\ mixed = {}
    /\ hollow = FALSE
    /\ blurred = FALSE

Starts(c, files) ==
    /\ At(c, "idle")
    /\ mixed' = mixed \cup (files \cap Busy)

-----------------------------------------------------------------------------
(* init_or_load_game_source.                                               *)

Load(c) ==
    /\ Starts(c, Files)
    /\ made' = TRUE
    /\ Goto(c, "count")
    /\ blurred' = (blurred \/ Versioning # {})
    /\ UNCHANGED <<local, games, told, faults, crashes, kept, hollow>>

\* A bug to be caught: the first version that is listed is loaded.
MutListed(c) ==
    /\ At(c, "count") /\ Count > 0
    /\ Becomes(c, [call[c] EXCEPT !.at = "list", !.version = 1])
    /\ UNCHANGED <<disk, games, told, faults, crashes, history>>

\* The version folders were counted; other calls may build before its files are
\* listed.
Listed(c) ==
    /\ At(c, "count") /\ Count > 0
    /\ Becomes(c, [call[c] EXCEPT !.at = "list", !.version = Count])
    /\ UNCHANGED <<disk, games, told, faults, crashes, history>>

\* _download_folder lists the objects of the version.
ListFiles(c) ==
    /\ At(c, "list")
    /\ Becomes(c, [call[c] EXCEPT !.at = "download",
                                  !.todo = Present(games[call[c].version])])
    /\ UNCHANGED <<disk, games, told, faults, crashes, history>>

\* A bug to be caught: v1 is taken for a version that is there.
MutStartsWithV1(c) ==
    /\ At(c, "count")
    /\ \/ Count = 0 /\ UNCHANGED <<faults, blurred>>
       \/ Fault /\ blurred' = TRUE
    /\ told' = 1
    /\ Done(c)
    /\ UNCHANGED <<disk, games, crashes, kept, mixed, hollow>>

\* "Starting with v1": there is no version, or the listing failed.
StartsWithV1(c) ==
    /\ At(c, "count")
    /\ \/ Count = 0 /\ UNCHANGED <<faults, blurred>>
       \/ Fault /\ blurred' = TRUE
    /\ told' = 0
    /\ Done(c)
    /\ UNCHANGED <<disk, games, crashes, kept, mixed, hollow>>

\* fget_object makes the directory again if need be, and renames a complete
\* file into place.
Download(c, f) ==
    /\ At(c, "download") /\ f \in call[c].todo
    /\ made' = TRUE
    /\ local' = [local EXCEPT ![f] = games[call[c].version][f]]
    /\ call' = [Unbind(f, call) EXCEPT ![c].todo = @ \ {f}]
    /\ kept' = [kept EXCEPT ![f] = {}]
    /\ UNCHANGED <<games, told, faults, crashes, mixed, marks>>

\* The answer is the same when _download_folder gave up, at its listing or at a
\* file, and returned False.
Loaded(c) ==
    /\ \/ At(c, "download") /\ call[c].todo = {} /\ UNCHANGED faults
       \/ call[c].at \in {"list", "download"} /\ Fault
    /\ told' = call[c].version
    /\ Done(c)
    /\ UNCHANGED <<disk, games, crashes, history>>

-----------------------------------------------------------------------------
(* str_replace_editor and write_game_file.                                 *)

Edit(c, f, old, new) ==
    /\ Starts(c, {f}) /\ local[f] # None
    /\ Becomes(c, [call[c] EXCEPT !.at = "read", !.file = f,
                                  !.old = {old}, !.new = {new}])
    /\ UNCHANGED <<disk, games, told, faults, crashes, kept, marks>>

\* content.replace(original, replacement); a file that is gone by now raises.
Read(c) ==
    /\ At(c, "read")
    /\ LET f == call[c].file IN
       IF local[f] = None THEN Done(c)
       ELSE Becomes(c, [call[c] EXCEPT
                !.at = "open",
                !.text = IF call[c].old \subseteq local[f]
                         THEN (local[f] \ call[c].old) \cup call[c].new
                         ELSE local[f]])
    /\ UNCHANGED <<disk, games, told, faults, crashes, history>>

Write(c, f, text) ==
    /\ Starts(c, {f})
    /\ made' = TRUE
    /\ Becomes(c, [call[c] EXCEPT !.at = "open", !.file = f, !.text = text,
                                  !.wipe = TRUE])
    /\ UNCHANGED <<local, games, told, faults, crashes, kept, marks>>

\* A bug to be caught: the file is opened for writing before the fetch.
MutFetchFails(c) ==
    /\ At(c, "open") /\ call[c].wipe /\ made
    /\ Fault
    /\ local' = [local EXCEPT ![call[c].file] = {}]
    /\ Done(c)
    /\ UNCHANGED <<made, games, told, crashes, history>>

\* The asset could not be fetched, before the file is opened.
FetchFails(c) ==
    /\ At(c, "open") /\ call[c].wipe
    /\ Fault
    /\ Done(c)
    /\ UNCHANGED <<disk, games, told, crashes, history>>

\* open(file_path, 'w') empties the file; without the directory it raises.
Open(c) ==
    /\ At(c, "open")
    /\ IF made THEN /\ local' = [local EXCEPT ![call[c].file] = {}]
                    /\ Becomes(c, [call[c] EXCEPT !.at = "flush", !.bound = TRUE])
       ELSE Done(c) /\ UNCHANGED local
    /\ UNCHANGED <<made, games, told, faults, crashes, history>>

\* The text reaches the file when it is closed.  Of what another handle wrote
\* since it was emptied, something may stick out behind.
Flush(c) ==
    /\ At(c, "flush")
    /\ LET f == call[c].file IN
       /\ \E rest \in SUBSET (IF local[f] = None THEN {} ELSE local[f]) :
            local' = IF call[c].bound
                     THEN [local EXCEPT ![f] = call[c].text \cup rest]
                     ELSE local
       /\ kept' = [kept EXCEPT ![f] = IF call[c].wipe THEN call[c].text
                                      ELSE (@ \ call[c].old)
                                           \cup (call[c].new \cap call[c].text)]
    /\ Done(c)
    /\ UNCHANGED <<made, games, told, faults, crashes, mixed, marks>>

-----------------------------------------------------------------------------
(* build_source.                                                           *)

\* Without the directory it raises.
Build(c, v) ==
    /\ At(c, "idle") /\ made
    /\ Becomes(c, [call[c] EXCEPT !.at = "upload", !.version = v,
                                  !.todo = Present(local)])
    /\ blurred' = (blurred \/ Versioning # {})
    /\ UNCHANGED <<disk, games, told, faults, crashes, kept, mixed, hollow>>

Upload(c, f) ==
    /\ At(c, "upload") /\ f \in call[c].todo
    /\ local[f] # None
    /\ games' = [games EXCEPT ![call[c].version][f] = local[f]]
    /\ Becomes(c, [call[c] EXCEPT !.todo = @ \ {f}])
    /\ UNCHANGED <<disk, told, faults, crashes, history>>

\* _upload_source_game is over: it is done, or a file is gone, or MinIO failed.
UploadEnds(c) ==
    /\ At(c, "upload")
    /\ \/ call[c].todo = {} /\ UNCHANGED faults
       \/ call[c].todo \ Present(local) # {} /\ UNCHANGED faults
       \/ call[c].todo # {} /\ Fault
    /\ Goto(c, "built")
    /\ UNCHANGED <<disk, games, told, crashes, history>>

\* A bug to be caught: the answer names the version to be built next.
MutBuilt(c) ==
    /\ At(c, "built")
    /\ told' = call[c].version + 1
    /\ hollow' = (hollow \/ call[c].version \notin Versions)
    /\ Done(c)
    /\ UNCHANGED <<disk, games, faults, crashes, kept, mixed, blurred>>

\* The answer names the version as built; what the helper returned is dropped.
Built(c) ==
    /\ At(c, "built")
    /\ told' = call[c].version
    /\ hollow' = (hollow \/ call[c].version \notin Versions)
    /\ Done(c)
    /\ UNCHANGED <<disk, games, faults, crashes, kept, mixed, blurred>>

-----------------------------------------------------------------------------
(* clean_up.                                                               *)

Clean(c) ==
    /\ Starts(c, Files) /\ made
    /\ Becomes(c, [call[c] EXCEPT !.at = "clean", !.todo = Present(local)])
    /\ UNCHANGED <<disk, games, told, faults, crashes, kept, marks>>

\* rmtree raises at a file that is gone already.
Unlink(c, f) ==
    /\ At(c, "clean") /\ f \in call[c].todo
    /\ IF local[f] = None
       THEN Done(c) /\ UNCHANGED <<local, kept>>
       ELSE /\ local' = [local EXCEPT ![f] = None]
            /\ call' = [Unbind(f, call) EXCEPT ![c].todo = @ \ {f}]
            /\ kept' = [kept EXCEPT ![f] = {}]
    /\ UNCHANGED <<made, games, told, faults, crashes, mixed, marks>>

\* rmdir, which raises when there are files again.
Removed(c) ==
    /\ At(c, "clean") /\ call[c].todo = {}
    /\ made' = (Present(local) # {})
    /\ Done(c)
    /\ UNCHANGED <<local, games, told, faults, crashes, history>>

-----------------------------------------------------------------------------
\* The process dies and is started again; the volume is still there.
Crash ==
    /\ crashes < MaxCrashes /\ crashes' = crashes + 1
    /\ call' = [c \in Callers |-> Idle]
    /\ mixed' = mixed \cup Emptied
    /\ blurred' = (blurred \/ \E c \in Callers : call[c].at \in {"upload", "built"})
    /\ UNCHANGED <<disk, games, told, faults, kept, hollow>>

\* What the agent asks for.
Ask(c) ==
    \/ Load(c)
    \/ \E f \in Files : \E old \in Passages, new \in Passages :
            old # new /\ Edit(c, f, old, new)
    \/ \E f \in Files, text \in Text \ {{}} : Write(c, f, text)
    \/ \E v \in {told, told + 1} \cap (1 .. MaxVersion) : Build(c, v)
    \/ Clean(c)

Step(c) ==
    \/ Listed(c) \/ StartsWithV1(c) \/ ListFiles(c) \/ Loaded(c)
    \/ Read(c) \/ FetchFails(c) \/ Open(c) \/ Flush(c)
    \/ UploadEnds(c) \/ Built(c) \/ Removed(c)
    \/ \E f \in Files : Download(c, f) \/ Upload(c, f) \/ Unlink(c, f)

Next == Crash \/ \E c \in Callers : Ask(c) \/ Step(c)

Spec == Init /\ [][Next]_vars

-----------------------------------------------------------------------------
(* What should be true of it.                                              *)

\* Every variable has its type, and a call that works on a file has one.
TypeOK ==
    /\ made \in BOOLEAN
    /\ local \in Directory
    /\ games \in [1 .. MaxVersion -> Directory]
    /\ told \in 0 .. MaxVersion
    /\ call \in [Callers -> Calls]
    /\ faults \in 0 .. MaxFaults /\ crashes \in 0 .. MaxCrashes
    /\ kept \in [Files -> Text]
    /\ mixed \subseteq Files
    /\ hollow \in BOOLEAN /\ blurred \in BOOLEAN
    /\ \A c \in Callers :
        call[c].at \in {"read", "open", "flush"} => call[c].file \in Files

\* init_or_load_game_source takes the number of versions for the name of the
\* newest (minio_games.py:17-31, game_generator.py:187-191).  So it is, whatever
\* calls, failures and crashes there were, as long as no build answered without
\* having put a file into its version: no version is skipped.
VersionsAreCounted == hollow \/ Versions = 1 .. Count

\* What answered calls of str_replace_editor and write_game_file left in a file
\* is there until it is replaced, loaded over or cleaned up, through uploads,
\* calls that fail and crashes, unless two calls ever worked on that file at
\* once or a crash hit one that had emptied it.
UndisturbedEditsStay ==
    \A f \in Files \ (mixed \cup Emptied) :
        kept[f] \subseteq (IF local[f] = None THEN {} ELSE local[f])

\* A version that a newer one followed is never written again, although a build
\* uploads over whatever is there (minio_games.py:32-58): the agent knows the
\* newest one, unless a listing failed and told it "v1" (:17-31), a build answered
\* without a file, two calls found out or built versions at once, or the process
\* died in a build.
OldVersionsStay ==
    [][\A v \in 1 .. MaxVersion : games'[v] # games[v] =>
            v >= Count \/ hollow \/ blurred]_vars

=============================================================================
