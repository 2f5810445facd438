---------------------------- MODULE StreamContract ----------------------------
(***************************************************************************)
(* What a caller of the Completion RPC is promised, whatever happens       *)
(* inside the service: a stream is any number of content chunks followed   *)
(* by one chunk whose status is "finished" (the final chunk or an error    *)
(* chunk), and the service closes a stream only after that chunk.  A       *)
(* stream may be cut short only between two chunks, when its client is     *)
(* gone.                                                                   *)
(***************************************************************************)
EXTENDS Sequences

CONSTANT Requests

VARIABLES
    out,        \* out[r]: the chunks handed to the transport for r, in order
    stream      \* stream[r]: the state of the stream as its client sees it

svars == <<out, stream>>

Terminal == {"final", "error"}
ChunkKind == Terminal \cup {"content"}

\* The last chunk handed over carries the status "finished".
Finished(s) == s # <<>> /\ s[Len(s)] \in Terminal

Init ==
    /\ out = [r \in Requests |-> <<>>]
    /\ stream = [r \in Requests |-> "idle"]

Open(r) ==
    /\ stream[r] = "idle"
    /\ stream' = [stream EXCEPT ![r] = "open"]
    /\ UNCHANGED out

Send(r) ==
    /\ stream[r] = "open"
    /\ ~Finished(out[r])
    /\ \E k \in ChunkKind : out' = [out EXCEPT ![r] = Append(@, k)]
    /\ UNCHANGED stream

Close(r) ==
    /\ stream[r] = "open"
    /\ Finished(out[r])
    /\ stream' = [stream EXCEPT ![r] = "closed"]
    /\ UNCHANGED out

Cut(r) ==
    /\ stream[r] = "open"
    /\ out[r] # <<>>
    /\ stream' = [stream EXCEPT ![r] = "cut"]
    /\ UNCHANGED out

Next == \E r \in Requests : Open(r) \/ Send(r) \/ Close(r) \/ Cut(r)

Spec == Init /\ [][Next]_svars
===============================================================================
