---------------------------- MODULE ContextImages ----------------------------
(***************************************************************************)
(* The hook extract_and_persist_images of middleware/base.py, which runs   *)
(* before a model call, and inject_images_from_tool_results of             *)
(* helper/context.py, which it calls: images that messages name are        *)
(* downloaded and shown to the model, and the context of the run, if it    *)
(* has one, remembers which they were.                                     *)
(*                                                                         *)
(* A message is what the scan makes of its content: a JSON object with a   *)
(* list of image URLs, a JSON text that is no object, or neither, which    *)
(* is an object without URLs to it.  An entry of the list that yields no   *)
(* URL is None.                                                            *)
(***************************************************************************)
EXTENDS Integers, Sequences, SequencesExt

CONSTANTS
    Urls,
    None,           \* an entry without a URL
    HasContext,     \* the run was given a context, which the service does not
                    \* do (action/completion/grpc.py:47): nothing is kept then
    MAX_IMAGES,     \* images per call of the hook
    MaxMessages, MaxEntries     \* bounds on the messages and on a list

ASSUME ImagesAssumption ==
    /\ None \notin Urls /\ HasContext \in BOOLEAN
    /\ MAX_IMAGES \in Nat /\ MaxMessages \in Nat /\ MaxEntries \in Nat

Entries == UNION {[1 .. n -> Urls \cup {None}] : n \in 0 .. MaxEntries}
Message == [object : BOOLEAN, urls : Entries]

VARIABLES
    messages,           \* of the conversation
    image_urls,         \* of the run's context
    at,                 \* where the hook is
    all_image_urls,     \* entries not yet looked at
    new_images,         \* URLs downloaded by this call
    tried               \* history: URLs this call failed to download

vars == <<messages, image_urls, at, all_image_urls, new_images, tried>>

Init ==
    /\ messages = <<>> /\ image_urls = <<>>
    /\ at = "idle"
    /\ all_image_urls = <<>> /\ new_images = <<>>
    /\ tried = {}

\* A model, a tool or the user adds a message, and the scan makes no difference
\* between them; only a JSON object has a list.
Say(message) ==
    /\ at = "idle" /\ Len(messages) < MaxMessages
    /\ message.object \/ message.urls = <<>>
    /\ messages' = Append(messages, message)
    /\ UNCHANGED <<image_urls, at, all_image_urls, new_images, tried>>

\* A bug to be caught: the scan goes from the oldest message to the newest.
MutListed == FlattenSeq([i \in DOMAIN messages |-> messages[i].urls])

\* The lists of all messages, the newest message's first.
Listed == FlattenSeq(Reverse([i \in DOMAIN messages |-> messages[i].urls]))

\* data.get of a JSON text that is no object raises, out of the hook.
Scan ==
    /\ at = "idle"
    /\ IF \A i \in DOMAIN messages : messages[i].object
       THEN at' = "fetch" /\ all_image_urls' = Listed
       ELSE at' = "raised" /\ UNCHANGED all_image_urls
    /\ new_images' = <<>> /\ tried' = {}
    /\ UNCHANGED <<messages, image_urls>>

\* A bug to be caught: the limit is off by one.
MutTake ==
    /\ at = "fetch" /\ all_image_urls # <<>>
    /\ Len(new_images) <= MAX_IMAGES
    /\ all_image_urls' = Tail(all_image_urls)
    /\ UNCHANGED <<messages, image_urls, at>>

Take ==
    /\ at = "fetch" /\ all_image_urls # <<>>
    /\ Len(new_images) < MAX_IMAGES
    /\ all_image_urls' = Tail(all_image_urls)
    /\ UNCHANGED <<messages, image_urls, at>>

Known(entry) == entry \in ToSet(image_urls) \cup ToSet(new_images)

Skip ==
    /\ Take
    /\ Head(all_image_urls) = None \/ Known(Head(all_image_urls))
    /\ UNCHANGED <<new_images, tried>>

Download ==
    /\ Take
    /\ Head(all_image_urls) # None /\ ~Known(Head(all_image_urls))
    /\ new_images' = Append(new_images, Head(all_image_urls))
    /\ UNCHANGED tried

DownloadFails ==
    /\ Take
    /\ Head(all_image_urls) # None /\ ~Known(Head(all_image_urls))
    /\ tried' = tried \cup {Head(all_image_urls)}
    /\ UNCHANGED new_images

\* The hook adds the images to the messages and to the context, if there is one.
Return ==
    /\ at = "fetch"
    /\ all_image_urls = <<>> \/ Len(new_images) >= MAX_IMAGES
    /\ image_urls' = IF HasContext THEN image_urls \o new_images ELSE image_urls
    /\ at' = "idle" /\ all_image_urls' = <<>>
    /\ UNCHANGED <<messages, new_images, tried>>

Next == (\E message \in Message : Say(message)) \/ Scan \/ Skip \/ Download
        \/ DownloadFails \/ Return

Spec == Init /\ [][Next]_vars

-----------------------------------------------------------------------------

\* The hook's variables are well formed; a call downloads at most MAX_IMAGES.
TypeOK ==
    /\ messages \in Seq(Message) /\ Len(messages) <= MaxMessages
    /\ image_urls \in Seq(Urls)
    /\ at \in {"idle", "fetch", "raised"}
    /\ all_image_urls \in Seq(Urls \cup {None})
    /\ new_images \in Seq(Urls) /\ Len(new_images) <= MAX_IMAGES
    /\ tried \subseteq Urls

Listing(url) == {i \in DOMAIN messages : url \in ToSet(messages[i].urls)}
Missed == {url \in Urls : Listing(url) # {} /\ ~Known(url) /\ url \notin tried}

\* A call leaves out an image that it could have downloaded only when it has as many
\* others, all different, as the limit allows, and each of them is named at least as
\* late: no image that is named twice or could not be loaded uses the limit up
\* (helper/context.py:59-75).
NewestImagesFirst ==
    [][Return => \A url \in Missed :
           /\ Len(new_images) = MAX_IMAGES /\ IsInjective(new_images)
           /\ \A other \in ToSet(new_images) :
                  \A i \in Listing(url) : \E j \in Listing(other) : i <= j]_vars

=============================================================================
