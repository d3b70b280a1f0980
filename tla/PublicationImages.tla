--------------------------- MODULE PublicationImages ---------------------------
(***************************************************************************)
(* The images of an open publication: what the page shows of each          *)
(* (apps/desktop/src/reader/images/SemanticRasterImage.tsx), the loader    *)
(* that reads them one at a time (publication-raster-image-loader.ts), the *)
(* manager of what is decoded (raster-image-source.ts), and the            *)
(* publication they are read from (OpenedPublication).                     *)
(*                                                                         *)
(* An image is an element of the page, mounted once: a chapter that is     *)
(* opened again mounts others.  Its load is asked for when it comes into   *)
(* view, and passes through awaits between which elements unmount, the     *)
(* reader is left, and the publication closes.  A load is its own thread   *)
(* of control: that only one is under way is not assumed.                  *)
(*                                                                         *)
(* The limits of a decoded image's size and of all that are alive are one  *)
(* kind of refusal; their number is kept, for it bounds the queue as well. *)
(***************************************************************************)
EXTENDS OpenedPublication

CONSTANTS
    Images,
    ImagesOf,    \* the images of each book
    MaxSources,  \* maximumLiveSources, and MAXIMUM_OUTSTANDING_LOADS
    None         \* undefined

ASSUME ImagesAssumption ==
    /\ IsFiniteSet(Images) /\ None \notin Images
    /\ ImagesOf \in [Books -> SUBSET Images]
    /\ MaxSources \in Nat

VARIABLES
    view,       \* what the page shows of an image
    load,       \* how far its load is, "none" before and after
    answer,     \* what its load was answered, until the element learns it
    abandoned,  \* the loads under way whose signal was aborted
    queue, active,
    sources,    \* the decoded images that are alive
    urls,       \* the object URLs that are not revoked
    left,       \* the reader is unmounted
    loaderClosed

imageVars == <<view, load, answer, abandoned, queue, active, sources, urls,
               left, loaderClosed>>
allVars == <<vars, imageVars>>

\* How a load ends, before anyone is told.
Results == {"ready", "cancelled", "unavailable"}
Unsettled == {"reading", "decoding"} \union Results
UnderWay == Unsettled \union {"settled"}

ImagesInit ==
    /\ Init
    /\ view = [i \in Images |-> IF i \in ImagesOf[book] THEN "unseen" ELSE "gone"]
    /\ load = [i \in Images |-> "none"] /\ answer = [i \in Images |-> "none"]
    /\ abandoned = {} /\ queue = <<>> /\ active = None
    /\ sources = {} /\ urls = {}
    /\ left = FALSE /\ loaderClosed = FALSE

-----------------------------------------------------------------------------
(* The loader *)

Idle == active = None

Outstanding == (IF active = None THEN 0 ELSE 1) + Len(queue)

Refuses ==
    loaderClosed \/ closing # "open" \/ Outstanding >= MaxSources

\* performLoad up to its first await: the publication reads one image at a
\* time, and none once it closes.
Start(i, states) ==
    \/ StartRead /\ load' = [states EXCEPT ![i] = "reading"]
    \/ /\ closing # "open" \/ reading
       /\ load' = [states EXCEPT ![i] = "unavailable"]
       /\ UNCHANGED vars

\* An element comes into view and asks for its image.
Appear(i) ==
    /\ view[i] = "unseen"
    /\ view' = [view EXCEPT ![i] = "loading"]
    /\ \/ /\ Refuses
          /\ answer' = [answer EXCEPT ![i] = "unavailable"]
          /\ UNCHANGED <<vars, load, queue, active>>
       \/ /\ ~Refuses /\ Idle
          /\ active' = i /\ Start(i, load)
          /\ UNCHANGED <<answer, queue>>
       \/ /\ ~Refuses /\ ~Idle
          /\ queue' = Append(queue, i)
          /\ load' = [load EXCEPT ![i] = "queued"]
          /\ UNCHANGED <<vars, answer, active>>
    /\ UNCHANGED <<abandoned, sources, urls, left, loaderClosed>>

Cancelled(i) == loaderClosed \/ i \in abandoned

\* The bytes are read, or not, and given to the manager.
ReadEnds(i) ==
    /\ load[i] = "reading"
    /\ EndRead
    /\ \/ /\ Cancelled(i)
          /\ load' = [load EXCEPT ![i] = "cancelled"]
          /\ UNCHANGED urls
       \/ /\ ~Cancelled(i)    \* a failure, an image too large, or too many
          /\ load' = [load EXCEPT ![i] = "unavailable"]
          /\ UNCHANGED urls
       \/ /\ ~Cancelled(i) /\ Cardinality(sources) < MaxSources
          /\ \A j \in Images : load[j] # "decoding"
          /\ load' = [load EXCEPT ![i] = "decoding"]
          /\ urls' = urls \union {i}
    /\ UNCHANGED <<view, answer, abandoned, queue, active, sources, left,
                   loaderClosed>>

\* The browser decoded the image, or not; a source is made of it.
DecodeEnds(i) ==
    /\ load[i] = "decoding"
    /\ \/ /\ Cancelled(i)
          /\ load' = [load EXCEPT ![i] = "cancelled"]
          /\ urls' = urls \ {i}
          /\ UNCHANGED sources
       \/ /\ ~Cancelled(i)
          /\ load' = [load EXCEPT ![i] = "unavailable"]
          /\ urls' = urls \ {i}
          /\ UNCHANGED sources
       \/ /\ ~Cancelled(i) /\ Cardinality(sources) < MaxSources
          /\ load' = [load EXCEPT ![i] = "ready"]
          /\ sources' = sources \union {i}
          /\ UNCHANGED urls
    /\ UNCHANGED <<vars, view, answer, abandoned, queue, active, left,
                   loaderClosed>>

Release(S) == sources' = sources \ S /\ urls' = urls \ (S \intersect sources)

\* The load is answered; a source nobody waits for any more is let go.
Deliver(i) ==
    /\ load[i] \in Results
    /\ load' = [load EXCEPT ![i] = "settled"]
    /\ \/ /\ load[i] = "ready" /\ Cancelled(i)
          /\ answer' = [answer EXCEPT ![i] = "cancelled"]
          /\ Release({i})
       \/ /\ ~(load[i] = "ready" /\ Cancelled(i))
          /\ answer' = [answer EXCEPT ![i] = load[i]]
          /\ UNCHANGED <<sources, urls>>
    /\ UNCHANGED <<vars, view, abandoned, queue, active, left, loaderClosed>>

\* Mutated form: the queue is not served after a load that was given up.
Serves_unlessAbandoned(i) == ~loaderClosed /\ queue # <<>> /\ i \notin abandoned

Serves(i) == ~loaderClosed /\ queue # <<>>

\* A turn later the loader is free, and the next load starts.
NextLoad(i) ==
    /\ load[i] = "settled"
    /\ \/ /\ ~Serves(i)
          /\ load' = [load EXCEPT ![i] = "none"]
          /\ active' = None
          /\ UNCHANGED <<vars, queue>>
       \/ /\ Serves(i)
          /\ active' = Head(queue) /\ queue' = Tail(queue)
          /\ Start(Head(queue), [load EXCEPT ![i] = "none"])
    /\ abandoned' = abandoned \ {i}
    /\ UNCHANGED <<view, answer, sources, urls, left, loaderClosed>>

-----------------------------------------------------------------------------
(* The page *)

\* Mutated form: what arrives too late is forgotten.
Unwanted_forgotten(i) == {}

\* The source that an element learns of after it was unmounted.
Unwanted(i) == IF view[i] = "gone" /\ answer[i] = "ready" THEN {i} ELSE {}

Receive(i) ==
    /\ answer[i] \in Results
    /\ answer' = [answer EXCEPT ![i] = "none"]
    /\ view' = [view EXCEPT ![i] =
           IF @ = "gone" THEN "gone"
           ELSE IF answer[i] = "ready" THEN "ready" ELSE "unavailable"]
    /\ Release(Unwanted(i))
    /\ UNCHANGED <<vars, load, abandoned, queue, active, left, loaderClosed>>

\* The browser cannot show what it has decoded.
ShowFails(i) ==
    /\ view[i] = "ready"
    /\ view' = [view EXCEPT ![i] = "unavailable"]
    /\ Release({i})
    /\ UNCHANGED <<vars, load, answer, abandoned, queue, active, left,
                   loaderClosed>>

\* A load that waits is answered at once, the one under way goes on to its next
\* await.
AbortLoad(i) ==
    \/ \E n \in DOMAIN queue :
          /\ queue[n] = i
          /\ queue' = RemoveAt(queue, n)
          /\ load' = [load EXCEPT ![i] = "none"]
          /\ answer' = [answer EXCEPT ![i] = "cancelled"]
          /\ UNCHANGED abandoned
    \/ /\ load[i] \in Unsettled
       /\ abandoned' = abandoned \union {i}
       /\ UNCHANGED <<queue, load, answer>>
    \/ /\ load[i] \in {"none", "settled"}
       /\ UNCHANGED <<queue, load, answer, abandoned>>

\* The effects of an element that unmounts: it aborts its load and releases its
\* source.  A chapter that is left unmounts its images in one turn; here others
\* may come between.
Unmount(i) ==
    /\ view[i] # "gone"
    /\ view' = [view EXCEPT ![i] = "gone"]
    /\ Release(IF view[i] = "ready" THEN {i} ELSE {})
    /\ AbortLoad(i)
    /\ UNCHANGED <<vars, active, left, loaderClosed>>

LeaveReader ==
    /\ ~left /\ \A i \in Images : view[i] = "gone"
    /\ left' = TRUE
    /\ UNCHANGED <<vars, view, load, answer, abandoned, queue, active, sources,
                   urls, loaderClosed>>

\* The loader closes in the turn after the reader was left, and with it the
\* manager.
CloseLoader ==
    /\ left /\ ~loaderClosed
    /\ loaderClosed' = TRUE
    /\ abandoned' = abandoned \union
                       {i \in Images : load[i] \in Unsettled}
    /\ queue' = <<>>
    /\ load' = [i \in Images |-> IF load[i] = "queued" THEN "none" ELSE load[i]]
    /\ answer' = [i \in Images |->
                     IF load[i] = "queued" THEN "cancelled" ELSE answer[i]]
    /\ Release(sources)
    /\ UNCHANGED <<vars, view, active, left>>

\* A load gets on.
Loads(i) == ReadEnds(i) \/ DecodeEnds(i) \/ Deliver(i) \/ NextLoad(i)

ImagesNext ==
    \/ \E i \in Images : Appear(i) \/ Loads(i) \/ Receive(i) \/ ShowFails(i)
                           \/ Unmount(i)
    \/ LeaveReader \/ CloseLoader
    \/ Work /\ UNCHANGED imageVars

\* Reads and decodings end, and the event loop runs what is due.  Nobody has
\* to look at an image, to leave it, or to close the publication.
ImagesSpec ==
    /\ ImagesInit /\ [][ImagesNext]_allVars /\ WorkGoesOn
    /\ WF_allVars(\E i \in Images : Loads(i))
    /\ WF_allVars(\E i \in Images : Receive(i))
    /\ WF_allVars(CloseLoader)

-----------------------------------------------------------------------------
(* Properties *)

\* Every variable holds what the code can store there, those of the
\* publication included.
ImagesTypeOK ==
    /\ TypeOK
    /\ view \in [Images -> {"unseen", "loading", "ready", "unavailable", "gone"}]
    /\ load \in [Images -> {"none", "queued"} \union UnderWay]
    /\ answer \in [Images -> {"none"} \union Results]
    /\ abandoned \subseteq Images /\ queue \in Seq(Images)
    /\ active \in Images \union {None}
    /\ sources \subseteq Images /\ urls \subseteq Images
    /\ left \in BOOLEAN /\ loaderClosed \in BOOLEAN

\* However elements come and go while their images load, every decoded image
\* has one owner that will release it: the element that shows it, or the
\* answer on its way.  There are never more than allowed, no other object URL
\* outlives its decoding, and what is shown has not been revoked.
SourcesAreOwned ==
    /\ \A i \in sources : "ready" \in {view[i], load[i], answer[i]}
    /\ \A i \in Images : view[i] = "ready" => i \in sources
    /\ urls = sources \union {i \in Images : load[i] = "decoding"}
    /\ Cardinality(sources) <= MaxSources
    /\ loaderClosed => sources = {}

\* One load is under way at a time, so that the publication never refuses a
\* read, nor the manager a decoding, because of another; and no element that
\* still waits is told that its load was cancelled.
LoadsTakeTurns ==
    /\ \A i \in Images : load[i] \in UnderWay <=> active = i
    /\ reading <=> \E i \in Images : load[i] = "reading"
    /\ Outstanding <= MaxSources
    /\ \A i \in Images : view[i] = "loading" => answer[i] # "cancelled"

\* Nothing of the images is in hand: none is waited for, and no more is kept
\* for a reader that was left.
Settled ==
    /\ \A i \in Images : view[i] # "loading"
    /\ left => active = None /\ urls = {}

\* Loads take turns, and again and again, as long as the page shows no new
\* image, every one that was waited for has come or was given up; of the images
\* of a reader that was left nothing remains.
ImagesSettle == []LoadsTakeTurns /\ []<>Settled

=============================================================================
