--------------------------- MODULE OpenedPublication ---------------------------
(***************************************************************************)
(* An opened publication: OpenedPublicationHandle of                       *)
(* packages/epub/src/resource/opened-publication.ts with the preparation   *)
(* of narration (narration/narration-preparation.ts) it runs.  One image   *)
(* read and one preparation may be under way, either may be aborted, and   *)
(* close may come at any time.  A preparation is resumable: the checkpoint *)
(* keeps where the last batch ended, the quotation open there and where    *)
(* the traversal of the source stood, and the next request goes on from    *)
(* it when it asks for exactly that place in the same context.             *)
(*                                                                         *)
(* A preparation gives control back at its awaits: a step below is what    *)
(* runs between two of them.  An abort is noticed at any of them.          *)
(*                                                                         *)
(* Left out: recovery of locators that no longer resolve, the refusals     *)
(* that change nothing (closed, busy, invalid, already aborted), the       *)
(* English title context, which travels as the quotation does, and the     *)
(* work budgets of the whole operation.                                    *)
(***************************************************************************)
EXTENDS NarrationText

CONSTANTS
    Books,      \* the books that may be open
    BatchMax    \* segments a request may ask for

ASSUME BatchAssumption == BatchMax \in Nat \ {0}

ASSUME BooksAssumption == Books \subseteq Seq(Seq(Kinds))

VARIABLES
    book,
    closing,     \* "open", "waiting" for the active work, "archive", "closed"
    reading,     \* a read of an image is under way
    phase,       \* of the preparation
    aborted,     \* its linked signal
    request,
    cursor,      \* where the next window starts
    leaves,      \* the leaves of the window still to be packed
    prepared,    \* the ends of the segments of the first of them
    sourceEnds,  \* the window reaches the end of the source
    batch,       \* the segments to return
    quotation, returned,  \* quotation context at the cursor and at the batch's end
    checkpoint,
    result       \* of the preparation, then what the caller was answered

jobVars == <<request, cursor, leaves, prepared, sourceEnds, batch, quotation,
             returned>>
vars == <<book, closing, reading, phase, aborted, jobVars, checkpoint, result>>

Nowhere == <<0, 0>>
NoQuotation == [at |-> Nowhere, open |-> FALSE]
NoRequest == [start |-> Nowhere, context |-> "none", maximum |-> 0, warm |-> FALSE]
NoResult == [status |-> "none", request |-> NoRequest, segments |-> <<>>]
NoCheckpoint == [context |-> "none", continuation |-> Nowhere,
                 quotation |-> NoQuotation, leaf |-> Nowhere, structural |-> 0]

RetainedMax == BatchMax + 1

Init ==
    /\ book \in Books
    /\ closing = "open" /\ reading = FALSE /\ phase = "idle" /\ aborted = FALSE
    /\ request = NoRequest /\ cursor = Nowhere /\ leaves = {}
    /\ prepared = <<>> /\ sourceEnds = FALSE /\ batch = <<>>
    /\ quotation = NoQuotation /\ returned = NoQuotation
    /\ checkpoint = NoCheckpoint /\ result = NoResult

-----------------------------------------------------------------------------
(* Image reads *)

StartRead ==
    /\ closing = "open" /\ ~reading
    /\ reading' = TRUE
    /\ UNCHANGED <<book, closing, phase, aborted, jobVars, checkpoint, result>>

\* With the bytes, a failure or a cancellation.
EndRead ==
    /\ reading
    /\ reading' = FALSE
    /\ UNCHANGED <<book, closing, phase, aborted, jobVars, checkpoint, result>>

-----------------------------------------------------------------------------
(* Preparation of narration *)

Resumes(start, c) ==
    /\ checkpoint.context = c
    /\ checkpoint.continuation # Nowhere /\ checkpoint.continuation = start

\* Mutated form: the block is read from there, resumed or not.
FirstCursor_inPlace(start, warm) == start

\* A request that does not resume and falls inside a block reads the block
\* from its beginning.
FirstCursor(start, warm) ==
    IF ~warm /\ 0 < start[2] /\ start[2] < Length(book, start[1])
    THEN <<start[1], 0>> ELSE start

PrepareNarration(start, c, maximum) ==
    LET warm == Resumes(start, c)
    IN /\ closing = "open" /\ phase = "idle"
       /\ phase' = "visiting" /\ aborted' = FALSE
       /\ request' = [start |-> start, context |-> c, maximum |-> maximum,
                      warm |-> warm]
       /\ cursor' = FirstCursor(start, warm)
       /\ quotation' = IF warm THEN checkpoint.quotation ELSE NoQuotation
       /\ checkpoint' = [NoCheckpoint EXCEPT !.context = c,
              !.leaf = IF warm THEN checkpoint.leaf ELSE Nowhere,
              !.structural = IF warm THEN checkpoint.structural ELSE 0]
       /\ result' = NoResult
       /\ UNCHANGED <<book, closing, reading, leaves, prepared, sourceEnds,
                      batch, returned>>

Ends(status) ==
    /\ phase' = "settling"
    /\ result' = [status |-> status, request |-> request,
                  segments |-> IF status \in {"batch", "complete"}
                               THEN batch' ELSE <<>>]

Stop(status) ==
    /\ UNCHANGED <<cursor, leaves, prepared, sourceEnds, batch, quotation,
                   returned>>
    /\ Ends(status)

\* The traversal starts at the saved block if the target is not before it,
\* and saves its state where it meets the target.
TraversalStart(block) ==
    IF checkpoint.structural # 0 /\ checkpoint.structural <= block
    THEN checkpoint.structural ELSE 1

VisitTarget ==
    /\ phase = "visiting"
    /\ \/ /\ aborted
          /\ Stop("cancelled") /\ UNCHANGED checkpoint
       \/ /\ TraversalStart(cursor[1]) > cursor[1]
          /\ Stop("internal-failure") /\ UNCHANGED checkpoint
       \/ /\ TraversalStart(cursor[1]) <= cursor[1]
          /\ phase' = "projecting"
          /\ checkpoint' = [checkpoint EXCEPT !.structural = cursor[1]]
          /\ UNCHANGED <<cursor, leaves, prepared, sourceEnds, batch,
                         quotation, returned, result>>
    /\ UNCHANGED <<book, closing, reading, aborted, request>>

\* The first leaf in reading order.
First(some) == CHOOSE leaf \in some : \A other \in some : leaf.block <= other.block

\* Where the projection of the window's first leaf begins to count units.
ProjectionStart(leaf) ==
    IF checkpoint.leaf[1] = leaf.block /\ checkpoint.leaf[2] <= leaf.from
    THEN checkpoint.leaf[2] ELSE 0

ProjectWindow ==
    /\ phase = "projecting"
    /\ \E window \in {WindowLeaves(book, cursor)} :
          LET first == First(window)
          IN \/ /\ window = {}
                /\ IF aborted THEN Stop("cancelled") ELSE Stop("complete")
                /\ UNCHANGED checkpoint
             \/ /\ window # {}
                /\ checkpoint' = [checkpoint EXCEPT !.leaf = <<first.block, first.from>>]
                /\ IF aborted THEN Stop("cancelled")
                   ELSE IF first.from - ProjectionStart(first) + HeldUnits(book, cursor)
                             > InspectMax
                   THEN Stop("resource-limit-exceeded")
                   ELSE /\ phase' = "packing"
                        /\ leaves' = window
                        /\ sourceEnds' = (HeldUnits(book, cursor) < Window)
                        /\ UNCHANGED <<cursor, prepared, batch, quotation, returned,
                                       result>>
    /\ UNCHANGED <<book, closing, reading, aborted, request>>

\* Segments that end before the place asked for are not returned.
AtOrAfterStart(segment) ==
    segment.block # request.start[1] \/ segment.to > request.start[2]

\* The last segment of a leaf that the window cut is packed again.
StableEnds(leaf, ends) ==
    IF Partial(book, leaf) /\ Complete(book, leaf, ends) /\ ends # <<>>
    THEN Front(ends) ELSE ends

\* Nothing of the leaf is stable, and it is not silent: no way forward.
NoWayForward(leaf, ends) ==
    /\ Partial(book, leaf) /\ Len(ends) = 1 /\ Complete(book, leaf, ends)

NextOffset(leaf, ends) ==
    IF ends = <<>> THEN leaf.to
    ELSE IF Complete(book, leaf, ends) THEN
        IF Partial(book, leaf) THEN Last(StableEnds(leaf, ends)) ELSE leaf.to
    ELSE Last(ends)

\* The quotation context the leaf starts with holds only where it was taken.
OpenAt(leaf, offset) ==
    LET before == quotation.at = <<leaf.block, leaf.from>> /\ quotation.open
    IN Quoted(book, leaf.block, leaf.from, offset, before)

QuotationAt(leaf, offset) ==
    [at |-> <<leaf.block, offset>>, open |-> OpenAt(leaf, offset)]

SegmentsOf(leaf, ends) ==
    [n \in DOMAIN ends |->
       LET from == IF n = 1 THEN leaf.from ELSE ends[n - 1]
       IN [block |-> leaf.block, from |-> from, to |-> ends[n],
           open |-> OpenAt(leaf, from)]]

\* The checkpoint of a batch, written as it is returned.
SaveBatch ==
    LET end == Last(batch')
    IN checkpoint' = [checkpoint EXCEPT !.continuation = <<end.block, end.to>>,
                                        !.quotation = returned']

\* The packer's loop, a segment at a time.  It stops when what may be
\* retained is, or when the rest of the leaf is silent, and fails when no
\* segment can reach the next spoken unit.
PackSegment ==
    LET leaf == First(leaves)
        from == Reached(leaf, prepared)
        more == /\ Len(prepared) < RetainedMax - Len(batch)
                /\ Spoken(book, leaf.block, from, leaf.to)
    IN /\ phase = "packing"
       /\ \/ /\ aborted
             /\ Stop("cancelled")
          \/ /\ more
             /\ \E ends \in {Candidates(book, leaf.block, from, leaf.to, request.context)} :
                   \/ /\ ends = {}
                      /\ Stop("resource-limit-exceeded")
                   \/ /\ ends # {}
                      /\ prepared' = Append(prepared, SelectEnd(book, leaf.block, ends,
                                                     from, leaf.to, request.context))
                      /\ UNCHANGED <<phase, cursor, leaves, sourceEnds, batch,
                                     quotation, returned, result>>
          \/ /\ ~more /\ ~aborted
             /\ phase' = "packed"
             /\ UNCHANGED <<cursor, leaves, prepared, sourceEnds, batch,
                            quotation, returned, result>>
       /\ UNCHANGED <<book, closing, reading, aborted, request, checkpoint>>

Cut(leaf) == Partial(book, leaf) /\ Complete(book, leaf, prepared)

\* The segments of the leaf that are to be returned, all told.  They are in
\* order: one that is not before the start is followed by no other that is.
Usable(leaf) ==
    LET segments == SegmentsOf(leaf, StableEnds(leaf, prepared))
        wanted == {n \in DOMAIN segments : AtOrAfterStart(segments[n])}
    IN IF wanted = {} THEN <<>> ELSE SubSeq(segments, Min(wanted), Len(segments))

\* Mutated form: the batch takes the lookahead as well.
Room_withLookahead == request.maximum - Len(batch) + 1

Room == request.maximum - Len(batch)

\* The loop over the leaves of the window goes on: with the rest of a leaf
\* that had more segments than may be retained, or with the next leaf.
NextLeaf(leaf) ==
    /\ ~Cut(leaf) /\ (Complete(book, leaf, prepared) => leaves # {leaf})
    /\ leaves' = (leaves \ {leaf}) \union
                 IF Complete(book, leaf, prepared) THEN {}
                 ELSE {[leaf EXCEPT !.from = NextOffset(leaf, prepared)]}
    /\ phase' = "packing"
    /\ quotation' = QuotationAt(leaf, NextOffset(leaf, prepared))
    /\ UNCHANGED <<cursor, checkpoint, result>>

\* The source is over and the batch was not filled.
SourceComplete(leaf) ==
    /\ ~Cut(leaf) /\ Complete(book, leaf, prepared) /\ leaves = {leaf}
    /\ sourceEnds
    /\ Ends("complete")
    /\ UNCHANGED <<cursor, leaves, quotation, checkpoint>>

\* Another window, from where the stable segments ended.
NextWindow(leaf) ==
    LET next == <<leaf.block, NextOffset(leaf, prepared)>>
    IN /\ \/ Cut(leaf)
          \/ Complete(book, leaf, prepared) /\ leaves = {leaf} /\ ~sourceEnds
       /\ \/ /\ next = cursor
             /\ Ends("resource-limit-exceeded")
             /\ UNCHANGED <<cursor, leaves, quotation>>
          \/ /\ next # cursor
             /\ phase' = "visiting"
             /\ cursor' = next /\ leaves' = {}
             /\ quotation' = QuotationAt(leaf, next[2])
             /\ UNCHANGED result
       /\ UNCHANGED checkpoint

RetainSegments ==
    LET leaf == First(leaves)
    IN /\ phase = "packed" /\ ~NoWayForward(leaf, prepared)
       /\ \E usable \in {Usable(leaf)} :
             LET taken == SubSeq(usable, 1, Min({Len(usable), Room}))
             IN /\ batch' = batch \o taken
                /\ returned' = IF taken = <<>> THEN returned
                               ELSE QuotationAt(leaf, Last(taken).to)
                /\ prepared' = <<>>
                /\ \/ /\ Len(usable) > Room              \* the lookahead
                      /\ Ends("batch") /\ SaveBatch
                      /\ UNCHANGED <<cursor, leaves, quotation>>
                   \/ /\ Len(usable) <= Room
                      /\ NextLeaf(leaf) \/ SourceComplete(leaf) \/ NextWindow(leaf)
       /\ UNCHANGED <<book, closing, reading, aborted, request, sourceEnds>>

\* Nothing of the leaf is stable, or the abort is noticed before the answer.
RetainFails ==
    /\ phase = "packed"
    /\ \/ NoWayForward(First(leaves), prepared) /\ Stop("resource-limit-exceeded")
       \/ aborted /\ Stop("cancelled")
    /\ UNCHANGED <<book, closing, reading, aborted, request, checkpoint>>

-----------------------------------------------------------------------------
(* The end of a preparation, an abort, and close *)

Forgotten(saved) ==
    [saved EXCEPT !.continuation = Nowhere, !.leaf = Nowhere, !.structural = 0]

\* Mutated form: what was prepared is delivered in any case.
Delivered_always(status) == status

Delivered(status) == IF aborted THEN "cancelled" ELSE status

\* What was prepared is not delivered once its signal was aborted.
Settle ==
    /\ phase = "settling"
    /\ phase' = "idle"
    /\ checkpoint' = IF aborted \/ result.status \notin {"batch", "complete"}
                     THEN Forgotten(checkpoint) ELSE checkpoint
    /\ result' = [result EXCEPT !.status = Delivered(@),
                               !.segments = IF aborted THEN <<>> ELSE @]
    /\ request' = NoRequest /\ cursor' = Nowhere /\ leaves' = {}
    /\ prepared' = <<>> /\ sourceEnds' = FALSE /\ batch' = <<>>
    /\ quotation' = NoQuotation /\ returned' = NoQuotation
    /\ aborted' = FALSE
    /\ UNCHANGED <<book, closing, reading>>

Abort ==
    /\ phase # "idle" /\ ~aborted
    /\ aborted' = TRUE
    /\ UNCHANGED <<book, closing, reading, phase, jobVars, checkpoint, result>>

Close ==
    /\ closing = "open"
    /\ closing' = "waiting"
    /\ aborted' = (phase # "idle")
    /\ checkpoint' = Forgotten(checkpoint)
    /\ UNCHANGED <<book, reading, phase, jobVars, result>>

CloseArchive ==
    /\ closing = "waiting" /\ phase = "idle" /\ ~reading
    /\ closing' = "archive"
    /\ UNCHANGED <<book, reading, phase, aborted, jobVars, checkpoint, result>>

ArchiveCloses ==
    /\ closing = "archive"
    /\ closing' = "closed"
    /\ UNCHANGED <<book, reading, phase, aborted, jobVars, checkpoint, result>>

\* All but the reads.
Work ==
    \/ \E start \in Positions(book), c \in Contexts, n \in 1 .. BatchMax :
          PrepareNarration(start, c, n)
    \/ VisitTarget \/ ProjectWindow \/ PackSegment \/ RetainSegments \/ RetainFails
    \/ Settle
    \/ Abort \/ Close \/ CloseArchive \/ ArchiveCloses

Next == StartRead \/ EndRead \/ Work

\* The event loop runs what is due, a read of the archive ends, and so does
\* its close.  Nobody has to ask for anything, abort or close.
WorkGoesOn ==
    /\ WF_vars(VisitTarget) /\ WF_vars(ProjectWindow) /\ WF_vars(PackSegment)
    /\ WF_vars(RetainSegments \/ RetainFails) /\ WF_vars(Settle)
    /\ WF_vars(CloseArchive) /\ WF_vars(ArchiveCloses)

Spec == Init /\ [][Next]_vars /\ WorkGoesOn /\ WF_vars(EndRead)

-----------------------------------------------------------------------------
(* Properties *)

Places == {Nowhere} \union Positions(book)
Quotations == [at : Places, open : BOOLEAN]
Ranges == [block : Blocks(book), from : Nat, to : Nat]
Segments == [block : Blocks(book), from : Nat, to : Nat, open : BOOLEAN]
Requests == [start : Places, context : Contexts \union {"none"},
             maximum : 0 .. BatchMax, warm : BOOLEAN]
Answers == {"none", "batch", "complete", "cancelled", "internal-failure",
            "resource-limit-exceeded"}

\* Every variable holds what the code can store there, and no more segments
\* are retained than the batch and its lookahead.
TypeOK ==
    /\ book \in Books /\ closing \in {"open", "waiting", "archive", "closed"}
    /\ reading \in BOOLEAN /\ aborted \in BOOLEAN /\ sourceEnds \in BOOLEAN
    /\ phase \in {"idle", "visiting", "projecting", "packing", "packed",
                 "settling"}
    /\ request \in Requests /\ cursor \in Places /\ leaves \subseteq Ranges
    /\ prepared \in Seq(Nat)
    /\ batch \in Seq(Segments) /\ Len(batch) <= BatchMax
    /\ Len(batch) + Len(prepared) <= RetainedMax
    /\ quotation \in Quotations
    /\ returned \in Quotations
    /\ checkpoint \in [context : Contexts \union {"none"}, continuation : Places,
                       quotation : Quotations, leaf : Places,
                       structural : 0 .. Len(book)]
    /\ result \in [status : Answers, request : Requests, segments : Seq(Segments)]

\* The units that are to be heard, each at the position it starts at.
SpokenUnits == {p \in Units(book) : Spoken(book, p[1], p[2], p[2] + 1)}

Holds(segment, p) ==
    segment.block = p[1] /\ segment.from <= p[2] /\ p[2] < segment.to

\* The text of an answer: from the place asked for to the end of the batch,
\* or of the book, every spoken unit is in one segment and only one.
SaysEveryUnitOnce(answer) ==
    LET start == answer.request.start
        segments == answer.segments
        end == <<Last(segments).block, Last(segments).to>>
    IN \A p \in SpokenUnits :
         ~Before(p, start) /\ (answer.status = "complete" \/ Before(p, end)) =>
             Cardinality({n \in DOMAIN segments : Holds(segments[n], p)}) = 1

\* A batch is in reading order, is not empty, and says again something that
\* precedes the place asked for only when it did not resume there.
GoesForward(answer) ==
    LET start == answer.request.start
        segments == answer.segments
    IN /\ Len(segments) <= answer.request.maximum
       /\ answer.status = "batch" => segments # <<>>
       /\ \A n \in DOMAIN segments :
             /\ Before(start, <<segments[n].block, segments[n].to>>)
             /\ answer.request.warm =>
                   ~Before(<<segments[n].block, segments[n].from>>, start)
             /\ n > 1 => ~Before(<<segments[n].block, segments[n].from>>,
                                 <<segments[n - 1].block, segments[n - 1].to>>)

\* Every segment knows whether a quotation is open where it starts.
QuotationsAreKnown(answer) ==
    \A n \in DOMAIN answer.segments :
        LET s == answer.segments[n]
        IN s.open = Quoted(book, s.block, 0, s.from, FALSE)

\* Whatever was prepared, aborted or abandoned before, and whether or not the
\* preparation resumed from a checkpoint, what prepareNarration returns is
\* the text of the book from the place asked for: nothing skipped, nothing
\* twice, the quotation right.
PreparedAsWritten ==
    result.status \in {"batch", "complete"} =>
        /\ SaysEveryUnitOnce(result)
        /\ GoesForward(result)
        /\ QuotationsAreKnown(result)

\* A preparation fails in three cases.  The window cuts a block when one
\* segment holds all it has of it, so that nothing of it is known to be
\* stable; a silence longer than a segment precedes the next spoken unit; or
\* it resumes deep in a block, in a silence that the saved traversal had left
\* behind when it looked for the next segment.  Otherwise the traversal finds
\* its target, no place is too deep in a block to be reached, and every window
\* goes forward.
SegmentCut ==
    leaves # {} /\ Partial(book, First(leaves)) /\ prepared = <<First(leaves).to>>

LongSilence ==
    /\ leaves # {}
    /\ LET leaf == First(leaves)
           from == Reached(leaf, prepared)
       IN /\ Spoken(book, leaf.block, from, leaf.to)
          /\ from + Hard[request.context] < leaf.to
          /\ ~Spoken(book, leaf.block, from, from + Hard[request.context])

DeepSilence ==
    /\ leaves = {} /\ request.warm /\ cursor = request.start
    /\ cursor[2] + HeldUnits(book, cursor) > InspectMax
    /\ cursor[2] < Length(book, cursor[1])
    /\ ~Spoken(book, cursor[1], cursor[2], cursor[2] + 1)

FailsOnlyThere ==
    phase = "settling" /\ result.status \notin {"batch", "complete", "cancelled"} =>
        /\ result.status = "resource-limit-exceeded"
        /\ SegmentCut \/ LongSilence \/ DeepSilence

\* What a preparation returns, and when it returns nothing.
NarrationIsTheText == PreparedAsWritten /\ FailsOnlyThere

\* The archive is closed under no read and no preparation, and a closed
\* publication keeps no part of its traversal.
ClosedIsQuiet ==
    closing \in {"archive", "closed"} =>
        phase = "idle" /\ ~reading /\ checkpoint = Forgotten(checkpoint)

\* Close waits for the read and the preparation under way and then closes the
\* archive, preparations end, and after close nothing but a cancellation is
\* answered.
PublicationCloses ==
    /\ []ClosedIsQuiet
    /\ phase # "idle" ~> phase = "idle"
    /\ closing # "open" ~> closing = "closed"
    /\ [][closing # "open" /\ phase = "settling" /\ phase' = "idle" =>
             result'.status = "cancelled"]_vars

=============================================================================
