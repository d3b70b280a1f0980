----------------------- MODULE PublicationImages_proofs -----------------------
(***************************************************************************)
(* Proofs about an open publication, for any books, windows and batches,   *)
(* any images and any limit of live sources: ClosedIsQuiet and             *)
(* NarrationIsTheText of OpenedPublication; ImagesTypeOK, SourcesAreOwned  *)
(* and LoadsTakeTurns of PublicationImages.                                *)
(*                                                                         *)
(* The first is not inductive: whether the checkpoint is empty when the    *)
(* archive is closed depends on what the preparation that was under way    *)
(* when close came leaves behind.  Its signal is aborted, so it forgets    *)
(* what it saved as it settles; and with no preparation under way close    *)
(* itself has forgotten it.                                                *)
(*                                                                         *)
(* The second rests on TextInv: what a preparation has in hand tells the   *)
(* text up to where it stands (Told), with the quotation known there       *)
(* (Known); what is left of its window follows from there (InWindow) and   *)
(* is cut in order (CutInOrder); and what is saved is near enough for the  *)
(* next preparation to go on from (Saved).                                 *)
(*                                                                         *)
(* Nor are the others inductive.  An element, its load and the answer      *)
(* between them are at matching points of their lives (Phases), so that a  *)
(* source that is there has one of them to release it; what waits in the   *)
(* queue has not begun (Waiting); and what was cancelled is wanted no more *)
(* (GivenUp), for the loader is closed after every element has unmounted.  *)
(***************************************************************************)
EXTENDS PublicationImages, FiniteSetTheorems, WellFoundedInduction, TLAPS

-----------------------------------------------------------------------------
(* The publication *)

\* A record with the fields of a checkpoint, whatever they hold.
Shape(c) ==
    \E A, B, C, D, E : c \in [context : A, continuation : B, quotation : C,
                              leaf : D, structural : E]

CheckpointShape == Shape(checkpoint)

Forgets == checkpoint = Forgotten(checkpoint)

\* Once close was called, a preparation under way is aborted, and otherwise
\* nothing is saved.
AbortedByClose ==
    closing # "open" => IF phase = "idle" THEN Forgets ELSE aborted

\* Nothing is under way beside the closing of the archive.
ArchiveIsAlone == closing \in {"archive", "closed"} => phase = "idle" /\ ~reading

\* A signal and a phase are what they can be.
Typed == aborted \in BOOLEAN /\ CheckpointShape

QuietInv == Typed /\ AbortedByClose /\ ArchiveIsAlone

LEMMA Shaped ==
    ASSUME NEW A, NEW B, NEW C, NEW D, NEW E,
           NEW c \in [context : A, continuation : B, quotation : C,
                      leaf : D, structural : E]
    PROVE  Shape(c)
BY DEF Shape

\* Forgetting twice is forgetting once, and keeps the fields.
LEMMA ForgottenForgets ==
    ASSUME NEW c, Shape(c)
    PROVE  Forgotten(c) = Forgotten(Forgotten(c)) /\ Shape(Forgotten(c))
<1>1. PICK A, B, C, D, E : c \in [context : A, continuation : B, quotation : C,
                                  leaf : D, structural : E]
  BY DEF Shape
<1>2. Forgotten(c) \in [context : A, continuation : {Nowhere}, quotation : C,
                        leaf : {Nowhere}, structural : {0}]
  BY <1>1 DEF Forgotten
<1>3. Forgotten(Forgotten(c)) = Forgotten(c)
  BY <1>1 DEF Forgotten
<1>4. Shape(Forgotten(c))
  BY <1>2, Shaped
<1>5. QED BY <1>3, <1>4

\* So does writing some of the fields.
LEMMA WritingKeepsShape ==
    ASSUME NEW c, Shape(c), NEW x, NEW y
    PROVE  /\ Shape([c EXCEPT !.structural = x])
           /\ Shape([c EXCEPT !.leaf = x])
           /\ Shape([c EXCEPT !.continuation = x, !.quotation = y])
<1>1. PICK A, B, C, D, E : c \in [context : A, continuation : B, quotation : C,
                                  leaf : D, structural : E]
  BY DEF Shape
<1>2. [c EXCEPT !.structural = x] \in
         [context : A, continuation : B, quotation : C, leaf : D,
          structural : {x}]
  BY <1>1
<1>3. [c EXCEPT !.leaf = x] \in
         [context : A, continuation : B, quotation : C, leaf : {x},
          structural : E]
  BY <1>1
<1>4. [c EXCEPT !.continuation = x, !.quotation = y] \in
         [context : A, continuation : {x}, quotation : {y}, leaf : D,
          structural : E]
  BY <1>1
<1>5. Shape([c EXCEPT !.structural = x])
  BY <1>2, Shaped
<1>6. Shape([c EXCEPT !.leaf = x])
  BY <1>3, Shaped
<1>7. Shape([c EXCEPT !.continuation = x, !.quotation = y])
  BY <1>4, Shaped
<1>8. QED BY <1>5, <1>6, <1>7

\* Nothing was closed and nothing is saved at first.
LEMMA InitQuiet == Init => QuietInv
BY DEF Init, QuietInv, Typed, CheckpointShape, Shape, AbortedByClose,
       ArchiveIsAlone, NoCheckpoint

\* The steps of a preparation leave close and the signal alone, stay busy,
\* and write whole checkpoints.
Works ==
    /\ phase # "idle" /\ phase' # "idle"
    /\ UNCHANGED <<closing, reading, aborted>>
    /\ CheckpointShape => CheckpointShape'

LEMMA WorkIsQuiet ==
    ASSUME QuietInv, Works PROVE QuietInv'
BY DEF QuietInv, Typed, AbortedByClose, ArchiveIsAlone, Works

LEMMA VisitWorks == VisitTarget => Works
<1> SUFFICES ASSUME VisitTarget PROVE Works
  OBVIOUS
<1>1. /\ phase = "visiting" /\ phase' # "idle"
      /\ UNCHANGED <<closing, reading, aborted>>
  BY DEF VisitTarget, Stop, Ends
<1>2. \/ checkpoint' = checkpoint
      \/ checkpoint' = [checkpoint EXCEPT !.structural = cursor[1]]
  BY DEF VisitTarget
<1>3. ASSUME Shape(checkpoint)
      PROVE  Shape([checkpoint EXCEPT !.structural = cursor[1]])
  BY <1>3, WritingKeepsShape
<1>4. CheckpointShape => CheckpointShape'
  BY <1>2, <1>3, Zenon DEF CheckpointShape
<1>5. QED BY <1>1, <1>4 DEF Works

LEMMA ProjectWorks == ProjectWindow => Works
<1> SUFFICES ASSUME ProjectWindow PROVE Works
  OBVIOUS
<1>1. phase = "projecting" /\ UNCHANGED <<closing, reading, aborted>>
  BY DEF ProjectWindow
<1>2. phase' # "idle"
  BY DEF ProjectWindow, Stop, Ends
<1>3. CheckpointShape => CheckpointShape'
  <2>1. \/ checkpoint' = checkpoint
        \/ \E leaf : checkpoint' = [checkpoint EXCEPT !.leaf = leaf]
    BY DEF ProjectWindow
  <2>2. ASSUME Shape(checkpoint), NEW leaf
        PROVE  Shape([checkpoint EXCEPT !.leaf = leaf])
    BY <2>2, WritingKeepsShape
  <2>3. QED BY <2>1, <2>2, Zenon DEF CheckpointShape
<1>4. QED BY <1>1, <1>2, <1>3 DEF Works

LEMMA PackWorks == PackSegment => Works
BY DEF PackSegment, Works, Stop, Ends, CheckpointShape

LEMMA RetainWorks == RetainSegments => Works
<1> SUFFICES ASSUME RetainSegments PROVE Works
  OBVIOUS
<1>1. phase = "packed" /\ UNCHANGED <<closing, reading, aborted>>
  BY DEF RetainSegments
<1>2. \/ Ends("batch") /\ SaveBatch
      \/ NextLeaf(First(leaves)) \/ SourceComplete(First(leaves))
      \/ NextWindow(First(leaves))
  BY DEF RetainSegments
<1>3. phase' # "idle"
  BY <1>2 DEF Ends, NextLeaf, SourceComplete, NextWindow
<1>4. CheckpointShape => CheckpointShape'
  <2>1. \/ checkpoint' = checkpoint
        \/ \E end, open : checkpoint' = [checkpoint EXCEPT !.continuation = end,
                                                           !.quotation = open]
    BY <1>2 DEF SaveBatch, NextLeaf, SourceComplete, NextWindow
  <2>2. ASSUME NEW end, NEW open, CheckpointShape,
               checkpoint' = [checkpoint EXCEPT !.continuation = end,
                                                !.quotation = open]
        PROVE  CheckpointShape'
    <3>1. Shape([checkpoint EXCEPT !.continuation = end, !.quotation = open])
      BY <2>2, WritingKeepsShape DEF CheckpointShape
    <3>2. QED BY <2>2, <3>1 DEF CheckpointShape
  <2>3. CASE checkpoint' = checkpoint
    BY <2>3 DEF CheckpointShape
  <2>4. QED BY <2>1, <2>2, <2>3
<1>5. QED BY <1>1, <1>3, <1>4 DEF Works

LEMMA FailWorks == RetainFails => Works
BY DEF RetainFails, Works, Stop, Ends, CheckpointShape

\* A preparation starts only while the publication is open.
LEMMA PrepareIsQuiet ==
    ASSUME QuietInv, NEW start, NEW c, NEW n, PrepareNarration(start, c, n)
    PROVE  QuietInv'
<1>1. closing = "open" /\ closing' = "open" /\ aborted' = FALSE
  BY DEF PrepareNarration
<1>2. \E leaf, structural :
         checkpoint' = [NoCheckpoint EXCEPT !.context = c, !.leaf = leaf,
                                            !.structural = structural]
  BY DEF PrepareNarration
<1>3. CheckpointShape'
  BY <1>2 DEF CheckpointShape, Shape, NoCheckpoint
<1>4. QED BY <1>1, <1>3 DEF QuietInv, Typed, AbortedByClose, ArchiveIsAlone

\* A preparation that settles after close forgets, for it was aborted.
LEMMA SettleIsQuiet ==
    ASSUME QuietInv, Settle PROVE QuietInv'
<1>1. /\ phase = "settling" /\ phase' = "idle" /\ aborted' = FALSE
      /\ UNCHANGED <<closing, reading>>
  BY DEF Settle
<1>2. checkpoint' = Forgotten(checkpoint) \/ checkpoint' = checkpoint
  BY DEF Settle
<1>3. aborted => checkpoint' = Forgotten(checkpoint)
  BY DEF Settle
<1>4. CheckpointShape'
  BY <1>2, ForgottenForgets DEF QuietInv, Typed, CheckpointShape
<1>5. closing' # "open" => Forgets'
  BY <1>1, <1>3, ForgottenForgets
     DEF QuietInv, Typed, AbortedByClose, CheckpointShape, Forgets
<1>6. QED
  BY <1>1, <1>4, <1>5 DEF QuietInv, Typed, AbortedByClose, ArchiveIsAlone

LEMMA CloseIsQuiet ==
    ASSUME QuietInv, Close PROVE QuietInv'
<1>1. /\ closing' = "waiting" /\ aborted' = (phase # "idle")
      /\ checkpoint' = Forgotten(checkpoint) /\ phase' = phase
  BY DEF Close
<1>2. CheckpointShape' /\ Forgets'
  BY <1>1, ForgottenForgets DEF QuietInv, Typed, CheckpointShape, Forgets
<1>3. QED
  BY <1>1, <1>2 DEF QuietInv, Typed, AbortedByClose, ArchiveIsAlone

\* The remaining steps touch neither the checkpoint nor a preparation.
LEMMA OthersAreQuiet ==
    ASSUME QuietInv,
           StartRead \/ EndRead \/ Abort \/ CloseArchive \/ ArchiveCloses
    PROVE  QuietInv'
<1>1. UNCHANGED <<phase, checkpoint>>
  BY DEF StartRead, EndRead, Abort, CloseArchive, ArchiveCloses
<1>2. Typed'
  BY <1>1 DEF StartRead, EndRead, Abort, CloseArchive, ArchiveCloses, QuietInv,
              Typed, CheckpointShape
<1>3. AbortedByClose'
  BY <1>1 DEF StartRead, EndRead, Abort, CloseArchive, ArchiveCloses, QuietInv,
              AbortedByClose, Forgets
<1>4. ArchiveIsAlone'
  BY <1>1 DEF StartRead, EndRead, Abort, CloseArchive, ArchiveCloses, QuietInv,
              ArchiveIsAlone
<1>5. QED BY <1>2, <1>3, <1>4 DEF QuietInv

LEMMA NextQuiet == QuietInv /\ [Next]_vars => QuietInv'
<1> SUFFICES ASSUME QuietInv, [Next]_vars PROVE QuietInv'
  OBVIOUS
<1>1. CASE VisitTarget \/ ProjectWindow \/ PackSegment \/ RetainSegments
              \/ RetainFails
  BY <1>1, VisitWorks, ProjectWorks, PackWorks, RetainWorks, FailWorks, WorkIsQuiet
<1>2. CASE \E start \in Positions(book), c \in Contexts, n \in 1 .. BatchMax :
              PrepareNarration(start, c, n)
  BY <1>2, PrepareIsQuiet
<1>3. CASE Settle
  BY <1>3, SettleIsQuiet
<1>4. CASE Close
  BY <1>4, CloseIsQuiet
<1>5. CASE StartRead \/ EndRead \/ Abort \/ CloseArchive \/ ArchiveCloses
  BY <1>5, OthersAreQuiet
<1>6. CASE UNCHANGED vars
  BY <1>6 DEF vars, QuietInv, Typed, CheckpointShape, AbortedByClose, Forgets,
              ArchiveIsAlone
<1>7. QED BY <1>1, <1>2, <1>3, <1>4, <1>5, <1>6 DEF Next, Work

\* close() resolves over nothing: the archive is closed while no image is read
\* and no narration prepared, and no continuation survives, whatever the books,
\* the windows and the batches.
THEOREM ClosingIsQuiet == Spec => []ClosedIsQuiet
<1>1. QuietInv => ClosedIsQuiet
  BY DEF QuietInv, AbortedByClose, ArchiveIsAlone, Forgets, ClosedIsQuiet
<1>2. QED BY <1>1, InitQuiet, NextQuiet, PTL DEF Spec

-----------------------------------------------------------------------------
(* The text of its narration: numbers *)

\* Smaller is below, in the order of the library.
LEMMA LessIs ==
    ASSUME NEW x \in Nat, NEW y \in Nat, y < x PROVE <<y, x>> \in OpToRel(<, Nat)
BY SMT DEF OpToRel

\* A set of numbers has a least one.
LEMMA SomeLeast ==
    ASSUME NEW S \in SUBSET Nat, S # {}
    PROVE  \E x \in S : \A y \in S : x <= y
<1>1. PICK x \in S : \A y \in S : ~ (<<y, x>> \in OpToRel(<, Nat))
  BY NatLessThanWellFounded, WFMin
<1>2. ASSUME NEW y \in S PROVE x <= y
  <2>1. x \in Nat /\ y \in Nat OBVIOUS
  <2>2. ~(y < x) BY <1>1, <2>1, LessIs, Zenon
  <2> QED BY <2>1, <2>2
<1> QED BY <1>2

\* Min and Max of the community modules choose these.
LEMMA LeastIs ==
    ASSUME NEW S \in SUBSET Nat, S # {}
    PROVE  Min(S) \in S /\ \A y \in S : Min(S) <= y
BY SomeLeast, Zenon DEF Min

\* A bounded one has a greatest.
LEMMA GreatestIs ==
    ASSUME NEW n \in Nat, NEW S \in SUBSET (0 .. n), S # {}
    PROVE  Max(S) \in S /\ \A y \in S : y <= Max(S)
<1> DEFINE T == {k \in 0 .. n : n - k \in S}
<1>1. T \in SUBSET Nat /\ T # {}
  <2>1. PICK x \in S : TRUE OBVIOUS
  <2>2. n - x \in 0 .. n /\ n - (n - x) = x OBVIOUS
  <2>3. n - x \in T BY <2>2
  <2>4. T # {} BY <2>3
  <2>5. T \in SUBSET Nat OBVIOUS
  <2> QED BY <2>4, <2>5
<1>2. PICK k \in T : \A l \in T : k <= l
  BY <1>1, SomeLeast
<1>3. n - k \in S OBVIOUS
<1>4. ASSUME NEW y \in S PROVE n - k >= y
  <2>1. n - y \in T OBVIOUS
  <2> QED BY <2>1, <1>2
<1>5. \E x \in S : \A y \in S : x >= y
  BY <1>3, <1>4
<1>6. Max(S) \in S /\ \A y \in S : Max(S) >= y
  BY <1>5, Zenon DEF Max
<1> QED BY <1>6

\* The least of two numbers.
LEMMA LeastOfTwo ==
    ASSUME NEW a \in Nat, NEW b \in Nat
    PROVE  Min({a, b}) = IF a <= b THEN a ELSE b
<1>1. Min({a, b}) \in {a, b} /\ \A y \in {a, b} : Min({a, b}) <= y
  BY LeastIs
<1> QED BY <1>1

-----------------------------------------------------------------------------
(* Its units, and the windows over them *)

\* A book has finitely many units.
LEMMA UnitsFinite ==
    ASSUME NEW text \in Seq(Seq(Kinds))
    PROVE  IsFiniteSet(Units(text))
<1> DEFINE row(b) == {b} \X (0 .. Length(text, b) - 1)
           rows == {row(b) : b \in Blocks(text)}
           f == [b \in Blocks(text) |-> row(b)]
<1>1. IsFiniteSet(Blocks(text))
  BY FS_Interval DEF Blocks
<1>2. f \in Surjection(Blocks(text), rows)
  <2>1. f \in [Blocks(text) -> rows] OBVIOUS
  <2>2. ASSUME NEW r \in rows PROVE \E b \in Blocks(text) : f[b] = r
    OBVIOUS
  <2> HIDE DEF f, rows
  <2> QED BY <2>1, <2>2 DEF Surjection
<1>3. IsFiniteSet(rows)
  <2> HIDE DEF f, rows
  <2> QED BY <1>1, <1>2, FS_Surjection
<1>4. ASSUME NEW b \in Blocks(text) PROVE IsFiniteSet(row(b))
  <2>1. Length(text, b) \in Nat BY DEF Length, Blocks
  <2>2. IsFiniteSet({b}) BY FS_Singleton
  <2>3. IsFiniteSet(0 .. Length(text, b) - 1) BY <2>1, FS_Interval
  <2> QED BY <2>2, <2>3, FS_Product
<1>5. \A r \in rows : IsFiniteSet(r) BY <1>4
<1>6. IsFiniteSet(UNION rows)
  <2> HIDE DEF rows
  <2> QED BY <1>3, <1>5, FS_UNION
<1> QED BY <1>6 DEF Units

\* What a unit and a position are.
LEMMA UnitIs ==
    ASSUME NEW text \in Seq(Seq(Kinds)), NEW p
    PROVE  /\ p \in Units(text) <=>
                 \E b \in Blocks(text), o \in Nat : o < Length(text, b) /\ p = <<b, o>>
           /\ p \in Positions(text) <=>
                 \E b \in Blocks(text), o \in Nat : o <= Length(text, b) /\ p = <<b, o>>
<1>1. \A b \in Blocks(text) : Length(text, b) \in Nat
  BY DEF Length, Blocks
<1>2. ASSUME NEW b \in Blocks(text)
      PROVE  /\ p \in {b} \X (0 .. Length(text, b) - 1) <=>
                   \E o \in Nat : o < Length(text, b) /\ p = <<b, o>>
             /\ p \in {b} \X (0 .. Length(text, b)) <=>
                   \E o \in Nat : o <= Length(text, b) /\ p = <<b, o>>
  BY <1>1
<1> QED BY <1>2 DEF Units, Positions

\* So has what follows a place, so that it can be counted.
LEMMA FromFinite ==
    ASSUME NEW text \in Seq(Seq(Kinds)), NEW p
    PROVE  IsFiniteSet(From(text, p)) /\ Cardinality(From(text, p)) \in Nat
<1>1. From(text, p) \in SUBSET Units(text) BY DEF From
<1> QED BY <1>1, UnitsFinite, FS_Subset, FS_CardinalityType

\* What a window holds before a block: nothing before its first, and with every
\* block what that block has.
LEMMA AheadIs ==
    ASSUME NEW text \in Seq(Seq(Kinds)), NEW p, NEW b \in Int
    PROVE  /\ Ahead(text, p, b) \in Nat
           /\ Ahead(text, p, b) <= Cardinality(From(text, p))
           /\ \A c \in Int : c <= b => Ahead(text, p, c) <= Ahead(text, p, b)
           /\ (\A q \in From(text, p) : ~(q[1] < b)) => Ahead(text, p, b) = 0
<1> DEFINE A(c) == {q \in From(text, p) : q[1] < c}
<1>1. ASSUME NEW c PROVE IsFiniteSet(A(c)) /\ Cardinality(A(c)) \in Nat
               /\ Cardinality(A(c)) <= Cardinality(From(text, p))
  <2>1. A(c) \in SUBSET From(text, p) OBVIOUS
  <2> HIDE DEF A
  <2> QED BY <2>1, FromFinite, FS_Subset, FS_CardinalityType
<1>2. ASSUME NEW c \in Int, c <= b PROVE Ahead(text, p, c) <= Ahead(text, p, b)
  <2>1. \A q \in From(text, p) : q[1] \in Int
    BY UnitIs DEF From, Blocks
  <2>2. A(c) \in SUBSET A(b) BY <2>1, <1>2
  <2>3. Cardinality(A(c)) <= Cardinality(A(b))
    <3> HIDE DEF A
    <3> QED BY <2>2, <1>1, FS_Subset
  <2> QED BY <2>3 DEF Ahead
<1>3. ASSUME \A q \in From(text, p) : ~(q[1] < b) PROVE Ahead(text, p, b) = 0
  <2>1. A(b) = {} BY <1>3
  <2> QED BY <2>1, FS_EmptySet DEF Ahead
<1> QED BY <1>1, <1>2, <1>3 DEF Ahead

\* The quotation at a place follows from the one at any place before it.
LEMMA QuotedOn ==
    ASSUME NEW text \in Seq(Seq(Kinds)), NEW b, NEW m \in Nat, NEW n \in Nat, m <= n
    PROVE  /\ Quoted(text, b, m, n, Quoted(text, b, 0, m, FALSE)) = Quoted(text, b, 0, n, FALSE)
           /\ Quoted(text, b, 0, 0, FALSE) = FALSE
<1> DEFINE A == {o \in 0 + 1 .. m : text[b][o] = "quote"}
           B == {o \in m + 1 .. n : text[b][o] = "quote"}
           C == {o \in 0 + 1 .. n : text[b][o] = "quote"}
<1>1. C = A \union B /\ A \intersect B = {}
  OBVIOUS
<1>2. IsFiniteSet(A) /\ IsFiniteSet(B)
  <2>1. IsFiniteSet(0 + 1 .. m) BY FS_Interval
  <2>2. IsFiniteSet(m + 1 .. n) BY FS_Interval
  <2>3. A \in SUBSET (0 + 1 .. m) /\ B \in SUBSET (m + 1 .. n) OBVIOUS
  <2> HIDE DEF A, B
  <2> QED BY <2>1, <2>2, <2>3, FS_Subset
<1> HIDE DEF A, B, C
<1>3. Cardinality(A) \in Nat /\ Cardinality(B) \in Nat
  BY <1>2, FS_CardinalityType
<1>4. Cardinality(A \union B) = Cardinality(A) + Cardinality(B) - Cardinality(A \intersect B)
  BY <1>2, FS_Union
<1>5. Cardinality(A \intersect B) = 0
  BY <1>1, FS_EmptySet
<1>6. Cardinality(C) = Cardinality(A) + Cardinality(B)
  BY <1>1, <1>3, <1>4, <1>5
<1>7. /\ Quoted(text, b, 0, m, FALSE) = ~(Cardinality(A) % 2 = 0)
      /\ Quoted(text, b, 0, n, FALSE) = ~(Cardinality(C) % 2 = 0)
      /\ \A open \in BOOLEAN :
            Quoted(text, b, m, n, open) = IF Cardinality(B) % 2 = 0 THEN open ELSE ~open
  BY Zenon DEF Quoted, A, B, C
<1>8. (Cardinality(C) % 2 = 0) <=> ((Cardinality(A) % 2 = 0) <=> (Cardinality(B) % 2 = 0))
  <2>1. ASSUME NEW x \in Nat, NEW y \in Nat
        PROVE  ((x + y) % 2 = 0) <=> ((x % 2 = 0) <=> (y % 2 = 0))
    OBVIOUS
  <2> QED BY <2>1, <1>3, <1>6
<1>9. Quoted(text, b, m, n, Quoted(text, b, 0, m, FALSE)) = Quoted(text, b, 0, n, FALSE)
  BY <1>7, <1>8
<1>10. Quoted(text, b, 0, 0, FALSE) = FALSE
  <2> DEFINE D == {o \in 0 + 1 .. 0 : text[b][o] = "quote"}
  <2>1. D = {} OBVIOUS
  <2>2. Cardinality(D) % 2 = 0 BY <2>1, FS_EmptySet
  <2> QED BY <2>2 DEF Quoted
<1> QED BY <1>9, <1>10

\* It is open or not.
LEMMA QuotedIsBoolean ==
    ASSUME NEW text, NEW b, NEW m, NEW n, NEW open \in BOOLEAN
    PROVE  Quoted(text, b, m, n, open) \in BOOLEAN
BY DEF Quoted

-----------------------------------------------------------------------------
(* Windows, and where segments end *)

\* The leaf that is next.
LEMMA FirstIs ==
    ASSUME NEW S, S # {}, \A l \in S : l.block \in Nat
    PROVE  First(S) \in S /\ \A l \in S : First(S).block <= l.block
<1> DEFINE T == {l.block : l \in S}
<1>1. T \in SUBSET Nat /\ T # {} OBVIOUS
<1>2. PICK x \in T : \A y \in T : x <= y
  <2> HIDE DEF T
  <2> QED BY <1>1, SomeLeast
<1>3. PICK l \in S : l.block = x OBVIOUS
<1>4. \A k \in S : l.block <= k.block BY <1>2, <1>3
<1>5. \E m \in S : \A k \in S : m.block <= k.block BY <1>4
<1> QED BY <1>5, Zenon DEF First

\* A window: what its leaves are.
LEMMA WindowIs ==
    ASSUME NEW text \in Seq(Seq(Kinds)), NEW p \in Positions(text),
           NEW leaf \in WindowLeaves(text, p)
    PROVE  /\ leaf \in [block : Blocks(text), from : Nat, to : Nat]
           /\ leaf.block \in WindowBlocks(text, p)
           /\ p[1] <= leaf.block /\ leaf.from = Entry(leaf.block, p)
           /\ leaf.from < leaf.to /\ leaf.to <= Length(text, leaf.block)
           /\ leaf.to - leaf.from <= Window
           /\ \A other \in WindowLeaves(text, p) : other.block = leaf.block => other = leaf
<1> DEFINE to(b) == Min({Length(text, b), Entry(b, p) + Window - Ahead(text, p, b)})
<1>1. PICK b \in WindowBlocks(text, p) :
          leaf = [block |-> b, from |-> Entry(b, p), to |-> to(b)]
  BY DEF WindowLeaves
<1>2. p[1] \in Blocks(text) /\ p[2] \in Nat
  BY UnitIs
<1>3. b \in Blocks(text) /\ p[1] <= b
  BY <1>2 DEF WindowBlocks, Blocks
<1>4. Length(text, b) \in Nat BY <1>3 DEF Length, Blocks
<1>5. Entry(b, p) \in Nat BY <1>2 DEF Entry
<1>6. Ahead(text, p, b) \in Nat BY <1>3, AheadIs DEF Blocks
<1>7. Entry(b, p) < Length(text, b) /\ Ahead(text, p, b) < Window
  BY <1>1 DEF WindowBlocks
<1>8. Window \in Nat BY TextAssumption
<1>9. to(b) = IF Length(text, b) <= Entry(b, p) + Window - Ahead(text, p, b)
              THEN Length(text, b) ELSE Entry(b, p) + Window - Ahead(text, p, b)
  BY <1>4, <1>5, <1>6, <1>7, <1>8, LeastOfTwo
<1>10. /\ to(b) \in Nat /\ Entry(b, p) < to(b) /\ to(b) <= Length(text, b)
       /\ to(b) - Entry(b, p) <= Window
  BY <1>4, <1>5, <1>6, <1>7, <1>8, <1>9
<1>11. ASSUME NEW other \in WindowLeaves(text, p), other.block = leaf.block
       PROVE  other = leaf
  <2>1. PICK c \in WindowBlocks(text, p) :
            other = [block |-> c, from |-> Entry(c, p), to |-> to(c)]
    BY DEF WindowLeaves
  <2> HIDE DEF to
  <2>2. c = b BY <1>1, <1>11, <2>1
  <2> QED BY <1>1, <2>1, <2>2
<1> HIDE DEF to
<1> QED BY <1>1, <1>3, <1>5, <1>10, <1>11

\* A unit that follows is in the window, or the window is full before it.
LEMMA WindowHolds ==
    ASSUME NEW text \in Seq(Seq(Kinds)), NEW p \in Positions(text),
           NEW u \in From(text, p)
    PROVE  /\ WindowLeaves(text, p) # {}
           /\ \A b \in WindowBlocks(text, p) : u[1] <= b => u[1] \in WindowBlocks(text, p)
           /\ HeldUnits(text, p) < Window => u[1] \in WindowBlocks(text, p)
<1>1. p[1] \in Blocks(text) /\ p[2] \in Nat
  BY UnitIs
<1>2. ASSUME NEW v \in From(text, p)
      PROVE  /\ v[1] \in Blocks(text) /\ p[1] <= v[1] /\ Entry(v[1], p) < Length(text, v[1])
             /\ Ahead(text, p, v[1]) < Window => v[1] \in WindowBlocks(text, p)
  <2>1. PICK b \in Blocks(text), o \in Nat : o < Length(text, b) /\ v = <<b, o>>
    BY UnitIs DEF From
  <2>2. ~Before(v, p) BY DEF From
  <2>3. p[1] <= b /\ (b = p[1] => p[2] <= o)
    BY <1>1, <2>1, <2>2 DEF Before, Blocks
  <2>4. Length(text, b) \in Nat BY DEF Length, Blocks
  <2>5. Entry(b, p) < Length(text, b)
    BY <1>1, <2>1, <2>3, <2>4 DEF Entry
  <2> QED BY <1>1, <2>1, <2>3, <2>5 DEF WindowBlocks, Blocks
<1>3. ASSUME NEW b \in WindowBlocks(text, p), u[1] <= b
      PROVE  u[1] \in WindowBlocks(text, p)
  <2>1. b \in Int /\ Ahead(text, p, b) < Window
    BY <1>1 DEF WindowBlocks, Blocks
  <2>2. u[1] \in Int BY <1>2 DEF Blocks
  <2>3. /\ Ahead(text, p, u[1]) \in Nat /\ Ahead(text, p, b) \in Nat
        /\ Ahead(text, p, u[1]) <= Ahead(text, p, b)
    BY <1>3, <2>1, <2>2, AheadIs
  <2> QED BY <1>2, <2>1, <2>3, TextAssumption
<1>4. ASSUME HeldUnits(text, p) < Window PROVE u[1] \in WindowBlocks(text, p)
  <2>1. Cardinality(From(text, p)) \in Nat /\ Window \in Nat
    BY FromFinite, TextAssumption
  <2>2. Cardinality(From(text, p)) < Window
    BY <1>4, <2>1, LeastOfTwo DEF HeldUnits
  <2>3. u[1] \in Int BY <1>2 DEF Blocks
  <2>4. Ahead(text, p, u[1]) \in Nat /\ Ahead(text, p, u[1]) <= Cardinality(From(text, p))
    BY <2>3, AheadIs
  <2> QED BY <1>2, <2>1, <2>2, <2>4
<1>5. WindowLeaves(text, p) # {}
  <2> DEFINE T == {v[1] : v \in From(text, p)}
  <2>1. T \in SUBSET Nat /\ T # {} BY <1>2 DEF Blocks
  <2>2. PICK x \in T : \A y \in T : x <= y
    <3> HIDE DEF T
    <3> QED BY <2>1, SomeLeast
  <2>3. PICK v \in From(text, p) : v[1] = x OBVIOUS
  <2>4. \A q \in From(text, p) : ~(q[1] < v[1])
    <3>1. ASSUME NEW q \in From(text, p) PROVE ~(q[1] < v[1])
      <4>1. q[1] \in T /\ q[1] \in Nat /\ x \in Nat BY <1>2, <2>1
      <4>2. x <= q[1] BY <4>1, <2>2
      <4> HIDE DEF T
      <4> QED BY <4>1, <4>2, <2>3
    <3> QED BY <3>1
  <2>5. v[1] \in Int BY <1>2 DEF Blocks
  <2>6. Ahead(text, p, v[1]) = 0
    BY <2>4, <2>5, AheadIs
  <2>7. v[1] \in WindowBlocks(text, p)
    BY <1>2, <2>6, TextAssumption
  <2> QED BY <2>7 DEF WindowLeaves
<1> QED BY <1>3, <1>4, <1>5

\* What a window holds at most.
LEMMA HeldIs ==
    ASSUME NEW text \in Seq(Seq(Kinds)), NEW p
    PROVE  HeldUnits(text, p) \in Nat /\ HeldUnits(text, p) <= Window
<1>1. Cardinality(From(text, p)) \in Nat /\ Window \in Nat
  BY FromFinite, TextAssumption
<1> QED BY <1>1, LeastOfTwo DEF HeldUnits

\* Ranks are numbers.
LEMMA RankIs == \A kind \in Kinds : Rank[kind] \in 1 .. 5
BY DEF Rank, Kinds

\* Whatever the preferences are, the boundary is one of the candidates.
LEMMA BoundaryIs ==
    ASSUME NEW text \in Seq(Seq(Kinds)), NEW b \in Blocks(text),
           NEW from \in Nat, NEW to \in Nat, to <= Length(text, b),
           NEW c \in Contexts, NEW ends \in SUBSET (from + 1 .. to), ends # {}
    PROVE  Boundary(text, b, ends, from, to, c) \in from + 1 .. to
<1> DEFINE turns == {x \in ends : text[b][x] = "turn"}
           best == {x \in ends : \A y \in ends : Rank[text[b][x]] <= Rank[text[b][y]]}
           near == {x \in best : x - from <= Target[c]}
<1>1. ends \in SUBSET Nat /\ ends \in SUBSET (0 .. to)
  OBVIOUS
<1>2. turns # {} => Min(turns) \in ends
  <2>1. turns \in SUBSET Nat BY <1>1
  <2>2. turns # {} => Min(turns) \in turns
    <3> HIDE DEF turns
    <3> QED BY <2>1, LeastIs
  <2> QED BY <2>2
<1>3. Max(ends) \in ends
  BY <1>1, GreatestIs
<1>4. best # {}
  <2> DEFINE ranks == {Rank[text[b][x]] : x \in ends}
  <2>1. \A x \in ends : text[b][x] \in Kinds
    <3>1. text[b] \in Seq(Kinds) BY DEF Blocks
    <3>2. Length(text, b) = Len(text[b]) BY DEF Length
    <3> QED BY <3>1, <3>2
  <2>2. \A x \in ends : Rank[text[b][x]] \in 1 .. 5
    BY <2>1, RankIs
  <2>3. ranks \in SUBSET Nat /\ ranks # {}
    <3>1. ASSUME NEW r \in ranks PROVE r \in Nat
      <4>1. PICK x \in ends : r = Rank[text[b][x]] OBVIOUS
      <4>2. r \in 1 .. 5 BY <4>1, <2>2
      <4> QED BY <4>2
    <3>2. PICK x \in ends : TRUE OBVIOUS
    <3>3. Rank[text[b][x]] \in ranks OBVIOUS
    <3> HIDE DEF ranks
    <3> QED BY <3>1, <3>3
  <2>4. PICK k \in ranks : \A l \in ranks : k <= l
    <3> HIDE DEF ranks
    <3> QED BY <2>3, SomeLeast
  <2>5. PICK x \in ends : Rank[text[b][x]] = k BY <2>4
  <2>6. \A y \in ends : Rank[text[b][x]] <= Rank[text[b][y]] BY <2>4, <2>5
  <2> QED BY <2>6
<1>5. Preferred(best, from, c) \in ends
  <2>1. best \in SUBSET Nat /\ near \in SUBSET (0 .. to) /\ near \in SUBSET best BY <1>1
  <2>2. near # {} => Max(near) \in best
    <3>1. near # {} => Max(near) \in near
      <4> HIDE DEF near
      <4> QED BY <2>1, GreatestIs
    <3> QED BY <2>1, <3>1
  <2>3. Min(best) \in best
    <3> HIDE DEF best
    <3> QED BY <1>4, <2>1, LeastIs
  <2>4. Preferred(best, from, c) = IF near # {} THEN Max(near) ELSE Min(best)
    BY DEF Preferred
  <2>5. best \in SUBSET ends OBVIOUS
  <2> HIDE DEF best, near
  <2> QED BY <2>2, <2>3, <2>4, <2>5
<1>6. Boundary(text, b, ends, from, to, c) \in ends
  <2>1. CASE turns # {}
    <3>1. Boundary(text, b, ends, from, to, c) = Min(turns)
      BY <2>1 DEF Boundary
    <3> QED BY <3>1, <2>1, <1>2
  <2>2. CASE turns = {} /\ to \in ends /\ to - from <= Target[c]
    <3>1. Boundary(text, b, ends, from, to, c) = to
      BY <2>2 DEF Boundary
    <3> QED BY <3>1, <2>2
  <2>3. CASE turns = {} /\ ~(to \in ends /\ to - from <= Target[c])
    <3>1. Boundary(text, b, ends, from, to, c) \in {Max(ends), Preferred(best, from, c)}
      BY <2>3 DEF Boundary
    <3> QED BY <3>1, <1>3, <1>5
  <2> QED BY <2>1, <2>2, <2>3
<1> QED BY <1>6

\* A segment ends after it begins, within its leaf, and reaches what is spoken.
LEMMA SelectEndIs ==
    ASSUME NEW text \in Seq(Seq(Kinds)), NEW b \in Blocks(text),
           NEW from \in Nat, NEW to \in Nat, to <= Length(text, b),
           NEW c \in Contexts, NEW ends \in SUBSET (from + 1 .. to), ends # {}
    PROVE  SelectEnd(text, b, ends, from, to, c) \in from + 1 .. to
<1> DEFINE x == Boundary(text, b, ends, from, to, c)
           T == {y \in x .. to : /\ y - from <= Hard[c] \/ y = x
                                 /\ \A o \in x + 1 .. y : ~Substantive(text, b, o)}
<1>1. x \in from + 1 .. to BY BoundaryIs
<1> HIDE DEF x
<1>2. x \in T /\ T \in SUBSET (0 .. to) BY <1>1
<1>3. Max(T) \in T
  <2> HIDE DEF T
  <2> QED BY <1>2, GreatestIs
<1>4. Drained(text, b, from, x, to, c) \in {x, Max(T)}
  BY DEF Drained
<1>5. Max(T) \in x .. to BY <1>3
<1> HIDE DEF T
<1>6. Drained(text, b, from, x, to, c) \in from + 1 .. to BY <1>1, <1>4, <1>5
<1> QED BY <1>6 DEF SelectEnd, x

\* Where no segment can end the next spoken unit is out of reach.
LEMMA NoCandidate ==
    ASSUME NEW text \in Seq(Seq(Kinds)), NEW b,
           NEW from \in Nat, NEW to \in Nat, NEW c \in Contexts,
           Candidates(text, b, from, to, c) = {}, Spoken(text, b, from, to)
    PROVE  from + Hard[c] < to /\ ~Spoken(text, b, from, from + Hard[c])
<1>1. Hard[c] \in Nat /\ 0 < Hard[c]
  BY TextAssumption
<1>2. from < to
  BY DEF Spoken
<1>3. ~(to - from <= Hard[c])
  <2>1. to \in from + 1 .. to BY <1>2
  <2>2. ~(to \in Candidates(text, b, from, to, c)) OBVIOUS
  <2> QED BY <2>1, <2>2, Zenon DEF Candidates
<1>4. from + Hard[c] \in from + 1 .. to
  BY <1>1, <1>2, <1>3
<1>5. ~Spoken(text, b, from, from + Hard[c])
  BY <1>1, <1>4 DEF Candidates
<1> QED BY <1>1, <1>3, <1>5

\* Silence is silence in all its parts.
LEMMA SpokenIn ==
    ASSUME NEW text, NEW b, NEW from \in Nat, NEW to \in Nat,
           NEW o \in Nat, from <= o, o < to, Spoken(text, b, o, o + 1)
    PROVE  Spoken(text, b, from, to)
BY DEF Spoken

StartOf(s) == <<s.block, s.from>>
EndOf(s) == <<s.block, s.to>>

Utterances(text) == {u \in Units(text) : Spoken(text, u[1], u[2], u[2] + 1)}

\* A segment that request r may be answered.
Sound(text, r, s) ==
    /\ s.block \in Blocks(text) /\ s.from \in Nat /\ s.to \in Nat
    /\ s.from < s.to /\ s.to <= Length(text, s.block)
    /\ s.open = Quoted(text, s.block, 0, s.from, FALSE)
    /\ Before(r.start, EndOf(s))
    /\ r.warm => ~Before(StartOf(s), r.start)

\* Some segments tell the text up to p.
Tells(text, r, segments, p) ==
    /\ \A u \in Utterances(text) :
          ~Before(u, r.start) /\ Before(u, p) =>
              \E n \in DOMAIN segments : Holds(segments[n], u)
    /\ \A n \in DOMAIN segments :
          Sound(text, r, segments[n]) /\ ~Before(p, EndOf(segments[n]))
    /\ \A m, n \in DOMAIN segments :
          m < n => ~Before(StartOf(segments[n]), EndOf(segments[m]))

\* What is spoken is a unit, and no scene break.
LEMMA UtteranceIs ==
    ASSUME NEW text \in Seq(Seq(Kinds)), NEW u \in Utterances(text)
    PROVE  /\ u = <<u[1], u[2]>> /\ u[1] \in Blocks(text) /\ u[1] \in Nat /\ u[2] \in Nat
           /\ u[2] < Length(text, u[1]) /\ Spoken(text, u[1], u[2], u[2] + 1)
           /\ u \in Units(text)
<1>1. u \in Units(text) /\ Spoken(text, u[1], u[2], u[2] + 1)
  BY DEF Utterances
<1>2. PICK b \in Blocks(text), o \in Nat : o < Length(text, b) /\ u = <<b, o>>
  BY <1>1, UnitIs
<1>3. b \in Nat BY DEF Blocks
<1> QED BY <1>1, <1>2, <1>3

\* What a place is.
LEMMA PositionIs ==
    ASSUME NEW text \in Seq(Seq(Kinds)), NEW p \in Positions(text)
    PROVE  /\ p = <<p[1], p[2]>> /\ p[1] \in Blocks(text) /\ p[1] \in Nat /\ p[2] \in Nat
           /\ 1 <= p[1] /\ p[2] <= Length(text, p[1]) /\ p # Nowhere
<1>1. PICK b \in Blocks(text), o \in Nat : o <= Length(text, b) /\ p = <<b, o>>
  BY UnitIs
<1>2. b \in Nat /\ 1 <= b BY DEF Blocks
<1> QED BY <1>1, <1>2 DEF Nowhere

\* What is one.
LEMMA IsPosition ==
    ASSUME NEW text \in Seq(Seq(Kinds)), NEW b \in Blocks(text), NEW o \in Nat,
           o <= Length(text, b)
    PROVE  <<b, o>> \in Positions(text)
BY UnitIs

\* No segments tell the text up to where the request starts, or before.
LEMMA TellsNothing ==
    ASSUME NEW text \in Seq(Seq(Kinds)), NEW r, r.start \in Positions(text),
           NEW p \in Positions(text), ~Before(r.start, p)
    PROVE  Tells(text, r, <<>>, p)
<1> SUFFICES ASSUME NEW u \in Utterances(text), ~Before(u, r.start), Before(u, p)
             PROVE  FALSE
  BY DEF Tells
<1> DEFINE s == r.start
<1>1. /\ s[1] \in Nat /\ s[2] \in Nat /\ p[1] \in Nat /\ p[2] \in Nat
      /\ u[1] \in Nat /\ u[2] \in Nat
  BY PositionIs, UtteranceIs
<1> QED BY <1>1 DEF Before

\* What tells the text is sound.
LEMMA TellsSound ==
    ASSUME NEW text, NEW r, NEW segments, NEW p, Tells(text, r, segments, p),
           NEW n \in DOMAIN segments
    PROVE  /\ Sound(text, r, segments[n]) /\ ~Before(p, EndOf(segments[n]))
           /\ segments[n].block \in Nat /\ segments[n].from \in Nat
           /\ segments[n].to \in Nat
<1>1. Sound(text, r, segments[n]) /\ ~Before(p, EndOf(segments[n]))
  BY Zenon DEF Tells
<1>2. segments[n].block \in Nat /\ segments[n].from \in Nat /\ segments[n].to \in Nat
  BY <1>1 DEF Sound, Blocks
<1> QED BY <1>1, <1>2

\* Places are in order.
LEMMA InOrder ==
    ASSUME NEW a \in Nat, NEW b \in Nat, NEW c \in Nat, NEW d \in Nat
    PROVE  Before(<<a, b>>, <<c, d>>) <=> a < c \/ (a = c /\ b < d)
BY DEF Before

\* What is not before a place is not so further on in its block,
LEMMA StillAfter ==
    ASSUME NEW b \in Nat, NEW x \in Nat, NEW y \in Nat, x <= y,
           NEW c \in Nat, NEW d \in Nat, ~Before(<<b, x>>, <<c, d>>)
    PROVE  ~Before(<<b, y>>, <<c, d>>)
BY DEF Before

\* and within a block places are in the order of their offsets.
LEMMA InBlock ==
    ASSUME NEW b \in Nat, NEW x \in Nat, NEW y \in Nat
    PROVE  Before(<<b, x>>, <<b, y>>) <=> x < y
BY DEF Before

\* Counting on from another number.
LEMMA Shifted ==
    ASSUME NEW n \in Nat, NEW m \in Nat, NEW a \in Nat, NEW b \in Nat,
           1 <= n - a, n - a <= b
    PROVE  /\ m + (n - a) - 1 \in m .. m + b - 1
           /\ n = a + (m + (n - a) - 1) - m + 1
OBVIOUS

\* With silence ahead the same segments tell more,
LEMMA TellsFurther ==
    ASSUME NEW text \in Seq(Seq(Kinds)), NEW r, r.start \in Positions(text),
           NEW p \in Positions(text), NEW q \in Positions(text), ~Before(q, p),
           NEW segments, Tells(text, r, segments, p),
           \A u \in Utterances(text) :
              ~Before(u, r.start) /\ ~Before(u, p) => ~Before(u, q)
    PROVE  Tells(text, r, segments, q)
<1>1. /\ q[1] \in Nat /\ q[2] \in Nat /\ p[1] \in Nat /\ p[2] \in Nat
  BY PositionIs
<1>2. ASSUME NEW n \in DOMAIN segments PROVE ~Before(q, EndOf(segments[n]))
  <2>1. /\ ~Before(p, EndOf(segments[n])) /\ segments[n].block \in Nat
        /\ segments[n].to \in Nat
    BY TellsSound
  <2> QED BY <2>1, <1>1 DEF Before, EndOf
<1>3. ASSUME NEW u \in Utterances(text), ~Before(u, r.start), Before(u, q)
      PROVE  \E n \in DOMAIN segments : Holds(segments[n], u)
  BY <1>3 DEF Tells
<1> QED BY <1>2, <1>3, Zenon DEF Tells

\* and up to where they end they tell at least.
LEMMA TellsBefore ==
    ASSUME NEW text \in Seq(Seq(Kinds)), NEW r, r.start \in Positions(text),
           NEW p \in Positions(text), NEW q \in Positions(text), ~Before(p, q),
           NEW segments, Tells(text, r, segments, p),
           \A n \in DOMAIN segments : ~Before(q, EndOf(segments[n]))
    PROVE  Tells(text, r, segments, q)
<1>1. /\ q[1] \in Nat /\ q[2] \in Nat /\ p[1] \in Nat /\ p[2] \in Nat
  BY PositionIs
<1>2. ASSUME NEW u \in Utterances(text), Before(u, q) PROVE Before(u, p)
  <2>1. u[1] \in Nat /\ u[2] \in Nat BY UtteranceIs
  <2> QED BY <2>1, <1>1, <1>2 DEF Before
<1> QED BY <1>2, Zenon DEF Tells

-----------------------------------------------------------------------------
(* Where a leaf was cut *)

Increasing(leaf, ends) ==
    /\ ends \in Seq(Nat)
    /\ \A n \in DOMAIN ends : leaf.from < ends[n] /\ ends[n] <= leaf.to
    /\ \A m, n \in DOMAIN ends : m < n => ends[m] < ends[n]

LeafOf(text, leaf) ==
    /\ leaf.block \in Blocks(text) /\ leaf.from \in Nat /\ leaf.to \in Nat
    /\ leaf.from < leaf.to /\ leaf.to <= Length(text, leaf.block)

\* Its segments.
Cuts(text, leaf, ends, segments) ==
    /\ segments \in Seq(Segments) /\ Len(segments) = Len(ends)
    /\ \A n \in 1 .. Len(ends) :
          /\ segments[n].block = leaf.block /\ segments[n].to = ends[n]
          /\ segments[n].from = IF n = 1 THEN leaf.from ELSE ends[n - 1]
          /\ segments[n].open = Quoted(text, leaf.block, 0, segments[n].from, FALSE)

\* The segment that holds a unit.
LEMMA CutHolds ==
    ASSUME NEW leaf, leaf.from \in Nat, NEW ends, Increasing(leaf, ends),
           NEW k \in 1 .. Len(ends), NEW o \in Nat, leaf.from <= o, o < ends[k]
    PROVE  \E j \in 1 .. k : /\ o < ends[j]
                             /\ (IF j = 1 THEN leaf.from ELSE ends[j - 1]) <= o
<1> DEFINE T == {j \in 1 .. k : o < ends[j]}
<1>1. T \in SUBSET Nat /\ T # {} OBVIOUS
<1>2. PICK j \in T : \A i \in T : j <= i
  <2> HIDE DEF T
  <2> QED BY <1>1, SomeLeast
<1>3. j \in 1 .. k /\ o < ends[j] OBVIOUS
<1>4. j # 1 => ends[j - 1] <= o
  <2> SUFFICES ASSUME j # 1, ~(ends[j - 1] <= o) PROVE FALSE
    OBVIOUS
  <2>1. j - 1 \in 1 .. k /\ j - 1 \in 1 .. Len(ends) BY <1>3
  <2>2. ends[j - 1] \in Nat BY <2>1 DEF Increasing
  <2>3. j - 1 \in T BY <2>1, <2>2
  <2> HIDE DEF T
  <2> QED BY <2>3, <1>2, <1>3
<1> HIDE DEF T
<1> QED BY <1>3, <1>4

\* The first of them that a request wants, and some from there on.
Wanted(r, segments, m) ==
    /\ \A n \in 1 .. Len(segments) :
          n < m => segments[n].block = r.start[1] /\ segments[n].to <= r.start[2]
    /\ segments[m].block # r.start[1] \/ segments[m].to > r.start[2]
FromThere(segments, m, taken) ==
    \A i \in 1 .. Len(taken) : taken[i] = segments[m + i - 1]

\* A batch that tells the text up to a leaf, and what is wanted of the segments of
\* that leaf, tell it up to where these end.
LEMMA TellsMore ==
    ASSUME NEW text \in Seq(Seq(Kinds)), NEW r, r.start \in Positions(text),
           NEW leaf, LeafOf(text, leaf), r.start[1] <= leaf.block,
           r.warm => ~Before(StartOf(leaf), r.start),
           NEW told \in Seq(Segments), Tells(text, r, told, StartOf(leaf)),
           NEW ends, Increasing(leaf, ends),
           NEW segments, Cuts(text, leaf, ends, segments),
           NEW m \in 1 .. Len(ends),
           Wanted(r, segments, m),
           NEW taken \in Seq(Segments), 1 <= Len(taken), m + Len(taken) - 1 <= Len(ends),
           FromThere(segments, m, taken)
    PROVE  /\ Tells(text, r, told \o taken, EndOf(Last(taken)))
           /\ EndOf(Last(taken)) = <<leaf.block, ends[m + Len(taken) - 1]>>
<1> DEFINE k == m + Len(taken) - 1
           p == <<leaf.block, ends[k]>>
           joined == told \o taken
           before(n) == IF n = 1 THEN leaf.from ELSE ends[n - 1]
<1>0. /\ \A i \in 1 .. Len(taken) : taken[i] = segments[m + i - 1]
      /\ \A n \in 1 .. Len(ends) :
            n < m => segments[n].block = r.start[1] /\ segments[n].to <= r.start[2]
      /\ segments[m].block # r.start[1] \/ segments[m].to > r.start[2]
  BY DEF Wanted, FromThere, Cuts
<1>1. /\ Len(taken) \in Nat /\ Len(ends) \in Nat /\ k \in m .. Len(ends) /\ k \in 1 .. Len(ends)
      /\ m \in Nat
  BY DEF Increasing
<1>2. /\ leaf.block \in Nat /\ leaf.from \in Nat /\ leaf.to \in Nat
      /\ \A n \in 1 .. Len(ends) : ends[n] \in Nat /\ leaf.from < ends[n] /\ ends[n] <= leaf.to
      /\ \A i, j \in 1 .. Len(ends) : i < j => ends[i] < ends[j]
      /\ \A i, j \in 1 .. Len(ends) : i <= j => ends[i] <= ends[j]
      /\ r.start[1] \in Nat /\ r.start[2] \in Nat /\ r.start = <<r.start[1], r.start[2]>>
  <2>1. leaf.block \in Nat /\ leaf.from \in Nat /\ leaf.to \in Nat
    BY DEF LeafOf, Blocks
  <2>2. /\ \A n \in 1 .. Len(ends) : ends[n] \in Nat /\ leaf.from < ends[n] /\ ends[n] <= leaf.to
        /\ \A i, j \in 1 .. Len(ends) : i < j => ends[i] < ends[j]
    <3>1. DOMAIN ends = 1 .. Len(ends) /\ \A n \in 1 .. Len(ends) : ends[n] \in Nat
      BY DEF Increasing
    <3> QED BY <3>1, Zenon DEF Increasing
  <2>3. r.start[1] \in Nat /\ r.start[2] \in Nat /\ r.start = <<r.start[1], r.start[2]>>
    BY PositionIs
  <2>4. ASSUME NEW i \in 1 .. Len(ends), NEW j \in 1 .. Len(ends), i <= j
        PROVE  ends[i] <= ends[j]
    <3>1. CASE i = j BY <3>1, <2>2
    <3>2. CASE i # j
      <4>1. i < j BY <3>2, <2>4
      <4> QED BY <4>1, <2>2
    <3> QED BY <3>1, <3>2
  <2> QED BY <2>1, <2>2, <2>3, <2>4
<1>3. \A n \in 1 .. Len(ends) :
          /\ segments[n].block = leaf.block /\ segments[n].to = ends[n]
          /\ segments[n].from = before(n)
          /\ before(n) \in Nat /\ leaf.from <= before(n) /\ before(n) < ends[n]
          /\ segments[n].open = Quoted(text, leaf.block, 0, segments[n].from, FALSE)
  <2> SUFFICES ASSUME NEW n \in 1 .. Len(ends)
               PROVE /\ segments[n].block = leaf.block /\ segments[n].to = ends[n]
                     /\ segments[n].from = before(n)
                     /\ before(n) \in Nat /\ leaf.from <= before(n) /\ before(n) < ends[n]
                     /\ segments[n].open = Quoted(text, leaf.block, 0, segments[n].from, FALSE)
    OBVIOUS
  <2>1. n # 1 => n - 1 \in 1 .. Len(ends) /\ n - 1 < n BY <1>1
  <2>2. before(n) \in Nat /\ leaf.from <= before(n) /\ before(n) < ends[n]
    <3>1. CASE n = 1
      <4>1. before(n) = leaf.from BY <3>1
      <4> QED BY <4>1, <1>2
    <3>2. CASE n # 1
      <4>1. before(n) = ends[n - 1] BY <3>2
      <4>2. /\ ends[n - 1] \in Nat /\ leaf.from < ends[n - 1]
            /\ ends[n - 1] < ends[n] /\ leaf.from \in Nat
        BY <3>2, <2>1, <1>2
      <4>3. leaf.from <= ends[n - 1] BY ONLY <4>2
      <4> QED BY <4>1, <4>2, <4>3
    <3> QED BY <3>1, <3>2
  <2> QED BY <2>2 DEF Cuts
<1> HIDE DEF before
<1>9. ASSUME NEW n \in 1 .. Len(ends)
      PROVE  /\ StartOf(segments[n]) = <<leaf.block, before(n)>>
             /\ EndOf(segments[n]) = <<leaf.block, ends[n]>>
             /\ before(n) \in Nat /\ leaf.from <= before(n)
             /\ ends[n] \in Nat
  BY <1>2, <1>3 DEF StartOf, EndOf
<1>4. /\ joined \in Seq(Segments) /\ Len(joined) = Len(told) + Len(taken)
      /\ \A n \in 1 .. Len(told) : joined[n] = told[n]
      /\ \A i \in 1 .. Len(taken) : joined[Len(told) + i] = taken[i]
      /\ Len(told) \in Nat
  OBVIOUS
<1>5. Last(taken) = segments[k] /\ EndOf(Last(taken)) = p
  <2>1. Last(taken) = taken[Len(taken)] BY DEF Last
  <2>2. taken[Len(taken)] = segments[k] BY <1>0, <1>1
  <2> QED BY <1>1, <1>3, <2>1, <2>2 DEF EndOf
<1>6. ASSUME NEW n \in DOMAIN joined
      PROVE  \/ n \in DOMAIN told /\ joined[n] = told[n]
             \/ \E j \in m .. k : n = Len(told) + j - m + 1 /\ joined[n] = segments[j]
  <2>1. n \in 1 .. Len(told) + Len(taken) BY <1>4
  <2>2. CASE n <= Len(told) BY <2>1, <2>2, <1>4
  <2>3. CASE n > Len(told)
    <3>1. n - Len(told) \in 1 .. Len(taken) BY <2>1, <2>3, <1>1, <1>4
    <3>2. n = Len(told) + (n - Len(told)) BY <2>1, <1>4
    <3>3. joined[n] = taken[n - Len(told)] BY <3>1, <3>2, <1>4
    <3>4. joined[n] = segments[m + (n - Len(told)) - 1] BY <3>1, <3>3, <1>0
    <3>5. /\ m + (n - Len(told)) - 1 \in m .. k
          /\ n = Len(told) + (m + (n - Len(told)) - 1) - m + 1
      <4>1. /\ n \in Nat /\ m \in Nat /\ Len(told) \in Nat /\ Len(taken) \in Nat
            /\ 1 <= n - Len(told) /\ n - Len(told) <= Len(taken)
        BY <3>1, <2>1, <1>1, <1>4
      <4> QED BY ONLY <4>1, Shifted
    <3> HIDE DEF joined, k
    <3> QED BY <3>4, <3>5, Zenon
  <2> QED BY <2>1, <2>2, <2>3, <1>4
<1>7. ASSUME NEW j \in m .. k
      PROVE  /\ Len(told) + (j - m + 1) \in DOMAIN joined
             /\ joined[Len(told) + (j - m + 1)] = segments[j] /\ j \in 1 .. Len(ends)
  <2>1. j - m + 1 \in 1 .. Len(taken) /\ m + (j - m + 1) - 1 = j BY <1>1
  <2>2. Len(told) + (j - m + 1) \in 1 .. Len(joined) BY <2>1, <1>1, <1>4
  <2>3. joined[Len(told) + (j - m + 1)] = taken[j - m + 1] BY <2>1, <1>4
  <2>4. taken[j - m + 1] = segments[m + (j - m + 1) - 1] BY <2>1, <1>0
  <2> QED BY <2>1, <2>2, <2>3, <2>4, <1>1, <1>4
<1>8. ASSUME NEW n \in DOMAIN told
      PROVE  /\ Sound(text, r, told[n]) /\ ~Before(StartOf(leaf), EndOf(told[n]))
             /\ told[n].block \in Nat /\ told[n].to \in Nat
  BY TellsSound
<1> HIDE DEF joined, k
\* Every unit is told.
<1>10. ASSUME NEW u \in Utterances(text), ~Before(u, r.start), Before(u, p)
       PROVE  \E n \in DOMAIN joined : Holds(joined[n], u)
  <2>1. u[1] \in Nat /\ u[2] \in Nat BY UtteranceIs
  <2>2. CASE Before(u, StartOf(leaf))
    <3>1. PICK n \in DOMAIN told : Holds(told[n], u) BY <2>2, <1>10 DEF Tells
    <3>2. n \in DOMAIN joined /\ joined[n] = told[n]
      <4>1. n \in 1 .. Len(told) /\ DOMAIN joined = 1 .. Len(joined) BY <1>4
      <4> QED BY <4>1, <1>1, <1>4
    <3> QED BY <3>1, <3>2
  <2>3. CASE ~Before(u, StartOf(leaf))
    <3>1. u[1] = leaf.block /\ leaf.from <= u[2] /\ u[2] < ends[k]
      <4>1. /\ leaf.block \in Nat /\ leaf.from \in Nat /\ ends[k] \in Nat
            /\ u[1] \in Nat /\ u[2] \in Nat
        BY <2>1, <1>1, <1>2
      <4>2. ~(u[1] < leaf.block \/ (u[1] = leaf.block /\ u[2] < leaf.from))
        BY <2>3 DEF Before, StartOf
      <4>3. u[1] < leaf.block \/ (u[1] = leaf.block /\ u[2] < ends[k])
        BY <1>10 DEF Before, p
      <4> QED BY ONLY <4>1, <4>2, <4>3
    <3>2. PICK j \in 1 .. k : u[2] < ends[j] /\ before(j) <= u[2]
      BY <3>1, <2>1, <1>1, CutHolds DEF before, LeafOf
    <3>3. j \in 1 .. Len(ends) BY <1>1
    <3>4. ~(j < m)
      <4> SUFFICES ASSUME j < m PROVE FALSE
        OBVIOUS
      <4>1. segments[j].block = r.start[1] /\ segments[j].to <= r.start[2]
        BY <1>0, <3>3
      <4>2. leaf.block = r.start[1] /\ ends[j] <= r.start[2] BY <4>1, <1>3, <3>3
      <4>3. ends[j] \in Nat BY <1>2, <3>3
      <4>4. /\ u[1] = r.start[1] /\ u[2] < ends[j] /\ u[2] \in Nat
            /\ r.start[2] \in Nat
        BY <4>2, <3>1, <3>2, <2>1, <1>2
      <4>5. u[2] < r.start[2] BY ONLY <4>2, <4>3, <4>4
      <4>6. Before(u, r.start) BY ONLY <4>4, <4>5 DEF Before
      <4> QED BY <4>6, <1>10
    <3>5. j \in m .. k BY <3>4, <1>1
    <3>6. Holds(segments[j], u) BY <3>1, <3>2, <3>3, <1>3 DEF Holds
    <3> QED BY <3>5, <3>6, <1>7
  <2> QED BY <2>2, <2>3
\* Every segment is sound and ends there at the latest.
<1>11. ASSUME NEW j \in m .. k
       PROVE  Sound(text, r, segments[j]) /\ ~Before(p, EndOf(segments[j]))
  <2>1. j \in 1 .. Len(ends) BY <1>1
  <2>2. ends[m] <= ends[j] /\ ends[j] <= ends[k] /\ ends[j] \in Nat
    <3>1. m <= j /\ j <= k /\ k \in 1 .. Len(ends) /\ m \in 1 .. Len(ends) BY <1>1
    <3> QED BY <3>1, <2>1, <1>2
  <2>3. Before(r.start, EndOf(segments[j]))
    <3>1. leaf.block # r.start[1] \/ ends[m] > r.start[2] BY <1>0, <1>3
    <3>2. EndOf(segments[j]) = <<leaf.block, ends[j]>> BY <2>1, <1>9
    <3>3. r.start[1] < leaf.block \/ (r.start[1] = leaf.block /\ r.start[2] < ends[j])
      <4>1. ends[m] \in Nat /\ ends[j] \in Nat /\ ends[m] <= ends[j] BY <2>2, <1>2
      <4>2. /\ leaf.block \in Nat /\ r.start[1] \in Nat /\ r.start[2] \in Nat
            /\ r.start[1] <= leaf.block
        BY <1>2
      <4>3. CASE leaf.block # r.start[1]
        <5>1. r.start[1] < leaf.block BY <4>2, <4>3
        <5> QED BY <5>1
      <4>4. CASE leaf.block = r.start[1]
        <5>1. r.start[2] < ends[m] BY <3>1, <4>1, <4>2, <4>4
        <5>2. r.start[2] < ends[j] BY ONLY <5>1, <4>1, <4>2
        <5> QED BY <5>2, <4>4
      <4> QED BY <4>3, <4>4
    <3> QED BY <3>2, <3>3, <2>2, <1>2 DEF Before
  <2>4. r.warm => ~Before(StartOf(segments[j]), r.start)
    <3>1. /\ StartOf(segments[j]) = <<leaf.block, before(j)>>
          /\ before(j) \in Nat /\ leaf.from <= before(j)
      BY <2>1, <1>9
    <3>2. r.warm => ~Before(<<leaf.block, leaf.from>>, <<r.start[1], r.start[2]>>)
      BY <1>2 DEF StartOf
    <3>3. r.warm => ~Before(<<leaf.block, before(j)>>, <<r.start[1], r.start[2]>>)
      <4>1. leaf.block \in Nat /\ leaf.from \in Nat BY <1>2
      <4>2. r.start[1] \in Nat /\ r.start[2] \in Nat BY <1>2
      <4> QED BY ONLY <3>1, <3>2, <4>1, <4>2, StillAfter
    <3> QED BY <3>1, <3>3, <1>2
  <2>5. ~Before(p, EndOf(segments[j]))
    <3>1. EndOf(segments[j]) = <<leaf.block, ends[j]>> BY <2>1, <1>9
    <3>2. ends[k] \in Nat BY <1>1, <1>2
    <3>3. ~Before(<<leaf.block, ends[k]>>, <<leaf.block, ends[j]>>)
      <4>1. leaf.block \in Nat BY <1>2
      <4>2. ~(ends[k] < ends[j]) BY <3>2, <2>2
      <4> QED BY ONLY <3>2, <4>1, <4>2, <2>2, InBlock
    <3> QED BY <3>1, <3>3
  <2>6. /\ segments[j].block \in Blocks(text) /\ segments[j].from \in Nat
        /\ segments[j].to \in Nat /\ segments[j].from < segments[j].to
        /\ segments[j].to <= Length(text, segments[j].block)
    <3>1. Length(text, leaf.block) \in Nat BY DEF LeafOf, Length, Blocks
    <3>2. /\ segments[j].block = leaf.block /\ segments[j].from = before(j)
          /\ segments[j].to = ends[j] /\ before(j) \in Nat /\ before(j) < ends[j]
      BY <2>1, <1>3
    <3>3. ends[j] \in Nat /\ ends[j] <= leaf.to BY <2>1, <1>2
    <3> QED BY <3>1, <3>2, <3>3 DEF LeafOf
  <2>7. segments[j].open = Quoted(text, segments[j].block, 0, segments[j].from, FALSE)
    BY <1>3, <2>1
  <2> QED BY <2>3, <2>4, <2>5, <2>6, <2>7 DEF Sound
<1>12. ASSUME NEW n \in DOMAIN joined
       PROVE  Sound(text, r, joined[n]) /\ ~Before(p, EndOf(joined[n]))
  <2>1. CASE n \in DOMAIN told /\ joined[n] = told[n]
    <3>1. ~Before(p, EndOf(told[n]))
      <4>1. /\ ~Before(StartOf(leaf), EndOf(told[n])) /\ told[n].block \in Nat
            /\ told[n].to \in Nat
        BY <2>1, <1>8
      <4>2. ends[k] \in Nat /\ leaf.from < ends[k] BY <1>1, <1>2
      <4>3. leaf.block \in Nat /\ leaf.from \in Nat /\ leaf.from <= ends[k]
        BY <4>2, <1>2
      <4>4. ~Before(<<leaf.block, ends[k]>>, <<told[n].block, told[n].to>>)
        BY ONLY <4>1, <4>2, <4>3, StillAfter DEF StartOf, EndOf
      <4> QED BY <4>4 DEF EndOf
    <3> QED BY <2>1, <3>1, <1>8
  <2>2. CASE \E j \in m .. k : n = Len(told) + j - m + 1 /\ joined[n] = segments[j]
    BY <2>2, <1>11
  <2> QED BY <2>1, <2>2, <1>6
\* They are in order.
<1>13. ASSUME NEW i \in DOMAIN joined, NEW n \in DOMAIN joined, i < n
       PROVE  ~Before(StartOf(joined[n]), EndOf(joined[i]))
  <2>1. i \in Nat /\ n \in Nat BY <1>4
  <2>2. CASE n \in DOMAIN told /\ joined[n] = told[n]
    <3>1. i \in DOMAIN told /\ joined[i] = told[i]
      <4>1. n \in 1 .. Len(told) /\ i \in 1 .. Len(joined) /\ Len(told) \in Nat
        BY <2>2, <1>4
      <4>2. i \in 1 .. Len(told) BY <4>1, <2>1, <1>13
      <4> QED BY <4>2, <1>4
    <3> QED BY <2>2, <3>1, <1>13 DEF Tells
  <2>3. ASSUME NEW j \in m .. k, n = Len(told) + j - m + 1, joined[n] = segments[j]
        PROVE  ~Before(StartOf(joined[n]), EndOf(joined[i]))
    <3>1. /\ j \in 1 .. Len(ends) /\ segments[j].block = leaf.block
          /\ segments[j].from = before(j)
          /\ segments[j].from \in Nat /\ leaf.from <= segments[j].from
      <4>1. j \in 1 .. Len(ends) BY <1>1
      <4> QED BY <4>1, <1>3
    <3>2. CASE i \in DOMAIN told /\ joined[i] = told[i]
      <4>1. /\ ~Before(StartOf(leaf), EndOf(told[i])) /\ told[i].block \in Nat
            /\ told[i].to \in Nat
        BY <3>2, <1>8
      <4>2. StartOf(joined[n]) = <<leaf.block, segments[j].from>>
        BY <3>1, <2>3 DEF StartOf
      <4>3. EndOf(joined[i]) = <<told[i].block, told[i].to>>
        BY <3>2 DEF EndOf
      <4>4. leaf.block \in Nat /\ leaf.from \in Nat BY <1>2
      <4>5. ~Before(<<leaf.block, leaf.from>>, <<told[i].block, told[i].to>>)
        BY <4>1 DEF StartOf, EndOf
      <4>6. ~Before(<<leaf.block, segments[j].from>>, <<told[i].block, told[i].to>>)
        BY ONLY <4>1, <4>4, <4>5, <3>1, StillAfter
      <4> QED BY <4>2, <4>3, <4>6
    <3>3. ASSUME NEW h \in m .. k, i = Len(told) + h - m + 1, joined[i] = segments[h]
          PROVE  ~Before(StartOf(joined[n]), EndOf(joined[i]))
      <4>1. h < j BY <1>1, <1>4, <1>13, <2>3, <3>3
      <4>2. h \in 1 .. Len(ends) /\ j # 1 /\ j - 1 \in 1 .. Len(ends) /\ h <= j - 1
        BY <4>1, <1>1, <3>1
      <4>3. ends[h] <= ends[j - 1] /\ ends[h] \in Nat /\ ends[j - 1] \in Nat
        BY <4>2, <1>2
      <4>4. segments[j].from = ends[j - 1] BY <3>1, <4>2 DEF before
      <4>5. segments[h].block = leaf.block /\ segments[h].to = ends[h]
        BY <4>2, <1>3
      <4>6. StartOf(joined[n]) = <<leaf.block, ends[j - 1]>>
        BY <4>4, <3>1, <2>3 DEF StartOf
      <4>7. EndOf(joined[i]) = <<leaf.block, ends[h]>>
        BY <4>5, <3>3 DEF EndOf
      <4>8. ~Before(<<leaf.block, ends[j - 1]>>, <<leaf.block, ends[h]>>)
        <5>1. leaf.block \in Nat BY <1>2
        <5>2. ~(ends[j - 1] < ends[h]) BY <4>3
        <5> QED BY ONLY <4>3, <5>1, <5>2, InBlock
      <4> QED BY <4>6, <4>7, <4>8
    <3> QED BY <3>2, <3>3, <1>6
  <2> QED BY <2>2, <2>3, <1>6
<1> QED BY <1>5, <1>10, <1>12, <1>13, Zenon DEF Tells, joined, k

Working == phase \in {"visiting", "projecting", "packing", "packed"}
Packs == phase \in {"packing", "packed"}

Current == First(leaves)
Frontier == IF Packs THEN StartOf(Current) ELSE cursor

\* A quotation context that is right where it was taken.
Right(text, q) ==
    IF q.at = Nowhere THEN q.open = FALSE
    ELSE q.at \in Positions(text) /\ q.open = Quoted(text, q.at[1], 0, q.at[2], FALSE)

\* A place that a projection which begins at `seen`, or at the start of the
\* block, reaches within a window, or that it need not reach.
Near(text, seen, p) ==
    \/ (IF seen[1] = p[1] /\ seen[2] <= p[2] THEN p[2] - seen[2] ELSE p[2]) <= Window
    \/ p[2] = Length(text, p[1])

SilentAt(text, p) == ~Spoken(text, p[1], p[2], p[2] + 1)

\* What a preparation was asked for, and how far it is.
Asked ==
    Working =>
        /\ request.start \in Positions(book) /\ request.context \in Contexts
        /\ request.maximum \in 1 .. BatchMax /\ Len(batch) <= request.maximum
        /\ cursor \in Positions(book) /\ request.start[1] <= cursor[1]
        /\ request.warm => ~Before(cursor, request.start)
        /\ checkpoint.continuation = Nowhere

\* The batch tells the text as far as it was read.
Told == Working => Tells(book, request, batch, Frontier)

\* The quotation is known there.
Known ==
    Working =>
        /\ Right(book, quotation)
        /\ \/ Frontier[2] = 0 \/ quotation.at = Frontier
           \/ ~Packs /\ cursor[2] = Length(book, cursor[1])

\* So is the one where the batch ends.
KnownAtEnd ==
    Working /\ batch # <<>> =>
        Right(book, returned) /\ returned.at = EndOf(Last(batch))

\* A checkpoint that is of use is near what it goes on with.
Saved ==
    ~aborted /\ checkpoint.continuation # Nowhere =>
        /\ Right(book, checkpoint.quotation)
        /\ checkpoint.continuation \in Positions(book)
        /\ checkpoint.quotation.at = checkpoint.continuation
        /\ \/ Near(book, checkpoint.leaf, checkpoint.continuation)
           \/ SilentAt(book, checkpoint.continuation)

CursorNear ==
    ~aborted /\ phase \in {"visiting", "projecting"} =>
        \/ Near(book, checkpoint.leaf, cursor)
        \/ request.warm /\ cursor = request.start /\ SilentAt(book, cursor)

LeavesNear ==
    ~aborted /\ Packs =>
        \A leaf \in leaves :
           IF checkpoint.leaf[1] = leaf.block
           THEN checkpoint.leaf[2] <= leaf.from /\ leaf.to - checkpoint.leaf[2] <= Window
           ELSE leaf.to <= Window

\* What is left of the window is the current leaf and those that follow.
InWindow ==
    Packs =>
        /\ leaves # {} /\ LeafOf(book, Current)
        /\ Current \in leaves /\ Current.block \in WindowBlocks(book, cursor)
        /\ ~Before(StartOf(Current), cursor)
        /\ leaves \ {Current} =
               {leaf \in WindowLeaves(book, cursor) : Current.block < leaf.block}
        /\ sourceEnds = (HeldUnits(book, cursor) < Window)

\* It was cut in order, as far as it goes or as many times as may be.
CutInOrder ==
    Packs =>
        /\ Increasing(Current, prepared)
        /\ phase = "packed" /\ Len(prepared) < RetainedMax - Len(batch) =>
              ~Spoken(book, Current.block, Reached(Current, prepared), Current.to)

\* Nothing is left over from an earlier preparation or window.
Fresh ==
    /\ phase \in {"idle", "visiting", "projecting"} => leaves = {} /\ prepared = <<>>
    /\ phase = "idle" => ~aborted /\ batch = <<>>

TextInv ==
    /\ Asked /\ Told /\ Known /\ KnownAtEnd /\ Saved /\ CursorNear /\ LeavesNear
    /\ InWindow /\ CutInOrder /\ Fresh /\ PreparedAsWritten /\ FailsOnlyThere

-----------------------------------------------------------------------------
(* The segments of a leaf, and what a batch takes of them *)

\* The book is a sequence of blocks.
LEMMA BookIs == ASSUME TypeOK PROVE book \in Seq(Seq(Kinds))
BY BooksAssumption DEF TypeOK

\* What the code carries along is the quotation as it is in the text.
LEMMA OpensRight ==
    ASSUME TypeOK, NEW leaf, LeafOf(book, leaf), Right(book, quotation),
           leaf.from = 0 \/ quotation.at = StartOf(leaf),
           NEW o \in Nat, leaf.from <= o, o <= leaf.to
    PROVE  /\ OpenAt(leaf, o) = Quoted(book, leaf.block, 0, o, FALSE)
           /\ OpenAt(leaf, o) \in BOOLEAN
           /\ <<leaf.block, o>> \in Positions(book)
           /\ QuotationAt(leaf, o) \in Quotations /\ Right(book, QuotationAt(leaf, o))
           /\ QuotationAt(leaf, o).at = <<leaf.block, o>>
<1> DEFINE before == quotation.at = <<leaf.block, leaf.from>> /\ quotation.open
<1>1. book \in Seq(Seq(Kinds)) /\ quotation.open \in BOOLEAN
  BY BookIs DEF TypeOK, Quotations
<1>2. leaf.block \in Blocks(book) /\ leaf.from \in Nat /\ leaf.to \in Nat
  BY DEF LeafOf
<1>3. before = Quoted(book, leaf.block, 0, leaf.from, FALSE)
  <2>1. CASE quotation.at = <<leaf.block, leaf.from>>
    <3>1. leaf.block \in Nat /\ leaf.block # 0 BY <1>2 DEF Blocks
    <3>2. quotation.at # Nowhere BY <2>1, <3>1 DEF Nowhere
    <3>3. quotation.at[1] = leaf.block /\ quotation.at[2] = leaf.from BY <2>1
    <3>4. quotation.open = Quoted(book, leaf.block, 0, leaf.from, FALSE)
      BY <3>2, <3>3 DEF Right
    <3> QED BY <2>1, <3>4, <1>1
  <2>2. CASE quotation.at # <<leaf.block, leaf.from>>
    <3>1. leaf.from = 0 BY <2>2 DEF StartOf
    <3>2. 0 \in Nat /\ 0 <= 0 OBVIOUS
    <3>3. Quoted(book, leaf.block, 0, 0, FALSE) = FALSE BY <3>2, <1>1, QuotedOn
    <3> QED BY <2>2, <3>1, <3>3
  <2> QED BY <2>1, <2>2
<1>4. OpenAt(leaf, o) = Quoted(book, leaf.block, leaf.from, o, before)
  BY DEF OpenAt
<1>5. OpenAt(leaf, o) = Quoted(book, leaf.block, 0, o, FALSE)
  <2> HIDE DEF before
  <2> QED BY <1>1, <1>2, <1>3, <1>4, QuotedOn
<1>6. OpenAt(leaf, o) \in BOOLEAN
  BY <1>5, QuotedIsBoolean
<1>7. <<leaf.block, o>> \in Positions(book)
  <2>1. Length(book, leaf.block) \in Nat BY <1>1, <1>2 DEF Length, Blocks
  <2>2. o <= Length(book, leaf.block) BY <2>1, <1>2 DEF LeafOf
  <2> QED BY <1>1, <1>2, <2>2, IsPosition
<1>8. QuotationAt(leaf, o) = [at |-> <<leaf.block, o>>, open |-> OpenAt(leaf, o)]
  BY DEF QuotationAt
<1>9. QuotationAt(leaf, o) \in Quotations
  BY <1>6, <1>7, <1>8 DEF Quotations, Places
<1>10. Right(book, QuotationAt(leaf, o))
  <2> DEFINE q == QuotationAt(leaf, o)
  <2>1. q.at = <<leaf.block, o>> /\ q.open = OpenAt(leaf, o) BY <1>8
  <2>2. q.at[1] = leaf.block /\ q.at[2] = o BY <2>1
  <2>3. <<leaf.block, o>> # Nowhere BY <1>7, <1>1, PositionIs
  <2> HIDE DEF q
  <2> QED BY <2>1, <2>2, <2>3, <1>5, <1>7 DEF Right, q
<1>11. QuotationAt(leaf, o).at = <<leaf.block, o>> BY <1>8
<1> HIDE DEF before
<1> QED BY <1>5, <1>6, <1>7, <1>9, <1>10, <1>11

\* The segments of a leaf are its cuts, in order, with the quotation at each.
LEMMA SegmentsCut ==
    ASSUME TypeOK, NEW leaf, LeafOf(book, leaf), Right(book, quotation),
           leaf.from = 0 \/ quotation.at = StartOf(leaf),
           NEW ends, Increasing(leaf, ends)
    PROVE  Cuts(book, leaf, ends, SegmentsOf(leaf, ends))
<1> DEFINE s == SegmentsOf(leaf, ends)
           from(n) == IF n = 1 THEN leaf.from ELSE ends[n - 1]
<1>1. leaf.block \in Blocks(book) /\ leaf.from \in Nat /\ leaf.to \in Nat /\ Len(ends) \in Nat
      /\ DOMAIN ends = 1 .. Len(ends)
  BY DEF LeafOf, Increasing
<1>2. s = [n \in 1 .. Len(ends) |->
              [block |-> leaf.block, from |-> from(n), to |-> ends[n],
               open |-> OpenAt(leaf, from(n))]]
  BY <1>1 DEF SegmentsOf
<1>3. ASSUME NEW n \in 1 .. Len(ends)
      PROVE  /\ ends[n] \in Nat /\ from(n) \in Nat /\ leaf.from <= from(n) /\ from(n) <= leaf.to
             /\ OpenAt(leaf, from(n)) = Quoted(book, leaf.block, 0, from(n), FALSE)
             /\ OpenAt(leaf, from(n)) \in BOOLEAN
  <2>1. ends[n] \in Nat BY DEF Increasing
  <2>2. from(n) \in Nat /\ leaf.from <= from(n) /\ from(n) <= leaf.to
    <3>1. CASE n = 1 BY <3>1, <1>1 DEF LeafOf
    <3>2. CASE n # 1
      <4>1. n - 1 \in 1 .. Len(ends) BY <3>2, <1>1
      <4>2. ends[n - 1] \in Nat /\ leaf.from < ends[n - 1] /\ ends[n - 1] <= leaf.to
        BY <4>1 DEF Increasing
      <4> QED BY <3>2, <4>2, <1>1
    <3> QED BY <3>1, <3>2
  <2> HIDE DEF from
  <2> QED BY <2>1, <2>2, OpensRight
<1> HIDE DEF from
<1>4. ASSUME NEW n \in 1 .. Len(ends)
      PROVE  /\ s[n] \in Segments
             /\ s[n].block = leaf.block /\ s[n].to = ends[n] /\ s[n].from = from(n)
             /\ s[n].open = Quoted(book, leaf.block, 0, s[n].from, FALSE)
  <2> DEFINE record == [block |-> leaf.block, from |-> from(n), to |-> ends[n],
                        open |-> OpenAt(leaf, from(n))]
  <2>1. s[n] = record BY <1>2
  <2>2. record \in Segments BY <1>1, <1>3 DEF Segments
  <2>3. /\ record.block = leaf.block /\ record.to = ends[n] /\ record.from = from(n)
        /\ record.open = OpenAt(leaf, from(n))
    OBVIOUS
  <2> HIDE DEF record, s
  <2>4. record.open = Quoted(book, leaf.block, 0, record.from, FALSE)
    BY <2>3, <1>3
  <2> QED BY <2>1, <2>2, <2>3, <2>4
<1>5. s \in [1 .. Len(ends) -> Segments]
  <2>1. DOMAIN s = 1 .. Len(ends) BY <1>2
  <2> HIDE DEF s
  <2> QED BY <2>1, <1>2, <1>4 DEF s
<1>6. s \in Seq(Segments) /\ Len(s) = Len(ends)
  <2> HIDE DEF s
  <2> QED BY <1>1, <1>5
<1> HIDE DEF s
<1> QED BY <1>4, <1>6 DEF Cuts, s, from

\* The usable ones are those from the first that is wanted on.
LEMMA UsableIs ==
    ASSUME NEW leaf, NEW ends, ends = StableEnds(leaf, prepared),
           NEW segments, segments = SegmentsOf(leaf, ends),
           segments \in Seq(Segments)
    PROVE  \/ /\ Usable(leaf) = <<>>
              /\ \A n \in 1 .. Len(segments) : ~AtOrAfterStart(segments[n])
           \/ \E m \in 1 .. Len(segments) :
                 /\ AtOrAfterStart(segments[m])
                 /\ \A n \in 1 .. Len(segments) : n < m => ~AtOrAfterStart(segments[n])
                 /\ Usable(leaf) \in Seq(Segments)
                 /\ Len(Usable(leaf)) = Len(segments) - m + 1
                 /\ \A i \in 1 .. Len(Usable(leaf)) : Usable(leaf)[i] = segments[m + i - 1]
<1> DEFINE wanted == {n \in DOMAIN segments : AtOrAfterStart(segments[n])}
<1>1. Usable(leaf) = IF wanted = {} THEN <<>>
                     ELSE SubSeq(segments, Min(wanted), Len(segments))
  BY DEF Usable
<1>2. DOMAIN segments = 1 .. Len(segments) /\ Len(segments) \in Nat
  OBVIOUS
<1>3. CASE wanted = {}
  <2>1. \A n \in 1 .. Len(segments) : ~AtOrAfterStart(segments[n]) BY <1>2, <1>3
  <2> QED BY <2>1, <1>1, <1>3
<1>4. CASE wanted # {}
  <2> DEFINE m == Min(wanted)
  <2>1. wanted \in SUBSET Nat BY <1>2
  <2>2. m \in wanted /\ \A n \in wanted : m <= n
    <3> HIDE DEF wanted
    <3> QED BY <2>1, <1>4, LeastIs
  <2>3. m \in 1 .. Len(segments) /\ AtOrAfterStart(segments[m]) BY <2>2, <1>2
  <2>4. ASSUME NEW n \in 1 .. Len(segments), n < m PROVE ~AtOrAfterStart(segments[n])
    <3>1. n \notin wanted
      <4> HIDE DEF wanted
      <4> QED BY <2>2, <2>3, <2>4
    <3> QED BY <3>1, <1>2
  <2>5. Usable(leaf) = SubSeq(segments, m, Len(segments)) BY <1>1, <1>4
  <2> HIDE DEF m, wanted
  <2>6. /\ Usable(leaf) \in Seq(Segments) /\ Len(Usable(leaf)) = Len(segments) - m + 1
        /\ \A i \in 1 .. Len(Usable(leaf)) : Usable(leaf)[i] = segments[m + i - 1]
    BY <2>3, <2>5, <1>2
  <2> QED BY <2>3, <2>4, <2>6
<1> QED BY <1>3, <1>4

\* The stable ends are in order as well, and what is left after them is where the
\* preparation goes on.
LEMMA Stable ==
    ASSUME book \in Seq(Seq(Kinds)),
           NEW leaf, LeafOf(book, leaf), Increasing(leaf, prepared),
           ~NoWayForward(leaf, prepared),
           prepared = <<>> => ~Spoken(book, leaf.block, leaf.from, leaf.to),
           NEW ends, ends = StableEnds(leaf, prepared),
           NEW next, next = NextOffset(leaf, prepared)
    PROVE  /\ Increasing(leaf, ends)
           /\ next \in Nat /\ leaf.from < next /\ next <= leaf.to
           /\ ends = <<>> => next = leaf.to /\ ~Spoken(book, leaf.block, leaf.from, leaf.to)
           /\ ends # <<>> => next = ends[Len(ends)]
           /\ ~Cut(leaf) /\ Complete(book, leaf, prepared) =>
                 next = leaf.to /\ leaf.to = Length(book, leaf.block)
           /\ ~Complete(book, leaf, prepared) => next < leaf.to
<1>1. /\ prepared \in Seq(Nat) /\ Len(prepared) \in Nat /\ DOMAIN prepared = 1 .. Len(prepared)
      /\ leaf.from \in Nat /\ leaf.to \in Nat /\ leaf.from < leaf.to
      /\ leaf.to <= Length(book, leaf.block)
  BY DEF Increasing, LeafOf
<1>2. ASSUME NEW n \in 1 .. Len(prepared)
      PROVE  prepared[n] \in Nat /\ leaf.from < prepared[n] /\ prepared[n] <= leaf.to
  BY <1>1 DEF Increasing
<1>3. Cut(leaf) <=> Partial(book, leaf) /\ Complete(book, leaf, prepared)
  BY DEF Cut
<1>5. CASE prepared = <<>>
  <2>1. ends = <<>> /\ next = leaf.to BY <1>5 DEF StableEnds, NextOffset
  <2>2. Complete(book, leaf, prepared) BY <1>5 DEF Complete
  <2>3. Increasing(leaf, ends) BY <1>5, <2>1
  <2>4. ~Cut(leaf) => leaf.to = Length(book, leaf.block)
    BY <2>2, <1>1, <1>3 DEF Partial, LeafOf, Length
  <2> QED BY <2>1, <2>2, <2>3, <2>4, <1>1, <1>5
<1>6. CASE prepared # <<>>
  <2>1. Last(prepared) = prepared[Len(prepared)] /\ Len(prepared) \in 1 .. Len(prepared)
    BY <1>6, <1>1 DEF Last
  <2>2. Complete(book, leaf, prepared) <=> Last(prepared) = leaf.to
    BY <1>6 DEF Complete
  <2>3. /\ Last(prepared) \in Nat /\ leaf.from < Last(prepared) /\ Last(prepared) <= leaf.to
    BY <2>1, <1>2
  <2>4. CASE ~Complete(book, leaf, prepared)
    <3>1. ends = prepared /\ next = Last(prepared)
      BY <2>4, <1>6 DEF StableEnds, NextOffset
    <3> QED BY <3>1, <2>1, <2>2, <2>3, <2>4, <1>1, <1>6
  <2>5. CASE Complete(book, leaf, prepared) /\ ~Partial(book, leaf)
    <3>1. ends = prepared /\ next = leaf.to
      BY <2>5, <1>6 DEF StableEnds, NextOffset
    <3>2. Length(book, leaf.block) \in Nat BY DEF LeafOf, Length, Blocks
    <3>3. leaf.to = Length(book, leaf.block) BY <3>2, <2>5, <1>1 DEF Partial
    <3> QED BY <3>1, <3>3, <2>1, <2>2, <2>3, <2>5, <1>1, <1>6
  <2>6. CASE Complete(book, leaf, prepared) /\ Partial(book, leaf)
    <3>1. Len(prepared) >= 2
      <4>1. Len(prepared) # 1 BY <2>6 DEF NoWayForward
      <4>2. Len(prepared) # 0 BY <1>1, <1>6
      <4> QED BY <4>1, <4>2, <1>1
    <3>2. ends = Front(prepared) BY <2>6, <1>6 DEF StableEnds
    <3>3. ends = SubSeq(prepared, 1, Len(prepared) - 1) BY <3>2 DEF Front
    <3>4. /\ ends \in Seq(Nat) /\ Len(ends) = Len(prepared) - 1
          /\ \A n \in 1 .. Len(ends) : ends[n] = prepared[n]
      BY <3>1, <3>3, <1>1
    <3>5. Increasing(leaf, ends)
      <4>1. /\ DOMAIN ends = 1 .. Len(ends) /\ \A n \in DOMAIN ends : n \in DOMAIN prepared
        BY <3>1, <3>4, <1>1
      <4> QED BY <4>1, <3>4 DEF Increasing
    <3>6. next = Last(ends) /\ Last(ends) = ends[Len(ends)]
      BY <2>6, <1>6 DEF NextOffset, StableEnds, Last
    <3>7. Len(ends) \in 1 .. Len(ends) /\ ends # <<>> BY <3>1, <3>4, <1>1
    <3>8. next \in Nat /\ leaf.from < next /\ next <= leaf.to
      BY <3>5, <3>6, <3>7, <3>4 DEF Increasing
    <3> QED BY <2>6, <3>5, <3>6, <3>7, <3>8, <1>3
  <2> QED BY <2>4, <2>5, <2>6
<1> QED BY <1>5, <1>6

\* The beginning of a sequence.
LEMMA SeqPrefix ==
    ASSUME NEW S, NEW s \in Seq(S), NEW k \in 0 .. Len(s), NEW t, t = SubSeq(s, 1, k)
    PROVE  t \in Seq(S) /\ Len(t) = k /\ \A i \in 1 .. k : t[i] = s[i]
OBVIOUS

\* What two sequences are together.
LEMMA Joined ==
    ASSUME NEW S, NEW s \in Seq(S), NEW t \in Seq(S)
    PROVE  /\ s \o t \in Seq(S) /\ Len(s \o t) = Len(s) + Len(t)
           /\ Len(s) \in Nat /\ Len(t) \in Nat
           /\ t = <<>> => s \o t = s
OBVIOUS

\* Nothing added is nothing changed.
LEMMA JoinedEmpty ==
    ASSUME NEW S, NEW s \in Seq(S), Len(s) # 0 PROVE s # <<>>
OBVIOUS

\* The last of two sequences is that of the second.
LEMMA JoinedLast ==
    ASSUME NEW S, NEW s \in Seq(S), NEW t \in Seq(S), t # <<>>
    PROVE  /\ s \o t # <<>> /\ Last(s \o t) = Last(t)
           /\ Last(t) = t[Len(t)] /\ Len(t) \in 1 .. Len(t) /\ 1 <= Len(t)
<1>1. Len(t) \in 1 .. Len(t) /\ Len(s \o t) = Len(s) + Len(t) /\ Len(s) \in Nat /\ s \o t # <<>>
  OBVIOUS
<1>2. (s \o t)[Len(s) + Len(t)] = t[Len(t)] OBVIOUS
<1> QED BY <1>1, <1>2 DEF Last

\* A sequence without its first elements, and what there is room for of it.
Rest(s, m, t) ==
    Len(t) = Len(s) - m + 1 /\ \A i \in 1 .. Len(t) : t[i] = s[m + i - 1]
Fitting(s, room) == SubSeq(s, 1, Min({Len(s), room}))

\* What is taken of the usable segments, the rest of a leaf's.
Takes(S, told, segments, m, usable, room, taken) ==
    /\ taken \in Seq(S) /\ told \o taken \in Seq(S)
    /\ Len(taken) \in Nat /\ Len(taken) <= room
    /\ Len(told \o taken) = Len(told) + Len(taken)
    /\ taken = <<>> => told \o taken = told
    /\ \A i \in 1 .. Len(taken) : taken[i] = segments[m + i - 1]
    /\ taken # <<>> =>
          /\ 1 <= Len(taken) /\ m + Len(taken) - 1 \in 1 .. Len(segments)
          /\ m + Len(taken) - 1 <= Len(segments)
          /\ Last(taken) = segments[m + Len(taken) - 1]
          /\ told \o taken # <<>> /\ Last(told \o taken) = Last(taken)
    /\ Len(usable) <= room =>
          taken # <<>> /\ m + Len(taken) - 1 = Len(segments)
    /\ ~(Len(usable) <= room) =>
          Len(taken) = room /\ (0 < Len(told) + room => told \o taken # <<>>)

\* What is taken of the usable segments is the first that are wanted.
LEMMA Taking ==
    ASSUME NEW S, NEW told \in Seq(S), NEW segments \in Seq(S),
           NEW m \in 1 .. Len(segments), NEW usable \in Seq(S),
           Rest(segments, m, usable),
           NEW room \in Nat, NEW taken, taken = Fitting(usable, room)
    PROVE  Takes(S, told, segments, m, usable, room, taken)
<1> DEFINE k == Min({Len(usable), room})
<1>1. Len(usable) \in Nat /\ Len(segments) \in Nat /\ Len(usable) = Len(segments) - m + 1
  BY DEF Rest
<1>2. k = IF Len(usable) <= room THEN Len(usable) ELSE room
  BY <1>1, LeastOfTwo
<1> HIDE DEF k
<1>3. k \in 0 .. Len(usable) /\ k \in Nat /\ k <= room BY <1>1, <1>2
<1>4. taken = SubSeq(usable, 1, k) BY DEF k, Fitting
<1>5. taken \in Seq(S) /\ Len(taken) = k /\ \A i \in 1 .. k : taken[i] = usable[i]
  BY <1>3, <1>4, SeqPrefix
<1>12. taken \in Seq(S) BY <1>5
<1>6. /\ told \o taken \in Seq(S) /\ Len(told \o taken) = Len(told) + Len(taken)
      /\ Len(told) \in Nat /\ Len(taken) \in Nat
      /\ taken = <<>> => told \o taken = told
  BY <1>12, Joined, Zenon
<1>13. ASSUME taken # <<>>
       PROVE  /\ told \o taken # <<>> /\ Last(told \o taken) = Last(taken)
              /\ Last(taken) = taken[Len(taken)] /\ Len(taken) \in 1 .. Len(taken)
              /\ 1 <= Len(taken)
  BY <1>12, <1>13, JoinedLast, Zenon
<1>14. (Len(taken) # 0 => taken # <<>>) /\ (Len(told \o taken) # 0 => told \o taken # <<>>)
  BY <1>6, <1>12, JoinedEmpty, Zenon
<1>7. ASSUME NEW i \in 1 .. Len(taken) PROVE taken[i] = segments[m + i - 1]
  <2>1. i \in 1 .. k /\ i \in 1 .. Len(usable) BY <1>3, <1>5
  <2> QED BY <2>1, <1>5 DEF Rest
<1>8. ASSUME taken # <<>>
      PROVE  /\ 1 <= Len(taken) /\ m + Len(taken) - 1 \in 1 .. Len(segments)
             /\ m + Len(taken) - 1 <= Len(segments)
             /\ Last(taken) = segments[m + Len(taken) - 1]
  <2>1. Len(taken) = k /\ 1 <= k /\ k <= Len(usable) BY <1>3, <1>5, <1>8, <1>13
  <2>2. 1 <= Len(taken) /\ m + Len(taken) - 1 \in 1 .. Len(segments)
        /\ m + Len(taken) - 1 <= Len(segments)
    BY <2>1, <1>1, <1>3
  <2>3. Last(taken) = segments[m + Len(taken) - 1] BY <1>7, <1>8, <1>13
  <2> QED BY <2>2, <2>3
<1>9. ASSUME Len(usable) <= room
      PROVE  taken # <<>> /\ m + Len(taken) - 1 = Len(segments)
  <2>1. Len(taken) = Len(usable) /\ Len(usable) # 0 BY <1>1, <1>2, <1>5, <1>9
  <2>2. m + Len(taken) - 1 = Len(segments) BY <1>1, <2>1
  <2> QED BY <2>1, <2>2, <1>14
<1>10. ASSUME ~(Len(usable) <= room)
       PROVE  Len(taken) = room /\ (0 < Len(told) + room => told \o taken # <<>>)
  <2>1. Len(taken) = room BY <1>2, <1>5, <1>10
  <2>2. 0 < Len(told) + room => Len(told \o taken) # 0 BY <2>1, <1>6
  <2> QED BY <2>1, <2>2, <1>14
<1>11. Len(taken) \in Nat /\ Len(taken) <= room BY <1>3, <1>5
<1> QED BY <1>6, <1>7, <1>8, <1>9, <1>10, <1>11, <1>12, <1>13, Zenon DEF Takes

\* What the batch is with that.
TakesOfLeaf(usable, taken) ==
    /\ taken \in Seq(Segments) /\ Len(batch \o taken) <= request.maximum
    /\ batch \o taken \in Seq(Segments)
    /\ taken = <<>> => batch \o taken = batch
    /\ taken # <<>> =>
          /\ Tells(book, request, batch \o taken, EndOf(Last(taken)))
          /\ Last(taken).block = Current.block
          /\ Last(taken).to \in Nat
          /\ Current.from < Last(taken).to /\ Last(taken).to <= Current.to
          /\ batch \o taken # <<>> /\ Last(batch \o taken) = Last(taken)
    /\ Len(usable) <= Room =>
          Tells(book, request, batch \o taken,
                <<Current.block, NextOffset(Current, prepared)>>)
    /\ Len(usable) > Room => batch \o taken # <<>>

\* What a batch takes of a leaf.
LEMMA Taken ==
    ASSUME TypeOK, Asked, Told, Known, InWindow, CutInOrder, phase = "packed",
           ~NoWayForward(Current, prepared),
           NEW usable, usable = Usable(Current),
           NEW taken, taken = Fitting(usable, Room)
    PROVE  TakesOfLeaf(usable, taken)
<1> DEFINE leaf == Current
           ends == StableEnds(leaf, prepared)
           next == NextOffset(leaf, prepared)
           segments == SegmentsOf(leaf, ends)
<1>1. /\ Packs /\ Working /\ Frontier = StartOf(leaf)
      /\ LeafOf(book, leaf) /\ Increasing(leaf, prepared) /\ ~Before(StartOf(leaf), cursor)
  BY DEF Packs, Working, Frontier, InWindow, CutInOrder
<1>2. /\ request.start \in Positions(book) /\ cursor \in Positions(book)
      /\ request.start[1] <= cursor[1] /\ (request.warm => ~Before(cursor, request.start))
      /\ request.maximum \in 1 .. BatchMax /\ Len(batch) <= request.maximum
      /\ Tells(book, request, batch, StartOf(leaf)) /\ Right(book, quotation)
      /\ leaf.from = 0 \/ quotation.at = StartOf(leaf)
  BY <1>1 DEF Asked, Told, Known, StartOf
<1>3. /\ book \in Seq(Seq(Kinds)) /\ batch \in Seq(Segments) /\ prepared \in Seq(Nat)
  BY BookIs DEF TypeOK
<1>4. prepared = <<>> => ~Spoken(book, leaf.block, leaf.from, leaf.to)
  <2> SUFFICES ASSUME prepared = <<>> PROVE ~Spoken(book, leaf.block, leaf.from, leaf.to)
    OBVIOUS
  <2>1. Len(prepared) = 0 /\ Reached(leaf, prepared) = leaf.from BY DEF Reached
  <2>2. Len(batch) \in Nat /\ BatchMax \in Nat BY <1>3, BatchAssumption
  <2>3. Len(prepared) < RetainedMax - Len(batch)
    BY <2>1, <2>2, <1>2 DEF RetainedMax
  <2> QED BY <2>1, <2>3, <1>1 DEF CutInOrder
<1> HIDE DEF leaf, ends, next, segments
<1>5. /\ Increasing(leaf, ends)
      /\ next \in Nat /\ leaf.from < next /\ next <= leaf.to
      /\ ends = <<>> => next = leaf.to /\ ~Spoken(book, leaf.block, leaf.from, leaf.to)
      /\ ends # <<>> => next = ends[Len(ends)]
  BY <1>1, <1>3, <1>4, Stable DEF ends, next, leaf
<1>6. Cuts(book, leaf, ends, segments)
  BY <1>1, <1>2, <1>5, SegmentsCut DEF segments
<1>7. segments \in Seq(Segments) /\ Len(segments) = Len(ends) /\ Len(ends) \in Nat
  BY <1>5, <1>6 DEF Cuts, Increasing
<1>8. \/ /\ usable = <<>>
         /\ \A n \in 1 .. Len(segments) : ~AtOrAfterStart(segments[n])
      \/ \E m \in 1 .. Len(segments) :
            /\ AtOrAfterStart(segments[m])
            /\ \A n \in 1 .. Len(segments) : n < m => ~AtOrAfterStart(segments[n])
            /\ usable \in Seq(Segments)
            /\ Rest(segments, m, usable)
  BY <1>7, UsableIs DEF ends, segments, leaf, Rest
<1>9. Room \in Nat /\ Room = request.maximum - Len(batch) /\ Len(batch) \in Nat
  BY <1>2, <1>3, BatchAssumption DEF Room
<1>10. /\ StartOf(leaf) \in Positions(book) /\ <<leaf.block, next>> \in Positions(book)
       /\ leaf.block \in Nat /\ leaf.from \in Nat /\ leaf.to \in Nat
       /\ leaf.block \in Blocks(book)
       /\ request.start[1] <= leaf.block
       /\ request.warm => ~Before(StartOf(leaf), request.start)
  <2>1. leaf.block \in Nat /\ leaf.from \in Nat /\ leaf.to \in Nat /\ leaf.block \in Blocks(book)
        /\ leaf.to <= Length(book, leaf.block) /\ leaf.from < leaf.to
    BY <1>1 DEF LeafOf, Blocks
  <2>2. Length(book, leaf.block) \in Nat BY <2>1, <1>3 DEF Length, Blocks
  <2>3. StartOf(leaf) \in Positions(book) BY <2>1, <2>2, <1>3, IsPosition DEF StartOf
  <2>4. next <= Length(book, leaf.block) BY <2>1, <2>2, <1>5
  <2>5. <<leaf.block, next>> \in Positions(book) BY <2>1, <2>4, <1>3, <1>5, IsPosition
  <2>6. /\ cursor[1] \in Nat /\ cursor[2] \in Nat /\ request.start[1] \in Nat
        /\ request.start[2] \in Nat
    BY <1>2, <1>3, PositionIs
  <2>7. request.start[1] <= leaf.block BY <2>1, <2>6, <1>1, <1>2 DEF Before, StartOf
  <2>8. request.warm => ~Before(StartOf(leaf), request.start)
    BY <2>1, <2>6, <1>1, <1>2 DEF Before, StartOf
  <2> QED BY <2>1, <2>3, <2>5, <2>7, <2>8
<1>11. CASE /\ usable = <<>>
            /\ \A n \in 1 .. Len(segments) : ~AtOrAfterStart(segments[n])
  <2>1. taken = <<>>
    <3>1. Len(usable) = 0 BY <1>11
    <3>2. Min({Len(usable), Room}) = 0 BY <3>1, <1>9, LeastOfTwo
    <3> QED BY <3>2, <1>11 DEF Fitting
  <2>3. taken \in Seq(Segments)
    <3>1. <<>> \in Seq(Segments) OBVIOUS
    <3> QED BY <2>1, <3>1, Zenon
  <2>2. batch \o taken = batch BY <2>1, <2>3, <1>3, Joined, Zenon
  <2>4. Tells(book, request, batch, <<leaf.block, next>>)
    <3>1. ASSUME NEW u \in Utterances(book), ~Before(u, request.start),
                 ~Before(u, StartOf(leaf)), Before(u, <<leaf.block, next>>)
          PROVE  FALSE
      <4>1. /\ u[1] \in Nat /\ u[2] \in Nat /\ Spoken(book, u[1], u[2], u[2] + 1)
            /\ u[2] < Length(book, u[1])
        BY <1>3, UtteranceIs
      <4>2. u[1] = leaf.block /\ leaf.from <= u[2] /\ u[2] < next
        BY <4>1, <3>1, <1>5, <1>10 DEF Before, StartOf
      <4>3. CASE ends = <<>>
        <5>1. u[2] < leaf.to BY <4>2, <4>3, <1>5
        <5> QED BY <5>1, <4>1, <4>2, <4>3, <1>5, <1>10, SpokenIn
      <4>4. CASE ends # <<>>
        <5>1. Len(ends) \in 1 .. Len(segments) BY <4>4, <1>5, <1>7 DEF Increasing
        <5>2. ~AtOrAfterStart(segments[Len(ends)]) BY <5>1, <1>11
        <5>3. /\ segments[Len(ends)].block = leaf.block
              /\ segments[Len(ends)].to = ends[Len(ends)]
          BY <5>1, <1>6, <1>7 DEF Cuts
        <5>4. leaf.block = request.start[1] /\ ~(next > request.start[2])
          BY <5>2, <5>3, <4>4, <1>5 DEF AtOrAfterStart
        <5>5. request.start[1] \in Nat /\ request.start[2] \in Nat
          BY <1>2, <1>3, PositionIs
        <5> QED BY <5>4, <5>5, <4>1, <4>2, <3>1, <1>5, <1>10 DEF Before
      <4> QED BY <4>3, <4>4
    <3>2. ~Before(<<leaf.block, next>>, StartOf(leaf))
      BY <1>5, <1>10 DEF Before, StartOf
    <3>3. \A u \in Utterances(book) :
             ~Before(u, request.start) /\ ~Before(u, StartOf(leaf)) =>
                 ~Before(u, <<leaf.block, next>>)
      BY <3>1
    <3> QED BY <3>2, <3>3, <1>2, <1>3, <1>10, TellsFurther
  <2>5. Len(usable) <= Room BY <1>9, <1>11
  <2>6. ~(Len(usable) > Room) BY <2>5, <1>9, <1>11
  <2> QED BY <2>1, <2>2, <2>3, <2>4, <2>5, <2>6, <1>2, <1>3 DEF leaf, next, TakesOfLeaf
<1>12. ASSUME NEW m \in 1 .. Len(segments),
              AtOrAfterStart(segments[m]),
              \A n \in 1 .. Len(segments) : n < m => ~AtOrAfterStart(segments[n]),
              usable \in Seq(Segments), Rest(segments, m, usable)
       PROVE  /\ taken \in Seq(Segments) /\ Len(batch \o taken) <= request.maximum
              /\ batch \o taken \in Seq(Segments)
              /\ taken = <<>> => batch \o taken = batch
              /\ taken # <<>> =>
                    /\ Tells(book, request, batch \o taken, EndOf(Last(taken)))
                    /\ Last(taken).block = leaf.block
                    /\ Last(taken).to \in Nat
                    /\ leaf.from < Last(taken).to /\ Last(taken).to <= leaf.to
                    /\ batch \o taken # <<>> /\ Last(batch \o taken) = Last(taken)
              /\ Len(usable) <= Room =>
                    Tells(book, request, batch \o taken, <<leaf.block, next>>)
              /\ Len(usable) > Room => batch \o taken # <<>>
  <2>0. /\ batch \in Seq(Segments) /\ segments \in Seq(Segments) /\ Room \in Nat
        /\ m \in 1 .. Len(segments) /\ usable \in Seq(Segments)
        /\ Rest(segments, m, usable) /\ taken = Fitting(usable, Room)
    BY <1>3, <1>7, <1>9, <1>12
  <2>9. Takes(Segments, batch, segments, m, usable, Room, taken)
    BY <2>0, Taking
  <2>1. /\ taken \in Seq(Segments) /\ batch \o taken \in Seq(Segments)
        /\ Len(taken) \in Nat /\ Len(taken) <= Room
        /\ Len(batch \o taken) = Len(batch) + Len(taken)
        /\ taken = <<>> => batch \o taken = batch
        /\ \A i \in 1 .. Len(taken) : taken[i] = segments[m + i - 1]
    BY <2>9, Zenon DEF Takes
  <2>2. taken # <<>> =>
           /\ 1 <= Len(taken) /\ m + Len(taken) - 1 \in 1 .. Len(segments)
           /\ m + Len(taken) - 1 <= Len(segments)
           /\ Last(taken) = segments[m + Len(taken) - 1]
           /\ batch \o taken # <<>> /\ Last(batch \o taken) = Last(taken)
    BY <2>9, Zenon DEF Takes
  <2>3. /\ Len(usable) <= Room =>
              taken # <<>> /\ m + Len(taken) - 1 = Len(segments)
        /\ ~(Len(usable) <= Room) => (0 < Len(batch) + Room => batch \o taken # <<>>)
    BY <2>9, Zenon DEF Takes
  <2>4. Len(batch \o taken) <= request.maximum /\ 0 < Len(batch) + Room
    BY <2>1, <1>2, <1>9
  <2>5. ASSUME taken # <<>>
        PROVE  /\ Tells(book, request, batch \o taken, EndOf(Last(taken)))
               /\ EndOf(Last(taken)) = <<leaf.block, ends[m + Len(taken) - 1]>>
    <3>1. 1 <= Len(taken) /\ m + Len(taken) - 1 <= Len(ends) /\ m \in 1 .. Len(ends)
      BY <2>2, <2>5, <1>7
    <3>3. ASSUME NEW n \in 1 .. Len(ends), n < m
          PROVE  segments[n].block = request.start[1] /\ segments[n].to <= request.start[2]
      <4>1. ~AtOrAfterStart(segments[n]) BY <3>3, <1>7, <1>12
      <4>2. segments[n].to \in Nat
        <5>1. segments[n].to = ends[n] BY <3>3, <1>6 DEF Cuts
        <5>2. ends[n] \in Nat BY <3>3, <1>5 DEF Increasing
        <5> QED BY <5>1, <5>2
      <4>3. request.start[2] \in Nat BY <1>2, <1>3, PositionIs
      <4> QED BY <4>1, <4>2, <4>3 DEF AtOrAfterStart
    <3>4. Wanted(request, segments, m) /\ FromThere(segments, m, taken)
      <4>1. segments[m].block # request.start[1] \/ segments[m].to > request.start[2]
        BY <1>12 DEF AtOrAfterStart
      <4> QED BY <4>1, <3>3, <1>7, <2>1 DEF Wanted, FromThere
    <3>5. /\ LeafOf(book, leaf) /\ Tells(book, request, batch, StartOf(leaf))
          /\ Increasing(leaf, ends) /\ request.start \in Positions(book)
      BY <1>1, <1>2, <1>5
    <3> HIDE DEF Cuts
    <3> QED
      BY <3>1, <3>4, <3>5, <2>0, <2>1, <1>3, <1>6, <1>10, TellsMore, SMTT(60)
  <2>6. ASSUME taken # <<>>
        PROVE  /\ Last(taken).block = leaf.block
               /\ Last(taken).to \in Nat
               /\ leaf.from < Last(taken).to /\ Last(taken).to <= leaf.to
    <3>1. m + Len(taken) - 1 \in 1 .. Len(ends) BY <2>2, <2>6, <1>7
    <3>2. Last(taken) = segments[m + Len(taken) - 1] BY <2>2, <2>6
    <3>3. Last(taken).block = leaf.block /\ Last(taken).to = ends[m + Len(taken) - 1]
      BY <3>1, <3>2, <1>6 DEF Cuts
    <3>4. \A n \in 1 .. Len(ends) : ends[n] \in Nat /\ leaf.from < ends[n] /\ ends[n] <= leaf.to
      BY <1>5 DEF Increasing
    <3> QED BY <3>1, <3>3, <3>4
  <2>7. ASSUME Len(usable) <= Room
        PROVE  Tells(book, request, batch \o taken, <<leaf.block, next>>)
    <3>1. taken # <<>> /\ m + Len(taken) - 1 = Len(ends) BY <2>3, <2>7, <1>7
    <3>2. m + Len(taken) - 1 \in 1 .. Len(ends) BY <2>2, <3>1, <1>7
    <3>3. ends # <<>> BY <3>2, <1>7
    <3> QED BY <3>1, <3>3, <2>5, <1>5
  <2>8. Len(usable) > Room => ~(Len(usable) <= Room)
    <3>1. Len(usable) \in Nat BY <2>0
    <3> HIDE DEF Room
    <3> QED BY <3>1, <2>0
  <2> QED BY <2>1, <2>2, <2>3, <2>4, <2>5, <2>6, <2>7, <2>8, Zenon
<1> QED
  <2>1. CASE \E m \in 1 .. Len(segments) :
            /\ AtOrAfterStart(segments[m])
            /\ \A n \in 1 .. Len(segments) : n < m => ~AtOrAfterStart(segments[n])
            /\ usable \in Seq(Segments)
            /\ Rest(segments, m, usable)
    BY <2>1, <1>12 DEF leaf, next, TakesOfLeaf
  <2> QED BY <2>1, <1>8, <1>11

\* The end of the last segment is after those of the others.
LEMMA LastEndsLast ==
    ASSUME NEW text \in Seq(Seq(Kinds)), NEW r, r.start \in Positions(text),
           NEW p \in Positions(text), NEW S, NEW segments \in Seq(S), segments # <<>>,
           Tells(text, r, segments, p),
           NEW last, last = Last(segments)
    PROVE  /\ Sound(text, r, last) /\ EndOf(last) \in Positions(text)
           /\ ~Before(p, EndOf(last)) /\ last.block \in Nat /\ last.to \in Nat
           /\ \A n \in DOMAIN segments : ~Before(EndOf(last), EndOf(segments[n]))
           /\ Tells(text, r, segments, EndOf(last))
           /\ \/ EndOf(last) = p \/ last.to = Length(text, last.block)
              \/ SilentAt(text, EndOf(last))
<1>1. Len(segments) \in DOMAIN segments /\ last = segments[Len(segments)]
      /\ DOMAIN segments = 1 .. Len(segments) /\ Len(segments) \in Nat
  BY DEF Last
<1>2. /\ Sound(text, r, last) /\ ~Before(p, EndOf(last))
      /\ last.block \in Nat /\ last.from \in Nat /\ last.to \in Nat
  BY <1>1, TellsSound
<1>3. EndOf(last) \in Positions(text)
  BY <1>2, IsPosition DEF Sound, EndOf
<1>4. ASSUME NEW n \in DOMAIN segments PROVE ~Before(EndOf(last), EndOf(segments[n]))
  <2>1. /\ segments[n].block \in Nat /\ segments[n].to \in Nat BY TellsSound
  <2>2. CASE n = Len(segments) BY <2>2, <1>1, <1>2 DEF EndOf, Before
  <2>3. CASE n # Len(segments)
    <3>1. n < Len(segments) BY <2>3, <1>1
    <3>2. ~Before(StartOf(last), EndOf(segments[n])) BY <3>1, <1>1 DEF Tells
    <3>3. last.from < last.to BY <1>2 DEF Sound
    <3> QED BY <2>1, <3>2, <3>3, <1>2 DEF StartOf, EndOf, Before
  <2> QED BY <2>2, <2>3
<1>5. Tells(text, r, segments, EndOf(last))
  BY <1>2, <1>3, <1>4, TellsBefore
<1>6. \/ EndOf(last) = p \/ last.to = Length(text, last.block)
      \/ SilentAt(text, EndOf(last))
  <2> DEFINE q == EndOf(last)
  <2> SUFFICES ASSUME q # p, last.to # Length(text, last.block), ~SilentAt(text, q)
               PROVE  FALSE
    OBVIOUS
  <2>1. q[1] = last.block /\ q[2] = last.to /\ q = <<last.block, last.to>> BY DEF EndOf
  <2>2. last.block \in Blocks(text) /\ last.to <= Length(text, last.block) BY <1>2 DEF Sound
  <2>3. Length(text, last.block) \in Nat BY <2>2 DEF Length, Blocks
  <2>4. q \in Units(text) BY <2>1, <2>2, <2>3, <1>2, UnitIs
  <2>5. q \in Utterances(text) BY <2>1, <2>4 DEF Utterances, SilentAt
  <2>6. p[1] \in Nat /\ p[2] \in Nat /\ p = <<p[1], p[2]>> BY PositionIs
  <2>7. Before(q, p) BY <2>1, <2>6, <1>2 DEF Before
  <2>8. ~Before(q, r.start)
    <3>1. r.start[1] \in Nat /\ r.start[2] \in Nat BY PositionIs
    <3>2. Before(r.start, q) BY <1>2 DEF Sound
    <3> QED BY <3>1, <3>2, <2>1, <1>2 DEF Before
  <2>9. PICK n \in DOMAIN segments : Holds(segments[n], q)
    BY <2>5, <2>7, <2>8 DEF Tells
  <2>10. segments[n].block \in Nat /\ segments[n].to \in Nat BY TellsSound
  <2>11. Before(q, EndOf(segments[n])) BY <2>1, <2>9, <2>10 DEF Holds, Before, EndOf
  <2> QED BY <2>11, <1>4
<1> QED BY <1>2, <1>3, <1>4, <1>5, <1>6

-----------------------------------------------------------------------------
(* Answers *)

\* No unit is in two segments.
LEMMA HoldsOnce ==
    ASSUME NEW text, NEW r, NEW p, NEW segments, Tells(text, r, segments, p),
           NEW m \in DOMAIN segments, NEW n \in DOMAIN segments, m < n,
           NEW u, u[2] \in Nat, Holds(segments[m], u), Holds(segments[n], u)
    PROVE  FALSE
<1>1. /\ segments[m].block \in Nat /\ segments[m].to \in Nat
      /\ segments[n].block \in Nat /\ segments[n].from \in Nat
  BY TellsSound
<1>2. ~Before(StartOf(segments[n]), EndOf(segments[m])) BY DEF Tells
<1> QED BY <1>1, <1>2 DEF Holds, Before, StartOf, EndOf

\* A text that is told has every unit in one segment.
LEMMA SaysOnce ==
    ASSUME NEW text \in Seq(Seq(Kinds)), NEW r, NEW p, NEW S, NEW segments \in Seq(S),
           Tells(text, r, segments, p),
           NEW u \in Utterances(text), ~Before(u, r.start), Before(u, p)
    PROVE  Cardinality({n \in DOMAIN segments : Holds(segments[n], u)}) = 1
<1>1. PICK n \in DOMAIN segments : Holds(segments[n], u) BY DEF Tells
<1>2. u[2] \in Nat BY UtteranceIs
<1>3. ASSUME NEW m \in DOMAIN segments, Holds(segments[m], u) PROVE m = n
  <2>1. m \in Nat /\ n \in Nat OBVIOUS
  <2>2. ~(m < n) BY <1>1, <1>2, <1>3, HoldsOnce
  <2>3. ~(n < m) BY <1>1, <1>2, <1>3, HoldsOnce
  <2> QED BY <2>1, <2>2, <2>3
<1>4. {m \in DOMAIN segments : Holds(segments[m], u)} = {n} BY <1>1, <1>3
<1> QED BY <1>4, FS_Singleton

\* What PreparedAsWritten says of an answer.
AsWritten(text, said) ==
    LET start == said.request.start
        segments == said.segments
        end == <<Last(segments).block, Last(segments).to>>
    IN /\ \A u \in Utterances(text) :
             ~Before(u, start) /\ (said.status = "complete" \/ Before(u, end)) =>
                 Cardinality({n \in DOMAIN segments : Holds(segments[n], u)}) = 1
       /\ Len(segments) <= said.request.maximum
       /\ said.status = "batch" => segments # <<>>
       /\ \A n \in DOMAIN segments :
             /\ Before(start, <<segments[n].block, segments[n].to>>)
             /\ said.request.warm =>
                   ~Before(<<segments[n].block, segments[n].from>>, start)
             /\ n > 1 => ~Before(<<segments[n].block, segments[n].from>>,
                                 <<segments[n - 1].block, segments[n - 1].to>>)
       /\ \A n \in DOMAIN segments :
             segments[n].open = Quoted(text, segments[n].block, 0, segments[n].from, FALSE)

\* An answer that tells the text to its end, or to where nothing follows.
LEMMA TellsAll ==
    ASSUME NEW text \in Seq(Seq(Kinds)), NEW said, NEW S, NEW p \in Positions(text),
           said.request.start \in Positions(text),
           said.segments \in Seq(S),
           Tells(text, said.request, said.segments, p),
           Len(said.segments) <= said.request.maximum,
           said.status = "batch" =>
              said.segments # <<>> /\ p = EndOf(Last(said.segments)),
           said.status = "complete" => \A u \in Utterances(text) : Before(u, p),
           said.status \in {"batch", "complete"}
    PROVE  AsWritten(text, said)
<1> DEFINE r == said.request
           s == said.segments
           end == <<Last(s).block, Last(s).to>>
<1>1. end = EndOf(Last(s)) BY DEF EndOf
<1>2. ASSUME NEW u \in Utterances(text), ~Before(u, r.start),
             said.status = "complete" \/ Before(u, end)
      PROVE  Cardinality({n \in DOMAIN s : Holds(s[n], u)}) = 1
  <2>1. Before(u, p) BY <1>1, <1>2
  <2>2. Tells(text, r, s, p) /\ s \in Seq(S) OBVIOUS
  <2> HIDE DEF r, s
  <2> QED BY <2>1, <2>2, <1>2, SaysOnce
<1>3. ASSUME NEW n \in DOMAIN s
      PROVE  /\ Before(r.start, <<s[n].block, s[n].to>>)
             /\ r.warm => ~Before(<<s[n].block, s[n].from>>, r.start)
             /\ s[n].open = Quoted(text, s[n].block, 0, s[n].from, FALSE)
  <2>1. Sound(text, r, s[n]) BY TellsSound
  <2> QED BY <2>1 DEF Sound, StartOf, EndOf
<1>4. ASSUME NEW n \in DOMAIN s, n > 1
      PROVE  ~Before(<<s[n].block, s[n].from>>, <<s[n - 1].block, s[n - 1].to>>)
  <2>1. n - 1 \in DOMAIN s /\ n - 1 < n BY <1>4
  <2>2. ~Before(StartOf(s[n]), EndOf(s[n - 1]))
    BY <2>1, Zenon DEF Tells
  <2> QED BY <2>2 DEF StartOf, EndOf
<1> HIDE DEF r, s, end
<1>5. /\ Len(s) <= r.maximum /\ (said.status = "batch" => s # <<>>)
  BY DEF r, s
<1> QED BY <1>2, <1>3, <1>4, <1>5, Zenon DEF AsWritten, r, s, end

\* The property, as it is said of the said.
LEMMA AsWrittenIs ==
    (PreparedAsWritten')
      <=> (result'.status \in {"batch", "complete"} => AsWritten(book', result'))
BY DEF PreparedAsWritten, SaysEveryUnitOnce, GoesForward, QuotationsAreKnown, AsWritten,
       SpokenUnits, Utterances

Checkpoints == [context : Contexts \union {"none"}, continuation : Places,
                quotation : Quotations, leaf : Places, structural : 0 .. Len(book)]

\* Where the book is the same, so are its places.
LEMMA SameBook ==
    ASSUME book' = book
    PROVE  /\ Places' = Places /\ Quotations' = Quotations /\ Ranges' = Ranges
           /\ Segments' = Segments /\ Requests' = Requests /\ Checkpoints' = Checkpoints
BY DEF Places, Quotations, Ranges, Segments, Requests, Checkpoints

\* What a preparation has in hand, and what is kept of it.
JobTyped ==
    /\ request \in Requests /\ cursor \in Places /\ leaves \subseteq Ranges
    /\ prepared \in Seq(Nat)
    /\ batch \in Seq(Segments) /\ Len(batch) <= BatchMax
    /\ Len(batch) + Len(prepared) <= RetainedMax
    /\ quotation \in Quotations /\ returned \in Quotations

KeptTyped ==
    /\ checkpoint \in Checkpoints
    /\ result \in [status : Answers, request : Requests, segments : Seq(Segments)]

ControlTyped ==
    /\ book \in Books /\ closing \in {"open", "waiting", "archive", "closed"}
    /\ reading \in BOOLEAN /\ aborted \in BOOLEAN /\ sourceEnds \in BOOLEAN
    /\ phase \in {"idle", "visiting", "projecting", "packing", "packed", "settling"}

\* The type invariant, in parts.
LEMMA TypedParts ==
    /\ TypeOK <=> ControlTyped /\ JobTyped /\ KeptTyped
    /\ TypeOK' <=> ControlTyped' /\ JobTyped' /\ KeptTyped'
BY DEF TypeOK, ControlTyped, JobTyped, KeptTyped, Checkpoints

\* A job that is not touched keeps its types.
LEMMA SameJob ==
    ASSUME JobTyped, book' = book,
           UNCHANGED <<request, cursor, leaves, prepared, batch, quotation, returned>>
    PROVE  JobTyped'
BY SameBook DEF JobTyped

\* Where nothing of it is in use the job need not be looked at.
JobInv ==
    /\ Asked /\ Told /\ Known /\ KnownAtEnd /\ CursorNear /\ LeavesNear /\ InWindow
    /\ CutInOrder

\* The invariant, in parts.
LEMMA TextParts ==
    /\ TextInv <=> JobInv /\ Saved /\ Fresh /\ PreparedAsWritten /\ FailsOnlyThere
    /\ TextInv' <=> JobInv' /\ Saved' /\ Fresh' /\ PreparedAsWritten' /\ FailsOnlyThere'
BY DEF TextInv, JobInv

\* A preparation that is not working has nothing to be right about.
LEMMA NotWorking ==
    ASSUME phase' \in {"idle", "settling"} PROVE JobInv'
BY DEF JobInv, Asked, Told, Known, KnownAtEnd, CursorNear, LeavesNear, InWindow, CutInOrder,
       Working, Packs

\* The job goes on as it was, if nothing it goes by is touched.
LEMMA SameText ==
    ASSUME JobInv, UNCHANGED <<book, phase, request, cursor, leaves, prepared, sourceEnds,
                               batch, quotation, returned>>,
           aborted' = FALSE => ~aborted /\ checkpoint' = checkpoint,
           aborted' \in BOOLEAN,
           Working => checkpoint'.continuation = Nowhere
    PROVE  JobInv'
<1>1. Asked' BY DEF JobInv, Asked, Working
<1>2. Told' /\ Known' /\ KnownAtEnd'
  BY DEF JobInv, Told, Known, KnownAtEnd, Working, Packs, Frontier, Current
<1>3. CursorNear' /\ LeavesNear'
  <2>1. CASE aborted' = FALSE
    BY <2>1 DEF JobInv, CursorNear, LeavesNear, Packs
  <2>2. CASE aborted' = TRUE
    BY <2>2 DEF CursorNear, LeavesNear
  <2> QED BY <2>1, <2>2
<1>4. InWindow' /\ CutInOrder'
  BY DEF JobInv, InWindow, CutInOrder, Packs, Current
<1> QED BY <1>1, <1>2, <1>3, <1>4 DEF JobInv

\* An answer stays as it was written.
LEMMA NoAnswerYet ==
    ASSUME PreparedAsWritten, result' = result, book' = book PROVE PreparedAsWritten'
BY DEF PreparedAsWritten, SaysEveryUnitOnce, GoesForward, QuotationsAreKnown, SpokenUnits

\* The end of a preparation without text.
LEMMA Stops ==
    ASSUME TypeOK, TextInv, Working, NEW status, Stop(status),
           status \in {"cancelled", "resource-limit-exceeded"},
           UNCHANGED <<book, closing, reading, aborted, request>>,
           checkpoint' \in Checkpoints, checkpoint'.continuation = Nowhere,
           status = "cancelled" \/ SegmentCut \/ LongSilence \/ DeepSilence
    PROVE  TypeOK' /\ TextInv'
<1>1. /\ phase' = "settling"
      /\ result' = [status |-> status, request |-> request, segments |-> <<>>]
      /\ UNCHANGED <<cursor, leaves, prepared, sourceEnds, batch, quotation, returned>>
  BY DEF Stop, Ends
<1>2. ControlTyped' /\ JobTyped'
  <2>1. ControlTyped' BY <1>1, TypedParts DEF ControlTyped
  <2> QED BY <1>1, <2>1, SameJob, TypedParts
<1>3. KeptTyped'
  <2>1. result' \in [status : Answers, request : Requests, segments : Seq(Segments)]
    <3>1. request \in Requests /\ <<>> \in Seq(Segments) /\ status \in Answers
      BY DEF TypeOK, Answers
    <3> QED BY <1>1, <3>1
  <2> QED BY <2>1, SameBook DEF KeptTyped
<1>4. JobInv' BY <1>1, NotWorking
<1>5. Saved' /\ Fresh' BY <1>1 DEF Saved, Fresh
<1>6. PreparedAsWritten' BY <1>1 DEF PreparedAsWritten
<1>7. FailsOnlyThere'
  BY <1>1 DEF FailsOnlyThere, SegmentCut, LongSilence, DeepSilence
<1> QED BY <1>2, <1>3, <1>4, <1>5, <1>6, <1>7, TypedParts, TextParts

\* The end of one with text.
LEMMA Answering ==
    ASSUME TypeOK, TextInv, Working, NEW status \in {"batch", "complete"}, Ends(status),
           UNCHANGED <<book, closing, reading, aborted, request, cursor, sourceEnds>>,
           leaves' \subseteq Ranges, prepared' = <<>>,
           batch' \in Seq(Segments), Len(batch') <= request.maximum,
           quotation' \in Quotations, returned' \in Quotations,
           checkpoint' \in Checkpoints, Saved',
           NEW p \in Positions(book), Tells(book, request, batch', p),
           status = "batch" => batch' # <<>> /\ p = EndOf(Last(batch')),
           status = "complete" => \A u \in Utterances(book) : Before(u, p)
    PROVE  TypeOK' /\ TextInv'
<1>1. /\ phase' = "settling"
      /\ result' = [status |-> status, request |-> request, segments |-> batch']
  BY DEF Ends
<1>2. /\ book \in Seq(Seq(Kinds)) /\ request \in Requests
      /\ request.start \in Positions(book) /\ request.maximum \in 1 .. BatchMax
  BY BookIs DEF TypeOK, TextInv, Asked
<1>3. ControlTyped' BY <1>1, TypedParts DEF ControlTyped
<1>4. JobTyped'
  <2>1. Len(prepared') = 0 /\ BatchMax \in Nat /\ Len(batch') \in Nat
    BY BatchAssumption
  <2>2. Len(batch') <= BatchMax /\ Len(batch') + Len(prepared') <= RetainedMax
    BY <1>2, <2>1 DEF RetainedMax
  <2>3. prepared' \in Seq(Nat) OBVIOUS
  <2>4. cursor \in Places BY DEF TypeOK
  <2> QED BY <1>2, <2>2, <2>3, <2>4, SameBook DEF JobTyped
<1>5. KeptTyped'
  <2>1. result' \in [status : Answers, request : Requests, segments : Seq(Segments)]
    BY <1>1, <1>2 DEF Answers
  <2> QED BY <2>1, SameBook DEF KeptTyped
<1>6. JobInv' BY <1>1, NotWorking
<1>7. Fresh' /\ FailsOnlyThere' BY <1>1 DEF Fresh, FailsOnlyThere
<1>8. AsWritten(book, result')
  <2> DEFINE a == result'
  <2>1. a.status = status /\ a.request = request /\ a.segments = batch'
    BY <1>1
  <2> HIDE DEF a
  <2> QED BY <1>2, <2>1, TellsAll DEF a
<1>9. PreparedAsWritten' BY <1>8, AsWrittenIs
<1> QED BY <1>3, <1>4, <1>5, <1>6, <1>7, <1>9, TypedParts, TextParts

\* It holds at first, when nothing was prepared.
LEMMA InitTells == Init => TypeOK /\ TextInv
<1> SUFFICES ASSUME Init PROVE TypeOK /\ TextInv
  OBVIOUS
<1>1. book \in Seq(Seq(Kinds)) /\ Len(book) \in Nat
  BY BooksAssumption DEF Init
<1>2. Nowhere \in Places /\ NoQuotation \in Quotations
  BY DEF Places, Quotations, NoQuotation
<1>3. NoRequest \in Requests
  BY <1>2, BatchAssumption DEF Requests, NoRequest
<1>4. NoCheckpoint \in Checkpoints
  BY <1>1, <1>2 DEF Checkpoints, NoCheckpoint
<1>5. NoResult \in [status : Answers, request : Requests, segments : Seq(Segments)]
  BY <1>3 DEF NoResult, Answers
<1>6. ControlTyped BY DEF Init, ControlTyped
<1>7. JobTyped
  <2>1. Len(<<>>) = 0 /\ BatchMax \in Nat BY BatchAssumption
  <2> QED BY <1>2, <1>3, <2>1 DEF Init, JobTyped, RetainedMax
<1>8. KeptTyped BY <1>4, <1>5 DEF Init, KeptTyped
<1>9. TextInv
  <2>1. NoCheckpoint.continuation = Nowhere /\ NoResult.status = "none"
    BY DEF NoCheckpoint, NoResult
  <2> QED
    BY <2>1 DEF Init, TextInv, Asked, Told, Known, KnownAtEnd, Saved, CursorNear, LeavesNear,
       InWindow, CutInOrder, Fresh, PreparedAsWritten, FailsOnlyThere, Working, Packs
<1> QED BY <1>6, <1>7, <1>8, <1>9, TypedParts

\* A request starts at the beginning of its block or, warm, where the checkpoint
\* ended, whose quotation is the one that is taken over.
LEMMA PrepareTells ==
    ASSUME TypeOK, TextInv, NEW start \in Positions(book), NEW c \in Contexts,
           NEW maximum \in 1 .. BatchMax, PrepareNarration(start, c, maximum)
    PROVE  TypeOK' /\ TextInv'
<1> DEFINE warm == Resumes(start, c)
           r == [start |-> start, context |-> c, maximum |-> maximum, warm |-> warm]
           p == FirstCursor(start, warm)
<1>1. /\ phase = "idle" /\ phase' = "visiting" /\ aborted' = FALSE
      /\ request' = r /\ cursor' = p
      /\ quotation' = IF warm THEN checkpoint.quotation ELSE NoQuotation
      /\ checkpoint' = [NoCheckpoint EXCEPT !.context = c,
             !.leaf = IF warm THEN checkpoint.leaf ELSE Nowhere,
             !.structural = IF warm THEN checkpoint.structural ELSE 0]
      /\ result' = NoResult
      /\ UNCHANGED <<book, closing, reading, leaves, prepared, sourceEnds, batch,
                     returned>>
  BY DEF PrepareNarration
<1>2. /\ book \in Seq(Seq(Kinds)) /\ Len(book) \in Nat /\ checkpoint \in Checkpoints
      /\ ~aborted /\ batch = <<>> /\ leaves = {} /\ prepared = <<>>
  BY <1>1, BookIs DEF TypeOK, TextInv, Fresh, Checkpoints
<1>3. warm => checkpoint.continuation = start /\ checkpoint.continuation # Nowhere
  BY DEF Resumes
<1>4. warm \in BOOLEAN BY DEF Resumes
<1>5. /\ start = <<start[1], start[2]>> /\ start[1] \in Blocks(book) /\ start[1] \in Nat
      /\ start[2] \in Nat /\ start[2] <= Length(book, start[1]) /\ 1 <= start[1]
  BY <1>2, PositionIs
<1>6. Length(book, start[1]) \in Nat BY <1>2, <1>5 DEF Length, Blocks
<1>7. /\ p \in Positions(book) /\ p[1] = start[1] /\ p[2] \in Nat
      /\ ~Before(start, p) /\ (warm => p = start)
      /\ ~warm => p[2] = 0 \/ p[2] = Length(book, p[1])
  <2>1. CASE ~warm /\ 0 < start[2] /\ start[2] < Length(book, start[1])
    <3>1. p = <<start[1], 0>> BY <2>1 DEF FirstCursor
    <3>2. 0 \in Nat /\ 0 <= Length(book, start[1]) BY <1>6
    <3>3. p \in Positions(book) BY <3>1, <3>2, <1>2, <1>5, IsPosition, SMTT(30)
    <3> QED BY <3>1, <3>3, <2>1, <1>5 DEF Before
  <2>2. CASE ~(~warm /\ 0 < start[2] /\ start[2] < Length(book, start[1]))
    <3>1. p = start BY <2>2 DEF FirstCursor
    <3> QED BY <3>1, <2>2, <1>5, <1>6 DEF Before
  <2> QED BY <2>1, <2>2
<1> HIDE DEF p, warm
<1>8. Nowhere \in Places /\ p \in Places /\ start \in Places BY <1>7 DEF Places
<1>9. r \in Requests /\ NoRequest \in Requests
  BY <1>4, <1>8, BatchAssumption DEF Requests, NoRequest
<1>10. /\ quotation' \in Quotations
       /\ checkpoint'.leaf = (IF warm THEN checkpoint.leaf ELSE Nowhere)
       /\ checkpoint'.continuation = Nowhere
       /\ checkpoint' \in Checkpoints
  <2>1. NoQuotation \in Quotations BY <1>8 DEF Quotations, NoQuotation
  <2>2. /\ checkpoint.leaf \in Places /\ checkpoint.structural \in 0 .. Len(book)
        /\ checkpoint.quotation \in Quotations /\ 0 \in 0 .. Len(book)
    BY <1>2 DEF Checkpoints
  <2>3. checkpoint' = [context |-> c, continuation |-> Nowhere, quotation |-> NoQuotation,
                       leaf |-> IF warm THEN checkpoint.leaf ELSE Nowhere,
                       structural |-> IF warm THEN checkpoint.structural ELSE 0]
    BY <1>1 DEF NoCheckpoint
  <2>4. checkpoint' \in Checkpoints
    BY <2>1, <2>2, <2>3, <1>8 DEF Checkpoints
  <2> QED BY <2>1, <2>2, <2>3, <2>4, <1>1
<1>11. KeptTyped'
  <2>1. NoResult \in [status : Answers, request : Requests, segments : Seq(Segments)]
    BY <1>9 DEF NoResult, Answers
  <2> QED BY <2>1, <1>1, <1>10, SameBook DEF KeptTyped
<1>12. JobTyped'
  <2>1. /\ leaves \subseteq Ranges /\ prepared \in Seq(Nat)
        /\ batch \in Seq(Segments) /\ Len(batch) <= BatchMax
        /\ Len(batch) + Len(prepared) <= RetainedMax /\ returned \in Quotations
    BY DEF TypeOK
  <2> QED BY <2>1, <1>1, <1>8, <1>9, <1>10, SameBook DEF JobTyped
<1>13. ControlTyped' BY <1>1, TypedParts DEF ControlTyped
<1>14. /\ request'.start = start /\ request'.context = c /\ request'.maximum = maximum
       /\ request'.warm = warm
  BY <1>1
<1>15. Asked'
  <2>1. Len(batch') = 0 BY <1>1, <1>2
  <2>2. warm => ~Before(p, start) BY <1>7
  <2> QED BY <1>1, <1>5, <1>7, <1>10, <1>14, <2>1, <2>2 DEF Asked
<1>16. Told'
  <2>1. Tells(book, request', <<>>, p) BY <1>2, <1>7, <1>14, TellsNothing
  <2>2. Frontier' = p BY <1>1 DEF Frontier, Packs
  <2> QED BY <1>1, <1>2, <2>1, <2>2 DEF Told
<1>17. warm => /\ Right(book, checkpoint.quotation)
               /\ checkpoint.quotation.at = start
               /\ Near(book, checkpoint.leaf, start) \/ SilentAt(book, start)
  BY <1>2, <1>3 DEF TextInv, Saved
<1>18. Known'
  <2>1. Frontier' = p BY <1>1 DEF Frontier, Packs
  <2>2. Right(book, quotation') BY <1>1, <1>17 DEF Right, NoQuotation
  <2>3. warm => quotation'.at = p BY <1>1, <1>7, <1>17
  <2> QED BY <2>1, <2>2, <2>3, <1>1, <1>7 DEF Known, Packs
<1>19. KnownAtEnd' BY <1>1, <1>2 DEF KnownAtEnd
<1>20. CursorNear'
  <2>1. CASE warm
    BY <2>1, <1>1, <1>7, <1>10, <1>14, <1>17 DEF CursorNear
  <2>2. CASE ~warm
    <3>1. Near(book, Nowhere, p)
      <4>1. Window \in Nat /\ 0 <= Window BY TextAssumption
      <4>2. Nowhere[1] = 0 BY DEF Nowhere
      <4> QED BY <4>1, <4>2, <2>2, <1>5, <1>7 DEF Near
    <3> QED BY <3>1, <2>2, <1>1, <1>10 DEF CursorNear
  <2> QED BY <2>1, <2>2
<1>21. LeavesNear' /\ InWindow' /\ CutInOrder'
  BY <1>1 DEF LeavesNear, InWindow, CutInOrder, Packs
<1>22. Saved' BY <1>10 DEF Saved
<1>23. Fresh' BY <1>1, <1>2 DEF Fresh
<1>24. PreparedAsWritten' /\ FailsOnlyThere'
  BY <1>1 DEF PreparedAsWritten, FailsOnlyThere, NoResult
<1> QED
  BY <1>11, <1>12, <1>13, <1>15, <1>16, <1>18, <1>19, <1>20, <1>21, <1>22, <1>23, <1>24,
     TypedParts, TextParts DEF JobInv

\* The target of a traversal is where the cursor is, or the traversal ends.
LEMMA VisitTells == ASSUME TypeOK, TextInv, VisitTarget PROVE TypeOK' /\ TextInv'
<1>1. /\ phase = "visiting" /\ Working
      /\ UNCHANGED <<book, closing, reading, aborted, request>>
  BY DEF VisitTarget, Working
<1>2. /\ book \in Seq(Seq(Kinds)) /\ cursor \in Positions(book)
      /\ checkpoint \in Checkpoints /\ checkpoint.continuation = Nowhere
  BY <1>1, BookIs DEF TypeOK, Checkpoints, TextInv, Asked
<1>3. cursor[1] \in Nat /\ 1 <= cursor[1] /\ cursor[1] \in 0 .. Len(book)
  BY <1>2, PositionIs DEF Blocks
<1>4. ~(TraversalStart(cursor[1]) > cursor[1])
  <2>1. checkpoint.structural \in Nat BY <1>2 DEF Checkpoints
  <2> QED BY <2>1, <1>3 DEF TraversalStart
<1>5. CASE Stop("cancelled") /\ UNCHANGED checkpoint
  BY <1>1, <1>2, <1>5, Stops
<1>6. CASE /\ phase' = "projecting"
           /\ checkpoint' = [checkpoint EXCEPT !.structural = cursor[1]]
           /\ UNCHANGED <<cursor, leaves, prepared, sourceEnds, batch, quotation, returned,
                          result>>
  <2>1. /\ checkpoint' \in Checkpoints /\ checkpoint'.continuation = Nowhere
        /\ checkpoint'.leaf = checkpoint.leaf
    BY <1>2, <1>3, <1>6 DEF Checkpoints
  <2>2. KeptTyped' BY <2>1, <1>1, <1>6, SameBook DEF KeptTyped, TypeOK
  <2>3. ControlTyped' BY <1>1, <1>6, TypedParts DEF ControlTyped
  <2>4. JobTyped' BY <1>1, <1>6, SameJob, TypedParts
  <2>5. Asked' BY <1>1, <1>6, <2>1 DEF TextInv, Asked, Working
  <2>6. Told' BY <1>1, <1>6 DEF TextInv, Told, Working, Frontier, Packs
  <2>7. Known' BY <1>1, <1>6 DEF TextInv, Known, Working, Frontier, Packs
  <2>8. KnownAtEnd' BY <1>1, <1>6 DEF TextInv, KnownAtEnd, Working
  <2>9. CursorNear' BY <1>1, <1>6, <2>1 DEF TextInv, CursorNear
  <2>10. LeavesNear' /\ InWindow' /\ CutInOrder'
    BY <1>6 DEF LeavesNear, InWindow, CutInOrder, Packs
  <2>11. Saved' BY <2>1 DEF Saved
  <2>12. Fresh' BY <1>1, <1>6 DEF TextInv, Fresh
  <2>13. PreparedAsWritten' BY <1>1, <1>6, NoAnswerYet DEF TextInv
  <2>14. FailsOnlyThere' BY <1>6 DEF FailsOnlyThere
  <2> QED
    BY <2>2, <2>3, <2>4, <2>5, <2>6, <2>7, <2>8, <2>9, <2>10, <2>11, <2>12, <2>13, <2>14,
       TypedParts, TextParts DEF JobInv
<1> QED BY <1>4, <1>5, <1>6 DEF VisitTarget

\* The rest of them touch no text.
LEMMA KeptAsItWas ==
    ASSUME KeptTyped, book' = book, UNCHANGED <<checkpoint, result>> PROVE KeptTyped'
BY SameBook DEF KeptTyped

\* Reads and the archive.
LEMMA ReadTells ==
    ASSUME TypeOK, TextInv, StartRead \/ EndRead \/ CloseArchive \/ ArchiveCloses
    PROVE  TypeOK' /\ TextInv'
<1>1. /\ UNCHANGED <<book, phase, aborted, request, cursor, leaves, prepared, sourceEnds,
                     batch, quotation, returned, checkpoint, result>>
      /\ reading' \in BOOLEAN /\ closing' \in {"open", "waiting", "archive", "closed"}
  BY DEF StartRead, EndRead, CloseArchive, ArchiveCloses, jobVars, TypeOK
<1>2. ControlTyped' /\ JobTyped' /\ KeptTyped'
  BY <1>1, SameJob, KeptAsItWas, TypedParts DEF ControlTyped
<1>3. aborted \in BOOLEAN /\ (Working => checkpoint.continuation = Nowhere)
  BY DEF TypeOK, TextInv, Asked
<1>4. JobInv' BY <1>1, <1>3, SameText, TextParts
<1>5. Saved' /\ Fresh' BY <1>1 DEF TextInv, Saved, Fresh
<1>6. PreparedAsWritten' BY <1>1, NoAnswerYet DEF TextInv
<1>7. FailsOnlyThere'
  BY <1>1 DEF TextInv, FailsOnlyThere, SegmentCut, LongSilence, DeepSilence
<1> QED BY <1>2, <1>4, <1>5, <1>6, <1>7, TypedParts, TextParts

\* After an abort nothing is saved any more.
LEMMA AbortTells == ASSUME TypeOK, TextInv, Abort PROVE TypeOK' /\ TextInv'
<1>1. /\ UNCHANGED <<book, closing, reading, phase, request, cursor, leaves, prepared,
                     sourceEnds, batch, quotation, returned, checkpoint, result>>
      /\ aborted' = TRUE /\ phase # "idle"
  BY DEF Abort, jobVars
<1>2. ControlTyped' /\ JobTyped' /\ KeptTyped'
  BY <1>1, SameJob, KeptAsItWas, TypedParts DEF ControlTyped
<1>3. Working => checkpoint.continuation = Nowhere
  BY DEF TextInv, Asked
<1>4. JobInv' BY <1>1, <1>3, SameText, TextParts
<1>5. Saved' /\ Fresh' BY <1>1 DEF TextInv, Saved, Fresh
<1>6. PreparedAsWritten' BY <1>1, NoAnswerYet DEF TextInv
<1>7. FailsOnlyThere'
  BY <1>1 DEF TextInv, FailsOnlyThere, SegmentCut, LongSilence, DeepSilence
<1> QED BY <1>2, <1>4, <1>5, <1>6, <1>7, TypedParts, TextParts

\* What is left of a checkpoint that is forgotten.
LEMMA ForgottenIs ==
    ASSUME checkpoint \in Checkpoints, Len(book) \in Nat
    PROVE  Forgotten(checkpoint) \in Checkpoints /\ Forgotten(checkpoint).continuation = Nowhere
<1>1. Nowhere \in Places /\ 0 \in 0 .. Len(book) BY DEF Places
<1>2. Forgotten(checkpoint) =
         [checkpoint EXCEPT !.continuation = Nowhere, !.leaf = Nowhere, !.structural = 0]
  BY DEF Forgotten
<1> QED BY <1>1, <1>2 DEF Checkpoints

\* Close forgets, and aborts.
LEMMA CloseTells == ASSUME TypeOK, TextInv, Close PROVE TypeOK' /\ TextInv'
<1>1. /\ UNCHANGED <<book, reading, phase, request, cursor, leaves, prepared,
                     sourceEnds, batch, quotation, returned, result>>
      /\ closing' = "waiting" /\ aborted' = (phase # "idle")
      /\ checkpoint' = Forgotten(checkpoint)
  BY DEF Close, jobVars
<1>2. checkpoint' \in Checkpoints /\ checkpoint'.continuation = Nowhere
  <2>1. checkpoint \in Checkpoints /\ Len(book) \in Nat BY BookIs DEF TypeOK, Checkpoints
  <2> QED BY <2>1, <1>1, ForgottenIs
<1>3. aborted' \in BOOLEAN BY <1>1
<1>4. ControlTyped' BY <1>1, <1>3, TypedParts DEF ControlTyped
<1>5. JobTyped' BY <1>1, SameJob, TypedParts
<1>6. KeptTyped' BY <1>1, <1>2, SameBook DEF KeptTyped, TypeOK
<1>7. JobInv'
  <2>1. CASE phase = "idle" BY <2>1, <1>1, NotWorking
  <2>2. CASE phase # "idle"
    <3>1. aborted' = TRUE BY <2>2, <1>1
    <3> QED BY <3>1, <1>1, <1>2, SameText, TextParts
  <2> QED BY <2>1, <2>2
<1>8. Saved' BY <1>2 DEF Saved
<1>9. Fresh' BY <1>1 DEF TextInv, Fresh
<1>10. PreparedAsWritten' BY <1>1, NoAnswerYet DEF TextInv
<1>11. FailsOnlyThere'
  BY <1>1 DEF TextInv, FailsOnlyThere, SegmentCut, LongSilence, DeepSilence
<1> QED BY <1>4, <1>5, <1>6, <1>7, <1>8, <1>9, <1>10, <1>11, TypedParts, TextParts

\* What is delivered is what was prepared, or nothing.
LEMMA SettleTells == ASSUME TypeOK, TextInv, Settle PROVE TypeOK' /\ TextInv'
<1>1. /\ phase' = "idle" /\ aborted' = FALSE
      /\ checkpoint' = IF aborted \/ result.status \notin {"batch", "complete"}
                       THEN Forgotten(checkpoint) ELSE checkpoint
      /\ result' = [result EXCEPT !.status = Delivered(@),
                                  !.segments = IF aborted THEN <<>> ELSE @]
      /\ request' = NoRequest /\ cursor' = Nowhere /\ leaves' = {}
      /\ prepared' = <<>> /\ sourceEnds' = FALSE /\ batch' = <<>>
      /\ quotation' = NoQuotation /\ returned' = NoQuotation
      /\ UNCHANGED <<book, closing, reading>>
  BY DEF Settle
<1>2. /\ checkpoint \in Checkpoints /\ Len(book) \in Nat /\ aborted \in BOOLEAN
      /\ result \in [status : Answers, request : Requests, segments : Seq(Segments)]
  BY BookIs DEF TypeOK, Checkpoints
<1>3. Nowhere \in Places /\ NoQuotation \in Quotations
  BY DEF Places, Quotations, NoQuotation
<1>4. NoRequest \in Requests BY <1>3, BatchAssumption DEF Requests, NoRequest
<1>5. ControlTyped' BY <1>1, TypedParts DEF ControlTyped
<1>6. JobTyped'
  <2>1. Len(<<>>) = 0 /\ BatchMax \in Nat BY BatchAssumption
  <2> QED BY <1>1, <1>3, <1>4, <2>1, SameBook DEF JobTyped, RetainedMax
<1>7. checkpoint' \in Checkpoints BY <1>1, <1>2, ForgottenIs
<1>8. /\ aborted => result'.status = "cancelled"
      /\ ~aborted => result' = result
      /\ result' \in [status : Answers, request : Requests, segments : Seq(Segments)]
  <2>1. <<>> \in Seq(Segments) /\ "cancelled" \in Answers BY DEF Answers
  <2> QED BY <2>1, <1>1, <1>2 DEF Delivered
<1>9. KeptTyped' BY <1>1, <1>7, <1>8, SameBook DEF KeptTyped
<1>10. JobInv' BY <1>1, NotWorking
<1>11. Saved'
  <2>1. CASE aborted \/ result.status \notin {"batch", "complete"}
    <3>1. checkpoint'.continuation = Nowhere BY <2>1, <1>1, <1>2, ForgottenIs
    <3> QED BY <3>1 DEF Saved
  <2>2. CASE ~(aborted \/ result.status \notin {"batch", "complete"})
    BY <2>2, <1>1 DEF TextInv, Saved
  <2> QED BY <2>1, <2>2
<1>12. Fresh' BY <1>1 DEF Fresh
<1>13. PreparedAsWritten'
  <2>1. CASE aborted BY <2>1, <1>8 DEF PreparedAsWritten
  <2>2. CASE ~aborted BY <2>2, <1>1, <1>8, NoAnswerYet DEF TextInv
  <2> QED BY <2>1, <2>2
<1>14. FailsOnlyThere' BY <1>1 DEF FailsOnlyThere
<1> QED BY <1>5, <1>6, <1>9, <1>10, <1>11, <1>12, <1>13, <1>14, TypedParts, TextParts

\* What is not before a place follows it.
LEMMA UtteranceFrom ==
    ASSUME NEW text \in Seq(Seq(Kinds)), NEW p, NEW u \in Utterances(text), ~Before(u, p)
    PROVE  u \in From(text, p)
BY UtteranceIs DEF From

\* What is known of the next leaf of a window after block b.
IsNext(text, p, b, rest, next) ==
    /\ next \in rest /\ LeafOf(text, next) /\ next.block \in WindowBlocks(text, p)
    /\ next.from = Entry(next.block, p) /\ next.to - next.from <= Window
    /\ p[1] <= next.block /\ b < next.block /\ ~Before(StartOf(next), p)
    /\ next.block \in Nat /\ next.from \in Nat /\ next.to \in Nat
    /\ StartOf(next) \in Positions(text)
    /\ rest \ {next} = {leaf \in WindowLeaves(text, p) : next.block < leaf.block}
    /\ \A u \in Utterances(text) :
          ~Before(u, p) /\ b < u[1] => ~Before(u, StartOf(next))

\* The leaf of a window that comes after a block, or first.
LEMMA NextInWindow ==
    ASSUME NEW text \in Seq(Seq(Kinds)), NEW p \in Positions(text),
           NEW b \in Int, p[1] - 1 <= b,
           NEW rest, rest = {leaf \in WindowLeaves(text, p) : b < leaf.block}, rest # {},
           NEW next, next = First(rest)
    PROVE  IsNext(text, p, b, rest, next)
<1> DEFINE W == WindowLeaves(text, p)
<1>1. \A leaf \in rest : leaf \in W /\ leaf.block \in Nat
  <2> SUFFICES ASSUME NEW leaf \in rest PROVE leaf \in W /\ leaf.block \in Nat
    OBVIOUS
  <2>1. leaf \in W OBVIOUS
  <2>2. leaf.block \in Blocks(text) BY <2>1, WindowIs
  <2> QED BY <2>1, <2>2 DEF Blocks
<1>2. next \in rest /\ \A leaf \in rest : next.block <= leaf.block
  BY <1>1, FirstIs
<1>3. next \in W /\ b < next.block BY <1>2
<1>4. /\ next \in [block : Blocks(text), from : Nat, to : Nat]
      /\ next.block \in WindowBlocks(text, p) /\ p[1] <= next.block
      /\ next.from = Entry(next.block, p) /\ next.from < next.to
      /\ next.to <= Length(text, next.block) /\ next.to - next.from <= Window
      /\ \A other \in W : other.block = next.block => other = next
  BY <1>3, WindowIs
<1>5. /\ next.block \in Blocks(text) /\ next.block \in Nat /\ next.from \in Nat /\ next.to \in Nat
      /\ LeafOf(text, next)
  <2>1. next.block \in Blocks(text) /\ next.from \in Nat /\ next.to \in Nat BY <1>4
  <2> QED BY <2>1, <1>4 DEF LeafOf, Blocks
<1>6. /\ p[1] \in Nat /\ p[2] \in Nat /\ p = <<p[1], p[2]>> BY PositionIs
<1>7. ~Before(StartOf(next), p)
  BY <1>4, <1>5, <1>6 DEF Before, StartOf, Entry
<1>8. StartOf(next) \in Positions(text)
  <2>1. Length(text, next.block) \in Nat BY <1>5 DEF Length, Blocks
  <2>2. next.from <= Length(text, next.block) BY <2>1, <1>4, <1>5
  <2> QED BY <2>2, <1>5, IsPosition DEF StartOf
<1>9. rest \ {next} = {leaf \in W : next.block < leaf.block}
  <2>1. ASSUME NEW leaf \in rest \ {next} PROVE leaf \in W /\ next.block < leaf.block
    <3>1. leaf \in W /\ leaf.block \in Nat /\ next.block <= leaf.block /\ leaf # next
      BY <2>1, <1>1, <1>2
    <3>2. leaf.block # next.block BY <3>1, <1>4
    <3> QED BY <3>1, <3>2, <1>5
  <2>2. ASSUME NEW leaf \in W, next.block < leaf.block PROVE leaf \in rest \ {next}
    <3>1. leaf.block \in Nat
      <4>1. leaf.block \in Blocks(text) BY WindowIs
      <4> QED BY <4>1 DEF Blocks
    <3>2. b < leaf.block /\ leaf # next BY <3>1, <2>2, <1>3, <1>5
    <3> QED BY <3>2
  <2> HIDE DEF W
  <2> QED BY <2>1, <2>2
<1>10. ASSUME NEW u \in Utterances(text), ~Before(u, p), b < u[1]
       PROVE  ~Before(u, StartOf(next))
  <2>1. u[1] \in Nat /\ u[2] \in Nat BY UtteranceIs
  <2>2. u \in From(text, p) BY <1>10, UtteranceFrom
  <2>3. ~(u[1] < next.block)
    <3> SUFFICES ASSUME u[1] < next.block PROVE FALSE
      OBVIOUS
    <3>1. u[1] \in WindowBlocks(text, p) BY <2>1, <2>2, <1>4, <1>5, WindowHolds
    <3>2. \E leaf \in W : leaf.block = u[1]
      <4> DEFINE leaf == [block |-> u[1], from |-> Entry(u[1], p),
                          to |-> Min({Length(text, u[1]),
                                      Entry(u[1], p) + Window - Ahead(text, p, u[1])})]
      <4>1. leaf \in W BY <3>1, Zenon DEF WindowLeaves
      <4>2. leaf.block = u[1] OBVIOUS
      <4> HIDE DEF leaf, W
      <4> QED BY <4>1, <4>2
    <3>3. PICK leaf \in W : leaf.block = u[1] BY <3>2
    <3>4. leaf \in rest BY <3>3, <1>10
    <3> QED BY <3>3, <3>4, <1>2, <2>1, <1>5
  <2>4. u[1] = next.block => next.from <= u[2]
    BY <2>1, <1>4, <1>6, <1>10 DEF Before, Entry
  <2> QED BY <2>1, <2>3, <2>4, <1>5 DEF Before, StartOf
<1> HIDE DEF W
<1> QED BY <1>2, <1>3, <1>4, <1>5, <1>7, <1>8, <1>9, <1>10 DEF W, IsNext

\* The whole window.
LEMMA FirstInWindow ==
    ASSUME NEW text \in Seq(Seq(Kinds)), NEW p \in Positions(text),
           NEW W, W = WindowLeaves(text, p), W # {}, NEW first, first = First(W)
    PROVE  /\ first \in W /\ LeafOf(text, first) /\ first.block \in WindowBlocks(text, p)
           /\ first.from = Entry(first.block, p) /\ first.to - first.from <= Window
           /\ p[1] <= first.block /\ ~Before(StartOf(first), p)
           /\ first.block \in Nat /\ first.from \in Nat /\ first.to \in Nat
           /\ StartOf(first) \in Positions(text)
           /\ W \ {first} = {leaf \in W : first.block < leaf.block}
           /\ \A u \in Utterances(text) : ~Before(u, p) => ~Before(u, StartOf(first))
<1> DEFINE b == p[1] - 1
           rest == {leaf \in WindowLeaves(text, p) : b < leaf.block}
<1>1. p[1] \in Nat /\ p[2] \in Nat BY PositionIs
<1>2. rest = W
  <2>1. \A leaf \in W : b < leaf.block
    <3> SUFFICES ASSUME NEW leaf \in W PROVE b < leaf.block
      OBVIOUS
    <3>1. leaf.block \in Blocks(text) /\ p[1] <= leaf.block BY WindowIs
    <3>2. leaf.block \in Nat BY <3>1 DEF Blocks
    <3> QED BY <3>1, <3>2, <1>1
  <2> QED BY <2>1
<1>3. b \in Int /\ p[1] - 1 <= b BY <1>1
<1>4. \A u \in Utterances(text) : ~Before(u, p) => b < u[1]
  <2> SUFFICES ASSUME NEW u \in Utterances(text), ~Before(u, p) PROVE b < u[1]
    OBVIOUS
  <2>1. u[1] \in Nat BY UtteranceIs
  <2> QED BY <2>1, <1>1 DEF Before
<1> HIDE DEF b
<1>5. /\ first \in rest /\ LeafOf(text, first) /\ first.block \in WindowBlocks(text, p)
      /\ first.from = Entry(first.block, p) /\ first.to - first.from <= Window
      /\ p[1] <= first.block /\ ~Before(StartOf(first), p)
      /\ first.block \in Nat /\ first.from \in Nat /\ first.to \in Nat
      /\ StartOf(first) \in Positions(text)
      /\ rest \ {first} = {leaf \in WindowLeaves(text, p) : first.block < leaf.block}
      /\ \A u \in Utterances(text) :
            ~Before(u, p) /\ b < u[1] => ~Before(u, StartOf(first))
  <2>1. rest # {} /\ first = First(rest) BY <1>2
  <2>2. rest = {leaf \in WindowLeaves(text, p) : b < leaf.block} OBVIOUS
  <2> HIDE DEF rest
  <2>3. IsNext(text, p, b, rest, first) BY <2>1, <2>2, <1>3, NextInWindow
  <2> QED BY <2>3, Zenon DEF IsNext
<1> HIDE DEF rest
<1> QED BY <1>2, <1>4, <1>5

\* The leaves of a window, as the invariant wants them.
LEMMA LeavesTyped ==
    ASSUME book \in Seq(Seq(Kinds)), NEW p \in Positions(book)
    PROVE  WindowLeaves(book, p) \subseteq Ranges
BY WindowIs DEF Ranges

\* Silence is passed over, the source ends, or a window begins: with the leaf the
\* cursor is in, or the first with text, and no text between.
LEMMA ProjectTells == ASSUME TypeOK, TextInv, ProjectWindow PROVE TypeOK' /\ TextInv'
<1> DEFINE window == WindowLeaves(book, cursor)
           first == First(window)
<1>1. /\ phase = "projecting" /\ Working /\ ~Packs /\ Frontier = cursor
      /\ UNCHANGED <<book, closing, reading, aborted, request>>
  BY DEF ProjectWindow, Working, Packs, Frontier
<1>2. /\ book \in Seq(Seq(Kinds)) /\ cursor \in Positions(book)
      /\ request.start \in Positions(book)
      /\ checkpoint \in Checkpoints /\ checkpoint.continuation = Nowhere
      /\ leaves = {} /\ prepared = <<>>
      /\ Tells(book, request, batch, cursor)
      /\ batch \in Seq(Segments) /\ Len(batch) <= request.maximum
  BY <1>1, BookIs DEF TypeOK, Checkpoints, TextInv, Asked, Told, Fresh
<1>3. /\ cursor = <<cursor[1], cursor[2]>> /\ cursor[1] \in Nat /\ cursor[2] \in Nat
      /\ 1 <= cursor[1]
  BY <1>2, PositionIs
<1>4. CASE window = {} /\ aborted /\ Stop("cancelled") /\ UNCHANGED checkpoint
  BY <1>1, <1>2, <1>4, Stops
<1>5. CASE window = {} /\ ~aborted /\ Stop("complete") /\ UNCHANGED checkpoint
  <2>1. \A u \in Utterances(book) : Before(u, cursor)
    <3> SUFFICES ASSUME NEW u \in Utterances(book), ~Before(u, cursor) PROVE FALSE
      OBVIOUS
    <3>1. u \in From(book, cursor) BY <1>2, UtteranceFrom
    <3> QED BY <3>1, <1>2, <1>5, WindowHolds
  <2>2. /\ Ends("complete")
        /\ UNCHANGED <<cursor, leaves, prepared, sourceEnds, batch, quotation, returned>>
    BY <1>5 DEF Stop
  <2>3. /\ leaves \subseteq Ranges /\ quotation \in Quotations /\ returned \in Quotations
    BY DEF TypeOK
  <2>4. Saved' BY <1>2, <1>5 DEF Saved
  <2> QED BY <1>1, <1>2, <1>5, <2>1, <2>2, <2>3, <2>4, Answering
<1>6. ASSUME window # {}, checkpoint' = [checkpoint EXCEPT !.leaf = <<first.block, first.from>>]
      PROVE  /\ first \in window /\ LeafOf(book, first)
             /\ first.block \in WindowBlocks(book, cursor)
             /\ first.from = Entry(first.block, cursor) /\ first.to - first.from <= Window
             /\ cursor[1] <= first.block /\ ~Before(StartOf(first), cursor)
             /\ first.block \in Nat /\ first.from \in Nat /\ first.to \in Nat
             /\ StartOf(first) \in Positions(book)
             /\ window \ {first} = {leaf \in window : first.block < leaf.block}
             /\ Tells(book, request, batch, StartOf(first))
             /\ checkpoint' \in Checkpoints /\ checkpoint'.continuation = Nowhere
             /\ checkpoint'.leaf = <<first.block, first.from>>
             /\ first.from < first.to /\ first.to <= Length(book, first.block)
  <2>1. /\ first \in window /\ LeafOf(book, first)
        /\ first.block \in WindowBlocks(book, cursor)
        /\ first.from = Entry(first.block, cursor) /\ first.to - first.from <= Window
        /\ cursor[1] <= first.block /\ ~Before(StartOf(first), cursor)
        /\ first.block \in Nat /\ first.from \in Nat /\ first.to \in Nat
        /\ StartOf(first) \in Positions(book)
        /\ window \ {first} = {leaf \in window : first.block < leaf.block}
        /\ \A u \in Utterances(book) : ~Before(u, cursor) => ~Before(u, StartOf(first))
    <3> HIDE DEF window, first
    <3>1. window = WindowLeaves(book, cursor) /\ first = First(window) BY DEF window, first
    <3> QED BY <3>1, <1>2, <1>6, FirstInWindow
  <2> HIDE DEF window, first
  <2>2. Tells(book, request, batch, StartOf(first))
    BY <2>1, <1>2, TellsFurther
  <2>3. <<first.block, first.from>> \in Places BY <2>1 DEF Places, StartOf
  <2>4. /\ checkpoint' \in Checkpoints /\ checkpoint'.continuation = Nowhere
        /\ checkpoint'.leaf = <<first.block, first.from>>
    BY <2>3, <1>2, <1>6 DEF Checkpoints
  <2> QED BY <2>1, <2>2, <2>4 DEF LeafOf
<1>7. ASSUME window # {}, checkpoint' = [checkpoint EXCEPT !.leaf = <<first.block, first.from>>],
             aborted, Stop("cancelled")
      PROVE  TypeOK' /\ TextInv'
  BY <1>1, <1>6, <1>7, Stops
<1>8. ASSUME window # {}, checkpoint' = [checkpoint EXCEPT !.leaf = <<first.block, first.from>>],
             ~aborted,
             first.from - ProjectionStart(first) + HeldUnits(book, cursor) > InspectMax,
             Stop("resource-limit-exceeded")
      PROVE  TypeOK' /\ TextInv'
  <2> DEFINE skipped == ProjectionStart(first)
             held == HeldUnits(book, cursor)
             seen == checkpoint.leaf
  <2>1. /\ first.from = Entry(first.block, cursor) /\ first.block \in Nat /\ first.from \in Nat
        /\ first.to \in Nat /\ first.from < first.to /\ first.to <= Length(book, first.block)
        /\ checkpoint' \in Checkpoints /\ checkpoint'.continuation = Nowhere
        /\ first.block \in WindowBlocks(book, cursor)
    BY <1>6, <1>8
  <2>2. held \in Nat /\ held <= Window BY <1>2, HeldIs
  <2>3. seen[1] \in Nat /\ seen[2] \in Nat
    <3>1. seen \in Places BY <1>2 DEF Checkpoints
    <3>2. CASE seen = Nowhere BY <3>2 DEF Nowhere
    <3>3. CASE seen \in Positions(book) BY <3>3, <1>2, PositionIs
    <3> QED BY <3>1, <3>2, <3>3 DEF Places
  <2>4. skipped = IF seen[1] = first.block /\ seen[2] <= first.from THEN seen[2] ELSE 0
    BY DEF ProjectionStart
  <2>5. first.from - skipped + held > InspectMax BY <1>8
  <2>6. Window \in Nat /\ InspectMax \in Nat /\ 2 * Window <= InspectMax BY TextAssumption
  <2> HIDE DEF first, skipped, held, seen, window
  <2>7. first.from - skipped > Window /\ first.from > 0 /\ first.from + held > InspectMax
    BY <2>1, <2>2, <2>3, <2>4, <2>5, <2>6
  <2>8. first.block = cursor[1] /\ first.from = cursor[2]
    BY <2>1, <2>7 DEF Entry
  <2>9. Length(book, cursor[1]) \in Nat
    <3>1. cursor[1] \in Blocks(book) BY <1>2, PositionIs
    <3> QED BY <3>1, <1>2 DEF Length, Blocks
  <2>10. cursor[2] < Length(book, cursor[1])
    BY <2>1, <2>8, <2>9
  <2>11. ~Near(book, seen, cursor)
    BY <2>3, <2>4, <2>6, <2>7, <2>8, <2>9, <2>10, <1>3 DEF Near
  <2>12. request.warm /\ cursor = request.start /\ SilentAt(book, cursor)
    BY <2>11, <1>1, <1>8 DEF TextInv, CursorNear, seen
  <2>13. DeepSilence
    BY <2>7, <2>8, <2>10, <2>12, <1>2 DEF DeepSilence, SilentAt, held
  <2> QED BY <2>1, <2>13, <1>1, <1>8, Stops
<1>9. ASSUME window # {}, checkpoint' = [checkpoint EXCEPT !.leaf = <<first.block, first.from>>],
             phase' = "packing", leaves' = window,
             sourceEnds' = (HeldUnits(book, cursor) < Window),
             UNCHANGED <<cursor, prepared, batch, quotation, returned, result>>
      PROVE  TypeOK' /\ TextInv'
  <2>1. /\ first \in window /\ LeafOf(book, first)
        /\ first.block \in WindowBlocks(book, cursor)
        /\ first.from = Entry(first.block, cursor) /\ first.to - first.from <= Window
        /\ cursor[1] <= first.block /\ ~Before(StartOf(first), cursor)
        /\ first.block \in Nat /\ first.from \in Nat /\ first.to \in Nat
        /\ StartOf(first) \in Positions(book)
        /\ window \ {first} = {leaf \in window : first.block < leaf.block}
        /\ Tells(book, request, batch, StartOf(first))
        /\ checkpoint' \in Checkpoints /\ checkpoint'.continuation = Nowhere
        /\ checkpoint'.leaf = <<first.block, first.from>>
        /\ first.from < first.to /\ first.to <= Length(book, first.block)
    BY <1>6, <1>9
  <2>2. ControlTyped'
    <3>1. sourceEnds' \in BOOLEAN BY <1>9
    <3> QED BY <3>1, <1>1, <1>9, TypedParts DEF ControlTyped
  <2>3. JobTyped'
    <3>1. window \subseteq Ranges BY <1>2, LeavesTyped
    <3> HIDE DEF window
    <3> QED BY <3>1, <1>1, <1>9, TypedParts, SameBook DEF JobTyped
  <2>4. KeptTyped' BY <2>1, <1>1, <1>9, SameBook, TypedParts DEF KeptTyped
  <2>5. Packs' /\ Working' /\ Current' = first /\ Frontier' = StartOf(first)
    BY <1>9 DEF Packs, Working, Current, Frontier
  <2>15. \A leaf \in window : leaf.block = first.block => leaf = first
    BY <2>1, <1>2, WindowIs
  <2>16. ASSUME NEW leaf \in window, leaf.block # first.block PROVE leaf.to <= Window
    <3>1. /\ leaf \in [block : Blocks(book), from : Nat, to : Nat]
          /\ leaf.from = Entry(leaf.block, cursor)
          /\ leaf.to - leaf.from <= Window
      BY <1>2, WindowIs
    <3>2. leaf.block \in Nat /\ leaf.to \in Nat BY <3>1 DEF Blocks
    <3>3. leaf \in window \ {first} BY <2>16
    <3>4. first.block < leaf.block
      <4> HIDE DEF window, first
      <4> QED BY <3>3, <2>1
    <3>5. leaf.block # cursor[1] BY <3>2, <3>4, <2>1, <1>3
    <3>6. leaf.from = 0 BY <3>1, <3>5 DEF Entry
    <3> QED BY <3>1, <3>2, <3>6
  <2>17. window = WindowLeaves(book, cursor) OBVIOUS
  <2> HIDE DEF window, first
  <2>6. Asked' BY <2>1, <2>5, <1>1, <1>9 DEF TextInv, Asked
  <2>7. Told' BY <2>1, <2>5, <1>1, <1>9 DEF Told
  <2>8. Known'
    <3>1. /\ Right(book, quotation)
          /\ cursor[2] = 0 \/ quotation.at = cursor \/ cursor[2] = Length(book, cursor[1])
      BY <1>1 DEF TextInv, Known
    <3>2. first.from = 0 \/ quotation.at = StartOf(first)
      <4>1. CASE first.block # cursor[1] BY <4>1, <2>1 DEF Entry
      <4>2. CASE first.block = cursor[1]
        <5>1. first.from = cursor[2] /\ StartOf(first) = cursor
          BY <4>2, <2>1, <1>3 DEF Entry, StartOf
        <5>2. cursor[2] # Length(book, cursor[1])
          <6>1. cursor[1] \in Blocks(book) BY <1>2, PositionIs
          <6>2. Length(book, cursor[1]) \in Nat BY <6>1, <1>2 DEF Length, Blocks
          <6> QED BY <6>2, <5>1, <4>2, <2>1, <1>3
        <5> QED BY <5>1, <5>2, <3>1
      <4> QED BY <4>1, <4>2
    <3>3. StartOf(first)[2] = first.from BY DEF StartOf
    <3> QED BY <3>1, <3>2, <3>3, <2>5, <1>1, <1>9 DEF Known
  <2>9. KnownAtEnd' BY <1>1, <1>9 DEF TextInv, KnownAtEnd
  <2>10. CursorNear' BY <1>9 DEF CursorNear
  <2>11. LeavesNear'
    <3> SUFFICES ASSUME NEW leaf \in window
                 PROVE  IF first.block = leaf.block
                        THEN first.from <= leaf.from /\ leaf.to - first.from <= Window
                        ELSE leaf.to <= Window
      <4>1. checkpoint'.leaf[1] = first.block /\ checkpoint'.leaf[2] = first.from
        BY <2>1
      <4> QED BY <4>1, <1>9 DEF LeavesNear
    <3>1. CASE leaf.block = first.block BY <3>1, <2>1, <2>15
    <3>2. CASE leaf.block # first.block BY <3>2, <2>16
    <3> QED BY <3>1, <3>2
  <2>12. InWindow'
    <3>1. leaves' = WindowLeaves(book, cursor) BY <1>9, <2>17
    <3> QED BY <3>1, <2>1, <2>5, <2>17, <1>1, <1>9 DEF InWindow
  <2>13. CutInOrder'
    <3>1. Increasing(first, <<>>) BY DEF Increasing
    <3> QED BY <3>1, <2>5, <1>2, <1>9 DEF CutInOrder
  <2>14. Saved' /\ Fresh' BY <2>1, <1>9 DEF Saved, Fresh
  <2>18. PreparedAsWritten' BY <1>1, <1>9, NoAnswerYet DEF TextInv
  <2>19. FailsOnlyThere' BY <1>9 DEF FailsOnlyThere
  <2> QED
    BY <2>2, <2>3, <2>4, <2>6, <2>7, <2>8, <2>9, <2>10, <2>11, <2>12, <2>13, <2>14, <2>18,
       <2>19, TypedParts, TextParts DEF JobInv
<1> QED BY <1>4, <1>5, <1>7, <1>8, <1>9 DEF ProjectWindow

\* One more segment of a leaf.
LEMMA OneMoreEnd ==
    ASSUME NEW leaf, LeafOf(book, leaf), NEW ends, Increasing(leaf, ends),
           NEW more \in Nat, Reached(leaf, ends) < more, more <= leaf.to
    PROVE  Increasing(leaf, Append(ends, more))
<1> DEFINE all == Append(ends, more)
<1>1. /\ ends \in Seq(Nat) /\ Len(ends) \in Nat /\ DOMAIN ends = 1 .. Len(ends)
      /\ leaf.from \in Nat /\ leaf.to \in Nat
  BY DEF Increasing, LeafOf
<1>2. /\ all \in Seq(Nat) /\ Len(all) = Len(ends) + 1 /\ DOMAIN all = 1 .. Len(ends) + 1
      /\ all[Len(ends) + 1] = more /\ \A n \in 1 .. Len(ends) : all[n] = ends[n]
  BY <1>1
<1>3. ASSUME NEW n \in 1 .. Len(ends)
      PROVE  /\ ends[n] \in Nat /\ leaf.from < ends[n] /\ ends[n] <= leaf.to /\ ends[n] < more
  <2>1. ends[n] \in Nat /\ leaf.from < ends[n] /\ ends[n] <= leaf.to
    BY <1>1 DEF Increasing
  <2>2. ends # <<>> /\ Len(ends) \in 1 .. Len(ends) BY <1>1
  <2>3. Reached(leaf, ends) = ends[Len(ends)] BY <2>2 DEF Reached, Last
  <2>4. n = Len(ends) \/ ends[n] < ends[Len(ends)]
    <3>1. n = Len(ends) \/ n < Len(ends)
      <4>1. n \in 1 .. Len(ends) /\ Len(ends) \in Nat BY <1>1
      <4> QED BY ONLY <4>1
    <3>2. n \in DOMAIN ends /\ Len(ends) \in DOMAIN ends BY <2>2, <1>1
    <3> QED BY <3>1, <3>2, Zenon DEF Increasing
  <2>5. ends[Len(ends)] \in Nat BY <2>2, <1>1
  <2> QED BY <2>1, <2>3, <2>4, <2>5
<1>4. ends = <<>> => leaf.from < more BY DEF Reached
<1>5. leaf.from < more
  <2>1. CASE ends = <<>> BY <2>1, <1>4
  <2>2. CASE ends # <<>>
    <3>1. 1 \in 1 .. Len(ends) BY <2>2, <1>1
    <3> QED BY <3>1, <1>1, <1>3
  <2> QED BY <2>1, <2>2
<1> HIDE DEF all
<1>6. ASSUME NEW n \in DOMAIN all PROVE leaf.from < all[n] /\ all[n] <= leaf.to
  <2>1. n = Len(ends) + 1 \/ n \in 1 .. Len(ends) BY <1>1, <1>2
  <2> QED BY <2>1, <1>2, <1>3, <1>5
<1>7. ASSUME NEW m \in DOMAIN all, NEW n \in DOMAIN all, m < n PROVE all[m] < all[n]
  <2>1. m \in 1 .. Len(ends) /\ (n = Len(ends) + 1 \/ n \in 1 .. Len(ends))
    BY <1>1, <1>2, <1>7
  <2>2. CASE n = Len(ends) + 1 BY <2>1, <2>2, <1>2, <1>3
  <2>3. CASE n \in 1 .. Len(ends) BY <2>1, <2>3, <1>1, <1>2, <1>7 DEF Increasing
  <2> QED BY <2>1, <2>2, <2>3
<1> QED BY <1>2, <1>6, <1>7 DEF Increasing, all

\* What the packer is about: its leaf, and where it stands in it.
LEMMA PacksOn ==
    ASSUME TypeOK, TextInv, Packs
    PROVE  /\ Working /\ Frontier = StartOf(Current) /\ leaves # {} /\ Current = First(leaves)
           /\ LeafOf(book, Current) /\ Current \in leaves
           /\ Current.block \in Blocks(book) /\ Current.block \in Nat
           /\ Current.from \in Nat /\ Current.to \in Nat /\ Current.from < Current.to
           /\ Current.to <= Length(book, Current.block)
           /\ Increasing(Current, prepared)
           /\ Reached(Current, prepared) \in Nat /\ Reached(Current, prepared) <= Current.to
           /\ book \in Seq(Seq(Kinds)) /\ request.context \in Contexts
           /\ checkpoint \in Checkpoints /\ checkpoint.continuation = Nowhere
<1>1. /\ LeafOf(book, Current) /\ leaves # {} /\ Current \in leaves
      /\ Increasing(Current, prepared) /\ Working
  BY DEF TextInv, InWindow, CutInOrder, Packs, Working
<1>2. /\ Current.block \in Blocks(book) /\ Current.block \in Nat
      /\ Current.from \in Nat /\ Current.to \in Nat /\ Current.from < Current.to
      /\ Current.to <= Length(book, Current.block)
  BY <1>1 DEF LeafOf, Blocks
<1>3. Reached(Current, prepared) \in Nat /\ Reached(Current, prepared) <= Current.to
  <2>1. CASE prepared = <<>> BY <2>1, <1>2 DEF Reached
  <2>2. CASE prepared # <<>>
    <3>1. Len(prepared) \in DOMAIN prepared /\ prepared[Len(prepared)] \in Nat
      BY <2>2, <1>1 DEF Increasing
    <3> QED BY <2>2, <3>1, <1>1 DEF Reached, Last, Increasing
  <2> QED BY <2>1, <2>2
<1>4. request.context \in Contexts /\ checkpoint.continuation = Nowhere
  BY <1>1 DEF TextInv, Asked
<1>5. checkpoint \in Checkpoints BY DEF TypeOK, Checkpoints
<1> QED BY <1>1, <1>2, <1>3, <1>4, <1>5, BookIs DEF Frontier, Current

\* The packer.
LEMMA PackTells == ASSUME TypeOK, TextInv, PackSegment PROVE TypeOK' /\ TextInv'
<1> DEFINE leaf == Current
           from == Reached(leaf, prepared)
           ends == Candidates(book, leaf.block, from, leaf.to, request.context)
           more == /\ Len(prepared) < RetainedMax - Len(batch)
                   /\ Spoken(book, leaf.block, from, leaf.to)
<1>1. /\ phase = "packing" /\ Packs
      /\ UNCHANGED <<book, closing, reading, aborted, request, checkpoint>>
  BY DEF PackSegment, Packs
<1>2. /\ Working /\ Frontier = StartOf(Current) /\ leaves # {} /\ Current = First(leaves)
      /\ LeafOf(book, Current) /\ Current \in leaves
      /\ Current.block \in Blocks(book) /\ Current.block \in Nat
      /\ Current.from \in Nat /\ Current.to \in Nat /\ Current.from < Current.to
      /\ Current.to <= Length(book, Current.block)
      /\ Increasing(Current, prepared)
      /\ Reached(Current, prepared) \in Nat /\ Reached(Current, prepared) <= Current.to
      /\ book \in Seq(Seq(Kinds)) /\ request.context \in Contexts
      /\ checkpoint \in Checkpoints /\ checkpoint.continuation = Nowhere
  BY <1>1, PacksOn
<1>3. CASE Stop("cancelled")
  BY <1>1, <1>2, <1>3, Stops, SameBook
<1>4. ASSUME more, ends = {}, Stop("resource-limit-exceeded")
      PROVE  TypeOK' /\ TextInv'
  <2>1. from + Hard[request.context] < leaf.to
        /\ ~Spoken(book, leaf.block, from, from + Hard[request.context])
    <3> DEFINE b == leaf.block
               to == leaf.to
               c == request.context
    <3>1. /\ Candidates(book, b, from, to, c) = {} /\ Spoken(book, b, from, to)
          /\ from \in Nat /\ to \in Nat /\ c \in Contexts
      BY <1>2, <1>4
    <3> HIDE DEF b, to, c, from
    <3>2. from + Hard[c] < to /\ ~Spoken(book, b, from, from + Hard[c])
      BY <3>1, <1>2, NoCandidate
    <3> QED BY <3>2 DEF b, to, c
  <2>2. LongSilence BY <2>1, <1>2, <1>4 DEF LongSilence
  <2> QED BY <2>2, <1>1, <1>2, <1>4, Stops, SameBook
<1>5. ASSUME more, ends # {},
             prepared' = Append(prepared, SelectEnd(book, leaf.block, ends, from, leaf.to,
                                                    request.context)),
             UNCHANGED <<phase, cursor, leaves, sourceEnds, batch, quotation, returned,
                         result>>
      PROVE  TypeOK' /\ TextInv'
  <2> DEFINE end == SelectEnd(book, leaf.block, ends, from, leaf.to, request.context)
  <2>1. end \in from + 1 .. leaf.to
    <3> DEFINE b == leaf.block
               to == leaf.to
               c == request.context
    <3>1. /\ from \in Nat /\ to \in Nat /\ c \in Contexts /\ b \in Blocks(book)
          /\ to <= Length(book, b) /\ end = SelectEnd(book, b, ends, from, to, c)
      BY <1>2
    <3>2. ends \in SUBSET (from + 1 .. to) BY DEF Candidates
    <3> HIDE DEF b, to, c, from, ends, end
    <3>3. end \in from + 1 .. to
      BY <3>1, <3>2, <1>2, <1>5, SelectEndIs
    <3> QED BY <3>3 DEF to
  <2>2. end \in Nat /\ from < end /\ end <= leaf.to /\ prepared' = Append(prepared, end)
    <3> HIDE DEF end
    <3>1. from \in Nat /\ leaf.to \in Nat BY <1>2
    <3> HIDE DEF from, leaf
    <3> QED BY <2>1, <3>1, <1>5 DEF end
  <2> HIDE DEF end
  <2>3. Increasing(Current, prepared') BY <2>2, <1>2, OneMoreEnd
  <2>4. JobTyped'
    <3>1. prepared \in Seq(Nat) /\ batch \in Seq(Segments)
          /\ Len(prepared) < RetainedMax - Len(batch) /\ JobTyped
      BY <1>5, TypedParts DEF JobTyped
    <3>2. /\ prepared' \in Seq(Nat) /\ Len(prepared') = Len(prepared) + 1
          /\ Len(prepared) \in Nat /\ Len(batch) \in Nat
      BY <2>2, <3>1
    <3>3. RetainedMax \in Nat BY BatchAssumption DEF RetainedMax
    <3>4. Len(batch) + Len(prepared') <= RetainedMax BY <3>1, <3>2, <3>3
    <3> QED BY <3>1, <3>2, <3>4, <1>1, <1>5, SameBook DEF JobTyped, RetainedMax
  <2>5. ControlTyped' BY <1>1, <1>5, TypedParts DEF ControlTyped
  <2>6. KeptTyped' BY <1>1, <1>5, KeptAsItWas, TypedParts
  <2>7. Asked' BY <1>1, <1>5 DEF TextInv, Asked, Working
  <2>8. Told' /\ Known' /\ KnownAtEnd'
    BY <1>1, <1>5 DEF TextInv, Told, Known, KnownAtEnd, Working, Packs, Frontier, Current
  <2>9. CursorNear' /\ LeavesNear'
    BY <1>1, <1>5 DEF TextInv, CursorNear, LeavesNear, Packs
  <2>10. InWindow' BY <1>1, <1>5 DEF TextInv, InWindow, Packs, Current
  <2>11. CutInOrder' BY <2>3, <1>1, <1>5 DEF CutInOrder, Current
  <2>12. Saved' /\ Fresh' BY <1>1, <1>2, <1>5 DEF Saved, Fresh
  <2>13. PreparedAsWritten' BY <1>1, <1>5, NoAnswerYet DEF TextInv
  <2>14. FailsOnlyThere' BY <1>1, <1>5 DEF FailsOnlyThere
  <2> QED
    BY <2>4, <2>5, <2>6, <2>7, <2>8, <2>9, <2>10, <2>11, <2>12, <2>13, <2>14,
       TypedParts, TextParts DEF JobInv
<1>6. ASSUME ~more, phase' = "packed",
             UNCHANGED <<cursor, leaves, prepared, sourceEnds, batch, quotation, returned,
                         result>>
      PROVE  TypeOK' /\ TextInv'
  <2>1. JobTyped' BY <1>1, <1>6, SameJob, TypedParts
  <2>2. ControlTyped' BY <1>1, <1>6, TypedParts DEF ControlTyped
  <2>3. KeptTyped' BY <1>1, <1>6, KeptAsItWas, TypedParts
  <2>4. Packs' /\ Working' /\ Current' = Current /\ Frontier' = Frontier
    BY <1>1, <1>6 DEF Packs, Working, Current, Frontier
  <2>5. Asked' BY <2>4, <1>1, <1>2, <1>6 DEF TextInv, Asked
  <2>6. Told' /\ Known' /\ KnownAtEnd'
    BY <2>4, <1>1, <1>2, <1>6 DEF TextInv, Told, Known, KnownAtEnd
  <2>7. CursorNear' /\ LeavesNear'
    BY <2>4, <1>1, <1>6 DEF TextInv, CursorNear, LeavesNear
  <2>8. InWindow' BY <2>4, <1>1, <1>6 DEF TextInv, InWindow
  <2>9. CutInOrder' BY <2>4, <1>1, <1>2, <1>6 DEF CutInOrder
  <2>10. Saved' /\ Fresh' BY <1>1, <1>2, <1>6 DEF Saved, Fresh
  <2>11. PreparedAsWritten' BY <1>1, <1>6, NoAnswerYet DEF TextInv
  <2>12. FailsOnlyThere' BY <1>6 DEF FailsOnlyThere
  <2> QED
    BY <2>1, <2>2, <2>3, <2>5, <2>6, <2>7, <2>8, <2>9, <2>10, <2>11, <2>12,
       TypedParts, TextParts DEF JobInv
<1> QED
  <2>1. leaf = First(leaves) BY DEF Current
  <2> QED BY <2>1, <1>3, <1>4, <1>5, <1>6, Zenon DEF PackSegment

\* A segment that fills its leaf, or an abort.
LEMMA FailTells == ASSUME TypeOK, TextInv, RetainFails PROVE TypeOK' /\ TextInv'
<1>1. /\ phase = "packed" /\ Packs
      /\ UNCHANGED <<book, closing, reading, aborted, request, checkpoint>>
  BY DEF RetainFails, Packs
<1>2. /\ Working /\ leaves # {} /\ Current = First(leaves)
      /\ checkpoint \in Checkpoints /\ checkpoint.continuation = Nowhere
      /\ prepared \in Seq(Nat)
  BY <1>1, PacksOn DEF TypeOK
<1>3. CASE Stop("cancelled")
  BY <1>1, <1>2, <1>3, Stops, SameBook
<1>4. CASE NoWayForward(First(leaves), prepared) /\ Stop("resource-limit-exceeded")
  <2>1. /\ Partial(book, First(leaves)) /\ Len(prepared) = 1
        /\ Complete(book, First(leaves), prepared)
    BY <1>4 DEF NoWayForward
  <2>2. prepared # <<>> BY <2>1
  <2>3. Last(prepared) = First(leaves).to /\ Last(prepared) = prepared[1]
    BY <2>1, <2>2 DEF Complete, Last
  <2>4. prepared = <<First(leaves).to>>
    <3>1. prepared = <<prepared[1]>> BY <2>1, <1>2
    <3> QED BY <3>1, <2>3
  <2>5. SegmentCut BY <2>1, <2>4, <1>2 DEF SegmentCut
  <2> QED BY <2>5, <1>1, <1>2, <1>4, Stops, SameBook
<1> QED BY <1>3, <1>4 DEF RetainFails

\* A place in the current leaf is near.
LEMMA NearInLeaf ==
    ASSUME TypeOK, TextInv, Packs, ~aborted,
           NEW o \in Nat, Current.from <= o, o <= Current.to
    PROVE  Near(book, checkpoint.leaf, <<Current.block, o>>)
<1>1. /\ Current \in leaves /\ Current.from \in Nat /\ Current.to \in Nat
      /\ checkpoint \in Checkpoints /\ book \in Seq(Seq(Kinds))
  BY PacksOn
<1>2. IF checkpoint.leaf[1] = Current.block
      THEN checkpoint.leaf[2] <= Current.from /\ Current.to - checkpoint.leaf[2] <= Window
      ELSE Current.to <= Window
  BY <1>1 DEF TextInv, LeavesNear
<1>3. checkpoint.leaf[2] \in Nat
  <2>1. checkpoint.leaf \in Places BY <1>1 DEF Checkpoints
  <2>2. CASE checkpoint.leaf = Nowhere BY <2>2 DEF Nowhere
  <2>3. CASE checkpoint.leaf \in Positions(book) BY <2>3, <1>1, PositionIs
  <2> QED BY <2>1, <2>2, <2>3 DEF Places
<1>4. Window \in Nat BY TextAssumption
<1> QED BY <1>1, <1>2, <1>3, <1>4 DEF Near

\* What follows the leaf that was packed, and what the quotation is there.
LEMMA PackedIs ==
    ASSUME TypeOK, TextInv, phase = "packed", ~NoWayForward(Current, prepared),
           NEW next, next = NextOffset(Current, prepared)
    PROVE  /\ next \in Nat /\ Current.from < next /\ next <= Current.to
           /\ ~Cut(Current) /\ Complete(book, Current, prepared) =>
                 next = Current.to /\ Current.to = Length(book, Current.block)
           /\ ~Complete(book, Current, prepared) => next < Current.to
           /\ \A o \in Nat : Current.from <= o /\ o <= Current.to =>
                 /\ <<Current.block, o>> \in Positions(book)
                 /\ QuotationAt(Current, o) \in Quotations
                 /\ Right(book, QuotationAt(Current, o))
                 /\ QuotationAt(Current, o).at = <<Current.block, o>>
<1>1. /\ Packs /\ Working BY DEF Packs, Working
<1>2. /\ book \in Seq(Seq(Kinds)) /\ LeafOf(book, Current) /\ Increasing(Current, prepared)
      /\ Frontier = StartOf(Current)
  BY <1>1, PacksOn
<1>3. prepared = <<>> => ~Spoken(book, Current.block, Current.from, Current.to)
  <2> SUFFICES ASSUME prepared = <<>>
               PROVE  ~Spoken(book, Current.block, Current.from, Current.to)
    OBVIOUS
  <2>1. Len(prepared) = 0 /\ Reached(Current, prepared) = Current.from BY DEF Reached
  <2>2. Len(batch) \in Nat /\ Len(batch) <= BatchMax /\ BatchMax \in Nat
    BY BatchAssumption DEF TypeOK
  <2>3. Len(prepared) < RetainedMax - Len(batch)
    BY <2>1, <2>2 DEF RetainedMax
  <2> QED BY <2>1, <2>3, <1>1 DEF TextInv, CutInOrder
<1>4. /\ next \in Nat /\ Current.from < next /\ next <= Current.to
      /\ ~Cut(Current) /\ Complete(book, Current, prepared) =>
            next = Current.to /\ Current.to = Length(book, Current.block)
      /\ ~Complete(book, Current, prepared) => next < Current.to
  <2> DEFINE leaf == Current
             ends == StableEnds(leaf, prepared)
  <2>1. ends = StableEnds(leaf, prepared) OBVIOUS
  <2> HIDE DEF leaf, ends
  <2> QED BY <2>1, <1>2, <1>3, Stable DEF leaf
<1>5. Right(book, quotation) /\ (Current.from = 0 \/ quotation.at = StartOf(Current))
  BY <1>1, <1>2 DEF TextInv, Known, StartOf
<1>6. ASSUME NEW o \in Nat, Current.from <= o, o <= Current.to
      PROVE  /\ <<Current.block, o>> \in Positions(book)
             /\ QuotationAt(Current, o) \in Quotations
             /\ Right(book, QuotationAt(Current, o))
             /\ QuotationAt(Current, o).at = <<Current.block, o>>
  BY <1>2, <1>5, <1>6, OpensRight
<1> QED BY <1>4, <1>6

\* What a leaf adds to the batch.
Added == Fitting(Usable(Current), Room)

\* What is retained, and the four ways to go on.
LEMMA RetainIs ==
    ASSUME TypeOK, TextInv, RetainSegments
    PROVE  /\ phase = "packed" /\ ~NoWayForward(Current, prepared)
           /\ batch' = batch \o Added
           /\ returned' = (IF Added = <<>> THEN returned
                           ELSE QuotationAt(Current, Last(Added).to))
           /\ prepared' = <<>>
           /\ UNCHANGED <<book, closing, reading, aborted, request, sourceEnds>>
           /\ \/ /\ Len(Usable(Current)) > Room
                 /\ Ends("batch") /\ SaveBatch
                 /\ UNCHANGED <<cursor, leaves, quotation>>
              \/ /\ Len(Usable(Current)) <= Room
                 /\ NextLeaf(Current) \/ SourceComplete(Current) \/ NextWindow(Current)
BY DEF RetainSegments, Added, Fitting, Current

\* The batch after it, and the quotation where it ends.
LEMMA BatchGrows ==
    ASSUME TypeOK, TextInv, RetainSegments
    PROVE  /\ batch' \in Seq(Segments) /\ Len(batch') <= request.maximum
           /\ Len(Usable(Current)) <= Room =>
                 Tells(book, request, batch', <<Current.block, NextOffset(Current, prepared)>>)
           /\ Len(Usable(Current)) > Room => batch' # <<>>
           /\ returned' \in Quotations
           /\ batch' # <<>> => /\ Right(book, returned')
                               /\ returned'.at = EndOf(Last(batch'))
                               /\ EndOf(Last(batch')) \in Positions(book)
                               /\ Tells(book, request, batch', EndOf(Last(batch')))
                               /\ ~aborted =>
                                     \/ Near(book, checkpoint.leaf, EndOf(Last(batch')))
                                     \/ SilentAt(book, EndOf(Last(batch')))
<1> DEFINE taken == Added
           usable == Usable(Current)
<1>1. /\ phase = "packed" /\ Packs /\ Working /\ ~NoWayForward(Current, prepared)
      /\ batch' = batch \o taken
      /\ returned' = (IF taken = <<>> THEN returned
                      ELSE QuotationAt(Current, Last(taken).to))
  BY RetainIs DEF Packs, Working
<1>2. /\ Asked /\ Told /\ Known /\ InWindow /\ CutInOrder BY DEF TextInv
<1>10. TakesOfLeaf(usable, taken)
  <2>1. taken = Fitting(usable, Room) /\ usable = Usable(Current) BY DEF Added
  <2> HIDE DEF taken, usable
  <2> QED BY <2>1, <1>1, <1>2, Taken
<1> HIDE DEF taken, usable
<1>3. /\ taken \in Seq(Segments) /\ Len(batch \o taken) <= request.maximum
      /\ batch \o taken \in Seq(Segments)
      /\ taken = <<>> => batch \o taken = batch
      /\ taken # <<>> =>
            /\ Tells(book, request, batch \o taken, EndOf(Last(taken)))
            /\ Last(taken).block = Current.block
            /\ Last(taken).to \in Nat
            /\ Current.from < Last(taken).to /\ Last(taken).to <= Current.to
            /\ batch \o taken # <<>> /\ Last(batch \o taken) = Last(taken)
      /\ Len(usable) <= Room =>
            Tells(book, request, batch \o taken,
                  <<Current.block, NextOffset(Current, prepared)>>)
      /\ Len(usable) > Room => batch \o taken # <<>>
  BY <1>10, Zenon DEF TakesOfLeaf
<1>4. /\ \A o \in Nat : Current.from <= o /\ o <= Current.to =>
            /\ <<Current.block, o>> \in Positions(book)
            /\ QuotationAt(Current, o) \in Quotations
            /\ Right(book, QuotationAt(Current, o))
            /\ QuotationAt(Current, o).at = <<Current.block, o>>
  BY <1>1, PackedIs
<1>5. /\ book \in Seq(Seq(Kinds)) /\ Frontier = StartOf(Current)
      /\ Current.block \in Nat /\ Current.from \in Nat /\ Current.to \in Nat
      /\ Current.from < Current.to /\ request.start \in Positions(book)
      /\ Tells(book, request, batch, StartOf(Current))
      /\ returned \in Quotations /\ batch \in Seq(Segments)
  BY <1>1, PacksOn DEF TextInv, Asked, Told, TypeOK
<1>6. StartOf(Current) \in Positions(book)
  BY <1>4, <1>5 DEF StartOf
<1>7. CASE taken = <<>>
  <2>1. batch' = batch /\ returned' = returned BY <1>1, <1>3, <1>7
  <2>2. ASSUME batch # <<>>
        PROVE  /\ Right(book, returned) /\ returned.at = EndOf(Last(batch))
               /\ EndOf(Last(batch)) \in Positions(book)
               /\ Tells(book, request, batch, EndOf(Last(batch)))
               /\ ~aborted => \/ Near(book, checkpoint.leaf, EndOf(Last(batch)))
                              \/ SilentAt(book, EndOf(Last(batch)))
    <3> DEFINE last == Last(batch)
    <3>1. Right(book, returned) /\ returned.at = EndOf(last)
      BY <1>1, <2>2 DEF TextInv, KnownAtEnd
    <3>2. /\ Sound(book, request, last) /\ EndOf(last) \in Positions(book)
          /\ Tells(book, request, batch, EndOf(last))
          /\ \/ EndOf(last) = StartOf(Current) \/ last.to = Length(book, last.block)
             \/ SilentAt(book, EndOf(last))
      <4>1. last = Last(batch) OBVIOUS
      <4> HIDE DEF last
      <4> QED BY <4>1, <1>5, <1>6, <2>2, LastEndsLast
    <3>3. ASSUME ~aborted
          PROVE  Near(book, checkpoint.leaf, EndOf(last)) \/ SilentAt(book, EndOf(last))
      <4>1. CASE EndOf(last) = StartOf(Current)
        <5>1. Near(book, checkpoint.leaf, <<Current.block, Current.from>>)
          BY <1>1, <1>5, <3>3, NearInLeaf
        <5> QED BY <4>1, <5>1 DEF StartOf
      <4>2. CASE last.to = Length(book, last.block)
        <5>1. EndOf(last)[1] = last.block /\ EndOf(last)[2] = last.to BY DEF EndOf
        <5> QED BY <4>2, <5>1 DEF Near
      <4> QED BY <3>2, <4>1, <4>2
    <3> QED BY <3>1, <3>2, <3>3
  <2>3. /\ batch' \in Seq(Segments) /\ Len(batch') <= request.maximum
        /\ Len(usable) <= Room =>
              Tells(book, request, batch', <<Current.block, NextOffset(Current, prepared)>>)
        /\ Len(usable) > Room => batch' # <<>>
        /\ returned' \in Quotations
    BY <2>1, <1>1, <1>3, <1>5
  <2>4. batch' # <<>> => batch # <<>> BY <2>1
  <2> QED BY <2>1, <2>2, <2>3, <2>4, Zenon DEF usable
<1>8. CASE taken # <<>>
  <2> DEFINE last == Last(taken)
             o == last.to
  <2>1. /\ batch' # <<>> /\ Last(batch') = last /\ last.block = Current.block
        /\ o \in Nat /\ Current.from < o /\ o <= Current.to
        /\ Tells(book, request, batch', EndOf(last))
    BY <1>1, <1>3, <1>8
  <2>2. EndOf(last) = <<Current.block, o>> BY <2>1 DEF EndOf
  <2>3. returned' = QuotationAt(Current, o) BY <1>1, <1>8
  <2> HIDE DEF last, o
  <2>4. Current.from <= o BY <2>1, <1>5
  <2>5. /\ EndOf(last) \in Positions(book)
        /\ returned' \in Quotations /\ Right(book, returned') /\ returned'.at = EndOf(last)
    BY <2>1, <2>2, <2>3, <2>4, <1>4
  <2>6. ~aborted => Near(book, checkpoint.leaf, EndOf(last))
    BY <2>1, <2>2, <2>4, <1>1, NearInLeaf
  <2> QED BY <2>1, <2>5, <2>6, <1>1, <1>3 DEF usable
<1> QED BY <1>7, <1>8

-----------------------------------------------------------------------------
(* The four ways on *)

\* The batch is full: where it ends is saved.
LEMMA BatchTells ==
    ASSUME TypeOK, TextInv, RetainSegments, Len(Usable(Current)) > Room,
           Ends("batch"), SaveBatch, UNCHANGED <<cursor, leaves, quotation>>
    PROVE  TypeOK' /\ TextInv'
<1> DEFINE end == EndOf(Last(batch'))
<1>1. /\ phase = "packed" /\ Working /\ prepared' = <<>>
      /\ UNCHANGED <<book, closing, reading, aborted, request, sourceEnds>>
  BY RetainIs DEF Working
<1>2. /\ batch' \in Seq(Segments) /\ Len(batch') <= request.maximum /\ batch' # <<>>
      /\ returned' \in Quotations
      /\ Right(book, returned') /\ returned'.at = end /\ end \in Positions(book)
      /\ Tells(book, request, batch', end)
      /\ ~aborted => Near(book, checkpoint.leaf, end) \/ SilentAt(book, end)
  BY BatchGrows
<1>3. checkpoint' = [checkpoint EXCEPT !.continuation = end, !.quotation = returned']
  BY DEF SaveBatch, EndOf
<1>4. checkpoint \in Checkpoints BY DEF TypeOK, Checkpoints
<1> HIDE DEF end
<1>5. /\ checkpoint' \in Checkpoints /\ checkpoint'.continuation = end
      /\ checkpoint'.quotation = returned' /\ checkpoint'.leaf = checkpoint.leaf
  <2>1. end \in Places BY <1>2 DEF Places
  <2> QED BY <2>1, <1>2, <1>3, <1>4 DEF Checkpoints
<1>6. Saved'
  BY <1>1, <1>2, <1>5 DEF Saved
<1>7. leaves' \subseteq Ranges /\ quotation' \in Quotations /\ leaves' = leaves BY DEF TypeOK
<1> QED BY <1>1, <1>2, <1>5, <1>6, <1>7, Answering DEF end

\* The source is over: all of it was told.
LEMMA SourceTells ==
    ASSUME TypeOK, TextInv, RetainSegments, Len(Usable(Current)) <= Room,
           SourceComplete(Current)
    PROVE  TypeOK' /\ TextInv'
<1> DEFINE next == NextOffset(Current, prepared)
           p == <<Current.block, next>>
<1>1. /\ phase = "packed" /\ Packs /\ Working /\ prepared' = <<>>
      /\ ~NoWayForward(Current, prepared)
      /\ UNCHANGED <<book, closing, reading, aborted, request, sourceEnds>>
  BY RetainIs DEF Working, Packs
<1>2. /\ ~Cut(Current) /\ Complete(book, Current, prepared) /\ leaves = {Current}
      /\ sourceEnds /\ Ends("complete")
      /\ UNCHANGED <<cursor, leaves, quotation, checkpoint>>
  BY DEF SourceComplete
<1>3. /\ batch' \in Seq(Segments) /\ Len(batch') <= request.maximum
      /\ returned' \in Quotations /\ Tells(book, request, batch', p)
  BY BatchGrows
<1>4. /\ next = Current.to /\ Current.to = Length(book, Current.block)
      /\ p \in Positions(book)
  <2>1. next \in Nat /\ Current.from < next /\ next <= Current.to
        /\ next = Current.to /\ Current.to = Length(book, Current.block)
    BY <1>1, <1>2, PackedIs
  <2>2. Current.from \in Nat BY <1>1, PacksOn
  <2>3. Current.from <= next BY <2>1, <2>2
  <2> HIDE DEF next
  <2>4. p \in Positions(book) BY <2>1, <2>3, <1>1, PackedIs DEF p
  <2> QED BY <2>1, <2>4
<1>5. /\ book \in Seq(Seq(Kinds)) /\ cursor \in Positions(book)
      /\ Current.block \in Nat /\ Current.from \in Nat /\ Current.to \in Nat
      /\ ~Before(StartOf(Current), cursor)
      /\ leaves \ {Current} =
             {leaf \in WindowLeaves(book, cursor) : Current.block < leaf.block}
      /\ HeldUnits(book, cursor) < Window
      /\ Current.from < Current.to
  BY <1>1, <1>2, PacksOn DEF TextInv, InWindow, Asked
<1>6. cursor[1] \in Nat /\ cursor[2] \in Nat BY <1>5, PositionIs
<1>7. ASSUME NEW u \in Utterances(book), ~Before(u, p) PROVE FALSE
  <2>1. /\ u[1] \in Nat /\ u[2] \in Nat /\ u[2] < Length(book, u[1])
    BY <1>5, UtteranceIs
  <2>2. Current.block < u[1]
    BY <2>1, <1>4, <1>5, <1>7 DEF Before
  <2>3. ~Before(u, cursor)
    BY <2>1, <2>2, <1>5, <1>6 DEF Before, StartOf
  <2>4. u \in From(book, cursor) BY <2>3, <1>5, UtteranceFrom
  <2>5. u[1] \in WindowBlocks(book, cursor) BY <2>4, <1>5, WindowHolds
  <2> DEFINE leaf == [block |-> u[1], from |-> Entry(u[1], cursor),
                      to |-> Min({Length(book, u[1]),
                                  Entry(u[1], cursor) + Window - Ahead(book, cursor, u[1])})]
  <2>6. leaf \in WindowLeaves(book, cursor) BY <2>5, Zenon DEF WindowLeaves
  <2>7. leaf.block = u[1] OBVIOUS
  <2> HIDE DEF leaf
  <2>8. leaf \in leaves \ {Current} BY <2>2, <2>6, <2>7, <1>5
  <2> QED BY <2>8, <1>2
<1>8. checkpoint' \in Checkpoints /\ Saved'
  BY <1>1, <1>2 DEF TypeOK, Checkpoints, TextInv, Asked, Saved
<1>9. leaves' \subseteq Ranges /\ quotation' \in Quotations BY <1>2 DEF TypeOK
<1>10. \A u \in Utterances(book) : Before(u, p) BY <1>7
<1> HIDE DEF p, next
<1> QED BY <1>1, <1>2, <1>3, <1>4, <1>8, <1>9, <1>10, Answering

\* What the three ways on have in common.
LEMMA GoesOn ==
    ASSUME TypeOK, TextInv, RetainSegments, Len(Usable(Current)) <= Room,
           UNCHANGED <<checkpoint, result>>, phase' \in {"packing", "visiting"},
           leaves' \subseteq Ranges, cursor' \in Places, quotation' \in Quotations
    PROVE  /\ ControlTyped' /\ JobTyped' /\ KeptTyped'
           /\ KnownAtEnd' /\ Saved' /\ PreparedAsWritten' /\ FailsOnlyThere'
<1>1. /\ phase = "packed" /\ Working /\ prepared' = <<>>
      /\ UNCHANGED <<book, closing, reading, aborted, request, sourceEnds>>
  BY RetainIs DEF Working
<1>2. /\ batch' \in Seq(Segments) /\ Len(batch') <= request.maximum
      /\ returned' \in Quotations
      /\ batch' # <<>> => Right(book, returned') /\ returned'.at = EndOf(Last(batch'))
  BY BatchGrows
<1>3. /\ request.maximum \in 1 .. BatchMax /\ request \in Requests
      /\ checkpoint.continuation = Nowhere
  BY <1>1 DEF TypeOK, TextInv, Asked
<1>4. ControlTyped' BY <1>1, TypedParts DEF ControlTyped
<1>5. JobTyped'
  <2>1. Len(prepared') = 0 /\ BatchMax \in Nat /\ Len(batch') \in Nat
        /\ prepared' \in Seq(Nat)
    BY <1>1, <1>2, BatchAssumption
  <2>2. Len(batch') <= BatchMax /\ Len(batch') + Len(prepared') <= RetainedMax
    BY <1>2, <1>3, <2>1 DEF RetainedMax
  <2> QED BY <1>1, <1>2, <1>3, <2>1, <2>2, SameBook DEF JobTyped
<1>6. KeptTyped' BY <1>1, KeptAsItWas, TypedParts
<1>7. KnownAtEnd' BY <1>1, <1>2 DEF KnownAtEnd
<1>8. Saved' BY <1>3 DEF Saved
<1>9. PreparedAsWritten' BY <1>1, NoAnswerYet DEF TextInv
<1>10. FailsOnlyThere' BY DEF FailsOnlyThere
<1> QED BY <1>4, <1>5, <1>6, <1>7, <1>8, <1>9, <1>10

\* Another window, from where the stable segments ended.
LEMMA WindowTells ==
    ASSUME TypeOK, TextInv, RetainSegments, Len(Usable(Current)) <= Room,
           NextWindow(Current)
    PROVE  TypeOK' /\ TextInv'
<1> DEFINE o == NextOffset(Current, prepared)
           next == <<Current.block, o>>
<1>1. /\ phase = "packed" /\ Packs /\ Working /\ prepared' = <<>>
      /\ ~NoWayForward(Current, prepared)
      /\ UNCHANGED <<book, closing, reading, aborted, request, sourceEnds>>
  BY RetainIs DEF Working, Packs
<1>2. /\ book \in Seq(Seq(Kinds)) /\ cursor \in Positions(book)
      /\ Current.block \in Nat /\ Current.from \in Nat /\ Current.to \in Nat
      /\ ~Before(StartOf(Current), cursor)
      /\ request.start \in Positions(book) /\ request.start[1] <= cursor[1]
      /\ (request.warm => ~Before(cursor, request.start))
      /\ request.context \in Contexts /\ request.maximum \in 1 .. BatchMax
      /\ checkpoint.continuation = Nowhere
  BY <1>1, PacksOn DEF TextInv, InWindow, Asked
<1>3. /\ cursor = <<cursor[1], cursor[2]>> /\ cursor[1] \in Nat /\ cursor[2] \in Nat
      /\ request.start[1] \in Nat /\ request.start[2] \in Nat
  BY <1>2, PositionIs
<1>4. o \in Nat /\ Current.from < o /\ o <= Current.to
  BY <1>1, PackedIs
<1>5. Tells(book, request, batch', next) /\ Len(batch') <= request.maximum
  BY BatchGrows
<1> HIDE DEF o
<1>6. /\ next \in Positions(book)
      /\ QuotationAt(Current, o) \in Quotations
      /\ Right(book, QuotationAt(Current, o))
      /\ QuotationAt(Current, o).at = next
  <2>1. Current.from <= o BY <1>2, <1>4
  <2> QED BY <2>1, <1>1, <1>4, PackedIs
<1>7. next[1] = Current.block /\ next[2] = o OBVIOUS
<1>8. next # cursor /\ ~Before(next, cursor)
  BY <1>2, <1>3, <1>4 DEF Before, StartOf
<1>9. ~aborted => Near(book, checkpoint.leaf, next)
  <2>1. Current.from <= o BY <1>2, <1>4
  <2> QED BY <2>1, <1>1, <1>4, NearInLeaf
<1>10. /\ phase' = "visiting" /\ cursor' = next /\ leaves' = {}
       /\ quotation' = QuotationAt(Current, o) /\ UNCHANGED <<checkpoint, result>>
  <2>1. /\ \/ next = cursor
           \/ /\ phase' = "visiting" /\ cursor' = next /\ leaves' = {}
              /\ quotation' = QuotationAt(Current, next[2]) /\ UNCHANGED result
        /\ UNCHANGED checkpoint
    BY DEF NextWindow, o
  <2> HIDE DEF next
  <2> QED BY <2>1, <1>7, <1>8
<1> HIDE DEF next
<1>11. next \in Places BY <1>6 DEF Places
<1>12. /\ ControlTyped' /\ JobTyped' /\ KeptTyped'
       /\ KnownAtEnd' /\ Saved' /\ PreparedAsWritten' /\ FailsOnlyThere'
  BY <1>6, <1>10, <1>11, GoesOn
<1>13. Asked'
  <2>1. request.start[1] <= next[1] BY <1>2, <1>3, <1>7, <1>8 DEF Before
  <2>2. request.warm => ~Before(next, request.start)
    BY <1>2, <1>3, <1>4, <1>7, <1>8 DEF Before
  <2> QED BY <2>1, <2>2, <1>1, <1>2, <1>5, <1>6, <1>10 DEF Asked
<1>14. Frontier' = next BY <1>10 DEF Frontier, Packs
<1>15. Told' /\ Known' BY <1>1, <1>5, <1>6, <1>10, <1>14 DEF Told, Known
<1>16. CursorNear' BY <1>1, <1>9, <1>10 DEF CursorNear
<1>17. LeavesNear' /\ InWindow' /\ CutInOrder' /\ Fresh'
  BY <1>1, <1>10 DEF LeavesNear, InWindow, CutInOrder, Fresh, Packs
<1> QED BY <1>12, <1>13, <1>15, <1>16, <1>17, TypedParts, TextParts DEF JobInv

\* The rest of a leaf, or the leaf that follows, once it is known to be that.
LEMMA LeafTells ==
    ASSUME TypeOK, TextInv, RetainSegments, Len(Usable(Current)) <= Room,
           phase' = "packing", UNCHANGED <<cursor, checkpoint, result>>,
           quotation' \in Quotations, Right(book, quotation'), leaves' \subseteq Ranges,
           NEW next, next = First(leaves'),
           LeafOf(book, next), next \in leaves', next.block \in WindowBlocks(book, cursor),
           ~Before(StartOf(next), cursor),
           leaves' \ {next} = {leaf \in WindowLeaves(book, cursor) : next.block < leaf.block},
           Tells(book, request, batch', StartOf(next)),
           next.from = 0 \/ quotation'.at = StartOf(next),
           ~aborted => \A leaf \in leaves' :
               IF checkpoint.leaf[1] = leaf.block
               THEN checkpoint.leaf[2] <= leaf.from /\ leaf.to - checkpoint.leaf[2] <= Window
               ELSE leaf.to <= Window
    PROVE  TypeOK' /\ TextInv'
<1>1. /\ phase = "packed" /\ Packs /\ Working /\ prepared' = <<>>
      /\ UNCHANGED <<book, closing, reading, aborted, request, sourceEnds>>
  BY RetainIs DEF Working, Packs
<1>2. Len(batch') <= request.maximum BY BatchGrows
<1>3. cursor \in Places BY DEF TypeOK
<1>4. /\ ControlTyped' /\ JobTyped' /\ KeptTyped'
      /\ KnownAtEnd' /\ Saved' /\ PreparedAsWritten' /\ FailsOnlyThere'
  BY <1>3, GoesOn
<1>5. Packs' /\ Working' /\ Current' = next /\ Frontier' = StartOf(next)
  BY DEF Packs, Working, Current, Frontier
<1>6. Asked' BY <1>1, <1>2, <1>5 DEF TextInv, Asked
<1>7. StartOf(next)[2] = next.from BY DEF StartOf
<1>8. Told' /\ Known' BY <1>1, <1>5, <1>7 DEF Told, Known
<1>9. CursorNear' /\ Fresh' BY DEF CursorNear, Fresh
<1>10. LeavesNear' BY <1>1 DEF LeavesNear
<1>11. InWindow'
  <2>1. sourceEnds = (HeldUnits(book, cursor) < Window) BY <1>1 DEF TextInv, InWindow
  <2>2. leaves' # {} OBVIOUS
  <2> QED BY <2>1, <2>2, <1>1, <1>5 DEF InWindow
<1>12. CutInOrder'
  <2>1. Increasing(next, <<>>) BY DEF Increasing
  <2> QED BY <2>1, <1>1, <1>5 DEF CutInOrder
<1> QED BY <1>4, <1>6, <1>8, <1>9, <1>10, <1>11, <1>12, TypedParts, TextParts DEF JobInv

\* The rest of a leaf that has more segments than may be retained.
LEMMA RestTells ==
    ASSUME TypeOK, TextInv, RetainSegments, Len(Usable(Current)) <= Room,
           NextLeaf(Current), ~Complete(book, Current, prepared)
    PROVE  TypeOK' /\ TextInv'
<1> DEFINE o == NextOffset(Current, prepared)
           next == [Current EXCEPT !.from = o]
<1>1. /\ phase = "packed" /\ Packs /\ Working
      /\ ~NoWayForward(Current, prepared) /\ UNCHANGED <<book, aborted, request>>
  BY RetainIs DEF Working, Packs
<1>2. /\ leaves' = (leaves \ {Current}) \union {next}
      /\ phase' = "packing" /\ quotation' = QuotationAt(Current, o)
      /\ UNCHANGED <<cursor, checkpoint, result>>
  BY DEF NextLeaf
<1>3. /\ book \in Seq(Seq(Kinds)) /\ cursor \in Positions(book)
      /\ Current.block \in Blocks(book)
      /\ Current.block \in Nat /\ Current.from \in Nat /\ Current.to \in Nat
      /\ Current \in leaves /\ Current.to <= Length(book, Current.block)
      /\ Current.block \in WindowBlocks(book, cursor)
      /\ ~Before(StartOf(Current), cursor)
      /\ leaves \ {Current} =
             {leaf \in WindowLeaves(book, cursor) : Current.block < leaf.block}
      /\ leaves \subseteq Ranges
  BY <1>1, PacksOn DEF TextInv, InWindow, Asked, TypeOK
<1>4. o \in Nat /\ Current.from < o /\ o < Current.to
  BY <1>1, PackedIs
<1>5. Tells(book, request, batch', <<Current.block, o>>)
  BY BatchGrows
<1> HIDE DEF o
<1>6. /\ QuotationAt(Current, o) \in Quotations
      /\ Right(book, QuotationAt(Current, o))
      /\ QuotationAt(Current, o).at = <<Current.block, o>>
  <2>1. Current.from <= o /\ o <= Current.to BY <1>3, <1>4
  <2> QED BY <2>1, <1>1, <1>4, PackedIs
<1>7. Current \in Ranges BY <1>3
<1>8. /\ next \in Ranges /\ next.block = Current.block /\ next.from = o
      /\ next.to = Current.to
  BY <1>4, <1>7 DEF Ranges
<1> HIDE DEF next
<1>9. StartOf(next) = <<Current.block, o>> BY <1>8 DEF StartOf
<1>10. LeafOf(book, next) BY <1>3, <1>4, <1>8 DEF LeafOf
<1>11. cursor[1] \in Nat /\ cursor[2] \in Nat BY <1>3, PositionIs
<1>12. ~Before(StartOf(next), cursor)
  BY <1>3, <1>4, <1>9, <1>11 DEF Before, StartOf
<1>13. \A leaf \in leaves \ {Current} : leaf.block \in Nat /\ Current.block < leaf.block
  <2>1. \A leaf \in leaves : leaf.block \in Nat BY <1>3 DEF Ranges, Blocks
  <2> QED BY <2>1, <1>3
<1>14. next \in leaves' /\ leaves' \ {next} = leaves \ {Current}
  <2>1. next \notin leaves \ {Current} BY <1>3, <1>8, <1>13
  <2> QED BY <2>1, <1>2
<1>15. First(leaves') = next
  <2>1. \A leaf \in leaves' : leaf.block \in Nat BY <1>2, <1>3, <1>8, <1>13
  <2>2. leaves' # {} BY <1>14
  <2> DEFINE first == First(leaves')
  <2>3. first \in leaves' /\ \A leaf \in leaves' : first.block <= leaf.block
    <3> DEFINE S == leaves'
    <3>1. S # {} /\ \A leaf \in S : leaf.block \in Nat BY <2>1, <2>2
    <3> HIDE DEF S
    <3>2. First(S) \in S /\ \A leaf \in S : First(S).block <= leaf.block BY <3>1, FirstIs
    <3> QED BY <3>2 DEF S
  <2> HIDE DEF first
  <2>4. first.block <= Current.block BY <2>3, <1>8, <1>14
  <2>5. first \notin leaves \ {Current}
    <3> SUFFICES ASSUME first \in leaves \ {Current} PROVE FALSE
      OBVIOUS
    <3>1. first.block \in Nat /\ Current.block < first.block BY <1>13
    <3> QED BY <3>1, <2>4, <1>3
  <2> QED BY <2>3, <2>5, <1>2 DEF first
<1>16. leaves' \subseteq Ranges BY <1>2, <1>3, <1>8
<1>17. leaves' \ {next} = {leaf \in WindowLeaves(book, cursor) : next.block < leaf.block}
  BY <1>3, <1>8, <1>14
<1>18. ASSUME ~aborted, NEW leaf \in leaves'
       PROVE  IF checkpoint.leaf[1] = leaf.block
              THEN checkpoint.leaf[2] <= leaf.from /\ leaf.to - checkpoint.leaf[2] <= Window
              ELSE leaf.to <= Window
  <2>1. \A l \in leaves :
           IF checkpoint.leaf[1] = l.block
           THEN checkpoint.leaf[2] <= l.from /\ l.to - checkpoint.leaf[2] <= Window
           ELSE l.to <= Window
    BY <1>1, <1>18 DEF TextInv, LeavesNear
  <2>2. CASE leaf \in leaves BY <2>1, <2>2
  <2>3. CASE leaf = next
    <3>1. checkpoint.leaf[2] \in Nat
      <4>1. checkpoint.leaf \in Places BY DEF TypeOK
      <4>2. CASE checkpoint.leaf = Nowhere BY <4>2 DEF Nowhere
      <4>3. CASE checkpoint.leaf \in Positions(book) BY <4>3, <1>3, PositionIs
      <4> QED BY <4>1, <4>2, <4>3 DEF Places
    <3>2. IF checkpoint.leaf[1] = Current.block
          THEN /\ checkpoint.leaf[2] <= Current.from
               /\ Current.to - checkpoint.leaf[2] <= Window
          ELSE Current.to <= Window
      BY <2>1, <1>3
    <3>3. checkpoint.leaf[2] <= Current.from => checkpoint.leaf[2] <= o
      BY <3>1, <1>3, <1>4
    <3> QED BY <3>2, <3>3, <2>3, <1>8
  <2> QED BY <2>2, <2>3, <1>2
<1>19. /\ next.block \in WindowBlocks(book, cursor) /\ quotation'.at = StartOf(next)
       /\ Tells(book, request, batch', StartOf(next))
       /\ quotation' \in Quotations /\ Right(book, quotation')
  BY <1>2, <1>3, <1>5, <1>6, <1>8, <1>9
<1> QED
  BY <1>2, <1>10, <1>12, <1>14, <1>15, <1>16, <1>17, <1>18, <1>19, LeafTells

\* The leaf that follows, after one that is used up.
LEMMA NextTells ==
    ASSUME TypeOK, TextInv, RetainSegments, Len(Usable(Current)) <= Room,
           NextLeaf(Current), Complete(book, Current, prepared)
    PROVE  TypeOK' /\ TextInv'
<1> DEFINE o == NextOffset(Current, prepared)
           p == <<Current.block, o>>
           rest == leaves \ {Current}
           next == First(rest)
<1>1. /\ phase = "packed" /\ Packs /\ Working
      /\ ~NoWayForward(Current, prepared) /\ UNCHANGED <<book, aborted, request>>
  BY RetainIs DEF Working, Packs
<1>2. /\ leaves' = rest /\ ~Cut(Current) /\ leaves # {Current}
      /\ phase' = "packing" /\ quotation' = QuotationAt(Current, o)
      /\ UNCHANGED <<cursor, checkpoint, result>>
  BY DEF NextLeaf
<1>3. /\ book \in Seq(Seq(Kinds)) /\ cursor \in Positions(book)
      /\ Current.block \in Blocks(book)
      /\ Current.block \in Nat /\ Current.from \in Nat /\ Current.to \in Nat
      /\ Current \in leaves
      /\ ~Before(StartOf(Current), cursor)
      /\ rest = {leaf \in WindowLeaves(book, cursor) : Current.block < leaf.block}
      /\ leaves \subseteq Ranges /\ request.start \in Positions(book)
  BY <1>1, PacksOn DEF TextInv, InWindow, Asked, TypeOK
<1>4. /\ o \in Nat /\ Current.from < o /\ o = Current.to
      /\ Current.to = Length(book, Current.block)
  BY <1>1, <1>2, PackedIs
<1>5. Tells(book, request, batch', p)
  BY BatchGrows
<1> HIDE DEF o
<1>6. /\ p \in Positions(book)
      /\ QuotationAt(Current, o) \in Quotations
      /\ Right(book, QuotationAt(Current, o))
  <2>1. Current.from <= o /\ o <= Current.to BY <1>3, <1>4
  <2> QED BY <2>1, <1>1, <1>4, PackedIs
<1>7. rest # {} BY <1>2, <1>3
<1>8. cursor[1] \in Nat /\ cursor[2] \in Nat BY <1>3, PositionIs
<1>9. cursor[1] <= Current.block BY <1>3, <1>8 DEF Before, StartOf
<1>10. IsNext(book, cursor, Current.block, rest, next)
  <2> DEFINE b == Current.block
             q == cursor
             s == rest
             n == next
  <2>1. /\ b \in Int /\ q \in Positions(book) /\ q[1] - 1 <= b /\ s # {}
        /\ s = {leaf \in WindowLeaves(book, q) : b < leaf.block} /\ n = First(s)
    BY <1>3, <1>7, <1>8, <1>9
  <2> HIDE DEF b, q, s, n
  <2>2. IsNext(book, q, b, s, n) BY <2>1, <1>3, NextInWindow
  <2> QED BY <2>2 DEF b, q, s, n
<1> HIDE DEF next, rest
<1>11. /\ next \in rest /\ LeafOf(book, next) /\ next.block \in WindowBlocks(book, cursor)
       /\ next.from = Entry(next.block, cursor)
       /\ Current.block < next.block /\ ~Before(StartOf(next), cursor)
       /\ next.block \in Nat /\ next.from \in Nat /\ next.to \in Nat
       /\ StartOf(next) \in Positions(book)
       /\ rest \ {next} = {leaf \in WindowLeaves(book, cursor) : next.block < leaf.block}
       /\ \A u \in Utterances(book) :
             ~Before(u, cursor) /\ Current.block < u[1] => ~Before(u, StartOf(next))
  BY <1>10, Zenon DEF IsNext
<1>12. next.from = 0
  <2>1. next.block # cursor[1] BY <1>3, <1>8, <1>9, <1>11
  <2> QED BY <2>1, <1>11 DEF Entry
<1>13. Tells(book, request, batch', StartOf(next))
  <2>1. ~Before(StartOf(next), p)
    BY <1>3, <1>11 DEF Before, StartOf
  <2>2. ASSUME NEW u \in Utterances(book), ~Before(u, p) PROVE ~Before(u, StartOf(next))
    <3>1. u[1] \in Nat /\ u[2] \in Nat /\ u[2] < Length(book, u[1])
      BY <1>3, UtteranceIs
    <3>2. Current.block < u[1]
      BY <3>1, <2>2, <1>3, <1>4 DEF Before
    <3>3. ~Before(u, cursor)
      BY <3>1, <3>2, <1>8, <1>9, <1>3 DEF Before
    <3> QED BY <3>2, <3>3, <1>11
  <2> HIDE DEF p
  <2> QED BY <2>1, <2>2, <1>3, <1>5, <1>6, <1>11, TellsFurther
<1>14. ASSUME ~aborted, NEW leaf \in leaves'
       PROVE  IF checkpoint.leaf[1] = leaf.block
              THEN checkpoint.leaf[2] <= leaf.from /\ leaf.to - checkpoint.leaf[2] <= Window
              ELSE leaf.to <= Window
  <2>1. leaf \in leaves BY <1>2 DEF rest
  <2> QED BY <2>1, <1>1, <1>14 DEF TextInv, LeavesNear
<1>15. /\ leaves' \subseteq Ranges /\ next \in leaves' /\ next = First(leaves')
       /\ leaves' \ {next} = {leaf \in WindowLeaves(book, cursor) : next.block < leaf.block}
       /\ quotation' \in Quotations /\ Right(book, quotation')
  <2>1. leaves' = rest /\ rest \subseteq leaves /\ next = First(rest) BY <1>2 DEF rest, next
  <2> QED BY <2>1, <1>2, <1>3, <1>6, <1>11
<1> QED
  BY <1>2, <1>11, <1>12, <1>13, <1>14, <1>15, LeafTells

\* All four.
LEMMA RetainTells == ASSUME TypeOK, TextInv, RetainSegments PROVE TypeOK' /\ TextInv'
<1>1. CASE /\ Len(Usable(Current)) > Room /\ Ends("batch") /\ SaveBatch
           /\ UNCHANGED <<cursor, leaves, quotation>>
  BY <1>1, BatchTells
<1>2. CASE Len(Usable(Current)) <= Room /\ NextLeaf(Current)
  BY <1>2, RestTells, NextTells
<1>3. CASE Len(Usable(Current)) <= Room /\ SourceComplete(Current)
  BY <1>3, SourceTells
<1>4. CASE Len(Usable(Current)) <= Room /\ NextWindow(Current)
  BY <1>4, WindowTells
<1> QED BY <1>1, <1>2, <1>3, <1>4, RetainIs

\* Every step of the publication keeps the text as it is written.
LEMMA NextTellsText == TypeOK /\ TextInv /\ [Next]_vars => TypeOK' /\ TextInv'
<1> SUFFICES ASSUME TypeOK, TextInv, [Next]_vars PROVE TypeOK' /\ TextInv'
  OBVIOUS
<1>1. CASE StartRead \/ EndRead \/ CloseArchive \/ ArchiveCloses BY <1>1, ReadTells
<1>2. CASE \E start \in Positions(book), c \in Contexts, n \in 1 .. BatchMax :
              PrepareNarration(start, c, n)
  BY <1>2, PrepareTells
<1>3. CASE VisitTarget BY <1>3, VisitTells
<1>4. CASE ProjectWindow BY <1>4, ProjectTells
<1>5. CASE PackSegment BY <1>5, PackTells
<1>6. CASE RetainSegments BY <1>6, RetainTells
<1>7. CASE RetainFails BY <1>7, FailTells
<1>8. CASE Settle BY <1>8, SettleTells
<1>9. CASE Abort BY <1>9, AbortTells
<1>10. CASE Close BY <1>10, CloseTells
<1>11. CASE UNCHANGED vars
  <2>1. UNCHANGED <<book, closing, reading, phase, aborted, request, cursor, leaves, prepared,
                    sourceEnds, batch, quotation, returned, checkpoint, result>>
    BY <1>11 DEF vars, jobVars
  <2>2. ControlTyped' /\ JobTyped' /\ KeptTyped'
    BY <2>1, SameJob, KeptAsItWas, TypedParts DEF ControlTyped
  <2>3. aborted \in BOOLEAN /\ (Working => checkpoint.continuation = Nowhere)
    BY DEF TypeOK, TextInv, Asked
  <2>4. JobInv' BY <2>1, <2>3, SameText, TextParts
  <2>5. Saved' /\ Fresh' BY <2>1 DEF TextInv, Saved, Fresh
  <2>6. PreparedAsWritten' BY <2>1, NoAnswerYet DEF TextInv
  <2>7. FailsOnlyThere'
    BY <2>1 DEF TextInv, FailsOnlyThere, SegmentCut, LongSilence, DeepSilence
  <2> QED BY <2>2, <2>4, <2>5, <2>6, <2>7, TypedParts, TextParts
<1> QED
  BY <1>1, <1>2, <1>3, <1>4, <1>5, <1>6, <1>7, <1>8, <1>9, <1>10, <1>11 DEF Next, Work

LEMMA TextInductive == Spec => [](TypeOK /\ TextInv)
BY InitTells, NextTellsText, PTL DEF Spec

\* Whatever was prepared, aborted or abandoned before, and whether or not it
\* resumed from a checkpoint, what a preparation returns is the text of the book
\* from the place asked for, nothing skipped and nothing twice, with the
\* quotation right; and it fails in the three cases of FailsOnlyThere and in no
\* other.  For all books, windows, batches and lengths of segments.
THEOREM TextIsWritten == Spec => []NarrationIsTheText
<1>1. TextInv => NarrationIsTheText
  BY DEF TextInv, NarrationIsTheText
<1> QED BY <1>1, TextInductive, PTL

-----------------------------------------------------------------------------
(* Its images *)

Types ==
    /\ view \in [Images -> {"unseen", "loading", "ready", "unavailable", "gone"}]
    /\ load \in [Images -> {"none", "queued"} \union UnderWay]
    /\ answer \in [Images -> {"none"} \union Results]
    /\ abandoned \subseteq Images /\ sources \subseteq Images /\ urls \subseteq Images
    /\ active \in Images \union {None}
    /\ left \in BOOLEAN /\ loaderClosed \in BOOLEAN /\ reading \in BOOLEAN

\* An element that was answered, or whose load is not over, still waits or is
\* gone; the answer comes after the load.
Phases ==
    \A i \in Images :
        /\ view[i] = "unseen" => load[i] = "none" /\ answer[i] = "none"
        /\ load[i] = "queued" => view[i] = "loading" /\ answer[i] = "none"
        /\ load[i] \in Unsettled =>
              view[i] \in {"loading", "gone"} /\ answer[i] = "none"
        /\ answer[i] # "none" => view[i] \in {"loading", "gone"}

\* Every load in the queue waits, in one place.
Waiting ==
    /\ queue \in Seq(Images)
    /\ \A n \in DOMAIN queue : load[queue[n]] = "queued"
    /\ \A m, n \in DOMAIN queue : queue[m] = queue[n] => m = n

\* A source that was made is there until its owner releases it, or the loader
\* closes.
Kept ==
    /\ \A i \in Images : view[i] = "ready" => i \in sources
    /\ \A i \in Images : ~loaderClosed /\ "ready" \in {load[i], answer[i]}
                            => i \in sources

Owned == \A i \in sources : "ready" \in {view[i], load[i], answer[i]}

Revocable == urls = sources \union {i \in Images : load[i] = "decoding"}

\* What was cancelled is not waited for.
GivenUp ==
    /\ \A i \in Images :
          i \in abandoned \/ "cancelled" \in {load[i], answer[i]} =>
              view[i] = "gone"
    /\ left => \A i \in Images : view[i] = "gone"
    /\ loaderClosed => left /\ sources = {}

Turns ==
    /\ \A i \in Images : load[i] \in UnderWay <=> active = i
    /\ reading <=> \E i \in Images : load[i] = "reading"

Bounded == IsFiniteSet(sources) /\ Cardinality(sources) <= MaxSources

Lives == Phases /\ Kept /\ Owned /\ Revocable /\ GivenUp

ImagesInv == Types /\ Lives /\ Waiting /\ Turns /\ Bounded /\ Outstanding <= MaxSources

USE ImagesAssumption DEF Results, Unsettled, UnderWay

-----------------------------------------------------------------------------
(* What a step does *)

LEMMA NothingOfThePublication ==
    ASSUME UNCHANGED vars PROVE reading' = reading
BY DEF vars

\* A load that starts reads, or cannot.
LEMMA Starts ==
    ASSUME NEW i, NEW states, Start(i, states), reading \in BOOLEAN
    PROVE  \/ /\ load' = [states EXCEPT ![i] = "reading"]
              /\ ~reading /\ reading' = TRUE
           \/ /\ load' = [states EXCEPT ![i] = "unavailable"]
              /\ reading' = reading
BY DEF Start, StartRead, vars

\* Only the loads read.
LEMMA WorkReadsNothing ==
    ASSUME Work PROVE reading' = reading
BY DEF Work, PrepareNarration, VisitTarget, ProjectWindow, PackSegment,
       RetainSegments, RetainFails, Settle, Abort, Close, CloseArchive, ArchiveCloses

\* A source more, while there is room.
LEMMA OneMore ==
    ASSUME NEW S, NEW i, IsFiniteSet(S), Cardinality(S) < MaxSources
    PROVE  IsFiniteSet(S \union {i}) /\ Cardinality(S \union {i}) <= MaxSources
<1>1. /\ IsFiniteSet(S \union {i}) /\ Cardinality(S) \in Nat
      /\ \/ Cardinality(S \union {i}) = Cardinality(S)
         \/ Cardinality(S \union {i}) = Cardinality(S) + 1
  BY FS_AddElement, FS_CardinalityType
<1> QED BY <1>1

\* Some sources less.
LEMMA Fewer ==
    ASSUME Bounded, NEW S, sources' = sources \ S PROVE Bounded'
<1>1. IsFiniteSet(sources \ S) /\ Cardinality(sources \ S) <= Cardinality(sources)
  BY FS_Subset, sources \ S \subseteq sources DEF Bounded
<1>2. Cardinality(sources) \in Nat /\ Cardinality(sources \ S) \in Nat
  BY <1>1, FS_CardinalityType DEF Bounded
<1> QED BY <1>1, <1>2 DEF Bounded

-----------------------------------------------------------------------------
(* The steps of the loader *)

LEMMA Begins == ImagesInit => ImagesInv
<1> SUFFICES ASSUME ImagesInit PROVE ImagesInv
  OBVIOUS
<1>1. Types /\ Lives /\ Turns
  BY DEF ImagesInit, Init, Types, Lives, Phases, Kept, Owned, Revocable, GivenUp, Turns
<1>2. Waiting /\ Outstanding <= MaxSources
  BY DEF ImagesInit, Waiting, Outstanding
<1>3. Bounded
  BY FS_EmptySet DEF ImagesInit, Bounded
<1> QED BY <1>1, <1>2, <1>3 DEF ImagesInv

LEMMA Appearing ==
    ASSUME ImagesInv, NEW i \in Images, Appear(i) PROVE ImagesInv'
<1> USE DEF ImagesInv
<1>1. /\ view[i] = "unseen" /\ view' = [view EXCEPT ![i] = "loading"]
      /\ load[i] = "none" /\ answer[i] = "none" /\ i \notin sources /\ active # i
      /\ UNCHANGED <<abandoned, sources, urls, left, loaderClosed>>
  BY DEF Appear, Types, Lives, Phases, Owned, Turns
<1>2. CASE Refuses /\ answer' = [answer EXCEPT ![i] = "unavailable"]
             /\ UNCHANGED <<vars, load, queue, active>>
  <2>1. Types' /\ Turns' BY <1>1, <1>2, NothingOfThePublication DEF Types, Turns
  <2>2. Phases' BY <1>1, <1>2 DEF Types, Lives, Phases
  <2>3. Kept' /\ Owned' BY <1>1, <1>2 DEF Types, Lives, Kept, Owned
  <2>4. Revocable' /\ GivenUp' BY <1>1, <1>2 DEF Types, Lives, Revocable, GivenUp
  <2>5. Waiting' /\ Bounded' /\ (Outstanding <= MaxSources)'
    BY <1>1, <1>2 DEF Waiting, Bounded, Outstanding
  <2> QED BY <2>1, <2>2, <2>3, <2>4, <2>5 DEF Lives
<1>3. CASE /\ ~Refuses /\ Idle /\ active' = i /\ Start(i, load)
           /\ UNCHANGED <<answer, queue>>
  <2>1. PICK outcome \in {"reading", "unavailable"} :
            /\ load' = [load EXCEPT ![i] = outcome]
            /\ outcome = "reading" => ~reading /\ reading' = TRUE
            /\ outcome = "unavailable" => reading' = reading
    BY <1>3, Starts DEF Types
  <2>2. Types' BY <1>1, <1>3, <2>1 DEF Types
  <2>3. Turns' BY <1>1, <1>3, <2>1 DEF Types, Turns, Idle
  <2>4. Phases' BY <1>1, <1>3, <2>1 DEF Types, Lives, Phases
  <2>5. Kept' /\ Owned' BY <1>1, <1>3, <2>1 DEF Types, Lives, Kept, Owned
  <2>6. Revocable' /\ GivenUp' BY <1>1, <1>3, <2>1 DEF Types, Lives, Revocable, GivenUp
  <2>7. Waiting' BY <1>1, <1>3, <2>1 DEF Types, Waiting
  <2>8. Bounded' /\ (Outstanding <= MaxSources)'
    BY <1>1, <1>3 DEF Waiting, Bounded, Outstanding, Refuses, Idle
  <2> QED BY <2>2, <2>3, <2>4, <2>5, <2>6, <2>7, <2>8 DEF Lives
<1>4. CASE /\ ~Refuses /\ ~Idle
           /\ queue' = Append(queue, i) /\ load' = [load EXCEPT ![i] = "queued"]
           /\ UNCHANGED <<vars, answer, active>>
  <2>1. Types' BY <1>1, <1>4, NothingOfThePublication DEF Types
  <2>2. Turns' BY <1>1, <1>4, NothingOfThePublication DEF Types, Turns
  <2>3. Phases' BY <1>1, <1>4 DEF Types, Lives, Phases
  <2>4. Kept' /\ Owned' BY <1>1, <1>4 DEF Types, Lives, Kept, Owned
  <2>5. Revocable' /\ GivenUp' BY <1>1, <1>4 DEF Types, Lives, Revocable, GivenUp
  <2>6. Waiting'
    <3>1. /\ queue' \in Seq(Images) /\ Len(queue') = Len(queue) + 1
          /\ queue'[Len(queue')] = i
          /\ \A n \in DOMAIN queue : n \in DOMAIN queue' /\ queue'[n] = queue[n]
          /\ \A n \in DOMAIN queue' : n = Len(queue') \/ n \in DOMAIN queue
      BY <1>4 DEF Waiting
    <3>2. \A n \in DOMAIN queue : queue[n] # i /\ queue[n] \in Images
      BY <1>1 DEF Waiting
    <3>3. \A n \in DOMAIN queue' : load'[queue'[n]] = "queued"
      BY <1>4, <3>1, <3>2 DEF Types, Waiting
    <3>4. \A m, n \in DOMAIN queue' : queue'[m] = queue'[n] => m = n
      BY <3>1, <3>2 DEF Waiting
    <3> QED BY <3>1, <3>3, <3>4 DEF Waiting
  <2>7. Bounded' /\ (Outstanding <= MaxSources)'
    BY <1>1, <1>4 DEF Waiting, Bounded, Outstanding, Refuses, Idle
  <2> QED BY <2>1, <2>2, <2>3, <2>4, <2>5, <2>6, <2>7 DEF Lives
<1> QED BY <1>1, <1>2, <1>3, <1>4 DEF Appear

\* Steps that leave the queue alone, and whose load stays under way.
LEMMA KeepsItsTurn ==
    ASSUME ImagesInv, NEW i \in Images, load[i] \in UnderWay,
           NEW state \in UnderWay, load' = [load EXCEPT ![i] = state],
           UNCHANGED <<queue, active>>
    PROVE  /\ Waiting' /\ (Outstanding <= MaxSources)'
           /\ \A j \in Images : load'[j] \in UnderWay <=> active' = j
           /\ \A j \in Images \ {i} : load'[j] = load[j] /\ load[j] \notin UnderWay
BY DEF ImagesInv, Types, Waiting, Turns, Outstanding

LEMMA Reading ==
    ASSUME ImagesInv, NEW i \in Images, ReadEnds(i) PROVE ImagesInv'
<1> USE DEF ImagesInv
<1>1. /\ load[i] = "reading" /\ reading' = FALSE
      /\ UNCHANGED <<view, answer, abandoned, queue, active, sources, left,
                     loaderClosed>>
  BY DEF ReadEnds, EndRead
<1>2. PICK state \in {"cancelled", "unavailable", "decoding"} :
          /\ load' = [load EXCEPT ![i] = state]
          /\ state = "cancelled" => Cancelled(i)
          /\ urls' = IF state = "decoding" THEN urls \union {i} ELSE urls
  BY DEF ReadEnds
<1>3. /\ Waiting' /\ (Outstanding <= MaxSources)'
      /\ \A j \in Images : load'[j] \in UnderWay <=> active' = j
      /\ \A j \in Images \ {i} : load'[j] = load[j] /\ load[j] \notin UnderWay
  BY <1>1, <1>2, KeepsItsTurn
<1>4. Types' BY <1>1, <1>2 DEF Types
<1>5. Phases' BY <1>1, <1>2 DEF Types, Lives, Phases
<1>6. Kept' /\ Owned' BY <1>1, <1>2 DEF Types, Lives, Kept, Owned
<1>7. Revocable' BY <1>1, <1>2 DEF Types, Lives, Revocable
<1>8. GivenUp' BY <1>1, <1>2 DEF Types, Lives, GivenUp, Cancelled
<1>9. Bounded' BY <1>1 DEF Bounded
<1>10. Turns'
  <2>1. \A j \in Images : load'[j] # "reading"
    BY <1>1, <1>2, <1>3 DEF Types
  <2> QED BY <1>1, <1>3, <2>1 DEF Turns
<1> QED BY <1>3, <1>4, <1>5, <1>6, <1>7, <1>8, <1>9, <1>10 DEF Lives

LEMMA Decoding ==
    ASSUME ImagesInv, NEW i \in Images, DecodeEnds(i) PROVE ImagesInv'
<1> USE DEF ImagesInv
<1>1. /\ load[i] = "decoding" /\ reading' = reading
      /\ UNCHANGED <<view, answer, abandoned, queue, active, left, loaderClosed>>
  BY NothingOfThePublication DEF DecodeEnds
<1>2. PICK state \in {"cancelled", "unavailable", "ready"} :
          /\ load' = [load EXCEPT ![i] = state]
          /\ state = "cancelled" => Cancelled(i)
          /\ state = "ready" => ~Cancelled(i) /\ Cardinality(sources) < MaxSources
          /\ sources' = IF state = "ready" THEN sources \union {i} ELSE sources
          /\ urls' = IF state = "ready" THEN urls ELSE urls \ {i}
  BY DEF DecodeEnds
<1>3. /\ Waiting' /\ (Outstanding <= MaxSources)'
      /\ \A j \in Images : load'[j] \in UnderWay <=> active' = j
      /\ \A j \in Images \ {i} : load'[j] = load[j] /\ load[j] \notin UnderWay
  BY <1>1, <1>2, KeepsItsTurn
<1>4. i \notin sources
  BY <1>1 DEF Types, Lives, Phases, Owned
<1>5. Types' /\ Turns' BY <1>1, <1>2, <1>3 DEF Types, Turns
<1>6. Phases' BY <1>1, <1>2 DEF Types, Lives, Phases
<1>7. Kept' /\ Owned' BY <1>1, <1>2 DEF Types, Lives, Kept, Owned
<1>8. Revocable' BY <1>1, <1>2, <1>4 DEF Types, Lives, Revocable
<1>9. GivenUp' BY <1>1, <1>2 DEF Types, Lives, GivenUp, Cancelled
<1>10. Bounded' BY <1>2, OneMore DEF Bounded
<1> QED BY <1>3, <1>5, <1>6, <1>7, <1>8, <1>9, <1>10 DEF Lives

LEMMA Delivery ==
    ASSUME ImagesInv, NEW i \in Images, Deliver(i) PROVE ImagesInv'
<1> USE DEF ImagesInv
<1>1. /\ load[i] \in Results /\ load' = [load EXCEPT ![i] = "settled"]
      /\ reading' = reading
      /\ UNCHANGED <<view, abandoned, queue, active, left, loaderClosed>>
  BY NothingOfThePublication DEF Deliver
<1>2. PICK status \in Results :
          /\ answer' = [answer EXCEPT ![i] = status]
          /\ status = "cancelled" => Cancelled(i) \/ load[i] = "cancelled"
          /\ status = "ready" => load[i] = "ready" /\ ~Cancelled(i)
          /\ load[i] = "ready" /\ status # "ready" => sources' = sources \ {i}
          /\ status = "ready" \/ load[i] # "ready" => sources' = sources
          /\ urls' = urls \ (sources \ sources')
  BY <1>1 DEF Deliver, Release
<1>3. /\ Waiting' /\ (Outstanding <= MaxSources)'
      /\ \A j \in Images : load'[j] \in UnderWay <=> active' = j
      /\ \A j \in Images \ {i} : load'[j] = load[j] /\ load[j] \notin UnderWay
  BY <1>1, KeepsItsTurn
<1>4. view[i] \in {"loading", "gone"} /\ answer[i] = "none"
  BY <1>1 DEF Lives, Phases
<1>5. i \in sources <=> load[i] = "ready" /\ ~loaderClosed
  BY <1>1, <1>4 DEF Types, Lives, Kept, Owned, GivenUp
<1>6. Types' /\ Turns' BY <1>1, <1>2, <1>3 DEF Types, Turns
<1>7. Phases' BY <1>1, <1>2, <1>4 DEF Types, Lives, Phases
<1>8. Kept' BY <1>1, <1>2, <1>4, <1>5 DEF Types, Lives, Kept, Cancelled
<1>9. Owned' BY <1>1, <1>2, <1>4, <1>5 DEF Types, Lives, Owned
<1>10. Revocable' BY <1>1, <1>2 DEF Types, Lives, Revocable
<1>11. GivenUp' BY <1>1, <1>2 DEF Types, Lives, GivenUp, Cancelled
<1>12. Bounded'
  <2>1. sources' = sources \ (sources \ sources') BY <1>2
  <2> QED BY <2>1, Fewer
<1> QED BY <1>3, <1>6, <1>7, <1>8, <1>9, <1>10, <1>11, <1>12 DEF Lives

LEMMA Serving ==
    ASSUME ImagesInv, NEW i \in Images, NextLoad(i) PROVE ImagesInv'
<1> USE DEF ImagesInv
<1>1. /\ load[i] = "settled" /\ abandoned' = abandoned \ {i}
      /\ active = i
      /\ UNCHANGED <<view, answer, sources, urls, left, loaderClosed>>
  BY DEF NextLoad, Turns
<1>2. CASE /\ ~Serves(i) /\ load' = [load EXCEPT ![i] = "none"] /\ active' = None
           /\ UNCHANGED <<vars, queue>>
  <2>1. Types' BY <1>1, <1>2, NothingOfThePublication DEF Types
  <2>2. Turns' BY <1>1, <1>2, NothingOfThePublication DEF Types, Turns
  <2>3. Phases' BY <1>1, <1>2 DEF Types, Lives, Phases
  <2>4. Kept' /\ Owned' BY <1>1, <1>2 DEF Types, Lives, Kept, Owned
  <2>5. Revocable' /\ GivenUp' BY <1>1, <1>2 DEF Types, Lives, Revocable, GivenUp
  <2>6. Waiting' BY <1>1, <1>2 DEF Types, Waiting
  <2>7. Bounded' /\ (Outstanding <= MaxSources)'
    BY <1>1, <1>2 DEF Types, Waiting, Bounded, Outstanding
  <2> QED BY <2>1, <2>2, <2>3, <2>4, <2>5, <2>6, <2>7 DEF Lives
<1>3. CASE /\ Serves(i) /\ active' = Head(queue) /\ queue' = Tail(queue)
           /\ Start(Head(queue), [load EXCEPT ![i] = "none"])
  <2> DEFINE next == Head(queue)
  <2>1. /\ queue \in Seq(Images) /\ queue # <<>> /\ 1 \in DOMAIN queue
        /\ next = queue[1] /\ next \in Images
    BY <1>3 DEF Serves, Waiting
  <2>2. load[next] = "queued" /\ next # i
    BY <1>1, <2>1 DEF Waiting
  <2>3. PICK outcome \in {"reading", "unavailable"} :
            /\ load' = [load EXCEPT ![i] = "none", ![next] = outcome]
            /\ outcome = "reading" => ~reading /\ reading' = TRUE
            /\ outcome = "unavailable" => reading' = reading
    BY <1>3, Starts DEF Types
  <2>4. view[next] = "loading" /\ answer[next] = "none"
    BY <2>1, <2>2 DEF Lives, Phases
  <2> HIDE DEF next
  <2>5. active' = next BY <1>3 DEF next
  <2>6. Types' BY <1>1, <2>1, <2>3, <2>5 DEF Types
  <2>7. Turns' BY <1>1, <2>1, <2>2, <2>3, <2>5 DEF Types, Turns
  <2>8. Phases' BY <1>1, <2>1, <2>2, <2>3, <2>4 DEF Types, Lives, Phases
  <2>9. Kept' /\ Owned' BY <1>1, <2>1, <2>2, <2>3 DEF Types, Lives, Kept, Owned
  <2>10. Revocable' BY <1>1, <2>1, <2>2, <2>3 DEF Types, Lives, Revocable
  <2>11. GivenUp' BY <1>1, <2>1, <2>2, <2>3 DEF Types, Lives, GivenUp
  <2>12. /\ queue' \in Seq(Images) /\ Len(queue') = Len(queue) - 1
         /\ \A n \in DOMAIN queue' : n + 1 \in DOMAIN queue /\ queue'[n] = queue[n + 1]
    BY <1>3, <2>1
  <2>13. Waiting'
    <3>1. ASSUME NEW n \in DOMAIN queue' PROVE load'[queue'[n]] = "queued"
      <4>1. n + 1 \in DOMAIN queue /\ n + 1 # 1 /\ queue'[n] = queue[n + 1]
        BY <2>12
      <4>2. queue[n + 1] # next /\ load[queue[n + 1]] = "queued" /\ queue[n + 1] \in Images
        BY <4>1, <2>1 DEF Waiting
      <4> QED BY <4>1, <4>2, <1>1, <2>1, <2>3 DEF Types
    <3>2. ASSUME NEW m \in DOMAIN queue', NEW n \in DOMAIN queue', queue'[m] = queue'[n]
          PROVE  m = n
      <4>1. m + 1 = n + 1 BY <3>2, <2>12 DEF Waiting
      <4> QED BY <4>1, <2>12
    <3> QED BY <2>12, <3>1, <3>2 DEF Waiting
  <2>14. Bounded' /\ (Outstanding <= MaxSources)'
    BY <1>1, <2>1, <2>5, <2>12 DEF Types, Bounded, Outstanding
  <2> QED BY <2>6, <2>7, <2>8, <2>9, <2>10, <2>11, <2>13, <2>14 DEF Lives
<1> QED BY <1>2, <1>3 DEF NextLoad

-----------------------------------------------------------------------------
(* The steps of the page *)

LEMMA Receiving ==
    ASSUME ImagesInv, NEW i \in Images, Receive(i) PROVE ImagesInv'
<1> USE DEF ImagesInv
<1>1. /\ answer[i] \in Results /\ answer' = [answer EXCEPT ![i] = "none"]
      /\ view' = [view EXCEPT ![i] =
             IF @ = "gone" THEN "gone"
             ELSE IF answer[i] = "ready" THEN "ready" ELSE "unavailable"]
      /\ sources' = sources \ Unwanted(i)
      /\ urls' = urls \ (Unwanted(i) \intersect sources)
      /\ reading' = reading
      /\ UNCHANGED <<load, abandoned, queue, active, left, loaderClosed>>
  BY NothingOfThePublication DEF Receive, Release
<1>2. view[i] \in {"loading", "gone"} /\ load[i] \in {"none", "settled"}
  BY <1>1 DEF Types, Lives, Phases
<1>3. Types' /\ Turns' BY <1>1 DEF Types, Turns
<1>4. Phases' BY <1>1, <1>2 DEF Types, Lives, Phases
<1>5. Kept' BY <1>1, <1>2 DEF Types, Lives, Kept, GivenUp, Unwanted
<1>6. Owned' BY <1>1, <1>2 DEF Types, Lives, Owned, Unwanted
<1>7. Revocable' BY <1>1, <1>2 DEF Types, Lives, Revocable, Unwanted
<1>8. GivenUp' BY <1>1, <1>2 DEF Types, Lives, GivenUp
<1>9. Waiting' /\ (Outstanding <= MaxSources)' BY <1>1 DEF Waiting, Outstanding
<1>10. Bounded' BY <1>1, Fewer
<1> QED BY <1>3, <1>4, <1>5, <1>6, <1>7, <1>8, <1>9, <1>10 DEF Lives

LEMMA Failing ==
    ASSUME ImagesInv, NEW i \in Images, ShowFails(i) PROVE ImagesInv'
<1> USE DEF ImagesInv
<1>1. /\ view[i] = "ready" /\ view' = [view EXCEPT ![i] = "unavailable"]
      /\ sources' = sources \ {i} /\ urls' = urls \ ({i} \intersect sources)
      /\ reading' = reading
      /\ UNCHANGED <<load, answer, abandoned, queue, active, left, loaderClosed>>
  BY NothingOfThePublication DEF ShowFails, Release
<1>2. answer[i] = "none" /\ load[i] \in {"none", "settled"}
  BY <1>1 DEF Types, Lives, Phases
<1>3. Types' /\ Turns' BY <1>1 DEF Types, Turns
<1>4. Phases' BY <1>1, <1>2 DEF Types, Lives, Phases
<1>5. Kept' /\ Owned' BY <1>1, <1>2 DEF Types, Lives, Kept, Owned
<1>6. Revocable' BY <1>1, <1>2 DEF Types, Lives, Revocable
<1>7. GivenUp' BY <1>1, <1>2 DEF Types, Lives, GivenUp
<1>8. Waiting' /\ (Outstanding <= MaxSources)' BY <1>1 DEF Waiting, Outstanding
<1>9. Bounded' BY <1>1, Fewer
<1> QED BY <1>3, <1>4, <1>5, <1>6, <1>7, <1>8, <1>9 DEF Lives

\* A sequence without its n-th element.
LEMMA RemovedAt ==
    ASSUME NEW S, NEW s \in Seq(S), NEW n \in 1 .. Len(s)
    PROVE  /\ RemoveAt(s, n) \in Seq(S) /\ Len(RemoveAt(s, n)) = Len(s) - 1
           /\ \A m \in 1 .. n - 1 : RemoveAt(s, n)[m] = s[m]
           /\ \A m \in n .. Len(s) - 1 : RemoveAt(s, n)[m] = s[m + 1]
<1> DEFINE before == SubSeq(s, 1, n - 1)
           after == SubSeq(s, n + 1, Len(s))
<1>1. /\ before \in Seq(S) /\ Len(before) = n - 1
      /\ \A m \in 1 .. n - 1 : before[m] = s[m]
  OBVIOUS
<1>2. /\ after \in Seq(S) /\ Len(after) = Len(s) - n
      /\ \A m \in 1 .. Len(s) - n : after[m] = s[n + m]
  OBVIOUS
<1>3. RemoveAt(s, n) = before \o after
  BY DEF RemoveAt
<1> HIDE DEF before, after
<1>4. RemoveAt(s, n) \in Seq(S) /\ Len(RemoveAt(s, n)) = Len(s) - 1
  BY <1>1, <1>2, <1>3
<1>5. ASSUME NEW m \in 1 .. n - 1 PROVE RemoveAt(s, n)[m] = s[m]
  BY <1>1, <1>2, <1>3
<1>6. ASSUME NEW m \in n .. Len(s) - 1 PROVE RemoveAt(s, n)[m] = s[m + 1]
  <2>1. /\ m \in 1 .. Len(before) + Len(after) /\ m > Len(before)
        /\ m - Len(before) \in 1 .. Len(s) - n /\ n + (m - Len(before)) = m + 1
    BY <1>1, <1>2
  <2>2. (before \o after)[m] = after[m - Len(before)]
    BY <2>1, <1>1, <1>2
  <2> QED BY <2>1, <2>2, <1>2, <1>3
<1> QED BY <1>4, <1>5, <1>6

\* One less in the queue.
LEMMA Removed ==
    ASSUME Waiting, NEW n \in DOMAIN queue, queue' = RemoveAt(queue, n),
           load \in [Images -> {"none", "queued"} \union UnderWay],
           load' = [load EXCEPT ![queue[n]] = "none"]
    PROVE  Waiting' /\ Len(queue') = Len(queue) - 1
<1>1. queue \in Seq(Images) /\ n \in 1 .. Len(queue)
  BY DEF Waiting
<1>2. /\ queue' \in Seq(Images) /\ Len(queue') = Len(queue) - 1
      /\ \A m \in 1 .. n - 1 : queue'[m] = queue[m]
      /\ \A m \in n .. Len(queue) - 1 : queue'[m] = queue[m + 1]
  BY <1>1, RemovedAt
<1> DEFINE old(m) == IF m < n THEN m ELSE m + 1
<1>3. ASSUME NEW m \in DOMAIN queue'
      PROVE  old(m) \in DOMAIN queue /\ old(m) # n /\ queue'[m] = queue[old(m)]
  <2>1. CASE m < n BY <2>1, <1>1, <1>2
  <2>2. CASE m >= n BY <2>2, <1>1, <1>2
  <2> QED BY <2>1, <2>2, <1>1, <1>2
<1>4. ASSUME NEW m \in DOMAIN queue' PROVE load'[queue'[m]] = "queued"
  <2>1. old(m) \in DOMAIN queue /\ old(m) # n /\ queue'[m] = queue[old(m)]
    BY <1>3
  <2> HIDE DEF old
  <2>2. /\ queue[old(m)] # queue[n] /\ load[queue[old(m)]] = "queued"
        /\ queue[old(m)] \in Images
    BY <2>1, <1>1 DEF Waiting
  <2> QED BY <2>1, <2>2
<1>5. ASSUME NEW m \in DOMAIN queue', NEW l \in DOMAIN queue', queue'[m] = queue'[l]
      PROVE  m = l
  <2>1. /\ old(m) \in DOMAIN queue /\ old(l) \in DOMAIN queue
        /\ queue[old(m)] = queue[old(l)]
    BY <1>3, <1>5
  <2>2. old(m) = old(l)
    <3> HIDE DEF old
    <3> QED BY <2>1 DEF Waiting
  <2> QED BY <2>2, <1>1, <1>2
<1> QED BY <1>2, <1>4, <1>5 DEF Waiting

LEMMA Unmounting ==
    ASSUME ImagesInv, NEW i \in Images, Unmount(i) PROVE ImagesInv'
<1> USE DEF ImagesInv
<1> DEFINE mine == IF view[i] = "ready" THEN {i} ELSE {}
<1>1. /\ view[i] # "gone" /\ view' = [view EXCEPT ![i] = "gone"]
      /\ sources' = sources \ mine /\ urls' = urls \ (mine \intersect sources)
      /\ reading' = reading
      /\ UNCHANGED <<active, left, loaderClosed>>
  BY NothingOfThePublication DEF Unmount, Release
<1>2. Bounded' BY <1>1, Fewer
<1>3. view[i] = "ready" => answer[i] = "none" /\ load[i] \in {"none", "settled"}
  BY DEF Types, Lives, Phases
<1>4. ASSUME NEW n \in DOMAIN queue, queue[n] = i, queue' = RemoveAt(queue, n),
             load' = [load EXCEPT ![i] = "none"],
             answer' = [answer EXCEPT ![i] = "cancelled"], UNCHANGED abandoned
      PROVE  ImagesInv'
  <2>1. load[i] = "queued" /\ view[i] = "loading" /\ answer[i] = "none" /\ active # i
    BY <1>4 DEF Lives, Phases, Waiting, Turns
  <2>2. mine = {} BY <2>1
  <2>3. sources' = sources /\ urls' = urls BY <1>1, <2>2
  <2>4. Types' BY <1>1, <1>4, <2>3 DEF Types
  <2>5. Turns' BY <1>1, <1>4, <2>1 DEF Types, Turns
  <2>6. Phases' BY <1>1, <1>4 DEF Types, Lives, Phases
  <2>7. Kept' /\ Owned' BY <1>1, <1>4, <2>1, <2>3 DEF Types, Lives, Kept, Owned
  <2>8. Revocable' BY <1>4, <2>1, <2>3 DEF Types, Lives, Revocable
  <2>9. GivenUp' BY <1>1, <1>4, <2>3 DEF Types, Lives, GivenUp
  <2>10. Waiting' /\ Len(queue') = Len(queue) - 1 BY <1>4, Removed DEF Types
  <2>11. (Outstanding <= MaxSources)'
    BY <1>1, <2>10 DEF Types, Waiting, Outstanding
  <2> QED BY <1>2, <2>4, <2>5, <2>6, <2>7, <2>8, <2>9, <2>10, <2>11 DEF Lives
<1>5. ASSUME UNCHANGED <<queue, load, answer>>,
             \/ load[i] \in Unsettled /\ abandoned' = abandoned \union {i}
             \/ load[i] \in {"none", "settled"} /\ UNCHANGED abandoned
      PROVE  ImagesInv'
  <2>1. Types' /\ Turns' BY <1>1, <1>5 DEF Types, Turns
  <2>2. Phases' BY <1>1, <1>3, <1>5 DEF Types, Lives, Phases
  <2>3. Kept' /\ Owned' BY <1>1, <1>3, <1>5 DEF Types, Lives, Kept, Owned
  <2>4. Revocable' BY <1>1, <1>3, <1>5 DEF Types, Lives, Revocable
  <2>5. GivenUp' BY <1>1, <1>5 DEF Types, Lives, GivenUp
  <2>6. Waiting' /\ (Outstanding <= MaxSources)' BY <1>1, <1>5 DEF Waiting, Outstanding
  <2> QED BY <1>2, <2>1, <2>2, <2>3, <2>4, <2>5, <2>6 DEF Lives
<1> QED BY <1>4, <1>5 DEF Unmount, AbortLoad

LEMMA Leaving ==
    ASSUME ImagesInv, LeaveReader PROVE ImagesInv'
<1> USE DEF ImagesInv
<1>1. /\ \A i \in Images : view[i] = "gone"
      /\ left' = TRUE /\ reading' = reading
      /\ UNCHANGED <<view, load, answer, abandoned, queue, active, sources, urls,
                     loaderClosed>>
  BY NothingOfThePublication DEF LeaveReader
<1>2. Types' /\ Turns' BY <1>1 DEF Types, Turns
<1>3. Phases' /\ Kept' /\ Owned' /\ Revocable' /\ GivenUp'
  BY <1>1 DEF Lives, Phases, Kept, Owned, Revocable, GivenUp
<1>4. Waiting' /\ Bounded' /\ (Outstanding <= MaxSources)'
  BY <1>1 DEF Waiting, Bounded, Outstanding
<1> QED BY <1>2, <1>3, <1>4 DEF Lives

LEMMA Closing ==
    ASSUME ImagesInv, CloseLoader PROVE ImagesInv'
<1> USE DEF ImagesInv
<1>1. /\ left /\ loaderClosed' = TRUE /\ queue' = <<>>
      /\ abandoned' = abandoned \union {i \in Images : load[i] \in Unsettled}
      /\ load' = [i \in Images |-> IF load[i] = "queued" THEN "none" ELSE load[i]]
      /\ answer' = [i \in Images |->
                       IF load[i] = "queued" THEN "cancelled" ELSE answer[i]]
      /\ sources' = {} /\ urls' = urls \ sources /\ reading' = reading
      /\ UNCHANGED <<view, active, left>>
  BY NothingOfThePublication DEF CloseLoader, Release
<1>2. \A i \in Images : view[i] = "gone" BY <1>1 DEF Lives, GivenUp
<1>3. \A i \in Images : load[i] # "queued" BY <1>2 DEF Lives, Phases
<1>4. load' = load /\ answer' = answer BY <1>1, <1>3 DEF Types
<1>5. Types' /\ Turns' BY <1>1, <1>4 DEF Types, Turns
<1>6. Phases' /\ GivenUp' BY <1>1, <1>2, <1>4 DEF Lives, Phases, GivenUp
<1>7. Kept' /\ Owned' BY <1>1, <1>2, <1>4 DEF Lives, Kept, Owned
<1>8. Revocable'
  <2>1. \A i \in sources : load[i] # "decoding"
    BY <1>2 DEF Types, Lives, Phases, Owned
  <2> QED BY <1>1, <1>4, <2>1 DEF Lives, Revocable
<1>9. Waiting' /\ (Outstanding <= MaxSources)' BY <1>1 DEF Types, Waiting, Outstanding
<1>10. Bounded' BY <1>1, Fewer, sources' = sources \ sources
<1> QED BY <1>5, <1>6, <1>7, <1>8, <1>9, <1>10 DEF Lives

LEMMA Elsewhere ==
    ASSUME ImagesInv, reading' = reading, UNCHANGED imageVars PROVE ImagesInv'
BY DEF ImagesInv, imageVars, Types, Lives, Phases, Kept, Owned, Revocable, GivenUp,
       Waiting, Turns, Bounded, Outstanding

-----------------------------------------------------------------------------
(* The theorems *)

LEMMA ImagesStep == ImagesInv /\ [ImagesNext]_allVars => ImagesInv'
<1> SUFFICES ASSUME ImagesInv, [ImagesNext]_allVars PROVE ImagesInv'
  OBVIOUS
<1>1. CASE \E i \in Images : Appear(i) \/ Loads(i)
  BY <1>1, Appearing, Reading, Decoding, Delivery, Serving DEF Loads
<1>2. CASE \E i \in Images : Receive(i) \/ ShowFails(i) \/ Unmount(i)
  BY <1>2, Receiving, Failing, Unmounting
<1>3. CASE LeaveReader \/ CloseLoader
  BY <1>3, Leaving, Closing
<1>4. CASE Work /\ UNCHANGED imageVars
  BY <1>4, WorkReadsNothing, Elsewhere
<1>5. CASE UNCHANGED allVars
  BY <1>5, NothingOfThePublication, Elsewhere DEF allVars
<1> QED BY <1>1, <1>2, <1>3, <1>4, <1>5 DEF ImagesNext

LEMMA ImagesInductive == ImagesSpec => []ImagesInv
BY Begins, ImagesStep, PTL DEF ImagesSpec

\* However elements come and go while their images load, every decoded image
\* has one owner that will release it, there are never more than allowed, no
\* other object URL outlives its decoding, and what is shown is not revoked.
THEOREM SourcesOwned == ImagesSpec => []SourcesAreOwned
<1>1. ImagesInv => SourcesAreOwned
  BY DEF ImagesInv, Lives, Kept, Owned, Revocable, GivenUp, Bounded, SourcesAreOwned
<1> QED BY <1>1, ImagesInductive, PTL

\* One load at a time is under way, whatever was abandoned, refused or closed
\* before, so that no image is refused because of another; and no element that
\* waits is told that its load was cancelled.
THEOREM TurnsTaken == ImagesSpec => []LoadsTakeTurns
<1>1. ImagesInv => LoadsTakeTurns
  BY DEF ImagesInv, Types, Lives, GivenUp, Turns, LoadsTakeTurns
<1> QED BY <1>1, ImagesInductive, PTL

-----------------------------------------------------------------------------
(* The publication its images are read from *)

\* To the publication a step of the images is a read, or nothing.
LEMMA StartsRead ==
    ASSUME NEW i, NEW states, Start(i, states) PROVE [Next]_vars
BY DEF Start, Next

LEMMA ImagesOrWork == [ImagesNext]_allVars => [Next]_vars
<1> SUFFICES ASSUME [ImagesNext]_allVars PROVE [Next]_vars
  OBVIOUS
<1>1. ASSUME NEW i \in Images, Appear(i) PROVE [Next]_vars
  BY <1>1, StartsRead DEF Appear
<1>2. ASSUME NEW i \in Images, Loads(i) PROVE [Next]_vars
  <2>1. CASE ReadEnds(i) BY <2>1 DEF ReadEnds, Next
  <2>2. CASE DecodeEnds(i) \/ Deliver(i)
    <3>1. UNCHANGED vars BY <2>2 DEF DecodeEnds, Deliver
    <3> QED BY <3>1
  <2>3. CASE NextLoad(i) BY <2>3, StartsRead DEF NextLoad
  <2> QED BY <1>2, <2>1, <2>2, <2>3 DEF Loads
<1>3. ASSUME NEW i \in Images, Receive(i) \/ ShowFails(i) \/ Unmount(i) PROVE [Next]_vars
  <2>1. UNCHANGED vars BY <1>3 DEF Receive, ShowFails, Unmount
  <2> QED BY <2>1
<1>4. CASE LeaveReader \/ CloseLoader
  <2>1. UNCHANGED vars BY <1>4 DEF LeaveReader, CloseLoader
  <2> QED BY <2>1
<1>5. CASE Work BY <1>5 DEF Next
<1>6. CASE UNCHANGED allVars
  <2>1. UNCHANGED vars BY <1>6 DEF allVars
  <2> QED BY <2>1
<1> QED BY <1>1, <1>2, <1>3, <1>4, <1>5, <1>6 DEF ImagesNext

LEMMA ImagesStart == ImagesInit => Init
BY DEF ImagesInit

\* The same of a publication whose images are read meanwhile: what it returns
\* to narrate is its text.
THEOREM NarrationWithImages == ImagesSpec => []NarrationIsTheText
<1>1. TextInv => NarrationIsTheText
  BY DEF TextInv, NarrationIsTheText
<1> QED BY <1>1, ImagesStart, InitTells, ImagesOrWork, NextTellsText, PTL DEF ImagesSpec

\* And close() resolves over nothing, images included.
THEOREM ClosingWithImages == ImagesSpec => []ClosedIsQuiet
<1>1. QuietInv => ClosedIsQuiet
  BY DEF QuietInv, AbortedByClose, ArchiveIsAlone, Forgets, ClosedIsQuiet
<1> QED BY <1>1, ImagesStart, InitQuiet, ImagesOrWork, NextQuiet, PTL DEF ImagesSpec

\* Every variable of the publication and of its images holds what the code can
\* store there: no batch outgrows what was asked for, and no continuation leaves
\* the book.
THEOREM ImagesTyped == ImagesSpec => []ImagesTypeOK
<1>1. TypeOK /\ ImagesInv => ImagesTypeOK
  BY DEF ImagesInv, Types, Waiting, ImagesTypeOK
<1> QED
  BY <1>1, ImagesStart, InitTells, ImagesOrWork, NextTellsText, ImagesInductive, PTL
     DEF ImagesSpec

=============================================================================
