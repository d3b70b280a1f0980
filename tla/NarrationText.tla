----------------------------- MODULE NarrationText -----------------------------
(***************************************************************************)
(* How the text of a book becomes segments to narrate: the packer          *)
(* (narration-segment-packer.ts), the quotation summary                    *)
(* (narration-quotation-context.ts) and the source window                  *)
(* (narration-source-window.ts) of packages/epub/src/narration.            *)
(*                                                                         *)
(* A book is a sequence of blocks, a block a sequence of units, and a unit *)
(* is only what the packer tells apart: a "word" ends nothing, "sentence", *)
(* "clause" and "turn" end what their name says, a "mark" is punctuation,  *)
(* a "quote" is the straight quotation mark, which opens or closes, a      *)
(* "blank" is not spoken, and a block that is a single "break" is a scene  *)
(* break.  A block without units is a container (list, block quote).  A    *)
(* position is <<block, offset>>.                                          *)
(* The size of a segment is its number of units.                           *)
(*                                                                         *)
(* Left out: what the units sound like, the languages, and the bounds on   *)
(* narrated code points, bytes, sentences and work that go with the units. *)
(***************************************************************************)
EXTENDS Integers, Sequences, FiniteSets, SequencesExt

CONSTANTS
    Contexts,       \* the profiles and languages a request may name
    Target, Hard,   \* size of a segment in each context: aimed at, at most
    Window,         \* units a source window retains
    InspectMax      \* units a source window may pass over

ASSUME TextAssumption ==
    /\ Window \in Nat \ {0} /\ InspectMax \in Nat /\ 2 * Window <= InspectMax
    /\ \A c \in Contexts : /\ Target[c] \in Nat \ {0} /\ Hard[c] \in Nat
                           /\ Target[c] <= Hard[c]

Kinds == {"word", "sentence", "clause", "turn", "mark", "quote", "blank", "break"}

Blocks(book) == 1 .. Len(book)
Length(book, b) == Len(book[b])
Positions(book) == UNION {{b} \X (0 .. Length(book, b)) : b \in Blocks(book)}

\* The units, each at the position it starts at, and reading order.
Units(book) == UNION {{b} \X (0 .. Length(book, b) - 1) : b \in Blocks(book)}
Before(p, q) == p[1] < q[1] \/ (p[1] = q[1] /\ p[2] < q[2])

\* Segments do not cross blocks; they and leaves are [block, from, to].
Substantive(book, b, o) == book[b][o] # "blank"
SceneBreak(book, b) == book[b] = <<"break">>

Spoken(book, b, from, to) ==
    ~SceneBreak(book, b) /\ \E o \in from + 1 .. to : Substantive(book, b, o)

\* summarizeQuotationContext: whether a quotation is open at `to`, when it
\* was `open` at `from`.
Quoted(book, b, from, to, open) ==
    LET marks == {o \in from + 1 .. to : book[b][o] = "quote"}
    IN IF Cardinality(marks) % 2 = 0 THEN open ELSE ~open

-----------------------------------------------------------------------------
(* The packer: where the segment that starts at `from` ends, in a leaf that *)
(* is known up to `to`.                                                     *)

Candidates(book, b, from, to, c) ==
    {x \in from + 1 .. to : x - from <= Hard[c] /\ Spoken(book, b, from, x)}

\* Of the boundaries of a kind, the latest within the target, else the first.
Preferred(ends, from, c) ==
    LET near == {x \in ends : x - from <= Target[c]}
    IN IF near # {} THEN Max(near) ELSE Min(ends)

\* Silence after the segment is drained into it while it fits, but for a turn.
Drained(book, b, from, x, to, c) ==
    IF book[b][x] = "turn" THEN x
    ELSE Max({y \in x .. to : /\ y - from <= Hard[c] \/ y = x
                              /\ \A o \in x + 1 .. y : ~Substantive(book, b, o)})

\* What a segment had better end with, the best first.
Rank == [kind \in Kinds |-> CASE kind = "sentence" -> 1
                              [] kind = "clause" -> 2
                              [] kind = "blank" -> 3
                              [] kind \in {"mark", "quote"} -> 4
                              [] OTHER -> 5]

\* The boundary that is preferred to the others: the first turn of a dialogue,
\* or all there is when it is short enough, or one of the best kind, or, where
\* nothing ends, as late as possible.
Boundary(book, b, ends, from, to, c) ==
    LET turns == {x \in ends : book[b][x] = "turn"}
        best == {x \in ends : \A y \in ends : Rank[book[b][x]] <= Rank[book[b][y]]}
    IN CASE turns # {} -> Min(turns)
         [] turns = {} /\ to \in ends /\ to - from <= Target[c] -> to
         [] OTHER -> IF \E y \in best : Rank[book[b][y]] = 5 THEN Max(ends)
                     ELSE Preferred(best, from, c)

SelectEnd(book, b, ends, from, to, c) ==
    Drained(book, b, from, Boundary(book, b, ends, from, to, c), to, c)

\* Where the packer stands in a leaf it has cut at `ends`.
Reached(leaf, ends) == IF ends = <<>> THEN leaf.from ELSE Last(ends)

\* The leaf is used up, or nothing in it is to be spoken.
Complete(book, leaf, ends) ==
    IF ends = <<>> THEN ~Spoken(book, leaf.block, leaf.from, leaf.to)
    ELSE Last(ends) = leaf.to

-----------------------------------------------------------------------------
(* The source window *)

Partial(book, leaf) == leaf.to < Length(book, leaf.block)

\* The units from a position on.
From(book, p) == {q \in Units(book) : ~Before(q, p)}

\* Where a window that starts at `cursor` begins a block, and the units it holds
\* before that.
Entry(b, cursor) == IF b = cursor[1] THEN cursor[2] ELSE 0
Ahead(book, cursor, b) == Cardinality({p \in From(book, cursor) : p[1] < b})

\* The blocks of which it holds a leaf, until it is full, and these leaves.
WindowBlocks(book, cursor) ==
    {b \in cursor[1] .. Len(book) :
        Entry(b, cursor) < Length(book, b) /\ Ahead(book, cursor, b) < Window}

WindowLeaves(book, cursor) ==
    {[block |-> b, from |-> Entry(b, cursor),
      to |-> Min({Length(book, b),
                  Entry(b, cursor) + Window - Ahead(book, cursor, b)})] :
        b \in WindowBlocks(book, cursor)}

\* How many units it holds.
HeldUnits(book, cursor) ==
    Min({Window, Cardinality(From(book, cursor))})

=============================================================================
