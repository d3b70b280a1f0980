-------------------------- MODULE MCPublicationImages --------------------------
(***************************************************************************)
(* Small books for PublicationImages.  `Deep` has a block longer than a    *)
(* window may pass over, with quotations that stay open across segments    *)
(* and windows; `Short` has short blocks, containers, a scene break, a     *)
(* silent tail and a dialogue turn; `Silent` has silence longer than a     *)
(* segment inside a block and in a block of its own; the long block of     *)
(* `LongTail` ends in such a silence.  `Plates` has images only, and       *)
(* `Caption` a word with an image, to be prepared while it is read.        *)
(***************************************************************************)
EXTENDS PublicationImages

CONSTANTS i1, i2, i3

Deep == << <<"word", "quote", "word", "sentence", "word", "clause", "word", "word",
             "sentence", "quote", "sentence", "word", "word", "word", "sentence">>,
           <<"word", "sentence">> >>

Short == << <<>>, <<"word", "sentence", "blank", "blank", "blank">>, <<"break">>,
            <<"quote", "turn", "word", "quote">>, <<>>, <<"word", "sentence">> >>

Silent == << <<"word", "sentence", "blank", "blank", "blank", "blank", "blank",
               "word", "quote", "word", "sentence">>,
             <<"blank", "blank", "blank", "blank", "blank">>,
             <<"word", "sentence">> >>

LongTail == << <<"word", "sentence", "word", "sentence", "quote", "word", "sentence",
               "word", "clause", "word", "word", "sentence", "word", "sentence",
               "word", "blank", "blank", "blank", "blank", "blank">>,
             <<"word", "word", "sentence">> >>

Gap == << <<"word", "sentence", "word", "sentence", "word", "sentence", "word",
            "sentence", "blank", "blank", "blank", "word", "sentence", "word",
            "sentence">> >>

Plates == <<>>

Caption == << <<"word">> >>

MCBooks == {Deep, Short, Silent, LongTail, Gap, Plates, Caption}
MCImages == {i1, i2, i3}
MCImagesOf == [b \in MCBooks |-> IF b = Plates THEN MCImages
                                 ELSE IF b = Caption THEN {i1} ELSE {}]
MCTarget == [c \in Contexts |-> IF c = "piper" THEN 2 ELSE 3]
MCHard == [c \in Contexts |-> IF c = "piper" THEN 3 ELSE 4]

=============================================================================
