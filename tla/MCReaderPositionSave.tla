------------------------- MODULE MCReaderPositionSave -------------------------
(***************************************************************************)
(* Three publications: one with three positions, one with three            *)
(* preference sets to choose from, and one with both lanes busy.           *)
(***************************************************************************)
EXTENDS ReaderPositionSave

CONSTANTS l1, l2, l3, m1, n1, n2, p1, p2, p3

MCPublications ==
    {[locators |-> {l1, l2, l3}, preferences |-> {}],
     [locators |-> {m1}, preferences |-> {p1, p2, p3}],
     [locators |-> {n1, n2}, preferences |-> {p1}]}

=============================================================================
