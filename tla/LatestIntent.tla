----------------------------- MODULE LatestIntent -----------------------------
(***************************************************************************)
(* What the reader shell promises about publications: what is shown is     *)
(* what was asked for last.  Asking for anything, another publication or   *)
(* none, hides what is shown at once.                                      *)
(***************************************************************************)
CONSTANTS Publications, Nothing

VARIABLES wanted, shown

Init == wanted = Nothing /\ shown = Nothing

Ask(publication) ==
    /\ publication # wanted
    /\ wanted' = publication
    /\ shown' = Nothing

Leave ==
    /\ wanted' = Nothing
    /\ shown' = Nothing

Show ==
    /\ shown = Nothing /\ wanted # Nothing
    /\ shown' = wanted
    /\ UNCHANGED wanted

Next == (\E publication \in Publications : Ask(publication)) \/ Leave \/ Show

Spec == Init /\ [][Next]_<<wanted, shown>>
=============================================================================
