------------------------------ MODULE MCRanges ------------------------------
(***************************************************************************)
(* Instance of Ranges for TLC: three cells, bounds that are numbers or     *)
(* variables, a loop whose bounds are equal.                               *)
(***************************************************************************)
EXTENDS Ranges

MCOffsets == {constant(k) : k \in 0 .. N - 1}

MCNumbers == {b \in (0 .. N - 1) \X (1 .. N) : b[1] < b[2] \/ b = <<1, 1>>}

MCBounds ==
    {<<constant(b[1]), constant(b[2])>> : b \in MCNumbers}
    \cup {<<constant(0), identifier("n")>>, <<identifier("m"), identifier("n")>>}

(* What the proofs assume of these bounds and offsets.                     *)
ASSUME MCRangesAssumption == BoundsInOrder /\ CellsCovered

=============================================================================
