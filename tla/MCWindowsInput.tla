--------------------------- MODULE MCWindowsInput ---------------------------
(* Instances of WindowsInput for TLC.                                       *)
EXTENDS WindowsInput, TLC

\* No action and no property tells one position from another.
PositionsSymmetry == Permutations(Positions)
=============================================================================
