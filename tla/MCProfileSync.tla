--------------------------- MODULE MCProfileSync ---------------------------
(* Instances of ProfileSync for TLC.                                       *)
EXTENDS ProfileSync, TLC

\* Machines are interchangeable, and edits of the same kind.
Symmetry ==
    Permutations(Machines) \cup Permutations(Edits \ Unsigned)
        \cup Permutations(Unsigned)
=============================================================================
