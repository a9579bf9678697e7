----------------------------- MODULE MCTunnels ------------------------------
(* Instances of Tunnels for TLC.                                           *)
EXTENDS Tunnels, TLC

Symmetry == Permutations(Sessions) \cup Permutations(Loops)
=============================================================================
