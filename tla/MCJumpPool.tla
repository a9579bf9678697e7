----------------------------- MODULE MCJumpPool -----------------------------
(* Instances of JumpPool for TLC.                                          *)
EXTENDS JumpPool
=============================================================================
