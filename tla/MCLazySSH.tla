----------------------------- MODULE MCLazySSH ------------------------------
(* Instances of LazySSH for TLC.                                           *)
EXTENDS LazySSH
=============================================================================
