---------------------------- MODULE MCTermination ----------------------------
(* Small instances of Termination for TLC; the cfg files set the constants. *)
EXTENDS Termination
=============================================================================
