---------------------------- MODULE MCChildSetup ----------------------------
(* The instance of ChildSetup for TLC: child_setup.cfg gives the constants. *)
EXTENDS ChildSetup
=============================================================================
