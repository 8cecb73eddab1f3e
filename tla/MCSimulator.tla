---------------------------- MODULE MCSimulator ----------------------------
(* Model-checking instance of Simulator: the constants are given in the    *)
(* .cfg files, NoInstance and NoCall as model values.                      *)
EXTENDS Simulator, TLC

=============================================================================
