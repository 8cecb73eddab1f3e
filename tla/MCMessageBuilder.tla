-------------------------- MODULE MCMessageBuilder --------------------------
(* Model-checking instance of MessageBuilder; constants in the .cfg files. *)
EXTENDS MessageBuilder, TLC

=============================================================================
