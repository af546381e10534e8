----------------------------- MODULE StackerMC ------------------------------
(* Four blocks for model-checking Stacker.                                 *)
EXTENDS Stacker

Four == <<"yellow", "blue", "green", "red">>
=============================================================================
