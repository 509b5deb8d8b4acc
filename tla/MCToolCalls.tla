---------------------------- MODULE MCToolCalls ----------------------------
(* An instance of ToolCalls for TLC: four calls, a pool of two. *)
EXTENDS ToolCalls, TLC
=============================================================================
