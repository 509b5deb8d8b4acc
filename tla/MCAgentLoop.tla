---------------------------- MODULE MCAgentLoop ----------------------------
(* Instances of AgentLoop for TLC: two inputs, and one step with tools. *)
EXTENDS AgentLoop, TLC
CONSTANTS m1, m2
One == {m1}
Two == {m1, m2}
=============================================================================
