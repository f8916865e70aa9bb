----------------------------- MODULE MCAgentHost -----------------------------
(* An instance of AgentHost for TLC: records long and short, so that a log *)
(* of three bytes is cut within a line, at its end, and by one line alone. *)
EXTENDS AgentHost, TLC

CONSTANTS gh, u1, u2, none, torn, half

MCLineLen == [op \in Ops |-> CASE op = "add" -> 4 [] op = "tool" -> 2 [] OTHER -> 1]

(* Nothing tells one endpoint from another.                                *)
Endpoints == Permutations(Urls)
=============================================================================
