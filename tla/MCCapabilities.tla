--------------------------- MODULE MCCapabilities ---------------------------
(***************************************************************************)
(* A small instance of Capabilities: three tool calls of any tool.         *)
(***************************************************************************)
EXTENDS Capabilities, TLC

CONSTANTS c1, c2, c3, s1, s2, k1, k2

MCCalls == {c1, c2, c3}
MCStatuses == {s1, s2}
MCKeys == {k1, k2}
MCSymmetry == Permutations(MCCalls)
=============================================================================
