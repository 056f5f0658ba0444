--------------------------- MODULE MCBcmpTopology ---------------------------
(***************************************************************************)
(* BcmpTopology on a line of four nodes.  The root, b, is the second one,  *)
(* so that one of its sides ends at once and the other goes on.            *)
(***************************************************************************)
EXTENDS BcmpTopology

CONSTANTS a, b, c, d, sampler, console

Line == <<a, b, c, d>>
=============================================================================
