----------------------------- MODULE MCBmPubSub -----------------------------
(***************************************************************************)
(* BmPubSub with two topics, two callbacks and memory for three nodes, so  *)
(* that a callback can be subscribed twice, and freed nodes used again.    *)
(***************************************************************************)
EXTENDS BmPubSub, TLC

CONSTANTS utc, button, serial, console, n1, n2, n3

\* Neither topics, callbacks nor cells are told apart.
Symmetry ==
  Permutations(Cell) \cup Permutations(Callback) \cup Permutations(Topic)
=============================================================================
