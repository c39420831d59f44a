--------------------------- MODULE MCBrainGraph ---------------------------
(* Two threads over three nodes, two of them with an edge. *)
EXTENDS BrainGraph, TLC

CONSTANTS n1, n2, n3, t1, t2

MCNodes == {n1, n2, n3}
MCEdges == {<<n1, n2>>}
MCThreads == {t1, t2}
MCSymmetry == Permutations(MCThreads)
=============================================================================
