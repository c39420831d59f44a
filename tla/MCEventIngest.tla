---------------------------- MODULE MCEventIngest ----------------------------
(* Small instances of EventIngest. *)
EXTENDS EventIngest

CONSTANTS k1, k2, k3, k4, k5

MCKey == {k1, k2, k3, k4, k5}

\* Batches that overlap, and that together overflow a window of four keys.
MCBatches == {<<k1, k2>>, <<k3, k4>>, <<k5, k1>>}

SingleBatches == {<<k>> : k \in Key}

\* No event makes a processor raise, or two do.
MCFailures == {{}, {k1, k2}}

Symmetry == Permutations(Threads)

=============================================================================
