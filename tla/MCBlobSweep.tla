---------------------------- MODULE MCBlobSweep ----------------------------
EXTENDS BlobSweep, TLC

Symmetry == Permutations(Sweepers) \cup Permutations(Blobs) \cup Permutations(Keys)

\* Two disturbances in one behaviour: of errors and crashes, writes, and the loss of the lease.
\* Two of the first kind hit a single sweep and its replays.
Within ==
    /\ pin + writes + faults <= 2
    /\ faults = 2 => \E k \in Keys : jobs[k].state = "NONE"
=============================================================================
