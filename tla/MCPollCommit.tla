---------------------------- MODULE MCPollCommit ----------------------------
(* Small instances of PollCommit.                                            *)
EXTENDS PollCommit, TLC

Symmetry == Permutations(Peers)

\* A poll looks at the VPN once, in Read, and touches events only while it
\* persists peers.  What the VPN does during a poll may be taken to happen after
\* it (the tables are then compared with less traffic), and pruning in the
\* phases "read", "mark" and "total" to happen before them.
CommutingStepsFirst ==
    /\ device' # device => phase = "idle"
    /\ journal' # journal => phase \in {"idle", "peers"}
=============================================================================
