-------------------------- MODULE MCSnapshotStore --------------------------
(* SnapshotStore for TLC, small instances. *)
EXTENDS SnapshotStore, TLC

\* Files and tabs are interchangeable.
Symmetry == Permutations(Datasets) \cup Permutations(Clients)
=============================================================================
