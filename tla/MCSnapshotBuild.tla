-------------------------- MODULE MCSnapshotBuild --------------------------
(* SnapshotBuild for TLC: nodes as model values.                             *)
EXTENDS SnapshotBuild

CONSTANTS n1, n2, n3

TwoNodes   == {n1, n2}
ThreeNodes == {n1, n2, n3}

(* In the main thread, and in a pool smaller than the cluster.               *)
OneOrTwo   == {0, 2}
Two        == {2}
=============================================================================
