-------------------------- MODULE MCSnapshotStore --------------------------
(* SnapshotStore for TLC.                                                    *)
EXTENDS SnapshotStore

(* A bound on the clock is a bound on the model only: the run may stop there *)
(* (CHECK_DEADLOCK FALSE), with documents left to build or not.              *)
DiskFaults      == {"write", "unlink"}
WriteReadFaults == {"write", "read"}
=============================================================================
