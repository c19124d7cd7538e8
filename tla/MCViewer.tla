------------------------------ MODULE MCViewer ------------------------------
(* Viewer for TLC.                                                           *)
EXTENDS Viewer

Empty      == {0}
EmptyOrNot == {0, 2}
Some       == {2}
=============================================================================
