--------------------------- MODULE MCSnapshotHub ---------------------------
(***************************************************************************)
(* SnapshotHub for TLC: two subscribers that read and one that never does. *)
(***************************************************************************)
EXTENDS SnapshotHub, TLC

=============================================================================
