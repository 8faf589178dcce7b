--------------------------- MODULE MCFlagServer ----------------------------
(***************************************************************************)
(* FlagServer for TLC.                                                     *)
(***************************************************************************)
EXTENDS FlagServer, TLC

=============================================================================
