---- MODULE MCFlagClient ----
(* Instances of FlagClient for TLC: the .cfg files give the switches and bounds. *)
EXTENDS FlagClient
====
