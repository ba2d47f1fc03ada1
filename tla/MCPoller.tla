------------------------------ MODULE MCPoller -------------------------------
(* Small instances of Poller for TLC: the values are in the .cfg files.      *)
EXTENDS Poller
=============================================================================
