---------------------------- MODULE MCConnection -----------------------------
(* Small instances of Connection for TLC: the values are in the .cfg files.  *)
EXTENDS Connection
=============================================================================
