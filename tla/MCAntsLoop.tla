----------------------------- MODULE MCAntsLoop ------------------------------
(* Small instances of AntsLoop for TLC, with the options of MCAntsPool. *)
EXTENDS AntsLoop, MCAntsPool
=============================================================================
