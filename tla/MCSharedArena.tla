----------------------------- MODULE MCSharedArena -----------------------------
(* SharedArena with three engines one after or beside another, one client   *)
(* and two slots.                                                          *)
EXTENDS SharedArena
================================================================================
