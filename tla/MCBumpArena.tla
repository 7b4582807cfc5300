------------------------------ MODULE MCBumpArena ------------------------------
(* BumpArena with three threads on a region of three lines and objects of  *)
(* 8 bytes: requests of less than a line, of two lines, one whose end      *)
(* wraps and one whose size does.                                          *)
EXTENDS BumpArena, TLC

MCSymmetry == Permutations(Threads)
================================================================================
