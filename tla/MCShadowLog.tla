------------------------------ MODULE MCShadowLog ------------------------------
(* ShadowLog on a ring of four slots, seven records and a file of four      *)
(* records in chunks of two.                                               *)
EXTENDS ShadowLog

MCValues == 1 .. MaxRecords
================================================================================
