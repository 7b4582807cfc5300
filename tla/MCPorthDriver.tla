---------------------------- MODULE MCPorthDriver ----------------------------
(* PorthDriver with two channels of one descriptor, and temperatures below *)
(* the limit, at it, one above it and far above it.                        *)
EXTENDS PorthDriver

MCTemps == {69, 70, 71, 90}
==============================================================================
