----------------------------- MODULE MCSymbolIndex -----------------------------
(* SymbolIndex called by two threads, with three ids for the four symbols  *)
(* of two sources.                                                         *)
EXTENDS SymbolIndex

MCSources == {0, 1}
MCExternals == {0, 1}
================================================================================
