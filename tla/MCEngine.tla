-------------------------------- MODULE MCEngine --------------------------------
(* Engine with two arena slots for three symbols, one-entry rings, and     *)
(* frames that take every way through a step: unknown template, too short, *)
(* over the breaker's limit, over the risk gate's size, and safe.  With    *)
(* volumes modulo 8 the Binance quantity 9 is 1 and the CME size -2 is 6.  *)
EXTENDS Engine

Frame(sz, tm, id, px, q) ==
  [size |-> sz, template |-> tm, id |-> id, price |-> px, quantity |-> q]

MCFrames == {Frame("long", 42, 0, 100, 1), Frame("long", 42, 1, 100, 1),
             Frame("long", 42, 1, 120, 1), Frame("long", 42, 1, 100, -2),
             Frame("short", 100, 0, 120, 9), Frame("short", 100, 0, 100, 3),
             Frame("long", 100, 0, 100, 1), Frame("runt", 100, 0, 100, 1)}
MCVolLimits == {1, 3}
================================================================================
