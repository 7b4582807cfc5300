----------------------------- MODULE MCLifecycle -----------------------------
(* Lifecycle with two stimulator workers.                                  *)
EXTENDS Lifecycle

MCBoth == {TRUE, FALSE}
================================================================================
