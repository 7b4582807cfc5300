----------------------------- MODULE MCHelaAudit -----------------------------
(* HelaAudit on a ring of four slots, three signals to capture.            *)
EXTENDS HelaAudit
================================================================================
