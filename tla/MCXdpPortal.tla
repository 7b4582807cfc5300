----------------------------- MODULE MCXdpPortal -----------------------------
(* XdpPortal with rings of three entries, two packets more than frames and *)
(* five orders, enough to fill the TX and the completion ring.             *)
EXTENDS XdpPortal
==============================================================================
