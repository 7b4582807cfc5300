----------------------------- MODULE CreditChannel -----------------------------
(***************************************************************************)
(* What a BuanRingBuffer promises its two clients: a bounded, ordered      *)
(* channel with latency in both directions.                                *)
(*                                                                         *)
(* The two cores of the program share nothing but the ring, so neither     *)
(* sees the other at once.  An item that was pushed is first in transit    *)
(* and only later ready for the consumer; a slot that was freed is first   *)
(* returning and only later a credit of the producer.  The producer is     *)
(* refused exactly when it holds no credit, and a refusal is counted.      *)
(***************************************************************************)
EXTENDS Naturals, Sequences

CONSTANTS
  Values,    \* what can be pushed
  Capacity,  \* items the channel holds, in transit or ready
  DropMod    \* the refusal counter counts modulo DropMod

VARIABLES
  transit,    \* pushed, not yet visible to the consumer
  ready,      \* visible to the consumer, not yet popped
  credits,    \* free slots the producer knows of
  returning,  \* free slots the producer does not know of yet
  refused     \* pushes refused

chanVars == <<transit, ready, credits, returning, refused>>

ChanInit ==
  /\ transit = << >> /\ ready = << >>
  /\ credits = Capacity /\ returning = 0
  /\ refused = 0

Send(d) ==
  /\ credits > 0
  /\ transit' = Append(transit, d)
  /\ credits' = credits - 1
  /\ UNCHANGED <<ready, returning, refused>>

Refuse ==
  /\ credits = 0
  /\ refused' = (refused + 1) % DropMod
  /\ UNCHANGED <<transit, ready, credits, returning>>

Deliver ==
  /\ transit # << >>
  /\ ready' = Append(ready, Head(transit))
  /\ transit' = Tail(transit)
  /\ UNCHANGED <<credits, returning, refused>>

Receive ==
  /\ ready # << >>
  /\ ready' = Tail(ready)
  /\ returning' = returning + 1
  /\ UNCHANGED <<transit, credits, refused>>

Return ==
  /\ returning > 0
  /\ returning' = returning - 1
  /\ credits' = credits + 1
  /\ UNCHANGED <<transit, ready, refused>>

ChanNext ==
  \/ \E d \in Values : Send(d)
  \/ Refuse \/ Deliver \/ Receive \/ Return

ChanSpec == ChanInit /\ [][ChanNext]_chanVars
================================================================================
