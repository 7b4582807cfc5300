------------------------------- MODULE XdpPortal -------------------------------
(***************************************************************************)
(* BuanXDPPortal (src/network/xdp_portal.cpp): the four AF_XDP rings and   *)
(* the UMEM shared with the kernel, and the order template that main.cpp   *)
(* bakes into the UMEM (include/buan/network/sbe_order_builder.hpp).       *)
(*                                                                         *)
(* The kernel and the NIC are external: they move frames from the fill     *)
(* ring to the RX ring with a packet written into them, and orders from    *)
(* the TX ring to the wire and the completion ring.  The portal runs on    *)
(* one thread.                                                             *)
(***************************************************************************)
EXTENDS Naturals, Sequences, FiniteSets

CONSTANTS
  Stock,      \* 2048: frames put in the fill ring, and the size of each ring
  MaxPackets, \* bound: packets the network sends
  MaxOrders   \* bound: orders the client strikes

ASSUME PortalAssumption == Stock \in Nat \ {0} /\ MaxPackets \in Nat /\ MaxOrders \in Nat

VARIABLES
  phase,    \* "new", "mapped", "open", "online" or "failed"
  mem,      \* contents of the UMEM frames
  stocked,  \* history: how many frames open put in the fill ring
  fill,     \* m_fill_ring: frames the NIC may write
  rx,       \* m_rx_ring: frames with a packet
  held,     \* frames handed out by poll_frame
  released, \* history: frames given to release_frame
  tx,       \* m_tx_ring: frames to transmit
  comp,     \* entries in m_comp_ring
  awake,    \* the driver is serving the TX ring
  kickLost, \* history: the last sendto failed
  sendPc,   \* where send_order is
  packets,  \* packets that have arrived
  struck,   \* orders struck so far
  wire      \* contents of the frames transmitted

rxVars == <<stocked, fill, rx, held, released, packets>>
txVars == <<tx, comp, awake, kickLost, sendPc, wire>>
portalVars == <<phase, mem, struck, rxVars, txVars>>

Frames == 0 .. Stock - 1
Template == 0              \* hp_manager.data() is the start of the UMEM

(* What a frame holds, and the number in it: an order's cl_ord_id.         *)
Contents == [kind : {"garbage", "packet", "order"}, no : Nat]
Garbage == [kind |-> "garbage", no |-> 0]
Packet(n) == [kind |-> "packet", no |-> n]
Order(n) == [kind |-> "order", no |-> n]

PortalInit ==
  /\ phase = "new"
  /\ mem = [f \in Frames |-> Garbage]
  /\ stocked = 0 /\ fill = << >> /\ rx = << >> /\ held = {} /\ released = {} /\ packets = 0
  /\ tx = << >> /\ comp = 0 /\ awake = FALSE /\ kickLost = FALSE
  /\ sendPc = "idle" /\ wire = << >> /\ struck = 0

--------------------------------------------------------------------------------
(* Setup, by main.                                                         *)

MapMemoryRegion ==
  /\ phase = "new"
  /\ phase' \in {"mapped", "failed"}
  /\ UNCHANGED <<mem, struck, rxVars, txVars>>

OpenFails ==                     \* native and generic mode both refused
  /\ phase = "mapped"
  /\ phase' = "failed"
  /\ UNCHANGED <<mem, struck, rxVars, txVars>>

(* open in either mode, and the fill ring stocked with the first frames;   *)
(* where reserve gives no room for them the portal is open without.        *)
Open ==
  /\ phase = "mapped"
  /\ phase' = "open"
  /\ stocked' \in {0, Stock}
  /\ fill' = [i \in 1 .. stocked' |-> i - 1]
  /\ UNCHANGED <<mem, struck, rx, held, released, packets, txVars>>

(* SbeOrderBuilder::pre_bake at hp_manager.data(); main polls from then on. *)
PreBake ==
  /\ phase = "open"
  /\ phase' = "online"
  /\ mem' = [mem EXCEPT ![Template] = Order(0)]
  /\ UNCHANGED <<struck, rxVars, txVars>>

Up == phase \in {"open", "online"}

--------------------------------------------------------------------------------
(* Receiving.                                                              *)

NicReceive ==                    \* external
  /\ Up /\ packets < MaxPackets
  /\ fill # << >> /\ Len(rx) < Stock
  /\ packets' = packets + 1
  /\ mem' = [mem EXCEPT ![Head(fill)] = Packet(packets + 1)]
  /\ fill' = Tail(fill) /\ rx' = Append(rx, Head(fill))
  /\ UNCHANGED <<phase, struck, stocked, held, released, txVars>>

MutRefillOnPoll ==               \* the frame restocked as soon as it is polled
  /\ phase = "online" /\ rx # << >>
  /\ held' = held \cup {Head(rx)}
  /\ rx' = Tail(rx) /\ fill' = Append(fill, Head(rx))
  /\ UNCHANGED <<phase, mem, struck, stocked, released, packets, txVars>>

PollFrame ==
  /\ phase = "online" /\ rx # << >>
  /\ held' = held \cup {Head(rx)}
  /\ rx' = Tail(rx)
  /\ UNCHANGED <<phase, mem, struck, stocked, fill, released, packets, txVars>>

(* (void)addr: nothing goes back to the fill ring.                         *)
ReleaseFrame(f) ==
  /\ f \in held
  /\ held' = held \ {f} /\ released' = released \cup {f}
  /\ UNCHANGED <<phase, mem, struck, stocked, fill, rx, packets, txVars>>

--------------------------------------------------------------------------------
(* Sending: strike writes the template, send_order submits it.             *)

MutStrikeEmpty ==                \* strike leaves the order id as it was
  /\ phase = "online" /\ sendPc = "idle" /\ struck < MaxOrders
  /\ struck' = struck + 1
  /\ sendPc' = "complete"
  /\ UNCHANGED <<phase, mem, rxVars, tx, comp, awake, kickLost, wire>>

(* Writes cl_ord_id, price, quantity and side, and no other field: a       *)
(* template that a packet was received over stays that packet otherwise.   *)
Strike ==
  /\ phase = "online" /\ sendPc = "idle" /\ struck < MaxOrders
  /\ struck' = struck + 1
  /\ mem' = [mem EXCEPT ![Template].no = struck + 1]
  /\ sendPc' = "complete"
  /\ UNCHANGED <<phase, rxVars, tx, comp, awake, kickLost, wire>>

MutNeverComplete ==              \* complete_tx left out of send_order
  /\ sendPc = "complete"
  /\ sendPc' = "submit"
  /\ UNCHANGED <<phase, mem, struck, rxVars, tx, comp, awake, kickLost, wire>>

(* complete_tx: every completion there is is released.                     *)
CompleteTx ==
  /\ sendPc = "complete"
  /\ comp' = 0
  /\ sendPc' = "submit"
  /\ UNCHANGED <<phase, mem, struck, rxVars, tx, awake, kickLost, wire>>

(* reserve finds no room: EMPTY; otherwise the descriptor is submitted.    *)
SubmitOrder ==
  /\ sendPc = "submit"
  /\ \/ Len(tx) = Stock /\ sendPc' = "idle" /\ UNCHANGED tx
     \/ Len(tx) < Stock /\ tx' = Append(tx, Template) /\ sendPc' = "kick"
  /\ UNCHANGED <<phase, mem, struck, rxVars, comp, awake, kickLost, wire>>

MutNoKick ==                     \* the wakeup left out
  /\ sendPc = "kick"
  /\ sendPc' = "idle" /\ kickLost' = FALSE
  /\ UNCHANGED <<phase, mem, struck, rxVars, tx, comp, awake, wire>>

(* needs_wakeup: sendto, whose failure nobody sees.                        *)
Kick ==
  /\ sendPc = "kick"
  /\ \/ awake /\ UNCHANGED <<awake, kickLost>>
     \/ ~awake /\ awake' = TRUE /\ kickLost' = FALSE
     \/ ~awake /\ kickLost' = TRUE /\ UNCHANGED awake
  /\ sendPc' = "idle"
  /\ UNCHANGED <<phase, mem, struck, rxVars, tx, comp, wire>>

NicTransmit ==                   \* external: reads the frame as it is now
  /\ awake /\ tx # << >> /\ comp < Stock
  /\ wire' = Append(wire, mem[Head(tx)])
  /\ tx' = Tail(tx) /\ comp' = comp + 1
  /\ UNCHANGED <<phase, mem, struck, rxVars, awake, kickLost, sendPc>>

NicSleeps ==                     \* external: nothing it can do
  /\ awake /\ (tx = << >> \/ comp = Stock)
  /\ awake' = FALSE
  /\ UNCHANGED <<phase, mem, struck, rxVars, tx, comp, kickLost, sendPc, wire>>

--------------------------------------------------------------------------------
Setup   == MapMemoryRegion \/ OpenFails \/ Open \/ PreBake
Receive == NicReceive \/ PollFrame \/ \E f \in held : ReleaseFrame(f)
Send    == Strike \/ CompleteTx \/ SubmitOrder \/ Kick \/ NicTransmit \/ NicSleeps

PortalNext == Setup \/ Receive \/ Send

PortalSafety == PortalInit /\ [][PortalNext]_portalVars

(* send_order runs to its end, and a driver that was woken serves the ring. *)
PortalSpec ==
  PortalSafety /\ WF_portalVars(CompleteTx \/ SubmitOrder \/ Kick) /\ WF_portalVars(NicTransmit)

--------------------------------------------------------------------------------
(* The values of the variables.                                            *)
PortalTypeOK ==
  /\ phase \in {"new", "mapped", "open", "online", "failed"}
  /\ mem \in [Frames -> Contents] /\ stocked \in {0, Stock}
  /\ fill \in Seq(Frames) /\ rx \in Seq(Frames) /\ tx \in Seq(Frames)
  /\ held \subseteq Frames /\ released \subseteq Frames
  /\ comp \in 0 .. Stock /\ awake \in BOOLEAN /\ kickLost \in BOOLEAN
  /\ sendPc \in {"idle", "complete", "submit", "kick"}
  /\ packets \in 0 .. MaxPackets /\ struck \in 0 .. MaxOrders

InSeq(s) == {s[i] : i \in 1 .. Len(s)}

(* A frame is in one place: owned by the NIC, on the RX ring, with the     *)
(* client, or released, so that the NIC never writes a frame that poll     *)
(* handed out; and since release_frame gives none back, the frames open    *)
(* stocked are all that the portal ever receives.                          *)
FramesConserved ==
  Up => /\ Len(fill) + Len(rx) + Cardinality(held) + Cardinality(released) = stocked
        /\ InSeq(fill) \cup InSeq(rx) \cup held \cup released = 0 .. stocked - 1
        /\ packets <= stocked

PortalInv == PortalTypeOK /\ FramesConserved

(* A packet the client holds stays what the NIC received, in the order of  *)
(* arrival: only the template's frame is ever written by anyone else.      *)
HeldPacketsStable ==
  [][\A f \in held \ {Template} : mem'[f] = mem[f]]_portalVars

(* The orders on the TX ring and the completions not yet collected exceed  *)
(* the completion ring by one at most, since each send_order collects      *)
(* before it submits.  By one they may: then the driver is stopped by a    *)
(* full completion ring until the next send_order.                         *)
CompletionRoom == Len(tx) + comp <= Stock + 1

(* No wakeup is lost: outside send_order an order waits only for a driver  *)
(* that is awake, for room in the completion ring, or because sendto       *)
(* failed.                                                                 *)
NoLostWakeup ==
  sendPc = "idle" /\ tx # << >> => awake \/ comp = Stock \/ kickLost

(* A submitted order goes out, or waits for one of those two reasons.      *)
OrderLeaves ==
  \A n \in 1 .. MaxOrders :
    (Len(wire) + Len(tx) >= n) ~> (Len(wire) >= n \/ comp = Stock \/ kickLost)

(* The NIC reads the template when it transmits: an order in flight may    *)
(* leave as a later one, when strike rewrote it meanwhile, but as long as  *)
(* no packet was received over the template no transmission carries an     *)
(* order older than the one it was submitted for.                          *)
WireNeverStale ==
  \A i \in 1 .. Len(wire) : wire[i].kind = "order" => wire[i].no >= i

(* "Carve out a 'Hot Template' region from the HugePage memory" (main.cpp) *)
(* and "Pre-bakes constant fields into the HugePage template"              *)
(* (sbe_order_builder.hpp): from pre_bake on the region holds an order.    *)
TemplateKept == phase = "online" => mem[Template].kind = "order"
================================================================================
