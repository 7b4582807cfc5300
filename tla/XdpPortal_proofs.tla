---------------------------- MODULE XdpPortal_proofs ----------------------------
(***************************************************************************)
(* XdpPortal for any number of frames: every frame has one owner, what the *)
(* client holds is left alone, orders and completions never outgrow the    *)
(* completion ring by more than one, no wakeup is lost, and no order       *)
(* leaves older than it was submitted.                                     *)
(***************************************************************************)
EXTENDS XdpPortal, FiniteSetTheorems, SequenceTheorems, TLAPS

Polled == packets - Len(rx)      \* frames poll_frame has handed out

(* As nothing goes back to the fill ring, frames pass through the portal   *)
(* in the order of their addresses: those released or with the client are  *)
(* the first ones, then come those on the RX ring, then the fill ring.     *)
InOrder ==
  /\ ~Up => /\ packets = 0 /\ stocked = 0
            /\ fill = << >> /\ rx = << >> /\ held = {} /\ released = {}
  /\ Up => Len(fill) = stocked - packets
  /\ \A i \in 1 .. Len(fill) : fill[i] = packets + i - 1
  /\ Len(rx) <= packets
  /\ \A i \in 1 .. Len(rx) : rx[i] = Polled + i - 1
  /\ held \cap released = {} /\ held \cup released = 0 .. Polled - 1

(* Every order on the TX ring or past it has been struck, the one that     *)
(* send_order is about to submit comes on top, and the template holds the  *)
(* last one or a packet.                                                   *)
Submitted ==
  /\ phase # "online" => struck = 0 /\ tx = << >> /\ wire = << >> /\ sendPc = "idle"
  /\ wire \in Seq(Contents)
  /\ Len(tx) <= Stock /\ \A i \in 1 .. Len(tx) : tx[i] = Template
  /\ Len(wire) + Len(tx) <= struck
  /\ sendPc \in {"complete", "submit"} => Len(wire) + Len(tx) < struck
  /\ mem[Template].kind = "order" => mem[Template].no = struck

(* complete_tx leaves room for the order that is about to be submitted.    *)
RoomToSubmit == CompletionRoom /\ (sendPc = "submit" => Len(tx) + comp <= Stock)

PortalInd == PortalTypeOK /\ InOrder /\ Submitted /\ WireNeverStale /\ RoomToSubmit

--------------------------------------------------------------------------------
(* Sequences: what Append and Tail do to lengths and elements.             *)
LEMMA Appended ==
  ASSUME NEW S, NEW s \in Seq(S), NEW e \in S
  PROVE  /\ Append(s, e) \in Seq(S) /\ Len(s) \in Nat /\ Len(Append(s, e)) = Len(s) + 1
         /\ \A i \in 1 .. Len(s) : Append(s, e)[i] = s[i]
         /\ Append(s, e)[Len(s) + 1] = e
BY AppendProperties, LenProperties

LEMMA Shortened ==
  ASSUME NEW S, NEW s \in Seq(S), s # << >>
  PROVE  /\ Tail(s) \in Seq(S) /\ Len(s) \in Nat \ {0} /\ Len(Tail(s)) = Len(s) - 1
         /\ Head(s) = s[1] /\ Head(s) \in S
         /\ \A i \in 1 .. Len(s) - 1 : Tail(s)[i] = s[i + 1]
<1>1. Len(s) \in Nat \ {0} /\ s[1] \in S
  BY LenProperties, EmptySeq, ElementOfSeq
<1>2. Head(s) = s[1] /\ Tail(s) \in Seq(S) /\ Len(Tail(s)) = Len(s) - 1
      /\ \A i \in 1 .. Len(Tail(s)) : Tail(s)[i] = s[i + 1]
  BY HeadTailProperties
<1> QED
  BY <1>1, <1>2

LEMMA FrameFacts == Template \in Frames /\ Stock \in Nat /\ Stock > 0 /\ \A f \in Frames : f \in Nat
BY PortalAssumption DEF Template, Frames

(* The type invariant in two parts: the memory, and what is beside it.     *)
MemType == mem \in [Frames -> Contents]
RestType ==
  /\ phase \in {"new", "mapped", "open", "online", "failed"}
  /\ stocked \in {0, Stock} /\ fill \in Seq(Frames) /\ rx \in Seq(Frames) /\ tx \in Seq(Frames)
  /\ held \subseteq Frames /\ released \subseteq Frames
  /\ comp \in 0 .. Stock /\ awake \in BOOLEAN /\ kickLost \in BOOLEAN
  /\ sendPc \in {"idle", "complete", "submit", "kick"}
  /\ packets \in 0 .. MaxPackets /\ struck \in 0 .. MaxOrders

LEMMA TypeParts == PortalTypeOK <=> MemType /\ RestType
BY DEF PortalTypeOK, MemType, RestType

LEMMA ContentsHave ==
  /\ Garbage \in Contents
  /\ \A n \in Nat : Packet(n) \in Contents /\ Order(n) \in Contents
  /\ \A c \in Contents, n \in Nat :
       [c EXCEPT !.no = n] \in Contents /\ [c EXCEPT !.no = n].no = n
BY DEF Contents, Garbage, Packet, Order

LEMMA Kinds ==
  /\ Garbage.kind = "garbage"
  /\ \A n : Packet(n).kind = "packet" /\ Order(n).kind = "order" /\ Order(n).no = n
BY DEF Garbage, Packet, Order

--------------------------------------------------------------------------------
LEMMA InitPortalInd == PortalInit => PortalInd
<1> SUFFICES ASSUME PortalInit PROVE PortalInd
  OBVIOUS
<1>1. << >> \in Seq(Frames) /\ << >> \in Seq(Contents) /\ Len(<< >>) = 0
  BY EmptySeq
<1>2. PortalTypeOK
  <2>1. MemType
    BY ContentsHave DEF PortalInit, MemType
  <2>2. comp \in 0 .. Stock /\ packets \in 0 .. MaxPackets /\ struck \in 0 .. MaxOrders
    BY PortalAssumption DEF PortalInit
  <2>3. awake \in BOOLEAN /\ kickLost \in BOOLEAN
    BY Zenon DEF PortalInit
  <2>4. RestType
    BY <1>1, <2>2, <2>3 DEF PortalInit, RestType
  <2> QED
    BY <2>1, <2>4, TypeParts
<1>3. InOrder
  BY <1>1 DEF PortalInit, InOrder, Polled, Up
<1>4. Submitted
  BY <1>1, FrameFacts, Kinds DEF PortalInit, Submitted
<1>5. WireNeverStale /\ RoomToSubmit
  BY <1>1, FrameFacts DEF PortalInit, WireNeverStale, RoomToSubmit, CompletionRoom
<1> QED
  BY <1>2, <1>3, <1>4, <1>5 DEF PortalInd

--------------------------------------------------------------------------------
LEMMA SetupKeepsPortalInd == PortalInd /\ Setup => PortalInd'
<1> SUFFICES ASSUME PortalInd, Setup PROVE PortalInd'
  OBVIOUS
<1> USE DEF PortalInd
<1>1. CASE MapMemoryRegion \/ OpenFails
  <2>1. /\ phase' \in {"mapped", "failed"} /\ ~Up /\ ~Up' /\ phase # "online"
        /\ UNCHANGED <<mem, struck, stocked, fill, rx, held, released, packets, tx, comp, awake,
                       kickLost, sendPc, wire>>
    BY <1>1 DEF MapMemoryRegion, OpenFails, rxVars, txVars, Up
  <2>2. PortalTypeOK'
    BY <2>1 DEF PortalTypeOK
  <2>3. InOrder'
    BY <2>1 DEF InOrder, Polled
  <2>4. Submitted'
    BY <2>1 DEF Submitted
  <2> QED
    BY <2>1, <2>2, <2>3, <2>4 DEF WireNeverStale, RoomToSubmit, CompletionRoom
<1>2. CASE Open
  <2>1. /\ phase' = "open" /\ ~Up /\ Up' /\ phase # "online"
        /\ stocked' \in {0, Stock} /\ fill' = [i \in 1 .. stocked' |-> i - 1]
        /\ UNCHANGED <<mem, struck, rx, held, released, packets, tx, comp, awake,
                       kickLost, sendPc, wire>>
    BY <1>2 DEF Open, rxVars, txVars, Up
  <2>2. /\ fill' \in Seq(Frames) /\ Len(fill') = stocked'
        /\ \A i \in 1 .. stocked' : fill'[i] = i - 1
    <3>1. fill' \in [1 .. stocked' -> Frames] /\ stocked' \in Nat
      BY <2>1, FrameFacts DEF Frames
    <3> QED
      BY <2>1, <3>1, FrameFacts, IsASeq, LenProperties
  <2>3. packets = 0 /\ rx = << >> /\ held = {} /\ released = {}
    BY <2>1 DEF InOrder
  <2>4. PortalTypeOK'
    BY <2>1, <2>2 DEF PortalTypeOK
  <2>5. InOrder'
    BY <2>1, <2>2, <2>3, FrameFacts, EmptySeq DEF InOrder, Polled
  <2>6. Submitted'
    BY <2>1 DEF Submitted
  <2> QED
    BY <2>1, <2>4, <2>5, <2>6 DEF WireNeverStale, RoomToSubmit, CompletionRoom
<1>3. CASE PreBake
  <2>1. /\ phase = "open" /\ phase' = "online" /\ Up /\ Up'
        /\ mem' = [mem EXCEPT ![Template] = Order(0)]
        /\ UNCHANGED <<struck, stocked, fill, rx, held, released, packets, tx, comp, awake,
                       kickLost, sendPc, wire>>
    BY <1>3 DEF PreBake, rxVars, txVars, Up
  <2>2. PortalTypeOK'
    <3>1. Order(0) \in Contents
      BY ContentsHave, PortalAssumption
    <3>2. MemType'
      BY <2>1, <3>1, TypeParts DEF MemType
    <3>3. RestType'
      BY <2>1, TypeParts DEF RestType
    <3> QED
      BY <3>2, <3>3, TypeParts DEF MemType, RestType, PortalTypeOK
  <2>3. InOrder'
    BY <2>1 DEF InOrder, Polled
  <2>4. mem'[Template] = Order(0)
    BY <2>1, FrameFacts DEF PortalTypeOK
  <2>5. Submitted'
    BY <2>1, <2>4, Kinds DEF Submitted
  <2> QED
    BY <2>1, <2>2, <2>3, <2>5 DEF WireNeverStale, RoomToSubmit, CompletionRoom
<1> QED
  BY <1>1, <1>2, <1>3 DEF Setup

--------------------------------------------------------------------------------
(* A step that leaves the sending side alone, but for a packet that may    *)
(* have been written over the template.                                    *)
LEMMA SendingStays ==
  ASSUME PortalInd, UNCHANGED <<phase, struck, txVars>>, mem'[Template] = mem[Template]
                                                      \/ mem'[Template].kind # "order"
  PROVE  Submitted' /\ WireNeverStale' /\ RoomToSubmit'
BY DEF PortalInd, Submitted, WireNeverStale, RoomToSubmit, CompletionRoom, txVars

LEMMA ReceiveKeepsPortalInd == PortalInd /\ Receive => PortalInd'
<1> SUFFICES ASSUME PortalInd, Receive PROVE PortalInd'
  OBVIOUS
<1> USE DEF PortalInd
<1>0. /\ Len(fill) \in Nat /\ Len(rx) \in Nat /\ packets \in Nat
      /\ fill \in Seq(Frames) /\ rx \in Seq(Frames) /\ held \subseteq Frames
  BY LenProperties, PortalAssumption DEF PortalTypeOK
<1>1. CASE NicReceive
  <2>1. /\ Up /\ Up' /\ packets < MaxPackets /\ fill # << >> /\ packets' = packets + 1
        /\ mem' = [mem EXCEPT ![Head(fill)] = Packet(packets + 1)]
        /\ fill' = Tail(fill) /\ rx' = Append(rx, Head(fill))
        /\ UNCHANGED <<phase, struck, stocked, held, released, txVars>>
    BY <1>1 DEF NicReceive, Up
  <2>2. /\ Tail(fill) \in Seq(Frames) /\ Len(fill) \in Nat \ {0}
        /\ Len(Tail(fill)) = Len(fill) - 1 /\ Head(fill) = fill[1] /\ Head(fill) \in Frames
        /\ \A i \in 1 .. Len(fill) - 1 : Tail(fill)[i] = fill[i + 1]
    BY <1>0, <2>1, Shortened
  <2>3. /\ rx' \in Seq(Frames) /\ Len(rx') = Len(rx) + 1
        /\ \A i \in 1 .. Len(rx) : rx'[i] = rx[i]
        /\ rx'[Len(rx) + 1] = Head(fill)
    BY <1>0, <2>1, <2>2, Appended
  <2>4. Head(fill) = packets
    BY <1>0, <2>2 DEF InOrder
  <2>5. PortalTypeOK'
    <3>1. packets' \in 1 .. MaxPackets
      BY <1>0, <2>1, PortalAssumption
    <3>2. Packet(packets + 1) \in Contents
      BY <1>0, ContentsHave
    <3>3. MemType'
      BY <2>1, <2>2, <3>2, TypeParts DEF MemType
    <3>4. RestType'
      BY <2>1, <2>2, <2>3, <3>1, TypeParts DEF RestType, txVars
    <3> QED
      BY <3>3, <3>4 DEF MemType, RestType, PortalTypeOK
  <2>6. InOrder'
    <3>1. Polled' = Polled
      BY <1>0, <2>1, <2>3 DEF Polled
    <3>2. \A i \in 1 .. Len(fill') : fill'[i] = packets' + i - 1
      BY <1>0, <2>1, <2>2 DEF InOrder
    <3>3. \A i \in 1 .. Len(rx') : rx'[i] = Polled + i - 1
      <4> SUFFICES ASSUME NEW i \in 1 .. Len(rx') PROVE rx'[i] = Polled + i - 1
        OBVIOUS
      <4>1. CASE i \in 1 .. Len(rx)
        BY <2>3, <4>1 DEF InOrder
      <4>2. CASE i = Len(rx) + 1
        BY <1>0, <2>3, <2>4, <4>2 DEF Polled
      <4> QED
        BY <1>0, <2>3, <4>1, <4>2
    <3>4. Len(fill') = stocked' - packets' /\ Len(rx') <= packets'
      BY <1>0, <2>1, <2>2, <2>3, FrameFacts DEF InOrder, PortalTypeOK
    <3> QED
      BY <2>1, <3>1, <3>2, <3>3, <3>4 DEF InOrder
  <2>7. mem'[Template] = mem[Template] \/ mem'[Template].kind # "order"
    BY <2>1, FrameFacts, Kinds DEF PortalTypeOK
  <2> QED
    BY <2>1, <2>5, <2>6, <2>7, SendingStays
<1>2. CASE PollFrame
  <2>1. /\ Up /\ Up' /\ rx # << >> /\ held' = held \cup {Head(rx)} /\ rx' = Tail(rx)
        /\ UNCHANGED <<phase, mem, struck, stocked, fill, released, packets, txVars>>
    BY <1>2 DEF PollFrame, Up
  <2>2. /\ Tail(rx) \in Seq(Frames) /\ Len(rx) \in Nat \ {0}
        /\ Len(Tail(rx)) = Len(rx) - 1 /\ Head(rx) = rx[1] /\ Head(rx) \in Frames
        /\ \A i \in 1 .. Len(rx) - 1 : Tail(rx)[i] = rx[i + 1]
    BY <1>0, <2>1, Shortened
  <2>3. PortalTypeOK'
    BY <1>0, <2>1, <2>2 DEF PortalTypeOK, txVars
  <2>4. InOrder'
    <3>1. Polled' = Polled + 1 /\ Polled \in Nat /\ Head(rx) = Polled
      BY <1>0, <2>1, <2>2 DEF Polled, InOrder
    <3>2. \A i \in 1 .. Len(rx') : rx'[i] = Polled' + i - 1
      BY <1>0, <2>1, <2>2, <3>1 DEF InOrder
    <3>3. held' \cap released' = {} /\ held' \cup released' = 0 .. Polled' - 1
      BY <2>1, <3>1 DEF InOrder
    <3> QED
      BY <1>0, <2>1, <2>2, <3>2, <3>3 DEF InOrder
  <2> QED
    BY <2>1, <2>3, <2>4, SendingStays
<1>3. CASE \E f \in held : ReleaseFrame(f)
  <2>1. PICK f \in held : ReleaseFrame(f)
    BY <1>3
  <2>2. /\ held' = held \ {f} /\ released' = released \cup {f}
        /\ UNCHANGED <<phase, mem, struck, stocked, fill, rx, packets, txVars>>
    BY <2>1 DEF ReleaseFrame
  <2>3. PortalTypeOK'
    BY <1>0, <2>2 DEF PortalTypeOK, txVars
  <2>4. InOrder'
    BY <2>2 DEF InOrder, Polled, Up
  <2> QED
    BY <2>2, <2>3, <2>4, SendingStays
<1> QED
  BY <1>1, <1>2, <1>3 DEF Receive

--------------------------------------------------------------------------------
LEMMA SendKeepsPortalInd == PortalInd /\ Send => PortalInd'
<1> SUFFICES ASSUME PortalInd, Send PROVE PortalInd'
  OBVIOUS
<1> USE DEF PortalInd
<1>0. /\ tx \in Seq(Frames) /\ Len(tx) \in Nat /\ wire \in Seq(Contents) /\ Len(wire) \in Nat
      /\ comp \in Nat /\ comp <= Stock /\ Stock \in Nat /\ struck \in Nat
      /\ mem \in [Frames -> Contents]
  BY LenProperties, PortalAssumption DEF PortalTypeOK, Submitted
<1>1. UNCHANGED <<phase, rxVars>>
  BY DEF Send, Strike, CompleteTx, SubmitOrder, Kick, NicTransmit, NicSleeps
<1>2. InOrder'
  BY <1>1 DEF InOrder, Polled, Up, rxVars
<1>3. CASE Strike
  <2>1. /\ phase = "online" /\ sendPc = "idle" /\ struck < MaxOrders /\ struck' = struck + 1
        /\ mem' = [mem EXCEPT ![Template].no = struck + 1] /\ sendPc' = "complete"
        /\ UNCHANGED <<tx, comp, awake, kickLost, wire>>
    BY <1>3 DEF Strike
  <2>3. /\ mem[Template] \in Contents /\ struck' \in Nat
        /\ mem' = [mem EXCEPT ![Template] = [mem[Template] EXCEPT !.no = struck']]
        /\ mem'[Template] \in Contents /\ mem'[Template].no = struck'
    <3>1. mem[Template] \in Contents /\ struck' \in Nat
      BY <1>0, <2>1, FrameFacts
    <3>2. mem' = [mem EXCEPT ![Template] = [mem[Template] EXCEPT !.no = struck']]
      BY <2>1
    <3>3. mem'[Template] = [mem[Template] EXCEPT !.no = struck']
      BY <1>0, <3>2, FrameFacts
    <3> QED
      BY <3>1, <3>2, <3>3, ContentsHave
  <2>2. PortalTypeOK'
    <3>1. struck' \in 0 .. MaxOrders
      BY <1>0, <2>1, PortalAssumption
    <3>2. MemType'
      BY <1>0, <2>1, <2>3 DEF MemType
    <3>3. RestType'
      BY <1>1, <2>1, <3>1, TypeParts DEF RestType, rxVars
    <3> QED
      BY <3>2, <3>3 DEF MemType, RestType, PortalTypeOK
  <2>4. Submitted'
    BY <1>0, <1>1, <2>1, <2>3, Kinds DEF Submitted
  <2> QED
    BY <1>2, <2>1, <2>2, <2>4 DEF WireNeverStale, RoomToSubmit, CompletionRoom
<1>4. CASE CompleteTx
  <2>1. /\ sendPc = "complete" /\ comp' = 0 /\ sendPc' = "submit"
        /\ UNCHANGED <<mem, struck, tx, awake, kickLost, wire>>
    BY <1>4 DEF CompleteTx
  <2>2. PortalTypeOK'
    <3>1. MemType'
      BY <1>0, <2>1 DEF MemType
    <3>2. RestType'
      BY <1>0, <1>1, <2>1, TypeParts DEF RestType, rxVars
    <3> QED
      BY <3>1, <3>2 DEF MemType, RestType, PortalTypeOK
  <2>3. Submitted' /\ WireNeverStale'
    BY <1>1, <2>1 DEF Submitted, WireNeverStale
  <2>4. RoomToSubmit'
    BY <1>0, <2>1 DEF RoomToSubmit, CompletionRoom, Submitted
  <2> QED
    BY <1>2, <2>2, <2>3, <2>4
<1>5. CASE SubmitOrder
  <2>1. sendPc = "submit" /\ UNCHANGED <<mem, struck, comp, awake, kickLost, wire>>
    BY <1>5 DEF SubmitOrder
  <2>2. CASE sendPc' = "idle" /\ UNCHANGED tx
    BY <1>0, <1>1, <1>2, <2>1, <2>2
       DEF PortalTypeOK, Submitted, WireNeverStale, RoomToSubmit, CompletionRoom, rxVars
  <2>3. CASE Len(tx) < Stock /\ tx' = Append(tx, Template) /\ sendPc' = "kick"
    <3>1. /\ tx' \in Seq(Frames) /\ Len(tx') = Len(tx) + 1
          /\ \A i \in 1 .. Len(tx) : tx'[i] = tx[i]
          /\ tx'[Len(tx) + 1] = Template
      BY <1>0, <2>3, Appended, FrameFacts
    <3>2. PortalTypeOK'
      BY <1>1, <2>1, <2>3, <3>1 DEF PortalTypeOK, rxVars
    <3>3. \A i \in 1 .. Len(tx') : tx'[i] = Template
      BY <1>0, <3>1 DEF Submitted
    <3>4. Submitted'
      BY <1>0, <1>1, <2>1, <2>3, <3>1, <3>3 DEF Submitted
    <3>5. WireNeverStale' /\ RoomToSubmit'
      BY <1>0, <2>1, <2>3, <3>1 DEF WireNeverStale, RoomToSubmit, CompletionRoom
    <3> QED
      BY <1>2, <3>2, <3>4, <3>5
  <2> QED
    BY <1>5, <2>2, <2>3 DEF SubmitOrder
<1>6. CASE Kick \/ NicSleeps
  <2>1. /\ awake' \in BOOLEAN /\ kickLost' \in BOOLEAN
        /\ sendPc' \in {sendPc, "idle"} /\ (sendPc # "kick" => sendPc' = sendPc)
        /\ UNCHANGED <<mem, struck, tx, comp, wire>>
    BY <1>6 DEF Kick, NicSleeps, PortalTypeOK
  <2>2. PortalTypeOK'
    BY <1>1, <2>1 DEF PortalTypeOK, rxVars
  <2>3. Submitted' /\ WireNeverStale' /\ RoomToSubmit'
    BY <1>1, <2>1 DEF Submitted, WireNeverStale, RoomToSubmit, CompletionRoom
  <2> QED
    BY <1>2, <2>2, <2>3
<1>7. CASE NicTransmit
  <2>1. /\ tx # << >> /\ comp < Stock /\ wire' = Append(wire, mem[Head(tx)])
        /\ tx' = Tail(tx) /\ comp' = comp + 1
        /\ UNCHANGED <<mem, struck, awake, kickLost, sendPc>>
    BY <1>7 DEF NicTransmit
  <2>2. /\ tx' \in Seq(Frames) /\ Len(tx) \in Nat \ {0} /\ Len(tx') = Len(tx) - 1
        /\ Head(tx) = Template /\ \A i \in 1 .. Len(tx') : tx'[i] = Template
    BY <1>0, <2>1, Shortened DEF Submitted
  <2>3. mem[Template] \in Contents
    BY <1>0, FrameFacts
  <2>4. /\ wire' \in Seq(Contents) /\ Len(wire') = Len(wire) + 1
        /\ \A i \in 1 .. Len(wire) : wire'[i] = wire[i]
        /\ wire'[Len(wire) + 1] = mem[Template]
    BY <1>0, <2>1, <2>2, <2>3, Appended
  <2>5. PortalTypeOK'
    <3>1. MemType'
      BY <1>0, <2>1 DEF MemType
    <3>2. RestType'
      BY <1>0, <1>1, <2>1, <2>2, TypeParts DEF RestType, rxVars
    <3> QED
      BY <3>1, <3>2 DEF MemType, RestType, PortalTypeOK
  <2>6. Submitted'
    BY <1>0, <1>1, <2>1, <2>2, <2>4 DEF Submitted
  <2>7. WireNeverStale'
    <3> SUFFICES ASSUME NEW i \in 1 .. Len(wire'), wire'[i].kind = "order"
                 PROVE  wire'[i].no >= i
      BY DEF WireNeverStale
    <3>1. CASE i \in 1 .. Len(wire)
      BY <2>4, <3>1 DEF WireNeverStale
    <3>2. CASE i = Len(wire) + 1
      BY <1>0, <2>2, <2>4, <3>2 DEF Submitted
    <3> QED
      BY <1>0, <2>4, <3>1, <3>2
  <2>8. RoomToSubmit'
    BY <1>0, <2>1, <2>2 DEF RoomToSubmit, CompletionRoom
  <2> QED
    BY <1>2, <2>5, <2>6, <2>7, <2>8
<1> QED
  BY <1>3, <1>4, <1>5, <1>6, <1>7 DEF Send

LEMMA StepKeepsPortalInd == PortalInd /\ [PortalNext]_portalVars => PortalInd'
<1> SUFFICES ASSUME PortalInd, [PortalNext]_portalVars PROVE PortalInd'
  OBVIOUS
<1>1. CASE UNCHANGED portalVars
  <2>1. UNCHANGED <<phase, mem, struck, stocked, fill, rx, held, released, packets, tx, comp, awake,
                    kickLost, sendPc, wire>>
    BY <1>1 DEF portalVars, rxVars, txVars
  <2> QED
    BY <2>1 DEF PortalInd, PortalTypeOK, InOrder, Polled, Up, Submitted, WireNeverStale,
                RoomToSubmit, CompletionRoom
<1> QED
  BY <1>1, SetupKeepsPortalInd, ReceiveKeepsPortalInd, SendKeepsPortalInd DEF PortalNext

LEMMA PortalIndHolds == PortalSafety => []PortalInd
BY InitPortalInd, StepKeepsPortalInd, PTL DEF PortalSafety

--------------------------------------------------------------------------------
LEMMA InOrderConserves == PortalInd => FramesConserved
<1> SUFFICES ASSUME PortalInd, Up PROVE
       /\ Len(fill) + Len(rx) + Cardinality(held) + Cardinality(released) = stocked
       /\ InSeq(fill) \cup InSeq(rx) \cup held \cup released = 0 .. stocked - 1
       /\ packets <= stocked
  BY DEF FramesConserved
<1>1. /\ Len(fill) \in Nat /\ Len(rx) \in Nat /\ packets \in Nat /\ Stock \in Nat
      /\ stocked \in Nat /\ stocked <= Stock
      /\ fill \in Seq(Frames) /\ rx \in Seq(Frames)
      /\ held \subseteq Frames /\ released \subseteq Frames
  BY LenProperties, PortalAssumption DEF PortalInd, PortalTypeOK
<1>2. /\ Len(fill) = stocked - packets /\ Len(rx) <= packets /\ Polled = packets - Len(rx)
      /\ held \cap released = {} /\ held \cup released = 0 .. Polled - 1
  BY DEF PortalInd, InOrder, Polled
<1>3. packets <= stocked
  BY <1>1, <1>2
<1>4. Cardinality(held) + Cardinality(released) = Polled
  <2>1. IsFiniteSet(Frames)
    BY <1>1, FS_Interval DEF Frames
  <2>2. IsFiniteSet(held) /\ IsFiniteSet(released)
    BY <1>1, <2>1, FS_Subset
  <2>3. Cardinality(held \cap released) = 0
    BY <1>2, FS_EmptySet
  <2>4. Cardinality(0 .. Polled - 1) = Polled
    <3>1. PICK n \in Nat : Polled = n
      BY <1>1, <1>2
    <3>2. Cardinality(0 .. n - 1) = IF 0 > n - 1 THEN 0 ELSE n - 1 - 0 + 1
      BY <3>1, FS_Interval
    <3> QED
      BY <3>1, <3>2
  <2>5. Cardinality(held) \in Nat /\ Cardinality(released) \in Nat
    BY <2>2, FS_CardinalityType
  <2>6. Cardinality(held \cup released)
          = Cardinality(held) + Cardinality(released) - Cardinality(held \cap released)
    BY <2>2, FS_Union
  <2>7. Polled = Cardinality(held) + Cardinality(released) - 0
    BY <1>2, <2>3, <2>4, <2>6
  <2> QED
    BY <2>5, <2>7
<1>5. InSeq(fill) \cup InSeq(rx) \cup held \cup released = 0 .. stocked - 1
  <2>1. InSeq(fill) \subseteq 0 .. stocked - 1 /\ InSeq(rx) \subseteq 0 .. stocked - 1
    <3>1. \A i \in 1 .. Len(fill) : fill[i] = packets + i - 1
      BY DEF PortalInd, InOrder
    <3>2. \A i \in 1 .. Len(rx) : rx[i] = Polled + i - 1
      BY DEF PortalInd, InOrder
    <3>3. \A i \in 1 .. Len(fill) : fill[i] \in 0 .. stocked - 1
      BY <1>1, <1>2, <3>1
    <3>4. \A i \in 1 .. Len(rx) : rx[i] \in 0 .. stocked - 1
      BY <1>1, <1>2, <1>3, <3>2
    <3> QED
      BY <3>3, <3>4 DEF InSeq
  <2>2. held \cup released \subseteq 0 .. stocked - 1
    BY <1>1, <1>2, <1>3
  <2>3. ASSUME NEW f \in 0 .. stocked - 1
        PROVE  f \in InSeq(fill) \cup InSeq(rx) \cup held \cup released
    <3>0. f \in Nat /\ f < stocked
      BY <1>1
    <3>1. CASE f < Polled
      BY <1>1, <1>2, <3>0, <3>1
    <3>2. CASE Polled <= f /\ f < packets
      <4>1. f - Polled + 1 \in 1 .. Len(rx)
        BY <1>1, <1>2, <3>0, <3>2
      <4>2. rx[f - Polled + 1] = f
        BY <1>1, <1>2, <3>0, <4>1 DEF PortalInd, InOrder
      <4> QED
        BY <4>1, <4>2 DEF InSeq
    <3>3. CASE packets <= f
      <4>1. f - packets + 1 \in 1 .. Len(fill)
        BY <1>1, <1>2, <3>0, <3>3
      <4>2. fill[f - packets + 1] = f
        BY <1>1, <3>0, <4>1 DEF PortalInd, InOrder
      <4> QED
        BY <4>1, <4>2 DEF InSeq
    <3> QED
      BY <1>1, <1>2, <3>0, <3>1, <3>2, <3>3
  <2> QED
    BY <2>1, <2>2, <2>3
<1>6. Cardinality(held) + Cardinality(released) \in Nat
      /\ Len(fill) + Len(rx) + (Cardinality(held) + Cardinality(released)) = stocked
  BY <1>1, <1>2, <1>4
<1>7. Cardinality(held) \in Nat /\ Cardinality(released) \in Nat
  <2>1. IsFiniteSet(Frames)
    BY <1>1, FS_Interval DEF Frames
  <2> QED
    BY <1>1, <2>1, FS_Subset, FS_CardinalityType
<1>8. Len(fill) + Len(rx) + Cardinality(held) + Cardinality(released) = stocked
  BY <1>1, <1>6, <1>7
<1> QED
  BY <1>3, <1>5, <1>8

(* Every frame has one owner, and as many packets as frames were stocked   *)
(* are all that arrive.                                                    *)
THEOREM FramesHaveOneOwner == PortalSafety => []PortalInv
<1>1. PortalInd => PortalInv
  BY InOrderConserves DEF PortalInv, PortalInd
<1> QED
  BY <1>1, PortalIndHolds, PTL

(* The orders on the TX ring and the completions not yet collected exceed  *)
(* the completion ring by one at most.                                     *)
THEOREM CompletionRingHasRoom == PortalSafety => []CompletionRoom
<1>1. PortalInd => CompletionRoom
  BY DEF PortalInd, RoomToSubmit
<1> QED
  BY <1>1, PortalIndHolds, PTL

(* No transmission carries an order older than its own.                    *)
THEOREM NoStaleOrder == PortalSafety => []WireNeverStale
<1>1. PortalInd => WireNeverStale
  BY DEF PortalInd
<1> QED
  BY <1>1, PortalIndHolds, PTL

--------------------------------------------------------------------------------
(* Nobody writes a packet the client holds: the NIC's next frame comes     *)
(* after all that were polled, and the order builder has the template.     *)
THEOREM HeldPacketsAreStable == PortalSafety => HeldPacketsStable
<1>1. ASSUME PortalInd, [PortalNext]_portalVars
      PROVE  [\A f \in held \ {Template} : mem'[f] = mem[f]]_portalVars
  <2> SUFFICES ASSUME PortalNext, NEW f \in held \ {Template} PROVE mem'[f] = mem[f]
    BY <1>1
  <2>1. f \in Frames /\ mem \in [Frames -> Contents]
    BY <1>1 DEF PortalInd, PortalTypeOK
  <2>2. CASE NicReceive
    <3>1. fill \in Seq(Frames) /\ fill # << >> /\ mem' = [mem EXCEPT ![Head(fill)] = Packet(packets + 1)]
      BY <1>1, <2>2 DEF NicReceive, PortalInd, PortalTypeOK
    <3>2. Head(fill) = fill[1] /\ Len(fill) \in Nat \ {0}
      BY <3>1, Shortened
    <3>3. packets \in Nat /\ Len(rx) \in Nat
      BY <1>1, LenProperties, PortalAssumption DEF PortalInd, PortalTypeOK
    <3>4. Head(fill) = packets /\ f < packets
      BY <1>1, <3>2, <3>3 DEF PortalInd, InOrder, Polled
    <3> QED
      BY <2>1, <3>1, <3>3, <3>4 DEF Frames
  <2>3. CASE PreBake \/ Strike
    BY <2>1, <2>3 DEF PreBake, Strike
  <2>4. CASE ~(NicReceive \/ PreBake \/ Strike)
    BY <2>4 DEF PortalNext, Setup, Receive, Send, MapMemoryRegion, OpenFails, Open, PollFrame,
                ReleaseFrame, CompleteTx, SubmitOrder, Kick, NicTransmit, NicSleeps
  <2> QED
    BY <2>2, <2>3, <2>4
<1> QED
  BY <1>1, PortalIndHolds, PTL DEF PortalSafety, HeldPacketsStable

--------------------------------------------------------------------------------
(* What an order on the TX ring waits for, at each place of send_order.    *)
Waits == awake \/ comp = Stock \/ kickLost
WakeInv ==
  /\ sendPc \in {"idle", "complete"} /\ tx # << >> => Waits
  /\ sendPc = "submit" /\ Len(tx) = Stock => Waits

LEMMA StepKeepsWakeInv ==
  ASSUME Stock > 1, PortalInd, PortalInd', WakeInv, [PortalNext]_portalVars
  PROVE  WakeInv'
<1> USE DEF WakeInv, Waits
<1>0. /\ tx \in Seq(Frames) /\ Len(tx) \in Nat /\ comp \in Nat /\ comp <= Stock /\ Stock \in Nat
      /\ Len(tx) + comp <= Stock + 1 /\ (tx = << >> <=> Len(tx) = 0)
  BY LenProperties, EmptySeq, PortalAssumption
     DEF PortalInd, PortalTypeOK, RoomToSubmit, CompletionRoom
<1>1. CASE Setup \/ Receive \/ UNCHANGED portalVars
  <2>1. UNCHANGED <<tx, comp, awake, kickLost, sendPc>>
    BY <1>1 DEF Setup, Receive, MapMemoryRegion, OpenFails, Open, PreBake, NicReceive, PollFrame,
                ReleaseFrame, portalVars, txVars
  <2> QED
    BY <2>1
<1>2. CASE Strike
  BY <1>2 DEF Strike
<1>3. CASE CompleteTx
  <2>1. sendPc = "complete" /\ sendPc' = "submit" /\ UNCHANGED <<tx, awake, kickLost>>
    BY <1>3 DEF CompleteTx
  <2>2. Len(tx) = Stock => tx # << >> /\ comp # Stock
    BY <1>0
  <2> QED
    BY <2>1, <2>2
<1>4. CASE SubmitOrder
  BY <1>4 DEF SubmitOrder
<1>5. CASE Kick
  BY <1>5 DEF Kick
<1>6. CASE NicTransmit
  BY <1>6 DEF NicTransmit
<1>7. CASE NicSleeps
  <2>1. /\ tx = << >> \/ comp = Stock
        /\ UNCHANGED <<tx, comp, kickLost, sendPc>>
    BY <1>7 DEF NicSleeps
  <2>2. Len(tx) = Stock => tx # << >>
    BY <1>0
  <2> QED
    BY <2>1, <2>2
<1> QED
  BY <1>1, <1>2, <1>3, <1>4, <1>5, <1>6, <1>7 DEF PortalNext, Send

(* No wakeup is lost, if the rings have room for two: with one entry an    *)
(* order refused for want of room goes home without a kick, after          *)
(* complete_tx made the room that a sleeping driver was waiting for.       *)
THEOREM WakeupsAreKept == ASSUME Stock > 1 PROVE PortalSafety => []NoLostWakeup
<1>1. PortalInit => WakeInv
  BY DEF PortalInit, WakeInv
<1>2. PortalInd /\ PortalInd' /\ WakeInv /\ [PortalNext]_portalVars => WakeInv'
  BY StepKeepsWakeInv
<1>3. WakeInv => NoLostWakeup
  BY DEF WakeInv, Waits, NoLostWakeup
<1> QED
  BY <1>1, <1>2, <1>3, PortalIndHolds, PTL DEF PortalSafety
================================================================================
