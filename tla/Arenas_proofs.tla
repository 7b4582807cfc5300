---------------------------- MODULE Arenas_proofs ----------------------------
(***************************************************************************)
(* The two arenas, each for itself.                                        *)
(*                                                                         *)
(* BumpArena for any number of threads, any capacity and any requests: the *)
(* blocks of BuanArena::allocate are sound.  SharedArena for any number of *)
(* lives, clients and slots: the market arena that outlives its processes. *)
(***************************************************************************)
EXTENDS BumpArena, SharedArena, TLAPS

--------------------------------------------------------------------------------
(* BumpArena.                                                              *)

Block == [lo : Nat, bytes : Nat, nth : Nat, epoch : Nat]

(* No oversized request has passed from this block on.                     *)
Trusted(b) == \A d \in blocks : b.nth <= d.nth => ~Oversized(d)

(* Blocks are numbered as they are handed out, and the trusted ones of     *)
(* this epoch lie below the offset: the exchange takes place only at the   *)
(* offset it was computed from, so the next block begins at or above it.   *)
Below ==
  /\ blocks \subseteq Block
  /\ \A b \in blocks : /\ b.nth < claims /\ b.epoch <= epoch
                       /\ b.epoch = epoch /\ Trusted(b) => b.lo + b.bytes <= offset

BumpInd == BlocksSound /\ Below

(* What (x + 63) & ~63 is: the next multiple of 64.                        *)
LEMMA AlignUpIsNextLine ==
  ASSUME NEW x \in Nat
  PROVE  /\ AlignUp(x) \in Nat /\ x <= AlignUp(x) /\ AlignUp(x) <= x + 63
         /\ AlignUp(x) % 64 = 0
BY DEF AlignUp

(* A number below the word is not changed by it, and none leaves it.       *)
LEMMA NoWrap ==
  ASSUME NEW x \in Nat, NEW w \in Nat, x < w
  PROVE  x % w = x
OBVIOUS

LEMMA WordRange ==
  ASSUME NEW x \in Nat, NEW w \in Nat, 0 < w
  PROVE  x % w \in Nat
OBVIOUS

LEMMA ProductInNat ==
  ASSUME NEW x \in Nat, NEW y \in Nat
  PROVE  x * y \in Nat
OBVIOUS

--------------------------------------------------------------------------------
LEMMA InitBumpInd == BumpInit => BumpInd
BY BumpAssumption DEF BumpInit, BumpInd, BlocksSound, BumpTypeOK, InRegion, Disjoint, Below

(* Steps that hand nothing out and leave the offset alone.                 *)
LEMMA LocalStepKeepsBumpInd ==
  ASSUME BumpInd, NEW t \in Threads, Load(t) \/ OutOfMemory(t) \/ Retry(t)
  PROVE  BumpInd'
<1>1. UNCHANGED <<offset, blocks, claims, epoch>>
  BY DEF Load, OutOfMemory, Retry
<1>2. BumpTypeOK'
  BY BumpAssumption DEF BumpInd, BlocksSound, BumpTypeOK, Load, OutOfMemory, Retry
<1> QED
  BY <1>1, <1>2 DEF BumpInd, BlocksSound, InRegion, Disjoint, Below, Trusted, Oversized

(* What one exchange hands out and where it leaves the offset: the block   *)
(* of a request the region could meet ends at the new offset.              *)
LEMMA ExchangeClaims ==
  ASSUME BumpInd, NEW t \in Threads, Exchange(t)
  PROVE  \E new \in Block :
           /\ blocks' = blocks \cup {new} /\ new.nth = claims /\ new.epoch = epoch
           /\ new.lo % 64 = 0 /\ offset <= new.lo
           /\ ~Oversized(new) => offset' = new.lo + new.bytes
           /\ offset' \in Nat /\ offset' <= Capacity
<1> DEFINE new == [lo |-> AlignUp(current[t]), bytes |-> Asked(t), nth |-> claims, epoch |-> epoch]
<1>1. /\ current[t] = offset /\ offset \in Nat /\ offset <= Capacity /\ count[t] \in Nat
      /\ claims \in Nat /\ epoch \in Nat
  BY BumpAssumption DEF Exchange, BumpInd, BlocksSound, BumpTypeOK
<1>2. /\ Capacity \in Nat /\ Word \in Nat /\ SizeOf \in Nat /\ 2 * Capacity + 64 <= Word
  BY BumpAssumption
<1>3. /\ AlignUp(current[t]) \in Nat /\ offset <= AlignUp(current[t])
      /\ AlignUp(current[t]) <= offset + 63 /\ AlignUp(current[t]) % 64 = 0
  BY <1>1, AlignUpIsNextLine
<1>4. Asked(t) \in Nat
  BY <1>1, <1>2, ProductInNat DEF Asked
<1>5. BytesNeeded(t) \in Nat
  BY <1>2, <1>4, WordRange DEF BytesNeeded
<1>6. End(t) \in Nat
  <2>1. AlignUp(current[t]) + BytesNeeded(t) \in Nat /\ 0 < Word
    BY <1>2, <1>3, <1>5
  <2> QED
    BY <1>2, <2>1, WordRange DEF End
<1>7. offset' = End(t) /\ End(t) <= Capacity /\ blocks' = blocks \cup {new}
  BY DEF Exchange, Take, Fits
<1>8. new \in Block /\ new.lo = AlignUp(current[t]) /\ new.bytes = Asked(t)
      /\ new.nth = claims /\ new.epoch = epoch
  BY <1>1, <1>3, <1>4 DEF Block
<1>9. ASSUME ~Oversized(new) PROVE offset' = new.lo + new.bytes
  <2>1. Asked(t) <= Capacity
    BY <1>2, <1>4, <1>8, <1>9 DEF Oversized
  <2>2. BytesNeeded(t) = Asked(t)
    <3>1. Asked(t) < Word
      BY <1>2, <1>4, <2>1
    <3> QED
      BY <1>2, <1>4, <3>1, NoWrap DEF BytesNeeded
  <2>3. End(t) = AlignUp(current[t]) + Asked(t)
    <3>1. /\ AlignUp(current[t]) + Asked(t) < Word
          /\ AlignUp(current[t]) + Asked(t) \in Nat
      BY <1>1, <1>2, <1>3, <1>4, <2>1
    <3> QED
      BY <1>2, <2>2, <3>1, NoWrap DEF End
  <2> QED
    BY <1>7, <1>8, <2>3
<1> HIDE DEF new
<1> QED
  BY <1>3, <1>6, <1>7, <1>8, <1>9

LEMMA ExchangeKeepsBumpInd ==
  ASSUME BumpInd, NEW t \in Threads, Exchange(t)
  PROVE  BumpInd'
<1>1. PICK new \in Block :
        /\ blocks' = blocks \cup {new} /\ new.nth = claims /\ new.epoch = epoch
        /\ new.lo % 64 = 0 /\ offset <= new.lo
        /\ ~Oversized(new) => offset' = new.lo + new.bytes
        /\ offset' \in Nat /\ offset' <= Capacity
  BY ExchangeClaims
<1>2. /\ offset \in Nat /\ Capacity \in Nat /\ claims \in Nat /\ epoch \in Nat
      /\ claims' = claims + 1 /\ epoch' = epoch
  BY BumpAssumption DEF Exchange, Take, BumpInd, BlocksSound, BumpTypeOK
<1>3. new.lo \in Nat /\ new.bytes \in Nat
  BY DEF Block
<1>4. \A b \in blocks : /\ b \in Block /\ b.lo \in Nat /\ b.bytes \in Nat /\ b.nth \in Nat
                        /\ b.nth < claims /\ b.epoch <= epoch
  BY DEF BumpInd, Below, Block
<1>5. BumpTypeOK'
  BY <1>1, <1>2 DEF Exchange, Take, BumpInd, BlocksSound, BumpTypeOK
<1>6. InRegion'
  BY <1>1 DEF BumpInd, BlocksSound, InRegion, Oversized
<1>7. ASSUME NEW b \in blocks, \A d \in blocks' : b.nth <= d.nth /\ d.nth < claims => ~Oversized(d)
      PROVE  Trusted(b)
  BY <1>1, <1>4, <1>7 DEF Trusted
<1>8. \A b \in blocks : b.epoch = epoch /\ Trusted(b) => b.lo + b.bytes <= offset
  BY DEF BumpInd, Below
<1>9. Disjoint'
  <2> SUFFICES ASSUME NEW b \in blocks', NEW c \in blocks', b.epoch = c.epoch, b.nth < c.nth,
                      \A d \in blocks' : b.nth <= d.nth /\ d.nth < c.nth => ~Oversized(d)
               PROVE  b.lo + b.bytes <= c.lo
    BY DEF Disjoint, Oversized
  <2>1. CASE b \in blocks /\ c \in blocks
    BY <1>1, <2>1 DEF BumpInd, BlocksSound, Disjoint
  <2>2. CASE b \in blocks /\ c = new
    <3>1. Trusted(b)
      BY <1>1, <1>7, <2>2
    <3>2. b.lo + b.bytes <= offset
      BY <1>1, <1>8, <2>2, <3>1
    <3> QED
      BY <1>1, <1>2, <1>3, <1>4, <2>2, <3>2
  <2>3. CASE b = new
    BY <1>1, <1>2, <1>4, <2>3
  <2> QED
    BY <1>1, <2>1, <2>2, <2>3
<1>10. Below'
  <2> SUFFICES ASSUME NEW b \in blocks'
               PROVE  /\ b \in Block /\ b.nth < claims' /\ b.epoch <= epoch'
                      /\ b.epoch = epoch' /\ Trusted(b)' => b.lo + b.bytes <= offset'
    BY DEF Below, Trusted
  <2>1. CASE b \in blocks
    <3>1. b \in Block /\ b.nth < claims' /\ b.epoch <= epoch'
      BY <1>2, <1>4, <2>1
    <3>2. ASSUME b.epoch = epoch', Trusted(b)' PROVE b.lo + b.bytes <= offset'
      <4>1. \A d \in blocks' : b.nth <= d.nth => ~Oversized(d)
        BY <3>2 DEF Trusted, Oversized
      <4>2. Trusted(b)
        BY <1>1, <4>1 DEF Trusted
      <4>3. b.lo + b.bytes <= offset
        BY <1>2, <1>8, <2>1, <3>2, <4>2
      <4>4. b.nth <= new.nth
        BY <1>1, <1>2, <1>4, <2>1
      <4>5. offset' = new.lo + new.bytes
        BY <1>1, <4>1, <4>4
      <4> QED
        BY <1>1, <1>2, <1>3, <1>4, <2>1, <4>3, <4>5
    <3> QED
      BY <3>1, <3>2
  <2>2. CASE b = new
    <3>1. b \in Block /\ b.nth < claims' /\ b.epoch <= epoch'
      BY <1>1, <1>2, <2>2
    <3>2. ASSUME Trusted(b)' PROVE b.lo + b.bytes <= offset'
      <4>1. ~Oversized(new)
        BY <1>1, <1>2, <2>2, <3>2 DEF Trusted, Oversized
      <4> QED
        BY <1>1, <1>3, <2>2, <4>1
    <3> QED
      BY <3>1, <3>2
  <2> QED
    BY <1>1, <2>1, <2>2
<1> QED
  BY <1>5, <1>6, <1>9, <1>10 DEF BumpInd, BlocksSound

LEMMA ResetKeepsBumpInd ==
  ASSUME BumpInd, Reset
  PROVE  BumpInd'
<1>1. /\ offset' = 0 /\ epoch' = epoch + 1 /\ epoch \in Nat
      /\ UNCHANGED <<at, count, current, blocks, claims>>
  BY DEF Reset, BumpInd, BlocksSound, BumpTypeOK
<1>2. BumpTypeOK'
  BY <1>1, BumpAssumption DEF BumpInd, BlocksSound, BumpTypeOK
<1>3. Below'
  <2> SUFFICES ASSUME NEW b \in blocks
               PROVE  b \in Block /\ b.nth < claims /\ b.epoch <= epoch' /\ b.epoch # epoch'
    BY <1>1 DEF Below
  <2>1. b \in Block /\ b.epoch \in Nat /\ b.nth < claims /\ b.epoch <= epoch
    BY DEF BumpInd, Below, Block
  <2> QED
    BY <1>1, <2>1
<1> QED
  BY <1>1, <1>2, <1>3 DEF BumpInd, BlocksSound, InRegion, Disjoint, Oversized

--------------------------------------------------------------------------------
(* For any threads, capacity, object size and requests, those that wrap    *)
(* included: what BuanArena::allocate hands out is aligned; the block of a *)
(* request the region could meet lies in it; and two blocks of one epoch   *)
(* overlap only if an oversized request passed between them.               *)
THEOREM BlocksAreSound == BumpSpec => []BlocksSound
<1>1. BumpInd /\ [BumpNext]_bumpVars => BumpInd'
  <2> SUFFICES ASSUME BumpInd, [BumpNext]_bumpVars
               PROVE  BumpInd'
    OBVIOUS
  <2>1. ASSUME NEW t \in Threads, Load(t) \/ OutOfMemory(t) \/ Retry(t) PROVE BumpInd'
    BY <2>1, LocalStepKeepsBumpInd
  <2>2. ASSUME NEW t \in Threads, Exchange(t) PROVE BumpInd'
    BY <2>2, ExchangeKeepsBumpInd
  <2>3. CASE Reset
    BY <2>3, ResetKeepsBumpInd
  <2>4. CASE UNCHANGED bumpVars
    BY <2>4 DEF bumpVars, BumpInd, BlocksSound, BumpTypeOK, InRegion, Disjoint, Below, Trusted,
               Oversized
  <2> QED
    BY <2>1, <2>2, <2>3, <2>4 DEF BumpNext
<1>2. BumpInd => BlocksSound
  BY DEF BumpInd
<1> QED
  BY InitBumpInd, <1>1, <1>2, PTL DEF BumpSpec

--------------------------------------------------------------------------------
(* SharedArena.                                                            *)

(* There is one object, and it is the one every life and client has.       *)
Has(e) == Alive(e) /\ pc[e] # "noarena"

OneObject ==
  /\ \A e \in Life : arena[e] \in {0, named} /\ (Has(e) => arena[e] \in Object)
  /\ \A c \in Clients : view[c] \in {0, named}

(* A client whose object has no size attached before it had one.           *)
KnownEarly == \A c \in Clients : client[c] = "attached" => view[c] \in sized \/ c \in early

(* Two running lives know of each other.                                   *)
Mutual == \A e, f \in Life : Alive(e) /\ Alive(f) /\ e # f => f \in company[e]

Alone(e) == Alive(e) /\ company[e] = {}

(* While a life alone zeroes the slots, those behind it are empty; and     *)
(* what a tick of it has stored or read is its own.                        *)
Swept == \A e \in Life : Alone(e) /\ pc[e] = "zeroing" =>
           \A i \in Ticker : i < cursor[e] => slots[arena[e]][i] = Empty
MidTick == \A e \in Life :
  /\ Alone(e) /\ pc[e] \in {"price", "features"} => slots[arena[e]][cursor[e]].price = e
  /\ Alone(e) /\ pc[e] = "features" => held[e] \subseteq {e}

SharedInd == SharedInv /\ NoGhosts /\ OneObject /\ KnownEarly /\ Mutual /\ Swept /\ MidTick

--------------------------------------------------------------------------------
LEMMA InitSharedInd == ArenaInit => SharedInd
BY ArenaAssumption
   DEF ArenaInit, SharedInd, SharedInv, ArenaTypeOK, NoFaultOnceSized, ViewFollowsEngine, NoGhosts,
       OneObject, Has, KnownEarly, Mutual, Alone, Alive, Swept, MidTick, Life, Object, Ticker, Slot,
       Empty, Ticking

--------------------------------------------------------------------------------
(* Types.                                                                  *)

(* The arena keeps its shape when one slot of it is stored.                *)
LEMMA StoreKeepsShape ==
  ASSUME NEW f \in [Object -> [Ticker -> Slot]], NEW o \in Object, NEW i \in Ticker, NEW s \in Slot
  PROVE  [f EXCEPT ![o][i] = s] \in [Object -> [Ticker -> Slot]]
<1>1. [f[o] EXCEPT ![i] = s] \in [Ticker -> Slot]
  OBVIOUS
<1>2. [f EXCEPT ![o] = [f[o] EXCEPT ![i] = s]] \in [Object -> [Ticker -> Slot]]
  BY <1>1
<1> QED
  BY <1>2

LEMMA StepKeepsArenaTypeOK ==
  ASSUME SharedInd, ArenaNext
  PROVE  ArenaTypeOK'
<1> USE DEF ArenaTypeOK, Goes, Leaves, Ticking
<1>1. ArenaTypeOK /\ OneObject
  BY DEF SharedInd, SharedInv
<1>2. ASSUME NEW e \in Life, Open(e) PROVE ArenaTypeOK'
  <2>1. named' \in Object
    BY <1>1, <1>2 DEF Open, Object
  <2>2. company' \in [Life -> SUBSET Life]
    BY <1>1, <1>2 DEF Open, Starts, Company
  <2> QED
    BY <1>1, <1>2, <2>1, <2>2 DEF Open, clientVars
<1>3. ASSUME NEW e \in Life, Truncate(e) \/ Map(e) PROVE ArenaTypeOK'
  <2>1. arena[e] \in Object
    BY <1>1, <1>3 DEF OneObject, Has, Alive, Truncate, Map
  <2>2. 1 \in Ticker
    BY ArenaAssumption DEF Ticker
  <2> QED
    BY <1>1, <1>3, <2>1, <2>2 DEF Truncate, Map, clientVars
<1>4. ASSUME NEW e \in Life, Zero(e) PROVE ArenaTypeOK'
  <2>1. arena[e] \in Object
    BY <1>1, <1>4 DEF OneObject, Has, Alive, Zero
  <2>2. slots' \in [Object -> [Ticker -> Slot]]
    <3>1. Empty \in Slot
      BY DEF Empty, Slot
    <3>2. slots' = [slots EXCEPT ![arena[e]][cursor[e]] = Empty] /\ cursor[e] \in Ticker
      BY <1>1, <1>4 DEF Zero
    <3> QED
      BY <1>1, <2>1, <3>1, <3>2, StoreKeepsShape
  <2>3. cursor' \in [Life -> Ticker]
    <3>1. 1 \in Ticker /\ (cursor[e] # Tickers => cursor[e] + 1 \in Ticker)
      <4>1. cursor[e] \in Ticker
        BY <1>1
      <4> QED
        BY <4>1, ArenaAssumption DEF Ticker
    <3> QED
      BY <1>1, <1>4, <3>1 DEF Zero
  <2> QED
    BY <1>1, <1>4, <2>2, <2>3 DEF Zero, clientVars
<1>5. ASSUME NEW e \in Life, TickPrice(e) PROVE ArenaTypeOK'
  <2>1. arena[e] \in Object
    BY <1>1, <1>5 DEF OneObject, Has, Alive, TickPrice
  <2>2. PICK i \in Ticker : /\ slots' = [slots EXCEPT ![arena[e]][i].price = e]
                            /\ cursor' = [cursor EXCEPT ![e] = i]
    BY <1>5 DEF TickPrice
  <2>3. slots' \in [Object -> [Ticker -> Slot]]
    <3>1. slots' = [slots EXCEPT ![arena[e]][i] = [slots[arena[e]][i] EXCEPT !.price = e]]
      BY <2>2
    <3>2. slots[arena[e]][i] \in Slot
      BY <1>1, <2>1
    <3>3. [slots[arena[e]][i] EXCEPT !.price = e] \in Slot
      BY <3>2 DEF Slot
    <3> QED
      BY <1>1, <2>1, <3>1, <3>3, StoreKeepsShape
  <2> QED
    BY <1>1, <1>5, <2>2, <2>3 DEF TickPrice, clientVars
<1>6. ASSUME NEW e \in Life, TickLoad(e) PROVE ArenaTypeOK'
  <2>1. arena[e] \in Object
    BY <1>1, <1>6 DEF OneObject, Has, Alive, TickLoad
  <2>2. slots[arena[e]][cursor[e]].features \in SUBSET Life
    BY <1>1, <2>1 DEF Slot
  <2> QED
    BY <1>1, <1>6, <2>2 DEF TickLoad, clientVars
<1>7. ASSUME NEW e \in Life, TickFeatures(e) PROVE ArenaTypeOK'
  <2>1. arena[e] \in Object
    BY <1>1, <1>7 DEF OneObject, Has, Alive, TickFeatures
  <2>2. slots' \in [Object -> [Ticker -> Slot]]
    <3> DEFINE s == slots[arena[e]][cursor[e]]
    <3>1. slots' = [slots EXCEPT ![arena[e]][cursor[e]] = [s EXCEPT !.features = held[e] \cup {e}]]
      BY <1>7 DEF TickFeatures
    <3>2. s \in Slot /\ cursor[e] \in Ticker /\ held[e] \cup {e} \in SUBSET Life
      BY <1>1, <2>1
    <3>3. [s EXCEPT !.features = held[e] \cup {e}] \in Slot
      BY <3>2 DEF Slot
    <3> QED
      BY <1>1, <2>1, <3>1, <3>2, <3>3, StoreKeepsShape
  <2>3. 1 \in Ticker
    BY ArenaAssumption DEF Ticker
  <2> QED
    BY <1>1, <1>7, <2>2, <2>3 DEF TickFeatures, clientVars
<1>8. ASSUME NEW e \in Life, Ends(e) PROVE ArenaTypeOK'
  <2>1. 1 \in Ticker
    BY ArenaAssumption DEF Ticker
  <2> QED
    BY <1>1, <1>8, <2>1 DEF Ends, clientVars
<1>9. ASSUME NEW c \in Clients, Attach(c) \/ Read(c) PROVE ArenaTypeOK'
  BY <1>1, <1>9 DEF Attach, Read, lifeVars
<1>10. ASSUME NEW e \in Life, OpenFails(e) PROVE ArenaTypeOK'
  <2>1. company' \in [Life -> SUBSET Life]
    BY <1>1, <1>10 DEF OpenFails, Starts, Company
  <2> QED
    BY <1>1, <1>10, <2>1 DEF OpenFails, clientVars
<1>11. ASSUME NEW e \in Life, AllocateFails(e) PROVE ArenaTypeOK'
  BY <1>1, <1>11 DEF AllocateFails, clientVars
<1> QED
  BY <1>2, <1>3, <1>4, <1>5, <1>6, <1>7, <1>8, <1>9, <1>10, <1>11
     DEF ArenaNext, Construct, Tick, Use

--------------------------------------------------------------------------------
(* The object and its clients.                                             *)

(* Once it has an object the name keeps it, and a size is never taken back. *)
LEMMA ObjectStays ==
  ASSUME SharedInd, ArenaNext
  PROVE  (named # 0 => named' = named) /\ sized \subseteq sized'
BY DEF ArenaNext, Construct, Tick, Use, Open, OpenFails, AllocateFails, Truncate, Map, Zero,
       TickPrice, TickLoad, TickFeatures, Ends, Attach, Read

LEMMA StepKeepsOneObject ==
  ASSUME SharedInd, ArenaNext
  PROVE  OneObject' /\ ViewFollowsEngine'
<1>1. /\ ArenaTypeOK /\ OneObject
  BY DEF SharedInd, SharedInv
<1>2. \A e \in Life : arena'[e] \in {0, named'} /\ (Has(e)' => arena'[e] \in Object)
  <2>1. ASSUME NEW e \in Life, Open(e), NEW f \in Life
        PROVE  arena'[f] \in {0, named'} /\ (Has(f)' => arena'[f] \in Object)
    <3>1. named' \in Object /\ (named # 0 => named' = named)
      BY <1>1, <2>1 DEF Open, ArenaTypeOK, Object
    <3>2. CASE f = e
      BY <1>1, <2>1, <3>1, <3>2 DEF Open, ArenaTypeOK
    <3>3. CASE f # e
      <4>1. arena'[f] = arena[f] /\ pc'[f] = pc[f]
        BY <1>1, <2>1, <3>3 DEF Open, Goes, ArenaTypeOK
      <4>2. arena[f] \in {0, named} /\ (Has(f) => arena[f] \in Object) /\ 0 \notin Object
        BY <1>1 DEF OneObject, Object, Life
      <4> QED
        BY <3>1, <4>1, <4>2 DEF Alive, Has
    <3> QED
      BY <3>2, <3>3
  <2>2. ASSUME NEW e \in Life, ~Open(e), Construct(e) \/ Tick(e), NEW f \in Life
        PROVE  arena'[f] \in {0, named'} /\ (Has(f)' => arena'[f] \in Object)
    <3>1. UNCHANGED <<named, arena>> /\ (Has(f)' => Has(f))
      BY <1>1, <2>2 DEF Construct, Tick, OpenFails, AllocateFails, Truncate, Map, Zero, TickPrice,
                        TickLoad, TickFeatures, Goes, Leaves, Has, Alive, ArenaTypeOK
    <3> QED
      BY <1>1, <3>1 DEF OneObject
  <2>3. ASSUME NEW e \in Life, Ends(e), NEW f \in Life
        PROVE  arena'[f] \in {0, named'} /\ (Has(f)' => arena'[f] \in Object)
    BY <1>1, <2>3 DEF Ends, Leaves, Goes, Has, Alive, OneObject, ArenaTypeOK
  <2>4. ASSUME NEW c \in Clients, Use(c), NEW f \in Life
        PROVE  arena'[f] \in {0, named'} /\ (Has(f)' => arena'[f] \in Object)
    BY <1>1, <2>4 DEF Use, Attach, Read, lifeVars, Has, Alive, OneObject
  <2> QED
    BY <2>1, <2>2, <2>3, <2>4 DEF ArenaNext
<1>3. \A c \in Clients : view'[c] \in {0, named'}
  <2>1. ASSUME NEW d \in Clients, Use(d), NEW c \in Clients PROVE view'[c] \in {0, named'}
    BY <1>1, <2>1 DEF Use, Attach, Read, OneObject, ArenaTypeOK
  <2>2. ASSUME NEW e \in Life, Construct(e) \/ Tick(e) \/ Ends(e), NEW c \in Clients
        PROVE  view'[c] \in {0, named'}
    <3>1. view' = view
      BY <2>2 DEF Construct, Tick, Ends, Open, OpenFails, AllocateFails, Truncate, Map, Zero,
                  TickPrice, TickLoad, TickFeatures, clientVars
    <3>2. named # 0 => named' = named
      BY ObjectStays
    <3> QED
      BY <1>1, <3>1, <3>2 DEF OneObject
  <2> QED
    BY <2>1, <2>2 DEF ArenaNext
<1>4. OneObject'
  BY <1>2, <1>3 DEF OneObject, Object, Life
<1>5. ViewFollowsEngine'
  <2>1. \A e \in Life : pc'[e] \in Ticking => arena'[e] \in Object
    BY <1>2 DEF Ticking, Has, Alive
  <2>2. 0 \notin Object
    BY DEF Object, Life
  <2> QED
    BY <1>2, <1>3, <2>1, <2>2 DEF ViewFollowsEngine, Ticking
<1> QED
  BY <1>4, <1>5

LEMMA StepKeepsKnownEarly ==
  ASSUME SharedInd, ArenaNext
  PROVE  KnownEarly' /\ NoFaultOnceSized'
<1>1. ArenaTypeOK /\ KnownEarly /\ NoFaultOnceSized
  BY DEF SharedInd, SharedInv
<1>2. ASSUME NEW e \in Life, Construct(e) \/ Tick(e) \/ Ends(e)
      PROVE  KnownEarly' /\ NoFaultOnceSized'
  <2>1. UNCHANGED clientVars
    BY <1>2 DEF Construct, Tick, Ends, Open, OpenFails, AllocateFails, Truncate, Map, Zero,
                TickPrice, TickLoad, TickFeatures
  <2> QED
    BY <1>1, <2>1, ObjectStays DEF clientVars, KnownEarly, NoFaultOnceSized
<1>3. ASSUME NEW c \in Clients, Attach(c) PROVE KnownEarly' /\ NoFaultOnceSized'
  BY <1>1, <1>3 DEF Attach, KnownEarly, NoFaultOnceSized, ArenaTypeOK
<1>4. ASSUME NEW c \in Clients, Read(c) PROVE KnownEarly' /\ NoFaultOnceSized'
  BY <1>1, <1>4 DEF Read, KnownEarly, NoFaultOnceSized, ArenaTypeOK
<1> QED
  BY <1>2, <1>3, <1>4 DEF ArenaNext, Use

--------------------------------------------------------------------------------
(* Lives and their slots.                                                  *)

LEMMA AloneIsOnly ==
  ASSUME Mutual, NEW e \in Life, NEW f \in Life, Alone(f), Alive(e)
  PROVE  e = f
BY DEF Mutual, Alone

LEMMA OpenKeepsSlots ==
  ASSUME SharedInd, NEW e \in Life, Open(e) \/ OpenFails(e)
  PROVE  Mutual' /\ Swept' /\ MidTick' /\ NoGhosts'
<1>1. ArenaTypeOK /\ Mutual /\ Swept /\ MidTick /\ NoGhosts
  BY DEF SharedInd, SharedInv
<1>2. /\ Company(e) /\ UNCHANGED <<slots, cursor, held>>
      /\ \E label \in {"opened", "noarena"} : pc' = [pc EXCEPT ![e] = label]
      /\ \E object \in {named', arena[e]} : arena' = [arena EXCEPT ![e] = object]
  <2>1. CASE Open(e)
    BY <2>1 DEF Open, Starts, Goes
  <2>2. CASE OpenFails(e)
    <3>1. arena' = [arena EXCEPT ![e] = arena[e]]
      BY <1>1, <2>2 DEF OpenFails, ArenaTypeOK
    <3> QED
      BY <2>2, <3>1 DEF OpenFails, Starts, Goes
  <2> QED
    BY <2>1, <2>2
<1>3. \A f \in Life : f # e => pc'[f] = pc[f] /\ arena'[f] = arena[f]
  BY <1>1, <1>2 DEF ArenaTypeOK
<1>4. pc'[e] \in {"opened", "noarena"} /\ company'[e] = {g \in Life : Alive(g)}
  BY <1>1, <1>2 DEF ArenaTypeOK, Company
<1>5. \A f \in Life : f # e /\ Alive(f) => company'[f] = company[f] \cup {e}
  BY <1>2 DEF Company
<1>6. \A f \in Life : Alive(f)' /\ f # e => Alive(f)
  BY <1>3 DEF Alive
<1>7. Mutual'
  <2> SUFFICES ASSUME NEW f \in Life, NEW g \in Life, Alive(f)', Alive(g)', f # g
               PROVE  g \in company'[f]
    BY DEF Mutual
  <2>1. CASE f = e
    BY <2>1, <1>4, <1>6
  <2>2. CASE f # e /\ g = e
    BY <2>2, <1>5, <1>6
  <2>3. CASE f # e /\ g # e
    BY <2>3, <1>1, <1>5, <1>6 DEF Mutual
  <2> QED
    BY <2>1, <2>2, <2>3
<1>8. \A f \in Life : Alone(f)' => f = e
  BY <1>5, <1>6 DEF Alone
<1> QED
  <2>1. Swept' /\ MidTick'
    BY <1>4, <1>8 DEF Swept, MidTick
  <2>2. NoGhosts'
    BY <1>4, <1>8 DEF NoGhosts, Ticking, Alone, Alive
  <2> QED
    BY <1>7, <2>1, <2>2

(* A step of a life that does not open: the others go on as they were.     *)
LEMMA CompanyStays ==
  ASSUME SharedInd, NEW e \in Life, ~Open(e), ~OpenFails(e),
         Construct(e) \/ Tick(e) \/ Ends(e)
  PROVE  /\ Mutual' /\ Alive(e)
         /\ \A f \in Life : Alone(f)' => f = e /\ Alone(e)
<1>1. ArenaTypeOK /\ Mutual
  BY DEF SharedInd, SharedInv
<1>2. /\ Alive(e)
      /\ \A f \in Life : Alive(f)' => Alive(f) /\ company'[f] = company[f]
  BY <1>1 DEF Construct, Tick, Ends, AllocateFails, Truncate, Map, Zero, TickPrice,
              TickLoad, TickFeatures, Goes, Leaves, Alive, ArenaTypeOK
<1> QED
  BY <1>1, <1>2, AloneIsOnly DEF Mutual, Alone

LEMMA LifeKeepsSlots ==
  ASSUME SharedInd, NEW e \in Life, ~Open(e), ~OpenFails(e),
         Construct(e) \/ Tick(e) \/ Ends(e)
  PROVE  Mutual' /\ Swept' /\ MidTick' /\ NoGhosts'
<1>1. ArenaTypeOK /\ OneObject /\ Swept /\ MidTick /\ NoGhosts
  BY DEF SharedInd, SharedInv
<1>2. Mutual' /\ Alive(e) /\ \A f \in Life : Alone(f)' => f = e /\ Alone(e)
  BY CompanyStays
<1>3. pc[e] # "noarena" => arena[e] \in Object
  BY <1>1, <1>2 DEF OneObject, Has
<1> SUFFICES ASSUME Alone(e)', Alone(e)
             PROVE  /\ pc'[e] = "zeroing" =>
                         \A i \in Ticker : i < cursor'[e] => slots'[arena'[e]][i] = Empty
                    /\ pc'[e] \in {"price", "features"} =>
                         slots'[arena'[e]][cursor'[e]].price = e
                    /\ pc'[e] = "features" => held'[e] \subseteq {e}
                    /\ pc'[e] \in Ticking => \A i \in Ticker : Own(e, i)'
  <2>1. \A f \in Life : pc'[f] \in Ticking /\ company'[f] = {} => Alone(f)'
    BY DEF Alone, Alive, Ticking
  <2> QED
    BY <1>2, <2>1 DEF Swept, MidTick, NoGhosts
<1>4. /\ pc[e] = "zeroing" => \A i \in Ticker : i < cursor[e] => slots[arena[e]][i] = Empty
      /\ pc[e] \in {"price", "features"} => slots[arena[e]][cursor[e]].price = e
      /\ pc[e] = "features" => held[e] \subseteq {e}
      /\ pc[e] \in Ticking => \A i \in Ticker : Own(e, i)
  BY <1>1 DEF Swept, MidTick, NoGhosts, Alone
<1>5. CASE AllocateFails(e) \/ Truncate(e)
  <2>1. pc'[e] \in {"noarena", "sized"}
    BY <1>1, <1>5 DEF AllocateFails, Truncate, Goes, ArenaTypeOK
  <2> QED
    BY <2>1 DEF Ticking
<1>6. CASE Map(e)
  <2>1. pc'[e] = "zeroing" /\ cursor'[e] = 1
    BY <1>1, <1>6 DEF Map, Goes, ArenaTypeOK
  <2> QED
    BY <2>1 DEF Ticking, Ticker
<1>7. CASE Zero(e)
  <2>1. /\ slots' = [slots EXCEPT ![arena[e]][cursor[e]] = Empty] /\ arena' = arena
        /\ pc[e] = "zeroing" /\ cursor[e] \in Ticker
    BY <1>1, <1>7 DEF Zero, ArenaTypeOK
  <2>2. \A i \in Ticker : slots'[arena[e]][i] = IF i = cursor[e] THEN Empty ELSE slots[arena[e]][i]
    BY <1>1, <1>3, <2>1 DEF ArenaTypeOK
  <2>3. \A i \in Ticker : i <= cursor[e] => slots'[arena[e]][i] = Empty
    BY <1>4, <2>1, <2>2 DEF Ticker
  <2>4. CASE cursor[e] = Tickers
    <3>1. pc'[e] = "up" /\ cursor'[e] = 1
      BY <1>1, <1>7, <2>4 DEF Zero, Goes, ArenaTypeOK
    <3>2. \A i \in Ticker : slots'[arena'[e]][i] = Empty
      BY <2>1, <2>3, <2>4, ArenaAssumption DEF Ticker
    <3>3. \A i \in Ticker : Own(e, i)'
      <4>1. e # 0
        BY DEF Life
      <4> QED
        BY <3>1, <3>2, <4>1 DEF Own, Empty
    <3> QED
      BY <3>1, <3>3
  <2>5. CASE cursor[e] # Tickers
    <3>1. pc'[e] = "zeroing" /\ cursor'[e] = cursor[e] + 1
      BY <1>1, <1>7, <2>5 DEF Zero, ArenaTypeOK
    <3>2. \A i \in Ticker : i < cursor'[e] => slots'[arena'[e]][i] = Empty
      BY <2>1, <2>3, <3>1, ArenaAssumption DEF Ticker
    <3> QED
      BY <3>1, <3>2 DEF Ticking
  <2> QED
    BY <2>4, <2>5
<1>8. CASE TickPrice(e)
  <2>1. PICK k \in Ticker : /\ slots' = [slots EXCEPT ![arena[e]][k].price = e]
                            /\ cursor' = [cursor EXCEPT ![e] = k]
    BY <1>8 DEF TickPrice
  <2>2. /\ pc[e] = "up" /\ pc'[e] = "price" /\ cursor'[e] = k
        /\ UNCHANGED <<arena, held>>
    BY <1>1, <1>8, <2>1 DEF TickPrice, Goes, ArenaTypeOK
  <2>3. \A i \in Ticker : i # k => slots'[arena[e]][i] = slots[arena[e]][i]
    BY <1>1, <1>3, <2>1, <2>2 DEF ArenaTypeOK
  <2>4. /\ slots'[arena[e]][k].price = e
        /\ slots'[arena[e]][k].features = slots[arena[e]][k].features
    BY <1>1, <1>3, <2>1, <2>2 DEF ArenaTypeOK, Slot
  <2>6. \A i \in Ticker : Own(e, i)'
    <3>1. \A i \in Ticker : Own(e, i) /\ e # 0
      BY <1>4, <2>2 DEF Ticking, Life
    <3> QED
      BY <2>2, <2>3, <2>4, <3>1 DEF Own
  <2> QED
    BY <2>2, <2>4, <2>6
<1>9. CASE TickLoad(e)
  <2>1. /\ pc[e] = "price" /\ pc'[e] = "features"
        /\ held'[e] = slots[arena[e]][cursor[e]].features
        /\ UNCHANGED <<slots, arena, cursor>> /\ cursor[e] \in Ticker
    BY <1>1, <1>9 DEF TickLoad, Goes, ArenaTypeOK
  <2>2. \A i \in Ticker : Own(e, i)
    BY <1>4, <2>1 DEF Ticking
  <2>3. held'[e] \subseteq {e}
    BY <2>1, <2>2 DEF Own
  <2>4. \A i \in Ticker : Own(e, i)'
    BY <2>1, <2>2 DEF Own
  <2> QED
    BY <1>4, <2>1, <2>3, <2>4
<1>10. CASE TickFeatures(e)
  <2>1. /\ pc[e] = "features" /\ pc'[e] = "up" /\ arena' = arena /\ cursor[e] \in Ticker
        /\ slots' = [slots EXCEPT ![arena[e]][cursor[e]].features = held[e] \cup {e}]
    BY <1>1, <1>10 DEF TickFeatures, Goes, Leaves, ArenaTypeOK
  <2>2. \A i \in Ticker : i # cursor[e] => slots'[arena[e]][i] = slots[arena[e]][i]
    BY <1>1, <1>3, <2>1 DEF ArenaTypeOK
  <2>3. /\ slots'[arena[e]][cursor[e]].features = {e}
        /\ slots'[arena[e]][cursor[e]].price = e
    <3>1. held[e] \cup {e} = {e} /\ slots[arena[e]][cursor[e]].price = e
      BY <1>4, <2>1
    <3> QED
      BY <1>1, <1>3, <2>1, <3>1 DEF ArenaTypeOK, Slot
  <2>4. \A i \in Ticker : Own(e, i)'
    <3>1. \A i \in Ticker : Own(e, i) /\ e # 0
      BY <1>4, <2>1 DEF Ticking, Life
    <3> QED
      BY <2>1, <2>2, <2>3, <3>1 DEF Own
  <2> QED
    BY <2>1, <2>4
<1>11. CASE Ends(e)
  <2>1. pc'[e] = "ended"
    BY <1>1, <1>11 DEF Ends, Goes, Leaves, ArenaTypeOK
  <2> QED
    BY <2>1 DEF Ticking
<1> QED
  BY <1>2, <1>5, <1>6, <1>7, <1>8, <1>9, <1>10, <1>11 DEF Construct, Tick

LEMMA ClientKeepsSlots ==
  ASSUME SharedInd, NEW c \in Clients, Use(c)
  PROVE  Mutual' /\ Swept' /\ MidTick' /\ NoGhosts'
<1>1. UNCHANGED <<slots, lifeVars>>
  BY DEF Use, Attach, Read
<1> QED
  BY <1>1 DEF SharedInd, Mutual, Swept, MidTick, NoGhosts, Own, Alone, Alive, lifeVars

--------------------------------------------------------------------------------
LEMMA NextKeepsSharedInd == SharedInd /\ [ArenaNext]_arenaVars => SharedInd'
<1>1. ASSUME SharedInd, ArenaNext PROVE SharedInd'
  <2>1. Mutual' /\ Swept' /\ MidTick' /\ NoGhosts'
    BY <1>1, OpenKeepsSlots, LifeKeepsSlots, ClientKeepsSlots DEF ArenaNext
  <2> QED
    BY <1>1, <2>1, StepKeepsArenaTypeOK, StepKeepsOneObject, StepKeepsKnownEarly
       DEF SharedInd, SharedInv
<1>2. ASSUME SharedInd, UNCHANGED arenaVars PROVE SharedInd'
  <2>1. UNCHANGED <<named, sized, slots, pc, arena, cursor, held, client, view, early, company>>
    BY <1>2 DEF arenaVars, lifeVars, clientVars
  <2>2. SharedInv'
    BY <1>2, <2>1 DEF SharedInd, SharedInv, ArenaTypeOK, NoFaultOnceSized, ViewFollowsEngine
  <2>3. OneObject' /\ KnownEarly' /\ Mutual'
    BY <1>2, <2>1 DEF SharedInd, OneObject, Has, KnownEarly, Mutual, Alive
  <2>4. Swept' /\ MidTick' /\ NoGhosts'
    BY <1>2, <2>1 DEF SharedInd, Swept, MidTick, NoGhosts, Own, Alone, Alive
  <2> QED
    BY <2>2, <2>3, <2>4 DEF SharedInd
<1> QED
  BY <1>1, <1>2

LEMMA SharedIndHolds == ArenaSpec => []SharedInd
BY InitSharedInd, NextKeepsSharedInd, PTL DEF ArenaSpec

(* However many engines crash, end and start over the object, a client     *)
(* that attached once it had a size never faults, and it sees the memory   *)
(* the engines write.                                                      *)
THEOREM ClientsKeepTheArena == ArenaSpec => []SharedInv
<1>1. SharedInd => SharedInv
  BY DEF SharedInd
<1> QED
  BY SharedIndHolds, <1>1, PTL

(* An engine that has run beside no other never computes with what an      *)
(* earlier life left in the slots, wherever that one crashed.              *)
THEOREM NothingSurvivesAStart == ArenaSpec => []NoGhosts
<1>1. SharedInd => NoGhosts
  BY DEF SharedInd
<1> QED
  BY SharedIndHolds, <1>1, PTL
================================================================================
