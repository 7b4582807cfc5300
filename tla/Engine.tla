--------------------------------- MODULE Engine ---------------------------------
(***************************************************************************)
(* BuanEngine::step (src/monads/datapath_composition.cpp): one frame from  *)
(* the portal through parser, symbol index, market arena, circuit breaker  *)
(* and risk gate into the audit ring and the signal ring.                  *)
(*                                                                         *)
(* The engine's thread runs beside the consumers of the two rings and a    *)
(* thread that moves the breaker's limit, so a step is cut where it meets  *)
(* them: at each push.  get_or_create is atomic (SymbolIndex implements    *)
(* SymbolTable) and each ring is a channel: a push is refused when the     *)
(* engine knows of no free slot (SpscRing implements CreditChannel).       *)
(*                                                                         *)
(* on_order_sent has no caller in the pipeline: the net position stays 0   *)
(* and the token bucket full.  Frames are numbered as they are polled.     *)
(***************************************************************************)
EXTENDS RiskChecks, Sequences, FiniteSets

CONSTANTS
  Frames,     \* what the portal may deliver: [size, template, id, price, quantity]
  VolWord,    \* 2^32: volume is a uint32_t
  VolLimits,  \* values of m_max_vol_limit
  MaxSymbols, \* MAX_SYMBOLS
  NoSlot,     \* a symbol without an index
  AuditSlots, \* records the audit ring holds
  SignalSlots,\* descriptors the signal ring holds
  MaxTokens,  \* m_max_tokens of the risk gate
  MaxFrames   \* bound: frames polled

ASSUME EngineAssumption ==
  /\ MaxSymbols \in Nat \ {0} /\ NoSlot \notin Nat
  /\ AuditSlots \in Nat \ {0} /\ SignalSlots \in Nat \ {0}
  /\ VolLimits \subseteq Nat /\ VolLimits # {} /\ VolWord \in Nat \ {0}
  /\ MaxTokens \in Nat \ {0} /\ MaxFrames \in Nat
  /\ \A f \in Frames : f.price \in Int /\ f.quantity \in Int

VARIABLES
  index,      \* m_symbol_index: the internal id of each <<source, external id>>
  arena,      \* last_price of each slot of m_market_arena
  refPrice,   \* m_last_market_price of the risk gate
  volLimit,   \* m_max_vol_limit
  audits,     \* m_audit_ring: frame numbers
  auditFree,  \* free slots of it the engine knows of
  signals,    \* m_ring: frame numbers
  signalFree, \* free slots of it the engine knows of
  pc,         \* where step is
  status,     \* what the last step returned
  frameNo,    \* frames polled so far
  quotes,     \* history: the last price ticked for each symbol
  audited,    \* history: every record accepted by the audit ring
  signalled,  \* history: every descriptor accepted by the signal ring
  auditDrops, \* m_drop_count of the audit ring
  signalDrops,\* m_drop_count of the signal ring
  outOfBand,  \* history: frames whose price was out of the band when they came
  strays      \* history: symbols that came when the index was full

marketVars == <<index, arena, refPrice, quotes, outOfBand, strays>>
auditVars  == <<audits, auditFree, audited, auditDrops>>
signalVars == <<signals, signalFree, signalled, signalDrops>>
stepVars   == <<pc, status, frameNo>>
engineVars == <<volLimit, marketVars, auditVars, signalVars, stepVars>>

Symbol == {0, 1} \X {f.id : f \in Frames}
Slots == 0 .. MaxSymbols - 1

EngineInit ==
  /\ index = [s \in Symbol |-> NoSlot] /\ arena = [i \in Slots |-> 0]
  /\ refPrice = 0 /\ volLimit \in VolLimits
  /\ audits = << >> /\ auditFree = AuditSlots /\ audited = << >> /\ auditDrops = 0
  /\ signals = << >> /\ signalFree = SignalSlots /\ signalled = << >> /\ signalDrops = 0
  /\ pc = "idle" /\ status = "NONE" /\ frameNo = 0
  /\ quotes = [s \in Symbol |-> 0] /\ outOfBand = {} /\ strays = {}

--------------------------------------------------------------------------------
(* The parsers.  More than 100 bytes are taken for CME, less for Binance.  *)

ParsesAsCme(f) == f.size = "long" /\ f.template = 42
ParsesAsBinance(f) == f.size = "short" /\ f.template = 100
Parses(f) == ParsesAsCme(f) \/ ParsesAsBinance(f)

Source(f) == IF ParsesAsBinance(f) THEN 1 ELSE 0

(* The volume of a tick is a uint32_t: a CME size is an int32_t, negative  *)
(* ones included, and a Binance quantity a uint64_t.                       *)
CmeVolume(f) == f.quantity % VolWord
BinanceVolume(f) == f.quantity % VolWord
Volume(f) == IF ParsesAsBinance(f) THEN BinanceVolume(f) ELSE CmeVolume(f)

(* The symbol index, as SymbolTable says.                                  *)
Taken == Cardinality({s \in Symbol : index[s] # NoSlot})
Overflows(s) == index[s] = NoSlot /\ Taken = MaxSymbols

MutGetOrCreate(s) ==             \* the last id is handed out again
  IF index[s] # NoSlot THEN index[s]
  ELSE IF Taken < MaxSymbols THEN Taken ELSE MaxSymbols - 1

GetOrCreate(s) ==
  IF index[s] # NoSlot THEN index[s]
  ELSE IF Taken < MaxSymbols THEN Taken ELSE 0

--------------------------------------------------------------------------------
(* value_or(PORTAL_EMPTY): every error turns into PORTAL_EMPTY.            *)
Returns(result) ==
  /\ status' = IF result = "SIGNAL_CAPTURED" THEN result ELSE "PORTAL_EMPTY"
  /\ pc' = "idle"

PollEmpty ==
  /\ pc = "idle"
  /\ Returns("PORTAL_EMPTY")
  /\ UNCHANGED <<volLimit, frameNo, marketVars, auditVars, signalVars>>

ParseFails(f) ==
  /\ pc = "idle" /\ frameNo < MaxFrames
  /\ ~Parses(f)
  /\ frameNo' = frameNo + 1
  /\ Returns("IDLE")
  /\ UNCHANGED <<volLimit, marketVars, auditVars, signalVars>>

(* Index, arena and reference price are updated for every tick, before the *)
(* breaker and the risk gate look at it.                                   *)
UpdateMarket(s, price) ==
  /\ index' = IF Overflows(s) THEN index ELSE [index EXCEPT ![s] = GetOrCreate(s)]
  /\ arena' = [arena EXCEPT ![GetOrCreate(s)] = price]
  /\ refPrice' = price
  /\ quotes' = [quotes EXCEPT ![s] = price]
  /\ outOfBand' = IF PriceOk(price, refPrice) THEN outOfBand
                  ELSE outOfBand \cup {frameNo + 1}
  /\ strays' = IF Overflows(s) THEN strays \cup {s} ELSE strays

(* signal_drift is 0 in every tick a parser makes: only the volume counts. *)
BreakerTrips(f) == Volume(f) > volLimit

(* check(price, volume, 1), after the reference price became this price;   *)
(* main.cpp gives the gate no arena, so there is no panic limit.           *)
RiskSafe(f) ==
  /\ SizeOk(Volume(f), FALSE) /\ PosOk(0, Volume(f), Buy)
  /\ PriceOk(f.price, f.price) /\ RateOk(MaxTokens)

Ingest(f) ==
  /\ pc = "idle" /\ frameNo < MaxFrames
  /\ Parses(f)
  /\ frameNo' = frameNo + 1
  /\ UpdateMarket(<<Source(f), f.id>>, f.price)
  /\ \/ BreakerTrips(f) /\ Returns("FILTERED_BY_BREAKER")
     \/ ~BreakerTrips(f) /\ ~RiskSafe(f) /\ Returns("FILTERED_BY_RISK")
     \/ ~BreakerTrips(f) /\ RiskSafe(f) /\ pc' = "audit" /\ UNCHANGED status
  /\ UNCHANGED <<volLimit, auditVars, signalVars>>

MutDropUncounted ==              \* a refused push does not count
  /\ pc = "audit"
  /\ \/ /\ auditFree > 0
        /\ audits' = Append(audits, frameNo) /\ audited' = Append(audited, frameNo)
        /\ auditFree' = auditFree - 1
     \/ /\ auditFree = 0
        /\ UNCHANGED <<audits, audited, auditFree>>
  /\ pc' = "signal"
  /\ UNCHANGED <<volLimit, status, frameNo, marketVars, signalVars, auditDrops>>

(* The result of the push into the audit ring is thrown away.              *)
PushAudit ==
  /\ pc = "audit"
  /\ \/ /\ auditFree > 0
        /\ audits' = Append(audits, frameNo) /\ audited' = Append(audited, frameNo)
        /\ auditFree' = auditFree - 1
        /\ UNCHANGED auditDrops
     \/ /\ auditFree = 0
        /\ auditDrops' = auditDrops + 1
        /\ UNCHANGED <<audits, audited, auditFree>>
  /\ pc' = "signal"
  /\ UNCHANGED <<volLimit, status, frameNo, marketVars, signalVars>>

PushSignal ==
  /\ pc = "signal"
  /\ \/ /\ signalFree > 0
        /\ signals' = Append(signals, frameNo) /\ signalled' = Append(signalled, frameNo)
        /\ signalFree' = signalFree - 1
        /\ Returns("SIGNAL_CAPTURED")
        /\ UNCHANGED signalDrops
     \/ /\ signalFree = 0
        /\ signalDrops' = signalDrops + 1
        /\ Returns("BUFFER_FULL")
        /\ UNCHANGED <<signals, signalled, signalFree>>
  /\ UNCHANGED <<volLimit, frameNo, marketVars, auditVars>>

--------------------------------------------------------------------------------
(* The other threads: the consumers of the rings (the flusher, the Python  *)
(* poll loop), whose freed slots the engine learns of later, and the       *)
(* Python setter of the breaker's limit.                                   *)

PopAudit ==
  /\ audits # << >>
  /\ audits' = Tail(audits)
  /\ UNCHANGED <<volLimit, auditFree, audited, auditDrops, marketVars, signalVars, stepVars>>

AuditSlotReturns ==
  /\ Len(audits) + auditFree < AuditSlots
  /\ auditFree' = auditFree + 1
  /\ UNCHANGED <<volLimit, audits, audited, auditDrops, marketVars, signalVars, stepVars>>

PopSignal ==
  /\ signals # << >>
  /\ signals' = Tail(signals)
  /\ UNCHANGED <<volLimit, signalFree, signalled, signalDrops, marketVars, auditVars, stepVars>>

SignalSlotReturns ==
  /\ Len(signals) + signalFree < SignalSlots
  /\ signalFree' = signalFree + 1
  /\ UNCHANGED <<volLimit, signals, signalled, signalDrops, marketVars, auditVars, stepVars>>

SetMaxVolLimit(v) ==
  /\ volLimit' = v
  /\ UNCHANGED <<marketVars, auditVars, signalVars, stepVars>>

--------------------------------------------------------------------------------
Step == PollEmpty \/ PushAudit \/ PushSignal
          \/ \E f \in Frames : ParseFails(f) \/ Ingest(f)
Others == PopAudit \/ AuditSlotReturns \/ PopSignal \/ SignalSlotReturns
            \/ \E v \in VolLimits : SetMaxVolLimit(v)

EngineNext == Step \/ Others
EngineSpec == EngineInit /\ [][EngineNext]_engineVars

--------------------------------------------------------------------------------
Statuses == {"NONE", "SIGNAL_CAPTURED", "PORTAL_EMPTY"}
Numbers(s) == {s[k] : k \in 1 .. Len(s)}

(* The values of the variables.                                            *)
EngineTypeOK ==
  /\ index \in [Symbol -> Slots \cup {NoSlot}]
  /\ arena \in [Slots -> Int] /\ refPrice \in Int /\ volLimit \in VolLimits
  /\ audits \in Seq(1 .. MaxFrames) /\ signals \in Seq(1 .. MaxFrames)
  /\ auditFree \in 0 .. AuditSlots /\ signalFree \in 0 .. SignalSlots
  /\ pc \in {"idle", "audit", "signal"} /\ status \in Statuses
  /\ frameNo \in 0 .. MaxFrames

(* Every frame that passed the gates has an audit record, accepted or      *)
(* counted as dropped, before its descriptor reaches the signal ring, and  *)
(* is then captured or counted as dropped; both rings take the frames in   *)
(* the order they came.                                                    *)
AuditLeads ==
  /\ Len(audited) + auditDrops
       = Len(signalled) + signalDrops + (IF pc = "signal" THEN 1 ELSE 0)
  /\ Cardinality(Numbers(signalled) \ Numbers(audited)) <= auditDrops
  /\ Cardinality(Numbers(audited) \ Numbers(signalled))
       <= signalDrops + (IF pc = "signal" THEN 1 ELSE 0)
  /\ \A j, k \in 1 .. Len(audited) : j < k => audited[j] < audited[k]
  /\ \A j, k \in 1 .. Len(signalled) : j < k => signalled[j] < signalled[k]

EngineInv == EngineTypeOK /\ AuditLeads

(* A consumer that pops one descriptor and one record at a time            *)
(* (hela_audit) pairs those of the same frame as long as neither ring has  *)
(* refused one; from the first refusal on the pairs may be of two frames.  *)
PairsMatch ==
  auditDrops = 0 /\ signalDrops = 0 =>
    Len(signalled) <= Len(audited) /\ \A k \in 1 .. Len(signalled) : signalled[k] = audited[k]

(* The arena slot of a registered symbol holds that symbol's last price:   *)
(* no other symbol is written into it, except into slot 0 once the index   *)
(* is full.  Slot 0 then holds the last price of its own symbol or of one  *)
(* that found the index full.                                              *)
SlotHoldsSymbol ==
  \A s \in Symbol : index[s] # NoSlot =>
    \/ arena[index[s]] = quotes[s]
    \/ index[s] = 0 /\ \E t \in strays : arena[0] = quotes[t]

(* "Max Drift (500 bps / 5%)" (main.cpp) and "Max drift in Basis Points"   *)
(* (risk_gate.hpp): no signal is captured for a price that is further than *)
(* that from the reference price it came upon.                             *)
BandHeld == \A k \in 1 .. Len(signalled) : signalled[k] \notin outOfBand
================================================================================
