----------------------------- MODULE Engine_proofs -----------------------------
(***************************************************************************)
(* Engine for any frames, symbols, limits, rings and arena: the two        *)
(* histories account for every frame and pair up until the first refusal,  *)
(* and each symbol keeps its own slot of the arena.                        *)
(***************************************************************************)
EXTENDS Engine, FiniteSetTheorems, SequenceTheorems, TLAPS

(* Types. *)
Number == 1 .. MaxFrames

HistoryTypeOK ==
  /\ audited \in Seq(Number) /\ signalled \in Seq(Number)
  /\ auditDrops \in Nat /\ signalDrops \in Nat
  /\ quotes \in [Symbol -> Int]
  /\ pc # "idle" => frameNo > 0

(* No frame of the histories is newer than the one in the step, and the    *)
(* histories do not have that one before its push.                         *)
Past ==
  /\ \A k \in 1 .. Len(audited) : audited[k] <= frameNo /\ (pc = "audit" => audited[k] < frameNo)
  /\ \A k \in 1 .. Len(signalled) : signalled[k] <= frameNo /\ (pc # "idle" => signalled[k] < frameNo)

Unaudited == Numbers(signalled) \ Numbers(audited)
Unsignalled == Numbers(audited) \ Numbers(signalled)

(* The frame between its two pushes has its own part in the counts.        *)
Between ==
  pc = "signal" =>
    /\ frameNo \notin Numbers(audited) => Cardinality(Unaudited) + 1 <= auditDrops
    /\ Cardinality(Unsignalled \ {frameNo}) <= signalDrops
    /\ auditDrops = 0 => audited[Len(audited)] = frameNo

(* Indices are handed out once, in order, and the strays came when all of  *)
(* them were.                                                              *)
Registered == {s \in Symbol : index[s] # NoSlot}
Dense ==
  /\ IsFiniteSet(Registered) /\ Cardinality(Registered) <= MaxSymbols
  /\ \A s \in Registered : index[s] < Cardinality(Registered)
  /\ \A s, t \in Registered : index[s] = index[t] => s = t
  /\ strays \subseteq Symbol \ Registered
  /\ strays # {} => Cardinality(Registered) = MaxSymbols

EngineInd ==
  EngineInv /\ HistoryTypeOK /\ Past /\ Between /\ PairsMatch /\ Dense /\ SlotHoldsSymbol

--------------------------------------------------------------------------------
(* Histories of numbers.                                                   *)

LEMMA NumbersAppend ==
  ASSUME NEW s \in Seq(Number), NEW n \in Number
  PROVE  /\ Append(s, n) \in Seq(Number) /\ Len(Append(s, n)) = Len(s) + 1
         /\ Append(s, n)[Len(s) + 1] = n
         /\ \A k \in 1 .. Len(s) : Append(s, n)[k] = s[k]
         /\ Numbers(Append(s, n)) = Numbers(s) \cup {n}
<1>1. /\ Append(s, n) \in Seq(Number) /\ Len(Append(s, n)) = Len(s) + 1 /\ Len(s) \in Nat
      /\ Append(s, n)[Len(s) + 1] = n
      /\ \A k \in 1 .. Len(s) : Append(s, n)[k] = s[k]
  BY AppendProperties, LenProperties
<1>2. 1 .. Len(s) + 1 = (1 .. Len(s)) \cup {Len(s) + 1}
  BY <1>1
<1>3. Numbers(Append(s, n)) \subseteq Numbers(s) \cup {n}
  <2> SUFFICES ASSUME NEW k \in 1 .. Len(s) + 1
               PROVE  Append(s, n)[k] \in Numbers(s) \cup {n}
    BY <1>1 DEF Numbers
  <2>1. CASE k \in 1 .. Len(s)
    BY <1>1, <2>1 DEF Numbers
  <2>2. CASE k = Len(s) + 1
    BY <1>1, <2>2
  <2> QED
    BY <1>2, <2>1, <2>2
<1>4. Numbers(s) \cup {n} \subseteq Numbers(Append(s, n))
  <2>1. n \in Numbers(Append(s, n))
    <3>1. Len(s) + 1 \in 1 .. Len(Append(s, n))
      BY <1>1
    <3> QED
      BY <1>1, <3>1, Zenon DEF Numbers
  <2>2. ASSUME NEW k \in 1 .. Len(s) PROVE s[k] \in Numbers(Append(s, n))
    <3>1. k \in 1 .. Len(Append(s, n)) /\ s[k] = Append(s, n)[k]
      BY <1>1
    <3> QED
      BY <3>1, Zenon DEF Numbers
  <2> QED
    BY <2>1, <2>2 DEF Numbers
<1> QED
  BY <1>1, <1>3, <1>4

LEMMA NumbersFinite ==
  ASSUME NEW s \in Seq(Number)
  PROVE  IsFiniteSet(Numbers(s))
<1>1. IsFiniteSet(Number)
  BY EngineAssumption, FS_Interval DEF Number
<1>2. Numbers(s) \subseteq Number
  <2> SUFFICES ASSUME NEW k \in 1 .. Len(s) PROVE s[k] \in Number
    BY DEF Numbers
  <2> QED
    BY ElementOfSeq
<1> QED
  BY <1>1, <1>2, FS_Subset

(* One element more makes a finite set larger by one at most.              *)
LEMMA OneMore ==
  ASSUME NEW S, IsFiniteSet(S), NEW x
  PROVE  /\ IsFiniteSet(S \cup {x}) /\ Cardinality(S \cup {x}) \in Nat
         /\ Cardinality(S \cup {x}) <= Cardinality(S) + 1
<1>1. /\ IsFiniteSet(S \cup {x})
      /\ Cardinality(S \cup {x}) = IF x \in S THEN Cardinality(S) ELSE Cardinality(S) + 1
  BY FS_AddElement
<1>2. Cardinality(S) \in Nat
  BY FS_CardinalityType
<1> QED
  BY <1>1, <1>2

(* What differs between the histories is finite.                           *)
LEMMA DifferencesFinite ==
  ASSUME EngineInd
  PROVE  /\ IsFiniteSet(Unaudited) /\ Cardinality(Unaudited) \in Nat
         /\ IsFiniteSet(Unsignalled) /\ Cardinality(Unsignalled) \in Nat
<1>1. IsFiniteSet(Numbers(audited)) /\ IsFiniteSet(Numbers(signalled))
  BY NumbersFinite DEF EngineInd, HistoryTypeOK
<1>2. IsFiniteSet(Unaudited) /\ IsFiniteSet(Unsignalled)
  BY <1>1, FS_Difference DEF Unaudited, Unsignalled
<1> QED
  BY <1>2, FS_CardinalityType

(* The two sides of the histories in numbers.                              *)
LEMMA HistoryFacts ==
  ASSUME EngineInd
  PROVE  /\ audited \in Seq(Number) /\ signalled \in Seq(Number)
         /\ Len(audited) \in Nat /\ Len(signalled) \in Nat
         /\ auditDrops \in Nat /\ signalDrops \in Nat
         /\ frameNo \in Nat /\ (pc # "idle" => frameNo \in Number)
         /\ \A k \in 1 .. Len(audited) : audited[k] \in Nat
         /\ \A k \in 1 .. Len(signalled) : signalled[k] \in Nat
<1>1. /\ audited \in Seq(Number) /\ signalled \in Seq(Number)
      /\ auditDrops \in Nat /\ signalDrops \in Nat
  BY DEF EngineInd, HistoryTypeOK
<1>2. frameNo \in Nat /\ (pc # "idle" => frameNo \in Number)
  BY EngineAssumption DEF EngineInd, EngineInv, EngineTypeOK, HistoryTypeOK, Number
<1>3. \A n \in Number : n \in Nat
  BY DEF Number
<1>4. \A k \in 1 .. Len(audited) : audited[k] \in Nat
  BY <1>1, <1>3, ElementOfSeq
<1>5. \A k \in 1 .. Len(signalled) : signalled[k] \in Nat
  BY <1>1, <1>3, ElementOfSeq
<1> QED
  BY <1>1, <1>2, <1>4, <1>5, LenProperties

--------------------------------------------------------------------------------
LEMMA InitEngineInd == EngineInit => EngineInd
<1> SUFFICES ASSUME EngineInit PROVE EngineInd
    OBVIOUS
<1>1. EngineTypeOK
  BY EngineAssumption DEF EngineInit, EngineTypeOK, Statuses
<1>2. HistoryTypeOK
  BY DEF EngineInit, HistoryTypeOK
<1>3. Numbers(audited) = {} /\ Numbers(signalled) = {} /\ Len(audited) = 0 /\ Len(signalled) = 0
  BY DEF EngineInit, Numbers
<1>4. AuditLeads /\ PairsMatch /\ Past /\ Between
  <2>1. Cardinality(Numbers(audited) \ Numbers(signalled)) = 0
        /\ Cardinality(Numbers(signalled) \ Numbers(audited)) = 0
    BY <1>3, FS_EmptySet
  <2> QED
    BY <1>3, <2>1 DEF EngineInit, AuditLeads, PairsMatch, Past, Between
<1>5. Registered = {}
  BY DEF EngineInit, Registered
<1>6. Dense
  BY <1>5, FS_EmptySet, EngineAssumption DEF EngineInit, Dense
<1>7. SlotHoldsSymbol
  BY EngineAssumption DEF EngineInit, SlotHoldsSymbol, Slots
<1> QED
  BY <1>1, <1>2, <1>4, <1>6, <1>7 DEF EngineInd, EngineInv

(* Steps that leave the market alone.                                      *)
LEMMA MarketStays ==
  ASSUME EngineInd, UNCHANGED marketVars
  PROVE  Dense' /\ SlotHoldsSymbol'
BY DEF EngineInd, Dense, Registered, SlotHoldsSymbol, marketVars

(* Steps that leave the histories alone and are not between the pushes: a  *)
(* new frame may have come.                                                *)
LEMMA HistoriesStay ==
  ASSUME EngineInd, UNCHANGED <<audited, signalled, auditDrops, signalDrops>>,
         \/ UNCHANGED <<pc, frameNo>>
         \/ pc = "idle" /\ pc' = "idle" /\ frameNo' = frameNo
         \/ pc = "idle" /\ pc' \in {"idle", "audit"} /\ frameNo' = frameNo + 1
  PROVE  AuditLeads' /\ Past' /\ Between' /\ PairsMatch'
<1>1. AuditLeads' /\ PairsMatch'
  BY DEF EngineInd, EngineInv, AuditLeads, PairsMatch, Numbers
<1>2. Past'
  BY HistoryFacts, SMTT(30) DEF EngineInd, Past
<1>3. Between'
  BY DEF EngineInd, Between, Unaudited, Unsignalled, Numbers
<1> QED
  BY <1>1, <1>2, <1>3

LEMMA QuietStepKeepsEngineInd ==
  ASSUME EngineInd,
         \/ PollEmpty \/ (\E f \in Frames : ParseFails(f)) \/ Others \/ UNCHANGED engineVars
  PROVE  EngineInd'
<1>1. /\ UNCHANGED <<audited, signalled, auditDrops, signalDrops>> /\ UNCHANGED marketVars
      /\ \/ UNCHANGED <<pc, frameNo>>
         \/ pc = "idle" /\ pc' = "idle" /\ frameNo' = frameNo
         \/ pc = "idle" /\ pc' \in {"idle", "audit"} /\ frameNo' = frameNo + 1
  BY DEF PollEmpty, ParseFails, Returns, Others, PopAudit, AuditSlotReturns, PopSignal,
         SignalSlotReturns, SetMaxVolLimit, engineVars, stepVars, auditVars, signalVars
<1>2. AuditLeads' /\ Past' /\ Between' /\ PairsMatch' /\ Dense' /\ SlotHoldsSymbol'
  BY <1>1, HistoriesStay, MarketStays
<1>3. HistoryTypeOK'
  BY <1>1, HistoryFacts DEF EngineInd, HistoryTypeOK, marketVars
<1>4. EngineTypeOK'
  <2> USE DEF EngineInd, EngineInv, EngineTypeOK
  <2>1. index' \in [Symbol -> Slots \cup {NoSlot}] /\ arena' \in [Slots -> Int] /\ refPrice' \in Int
    BY <1>1 DEF marketVars
  <2>2. CASE PollEmpty \/ (\E f \in Frames : ParseFails(f))
    <3>1. UNCHANGED <<volLimit, audits, auditFree, signals, signalFree>>
      BY <2>2 DEF PollEmpty, ParseFails, auditVars, signalVars
    <3>2. pc' \in {"idle", "audit", "signal"} /\ status' \in Statuses /\ frameNo' \in 0 .. MaxFrames
      BY <2>2, EngineAssumption DEF PollEmpty, ParseFails, Returns, Statuses
    <3> QED
      BY <2>1, <3>1, <3>2
  <2>3. CASE PopAudit \/ PopSignal
    <3>1. audits' \in Seq(1 .. MaxFrames) /\ signals' \in Seq(1 .. MaxFrames)
      <4>1. PopAudit => audits' \in Seq(1 .. MaxFrames) /\ signals' = signals
        BY HeadTailProperties DEF PopAudit, signalVars
      <4>2. PopSignal => signals' \in Seq(1 .. MaxFrames) /\ audits' = audits
        BY HeadTailProperties DEF PopSignal, auditVars
      <4> QED
        BY <2>3, <4>1, <4>2
    <3>2. UNCHANGED <<volLimit, auditFree, signalFree, stepVars>>
      BY <2>3 DEF PopAudit, PopSignal, auditVars, signalVars
    <3> QED
      BY <2>1, <3>1, <3>2 DEF stepVars
  <2>4. CASE AuditSlotReturns \/ SignalSlotReturns
    <3>1. UNCHANGED <<volLimit, audits, signals, stepVars>>
      BY <2>4 DEF AuditSlotReturns, SignalSlotReturns, auditVars, signalVars
    <3>2. Len(audits) \in Nat /\ Len(signals) \in Nat
      BY LenProperties
    <3>3. auditFree' \in 0 .. AuditSlots /\ signalFree' \in 0 .. SignalSlots
      BY <2>4, <3>2, EngineAssumption, SMTT(30) DEF AuditSlotReturns, SignalSlotReturns, auditVars, signalVars
    <3> QED
      BY <2>1, <3>1, <3>3 DEF stepVars
  <2>5. CASE \E v \in VolLimits : SetMaxVolLimit(v)
    BY <2>1, <2>5 DEF SetMaxVolLimit, auditVars, signalVars, stepVars
  <2>6. CASE UNCHANGED engineVars
    BY <2>1, <2>6 DEF engineVars, auditVars, signalVars, stepVars
  <2> QED
    BY <2>2, <2>3, <2>4, <2>5, <2>6 DEF Others
<1> QED
  BY <1>2, <1>3, <1>4 DEF EngineInd, EngineInv

--------------------------------------------------------------------------------
(* A frame comes in.                                                       *)

LEMMA SlotFacts ==
  ASSUME EngineInd, NEW s \in Symbol
  PROVE  /\ Taken = Cardinality(Registered) /\ Taken \in Nat
         /\ GetOrCreate(s) \in Slots /\ 0 \in Slots /\ NoSlot \notin Slots
<1>1. Taken = Cardinality(Registered) /\ Taken \in Nat
  BY FS_CardinalityType DEF EngineInd, Dense, Taken, Registered
<1>2. MaxSymbols \in Nat \ {0} /\ NoSlot \notin Nat
  BY EngineAssumption
<1>3. 0 \in Slots /\ NoSlot \notin Slots
  BY <1>2 DEF Slots
<1>4. index[s] # NoSlot => index[s] \in Slots
  BY DEF EngineInd, EngineInv, EngineTypeOK
<1>5. Taken < MaxSymbols => Taken \in Slots
  BY <1>1, <1>2 DEF Slots
<1> QED
  BY <1>1, <1>3, <1>4, <1>5 DEF GetOrCreate

(* A symbol that is new gets the next slot, one that is known its own, and *)
(* one that finds the index full none.                                     *)
LEMMA UpdateKeepsMarket ==
  ASSUME EngineInd, NEW s \in Symbol, NEW price \in Int, UpdateMarket(s, price)
  PROVE  /\ index' \in [Symbol -> Slots \cup {NoSlot}]
         /\ arena' \in [Slots -> Int] /\ refPrice' \in Int /\ quotes' \in [Symbol -> Int]
         /\ Dense' /\ SlotHoldsSymbol'
<1> DEFINE slot == GetOrCreate(s)
<1>1. /\ Taken = Cardinality(Registered) /\ Taken \in Nat
      /\ slot \in Slots /\ 0 \in Slots /\ NoSlot \notin Slots
  BY SlotFacts
<1>2. /\ index \in [Symbol -> Slots \cup {NoSlot}] /\ arena \in [Slots -> Int]
      /\ quotes \in [Symbol -> Int]
  BY DEF EngineInd, EngineInv, EngineTypeOK, HistoryTypeOK
<1>3. /\ arena' = [arena EXCEPT ![slot] = price] /\ refPrice' = price
      /\ quotes' = [quotes EXCEPT ![s] = price]
      /\ index' = IF Overflows(s) THEN index ELSE [index EXCEPT ![s] = slot]
      /\ strays' = IF Overflows(s) THEN strays \cup {s} ELSE strays
  BY DEF UpdateMarket
<1>4. /\ IsFiniteSet(Registered)
      /\ \A t \in Registered : index[t] < Cardinality(Registered) /\ index[t] \in Slots
      /\ \A t, u \in Registered : index[t] = index[u] => t = u
      /\ \A t \in Registered :
           \/ arena[index[t]] = quotes[t]
           \/ index[t] = 0 /\ \E u \in strays : arena[0] = quotes[u]
      /\ strays \subseteq Symbol \ Registered
      /\ strays # {} => Taken = MaxSymbols
  BY <1>1, <1>2 DEF EngineInd, Dense, SlotHoldsSymbol, Registered
<1> HIDE DEF slot
<1>6. /\ index' \in [Symbol -> Slots \cup {NoSlot}]
      /\ arena' \in [Slots -> Int] /\ refPrice' \in Int /\ quotes' \in [Symbol -> Int]
  BY <1>1, <1>2, <1>3
<1>7. /\ arena'[slot] = price /\ \A i \in Slots \ {slot} : arena'[i] = arena[i]
      /\ quotes'[s] = price /\ \A t \in Symbol \ {s} : quotes'[t] = quotes[t]
  BY <1>1, <1>2, <1>3
<1>8. CASE index[s] # NoSlot
  <2>1. slot = index[s] /\ ~Overflows(s)
    BY <1>8 DEF slot, GetOrCreate, Overflows
  <2>2. index' = index /\ strays' = strays
    BY <1>2, <1>3, <2>1
  <2>3. Dense'
    BY <2>2 DEF EngineInd, Dense, Registered
  <2>4. SlotHoldsSymbol'
    <3> SUFFICES ASSUME NEW t \in Registered
                 PROVE  \/ arena'[index[t]] = quotes'[t]
                        \/ index[t] = 0 /\ \E u \in strays : arena'[0] = quotes'[u]
      BY <2>2 DEF SlotHoldsSymbol, Registered
    <3>1. CASE t = s
      BY <1>7, <2>1, <3>1
    <3>2. CASE t # s
      <4>1. index[t] # slot /\ index[t] \in Slots /\ t \in Symbol \ {s}
        BY <1>4, <1>8, <2>1, <3>2 DEF Registered
      <4>2. arena'[index[t]] = arena[index[t]] /\ quotes'[t] = quotes[t]
        BY <1>7, <4>1
      <4>3. \A u \in strays : quotes'[u] = quotes[u]
        BY <1>4, <1>7, <1>8 DEF Registered
      <4>4. CASE index[t] = 0
        <5>1. arena'[0] = arena[0]
          BY <4>2, <4>4
        <5> QED
          BY <1>4, <4>2, <4>3, <4>4, <5>1
      <4>5. CASE index[t] # 0
        BY <1>4, <4>2, <4>5
      <4> QED
        BY <4>4, <4>5
    <3> QED
      BY <3>1, <3>2
  <2> QED
    BY <1>6, <2>3, <2>4
<1>9. CASE index[s] = NoSlot /\ Taken < MaxSymbols
  <2>1. slot = Taken /\ ~Overflows(s)
    BY <1>1, <1>9, EngineAssumption DEF slot, GetOrCreate, Overflows
  <2>2. index'[s] = Taken /\ \A t \in Symbol \ {s} : index'[t] = index[t]
    BY <1>2, <1>3, <2>1
  <2>3. Taken \in Slots /\ Taken # NoSlot /\ s \notin Registered
    BY <1>1, <1>9, <2>1 DEF Registered
  <2>4. Registered' = Registered \cup {s}
    BY <2>2, <2>3 DEF Registered
  <2>5. IsFiniteSet(Registered') /\ Cardinality(Registered') = Taken + 1
    BY <1>1, <1>4, <2>3, <2>4, FS_AddElement
  <2>6. \A t \in Registered : t # s /\ t \in Symbol /\ index'[t] = index[t] /\ index[t] < Taken /\ index[t] \in Nat
    <3>1. \A i \in Slots : i \in Nat
      BY EngineAssumption DEF Slots
    <3> QED
      BY <1>1, <1>4, <2>2, <2>3, <3>1 DEF Registered
  <2>7. strays = {} /\ strays' = {}
    BY <1>1, <1>3, <1>4, <1>9, <2>1, EngineAssumption
  <2>8. Dense'
    <3>1. \A t \in Registered' : index'[t] < Taken + 1
      BY <1>1, <2>2, <2>4, <2>6
    <3>2. \A t, u \in Registered' : index'[t] = index'[u] => t = u
      BY <1>1, <1>4, <2>2, <2>4, <2>6
    <3>3. Taken + 1 <= MaxSymbols
      BY <1>1, <1>9, EngineAssumption
    <3> QED
      BY <2>5, <2>7, <3>1, <3>2, <3>3 DEF Dense
  <2>9. SlotHoldsSymbol'
    <3> SUFFICES ASSUME NEW t \in Symbol, index'[t] # NoSlot
                 PROVE  arena'[index'[t]] = quotes'[t]
      BY DEF SlotHoldsSymbol
    <3>1. CASE t = s
      BY <1>7, <2>1, <2>2, <3>1
    <3>2. CASE t # s
      <4>1. index'[t] = index[t] /\ t \in Registered
        BY <2>2, <3>2 DEF Registered
      <4>2. index[t] # slot /\ index[t] \in Slots
        BY <1>1, <1>4, <2>1, <2>6, <4>1
      <4>3. arena[index[t]] = quotes[t]
        BY <1>4, <2>7, <4>1
      <4> QED
        BY <1>7, <3>2, <4>1, <4>2, <4>3
    <3> QED
      BY <3>1, <3>2
  <2> QED
    BY <1>6, <2>8, <2>9
<1>10. CASE index[s] = NoSlot /\ ~(Taken < MaxSymbols)
  <2>1. slot = 0
    BY <1>10 DEF slot, GetOrCreate
  <2>2. index' = index /\ strays' = strays \cup {s} /\ Taken = MaxSymbols
    <3>1. Taken <= MaxSymbols
      BY <1>1 DEF EngineInd, Dense
    <3>2. Taken = MaxSymbols
      BY <1>1, <1>10, <3>1, EngineAssumption
    <3> QED
      BY <1>3, <1>10, <3>2 DEF Overflows
  <2>3. Dense'
    <3>1. Registered' = Registered
      BY <2>2 DEF Registered
    <3>2. strays' \subseteq Symbol \ Registered
      BY <1>4, <1>10, <2>2 DEF Registered
    <3> QED
      BY <1>1, <2>2, <3>1, <3>2 DEF EngineInd, Dense
  <2>4. SlotHoldsSymbol'
    <3> SUFFICES ASSUME NEW t \in Registered
                 PROVE  \/ arena'[index[t]] = quotes'[t]
                        \/ index[t] = 0 /\ \E u \in strays' : arena'[0] = quotes'[u]
      BY <2>2 DEF SlotHoldsSymbol, Registered
    <3>1. CASE index[t] = 0
      <4>1. arena'[0] = quotes'[s] /\ s \in strays'
        BY <1>7, <2>1, <2>2
      <4> QED
        BY <3>1, <4>1
    <3>2. CASE index[t] # 0
      <4>1. t # s /\ t \in Symbol /\ index[t] \in Slots
        BY <1>4, <1>10 DEF Registered
      <4> QED
        BY <1>4, <1>7, <2>1, <3>2, <4>1
    <3> QED
      BY <3>1, <3>2
  <2> QED
    BY <1>6, <2>3, <2>4
<1> QED
  BY <1>8, <1>9, <1>10

LEMMA IngestKeepsEngineInd ==
  ASSUME EngineInd, NEW f \in Frames, Ingest(f)
  PROVE  EngineInd'
<1> DEFINE s == <<Source(f), f.id>>
<1>1. /\ pc = "idle" /\ frameNo < MaxFrames /\ frameNo' = frameNo + 1
      /\ UpdateMarket(s, f.price) /\ UNCHANGED <<volLimit, auditVars, signalVars>>
      /\ \/ pc' = "idle" /\ status' \in Statuses
         \/ pc' = "audit" /\ status' = status
  BY DEF Ingest, Returns, Statuses
<1>2. s \in Symbol /\ f.price \in Int
  BY EngineAssumption DEF Symbol, Source
<1>3. /\ index' \in [Symbol -> Slots \cup {NoSlot}]
      /\ arena' \in [Slots -> Int] /\ refPrice' \in Int /\ quotes' \in [Symbol -> Int]
      /\ Dense' /\ SlotHoldsSymbol'
  <2> HIDE DEF s
  <2> QED
    BY <1>1, <1>2, UpdateKeepsMarket
<1>4. AuditLeads' /\ Past' /\ Between' /\ PairsMatch'
  BY <1>1, HistoriesStay DEF auditVars, signalVars
<1>5. frameNo' \in 0 .. MaxFrames /\ frameNo' > 0
  BY <1>1, HistoryFacts, EngineAssumption
<1>6. EngineTypeOK'
  BY <1>1, <1>3, <1>5 DEF EngineInd, EngineInv, EngineTypeOK, auditVars, signalVars
<1>7. HistoryTypeOK'
  BY <1>1, <1>3, <1>5 DEF EngineInd, HistoryTypeOK, auditVars, signalVars
<1> QED
  BY <1>3, <1>4, <1>6, <1>7 DEF EngineInd, EngineInv

--------------------------------------------------------------------------------
(* The two pushes.                                                         *)

(* A history that grows by a number above all it has stays increasing.     *)
LEMMA IncreasingAppend ==
  ASSUME NEW s \in Seq(Number), NEW n \in Number,
         \A j, k \in 1 .. Len(s) : j < k => s[j] < s[k],
         \A k \in 1 .. Len(s) : s[k] < n
  PROVE  \A j, k \in 1 .. Len(Append(s, n)) :
           j < k => Append(s, n)[j] < Append(s, n)[k]
<1> DEFINE r == Append(s, n)
<1>1. /\ Len(r) = Len(s) + 1 /\ Len(s) \in Nat /\ r[Len(s) + 1] = n
      /\ \A k \in 1 .. Len(s) : r[k] = s[k]
  BY NumbersAppend, LenProperties
<1> HIDE DEF r
<1> SUFFICES ASSUME NEW j \in 1 .. Len(r), NEW k \in 1 .. Len(r), j < k
             PROVE  r[j] < r[k]
  BY DEF r
<1>2. j \in 1 .. Len(s) /\ r[j] = s[j]
  BY <1>1
<1>3. CASE k \in 1 .. Len(s)
  BY <1>1, <1>2, <1>3
<1>4. CASE k = Len(s) + 1
  BY <1>1, <1>2, <1>4
<1> QED
  BY <1>1, <1>3, <1>4

LEMMA PushAuditKeepsEngineInd == EngineInd /\ PushAudit => EngineInd'
<1> SUFFICES ASSUME EngineInd, PushAudit PROVE EngineInd'
    OBVIOUS
<1>1. /\ pc = "audit" /\ pc' = "signal"
      /\ UNCHANGED <<volLimit, status, frameNo, marketVars, signalVars>>
  BY DEF PushAudit
<1>2. /\ audited \in Seq(Number) /\ signalled \in Seq(Number)
      /\ Len(audited) \in Nat /\ Len(signalled) \in Nat
      /\ auditDrops \in Nat /\ signalDrops \in Nat /\ frameNo \in Number /\ frameNo \in Nat
  BY <1>1, HistoryFacts
<1>3. /\ Len(audited) + auditDrops = Len(signalled) + signalDrops
      /\ Cardinality(Unaudited) <= auditDrops /\ Cardinality(Unsignalled) <= signalDrops
      /\ Cardinality(Unaudited) \in Nat /\ Cardinality(Unsignalled) \in Nat
      /\ IsFiniteSet(Unaudited) /\ IsFiniteSet(Unsignalled)
  BY <1>1, <1>2, DifferencesFinite DEF EngineInd, EngineInv, AuditLeads, Unaudited, Unsignalled
<1>4. /\ \A j, k \in 1 .. Len(audited) : j < k => audited[j] < audited[k]
      /\ \A j, k \in 1 .. Len(signalled) : j < k => signalled[j] < signalled[k]
      /\ \A k \in 1 .. Len(audited) : audited[k] < frameNo
      /\ \A k \in 1 .. Len(signalled) : signalled[k] < frameNo
  BY <1>1 DEF EngineInd, EngineInv, AuditLeads, Past
<1>5. /\ \A k \in 1 .. Len(audited) : audited[k] \in Nat
      /\ \A k \in 1 .. Len(signalled) : signalled[k] \in Nat
  BY HistoryFacts
<1>6. Dense' /\ SlotHoldsSymbol'
  BY <1>1, MarketStays
<1>7. CASE auditFree > 0
  <2>1. /\ audits' = Append(audits, frameNo) /\ audited' = Append(audited, frameNo)
        /\ auditFree' = auditFree - 1 /\ auditDrops' = auditDrops
    BY <1>7 DEF PushAudit
  <2>2. EngineTypeOK'
    <3>1. audits' \in Seq(1 .. MaxFrames)
      BY <1>2, <2>1, AppendProperties DEF EngineInd, EngineInv, EngineTypeOK, Number
    <3>2. auditFree' \in 0 .. AuditSlots
      BY <1>7, <2>1, EngineAssumption DEF EngineInd, EngineInv, EngineTypeOK
    <3> QED
      BY <1>1, <3>1, <3>2 DEF EngineInd, EngineInv, EngineTypeOK, marketVars, signalVars
  <2>3. /\ audited' \in Seq(Number) /\ Len(audited') = Len(audited) + 1
        /\ audited'[Len(audited) + 1] = frameNo
        /\ \A k \in 1 .. Len(audited) : audited'[k] = audited[k]
        /\ Numbers(audited') = Numbers(audited) \cup {frameNo}
    BY <1>2, <2>1, NumbersAppend
  <2>4. HistoryTypeOK'
    BY <1>1, <1>2, <2>1, <2>3 DEF EngineInd, HistoryTypeOK, marketVars, signalVars
  <2>5. /\ Cardinality(Unaudited') <= auditDrops
        /\ IsFiniteSet(Unsignalled' \ {frameNo})
        /\ Cardinality(Unsignalled' \ {frameNo}) <= signalDrops
        /\ IsFiniteSet(Unsignalled') /\ Cardinality(Unsignalled') <= signalDrops + 1
    <3>1. signalled' = signalled
      BY <1>1 DEF signalVars
    <3>2. Unaudited' \subseteq Unaudited
      BY <2>3, <3>1 DEF Unaudited, Numbers
    <3>3. Unsignalled' \ {frameNo} \subseteq Unsignalled /\ Unsignalled' \subseteq Unsignalled \cup {frameNo}
      BY <2>3, <3>1 DEF Unsignalled, Numbers
    <3>4. Cardinality(Unaudited') \in Nat /\ Cardinality(Unaudited') <= Cardinality(Unaudited)
      BY <1>3, <3>2, FS_Subset, FS_CardinalityType
    <3>5. /\ IsFiniteSet(Unsignalled' \ {frameNo})
          /\ Cardinality(Unsignalled' \ {frameNo}) \in Nat
          /\ Cardinality(Unsignalled' \ {frameNo}) <= Cardinality(Unsignalled)
      BY <1>3, <3>3, FS_Subset, FS_CardinalityType
    <3>6. /\ IsFiniteSet(Unsignalled \cup {frameNo})
          /\ Cardinality(Unsignalled \cup {frameNo}) \in Nat
          /\ Cardinality(Unsignalled \cup {frameNo}) <= Cardinality(Unsignalled) + 1
      BY <1>3, OneMore
    <3>7. /\ IsFiniteSet(Unsignalled') /\ Cardinality(Unsignalled') \in Nat
          /\ Cardinality(Unsignalled') <= Cardinality(Unsignalled \cup {frameNo})
      BY <3>3, <3>6, FS_Subset, FS_CardinalityType
    <3> QED
      BY <1>2, <1>3, <3>4, <3>5, <3>6, <3>7, SMTT(30)
  <2>6. AuditLeads'
    <3>1. \A j, k \in 1 .. Len(audited') : j < k => audited'[j] < audited'[k]
      BY <1>2, <1>4, <2>1, IncreasingAppend
    <3>2. Len(audited') + auditDrops' = Len(signalled') + signalDrops' + 1
      <4>1. signalled' = signalled /\ signalDrops' = signalDrops
        BY <1>1 DEF signalVars
      <4>2. Len(audited') = Len(audited) + 1 /\ auditDrops' = auditDrops
        BY <2>1, <2>3
      <4> QED
        BY <1>2, <1>3, <4>1, <4>2
    <3>3. /\ Cardinality(Numbers(signalled') \ Numbers(audited')) <= auditDrops'
          /\ Cardinality(Numbers(audited') \ Numbers(signalled')) <= signalDrops' + 1
      BY <1>1, <2>1, <2>5 DEF Unaudited, Unsignalled, signalVars
    <3>4. \A j, k \in 1 .. Len(signalled') : j < k => signalled'[j] < signalled'[k]
      BY <1>1, <1>4 DEF signalVars
    <3> QED
      BY <1>1, <3>1, <3>2, <3>3, <3>4 DEF AuditLeads
  <2>7. Past'
    <3>1. \A k \in 1 .. Len(audited') : audited'[k] <= frameNo
      <4> SUFFICES ASSUME NEW k \in 1 .. Len(audited') PROVE audited'[k] <= frameNo
        OBVIOUS
      <4>1. k \in 1 .. Len(audited) \/ k = Len(audited) + 1
        BY <1>2, <2>3
      <4>2. CASE k \in 1 .. Len(audited)
        <5>1. audited'[k] = audited[k] /\ audited[k] < frameNo /\ audited[k] \in Nat
          BY <1>4, <1>5, <2>3, <4>2, Zenon
        <5> QED
          BY <1>2, <5>1
      <4>3. CASE k = Len(audited) + 1
        BY <1>2, <2>3, <4>3
      <4> QED
        BY <4>1, <4>2, <4>3
    <3>2. UNCHANGED <<signalled, frameNo>>
      BY <1>1 DEF signalVars
    <3> QED
      BY <1>1, <1>2, <1>4, <1>5, <3>1, <3>2 DEF Past
  <2>8. Between'
    <3>1. frameNo \in Numbers(audited')
      BY <2>3
    <3> QED
      BY <1>1, <2>1, <2>3, <2>5, <3>1 DEF Between, signalVars
  <2>9. PairsMatch'
    BY <1>1, <1>2, <2>1, <2>3 DEF EngineInd, PairsMatch, signalVars
  <2> QED
    BY <1>6, <2>2, <2>4, <2>6, <2>7, <2>8, <2>9 DEF EngineInd, EngineInv
<1>8. CASE auditFree = 0
  <2>1. UNCHANGED <<audits, audited, auditFree>> /\ auditDrops' = auditDrops + 1
    BY <1>8 DEF PushAudit
  <2>2. EngineTypeOK' /\ HistoryTypeOK'
    BY <1>1, <1>2, <2>1
       DEF EngineInd, EngineInv, EngineTypeOK, HistoryTypeOK, marketVars, signalVars
  <2>3. Unaudited' = Unaudited /\ Unsignalled' = Unsignalled
    BY <1>1, <2>1 DEF Unaudited, Unsignalled, Numbers, signalVars
  <2>4. AuditLeads'
    <3>1. Len(audited') + auditDrops' = Len(signalled') + signalDrops' + 1
      BY <1>1, <1>2, <1>3, <2>1 DEF signalVars
    <3>2. Cardinality(Unaudited') <= auditDrops' /\ Cardinality(Unsignalled') <= signalDrops' + 1
      BY <1>1, <1>2, <1>3, <2>1, <2>3 DEF signalVars
    <3> QED
      BY <1>1, <1>4, <2>1, <3>1, <3>2 DEF AuditLeads, Unaudited, Unsignalled, signalVars
  <2>5. Past'
    BY <1>1, <1>2, <1>4, <1>5, <2>1 DEF Past, signalVars
  <2>6. Between'
    <3>1. Cardinality(Unsignalled \ {frameNo}) <= signalDrops
      <4>1. /\ Cardinality(Unsignalled \ {frameNo}) \in Nat
            /\ Cardinality(Unsignalled \ {frameNo}) <= Cardinality(Unsignalled)
        BY <1>3, FS_Subset, FS_CardinalityType
      <4> QED
        BY <1>2, <1>3, <4>1
    <3>2. Cardinality(Unaudited) + 1 <= auditDrops' /\ auditDrops' # 0
      BY <1>2, <1>3, <2>1
    <3> QED
      BY <1>1, <2>1, <2>3, <3>1, <3>2 DEF Between, signalVars
  <2>7. PairsMatch'
    BY <1>2, <2>1 DEF PairsMatch
  <2> QED
    BY <1>6, <2>2, <2>4, <2>5, <2>6, <2>7 DEF EngineInd, EngineInv
<1> QED
  BY <1>7, <1>8 DEF PushAudit

LEMMA PushSignalKeepsEngineInd == EngineInd /\ PushSignal => EngineInd'
<1> SUFFICES ASSUME EngineInd, PushSignal PROVE EngineInd'
    OBVIOUS
<1>1. /\ pc = "signal" /\ pc' = "idle" /\ status' \in Statuses
      /\ UNCHANGED <<volLimit, frameNo, marketVars, auditVars>>
  BY DEF PushSignal, Returns, Statuses
<1>2. /\ audited \in Seq(Number) /\ signalled \in Seq(Number)
      /\ Len(audited) \in Nat /\ Len(signalled) \in Nat
      /\ auditDrops \in Nat /\ signalDrops \in Nat /\ frameNo \in Number /\ frameNo \in Nat
  BY <1>1, HistoryFacts
<1>3. /\ Len(audited) + auditDrops = Len(signalled) + signalDrops + 1
      /\ Cardinality(Unaudited) <= auditDrops
      /\ Cardinality(Unaudited) \in Nat /\ Cardinality(Unsignalled) \in Nat
      /\ IsFiniteSet(Unaudited) /\ IsFiniteSet(Unsignalled)
  BY <1>1, <1>2, DifferencesFinite DEF EngineInd, EngineInv, AuditLeads, Unaudited, Unsignalled
<1>4. /\ frameNo \notin Numbers(audited) => Cardinality(Unaudited) + 1 <= auditDrops
      /\ Cardinality(Unsignalled \ {frameNo}) <= signalDrops
      /\ auditDrops = 0 => audited[Len(audited)] = frameNo
  BY <1>1 DEF EngineInd, Between
<1>5. /\ \A j, k \in 1 .. Len(audited) : j < k => audited[j] < audited[k]
      /\ \A j, k \in 1 .. Len(signalled) : j < k => signalled[j] < signalled[k]
      /\ \A k \in 1 .. Len(audited) : audited[k] <= frameNo
      /\ \A k \in 1 .. Len(signalled) : signalled[k] < frameNo
  BY <1>1 DEF EngineInd, EngineInv, AuditLeads, Past
<1>6. \A k \in 1 .. Len(signalled) : signalled[k] \in Nat
  BY HistoryFacts
<1>7. Dense' /\ SlotHoldsSymbol' /\ Between'
  BY <1>1, MarketStays DEF Between
<1>8. CASE signalFree > 0
  <2>1. /\ signals' = Append(signals, frameNo) /\ signalled' = Append(signalled, frameNo)
        /\ signalFree' = signalFree - 1 /\ signalDrops' = signalDrops
    BY <1>8 DEF PushSignal
  <2>2. EngineTypeOK'
    <3>1. signals' \in Seq(1 .. MaxFrames)
      BY <1>2, <2>1, AppendProperties DEF EngineInd, EngineInv, EngineTypeOK, Number
    <3>2. signalFree' \in 0 .. SignalSlots
      BY <1>8, <2>1, EngineAssumption DEF EngineInd, EngineInv, EngineTypeOK
    <3> QED
      BY <1>1, <3>1, <3>2 DEF EngineInd, EngineInv, EngineTypeOK, marketVars, auditVars
  <2>3. /\ signalled' \in Seq(Number) /\ Len(signalled') = Len(signalled) + 1
        /\ signalled'[Len(signalled) + 1] = frameNo
        /\ \A k \in 1 .. Len(signalled) : signalled'[k] = signalled[k]
        /\ Numbers(signalled') = Numbers(signalled) \cup {frameNo}
    BY <1>2, <2>1, NumbersAppend
  <2>4. HistoryTypeOK'
    BY <1>1, <1>2, <2>1, <2>3 DEF EngineInd, HistoryTypeOK, marketVars, auditVars
  <2>5. Cardinality(Unaudited') <= auditDrops /\ Cardinality(Unsignalled') <= signalDrops
    <3>1. audited' = audited
      BY <1>1 DEF auditVars
    <3>2. Unsignalled' = Unsignalled \ {frameNo}
      BY <2>3, <3>1 DEF Unsignalled, Numbers
    <3>3. CASE frameNo \in Numbers(audited)
      <4>1. Unaudited' = Unaudited
        BY <2>3, <3>1, <3>3 DEF Unaudited, Numbers
      <4> QED
        BY <1>3, <1>4, <3>2, <4>1
    <3>4. CASE frameNo \notin Numbers(audited)
      <4>1. Unaudited' = Unaudited \cup {frameNo}
        BY <2>3, <3>1, <3>4 DEF Unaudited, Numbers
      <4>2. Cardinality(Unaudited \cup {frameNo}) <= Cardinality(Unaudited) + 1
            /\ Cardinality(Unaudited \cup {frameNo}) \in Nat
        BY <1>3, OneMore
      <4> QED
        BY <1>2, <1>3, <1>4, <3>2, <3>4, <4>1, <4>2
    <3> QED
      BY <3>3, <3>4
  <2>6. AuditLeads'
    <3>1. \A j, k \in 1 .. Len(signalled') : j < k => signalled'[j] < signalled'[k]
      BY <1>2, <1>5, <2>1, IncreasingAppend
    <3>2. Len(audited') + auditDrops' = Len(signalled') + signalDrops'
      BY <1>1, <1>2, <1>3, <2>1, <2>3 DEF auditVars
    <3>3. /\ Cardinality(Numbers(signalled') \ Numbers(audited')) <= auditDrops'
          /\ Cardinality(Numbers(audited') \ Numbers(signalled')) <= signalDrops'
      BY <1>1, <2>1, <2>5 DEF Unaudited, Unsignalled, auditVars
    <3>4. \A j, k \in 1 .. Len(audited') : j < k => audited'[j] < audited'[k]
      BY <1>1, <1>5 DEF auditVars
    <3>5. /\ Len(signalled') + signalDrops' + 0 = Len(signalled') + signalDrops'
          /\ signalDrops' + 0 = signalDrops'
      BY <1>2, <2>1, <2>3
    <3>6. (IF pc' = "signal" THEN 1 ELSE 0) = 0
      BY <1>1
    <3> QED
      BY <3>1, <3>2, <3>3, <3>4, <3>5, <3>6, Zenon DEF AuditLeads
  <2>7. Past'
    BY <1>1, <1>2, <1>5, <1>6, <2>3 DEF Past, auditVars
  <2>8. PairsMatch'
    <3> SUFFICES ASSUME auditDrops = 0, signalDrops = 0
                 PROVE  /\ Len(signalled') <= Len(audited)
                        /\ \A k \in 1 .. Len(signalled') : signalled'[k] = audited[k]
      BY <1>1, <2>1 DEF PairsMatch, auditVars
    <3>1. Len(audited) = Len(signalled) + 1
      BY <1>2, <1>3
    <3>2. \A k \in 1 .. Len(signalled) : signalled[k] = audited[k]
      BY DEF EngineInd, PairsMatch
    <3>3. audited[Len(signalled) + 1] = frameNo
      BY <1>4, <3>1
    <3>4. 1 .. Len(signalled) + 1 = (1 .. Len(signalled)) \cup {Len(signalled) + 1}
      BY <1>2
    <3> QED
      BY <1>2, <2>3, <3>1, <3>2, <3>3, <3>4
  <2> QED
    BY <1>7, <2>2, <2>4, <2>6, <2>7, <2>8 DEF EngineInd, EngineInv
<1>9. CASE signalFree = 0
  <2>1. UNCHANGED <<signals, signalled, signalFree>> /\ signalDrops' = signalDrops + 1
    BY <1>9 DEF PushSignal
  <2>2. EngineTypeOK' /\ HistoryTypeOK'
    BY <1>1, <1>2, <2>1
       DEF EngineInd, EngineInv, EngineTypeOK, HistoryTypeOK, marketVars, auditVars
  <2>3. Unaudited' = Unaudited /\ Unsignalled' = Unsignalled
    BY <1>1, <2>1 DEF Unaudited, Unsignalled, Numbers, auditVars
  <2>4. Cardinality(Unsignalled) <= signalDrops + 1
    <3>1. /\ IsFiniteSet(Unsignalled \ {frameNo}) /\ Cardinality(Unsignalled \ {frameNo}) \in Nat
          /\ Unsignalled \subseteq (Unsignalled \ {frameNo}) \cup {frameNo}
      BY <1>3, FS_Subset, FS_CardinalityType
    <3>2. /\ IsFiniteSet((Unsignalled \ {frameNo}) \cup {frameNo})
          /\ Cardinality((Unsignalled \ {frameNo}) \cup {frameNo})
               = Cardinality(Unsignalled \ {frameNo}) + 1
      BY <3>1, FS_AddElement
    <3>3. Cardinality(Unsignalled) <= Cardinality((Unsignalled \ {frameNo}) \cup {frameNo})
      BY <3>1, <3>2, FS_Subset
    <3> QED
      BY <1>2, <1>3, <1>4, <3>1, <3>2, <3>3
  <2>5. AuditLeads'
    <3>1. Len(audited') + auditDrops' = Len(signalled') + signalDrops'
      BY <1>1, <1>2, <1>3, <2>1 DEF auditVars
    <3>2. Cardinality(Unaudited') <= auditDrops' /\ Cardinality(Unsignalled') <= signalDrops'
      BY <1>1, <1>2, <1>3, <2>1, <2>3, <2>4 DEF auditVars
    <3> QED
      BY <1>1, <1>2, <1>5, <2>1, <3>1, <3>2 DEF AuditLeads, Unaudited, Unsignalled, auditVars
  <2>6. Past'
    BY <1>1, <1>2, <1>5, <1>6, <2>1 DEF Past, auditVars
  <2>7. PairsMatch'
    BY <1>2, <2>1 DEF PairsMatch
  <2> QED
    BY <1>7, <2>2, <2>5, <2>6, <2>7 DEF EngineInd, EngineInv
<1> QED
  BY <1>8, <1>9 DEF PushSignal

--------------------------------------------------------------------------------
LEMMA StepKeepsEngineInd == EngineInd /\ [EngineNext]_engineVars => EngineInd'
<1> SUFFICES ASSUME EngineInd, [EngineNext]_engineVars PROVE EngineInd'
    OBVIOUS
<1>1. CASE \/ PollEmpty \/ (\E f \in Frames : ParseFails(f)) \/ Others
           \/ UNCHANGED engineVars
  BY <1>1, QuietStepKeepsEngineInd
<1>2. CASE \E f \in Frames : Ingest(f)
  BY <1>2, IngestKeepsEngineInd
<1>3. CASE PushAudit
  BY <1>3, PushAuditKeepsEngineInd
<1>4. CASE PushSignal
  BY <1>4, PushSignalKeepsEngineInd
<1> QED
  BY <1>1, <1>2, <1>3, <1>4 DEF EngineNext, Step

LEMMA EngineIndHolds == EngineSpec => []EngineInd
BY InitEngineInd, StepKeepsEngineInd, PTL DEF EngineSpec

(* Every frame that passed the gates is recorded, or counted as dropped,   *)
(* before its descriptor is captured or dropped, and both rings take the   *)
(* frames in order, whatever their consumers do.                           *)
THEOREM AuditPrecedesSignal == EngineSpec => []EngineInv
<1>1. EngineInd => EngineInv
  BY DEF EngineInd
<1> QED
  BY <1>1, EngineIndHolds, PTL

(* Until one of the rings refuses an entry, the k-th descriptor and the    *)
(* k-th record are of the same frame.                                      *)
THEOREM RecordsPairWithSignals == EngineSpec => []PairsMatch
<1>1. EngineInd => PairsMatch
  BY DEF EngineInd
<1> QED
  BY <1>1, EngineIndHolds, PTL

(* No other symbol is ever written into the slot of a registered one,      *)
(* except into slot 0 once the index is full, which then holds the last    *)
(* price of its own symbol or of one that found the index full.            *)
THEOREM SlotsAreOwned == EngineSpec => []SlotHoldsSymbol
<1>1. EngineInd => SlotHoldsSymbol
  BY DEF EngineInd
<1> QED
  BY <1>1, EngineIndHolds, PTL
================================================================================
