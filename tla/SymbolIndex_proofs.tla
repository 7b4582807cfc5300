--------------------------- MODULE SymbolIndex_proofs ---------------------------
(***************************************************************************)
(* Proofs about SymbolIndex for any number of threads, symbols and ids:    *)
(* the invariant IndexInv is inductive, it excludes a race on the map, an  *)
(* id never changes, and get_or_create implements the atomic table.        *)
(***************************************************************************)
EXTENDS SymbolIndex, TLAPS

--------------------------------------------------------------------------------
(* The key. *)

(* Source and external id never run into each other. *)
LEMMA KeySplits ==
  ASSUME NEW e \in Nat \ {0}, NEW s \in Nat, NEW r \in Nat,
         NEW x \in 0 .. e - 1, NEW y \in 0 .. e - 1, s * e + x = r * e + y
  PROVE  s = r /\ x = y
<1>1. ASSUME NEW m \in Nat, NEW n \in Nat, m < n,
             NEW u \in 0 .. e - 1, NEW v \in 0 .. e - 1
      PROVE  m * e + u < n * e + v
  <2>1. PICK d \in Nat : n = m + 1 + d
    <3>1. n - m - 1 \in Nat /\ n = m + 1 + (n - m - 1)
      BY <1>1
    <3> QED
      BY <3>1
  <2>2. n * e = m * e + e + d * e
    BY <2>1
  <2>3. m * e \in Nat /\ d * e \in Nat
    OBVIOUS
  <2> QED
    BY <2>2, <2>3, <1>1
<1>2. ~(s < r) /\ ~(r < s)
  <2>1. ASSUME s < r PROVE FALSE
    BY <1>1, <2>1
  <2>2. ASSUME r < s PROVE FALSE
    BY <1>1, <2>2
  <2> QED
    BY <2>1, <2>2
<1> QED
  BY <1>2

(* Two symbols with the same key are the same symbol. *)
LEMMA KeyInjective ==
  ASSUME NEW a \in Symbol, NEW b \in Symbol, Key(a) = Key(b)
  PROVE  a = b
<1>1. PICK s \in Sources, x \in Externals : a = <<s, x>>
  BY DEF Symbol
<1>2. PICK r \in Sources, y \in Externals : b = <<r, y>>
  BY DEF Symbol
<1>3. s * ExtSpan + x = r * ExtSpan + y
  BY <1>1, <1>2 DEF Key
<1>4. s = r /\ x = y
  BY <1>3, KeySplits, SymbolAssumption
<1> QED
  BY <1>1, <1>2, <1>4

(* The key of every call is one of the keys of the map. *)
LEMMA KeyInKeys == ASSUME NEW a \in Symbol PROVE Key(a) \in Keys
BY DEF Keys

--------------------------------------------------------------------------------
(* The invariant. *)

(* Nothing is registered and nobody is in a critical section at first. *)
LEMMA InitIndexInv == IndexInit => IndexInv
<1> SUFFICES ASSUME IndexInit PROVE IndexInv
    OBVIOUS
<1> USE DEF IndexInit
<1>1. IndexTypeOK
  BY SymbolAssumption DEF IndexTypeOK, Ids
<1>2. LocksHeld /\ StillAbsent
  BY SymbolAssumption DEF LocksHeld, StillAbsent
<1>3. DenseIds
  BY SymbolAssumption DEF DenseIds
<1> QED
  BY <1>1, <1>2, <1>3 DEF IndexInv

(* Steps that only move one thread between places outside the unique       *)
(* section leave the table alone.                                          *)
LEMMA OutsideKeepsIndexInv ==
  ASSUME IndexInv, NEW t \in Threads,
         LockShared(t) \/ FastFind(t) \/ Return(t) \/ \E a \in Symbol : Call(t, a)
  PROVE  IndexInv'
<1> USE DEF IndexInv
<1>1. UNCHANGED <<map, nextId, writer, newId>>
  BY DEF LockShared, FastFind, Return, Call
<1>2. Key(args[t]) \in Keys
  BY KeyInKeys DEF IndexTypeOK
<1>3. IndexTypeOK'
  <2>1. CASE FastFind(t)
    <3>1. map[Key(args[t])] # NoId => map[Key(args[t])] \in Ids
      BY <1>2 DEF IndexTypeOK
    <3> QED
      BY <2>1, <3>1 DEF IndexTypeOK, FastFind, Answer, Goto
  <2>2. CASE LockShared(t) \/ Return(t) \/ \E a \in Symbol : Call(t, a)
    BY <2>2 DEF IndexTypeOK, LockShared, Return, Call, Goto
  <2> QED
    BY <2>1, <2>2
<1>4. /\ \A u \in Threads \ {t} : pc'[u] = pc[u] /\ args'[u] = args[u]
      /\ pc[t] \notin {"check", "take", "insert"}
      /\ pc'[t] \notin {"check", "take", "insert"}
  BY DEF IndexTypeOK, LockShared, FastFind, Return, Call, Answer, Goto
<1>5. LocksHeld'
  <2>1. CASE LockShared(t)
    BY <1>1, <2>1 DEF LocksHeld, IndexTypeOK, LockShared, Goto
  <2>2. CASE FastFind(t)
    BY <1>1, <2>2 DEF LocksHeld, IndexTypeOK, FastFind, Answer, Goto
  <2>3. CASE Return(t) \/ \E a \in Symbol : Call(t, a)
    BY <1>1, <2>3 DEF LocksHeld, IndexTypeOK, Return, Call, Goto
  <2> QED
    BY <2>1, <2>2, <2>3
<1>6. StillAbsent'
  BY <1>1, <1>4 DEF StillAbsent
<1>7. DenseIds'
  BY <1>1, <1>4 DEF DenseIds
<1> QED
  BY <1>3, <1>5, <1>6, <1>7

(* Only one thread is past the unique lock. *)
LEMMA OneWriter ==
  ASSUME LocksHeld, NEW t \in Threads, NEW u \in Threads,
         pc[t] \in {"check", "take", "insert"}, pc[u] \in {"check", "take", "insert"}
  PROVE  t = u
BY DEF LocksHeld

LEMMA LockUniqueKeepsIndexInv ==
  ASSUME IndexInv, NEW t \in Threads, LockUnique(t)
  PROVE  IndexInv'
<1> USE DEF IndexInv, LockUnique, Goto
<1>1. IndexTypeOK'
  BY DEF IndexTypeOK
<1>2. LocksHeld'
  BY SymbolAssumption DEF LocksHeld, IndexTypeOK
<1>3. StillAbsent'
  BY DEF StillAbsent, IndexTypeOK
<1>4. DenseIds'
  BY DEF DenseIds, IndexTypeOK
<1> QED
  BY <1>1, <1>2, <1>3, <1>4

LEMMA SlowFindKeepsIndexInv ==
  ASSUME IndexInv, NEW t \in Threads, SlowFind(t)
  PROVE  IndexInv'
<1> USE DEF IndexInv
<1>1. Key(args[t]) \in Keys
  BY KeyInKeys DEF IndexTypeOK
<1>2. /\ UNCHANGED <<map, nextId, readers, args, newId>>
      /\ pc[t] = "check"
      /\ \/ pc' = [pc EXCEPT ![t] = "return"] /\ writer' = NoThread
         \/ /\ pc' = [pc EXCEPT ![t] = "take"] /\ writer' = writer
            /\ map[Key(args[t])] = NoId /\ nextId < MaxSymbols
  BY DEF SlowFind, Answer, Goto
<1>3. IndexTypeOK'
  <2>1. result' \in [Threads -> Ids]
    BY <1>1, SymbolAssumption DEF IndexTypeOK, SlowFind, Answer, Ids
  <2> QED
    BY <1>2, <2>1 DEF IndexTypeOK
<1>4. LocksHeld'
  BY <1>2, SymbolAssumption DEF LocksHeld, IndexTypeOK
<1>5. StillAbsent'
  BY <1>2 DEF StillAbsent, IndexTypeOK
<1>6. DenseIds'
  BY <1>2 DEF DenseIds, IndexTypeOK
<1> QED
  BY <1>3, <1>4, <1>5, <1>6

LEMMA TakeIdKeepsIndexInv ==
  ASSUME IndexInv, NEW t \in Threads, TakeId(t)
  PROVE  IndexInv'
<1> USE DEF IndexInv, TakeId, Goto
<1>1. nextId < MaxSymbols /\ nextId \in Ids
  BY SymbolAssumption DEF StillAbsent, IndexTypeOK, Ids
<1>2. IndexTypeOK'
  BY <1>1, SymbolAssumption DEF IndexTypeOK, Ids
<1>3. LocksHeld'
  BY DEF LocksHeld, IndexTypeOK
<1>4. \A u \in Threads \ {t} : pc[u] \notin {"check", "take", "insert"}
  BY OneWriter
<1>5. \A k \in Keys : map[k] # nextId
  BY SymbolAssumption DEF DenseIds, IndexTypeOK
<1>6. StillAbsent'
  BY <1>4, <1>5, SymbolAssumption DEF StillAbsent, IndexTypeOK
<1>7. DenseIds'
  <2>1. /\ \A k \in Keys : map[k] # NoId => map[k] < nextId + 1
        /\ \A k, l \in Keys : map[k] = map[l] /\ map[k] # NoId => k = l
    BY SymbolAssumption DEF DenseIds, IndexTypeOK, Ids
  <2>2. ASSUME NEW i \in 0 .. nextId
        PROVE  \/ \E k \in Keys : map[k] = i
               \/ \E u \in Threads : pc'[u] = "insert" /\ newId'[u] = i
    <3>1. CASE i = nextId
      BY <3>1 DEF IndexTypeOK
    <3>2. CASE i # nextId
      <4>1. i \in 0 .. nextId - 1
        BY <3>2, SymbolAssumption DEF IndexTypeOK
      <4> QED
        BY <1>4, <4>1 DEF DenseIds
    <3> QED
      BY <3>1, <3>2
  <2> QED
    BY <2>1, <2>2, SymbolAssumption DEF DenseIds, IndexTypeOK
<1> QED
  BY <1>2, <1>3, <1>6, <1>7

LEMMA InsertKeepsIndexInv ==
  ASSUME IndexInv, NEW t \in Threads, Insert(t)
  PROVE  IndexInv'
<1> USE DEF IndexInv, Insert, Answer, Goto
<1>1. Key(args[t]) \in Keys
  BY KeyInKeys DEF IndexTypeOK
<1>2. /\ map[Key(args[t])] = NoId /\ nextId = newId[t] + 1
      /\ \A k \in Keys : map[k] # newId[t]
      /\ newId[t] \in Ids /\ newId[t] # NoId
  BY SymbolAssumption DEF StillAbsent, IndexTypeOK, Ids
<1>3. IndexTypeOK'
  BY <1>1, <1>2 DEF IndexTypeOK
<1>4. LocksHeld'
  BY SymbolAssumption DEF LocksHeld, IndexTypeOK
<1>5. \A u \in Threads \ {t} : pc[u] \notin {"check", "take", "insert"}
  BY OneWriter
<1>6. StillAbsent'
  BY <1>5 DEF StillAbsent, IndexTypeOK
<1>7. DenseIds'
  <2>1. \A k \in Keys : map'[k] = IF k = Key(args[t]) THEN newId[t] ELSE map[k]
    BY <1>1 DEF IndexTypeOK
  <2>2. \A k \in Keys : map'[k] # NoId => map'[k] < nextId
    BY <1>2, <2>1 DEF DenseIds, Ids
  <2>3. \A k, l \in Keys : map'[k] = map'[l] /\ map'[k] # NoId => k = l
    BY <1>2, <2>1 DEF DenseIds
  <2>4. \A i \in 0 .. nextId - 1 : \E k \in Keys : map'[k] = i
    <3> TAKE i \in 0 .. nextId - 1
    <3>1. CASE \E k \in Keys : map[k] = i
      <4>1. PICK k \in Keys : map[k] = i
        BY <3>1
      <4>2. i # NoId
        BY SymbolAssumption DEF IndexTypeOK
      <4> QED
        BY <1>2, <2>1, <4>1, <4>2
    <3>2. CASE \E u \in Threads : pc[u] = "insert" /\ newId[u] = i
      BY <1>1, <1>5, <2>1, <3>2
    <3> QED
      BY <3>1, <3>2 DEF DenseIds
  <2> QED
    BY <2>2, <2>3, <2>4 DEF DenseIds
<1> QED
  BY <1>3, <1>4, <1>6, <1>7

(* Every step keeps the invariant. *)
LEMMA StepKeepsIndexInv == IndexInv /\ [IndexNext]_indexVars => IndexInv'
<1> SUFFICES ASSUME IndexInv, [IndexNext]_indexVars PROVE IndexInv'
    OBVIOUS
<1>1. ASSUME NEW t \in Threads, Running(t) \/ \E a \in Symbol : Call(t, a)
      PROVE  IndexInv'
  BY <1>1, OutsideKeepsIndexInv, LockUniqueKeepsIndexInv, SlowFindKeepsIndexInv,
     TakeIdKeepsIndexInv, InsertKeepsIndexInv DEF Running
<1>2. CASE UNCHANGED indexVars
  BY <1>2 DEF indexVars, IndexInv, IndexTypeOK, LocksHeld, StillAbsent, DenseIds
<1> QED
  BY <1>1, <1>2 DEF IndexNext

(* Critical sections are held under their locks, a thread past the         *)
(* double-check inserts a key that is absent with an id that nobody has,   *)
(* and the ids are dense: for any number of threads calling get_or_create. *)
THEOREM IndexInvariant == IndexSafety => []IndexInv
BY InitIndexInv, StepKeepsIndexInv, PTL DEF IndexSafety

(* m_map is never searched or written by one thread while another thread   *)
(* inserts into it.                                                        *)
THEOREM MapHasNoRace == IndexSafety => []NoMapRace
<1>1. IndexInv => NoMapRace
  BY SymbolAssumption DEF IndexInv, LocksHeld, NoMapRace
<1> QED
  BY <1>1, IndexInvariant, PTL

(* Once a symbol has an id no call of any thread changes it. *)
THEOREM IdsAreForEver == IndexSafety => IdsNeverChange
<1>1. IndexInv /\ [IndexNext]_indexVars
        => [\A k \in Keys : map[k] # NoId => map'[k] = map[k]]_indexVars
  <2> SUFFICES ASSUME IndexInv, NEW t \in Threads,
                      Running(t) \/ \E a \in Symbol : Call(t, a),
                      NEW k \in Keys, map[k] # NoId
               PROVE  map'[k] = map[k]
    BY DEF IndexNext
  <2>1. CASE Insert(t)
    BY <2>1 DEF Insert, IndexInv, IndexTypeOK, StillAbsent
  <2>2. CASE ~Insert(t)
    BY <2>2 DEF Running, LockShared, FastFind, LockUnique, SlowFind, TakeId, Return, Call
  <2> QED
    BY <2>1, <2>2
<1> QED
  BY <1>1, IndexInvariant, PTL DEF IndexSafety, IdsNeverChange

--------------------------------------------------------------------------------
(* get_or_create implements the table. *)

(* What a thread's step does to the calls as the table sees them. *)
LEMMA CallsOfOthersKept ==
  ASSUME IndexTypeOK, NEW t \in Threads, NEW label, pc' = [pc EXCEPT ![t] = label],
         \A u \in Threads \ {t} : args'[u] = args[u] /\ result'[u] = result[u]
  PROVE  [u \in Threads |-> CallOf(u)]'
           = [[u \in Threads |-> CallOf(u)] EXCEPT ![t] = CallOf(t)']
<1>1. \A u \in Threads \ {t} : pc'[u] = pc[u]
  BY DEF IndexTypeOK
<1>2. \A u \in Threads \ {t} : CallOf(u)' = CallOf(u)
  BY <1>1 DEF CallOf
<1> QED
  BY <1>2

(* The entry of a symbol is what the map holds for its key. *)
LEMMA Entry ==
  ASSUME NEW a \in Symbol
  PROVE  [b \in Symbol |-> map[Key(b)]][a] = map[Key(a)]
OBVIOUS

LEMMA InitIsTableInit == IndexInit => Table!TableInit
<1> SUFFICES ASSUME IndexInit PROVE Table!TableInit
    OBVIOUS
<1>1. ~Taking
  BY DEF IndexInit, Taking
<1>2. \A t \in Threads : CallOf(t) = [stage |-> "idle"]
  BY DEF IndexInit, CallOf
<1>3. \A a \in Symbol : map[Key(a)] = NoId
  BY KeyInKeys DEF IndexInit
<1> QED
  BY <1>1, <1>2, <1>3 DEF IndexInit, Table!TableInit, Table!NoCall

(* A call is asked. *)
LEMMA CallIsAsk ==
  ASSUME IndexInv, NEW t \in Threads, NEW a \in Symbol, Call(t, a)
  PROVE  Table!Ask(t, a)
<1> USE DEF IndexInv, IndexTypeOK, Call, Goto
<1>1. CallOf(t) = [stage |-> "idle"] /\ CallOf(t)' = [stage |-> "asked", symbol |-> a]
  BY DEF CallOf
<1>2. [u \in Threads |-> CallOf(u)]'
        = [[u \in Threads |-> CallOf(u)] EXCEPT ![t] = CallOf(t)']
  BY CallsOfOthersKept
<1>3. Taking' = Taking
  BY DEF Taking
<1> QED
  BY <1>1, <1>2, <1>3 DEF Table!Ask, Table!NoCall, Table!Asked

(* A call leaves. *)
LEMMA ReturnIsLeave ==
  ASSUME IndexInv, NEW t \in Threads, Return(t)
  PROVE  Table!Leave(t)
<1> USE DEF IndexInv, IndexTypeOK, Return, Goto
<1>1. CallOf(t).stage = "answered" /\ CallOf(t)' = [stage |-> "idle"]
  BY DEF CallOf
<1>2. [u \in Threads |-> CallOf(u)]'
        = [[u \in Threads |-> CallOf(u)] EXCEPT ![t] = CallOf(t)']
  BY CallsOfOthersKept
<1>3. Taking' = Taking
  BY DEF Taking
<1> QED
  BY <1>1, <1>2, <1>3 DEF Table!Leave, Table!NoCall

(* A lookup that finds the key answers a known symbol. *)
LEMMA HitIsAnswerKnown ==
  ASSUME IndexInv, NEW t \in Threads, pc[t] \in {"find", "check"},
         map[Key(args[t])] # NoId, Answer(t, map[Key(args[t])]),
         UNCHANGED <<map, nextId, args, newId>>
  PROVE  Table!AnswerKnown(t, args[t])
<1> USE DEF IndexInv, IndexTypeOK, Answer, Goto
<1>1. args[t] \in Symbol
  OBVIOUS
<1>2. /\ CallOf(t) = [stage |-> "asked", symbol |-> args[t]]
      /\ CallOf(t)' = [stage |-> "answered", symbol |-> args[t],
                       answer |-> map[Key(args[t])]]
  BY DEF CallOf
<1>3. [u \in Threads |-> CallOf(u)]'
        = [[u \in Threads |-> CallOf(u)] EXCEPT ![t] = CallOf(t)']
  BY CallsOfOthersKept
<1>4. Taking' = Taking
  BY DEF Taking
<1> QED
  BY <1>1, <1>2, <1>3, <1>4, Entry DEF Table!AnswerKnown, Table!Asked, Table!Answered

(* While a thread is past the unique lock, nobody else has taken an id. *)
LEMMA NobodyTaking ==
  ASSUME IndexInv, NEW t \in Threads, pc[t] \in {"check", "take"}
  PROVE  ~Taking
BY OneWriter DEF IndexInv, Taking

(* The answer 0 for want of ids. *)
LEMMA LimitIsAnswerFull ==
  ASSUME IndexInv, NEW t \in Threads, pc[t] = "check",
         map[Key(args[t])] = NoId, nextId >= MaxSymbols, Answer(t, 0),
         UNCHANGED <<map, nextId, args, newId>>
  PROVE  Table!AnswerFull(t, args[t])
<1> USE DEF IndexInv, IndexTypeOK, Answer, Goto
<1>1. args[t] \in Symbol
  OBVIOUS
<1>2. /\ CallOf(t) = [stage |-> "asked", symbol |-> args[t]]
      /\ CallOf(t)' = [stage |-> "answered", symbol |-> args[t], answer |-> 0]
  BY DEF CallOf
<1>3. [u \in Threads |-> CallOf(u)]'
        = [[u \in Threads |-> CallOf(u)] EXCEPT ![t] = CallOf(t)']
  BY CallsOfOthersKept
<1>4. ~Taking /\ ~Taking'
  BY NobodyTaking DEF Taking
<1>5. nextId \notin Ids
  BY SymbolAssumption DEF Ids
<1> QED
  BY <1>1, <1>2, <1>3, <1>4, <1>5, Entry DEF Table!AnswerFull, Table!Asked, Table!Answered

(* The insertion is the instant at which a new symbol gets its number. *)
LEMMA InsertIsAnswerNew ==
  ASSUME IndexInv, NEW t \in Threads, Insert(t)
  PROVE  Table!AnswerNew(t, args[t])
<1> USE DEF IndexInv, IndexTypeOK, Insert, Answer, Goto
<1>1. args[t] \in Symbol /\ Key(args[t]) \in Keys
  BY KeyInKeys
<1>2. map[Key(args[t])] = NoId /\ nextId - 1 = newId[t] /\ newId[t] \in Ids
  BY SymbolAssumption DEF StillAbsent, Ids
<1>3. /\ CallOf(t) = [stage |-> "asked", symbol |-> args[t]]
      /\ CallOf(t)' = [stage |-> "answered", symbol |-> args[t], answer |-> newId[t]]
  BY DEF CallOf
<1>4. [u \in Threads |-> CallOf(u)]'
        = [[u \in Threads |-> CallOf(u)] EXCEPT ![t] = CallOf(t)']
  BY CallsOfOthersKept
<1>5. Taking /\ ~Taking'
  BY OneWriter DEF Taking
<1>6. [a \in Symbol |-> map[Key(a)]]'
        = [[a \in Symbol |-> map[Key(a)]] EXCEPT ![args[t]] = newId[t]]
  <2>1. \A a \in Symbol : map'[Key(a)] = IF a = args[t] THEN newId[t] ELSE map[Key(a)]
    BY <1>1, KeyInKeys, KeyInjective
  <2> QED
    BY <1>1, <2>1
<1>7. nextId = newId[t] + 1
  BY DEF StillAbsent
<1> QED
  BY <1>1, <1>2, <1>3, <1>4, <1>5, <1>6, <1>7, Entry
     DEF Table!AnswerNew, Table!Asked, Table!Answered

(* Taking a lock, a lookup that misses and fetch_add are steps inside a    *)
(* call that the table does not see.                                       *)
LEMMA InnerStepsStutter ==
  ASSUME IndexInv, NEW t \in Threads, NEW label \in {"find", "lockUnique", "check", "take"},
         pc[t] \in {"lockShared", "find", "lockUnique", "check"},
         pc' = [pc EXCEPT ![t] = label], UNCHANGED <<map, nextId, args, newId, result>>
  PROVE  UNCHANGED Table!tableVars
<1> USE DEF IndexInv, IndexTypeOK
<1>1. Taking' = Taking
  BY DEF Taking
<1>2. \A u \in Threads : CallOf(u)' = CallOf(u)
  BY DEF CallOf
<1> QED
  BY <1>1, <1>2 DEF Table!tableVars

LEMMA TakeIdStutters ==
  ASSUME IndexInv, NEW t \in Threads, TakeId(t)
  PROVE  UNCHANGED Table!tableVars
<1> USE DEF IndexInv, IndexTypeOK, TakeId, Goto
<1>1. ~Taking /\ Taking'
  BY NobodyTaking DEF Taking
<1>2. \A u \in Threads : CallOf(u)' = CallOf(u)
  BY DEF CallOf
<1>3. nextId' - 1 = nextId
  BY SymbolAssumption
<1> QED
  BY <1>1, <1>2, <1>3 DEF Table!tableVars

LEMMA StepIsTableStep ==
  IndexInv /\ [IndexNext]_indexVars => [Table!TableNext]_(Table!tableVars)
<1> SUFFICES ASSUME IndexInv, [IndexNext]_indexVars
             PROVE  Table!TableNext \/ UNCHANGED Table!tableVars
    OBVIOUS
<1>1. ASSUME NEW t \in Threads, Running(t) \/ \E a \in Symbol : Call(t, a)
      PROVE  Table!TableNext \/ UNCHANGED Table!tableVars
  <2>1. args[t] \in Symbol
    BY DEF IndexInv, IndexTypeOK
  <2>2. CASE \E a \in Symbol : Call(t, a)
    BY <2>2, CallIsAsk DEF Table!TableNext
  <2>3. CASE Return(t)
    BY <2>3, ReturnIsLeave DEF Table!TableNext
  <2>4. CASE LockShared(t) \/ LockUnique(t)
    BY <2>4, InnerStepsStutter DEF LockShared, LockUnique, Goto
  <2>5. CASE FastFind(t)
    <3>1. CASE map[Key(args[t])] # NoId
      BY <2>1, <2>5, <3>1, HitIsAnswerKnown DEF FastFind, Table!TableNext
    <3>2. CASE map[Key(args[t])] = NoId
      BY <2>5, <3>2, InnerStepsStutter DEF FastFind, Goto
    <3> QED
      BY <3>1, <3>2
  <2>6. CASE SlowFind(t)
    <3>1. CASE map[Key(args[t])] # NoId
      BY <2>1, <2>6, <3>1, HitIsAnswerKnown DEF SlowFind, Table!TableNext
    <3>2. CASE map[Key(args[t])] = NoId /\ nextId >= MaxSymbols
      <4>1. ~(nextId < MaxSymbols)
        BY <3>2, SymbolAssumption DEF IndexInv, IndexTypeOK
      <4> QED
        BY <2>1, <2>6, <3>2, <4>1, LimitIsAnswerFull DEF SlowFind, Table!TableNext
    <3>3. CASE map[Key(args[t])] = NoId /\ ~(nextId >= MaxSymbols)
      BY <2>6, <3>3, InnerStepsStutter DEF SlowFind, Goto
    <3> QED
      BY <3>1, <3>2, <3>3
  <2>7. CASE TakeId(t)
    BY <2>7, TakeIdStutters
  <2>8. CASE Insert(t)
    BY <2>1, <2>8, InsertIsAnswerNew DEF Table!TableNext
  <2> QED
    BY <1>1, <2>2, <2>3, <2>4, <2>5, <2>6, <2>7, <2>8 DEF Running
<1>2. CASE UNCHANGED indexVars
  BY <1>2 DEF indexVars, Table!tableVars, CallOf, Taking
<1> QED
  BY <1>1, <1>2 DEF IndexNext

(* get_or_create, with its two lookups under two locks and any number of   *)
(* threads between them, behaves as if each call happened at one instant:  *)
(* racing calls for a new symbol all get the one id it was given.          *)
THEOREM IndexImplementsTable == IndexSafety => ImplementsTable
BY IndexInvariant, InitIsTableInit, StepIsTableStep, PTL
   DEF IndexSafety, ImplementsTable, Table!TableSpec
================================================================================
