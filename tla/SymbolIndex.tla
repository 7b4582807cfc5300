------------------------------ MODULE SymbolIndex ------------------------------
(***************************************************************************)
(* SymbolIndex (include/buan/core/symbol_index.hpp): get_or_create called  *)
(* by several threads.  A call first looks the key up under the shared     *)
(* lock, gives that lock up, and on a miss takes the unique lock, looks    *)
(* again, takes the next id and stores it.                                 *)
(***************************************************************************)
EXTENDS Naturals, FiniteSets

CONSTANTS
  Threads,    \* callers
  Sources,    \* source_id: 0 for CME, 1 for Binance
  Externals,  \* external_id
  ExtSpan,    \* 2^32: source_id << 32 is source_id * ExtSpan
  MaxSymbols, \* MAX_SYMBOLS
  NoId,       \* a key m_map does not hold
  NoThread    \* nobody holds the unique lock

ASSUME SymbolAssumption ==
  /\ ExtSpan \in Nat \ {0} /\ Sources \subseteq Nat /\ Externals \subseteq 0 .. ExtSpan - 1
  /\ MaxSymbols \in Nat \ {0} /\ NoId \notin Nat /\ NoThread \notin Threads

VARIABLES
  map,     \* m_map
  nextId,  \* m_next_id
  readers, \* holders of m_mutex, shared
  writer,  \* holder of m_mutex, unique
  pc,      \* where each thread is in get_or_create
  args,    \* <<source_id, external_id>> of each call
  newId,   \* new_id of each thread
  result   \* what each call returns

indexVars == <<map, nextId, readers, writer, pc, args, newId, result>>

Symbol == Sources \X Externals
Ids == 0 .. MaxSymbols - 1

MutKeyIsExternal(a) == a[2]      \* the source left out of the key
Key(a) == a[1] * ExtSpan + a[2]

Keys == {Key(a) : a \in Symbol}

IndexInit ==
  /\ map = [k \in Keys |-> NoId] /\ nextId = 0
  /\ readers = {} /\ writer = NoThread
  /\ pc = [t \in Threads |-> "idle"]
  /\ args \in [Threads -> Symbol]
  /\ newId = [t \in Threads |-> 0] /\ result = [t \in Threads |-> 0]

--------------------------------------------------------------------------------
Goto(t, label) == pc' = [pc EXCEPT ![t] = label]
Answer(t, id) == result' = [result EXCEPT ![t] = id] /\ Goto(t, "return")

Call(t, a) ==
  /\ pc[t] = "idle"
  /\ args' = [args EXCEPT ![t] = a]
  /\ Goto(t, "lockShared")
  /\ UNCHANGED <<map, nextId, readers, writer, newId, result>>

LockShared(t) ==
  /\ pc[t] = "lockShared" /\ writer = NoThread
  /\ readers' = readers \cup {t}
  /\ Goto(t, "find")
  /\ UNCHANGED <<map, nextId, writer, args, newId, result>>

MutHoldShared(t) ==              \* the shared lock kept for the slow path
  /\ pc[t] = "find"
  /\ \/ map[Key(args[t])] # NoId /\ Answer(t, map[Key(args[t])]) /\ readers' = readers \ {t}
     \/ map[Key(args[t])] = NoId /\ Goto(t, "lockUnique") /\ UNCHANGED <<result, readers>>
  /\ UNCHANGED <<map, nextId, writer, args, newId>>

(* The fast path; the shared lock goes out of scope either way.            *)
FastFind(t) ==
  /\ pc[t] = "find"
  /\ \/ map[Key(args[t])] # NoId /\ Answer(t, map[Key(args[t])])
     \/ map[Key(args[t])] = NoId /\ Goto(t, "lockUnique") /\ UNCHANGED result
  /\ readers' = readers \ {t}
  /\ UNCHANGED <<map, nextId, writer, args, newId>>

MutLockBeside(t) ==              \* the unique lock does not wait for readers
  /\ pc[t] = "lockUnique" /\ writer = NoThread
  /\ writer' = t
  /\ Goto(t, "check")
  /\ UNCHANGED <<map, nextId, readers, args, newId, result>>

LockUnique(t) ==
  /\ pc[t] = "lockUnique" /\ writer = NoThread /\ readers = {}
  /\ writer' = t
  /\ Goto(t, "check")
  /\ UNCHANGED <<map, nextId, readers, args, newId, result>>

MutNoDoubleCheck(t) ==           \* the second find dropped
  /\ pc[t] = "check"
  /\ IF nextId >= MaxSymbols
       THEN Answer(t, 0) /\ writer' = NoThread
       ELSE Goto(t, "take") /\ UNCHANGED <<writer, result>>
  /\ UNCHANGED <<map, nextId, readers, args, newId>>

MutNoLimit(t) ==                 \* the capacity check dropped
  /\ pc[t] = "check"
  /\ IF map[Key(args[t])] # NoId
       THEN Answer(t, map[Key(args[t])]) /\ writer' = NoThread
       ELSE Goto(t, "take") /\ UNCHANGED <<writer, result>>
  /\ UNCHANGED <<map, nextId, readers, args, newId>>

(* The double-check, and the check that an id is left.                     *)
SlowFind(t) ==
  /\ pc[t] = "check"
  /\ \/ map[Key(args[t])] # NoId /\ Answer(t, map[Key(args[t])]) /\ writer' = NoThread
     \/ /\ map[Key(args[t])] = NoId /\ nextId >= MaxSymbols
        /\ Answer(t, 0) /\ writer' = NoThread
     \/ /\ map[Key(args[t])] = NoId /\ nextId < MaxSymbols
        /\ Goto(t, "take") /\ UNCHANGED <<writer, result>>
  /\ UNCHANGED <<map, nextId, readers, args, newId>>

(* m_next_id.fetch_add(1)                                                  *)
TakeId(t) ==
  /\ pc[t] = "take"
  /\ newId' = [newId EXCEPT ![t] = nextId]
  /\ nextId' = nextId + 1
  /\ Goto(t, "insert")
  /\ UNCHANGED <<map, readers, writer, args, result>>

Insert(t) ==
  /\ pc[t] = "insert"
  /\ map' = [map EXCEPT ![Key(args[t])] = newId[t]]
  /\ Answer(t, newId[t])
  /\ writer' = NoThread
  /\ UNCHANGED <<nextId, readers, args, newId>>

Return(t) ==
  /\ pc[t] = "return"
  /\ Goto(t, "idle")
  /\ UNCHANGED <<map, nextId, readers, writer, args, newId, result>>

--------------------------------------------------------------------------------
(* A thread inside get_or_create.                                          *)
Running(t) == \/ LockShared(t) \/ FastFind(t) \/ LockUnique(t) \/ SlowFind(t)
              \/ TakeId(t) \/ Insert(t) \/ Return(t)

IndexNext == \E t \in Threads : Running(t) \/ \E a \in Symbol : Call(t, a)

IndexSafety == IndexInit /\ [][IndexNext]_indexVars

(* A thread inside a call keeps being scheduled.  Nothing says that the    *)
(* mutex prefers a writer to the next reader.                              *)
IndexSpec == IndexSafety /\ \A t \in Threads : WF_indexVars(Running(t))

--------------------------------------------------------------------------------
(* The values of the variables.                                            *)
IndexTypeOK ==
  /\ map \in [Keys -> Ids \cup {NoId}] /\ nextId \in 0 .. MaxSymbols
  /\ readers \subseteq Threads /\ writer \in Threads \cup {NoThread}
  /\ pc \in [Threads -> {"idle", "lockShared", "find", "lockUnique", "check",
                         "take", "insert", "return"}]
  /\ args \in [Threads -> Symbol]
  /\ newId \in [Threads -> Ids] /\ result \in [Threads -> Ids]

(* Whoever is in a critical section holds the lock for it, and the unique  *)
(* lock excludes the shared one.                                           *)
LocksHeld ==
  /\ \A t \in Threads :
       /\ t \in readers <=> pc[t] = "find"
       /\ writer = t <=> pc[t] \in {"check", "take", "insert"}
  /\ writer # NoThread => readers = {}

(* m_map is a plain unordered_map: nobody reads it while it is written.    *)
NoMapRace == \A t, u \in Threads :
  pc[t] = "insert" /\ pc[u] \in {"find", "check", "take", "insert"} => t = u

(* A thread past the double-check is about to register a key that is still *)
(* absent, with an id that nobody has.                                     *)
StillAbsent == \A t \in Threads :
  /\ pc[t] \in {"take", "insert"} => map[Key(args[t])] = NoId
  /\ pc[t] = "take" => nextId < MaxSymbols
  /\ pc[t] = "insert" => /\ nextId = newId[t] + 1
                         /\ \A k \in Keys : map[k] # newId[t]

(* Ids are handed out from 0 without a gap, and no two keys share one:     *)
(* "a dense 0-2047 Internal Index".                                        *)
DenseIds ==
  /\ \A k \in Keys : map[k] # NoId => map[k] < nextId
  /\ \A k, l \in Keys : map[k] = map[l] /\ map[k] # NoId => k = l
  /\ \A i \in 0 .. nextId - 1 : \/ \E k \in Keys : map[k] = i
                                \/ \E t \in Threads : pc[t] = "insert" /\ newId[t] = i

IndexInv == IndexTypeOK /\ LocksHeld /\ StillAbsent /\ DenseIds

(* The index of a symbol never changes: MarketStateArena slots, the Python *)
(* views and the risk benchmark refer to it for ever.                      *)
IdsNeverChange == [][\A k \in Keys : map[k] # NoId => map'[k] = map[k]]_indexVars

(* Threads racing through the two lookups never block each other for good: *)
(* while any call is under way, some call returns.                         *)
SomeCallReturns ==
  (\E t \in Threads : pc[t] # "idle") ~> (\E t \in Threads : pc[t] = "return")

--------------------------------------------------------------------------------
(* get_or_create is atomic.                                                *)

CallOf(t) ==
  CASE pc[t] = "idle"   -> [stage |-> "idle"]
    [] pc[t] = "return" -> [stage |-> "answered", symbol |-> args[t], answer |-> result[t]]
    [] OTHER            -> [stage |-> "asked", symbol |-> args[t]]

Taking == \E t \in Threads : pc[t] = "insert"

Table == INSTANCE SymbolTable WITH
  Callers <- Threads, Symbols <- Symbol, Numbers <- Ids, NoNumber <- NoId,
  table <- [a \in Symbol |-> map[Key(a)]],
  used  <- IF Taking THEN nextId - 1 ELSE nextId,
  call  <- [t \in Threads |-> CallOf(t)]

(* Racing calls for the same new symbol all get the one id it was given,   *)
(* and symbols of different sources are never taken for each other.        *)
ImplementsTable == Table!TableSpec
================================================================================
