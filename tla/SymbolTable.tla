------------------------------ MODULE SymbolTable ------------------------------
(***************************************************************************)
(* What SymbolIndex::get_or_create promises its callers: the index behaves *)
(* as if every call took effect at one instant between its call and its    *)
(* return.  A symbol known at that instant is answered with its number, a  *)
(* new one with the next free number, and with number 0 when no number is  *)
(* left.                                                                   *)
(***************************************************************************)
EXTENDS Naturals

CONSTANTS
  Callers,    \* threads
  Symbols,    \* what can be asked for
  Numbers,    \* the numbers there are
  NoNumber    \* a symbol that has none

VARIABLES
  table,      \* the number of each symbol
  used,       \* how many numbers are taken
  call        \* each caller's call: [stage, symbol, answer]

tableVars == <<table, used, call>>

NoCall == [stage |-> "idle"]
Asked(s) == [stage |-> "asked", symbol |-> s]
Answered(s, n) == [stage |-> "answered", symbol |-> s, answer |-> n]

TableInit ==
  /\ table = [s \in Symbols |-> NoNumber]
  /\ used = 0
  /\ call = [c \in Callers |-> NoCall]

Ask(c, s) ==
  /\ call[c] = NoCall
  /\ call' = [call EXCEPT ![c] = Asked(s)]
  /\ UNCHANGED <<table, used>>

AnswerKnown(c, s) ==
  /\ call[c] = Asked(s) /\ table[s] # NoNumber
  /\ call' = [call EXCEPT ![c] = Answered(s, table[s])]
  /\ UNCHANGED <<table, used>>

AnswerNew(c, s) ==
  /\ call[c] = Asked(s) /\ table[s] = NoNumber /\ used \in Numbers
  /\ table' = [table EXCEPT ![s] = used]
  /\ used' = used + 1
  /\ call' = [call EXCEPT ![c] = Answered(s, used)]

AnswerFull(c, s) ==
  /\ call[c] = Asked(s) /\ table[s] = NoNumber /\ used \notin Numbers
  /\ call' = [call EXCEPT ![c] = Answered(s, 0)]
  /\ UNCHANGED <<table, used>>

Leave(c) ==
  /\ call[c].stage = "answered"
  /\ call' = [call EXCEPT ![c] = NoCall]
  /\ UNCHANGED <<table, used>>

TableNext ==
  \E c \in Callers :
    \/ Leave(c)
    \/ \E s \in Symbols : Ask(c, s) \/ AnswerKnown(c, s) \/ AnswerNew(c, s) \/ AnswerFull(c, s)

TableSpec == TableInit /\ [][TableNext]_tableVars
================================================================================
