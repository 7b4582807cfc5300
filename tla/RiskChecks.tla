------------------------------ MODULE RiskChecks ------------------------------
(***************************************************************************)
(* The comparisons of BuanRiskEngine::check (include/buan/risk/            *)
(* risk_gate.hpp), branch-free and in 64-bit arithmetic: a signed quantity *)
(* cast to uint64_t is reduced modulo Word.                                *)
(***************************************************************************)
EXTENDS Integers

CONSTANTS
  Word,     \* 2^64
  MaxPos,   \* m_max_pos
  MaxQty,   \* m_max_order_size
  BandBps   \* m_max_price_drift_bps

ASSUME ChecksAssumption ==
  /\ MaxPos \in Nat /\ MaxQty \in Nat /\ BandBps \in Nat
  /\ Word \in Nat /\ Word > 4 * (MaxPos + MaxQty + 1)

Buy == 1
Sell == 2

Abs(x) == IF x < 0 THEN -x ELSE x

(* static_cast<uint64_t> of an int64_t.                                    *)
Unsigned(x) == IF x < 0 THEN x + Word ELSE x

(* side_sign: 1 for a buy, -1 for a sell.                                  *)
SideSign(side) == 3 - 2 * side

(* dynamic_max_qty: halved while the benchmark's z-score is below -3.      *)
QtyLimit(panic) == IF panic THEN MaxQty \div 2 ELSE MaxQty

SizeOk(qty, panic) == qty <= QtyLimit(panic)

MutPosOk(pos, qty, side) ==      \* the order itself left out
  Unsigned(pos + MaxPos) <= Unsigned(2 * MaxPos)

PosOk(pos, qty, side) ==
  Unsigned(pos + SideSign(side) * qty + MaxPos) <= Unsigned(2 * MaxPos)

(* abs(price - last_px) * 10000 is a product of uint64_t: it wraps.        *)
PriceOk(price, lastPx) ==
  \/ lastPx = 0
  \/ (Abs(price - lastPx) * 10000) % Word <= Unsigned(lastPx * BandBps)

RateOk(tokens) == tokens > 0
================================================================================
