-------------------------------- MODULE RiskGate --------------------------------
(***************************************************************************)
(* BuanRiskEngine (include/buan/risk/risk_gate.hpp) shared by threads that *)
(* check and send orders and by the thread that feeds it market prices.    *)
(*                                                                         *)
(* check only loads: position, price and tokens are relaxed atomics, read  *)
(* one by one and in no particular order.  on_order_sent, called after the *)
(* strike, books the order in two further operations.  Nothing reserves    *)
(* what check saw.                                                         *)
(***************************************************************************)
EXTENDS RiskChecks, FiniteSets

CONSTANTS
  Traders,      \* threads that check and send
  MaxTokens,    \* m_max_tokens
  Period,       \* m_refill_period_cycles
  FeedPrices,   \* inputs of update_market_price
  Prices, Qtys, \* inputs of check
  MaxClock      \* bound: the clock stops there

ASSUME GateAssumption ==
  /\ IsFiniteSet(Traders) /\ Traders # {}
  /\ MaxTokens \in Nat /\ Period \in Nat \ {0} /\ MaxClock \in Nat
  /\ Prices \subseteq Int /\ FeedPrices \subseteq Int /\ Qtys \subseteq Nat

(* The limits are small beside 2^64, with an order of every trader on top. *)
ASSUME LimitsFit == Word > 2 * MaxPos + Cardinality(Traders) * MaxQty

(* The band is open, and no drift between prices is large beside 2^64.     *)
ASSUME PricesFit ==
  /\ BandBps > 0
  /\ \A p \in Prices, q \in FeedPrices :
       Abs(p - q) * 10000 + Abs(q) * BandBps < Word

VARIABLES
  pos,        \* m_net_position
  lastPx,     \* m_last_market_price
  tokens,     \* m_tokens
  lastRefill, \* m_last_token_tsc
  clock,      \* BuanClock::read()
  pc,         \* where each trader is
  order,      \* the order each trader is about
  unread,     \* the loads of check still to be made
  passed,     \* no load of check found a breach so far
  feedPc,     \* where update_market_price is
  feedNow,    \* now in update_market_price
  window,     \* history: a reading of the clock, chosen at the start
  sends       \* history: orders booked from window until Period later

traderVars == <<pc, order, unread, passed>>
feedVars   == <<lastPx, lastRefill, feedPc, feedNow>>
gateVars   == <<pos, tokens, clock, window, sends, traderVars, feedVars>>

Orders == [price : Prices, qty : Qtys, side : {Buy, Sell}]
NoOrder == [price |-> 0, qty |-> 0, side |-> Buy]
Loads == {"position", "price", "rate"}

GateInit ==
  /\ pos = 0 /\ lastPx = 0
  /\ tokens = MaxTokens /\ lastRefill = 0 /\ clock = Period + 1
  /\ pc = [t \in Traders |-> "idle"]
  /\ order = [t \in Traders |-> NoOrder]
  /\ unread = [t \in Traders |-> {}] /\ passed = [t \in Traders |-> TRUE]
  /\ feedPc = "idle" /\ feedNow = 0
  /\ window \in Period + 1 .. MaxClock /\ sends = 0

--------------------------------------------------------------------------------
(* check: its loads, and the verdict over them.                            *)

(* rolling_z_score is a plain float that the engine's thread rewrites: the *)
(* load may find anything, so whether it shows a panic is left open.       *)
CheckBegin(t, o) ==
  /\ pc[t] = "idle"
  /\ \E panic \in BOOLEAN : passed' = [passed EXCEPT ![t] = SizeOk(o.qty, panic)]
  /\ order' = [order EXCEPT ![t] = o]
  /\ unread' = [unread EXCEPT ![t] = Loads]
  /\ pc' = [pc EXCEPT ![t] = "check"]
  /\ UNCHANGED <<pos, tokens, clock, window, sends, feedVars>>

Found(l, o) ==
  CASE l = "position" -> PosOk(pos, o.qty, o.side)
    [] l = "price"    -> PriceOk(o.price, lastPx)
    [] l = "rate"     -> RateOk(tokens)

CheckLoad(t) ==
  /\ pc[t] = "check"
  /\ \E l \in unread[t] :
       /\ unread' = [unread EXCEPT ![t] = @ \ {l}]
       /\ passed' = [passed EXCEPT ![t] = @ /\ Found(l, order[t])]
  /\ UNCHANGED <<pos, tokens, clock, window, sends, pc, order, feedVars>>

MutNoVerdict(t) ==               \* [[nodiscard]] verdict ignored
  /\ pc[t] = "check" /\ unread[t] = {}
  /\ pc' = [pc EXCEPT ![t] = "book"]
  /\ passed' = [passed EXCEPT ![t] = TRUE]
  /\ UNCHANGED <<pos, tokens, clock, window, sends, order, unread, feedVars>>

CheckEnd(t) ==
  /\ pc[t] = "check" /\ unread[t] = {}
  /\ \/ passed[t] /\ pc' = [pc EXCEPT ![t] = "book"] /\ UNCHANGED order
     \/ ~passed[t] /\ pc' = [pc EXCEPT ![t] = "idle"] /\ order' = [order EXCEPT ![t] = NoOrder]
  /\ passed' = [passed EXCEPT ![t] = TRUE]
  /\ UNCHANGED <<pos, tokens, clock, window, sends, unread, feedVars>>

(* on_order_sent: m_net_position.fetch_add, then m_tokens.fetch_sub.       *)
BookPosition(t) ==
  /\ pc[t] = "book"
  /\ pos' = pos + SideSign(order[t].side) * order[t].qty
  /\ pc' = [pc EXCEPT ![t] = "pay"]
  /\ UNCHANGED <<tokens, clock, window, sends, order, unread, passed, feedVars>>

BookToken(t) ==
  /\ pc[t] = "pay"
  /\ tokens' = tokens - 1
  /\ sends' = IF clock \in window .. window + Period THEN sends + 1 ELSE sends
  /\ UNCHANGED window
  /\ pc' = [pc EXCEPT ![t] = "idle"] /\ order' = [order EXCEPT ![t] = NoOrder]
  /\ UNCHANGED <<pos, clock, unread, passed, feedVars>>

--------------------------------------------------------------------------------
(* update_market_price, on the engine's thread.                            *)

FeedPrice(p) ==
  /\ feedPc = "idle"
  /\ lastPx' = p /\ feedNow' = clock
  /\ feedPc' = "test"
  /\ UNCHANGED <<pos, tokens, clock, window, sends, traderVars, lastRefill>>

FeedTooEarly ==
  /\ feedPc = "test" /\ ~(feedNow - lastRefill > Period)
  /\ feedPc' = "idle" /\ feedNow' = 0
  /\ UNCHANGED <<pos, tokens, clock, window, sends, traderVars, lastPx, lastRefill>>

MutFeedAdds ==                   \* the bucket is added to, not refilled
  /\ feedPc = "test" /\ feedNow - lastRefill > Period
  /\ tokens' = tokens + MaxTokens /\ lastRefill' = feedNow
  /\ feedPc' = "idle" /\ feedNow' = 0
  /\ UNCHANGED <<pos, clock, window, sends, traderVars, lastPx>>

MutFeedForgets ==                \* m_last_token_tsc not stored
  /\ feedPc = "test" /\ feedNow - lastRefill > Period
  /\ tokens' = MaxTokens
  /\ feedPc' = "idle" /\ feedNow' = 0
  /\ UNCHANGED <<pos, clock, window, sends, traderVars, lastPx, lastRefill>>

(* Both stores are one step: nobody else reads m_last_token_tsc.           *)
FeedRefill ==
  /\ feedPc = "test" /\ feedNow - lastRefill > Period
  /\ tokens' = MaxTokens /\ lastRefill' = feedNow
  /\ feedPc' = "idle" /\ feedNow' = 0
  /\ UNCHANGED <<pos, clock, window, sends, traderVars, lastPx>>

--------------------------------------------------------------------------------
Tick ==
  /\ clock < MaxClock
  /\ clock' = clock + 1
  /\ UNCHANGED <<pos, tokens, window, sends, traderVars, feedVars>>

Trade(t) == \/ \E o \in Orders : CheckBegin(t, o)
            \/ CheckLoad(t) \/ CheckEnd(t) \/ BookPosition(t) \/ BookToken(t)
Feed == (\E p \in FeedPrices : FeedPrice(p)) \/ FeedTooEarly \/ FeedRefill

GateNext == (\E t \in Traders : Trade(t)) \/ Feed \/ Tick

GateSpec == GateInit /\ [][GateNext]_gateVars

--------------------------------------------------------------------------------
(* The values of the variables.                                            *)
GateTypeOK ==
  /\ pos \in Int /\ lastPx \in FeedPrices \cup {0} /\ tokens \in Int
  /\ lastRefill \in 0 .. MaxClock /\ clock \in 0 .. MaxClock
  /\ pc \in [Traders -> {"idle", "check", "book", "pay"}]
  /\ order \in [Traders -> Orders \cup {NoOrder}]
  /\ unread \in [Traders -> SUBSET Loads] /\ passed \in [Traders -> BOOLEAN]
  /\ feedPc \in {"idle", "test"} /\ feedNow \in 0 .. MaxClock
  /\ window \in 0 .. MaxClock /\ sends \in Nat

(* The branch-free comparisons mean what they are for, at every position   *)
(* the races can lead to: the order is in limits, and its price within     *)
(* BandBps hundredths of a percent of the reference.  A reference below    *)
(* zero turns the band off: cast to uint64_t it is larger than any drift.  *)
ChecksSound ==
  /\ \A q \in 0 .. MaxQty, side \in {Buy, Sell} :
       PosOk(pos, q, side) <=> Abs(pos + SideSign(side) * q) <= MaxPos
  /\ \A p \in Prices :
       /\ lastPx > 0 => (PriceOk(p, lastPx) <=> Abs(p - lastPx) * 10000 <= lastPx * BandBps)
       /\ lastPx < 0 => PriceOk(p, lastPx)

GateInv == GateTypeOK /\ ChecksSound

Others == Cardinality(Traders) - 1

(* Between check and on_order_sent the position is not reserved, so the    *)
(* limit can be passed: by one order of full size for each other trader,   *)
(* and no further.                                                         *)
PositionOvershoot == Abs(pos) <= MaxPos + Others * MaxQty

(* In the same way the bucket goes below empty, by one order of each other *)
(* trader, and a refill never lifts it above its size.                     *)
TokensOvershoot == tokens \in -Others .. MaxTokens

(* A full bucket, the refill that follows and one the feed's thread had    *)
(* decided on earlier but stored late: no window of a refill period sees   *)
(* more than three buckets of orders, each with its overshoot.             *)
RateOvershoot == sends <= 3 * (MaxTokens + Others)
================================================================================
