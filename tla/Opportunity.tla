---------------------------- MODULE Opportunity ----------------------------
(***************************************************************************)
(* OpportunityCalculator (app/market/opportunity.py): what a fixed amount  *)
(* of quote currency buys or sells along the levels of an order book.      *)
(*                                                                         *)
(* Prices, sizes and quote amounts are integers.  Base amounts are counted *)
(* in units of 1/PriceUnit, so that quote / price is one too: the model is *)
(* exact where the code has floats and a tolerance of 1e-9.                *)
(* The stream of what was found is here for those who write and read it.   *)
(***************************************************************************)
EXTENDS Integers, Sequences, FiniteSetsExt

CONSTANTS
    PriceUnit,      \* a common multiple of all prices
    Target,         \* target_quote_amount
    AlertThreshold  \* success_spread_bps_threshold

ASSUME OpportunityAssumption ==
    /\ PriceUnit \in Nat \ {0}
    /\ Target \in Nat \ {0}
    /\ AlertThreshold \in Int

VARIABLE
    opps  \* stream:spot_opps

Level == [price : {p \in 1..PriceUnit : PriceUnit % p = 0}, size : Nat]
NoPrice == [base |-> 0, used |-> 0]
NoOpportunity == [symbol |-> "none"]

Quote(level) == level.price * level.size

(* Mutant: the last level is taken as a whole.                             *)
take_quote_Whole(level, remaining) == IF remaining > 0 THEN Quote(level) ELSE 0
take_quote(level, remaining) ==
    IF Quote(level) < remaining THEN Quote(level) ELSE remaining

(* One turn of the loop: a level of which nothing can be taken is passed.  *)
Filled(acc, level) ==
    LET take == take_quote(level, acc.remaining)
    IN  IF take <= 0 THEN acc
        ELSE [remaining |-> acc.remaining - take,
              base |-> acc.base + take * (PriceUnit \div level.price),
              used |-> acc.used + 1]

(* The loop's locals after so many levels.                                 *)
LoopOver(levels) ==
    LET after[i \in 0..Len(levels)] ==
            IF i = 0 THEN [remaining |-> Target, base |-> 0, used |-> 0]
            ELSE Filled(after[i - 1], levels[i])
    IN  after

(* _weighted_buy_price over asks, _weighted_sell_price over bids: the same *)
(* loop.  The price is Target per base; a book that is used up has none.   *)
WeightedPrice(levels) ==
    LET end == LoopOver(levels)[Len(levels)]
    IN  IF end.remaining <= 0 THEN [base |-> end.base, used |-> end.used] ELSE NoPrice

(* build_depth_spot_opportunity, without the fields that only name it.     *)
build_depth_spot_opportunity(symbol, buy, sell, weightedBuy, weightedSell) ==
    IF weightedBuy = NoPrice \/ weightedSell = NoPrice THEN NoOpportunity
    ELSE [symbol |-> symbol, buy_exchange |-> buy, sell_exchange |-> sell,
          bought |-> weightedBuy.base, sold |-> weightedSell.base]

(* spread_bps > threshold, with spread = bought / sold - 1.                *)
Alerting(o) == (o.bought - o.sold) * 10000 > AlertThreshold * o.sold

-----------------------------------------------------------------------------
(* The reference: every way of spending the target on the levels there are. *)
SumsOf(f, n) == LET sum[i \in 0..n] == IF i = 0 THEN 0 ELSE sum[i - 1] + f[i] IN sum
SumOf(f, n) == SumsOf(f, n)[n]

Fills(levels) ==
    {f \in [1..Len(levels) -> 0..Target] :
        /\ \A i \in 1..Len(levels) : f[i] <= Quote(levels[i])
        /\ SumOf(f, Len(levels)) = Target}

BaseOf(f, levels) ==
    SumOf([i \in 1..Len(levels) |-> f[i] * (PriceUnit \div levels[i].price)], Len(levels))

Bases(levels) == {BaseOf(f, levels) : f \in Fills(levels)}
Best(levels) == Max(Bases(levels))
Least(levels) == Min(Bases(levels))
=============================================================================
