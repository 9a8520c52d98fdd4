----------------------------- MODULE MCPipeline -----------------------------
(* Small instances of Pipeline for TLC.                                    *)
EXTENDS Pipeline, TLC

CONSTANTS n1

MCNodes == {n1}
MCExchanges == {"okx", "gate"}
MCUsers == {1}
MCStripLower == [s \in {"spot", ""} |-> s]
MCAccounts == {[id |-> 1, user |-> 1, exchange |-> "okx", auto |-> TRUE,
                scope |-> {"spot"}, region |-> ""],
               [id |-> 2, user |-> 1, exchange |-> "gate", auto |-> TRUE,
                scope |-> {"spot"}, region |-> ""]}
MCOpportunities == {[symbol |-> "BTC", buy_exchange |-> "okx", sell_exchange |-> "gate",
                     spread_bps |-> 1, target_quote_amount |-> 1]}

Strategy(id, symbols, threshold) ==
    [id |-> id, user_id |-> 1, symbols |-> symbols, exchanges |-> {},
     open_spread_bps_threshold |-> threshold, target_quote_amount |-> 1]

(* The second one asks for more than any opportunity offers.               *)
MCStrategies == {Strategy(1, {}, 0), Strategy(2, {"BTC"}, 2)}
MCTaskIds == MCUsers \X (1..MaxOpps) \X StrategyIds
(* Both legs stay, or the buy leg moves to the exchange of the other.      *)
MCMoves == {<<FALSE, FALSE>>, <<TRUE, FALSE>>}
MCAllOutcomes == {"accepted", "rejected", "unanswered"}
MCAnswered == {"accepted", "rejected"}
MCNone == {}
=============================================================================
