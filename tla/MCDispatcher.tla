---------------------------- MODULE MCDispatcher ----------------------------
(* Small instances of Dispatcher for TLC.                                  *)
EXTENDS DispatchRefinement, TLC

CONSTANTS n1, n2

MCNodes == {n1, n2}
MCExchanges == {"okx", "gate"}
MCUsers == {1, 2}

MCStripLower == ("spot" :> "spot") @@ (" Swap" :> "swap") @@ ("margin" :> "margin")
                @@ ("" :> "") @@ ("AP" :> "ap") @@ ("ap" :> "ap") @@ ("eu" :> "eu")

Account(id, user, exchange, auto, scope, region) ==
    [id |-> id, user |-> user, exchange |-> exchange, auto |-> auto,
     scope |-> scope, region |-> region]

(* User 1 has two accounts on okx, user 2's gate account is in a region    *)
(* only some dispatchers serve.                                            *)
MCAccounts == {Account(1, 1, "okx", TRUE, {"spot"}, ""),
               Account(2, 1, "gate", TRUE, {"spot", " Swap"}, "AP"),
               Account(3, 1, "okx", TRUE, {" Swap"}, "ap"),
               Account(4, 2, "okx", TRUE, {"spot"}, ""),
               Account(5, 2, "gate", TRUE, {"margin", "spot"}, "ap")}

Opportunity(symbol, buy, sell, spread, target) ==
    [symbol |-> symbol, buy_exchange |-> buy, sell_exchange |-> sell,
     spread_bps |-> spread, target_quote_amount |-> target]

(* The scanner also publishes a book that is the best on both sides, with  *)
(* buy and sell on one exchange and a negative spread.                     *)
MCOpportunities == {Opportunity("BTC", "okx", "gate", 2, 1),
                    Opportunity("ETH", "gate", "okx", 1, 2),
                    Opportunity("BTC", "okx", "okx", -1, 1)}

Strategy(id, user, symbols, exchanges, threshold, target) ==
    [id |-> id, user_id |-> user, symbols |-> symbols, exchanges |-> exchanges,
     open_spread_bps_threshold |-> threshold, target_quote_amount |-> target]

MCStrategies == {Strategy(1, 1, {}, {}, 0, 2),
                 Strategy(2, 1, {"BTC"}, MCExchanges, 2, 1),
                 Strategy(3, 2, {}, {}, 0, 1)}

MCTaskIds == MCUsers \X (1..MaxOpps) \X StrategyIds
MCAdminRoutes == {n2, NoNode}
MCAdminAccounts == {a \in MCAccounts : a.id = 3}
MCTwoStrategies == {s \in MCStrategies : s.id # 2}
MCOneStrategy == {s \in MCStrategies : s.id = 1}
MCNone == {}
=============================================================================
