------------------------------ MODULE MCRouting ------------------------------
(* One user, who has a default route and perhaps an older one.             *)
EXTENDS Routing, TLC

CONSTANTS n1, n2, h1, h2

MCNodes == {n1, n2}
MCExchanges == {"okx", "gate"}
MCUsers == {1}
MCStripLower == [s \in {""} |-> s]
MCOpportunities == {[symbol |-> "BTC", buy_exchange |-> "okx", sell_exchange |-> "gate",
                     spread_bps |-> 2, target_quote_amount |-> 1]}
MCDefaultRoutes == 1 :> n1
MCTaskIds == MCUsers \X (1..MaxOpps) \X {0}
MCHandlers == {h1, h2}
MCNone == {}
=============================================================================
