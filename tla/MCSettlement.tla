---------------------------- MODULE MCSettlement ----------------------------
(* Small instances of Settlement for TLC.                                  *)
EXTENDS Settlement, TLC

CONSTANTS n1

MCNodes == {n1}
MCExchanges == {"okx", "gate"}
MCUsers == {1}
MCStripLower == [s \in {"spot", ""} |-> s]
MCAccounts == {[id |-> 1, user |-> 1, exchange |-> "okx", auto |-> TRUE,
                scope |-> {"spot"}, region |-> ""],
               [id |-> 2, user |-> 1, exchange |-> "gate", auto |-> TRUE,
                scope |-> {"spot"}, region |-> ""]}
MCTaskIds == {<<1, 1, 1>>}
MCFeedEntries == {[task |-> t, buy_exchange |-> "okx", sell_exchange |-> "gate",
                   target_quote_amount |-> 1, buy_account |-> 1, sell_account |-> 2] :
                      t \in TaskIds}
MCOther == {[task |-> <<1, 1, 1>>, buy_exchange |-> "okx", sell_exchange |-> "gate",
             execution_status |-> "OPEN_HEDGED", repair_action |-> "NONE",
             target_exchanges |-> <<"gate">>]}
MCNoMove == {<<FALSE, FALSE>>}
MCAnswered == {"accepted", "rejected"}
MCAllOutcomes == {"accepted", "rejected", "unanswered"}
MCNone == {}
=============================================================================
