---------------------------- MODULE MCExecution ----------------------------
(* Small instances of Execution for TLC.                                   *)
EXTENDS Execution, TLC

CONSTANTS n1

MCNodes == {n1}
MCExchanges == {"okx", "gate"}
MCUsers == {1}
MCStripLower == [s \in {"spot", ""} |-> s]
MCAccounts == {[id |-> 1, user |-> 1, exchange |-> "okx", auto |-> TRUE,
                scope |-> {"spot"}, region |-> ""],
               [id |-> 2, user |-> 1, exchange |-> "gate", auto |-> TRUE,
                scope |-> {"spot"}, region |-> ""]}
MCAdminAccounts == {a \in MCAccounts : a.id = 2}
MCTaskIds == {<<1, 1, 1>>, <<1, 2, 1>>}
MCFeedEntries == {[task |-> t, buy_exchange |-> "okx", sell_exchange |-> "gate",
                   target_quote_amount |-> 2, buy_account |-> 1, sell_account |-> 2] :
                      t \in TaskIds}
MCNoMove == {<<FALSE, FALSE>>}
MCAnswered == {"accepted", "rejected"}
MCNone == {}
=============================================================================
