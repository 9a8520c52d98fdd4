--------------------------- MODULE MCControlPlane ---------------------------
(* A rule of a user and one of a strategy, an open request outside and one *)
(* inside the strategy, a reduce_only and a disable_open switch.           *)
EXTENDS ControlPlane, TLC

CONSTANTS h1, h2

Rule(scope, id, type, value, on) ==
    [scope_type |-> scope, scope_id |-> id, symbol |-> "", exchange |-> "",
     limit_type |-> type, limit_value |-> value, enabled |-> on]

MCRules == {Rule("user", "u1", "max_notional", 1, TRUE),
            Rule("strategy", "s1", "max_notional", -1, TRUE)}
MCSwitchOf == (11 :> [switch_key |-> "platform.reduce_only", scope_type |-> "platform",
                      scope_id |-> "global"])
              @@ (12 :> [switch_key |-> "platform.disable_open", scope_type |-> "platform",
                         scope_id |-> "global"])
MCOpenRequests == {[user_id |-> "u1", strategy_id |-> id, symbol |-> "BTC/USDT",
                    exchange |-> "okx", requested_notional |-> 3] : id \in {"s1", "None"}}
MCHandlerSymmetry == Permutations(Handlers)
=============================================================================
