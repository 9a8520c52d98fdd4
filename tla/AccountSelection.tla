-------------------------- MODULE AccountSelection --------------------------
(***************************************************************************)
(* Which exchange accounts may trade an opportunity.  The dispatcher       *)
(* decides it when it fans an opportunity out to users                     *)
(* (_evaluate_account_exchange_coverage, then _select_bound_accounts), and *)
(* the executor decides it again, in a second implementation, when it      *)
(* loads the credentials of the bound accounts                             *)
(* (ExecutorAccountTruthResolver).  Pure operators over sets of accounts.  *)
(*                                                                         *)
(* An account is a record [id, user, exchange, auto, scope, region]: scope *)
(* is the set of the comma separated parts of market_type_scope, and scope *)
(* and region hold the text as stored, before strip() and lower().         *)
(***************************************************************************)
EXTENDS Naturals, FiniteSets

CONSTANT
    StripLower   \* the function str.strip().lower() on the texts that occur

MarketTypes == {"spot", "swap"}

_parse_market_type_scope(raw) ==
    {StripLower[part] : part \in raw} \cap MarketTypes

_normalize_account_region(raw) ==
    IF StripLower[raw] = "" THEN "default" ELSE StripLower[raw]

RegionMatches(a, region) ==
    _normalize_account_region(a.region)
        \in {"default", _normalize_account_region(region)}

ExchangesOf(accounts) == {a.exchange : a \in accounts}

-----------------------------------------------------------------------------
(* Dispatcher side: four coverage sets, checked in this order.             *)
(* Mutant: a dictionary by exchange, in which the last account wins.       *)
auto_trade_enabled_LastWins(accounts) ==
    {a \in accounts : a.auto /\ \A b \in accounts : b.exchange = a.exchange => b.id <= a.id}

auto_trade_enabled(accounts) == {a \in accounts : a.auto}

market_type_covered(accounts) ==
    {a \in auto_trade_enabled(accounts) : _parse_market_type_scope(a.scope) # {}}

region_covered(accounts, region) ==
    {a \in market_type_covered(accounts) : RegionMatches(a, region)}

_evaluate_account_exchange_coverage(legs, accounts, region) ==
    CASE ~(legs \subseteq ExchangesOf(accounts)) -> "account_exchange_coverage_missing"
      [] /\ legs \subseteq ExchangesOf(accounts)
         /\ ~(legs \subseteq ExchangesOf(auto_trade_enabled(accounts)))
           -> "account_auto_trade_disabled"
      [] /\ legs \subseteq ExchangesOf(auto_trade_enabled(accounts))
         /\ ~(legs \subseteq ExchangesOf(market_type_covered(accounts)))
           -> "account_market_type_scope_missing"
      [] /\ legs \subseteq ExchangesOf(market_type_covered(accounts))
         /\ ~(legs \subseteq ExchangesOf(region_covered(accounts, region)))
           -> "account_region_mismatch"
      [] OTHER -> "covered"

(* Mutant: auto trading is not asked for.                                  *)
_iter_eligible_accounts_for_exchange_AnyAuto(accounts, exchange, region) ==
    {a \in accounts : /\ a.exchange = exchange
                      /\ _parse_market_type_scope(a.scope) # {}
                      /\ RegionMatches(a, region)}

_iter_eligible_accounts_for_exchange(accounts, exchange, region) ==
    {a \in accounts : /\ a.exchange = exchange
                      /\ a.auto
                      /\ _parse_market_type_scope(a.scope) # {}
                      /\ RegionMatches(a, region)}

LowestId(accounts) == CHOOSE a \in accounts : \A b \in accounts : a.id <= b.id

NoBinding == [buy_account |-> 0, sell_account |-> 0]

_select_bound_accounts(buy, sell, accounts, region) ==
    LET buyers  == _iter_eligible_accounts_for_exchange(accounts, buy, region)
        sellers == _iter_eligible_accounts_for_exchange(accounts, sell, region)
    IN  IF buyers = {} \/ sellers = {}
        THEN NoBinding
        ELSE [buy_account  |-> LowestId(buyers).id,
              sell_account |-> LowestId(sellers).id]

-----------------------------------------------------------------------------
(* Mutant: an account of region "default" is no longer good everywhere.    *)
_load_bound_account_SameRegion(accounts, exchange, id, region) ==
    {a \in accounts : /\ a.id = id
                      /\ a.exchange = exchange
                      /\ a.auto
                      /\ _parse_market_type_scope(a.scope) # {}
                      /\ _normalize_account_region(a.region)
                             = _normalize_account_region(region)}

(* Executor side: the bound account must still be there and still qualify; *)
(* the first account with the id decides, whatever it says.                *)
_load_bound_account(accounts, exchange, id, region) ==
    {a \in accounts : /\ a.id = id
                      /\ a.exchange = exchange
                      /\ a.auto
                      /\ _parse_market_type_scope(a.scope) # {}
                      /\ RegionMatches(a, region)}

(* resolve_bound_accounts returns, rather than raises, exactly when both   *)
(* legs find their account.                                                *)
resolve_bound_accounts(accounts, buy, sell, binding, region) ==
    /\ _load_bound_account(accounts, buy, binding.buy_account, region) # {}
    /\ _load_bound_account(accounts, sell, binding.sell_account, region) # {}

(* Mutant: the region is not looked at.                                    *)
_resolve_single_exchange_AnyRegion(accounts, exchange, region) ==
    LET eligible == {a \in accounts : /\ a.exchange = exchange
                                      /\ a.auto
                                      /\ _parse_market_type_scope(a.scope) # {}}
    IN  IF eligible = {} THEN 0 ELSE LowestId(eligible).id

(* Without a binding in the payload the executor chooses for itself.       *)
_resolve_single_exchange(accounts, exchange, region) ==
    LET eligible == {a \in accounts : /\ a.exchange = exchange
                                      /\ a.auto
                                      /\ _parse_market_type_scope(a.scope) # {}
                                      /\ RegionMatches(a, region)}
    IN  IF eligible = {} THEN 0 ELSE LowestId(eligible).id

-----------------------------------------------------------------------------
(* Strategy match: an empty scope list means "any".                        *)
_matches_strategy(o, s) ==
    /\ s.symbols = {} \/ o.symbol \in s.symbols
    /\ s.exchanges = {} \/ {o.buy_exchange, o.sell_exchange} \subseteq s.exchanges
    /\ o.spread_bps >= s.open_spread_bps_threshold
=============================================================================
