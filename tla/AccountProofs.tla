---------------------------- MODULE AccountProofs ----------------------------
(***************************************************************************)
(* Proofs about the accounts the dispatcher and the executor choose, for   *)
(* any pool of accounts, any texts in their columns and any regions.       *)
(***************************************************************************)
EXTENDS AccountHandover, WellFoundedInduction, TLAPS

HandoverInv == accounts \subseteq Pool

Eligible(exchange, region) ==
    _iter_eligible_accounts_for_exchange(accounts, exchange, region)

-----------------------------------------------------------------------------
(* Some account of the pool has the least id.                              *)
LEMMA LowestIdOfPool ==
    ASSUME NEW S \in SUBSET Pool, S # {}
    PROVE  LowestId(S) \in S /\ \A b \in S : LowestId(S).id <= b.id
<1> DEFINE Ids == {a.id : a \in S}
<1>1. Ids \subseteq Nat /\ Ids # {}
  BY HandoverAssumption DEF HandoverAssumption
<1>2. \E x \in Ids : \A y \in Ids : x <= y
  <2> HIDE DEF Ids
  <2>1. \E x \in Ids : \A y \in Ids : <<y, x>> \notin OpToRel(<, Nat)
    BY <1>1, NatLessThanWellFounded, WFMin, Zenon
  <2>2. \A x, y \in Ids : y < x => <<y, x>> \in OpToRel(<, Nat)
    BY <1>1 DEF OpToRel
  <2>3. \E x \in Ids : \A y \in Ids : ~(y < x)
    BY <2>1, <2>2, Zenon
  <2> QED
    BY <1>1, <2>3
<1>3. PICK x \in Ids : \A y \in Ids : x <= y
  BY <1>2
<1>4. PICK a \in S : a.id = x
  OBVIOUS
<1>5. \A b \in S : a.id <= b.id
  BY <1>3, <1>4
<1> QED
  BY <1>5 DEF LowestId

(* The four coverage sets shrink, so the last one decides.                 *)
LEMMA CoverageIsEligibility ==
    ASSUME NEW p, NEW S, NEW r
    PROVE  Covered(p, S, r) <=>
              /\ _iter_eligible_accounts_for_exchange(S, p[1], r) # {}
              /\ _iter_eligible_accounts_for_exchange(S, p[2], r) # {}
<1>1. /\ ExchangesOf(region_covered(S, r)) \subseteq ExchangesOf(market_type_covered(S))
      /\ ExchangesOf(market_type_covered(S)) \subseteq ExchangesOf(auto_trade_enabled(S))
      /\ ExchangesOf(auto_trade_enabled(S)) \subseteq ExchangesOf(S)
  BY DEF ExchangesOf, region_covered, market_type_covered, auto_trade_enabled
<1>2. Covered(p, S, r) <=> {p[1], p[2]} \subseteq ExchangesOf(region_covered(S, r))
  BY <1>1 DEF Covered, _evaluate_account_exchange_coverage
<1>3. \A e : e \in ExchangesOf(region_covered(S, r)) <=>
                 _iter_eligible_accounts_for_exchange(S, e, r) # {}
  BY DEF ExchangesOf, region_covered, market_type_covered, auto_trade_enabled,
         _iter_eligible_accounts_for_exchange
<1> QED
  BY <1>2, <1>3

(* What is bound are the eligible accounts with the lowest ids, if any.    *)
LEMMA BindingIsLowest ==
    ASSUME HandoverInv, NEW p, NEW r
    PROVE  LET buyers  == Eligible(p[1], r)
               sellers == Eligible(p[2], r)
               binding == _select_bound_accounts(p[1], p[2], accounts, r)
           IN  /\ binding # NoBinding <=> buyers # {} /\ sellers # {}
               /\ binding # NoBinding =>
                     /\ LowestId(buyers) \in buyers /\ binding.buy_account = LowestId(buyers).id
                     /\ LowestId(sellers) \in sellers /\ binding.sell_account = LowestId(sellers).id
<1> DEFINE buyers  == Eligible(p[1], r)
           sellers == Eligible(p[2], r)
           binding == _select_bound_accounts(p[1], p[2], accounts, r)
<1>1. buyers \in SUBSET Pool /\ sellers \in SUBSET Pool
  BY DEF HandoverInv, Eligible, _iter_eligible_accounts_for_exchange
<1>2. CASE buyers = {} \/ sellers = {}
  BY <1>2 DEF _select_bound_accounts, Eligible
<1>3. CASE buyers # {} /\ sellers # {}
  <2>1. LowestId(buyers) \in buyers /\ LowestId(sellers) \in sellers
    BY <1>1, <1>3, LowestIdOfPool
  <2>2. binding = [buy_account |-> LowestId(buyers).id, sell_account |-> LowestId(sellers).id]
    BY <1>3 DEF _select_bound_accounts, Eligible
  <2>3. LowestId(buyers).id # 0
    BY <1>1, <2>1, HandoverAssumption DEF HandoverAssumption
  <2>4. binding # NoBinding
    BY <2>2, <2>3 DEF NoBinding
  <2> QED
    BY <1>3, <2>1, <2>2, <2>4
<1> QED
  BY <1>2, <1>3

(* An eligible account is one that the executor accepts, in every region   *)
(* that is normalised alike.                                               *)
LEMMA EligibleIsLoadable ==
    ASSUME NEW S, NEW e, NEW r, NEW q,
           _normalize_account_region(r) = _normalize_account_region(q),
           NEW a \in _iter_eligible_accounts_for_exchange(S, e, r)
    PROVE  _load_bound_account(S, e, a.id, q) # {}
BY DEF _iter_eligible_accounts_for_exchange, _load_bound_account, RegionMatches

-----------------------------------------------------------------------------
LEMMA HandoverInvariant == HandoverSpec => []HandoverInv
<1>1. accounts = {} => HandoverInv
  BY DEF HandoverInv
<1>2. HandoverInv /\ [Enable \/ Disable]_accounts => HandoverInv'
  BY DEF HandoverInv, Enable, Disable
<1> QED
  BY <1>1, <1>2, PTL DEF HandoverSpec

(* A user passes the four coverage checks of the dispatcher exactly when   *)
(* two accounts can be bound.                                              *)
THEOREM CoverageMeansBinding == HandoverSpec => []CoveredMeansBound
<1>1. HandoverInv => CoveredMeansBound
  BY CoverageIsEligibility, BindingIsLowest DEF CoveredMeansBound, Eligible
<1> QED
  BY <1>1, HandoverInvariant, PTL

(* What the dispatcher binds the executor can load, as long as nothing is  *)
(* disabled and the regions are spelled alike.                             *)
THEOREM BindingsResolve == HandoverSpec => []BoundAccountsResolve
<1>1. HandoverInv => BoundAccountsResolve
  <2> SUFFICES ASSUME HandoverInv, NEW p \in Legs, NEW r \in Regions, NEW q \in Regions,
                      _select_bound_accounts(p[1], p[2], accounts, r) # NoBinding,
                      _normalize_account_region(r) = _normalize_account_region(q)
               PROVE  resolve_bound_accounts(accounts, p[1], p[2],
                          _select_bound_accounts(p[1], p[2], accounts, r), q)
    BY DEF BoundAccountsResolve
  <2> DEFINE binding == _select_bound_accounts(p[1], p[2], accounts, r)
  <2>1. /\ LowestId(Eligible(p[1], r)) \in Eligible(p[1], r)
        /\ binding.buy_account = LowestId(Eligible(p[1], r)).id
        /\ LowestId(Eligible(p[2], r)) \in Eligible(p[2], r)
        /\ binding.sell_account = LowestId(Eligible(p[2], r)).id
    BY BindingIsLowest
  <2> QED
    BY <2>1, EligibleIsLoadable DEF resolve_bound_accounts, Eligible
<1> QED
  BY <1>1, HandoverInvariant, PTL

(* The executor's own choice is the dispatcher's.                          *)
THEOREM ExecutorChoosesAlike == HandoverSpec => []ChoicesAgree
<1>1. HandoverInv => ChoicesAgree
  <2> SUFFICES ASSUME HandoverInv, NEW p \in Legs, NEW r \in Regions,
                      _select_bound_accounts(p[1], p[2], accounts, r) # NoBinding
               PROVE  LET binding == _select_bound_accounts(p[1], p[2], accounts, r)
                      IN  /\ _resolve_single_exchange(accounts, p[1], r) = binding.buy_account
                          /\ _resolve_single_exchange(accounts, p[2], r) = binding.sell_account
    BY DEF ChoicesAgree
  <2>1. \A e : _resolve_single_exchange(accounts, e, r) =
                   IF Eligible(e, r) = {} THEN 0 ELSE LowestId(Eligible(e, r)).id
    BY DEF _resolve_single_exchange, Eligible, _iter_eligible_accounts_for_exchange
  <2> QED
    BY <2>1, BindingIsLowest
<1> QED
  BY <1>1, HandoverInvariant, PTL

(* Enabling accounts takes no coverage away and no binding back.           *)
THEOREM EnablingKeepsBindings == HandoverSpec => EnablingIsMonotone
<1>1. ASSUME HandoverInv, accounts \subseteq accounts', NEW p \in Legs, NEW r \in Regions,
             Covered(p, accounts, r)
      PROVE  /\ Covered(p, accounts', r)
             /\ resolve_bound_accounts(accounts', p[1], p[2],
                    _select_bound_accounts(p[1], p[2], accounts, r), r)
  <2> DEFINE binding == _select_bound_accounts(p[1], p[2], accounts, r)
  <2>1. \A e : Eligible(e, r) \subseteq _iter_eligible_accounts_for_exchange(accounts', e, r)
    BY <1>1 DEF Eligible, _iter_eligible_accounts_for_exchange
  <2>2. Eligible(p[1], r) # {} /\ Eligible(p[2], r) # {}
    BY <1>1, CoverageIsEligibility DEF Eligible
  <2>3. Covered(p, accounts', r)
    BY <2>1, <2>2, CoverageIsEligibility
  <2>4. /\ LowestId(Eligible(p[1], r)) \in Eligible(p[1], r)
        /\ binding.buy_account = LowestId(Eligible(p[1], r)).id
        /\ LowestId(Eligible(p[2], r)) \in Eligible(p[2], r)
        /\ binding.sell_account = LowestId(Eligible(p[2], r)).id
    BY <1>1, <2>2, BindingIsLowest
  <2>5. resolve_bound_accounts(accounts', p[1], p[2], binding, r)
    BY <2>1, <2>4, EligibleIsLoadable DEF resolve_bound_accounts
  <2> QED
    BY <2>3, <2>5
<1>2. HandoverInv /\ [Enable \/ Disable]_accounts =>
         [accounts \subseteq accounts' =>
             \A p \in Legs, r \in Regions :
                 LET binding == _select_bound_accounts(p[1], p[2], accounts, r)
                 IN  Covered(p, accounts, r) =>
                         /\ Covered(p, accounts', r)
                         /\ resolve_bound_accounts(accounts', p[1], p[2], binding, r)]_accounts
  BY <1>1
<1> QED
  BY <1>2, HandoverInvariant, PTL DEF HandoverSpec, EnablingIsMonotone
=============================================================================
