--------------------------- MODULE AccountHandover ---------------------------
(***************************************************************************)
(* Dispatcher and executor must agree on the accounts of a user: the first *)
(* decides with one implementation that a user can trade an opportunity    *)
(* and binds two accounts, the second looks them up with another, while    *)
(* the operator enables and disables accounts.                             *)
(***************************************************************************)
EXTENDS AccountSelection

CONSTANTS
    Pool,     \* the accounts of the user, enabled or not
    Regions   \* values of settings.worker_region

ASSUME HandoverAssumption ==
    \A a, b \in Pool : /\ a.id \in Nat \ {0}
                       /\ a.id = b.id => a = b

VARIABLE
    accounts  \* what list_enabled_accounts returns

Enable == \E a \in Pool \ accounts : accounts' = accounts \cup {a}
Disable == \E a \in accounts : accounts' = accounts \ {a}

HandoverSpec == accounts = {} /\ [][Enable \/ Disable]_accounts

-----------------------------------------------------------------------------
Legs == {p \in ExchangesOf(Pool) \X ExchangesOf(Pool) : p[1] # p[2]}

Covered(p, enabled, region) ==
    _evaluate_account_exchange_coverage({p[1], p[2]}, enabled, region) = "covered"

(* The four coverage sets and the selection of the bound accounts say the  *)
(* same: a user that passes all four checks always gets a binding, and one *)
(* that is skipped would not have had one.                                 *)
CoveredMeansBound ==
    \A p \in Legs, r \in Regions :
        Covered(p, accounts, r)
            <=> _select_bound_accounts(p[1], p[2], accounts, r) # NoBinding

(* While nothing is disabled in between, the executor finds the accounts   *)
(* the dispatcher bound, in every region that is spelled the same after    *)
(* normalisation.                                                          *)
BoundAccountsResolve ==
    \A p \in Legs, r, q \in Regions :
        LET binding == _select_bound_accounts(p[1], p[2], accounts, r)
        IN  /\ binding # NoBinding
            /\ _normalize_account_region(r) = _normalize_account_region(q)
            => resolve_bound_accounts(accounts, p[1], p[2], binding, q)

(* Without a binding in the payload the executor would have chosen the     *)
(* same two accounts.                                                      *)
ChoicesAgree ==
    \A p \in Legs, r \in Regions :
        LET binding == _select_bound_accounts(p[1], p[2], accounts, r)
        IN  binding # NoBinding =>
                /\ _resolve_single_exchange(accounts, p[1], r) = binding.buy_account
                /\ _resolve_single_exchange(accounts, p[2], r) = binding.sell_account

(* One more enabled account never takes a user's coverage away, and never  *)
(* invalidates a binding that is already on a node stream.                 *)
EnablingIsMonotone ==
    [][accounts \subseteq accounts' =>
          \A p \in Legs, r \in Regions :
              LET binding == _select_bound_accounts(p[1], p[2], accounts, r)
              IN  Covered(p, accounts, r) =>
                      /\ Covered(p, accounts', r)
                      /\ resolve_bound_accounts(accounts', p[1], p[2], binding, r)]_accounts
=============================================================================
