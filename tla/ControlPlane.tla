---------------------------- MODULE ControlPlane ----------------------------
(***************************************************************************)
(* What the dispatcher and the executors make of the control store:        *)
(* ControlPlaneLoader.load and ControlGuard.evaluate (live_workers.py),    *)
(* build_control_plane and ControlPlane.evaluate_open_request              *)
(* (app/admin/control_plane.py).                                           *)
(*                                                                         *)
(* A load is two SMEMBERS and one GET per listed id, rules first, while    *)
(* operators go on changing the store; the decision is made from what was  *)
(* read, which need never have been in the store at one time.              *)
(***************************************************************************)
EXTENDS ControlStore, FiniteSetsExt

CONSTANTS
    Guards,        \* workers with a ControlGuard
    OpenRequests   \* [user_id, strategy_id, symbol, exchange, requested_notional]

ASSUME OpenRequestAssumption ==
    \A q \in OpenRequests : q.requested_notional \in Nat

VARIABLES
    gpc,       \* where a guard is: reading rules, reading switches, or decided
    asked,     \* the request it evaluates
    unread,    \* ids of the last SMEMBERS still to GET
    plan,      \* <<id, record>> read so far
    approved,  \* approved_notional of its last decision
    during     \* history of the load: what stood all along, what was there at
               \* any moment, what was lifted

guardVars == <<gpc, asked, unread, plan, approved>>
controlVars == <<storeVars, guardVars, during>>

-----------------------------------------------------------------------------
(* build_control_plane keeps what is enabled, and of the rules those of    *)
(* limit_type "max_notional".                                              *)
limit_rules(p) == {e[2] : e \in {f \in p : /\ f[1] \in RuleIds
                                           /\ f[2].enabled
                                           /\ f[2].limit_type = "max_notional"}}
switches_Disabled(p) == {SwitchOf[e[1]] : e \in {f \in p : f[1] \in SwitchIds}}  \* mutant
switches(p) == {SwitchOf[e[1]] : e \in {f \in p : f[1] \in SwitchIds /\ f[2].enabled}}

(* A scope both kinds of records know.                                     *)
InScope(r, q) ==
    \/ r.scope_type = "platform"
    \/ r.scope_type = "user" /\ r.scope_id = q.user_id
    \/ r.scope_type = "symbol" /\ r.scope_id = q.symbol
    \/ r.scope_type = "exchange" /\ r.scope_id = q.exchange

_is_reduce_only_active(p, q) ==
    \E s \in switches(p) : s.switch_key = "platform.reduce_only" /\ InScope(s, q)

(* Rules know strategies too, and may name symbol and exchange apart from  *)
(* scope_id.                                                               *)
_matching_limit_values(p, q) ==
    {r.limit_value : r \in {s \in limit_rules(p) :
        \/ InScope(s, q)
        \/ s.scope_type = "strategy" /\ s.scope_id = q.strategy_id
        \/ s.scope_type = "symbol" /\ s.symbol = q.symbol
        \/ s.scope_type = "exchange" /\ s.exchange = q.exchange}}

(* approved_notional: nothing under reduce_only, otherwise the lowest of   *)
(* the request and the limits.  Limits may be negative; every caller goes  *)
(* by allowed, which holds if something positive is approved.              *)
evaluate_open_request(p, q) ==
    IF _is_reduce_only_active(p, q) THEN 0
    ELSE Min({q.requested_notional} \cup _matching_limit_values(p, q))

Opened(notional) == IF notional > 0 THEN notional ELSE 0
AllowedBy(p, q) == Opened(evaluate_open_request(p, q))

-----------------------------------------------------------------------------
NothingSeen == [standing |-> {}, seen |-> {}, worst |-> 0, lifted |-> FALSE]

ControlTypeOK ==
    /\ StoreTypeOK
    /\ gpc \in [Guards -> {"idle", "limits", "switches", "decided"}]
    /\ asked \in [Guards -> OpenRequests]
    /\ unread \in [Guards -> SUBSET Keys]
    /\ plan \in [Guards -> SUBSET Entries]
    /\ approved \in [Guards -> Int]
    /\ during \in [Guards -> [standing : SUBSET Entries, seen : SUBSET Entries,
                             worst : Nat, lifted : BOOLEAN]]

ControlInit ==
    /\ StoreInit
    /\ gpc = [g \in Guards |-> "idle"]
    /\ asked \in [Guards -> OpenRequests]
    /\ unread = [g \in Guards |-> {}]
    /\ plan = [g \in Guards |-> {}]
    /\ approved = [g \in Guards |-> 0]
    /\ during = [g \in Guards |-> NothingSeen]

Loading(g) == gpc[g] \in {"limits", "switches"}

(* Some switch went out of force, or some rule came into force.            *)
Lifts == \/ \E e \in InForce \ InForce' : e[1] \in SwitchIds
         \/ \E e \in InForce' \ InForce : e[1] \in RuleIds

(* The store changes under the loads in progress.                          *)
StoreChanges ==
    /\ StoreStep
    /\ during' = [g \in Guards |->
                    IF ~Loading(g) THEN during[g]
                    ELSE [standing |-> during[g].standing \cap InForce',
                          seen |-> during[g].seen \cup Enabled',
                          worst |-> Max({during[g].worst, AllowedBy(InForce', asked[g])}),
                          lifted |-> during[g].lifted \/ Lifts]]
    /\ UNCHANGED guardVars

IdsOf_Swapped(phase) == IF phase = "limits" THEN SwitchIds ELSE RuleIds  \* mutant
(* The two lists of load, in the order it awaits them.                     *)
IdsOf(phase) == IF phase = "limits" THEN RuleIds ELSE SwitchIds

(* list_limit_rules: SMEMBERS.                                             *)
ListLimits(g) ==
    /\ ~Loading(g)
    /\ \E q \in OpenRequests :
          /\ asked' = [asked EXCEPT ![g] = q]
          /\ during' = [during EXCEPT ![g] =
                [standing |-> InForce, seen |-> Enabled,
                 worst |-> AllowedBy(InForce, q), lifted |-> FALSE]]
    /\ gpc' = [gpc EXCEPT ![g] = "limits"]
    /\ unread' = [unread EXCEPT ![g] = index \cap IdsOf("limits")]
    /\ plan' = [plan EXCEPT ![g] = {}]
    /\ approved' = [approved EXCEPT ![g] = 0]
    /\ UNCHANGED storeVars

ReadRecord_StopsAtGap(g) ==   \* mutant: the first missing record ends the list
    /\ unread[g] # {}
    /\ LET k == Min(unread[g]) IN
          /\ unread' = [unread EXCEPT ![g] = IF record[k] = Absent THEN {} ELSE @ \ {k}]
          /\ plan' = [plan EXCEPT ![g] =
                         IF record[k] = Absent THEN @ ELSE @ \cup {<<k, record[k]>>}]
    /\ UNCHANGED <<storeVars, gpc, asked, approved, during>>
(* One GET, in the order of the ids; an id without a record is passed over.*)
ReadRecord(g) ==
    /\ unread[g] # {}
    /\ LET k == Min(unread[g]) IN
          /\ unread' = [unread EXCEPT ![g] = @ \ {k}]
          /\ plan' = [plan EXCEPT ![g] =
                         IF record[k] = Absent THEN @ ELSE @ \cup {<<k, record[k]>>}]
    /\ UNCHANGED <<storeVars, gpc, asked, approved, during>>

(* list_switches: SMEMBERS, once the last rule is read.                    *)
ListSwitches(g) ==
    /\ gpc[g] = "limits"
    /\ unread[g] = {}
    /\ gpc' = [gpc EXCEPT ![g] = "switches"]
    /\ unread' = [unread EXCEPT ![g] = index \cap IdsOf("switches")]
    /\ UNCHANGED <<storeVars, asked, plan, approved, during>>

Evaluate(g) ==
    /\ gpc[g] = "switches"
    /\ unread[g] = {}
    /\ gpc' = [gpc EXCEPT ![g] = "decided"]
    /\ approved' = [approved EXCEPT ![g] = evaluate_open_request(plan[g], asked[g])]
    /\ plan' = [plan EXCEPT ![g] = {}]
    /\ UNCHANGED <<storeVars, asked, unread, during>>

GuardStep == \E g \in Guards : \/ ListLimits(g)
                               \/ ReadRecord(g)
                               \/ ListSwitches(g)
                               \/ Evaluate(g)

ControlNext == StoreChanges \/ GuardStep
ControlSpec == ControlInit /\ [][ControlNext]_controlVars

-----------------------------------------------------------------------------
Decided(g) == gpc[g] = "decided"

(* Whatever operators do to other records meanwhile, a guard obeys every   *)
(* rule and switch that was listed unchanged for the whole of its load.    *)
StandingRulesBind ==
    \A g \in Guards :
       Decided(g) => Opened(approved[g]) <= AllowedBy(during[g].standing, asked[g])

(* A refusal has its cause: however the reads of a load mix with requests, *)
(* a guard opens at least what it would under all the enabled records that *)
(* were in the store at some moment of that load.  Nothing disabled,       *)
(* deleted before it or read for an earlier request counts.                *)
RefusalHasCause ==
    \A g \in Guards :
       Decided(g) => AllowedBy(during[g].seen, asked[g]) <= Opened(approved[g])

(* An operator who turns reduce_only on before taking limits away leaves   *)
(* no gap: as long as no switch is lifted and no rule put meanwhile, a     *)
(* guard approves no more than the store allowed at some moment of its     *)
(* load.  That rules are read before switches is what makes it so.         *)
NoGapWhileTightening ==
    \A g \in Guards :
       Decided(g) /\ ~during[g].lifted => Opened(approved[g]) <= during[g].worst

(* control-admin-http-design.md:250: a disable_open switch forbids the     *)
(* scope to open new positions.                                            *)
DisableOpenRefuses ==
    \A g \in Guards :
       Decided(g) =>
          \A e \in during[g].standing :
             (e[1] \in SwitchIds /\ SwitchOf[e[1]].switch_key = "platform.disable_open")
                => Opened(approved[g]) = 0
=============================================================================
