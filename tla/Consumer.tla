------------------------------ MODULE Consumer ------------------------------
(***************************************************************************)
(* RedisSpotConsumer with SpotArbitrageProbeService.run_task: the worker   *)
(* of role "consumer", which reads stream:spot_opps and for each entry     *)
(* places two post-only orders far from the market, looks at them, cancels *)
(* them and looks again.                                                   *)
(*                                                                         *)
(* The probe never raises: it reports how far it got, and the entry is     *)
(* behind the cursor in any case.  The cursor is kept in memory only.      *)
(* Which of the two exchanges is the buy side is decided anew from the     *)
(* tickers; no property tells the exchanges apart, so an order is known by *)
(* its leg.  Its sessions are those of the scanner (Sessions).             *)
(***************************************************************************)
EXTENDS Opportunity

CONSTANTS
    MaxConsumerCrashes  \* bound: kills of the consumer

ASSUME ConsumerAssumption == MaxConsumerCrashes \in Nat

Legs == {"buy", "sell"}

VARIABLES
    cpc,      \* what the consumer does next
    clast,    \* last_id
    order,    \* the order the probe placed for each leg, as the exchange has it
    answered, \* legs whose create_order was answered: filled_exchanges
    uncalled, \* legs whose cancel_order raised: *_cancel_failed
    failed,   \* whether the probe met an exception
    status,   \* execution_status of the last result
    rounds,   \* history: how often an entry was probed
    crashes   \* kills so far

probeVars == <<order, answered, uncalled, failed, status>>
consumerVars == <<cpc, clast, probeVars, rounds, crashes>>

Results == {"OPEN_HEDGED", "OPEN_PARTIAL", "none"}

ConsumerTypeOK ==
    /\ cpc \in {"read", "tickers", "create_buy", "create_sell", "look_buy", "look_sell",
                "cancel_buy", "cancel_sell", "final_buy", "final_sell", "result", "ack", "down"}
    /\ clast \in 0..Len(opps)
    /\ order \in [Legs -> {"none", "open", "cancelled"}]
    /\ answered \subseteq Legs /\ uncalled \subseteq Legs
    /\ failed \in BOOLEAN
    /\ status \in Results
    /\ rounds \in Nat
    /\ crashes \in 0..MaxConsumerCrashes

NoOrder == [leg \in Legs |-> "none"]

ProbeInit ==
    /\ order = NoOrder /\ answered = {} /\ uncalled = {}
    /\ failed = FALSE /\ status = "none"

ConsumerInit ==
    /\ cpc = "read" /\ clast = 0
    /\ ProbeInit
    /\ rounds = 0
    /\ crashes = 0

(* The locals of run_task.                                                 *)
ForgetProbe ==
    /\ order' = NoOrder /\ answered' = {} /\ uncalled' = {}
    /\ failed' = FALSE /\ status' = "none"

ConsumerFrame == UNCHANGED <<opps, clast, crashes>>

(* XREAD after last_id, and dispatch with what the payload names.          *)
ReadOpportunity ==
    /\ cpc = "read"
    /\ clast < Len(opps)
    /\ cpc' = "tickers"
    /\ rounds' = rounds + 1
    /\ ConsumerFrame /\ UNCHANGED probeVars

-----------------------------------------------------------------------------
(* run_task.  An exception outside of the guarded calls: the except branch. *)
Abort == cpc' = "result" /\ failed' = TRUE

(* The sessions, the tickers, amounts and prices.                          *)
FetchTickers ==
    /\ cpc = "tickers"
    /\ \/ cpc' = "create_buy" /\ UNCHANGED failed
       \/ Abort
    /\ ConsumerFrame /\ UNCHANGED <<order, answered, uncalled, status, rounds>>

(* create_order: accepted, refused, or accepted and not answered.          *)
Create(leg, next) ==
    /\ \/ /\ order' = [order EXCEPT ![leg] = "open"]
          /\ \/ answered' = answered \cup {leg} /\ cpc' = next /\ UNCHANGED failed
             \/ UNCHANGED answered /\ Abort
       \/ UNCHANGED <<order, answered>> /\ Abort
    /\ ConsumerFrame /\ UNCHANGED <<uncalled, status, rounds>>

CreateBuy == cpc = "create_buy" /\ Create("buy", "create_sell")
CreateSell == cpc = "create_sell" /\ Create("sell", "look_buy")

(* The first look is not guarded: an error leaves without cancelling.      *)
Look(next) ==
    /\ \/ cpc' = next /\ UNCHANGED failed
       \/ Abort
    /\ ConsumerFrame /\ UNCHANGED <<order, answered, uncalled, status, rounds>>

LookBuy == cpc = "look_buy" /\ Look("look_sell")
LookSell == cpc = "look_sell" /\ Look("cancel_buy")

(* Mutant: one try around both cancels.                                    *)
Cancel_GiveUp(leg, next) ==
    /\ \/ order' = [order EXCEPT ![leg] = "cancelled"] /\ UNCHANGED <<uncalled, failed>>
          /\ cpc' = next
       \/ order' \in {order, [order EXCEPT ![leg] = "cancelled"]}
          /\ uncalled' = uncalled \cup {leg} /\ failed' = TRUE
          /\ cpc' = "final_buy"
    /\ ConsumerFrame /\ UNCHANGED <<answered, status, rounds>>

(* cancel_order of one leg: an error (the order may be gone all the same)  *)
(* is noted, and the next leg is still cancelled.                          *)
Cancel(leg, next) ==
    /\ \/ /\ order' = [order EXCEPT ![leg] = "cancelled"]
          /\ UNCHANGED <<uncalled, failed>>
       \/ /\ order' \in {order, [order EXCEPT ![leg] = "cancelled"]}
          /\ uncalled' = uncalled \cup {leg} /\ failed' = TRUE
    /\ cpc' = next
    /\ ConsumerFrame /\ UNCHANGED <<answered, status, rounds>>

CancelBuy == cpc = "cancel_buy" /\ Cancel("buy", "cancel_sell")
CancelSell == cpc = "cancel_sell" /\ Cancel("sell", "final_buy")

(* Mutant: a last look that fails is repeated from the first, without end. *)
LastLook_Retry(next) ==
    /\ \/ cpc' = next /\ UNCHANGED failed
       \/ cpc' = "final_buy" /\ failed' = TRUE
    /\ ConsumerFrame /\ UNCHANGED <<order, answered, uncalled, status, rounds>>

(* The last look at each order is guarded likewise.                        *)
LastLook(next) ==
    /\ failed' \in {failed, TRUE}
    /\ cpc' = next
    /\ ConsumerFrame /\ UNCHANGED <<order, answered, uncalled, status, rounds>>

FinalBuy == cpc = "final_buy" /\ LastLook("final_sell")
FinalSell == cpc = "final_sell" /\ LastLook("result")

(* stage_exc is raised into the except branch; the sessions are closed.    *)
MakeResult ==
    /\ cpc = "result"
    /\ cpc' = "ack"
    /\ status' = IF ~failed THEN "OPEN_HEDGED"
                 ELSE IF answered # {} THEN "OPEN_PARTIAL" ELSE "none"
    /\ ConsumerFrame /\ UNCHANGED <<order, answered, uncalled, failed, rounds>>

-----------------------------------------------------------------------------
Ack_IfOk ==   \* mutant: a probe that failed is tried again
    /\ cpc = "ack"
    /\ cpc' = "read"
    /\ clast' = IF failed THEN clast ELSE clast + 1
    /\ ForgetProbe
    /\ UNCHANGED <<opps, rounds, crashes>>

(* last_id, then an event no notifier is interested in.                    *)
Ack ==
    /\ cpc = "ack"
    /\ cpc' = "read"
    /\ clast' = clast + 1
    /\ ForgetProbe
    /\ UNCHANGED <<opps, rounds, crashes>>

(* A kill at any time: whatever is open stays open, and the restarted      *)
(* consumer reads the stream from its beginning.                           *)
ConsumerCrash ==
    /\ cpc # "down"
    /\ crashes < MaxConsumerCrashes
    /\ crashes' = crashes + 1
    /\ cpc' = "down" /\ clast' = 0
    /\ ForgetProbe
    /\ UNCHANGED <<opps, rounds>>

ConsumerRestart ==
    /\ cpc = "down"
    /\ cpc' = "read"
    /\ UNCHANGED <<opps, clast, probeVars, rounds, crashes>>

ConsumerStep ==
    \/ ReadOpportunity \/ FetchTickers \/ CreateBuy \/ CreateSell \/ LookBuy \/ LookSell
    \/ CancelBuy \/ CancelSell \/ FinalBuy \/ FinalSell \/ MakeResult
    \/ Ack \/ ConsumerRestart

ConsumerNext == ConsumerStep \/ ConsumerCrash

-----------------------------------------------------------------------------
(* An order the probe leaves on an exchange has a cause of its own: its    *)
(* cancel failed, or the round ended before there was anything to cancel,  *)
(* so the failure of one cancel never leaves the other leg's order open.   *)
(* And the result tells: it is not "hedged", and it is "partial" when the  *)
(* exchange confirmed the order.                                           *)
OpenOrderExplained ==
    cpc = "ack" =>
        \A leg \in Legs : order[leg] = "open" =>
            /\ \/ leg \in uncalled
               \/ failed /\ \A other \in Legs : order[other] # "cancelled" /\ other \notin uncalled
            /\ status # "OPEN_HEDGED"
            /\ leg \in answered => status = "OPEN_PARTIAL"

(* An entry is probed once, and once more for every kill at most: a probe  *)
(* that fails is never repeated.                                           *)
ProbedOncePerRun == rounds <= Len(opps) * (1 + crashes)

(* The consumer ends up behind its last entry for good.                    *)
OpportunitiesProbed == <>[](clast = Len(opps))
=============================================================================
