------------------------------ MODULE Scanner ------------------------------
(***************************************************************************)
(* ContinuousSpotScanner with LiveSpotFlowService.run_once: one process    *)
(* that goes round its symbols, looks at one after the other on all        *)
(* exchanges and appends what it finds to stream:spot_opps, and the        *)
(* AlertRouter it reports to.                                              *)
(*                                                                         *)
(* Any call to an exchange may fail at any time.  An error of a round is   *)
(* reported and forgotten; an error of the report itself ends the process, *)
(* which systemd starts anew, at the first symbol and with an empty dedupe *)
(* cache.                                                                  *)
(***************************************************************************)
EXTENDS Opportunity, Sessions

CONSTANTS
    Symbols,         \* active_spot_symbols, in order
    ScanExchanges,   \* the enabled exchanges, in order
    Books,           \* the order books each exchange may answer with
    DedupeWindow,    \* the dedupe window, in ticks
    MaxOpps,         \* bound: opportunities the market offers
    MaxScannerDeaths \* bound: kills, and alerts that cannot be delivered

Descending(levels) == \A i, j \in DOMAIN levels : i < j => levels[i].price >= levels[j].price
Ascending(levels) == \A i, j \in DOMAIN levels : i < j => levels[i].price <= levels[j].price

AllBooks == UNION Range(Books)

(* The weighted price of every side of them, worked out once.              *)
Weighted == [levels \in {b.bids : b \in AllBooks} \cup {b.asks : b \in AllBooks} |->
                WeightedPrice(levels)]

(* Exchanges sort their books, best price first.                           *)
ASSUME ScannerAssumption ==
    /\ Symbols # <<>> /\ Symbols \in Seq(STRING)
    /\ ScanExchanges # <<>> /\ ScanExchanges \in Seq(Exchanges)
    /\ IsInjective(ScanExchanges)
    /\ Books \in [Exchanges -> SUBSET [bids : Seq(Level), asks : Seq(Level)]]
    /\ \A b \in AllBooks : Descending(b.bids) /\ Ascending(b.asks)
    /\ DedupeWindow \in Nat \ {0}
    /\ MaxOpps \in Nat
    /\ MaxScannerDeaths \in Nat

VARIABLES
    spc,       \* what the scanner does next
    ssym,      \* position of active_symbol
    ssessions, \* sessions of this round
    sbooks,    \* orderbooks, in the order of ScanExchanges
    sopp,      \* the opportunity of this round
    sfailed,   \* whether an exception is on its way out of run_once
    cached,    \* _dedupe_cache: ticks since the entry of a symbol
    told,      \* history: symbols whose cached alert was delivered
    sdeaths    \* deaths so far

scannerVars == <<spc, ssym, ssessions, sbooks, sopp, sfailed, cached, told, sdeaths>>
alertVars == <<cached, told>>

SymbolSet == Range(Symbols)
Ages == [SymbolSet -> 0..DedupeWindow]   \* DedupeWindow: long ago, or never
active_symbol == Symbols[ssym]

OpportunitySet == [symbol : SymbolSet, buy_exchange : Exchanges, sell_exchange : Exchanges,
                   bought : Nat, sold : Nat]

ScannerTypeOK ==
    /\ opps \in Seq(OpportunitySet) /\ Len(opps) <= MaxOpps
    /\ spc \in {"open", "fetch", "build", "publish", "close", "alert", "report", "sending",
                "sleep", "down"}
    /\ ssym \in DOMAIN Symbols
    /\ ssessions \in SessionsOf
    /\ sbooks \in Seq(AllBooks) /\ Len(sbooks) <= Len(ScanExchanges)
    /\ sopp \in OpportunitySet \cup {NoOpportunity}
    /\ sfailed \in BOOLEAN
    /\ cached \in Ages /\ told \subseteq SymbolSet
    /\ sdeaths \in 0..MaxScannerDeaths

LongAgo == [s \in SymbolSet |-> DedupeWindow]

ScannerInit ==
    /\ opps = <<>>
    /\ spc = "open" /\ ssym = 1
    /\ ssessions = NoSessions /\ sbooks = <<>> /\ sopp = NoOpportunity /\ sfailed = FALSE
    /\ cached = LongAgo /\ told = {}
    /\ sdeaths = 0

-----------------------------------------------------------------------------
(* run_once.  The sessions: create_session and mark_ready in turn.         *)
nextExchange == ScanExchanges[Cardinality(ssessions.ready) + 1]

OpenSession ==
    /\ spc = "open"
    /\ \/ /\ ssessions' = Opened(ssessions, nextExchange)
          /\ spc' = IF Cardinality(ssessions.ready) + 1 = Len(ScanExchanges)
                    THEN "fetch" ELSE "open"
          /\ UNCHANGED sfailed
       \/ /\ ssessions' = NotReady(ssessions, nextExchange)
          /\ spc' = "close" /\ sfailed' = TRUE
    /\ UNCHANGED <<opps, ssym, sbooks, sopp, alertVars, sdeaths>>

(* fetch_orderbook in turn.  Once the market has offered all it will, no   *)
(* exchange has bids for the whole target.                                 *)
Offered(b) == Len(opps) < MaxOpps \/ Weighted[b.bids] = NoPrice

FetchBook ==
    /\ spc = "fetch"
    /\ \/ /\ \E b \in Books[ScanExchanges[Len(sbooks) + 1]] :
                Offered(b) /\ sbooks' = Append(sbooks, b)
          /\ spc' = IF Len(sbooks) + 1 = Len(ScanExchanges) THEN "build" ELSE "fetch"
          /\ UNCHANGED sfailed
       \/ /\ spc' = "close" /\ sfailed' = TRUE
          /\ UNCHANGED sbooks
    /\ UNCHANGED <<opps, ssym, ssessions, sopp, alertVars, sdeaths>>

best_bid(i) == sbooks[i].bids[1].price
best_ask(i) == sbooks[i].asks[1].price

(* min and max of Python: the first exchange among the best.               *)
buy_exchange ==
    CHOOSE i \in DOMAIN sbooks : \A j \in DOMAIN sbooks :
        best_ask(i) < best_ask(j) \/ (best_ask(i) = best_ask(j) /\ i <= j)
sell_exchange ==
    CHOOSE i \in DOMAIN sbooks : \A j \in DOMAIN sbooks :
        best_bid(i) > best_bid(j) \/ (best_bid(i) = best_bid(j) /\ i <= j)

(* One empty side on one exchange is an IndexError for the whole symbol.   *)
BuildOpportunity ==
    /\ spc = "build"
    /\ IF \E i \in DOMAIN sbooks : sbooks[i].bids = <<>> \/ sbooks[i].asks = <<>>
       THEN spc' = "close" /\ sfailed' = TRUE /\ UNCHANGED sopp
       ELSE LET o == build_depth_spot_opportunity(active_symbol,
                         ScanExchanges[buy_exchange], ScanExchanges[sell_exchange],
                         Weighted[sbooks[buy_exchange].asks], Weighted[sbooks[sell_exchange].bids])
            IN  /\ sopp' = o
                /\ spc' = IF o = NoOpportunity THEN "close" ELSE "publish"
                /\ UNCHANGED sfailed
    /\ UNCHANGED <<opps, ssym, ssessions, sbooks, alertVars, sdeaths>>

(* ZADD for a ranking nobody reads, XADD for the stream.  An error of      *)
(* either fails the round, also if the entry reached the stream.           *)
Publish ==
    /\ spc = "publish"
    /\ spc' = "close"
    /\ \/ opps' = Append(opps, sopp) /\ sfailed' \in BOOLEAN
       \/ UNCHANGED opps /\ sfailed' = TRUE
    /\ UNCHANGED <<ssym, ssessions, sbooks, sopp, alertVars, sdeaths>>

(* The finally branch.                                                     *)
CloseSessions ==
    /\ spc = "close"
    /\ \E failing \in SUBSET ssessions.ready : ssessions' = Closed(ssessions, failing)
    /\ spc' = IF sfailed THEN "report" ELSE IF sopp = NoOpportunity THEN "sleep" ELSE "alert"
    /\ sbooks' = <<>>
    /\ UNCHANGED <<opps, ssym, sopp, sfailed, alertVars, sdeaths>>

-----------------------------------------------------------------------------
(* AlertRouter.dispatch, with run_once and its locals gone.                *)
ForgetRound == ssessions' = NoSessions /\ sbooks' = <<>> /\ sopp' = NoOpportunity

(* opportunity.detected is INFO: sent if the spread is above the threshold, *)
(* never suppressed.  A notifier that fails makes the round a failed one.  *)
AlertDetected ==
    /\ spc = "alert"
    /\ \/ spc' = "sleep"
       \/ Alerting(sopp) /\ spc' = "report"
    /\ ForgetRound
    /\ UNCHANGED <<opps, ssym, sfailed, alertVars, sdeaths>>

(* scanner.iteration.failed is an ERROR: suppressed if there was one for   *)
(* the symbol within the window, otherwise noted in the cache and sent.    *)
ReportFailure ==
    /\ spc = "report"
    /\ IF cached[active_symbol] < DedupeWindow
       THEN spc' = "sleep" /\ UNCHANGED alertVars
       ELSE /\ spc' = "sending"
            /\ cached' = [cached EXCEPT ![active_symbol] = 0]
            /\ told' = told \ {active_symbol}
    /\ ForgetRound
    /\ UNCHANGED <<opps, ssym, sfailed, sdeaths>>

SendAlert_Swallow ==   \* mutant: a notifier that fails does not matter
    /\ spc = "sending"
    /\ spc' = "sleep"
    /\ told' \in {told, told \cup {active_symbol}}
    /\ UNCHANGED <<opps, ssym, ssessions, sbooks, sopp, sfailed, cached, sdeaths>>

SendAlert ==
    /\ spc = "sending"
    /\ spc' = "sleep"
    /\ told' = told \cup {active_symbol}
    /\ UNCHANGED <<opps, ssym, ssessions, sbooks, sopp, sfailed, cached, sdeaths>>

(* Mutant: after a failure the scanner starts over.                        *)
NextSymbol_StartOver ==
    /\ spc = "sleep"
    /\ spc' = "open"
    /\ ssym' = IF sfailed THEN 1 ELSE (ssym % Len(Symbols)) + 1
    /\ ForgetRound /\ sfailed' = FALSE
    /\ UNCHANGED <<opps, alertVars, sdeaths>>

(* The next symbol; sleep(poll_interval_seconds) after the last.           *)
NextSymbol ==
    /\ spc = "sleep"
    /\ spc' = "open"
    /\ ssym' = (ssym % Len(Symbols)) + 1
    /\ ForgetRound /\ sfailed' = FALSE
    /\ UNCHANGED <<opps, alertVars, sdeaths>>

(* A kill at any time; a notifier that fails on a failed round raises out  *)
(* of run() and has the same effect.                                       *)
ScannerDies ==
    /\ spc # "down"
    /\ sdeaths < MaxScannerDeaths
    /\ sdeaths' = sdeaths + 1
    /\ spc' = "down" /\ ssym' = 1
    /\ ForgetRound /\ sfailed' = FALSE
    /\ cached' = LongAgo /\ told' = {}
    /\ UNCHANGED opps

ScannerRestart ==
    /\ spc = "down"
    /\ spc' = "open"
    /\ UNCHANGED <<opps, ssym, ssessions, sbooks, sopp, sfailed, alertVars, sdeaths>>

(* Time goes by, whatever the scanner does.                                *)
Tick ==
    /\ cached' = [s \in SymbolSet |->
                     IF cached[s] < DedupeWindow THEN cached[s] + 1 ELSE cached[s]]
    /\ told' = {s \in told : cached'[s] < DedupeWindow}
    /\ UNCHANGED <<opps, spc, ssym, ssessions, sbooks, sopp, sfailed, sdeaths>>

ScannerStep ==
    \/ OpenSession \/ FetchBook \/ BuildOpportunity \/ Publish \/ CloseSessions
    \/ AlertDetected \/ ReportFailure \/ SendAlert \/ NextSymbol \/ ScannerRestart

ScannerNext == ScannerStep \/ ScannerDies \/ Tick
ScannerSpec == ScannerInit /\ [][ScannerNext]_<<opps, scannerVars>>

-----------------------------------------------------------------------------
(* What is published is what a trader would want: the target is spent and  *)
(* earned in full within the books, with the most base for it on the buy   *)
(* side and the least on the sell side; and nothing such is passed over.   *)
OpportunityIsBestFill ==
    /\ spc = "publish" =>
          /\ sopp.bought = Best(sbooks[buy_exchange].asks)
          /\ sopp.sold = Least(sbooks[sell_exchange].bids)
    /\ spc = "close" /\ ~sfailed /\ sopp = NoOpportunity =>
          \/ Fills(sbooks[buy_exchange].asks) = {}
          \/ Fills(sbooks[sell_exchange].bids) = {}

(* After a round no client is left open but those whose own load_markets   *)
(* or close failed in it: one exchange that fails to close does not keep   *)
(* the others open, and an adapter that got ready is never forgotten.      *)
ClientsClosed ==
    spc \in {"alert", "report", "sending", "sleep"} => ssessions.live \subseteq ssessions.raised

(* A failed round of a symbol stays silent only if an alert for that very  *)
(* symbol was delivered within the window: the cache is written before the *)
(* alert is sent, and a scanner that could not send it does not survive.   *)
SilenceOnlyAfterAlert ==
    \A s \in SymbolSet :
        cached[s] < DedupeWindow => \/ s \in told
                                    \/ spc = "sending" /\ s = active_symbol

(* Every symbol is looked at again and again, whatever the exchanges do,   *)
(* unless the process keeps dying.                                         *)
EverySymbolScanned == \A i \in DOMAIN Symbols : []<>(spc = "open" /\ ssym = i)
=============================================================================
