------------------------------ MODULE Sessions ------------------------------
(***************************************************************************)
(* The exchange sessions of one round of the scanner or of the probe       *)
(* (app/exchanges/session_manager.py, adapters.py).  Both open them one by *)
(* one and keep an adapter only of a session that got ready; both close    *)
(* the adapters together with gather(return_exceptions=True).              *)
(***************************************************************************)
CONSTANT Exchanges

(* ready: adapters; live: clients that are open; raised: sessions whose    *)
(* load_markets or close failed in this round.                             *)
SessionsOf == [ready : SUBSET Exchanges, live : SUBSET Exchanges, raised : SUBSET Exchanges]
NoSessions == [ready |-> {}, live |-> {}, raised |-> {}]

Opened(s, e) ==
    [ready |-> s.ready \cup {e}, live |-> s.live \cup {e}, raised |-> s.raised]

(* mark_ready raises: the client exists, and nobody holds it any more.     *)
NotReady(s, e) ==
    [ready |-> s.ready, live |-> s.live \cup {e}, raised |-> s.raised \cup {e}]

(* Mutant: closed one after the other, until one of them fails.            *)
Closed_InTurn(s, failing) ==
    IF failing = {} THEN [ready |-> {}, live |-> s.live \ s.ready, raised |-> s.raised]
    ELSE [ready |-> {}, live |-> s.live,
          raised |-> s.raised \cup {CHOOSE e \in failing : TRUE}]

(* close() of every adapter; those that fail keep their client.            *)
Closed(s, failing) ==
    [ready |-> {}, live |-> (s.live \ s.ready) \cup failing, raised |-> s.raised \cup failing]
=============================================================================
