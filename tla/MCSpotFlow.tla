----------------------------- MODULE MCSpotFlow -----------------------------
(* Two symbols on two exchanges: one whose bids are deep, behind a level   *)
(* of size zero, and one with an empty side; the spread is positive or     *)
(* negative, or there is none.                                             *)
EXTENDS SpotFlow, TLC

MCSymbols == <<"BTC", "ETH">>
MCExchanges == {"okx", "gate"}
MCScanExchanges == <<"okx", "gate">>

PriceLevel(p, s) == [price |-> p, size |-> s]
DearBook == [bids |-> <<PriceLevel(6, 0), PriceLevel(3, 1), PriceLevel(2, 1)>>,
             asks |-> <<PriceLevel(12, 1)>>]
CheapBook == [bids |-> <<PriceLevel(1, 3)>>, asks |-> <<PriceLevel(2, 1), PriceLevel(3, 1)>>]
FairBook == [bids |-> <<PriceLevel(2, 1)>>, asks |-> <<PriceLevel(4, 2)>>]
EmptyBook == [bids |-> <<>>, asks |-> <<PriceLevel(4, 1)>>]
MCBooks == [e \in MCExchanges |-> IF e = "okx" THEN {DearBook, CheapBook}
                                  ELSE {CheapBook, FairBook, EmptyBook}]
=============================================================================
