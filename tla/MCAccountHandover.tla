-------------------------- MODULE MCAccountHandover --------------------------
(* A pool with every reason to refuse an account, on two exchanges.        *)
EXTENDS AccountHandover, TLC

MCStripLower == ("spot" :> "spot") @@ (" Swap" :> "swap") @@ ("margin" :> "margin")
                @@ ("" :> "") @@ (" " :> "") @@ ("AP" :> "ap") @@ ("ap" :> "ap")
                @@ ("eu" :> "eu") @@ ("default" :> "default")

Account(id, exchange, auto, scope, region) ==
    [id |-> id, user |-> 1, exchange |-> exchange, auto |-> auto,
     scope |-> scope, region |-> region]

MCPool == {Account(1, "okx", FALSE, {"spot"}, ""),
           Account(2, "okx", TRUE, {"margin"}, ""),
           Account(3, "okx", TRUE, {"spot"}, "eu"),
           Account(4, "okx", TRUE, {" Swap", "margin"}, " "),
           Account(5, "okx", TRUE, {"spot"}, "AP"),
           Account(6, "gate", TRUE, {"spot", " Swap"}, "ap"),
           Account(7, "gate", FALSE, {"spot"}, "default"),
           Account(8, "gate", TRUE, {}, "default"),
           Account(9, "gate", TRUE, {"spot"}, "default")}
MCRegions == {"ap", "AP", "eu", ""}
=============================================================================
