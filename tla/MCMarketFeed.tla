---------------------------- MODULE MCMarketFeed ----------------------------
(***************************************************************************)
(* A small market: both sides of book 1 can have a top, book 2 has bids    *)
(* only, whose total may have wrapped to 0.                                *)
(***************************************************************************)
EXTENDS MarketFeed

Level(price, size) == [price |-> price, size |-> size]

MCTops ==
    1 :> ("buy" :> {NoLevel, Level(1, 1)} @@ "sell" :> {NoLevel, Level(2, 1)})
    @@ 2 :> ("buy" :> {NoLevel, Level(1, 1), Level(1, 0)}
             @@ "sell" :> {NoLevel})
=============================================================================
