-------------------------- MODULE MCAssetTxBuilder --------------------------
(* The wallet and the caller's inputs the asset builder is checked with.   *)
EXTENDS AssetTxBuilder

\* Two native coins, two coins of asset 1 and none of asset 2.
MCWalletCoins ==
    {[idx |-> 1, asset |-> 0, value |-> 2], [idx |-> 2, asset |-> 0, value |-> 1],
     [idx |-> 3, asset |-> 1, value |-> 2], [idx |-> 4, asset |-> 1, value |-> 3]}

\* Empty, single and split amount lists, one worth more than the wallet has.
MCAmountLists == {<<>>, <<2>>, <<1, 2>>, <<3, 3>>}

\* Amount lists whose sum passes the width of Amount.
MCOverflowLists == {<<2>>, <<3, 2>>}
====
