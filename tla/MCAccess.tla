----------------------------- MODULE MCAccess -----------------------------
(* Five wallets; trees of every size, with and without odd layers.          *)
EXTENDS AccessTree

MCWallets == 1..5
MCLists ==
    {<<>>, <<2>>, <<3, 1>>, <<1, 2>>, <<2, 4>>, <<5, 2, 4, 2>>, <<1, 2, 3>>, <<3, 1, 2, 4>>,
     <<2, 3, 4, 5>>, <<5, 4, 3, 2, 1, 3>>}
=============================================================================
