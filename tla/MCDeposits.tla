----------------------------- MODULE MCDeposits -----------------------------
(* A small instance of Deposits: two exchangers, and "plain", a bitcoin      *)
(* payment to one of them, with an event id of NOWNodes' own.                *)
EXTENDS Deposits, TLC

MCAssetList == <<"btc">>
MCPayments  == {"plain"}
MCPayee     == [p \in Payments |-> "alice"]
MCPayAsset  == [p \in Payments |-> "btc"]
MCTx        == [p \in Payments |-> "t1"]
MCHookId    == [p \in Payments |-> "n1"]
=============================================================================
