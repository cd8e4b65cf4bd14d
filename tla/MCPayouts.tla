------------------------------ MODULE MCPayouts ------------------------------
(* Small instances of Payouts: crypto trades of one exchanger.               *)
EXTENDS Payouts, Accounting, TLC

MCTrades    == {"one", "two"}
MCDirection == [t \in Trades |-> "CRYPTO"]
MCAsset     == [t \in Trades |-> "btc"]
MCAmount    == [t \in Trades |-> IF t = "two" THEN 2 ELSE 1]
MCQuote     == [t \in Trades |-> 1]
MCFee       == [t \in Trades |-> 3]
MCFunds     == [p \in Pairs |-> 3]
MCRank      == [a \in Assets |-> 1]

\* Worker slots, and transaction ids, are interchangeable: no property names one.
MCSymmetry == Permutations(Workers) \cup Permutations(Txs)
=============================================================================
