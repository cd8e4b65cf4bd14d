----------------------------- MODULE MCTradeFlow -----------------------------
(* Small instances of TradeFlow: a crypto trade and a fiat-to-fiat trade, or *)
(* two crypto trades, of exchangers that can afford both or only one.        *)
EXTENDS TradeFlow, Accounting, TLC

MCTrades    == {"crypto", "f2f"}
MCPair      == {"one", "two"}
MCThree     == {"one", "two", "f2f"}
MCDirection == [t \in Trades |-> IF t = "f2f" THEN "FIAT_TO_FIAT" ELSE "CRYPTO"]
MCAsset     == [t \in Trades |-> "btc"]
MCEth       == [t \in Trades |-> "eth"]
MCAmount    == [t \in Trades |-> IF t = "two" THEN 2 ELSE 1]
MCQuote     == [t \in Trades |-> 1]
MCFee       == [t \in Trades |-> IF t \in {"crypto", "one"} THEN 3 ELSE 2]
MCFunds     == [p \in Pairs |-> IF p[1] = "alice" THEN 2 ELSE 1]
MCPlenty    == [p \in Pairs |-> 3]
MCRank      == [a \in Assets |-> IF a = "btc" THEN 1 ELSE 2]

\* Neither /close-ticket nor the dashboard's bare transitions.
MCHandlers  == AllOps \ {"close", "dashboard"}

\* Slots are interchangeable: no property names one.
MCSymmetry == Permutations(Slots)
=============================================================================
