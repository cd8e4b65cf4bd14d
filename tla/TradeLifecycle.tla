---------------------------- MODULE TradeLifecycle ----------------------------
(***************************************************************************)
(* What the trade tables promise whoever reads them: a trade waits until   *)
(* one exchanger takes it, that exchanger keeps it, and it ends once.      *)
(* TradeDb says how the transactions of tradeService.ts and                *)
(* ledgerService.ts provide this.                                          *)
(***************************************************************************)
CONSTANTS Trades, Exchangers, NoExchanger

VARIABLES phase,   \* where each trade is
          by       \* the exchanger that took it

vars == <<phase, by>>

Init == /\ phase = [t \in Trades |-> "waiting"]
        /\ by = [t \in Trades |-> NoExchanger]

Take(t, e) == /\ phase[t] = "waiting"
              /\ phase' = [phase EXCEPT ![t] = "taken"]
              /\ by' = [by EXCEPT ![t] = e]

\* A trade nobody took is withdrawn or times out.
Drop(t) == /\ phase[t] = "waiting"
           /\ phase' = [phase EXCEPT ![t] = "dropped"]
           /\ UNCHANGED by

Finish(t, how) == /\ phase[t] = "taken"
                  /\ phase' = [phase EXCEPT ![t] = how]
                  /\ UNCHANGED by

Next == \E t \in Trades : \/ \E e \in Exchangers : Take(t, e)
                          \/ Drop(t)
                          \/ \E how \in {"done", "undone"} : Finish(t, how)

Spec == Init /\ [][Next]_vars
=============================================================================
