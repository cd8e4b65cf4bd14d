---------------------------- MODULE MCWithdrawals ----------------------------
(* A small instance of Withdrawals: two requests of the admin compete for    *)
(* the profit balance, with one of an exchanger's.                           *)
EXTENDS Withdrawals

MCAccount == [r \in Requests |-> IF r \in Admin THEN "profit" ELSE "available"]
MCAmount  == [r \in Requests |-> IF r = "second" THEN 2 ELSE 1]
MCFunds   == [a \in Accounts |-> 2]
=============================================================================
