-------------------------------- MODULE Ledger --------------------------------
(***************************************************************************)
(* What the ledger promises its callers: every operation is atomic, it is  *)
(* applied at most once per idempotency key, and it never takes a balance  *)
(* below zero.  LedgerTx says how the code provides this with database     *)
(* transactions.                                                           *)
(***************************************************************************)
EXTENDS LedgerOps

CONSTANTS Balances,   \* the (exchanger, asset) pairs
          Opening,    \* the balance each of them starts with
          Requests    \* the operations callers may ask for

VARIABLES bal,        \* the balance of each pair
          applied     \* the idempotency keys used up

vars == <<bal, applied>>

Init == /\ bal = [b \in Balances |-> Opening[b]]
        /\ applied = {}

\* One operation takes effect.  A duplicate or an uncovered one changes nothing.
Apply(r) == /\ r.key \notin applied
            /\ Covered(r, bal[r.bal])
            /\ bal' = [bal EXCEPT ![r.bal] = After(r, @)]
            /\ applied' = applied \cup {r.key}

Next == \E r \in Requests : Apply(r)

Spec == Init /\ [][Next]_vars
=============================================================================
