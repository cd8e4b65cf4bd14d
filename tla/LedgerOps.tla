------------------------------ MODULE LedgerOps ------------------------------
(***************************************************************************)
(* What one entry of ledger_entries does to the balance of one             *)
(* (exchanger, asset) pair: the arithmetic shared by every operation of    *)
(* src/ledger/ledgerService.ts.  Amounts are natural numbers of the        *)
(* smallest unit: the code computes with BigInt on 18-digit fixed point,   *)
(* so additions and subtractions are exact and never wrap.                 *)
(***************************************************************************)
EXTENDS Integers

Kinds == {"DEPOSIT", "ESCROW_LOCK", "ESCROW_RELEASE", "WITHDRAWAL", "FEE",
          "MANUAL_CREDIT", "MANUAL_DEBIT"}

\* A balance: what the exchanger may use freely and what is locked in trades.
BalanceType == [avail: Nat, esc: Nat]
ZeroBalance == [avail |-> 0, esc |-> 0]

\* Mutant: a withdrawal is taken off what is available as well.
AvailDeltaTwice(r) ==
  CASE r.kind \in {"DEPOSIT", "MANUAL_CREDIT", "ESCROW_RELEASE"}    -> r.amt
    [] r.kind \in {"ESCROW_LOCK", "MANUAL_DEBIT", "WITHDRAWAL"}     -> -r.amt
    [] OTHER                                                        -> 0

AvailDelta(r) ==
  CASE r.kind \in {"DEPOSIT", "MANUAL_CREDIT", "ESCROW_RELEASE"} -> r.amt
    [] r.kind \in {"ESCROW_LOCK", "MANUAL_DEBIT"}                -> -r.amt
    [] OTHER                                                     -> 0

EscrowDelta(r) ==
  CASE r.kind = "ESCROW_LOCK"                                -> r.amt
    [] r.kind \in {"ESCROW_RELEASE", "WITHDRAWAL", "FEE"}    -> -r.amt
    [] OTHER                                                 -> 0

\* The balance an entry leaves behind, computed from the balance it found.
After(r, bal) == [avail |-> bal.avail + AvailDelta(r),
                  esc   |-> bal.esc + EscrowDelta(r)]

\* bigGte before a debit, sub() throwing InsufficientBalanceError, and the
\* table's CHECK (... >= 0): an entry is refused rather than go negative.
Covered(r, bal) == After(r, bal).avail >= 0 /\ After(r, bal).esc >= 0
=============================================================================
