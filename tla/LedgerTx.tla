------------------------------- MODULE LedgerTx -------------------------------
(***************************************************************************)
(* The ledger operations as the database runs them: concurrent READ        *)
(* COMMITTED transactions of the connection pool, one statement per step.  *)
(*                                                                         *)
(*   BEGIN                  fixes NOW(), the created_at of what it inserts *)
(*   SELECT ... key         returns early when the key was used            *)
(*   pg_advisory_xact_lock  one holder per (exchanger, asset)              *)
(*   SELECT ... FOR UPDATE  the row with the newest created_at             *)
(*   INSERT, COMMIT         refused by UNIQUE (key) and by CHECK (>= 0)    *)
(*                                                                         *)
(* An inserted row is invisible until COMMIT, and a second INSERT of its   *)
(* key waits for that COMMIT, so INSERT and COMMIT are one step.  Entries  *)
(* are kept in commit order, which the code cannot see: it orders by       *)
(* created_at.  Two transactions never begin in the same microsecond.      *)
(***************************************************************************)
EXTENDS LedgerOps, Sequences

CONSTANTS Sessions,    \* the connections of the pool
          Balances,    \* the (exchanger, asset) pairs
          Keys,        \* idempotency keys
          Requests,    \* the ledger operations that may be asked for
          MaxTx,       \* bound: transactions begun in a behaviour
          NoSession, NoRequest

ASSUME ConstantsOK ==
  /\ Requests \subseteq [key: Keys, bal: Balances, kind: Kinds, amt: Nat \ {0}]
  /\ MaxTx \in Nat
  /\ NoSession \notin Sessions
  /\ NoRequest \notin Requests

VARIABLES entries,     \* the committed rows of ledger_entries, in commit order
          clock,       \* the database clock, read by BEGIN
          pc,          \* how far the transaction of each session has come
          req,         \* the operation a session is running
          began,       \* NOW() of the session's transaction
          lock,        \* the holder of each advisory lock
          snap         \* the balance the session read under the lock

vars == <<entries, clock, pc, req, began, lock, snap>>

Entry == [key: Keys, bal: Balances, kind: Kinds, amt: Nat \ {0},
          before: BalanceType, after: BalanceType, at: Nat]

UsedKeys == {entries[i].key : i \in DOMAIN entries}
Rows(b)  == {i \in DOMAIN entries : entries[i].bal = b}

\* ORDER BY created_at DESC, id DESC LIMIT 1
NewestRows(b) == {i \in Rows(b) : \A j \in Rows(b) : entries[j].at <= entries[i].at}
OneOf(S) == CHOOSE i \in S : TRUE
BalanceOf(b) == IF Rows(b) = {} THEN ZeroBalance
                                ELSE entries[OneOf(NewestRows(b))].after

Init == /\ entries = <<>>
        /\ clock = 0
        /\ pc = [s \in Sessions |-> "idle"]
        /\ req = [s \in Sessions |-> NoRequest]
        /\ began = [s \in Sessions |-> 0]
        /\ lock = [b \in Balances |-> NoSession]
        /\ snap = [s \in Sessions |-> ZeroBalance]

-----------------------------------------------------------------------------
\* Mutant: ROLLBACK and COMMIT leave a session lock (pg_advisory_lock) behind.
EndKeepsLock(s) == /\ pc' = [pc EXCEPT ![s] = "idle"]
                   /\ req' = [req EXCEPT ![s] = NoRequest]
                   /\ began' = [began EXCEPT ![s] = 0]
                   /\ snap' = [snap EXCEPT ![s] = ZeroBalance]
                   /\ UNCHANGED lock

\* Leaving a transaction, by COMMIT or ROLLBACK, frees what the session held.
End(s) == /\ pc' = [pc EXCEPT ![s] = "idle"]
          /\ req' = [req EXCEPT ![s] = NoRequest]
          /\ began' = [began EXCEPT ![s] = 0]
          /\ lock' = [b \in Balances |-> IF lock[b] = s THEN NoSession ELSE lock[b]]
          /\ snap' = [snap EXCEPT ![s] = ZeroBalance]

Begin(s, r) == /\ pc[s] = "idle"
               /\ clock < MaxTx
               /\ clock' = clock + 1
               /\ began' = [began EXCEPT ![s] = clock + 1]
               /\ req' = [req EXCEPT ![s] = r]
               /\ pc' = [pc EXCEPT ![s] = "begun"]
               /\ UNCHANGED <<entries, lock, snap>>

CheckKey(s) ==
  /\ pc[s] = "begun"
  /\ IF req[s].key \in UsedKeys
       THEN End(s)                       \* "Duplicate": the old entry is returned
       ELSE /\ pc' = [pc EXCEPT ![s] = "checked"]
            /\ UNCHANGED <<req, began, lock, snap>>
  /\ UNCHANGED <<entries, clock>>

\* Mutant: the advisory lock is not waited for.
AcquireNoLock(s) == /\ pc[s] = "checked"
                    /\ pc' = [pc EXCEPT ![s] = "locked"]
                    /\ UNCHANGED <<entries, clock, req, began, lock, snap>>

AcquireLock(s) == /\ pc[s] = "checked"
                  /\ lock[req[s].bal] = NoSession
                  /\ lock' = [lock EXCEPT ![req[s].bal] = s]
                  /\ pc' = [pc EXCEPT ![s] = "locked"]
                  /\ UNCHANGED <<entries, clock, req, began, snap>>

ReadBalance(s) == /\ pc[s] = "locked"
                  /\ snap' = [snap EXCEPT ![s] = BalanceOf(req[s].bal)]
                  /\ pc' = [pc EXCEPT ![s] = "read"]
                  /\ UNCHANGED <<entries, clock, req, began, lock>>

NewEntry(s) == [key |-> req[s].key, bal |-> req[s].bal, kind |-> req[s].kind,
                amt |-> req[s].amt, before |-> snap[s],
                after |-> After(req[s], snap[s]), at |-> began[s]]

\* Mutants: no balance check before the insert, or no UNIQUE constraint.
AcceptedUncovered(s) == req[s].key \notin UsedKeys
AcceptedTwice(s) == Covered(req[s], snap[s])

Accepted(s) == req[s].key \notin UsedKeys /\ Covered(req[s], snap[s])

InsertCommit(s) == /\ pc[s] = "read"
                   /\ Accepted(s)
                   /\ entries' = Append(entries, NewEntry(s))
                   /\ End(s)
                   /\ UNCHANGED clock

\* InsufficientBalanceError, or the UNIQUE violation of a key inserted meanwhile.
Refuse(s) == /\ pc[s] = "read"
             /\ ~Accepted(s)
             /\ End(s)
             /\ UNCHANGED <<entries, clock>>

\* The process dies or the connection drops: the server rolls back.
Crash(s) == /\ pc[s] # "idle"
            /\ End(s)
            /\ UNCHANGED <<entries, clock>>

Step(s) == \/ CheckKey(s)
           \/ AcquireLock(s)
           \/ ReadBalance(s)
           \/ InsertCommit(s)
           \/ Refuse(s)

Next == \E s \in Sessions : \/ \E r \in Requests : Begin(s, r)
                            \/ Step(s)
                            \/ Crash(s)

Spec == Init /\ [][Next]_vars

\* The server answers every statement; waiters for an advisory lock are queued
\* first come first served, so one that keeps becoming free is obtained.
Fairness == \A s \in Sessions : WF_vars(Step(s)) /\ SF_vars(AcquireLock(s))
FairSpec == Spec /\ Fairness

-----------------------------------------------------------------------------
(* Type correctness.  Entries hold natural balances: no sequence of debits  *)
(* and releases, however interleaved, commits a negative one.               *)
TypeOK == /\ entries \in Seq(Entry)
          /\ clock \in 0..MaxTx
          /\ pc \in [Sessions -> {"idle", "begun", "checked", "locked", "read"}]
          /\ req \in [Sessions -> Requests \cup {NoRequest}]
          /\ began \in [Sessions -> 0..MaxTx]
          /\ lock \in [Balances -> Sessions \cup {NoSession}]
          /\ snap \in [Sessions -> BalanceType]

(* An idempotency key is never entered twice, although the key is looked up *)
(* before the lock is taken and two retries can both find it unused.        *)
KeysUnique == \A i, j \in DOMAIN entries :
                 entries[i].key = entries[j].key => i = j

(* What a session read under the advisory lock is still the current balance *)
(* when it inserts: nobody writes the pair between its SELECT and COMMIT.   *)
SnapshotFresh == \A s \in Sessions, b \in Balances :
                    pc[s] = "read" /\ req[s].bal = b => snap[s] = BalanceOf(b)

(* Rows of a pair are committed in the order of their created_at.  The code *)
(* does not ensure it: a transaction that begins first may lock second.     *)
InOrder == \A i, j \in DOMAIN entries :
              i < j /\ entries[i].bal = entries[j].bal
                 => entries[i].at < entries[j].at

Abs == INSTANCE Ledger WITH Opening <- [b \in Balances |-> ZeroBalance],
                            bal <- [b \in Balances |-> BalanceOf(b)],
                            applied <- UsedKeys

(* As long as rows are committed in created_at order, each transaction that *)
(* commits is one atomic step of the Ledger, and no other step changes a    *)
(* balance or uses up a key.                                                *)
ImplementsLedgerInOrder ==
  Abs!Init /\ [][InOrder' => Abs!Next]_(Abs!vars)

(* The header of ledgerService.ts: "This serialises concurrent operations": *)
(* the concurrent transactions implement the atomic Ledger.                 *)
SerialisesOperations == Abs!Spec

(* A transaction that begins also ends: a lock is not left behind by one    *)
(* that was refused or whose connection dropped.                            *)
TransactionsEnd == \A s \in Sessions : pc[s] # "idle" ~> pc[s] = "idle"
=============================================================================
