---------------------------- MODULE LedgerTxProofs ----------------------------
(***************************************************************************)
(* Proofs about LedgerTx for any number of sessions, pairs, keys and       *)
(* transactions: type correctness (no committed balance is negative), one  *)
(* entry per key, freshness of the balance read under the advisory lock,   *)
(* and that transactions committed in created_at order implement Ledger.   *)
(***************************************************************************)
EXTENDS LedgerTx, SequenceTheorems, TLAPS

\* A session that is not idle runs one of the operations.
Busy == \A s \in Sessions : pc[s] # "idle" => req[s] \in Requests

\* A session past pg_advisory_xact_lock holds the lock of its pair.
HoldsLock == \A s \in Sessions :
                pc[s] \in {"locked", "read"} => lock[req[s].bal] = s

\* Among the rows of a pair one has the newest created_at.
HasNewest == \A b \in Balances : Rows(b) # {} => NewestRows(b) # {}

\* The inductive invariant: the lock discipline is what keeps a snapshot fresh,
\* and a newest row is what makes the balance read a natural one.
Inv == /\ TypeOK
       /\ Busy
       /\ HoldsLock
       /\ HasNewest
       /\ SnapshotFresh
       /\ KeysUnique

-----------------------------------------------------------------------------
\* The change an operation makes to each part of a balance is an integer.
LEMMA DeltaType ==
  ASSUME NEW r \in Requests
  PROVE  AvailDelta(r) \in Int /\ EscrowDelta(r) \in Int
<1>1. r.amt \in Nat
  BY ConstantsOK
<1>2. QED
  BY <1>1 DEF AvailDelta, EscrowDelta

\* A covered operation takes a balance to a balance: nothing goes negative.
LEMMA AfterType ==
  ASSUME NEW r \in Requests, NEW bal \in BalanceType, Covered(r, bal)
  PROVE  After(r, bal) \in BalanceType
<1>1. AvailDelta(r) \in Int /\ EscrowDelta(r) \in Int
  BY DeltaType
<1>2. QED
  BY <1>1 DEF Covered, After, BalanceType

\* Where some row is newest, the one picked is a newest row.
LEMMA OneOfIn == ASSUME NEW S, S # {} PROVE OneOf(S) \in S
BY DEF OneOf

\* The balance of a pair is a natural one in every state with a newest row.
LEMMA BalanceOfType ==
  ASSUME TypeOK, HasNewest, NEW b \in Balances
  PROVE  BalanceOf(b) \in BalanceType
<1>1. CASE Rows(b) = {}
  BY <1>1 DEF BalanceOf, ZeroBalance, BalanceType
<1>2. CASE Rows(b) # {}
  <2>1. OneOf(NewestRows(b)) \in DOMAIN entries
    BY <1>2, OneOfIn DEF HasNewest, NewestRows, Rows
  <2>2. entries[OneOf(NewestRows(b))] \in Entry
    BY <2>1, ElementOfSeq DEF TypeOK
  <2>3. QED
    BY <1>2, <2>2 DEF BalanceOf, Entry
<1>3. QED
  BY <1>1, <1>2

\* Steps that commit nothing leave every balance as it was.
LEMMA BalanceOfUnchanged ==
  ASSUME UNCHANGED entries, NEW b \in Balances
  PROVE  /\ Rows(b)' = Rows(b)
         /\ NewestRows(b)' = NewestRows(b)
         /\ BalanceOf(b)' = BalanceOf(b)
<1>1. Rows(b)' = Rows(b)
  BY DEF Rows
<1>2. NewestRows(b)' = NewestRows(b)
  BY <1>1 DEF NewestRows
<1>3. QED
  BY <1>1, <1>2 DEF BalanceOf

-----------------------------------------------------------------------------
\* Ending a transaction disturbs neither the type of the state nor the locks
\* and snapshots of the other sessions.
LEMMA EndKeeps ==
  ASSUME Inv, NEW s \in Sessions, End(s)
  PROVE  /\ pc' \in [Sessions -> {"idle", "begun", "checked", "locked", "read"}]
         /\ req' \in [Sessions -> Requests \cup {NoRequest}]
         /\ began' \in [Sessions -> 0..MaxTx]
         /\ lock' \in [Balances -> Sessions \cup {NoSession}]
         /\ snap' \in [Sessions -> BalanceType]
         /\ Busy'
         /\ HoldsLock'
<1>1. /\ pc' \in [Sessions -> {"idle", "begun", "checked", "locked", "read"}]
      /\ req' \in [Sessions -> Requests \cup {NoRequest}]
      /\ snap' \in [Sessions -> BalanceType]
  BY DEF Inv, TypeOK, End, ZeroBalance, BalanceType
<1>2. began' \in [Sessions -> 0..MaxTx]
  BY ConstantsOK DEF Inv, TypeOK, End
<1>3. lock' \in [Balances -> Sessions \cup {NoSession}]
  BY DEF Inv, TypeOK, End
<1>4. Busy'
  BY DEF Inv, TypeOK, Busy, End
<1>5. HoldsLock'
  <2> SUFFICES ASSUME NEW t \in Sessions, pc'[t] \in {"locked", "read"}
               PROVE  lock'[req'[t].bal] = t
    BY DEF HoldsLock
  <2>1. t # s /\ pc'[t] = pc[t] /\ req'[t] = req[t]
    BY DEF Inv, TypeOK, End
  <2>2. lock[req[t].bal] = t /\ req[t] \in Requests
    BY <2>1 DEF Inv, HoldsLock, Busy
  <2>3. req[t].bal \in Balances
    BY <2>2, ConstantsOK
  <2>4. QED
    BY <2>1, <2>2, <2>3 DEF Inv, TypeOK, End
<1>6. QED
  BY <1>1, <1>2, <1>3, <1>4, <1>5

\* A step that commits nothing keeps what the invariant says of the entries,
\* and every fresh snapshot that it does not overwrite.
LEMMA QuietStep ==
  ASSUME Inv, UNCHANGED entries,
         \A t \in Sessions : pc'[t] = "read" =>
            /\ pc[t] = "read" /\ req'[t] = req[t] /\ snap'[t] = snap[t]
  PROVE  HasNewest' /\ KeysUnique' /\ SnapshotFresh'
<1>1. HasNewest'
  BY BalanceOfUnchanged DEF Inv, HasNewest
<1>2. KeysUnique'
  BY DEF Inv, KeysUnique
<1>3. SnapshotFresh'
  <2> SUFFICES ASSUME NEW t \in Sessions, NEW b \in Balances,
                      pc'[t] = "read", req'[t].bal = b
               PROVE  snap'[t] = BalanceOf(b)'
    BY DEF SnapshotFresh
  <2>1. pc[t] = "read" /\ req[t].bal = b /\ snap'[t] = snap[t]
    OBVIOUS
  <2>2. QED
    BY <2>1, BalanceOfUnchanged DEF Inv, SnapshotFresh
<1>4. QED
  BY <1>1, <1>2, <1>3

-----------------------------------------------------------------------------
\* A committed row changes the balance of its own pair only.
LEMMA OtherPairs ==
  ASSUME TypeOK, HasNewest, NEW e \in Entry, entries' = Append(entries, e),
         NEW b \in Balances, b # e.bal
  PROVE  /\ Rows(b)' = Rows(b)
         /\ NewestRows(b)' = NewestRows(b)
         /\ BalanceOf(b)' = BalanceOf(b)
<1> DEFINE n == Len(entries)
<1>1. /\ entries \in Seq(Entry) /\ n \in Nat /\ DOMAIN entries = 1..n
      /\ DOMAIN entries' = 1..(n + 1)
      /\ \A i \in 1..n : entries'[i] = entries[i]
      /\ entries'[n + 1] = e
  BY DEF TypeOK
<1>2. Rows(b)' = Rows(b)
  BY <1>1 DEF Rows
<1>3. \A i \in Rows(b) : entries'[i] = entries[i]
  BY <1>1 DEF Rows
<1>4. NewestRows(b)' = NewestRows(b)
  BY <1>2, <1>3 DEF NewestRows
<1>5. QED
  <2>1. CASE Rows(b) = {}
    BY <2>1, <1>2, <1>4 DEF BalanceOf
  <2>2. CASE Rows(b) # {}
    <3>1. OneOf(NewestRows(b)) \in Rows(b)
      BY <2>2, OneOfIn DEF HasNewest, NewestRows
    <3>2. QED
      BY <3>1, <1>2, <1>3, <1>4 DEF BalanceOf
  <2>3. QED
    BY <2>1, <2>2

\* A committed row leaves its pair with a newest row.
LEMMA InsertHasNewest ==
  ASSUME TypeOK, HasNewest, NEW e \in Entry, entries' = Append(entries, e)
  PROVE  HasNewest'
<1> DEFINE n == Len(entries)
<1>1. /\ entries \in Seq(Entry) /\ n \in Nat /\ DOMAIN entries = 1..n
      /\ DOMAIN entries' = 1..(n + 1)
      /\ \A i \in 1..n : entries'[i] = entries[i]
      /\ entries'[n + 1] = e
  BY DEF TypeOK
<1>0. \A i \in 1..n : entries[i] \in Entry
  BY <1>1, ElementOfSeq
<1>at. e.at \in Nat /\ \A i \in 1..n : entries[i].at \in Nat
  BY <1>0 DEF Entry
<1> HIDE DEF n
<1> SUFFICES ASSUME NEW b \in Balances
             PROVE  Rows(b)' # {} => NewestRows(b)' # {}
  BY DEF HasNewest
<1>2. CASE b # e.bal
  BY <1>2, OtherPairs DEF HasNewest
<1>3. CASE b = e.bal /\ Rows(b) = {}
  <2>1. Rows(b)' = {n + 1}
    BY <1>1, <1>3 DEF Rows
  <2>2. n + 1 \in NewestRows(b)'
    BY <1>1, <1>at, <2>1 DEF NewestRows
  <2>3. QED
    BY <2>2
<1>4. CASE b = e.bal /\ Rows(b) # {}
  <2>1. PICK i \in Rows(b) : \A j \in Rows(b) : entries[j].at <= entries[i].at
    BY <1>4 DEF HasNewest, NewestRows
  <2>2. Rows(b)' = Rows(b) \cup {n + 1} /\ Rows(b) \subseteq 1..n
    BY <1>1, <1>4 DEF Rows
  <2>3. CASE e.at >= entries[i].at
    <3>1. n + 1 \in NewestRows(b)'
      BY <1>1, <1>at, <2>1, <2>2, <2>3 DEF NewestRows
    <3>2. QED
      BY <3>1
  <2>4. CASE e.at < entries[i].at
    <3>1. i \in NewestRows(b)'
      BY <1>1, <1>at, <2>1, <2>2, <2>4 DEF NewestRows
    <3>2. QED
      BY <3>1
  <2>5. QED
    BY <1>at, <2>1, <2>2, <2>3, <2>4
<1>5. QED
  BY <1>2, <1>3, <1>4

-----------------------------------------------------------------------------
\* The empty ledger satisfies the invariant.
LEMMA InitInv == Init => Inv
<1> SUFFICES ASSUME Init PROVE Inv
  OBVIOUS
<1>1. TypeOK
  BY ConstantsOK DEF Init, TypeOK, ZeroBalance, BalanceType
<1>2. Busy /\ HoldsLock /\ SnapshotFresh
  BY DEF Init, Busy, HoldsLock, SnapshotFresh
<1>3. HasNewest /\ KeysUnique
  BY DEF Init, HasNewest, KeysUnique, Rows
<1>4. QED
  BY <1>1, <1>2, <1>3 DEF Inv

\* Every way of ending a transaction without a row keeps the invariant.
LEMMA EndInv ==
  ASSUME Inv, NEW s \in Sessions, End(s), UNCHANGED <<entries, clock>>
  PROVE  Inv'
<1>1. TypeOK' /\ Busy' /\ HoldsLock'
  BY EndKeeps DEF Inv, TypeOK
<1>2. \A t \in Sessions : pc'[t] = "read" =>
         pc[t] = "read" /\ req'[t] = req[t] /\ snap'[t] = snap[t]
  BY DEF Inv, TypeOK, End
<1>3. QED
  BY <1>1, <1>2, QuietStep DEF Inv

LEMMA BeginInv ==
  ASSUME Inv, NEW s \in Sessions, NEW r \in Requests, Begin(s, r)
  PROVE  Inv'
<1>1. TypeOK'
  BY ConstantsOK DEF Inv, TypeOK, Begin
<1>2. Busy' /\ HoldsLock'
  BY DEF Inv, TypeOK, Busy, HoldsLock, Begin
<1>3. \A t \in Sessions : pc'[t] = "read" =>
         pc[t] = "read" /\ req'[t] = req[t] /\ snap'[t] = snap[t]
  BY DEF Inv, TypeOK, Begin
<1>4. UNCHANGED entries
  BY DEF Begin
<1>5. QED
  BY <1>1, <1>2, <1>3, <1>4, QuietStep DEF Inv

LEMMA CheckKeyInv ==
  ASSUME Inv, NEW s \in Sessions, CheckKey(s)
  PROVE  Inv'
<1>1. CASE req[s].key \in UsedKeys
  BY <1>1, EndInv DEF CheckKey
<1>2. CASE req[s].key \notin UsedKeys
  <2>0. /\ pc[s] = "begun" /\ pc' = [pc EXCEPT ![s] = "checked"]
        /\ UNCHANGED <<entries, clock, req, began, lock, snap>>
    BY <1>2 DEF CheckKey
  <2>1. TypeOK'
    BY <2>0 DEF Inv, TypeOK
  <2>2. Busy' /\ HoldsLock'
    BY <2>0 DEF Inv, TypeOK, Busy, HoldsLock
  <2>3. \A t \in Sessions : pc'[t] = "read" =>
           pc[t] = "read" /\ req'[t] = req[t] /\ snap'[t] = snap[t]
    BY <2>0 DEF Inv, TypeOK
  <2>4. QED
    BY <2>0, <2>1, <2>2, <2>3, QuietStep DEF Inv
<1>3. QED
  BY <1>1, <1>2

\* The lock is taken only when nobody holds it, so no other holder loses it.
LEMMA AcquireLockInv ==
  ASSUME Inv, NEW s \in Sessions, AcquireLock(s)
  PROVE  Inv'
<1>0. req[s] \in Requests /\ req[s].bal \in Balances
  BY ConstantsOK DEF Inv, Busy, AcquireLock
<1>1. TypeOK'
  BY <1>0 DEF Inv, TypeOK, AcquireLock
<1>2. Busy'
  BY DEF Inv, TypeOK, Busy, AcquireLock
<1>3. HoldsLock'
  <2> SUFFICES ASSUME NEW t \in Sessions, pc'[t] \in {"locked", "read"}
               PROVE  lock'[req[t].bal] = t
    BY DEF HoldsLock, AcquireLock
  <2>1. CASE t = s
    BY <2>1, <1>0 DEF Inv, TypeOK, AcquireLock
  <2>2. CASE t # s
    <3>1. lock[req[t].bal] = t
      BY <2>2 DEF Inv, TypeOK, HoldsLock, AcquireLock
    <3>2. req[t].bal # req[s].bal
      BY <3>1, ConstantsOK DEF AcquireLock
    <3>3. QED
      BY <3>1, <3>2 DEF Inv, TypeOK, AcquireLock
  <2>3. QED
    BY <2>1, <2>2
<1>4. \A t \in Sessions : pc'[t] = "read" =>
         pc[t] = "read" /\ req'[t] = req[t] /\ snap'[t] = snap[t]
  BY DEF Inv, TypeOK, AcquireLock
<1>5. UNCHANGED entries
  BY DEF AcquireLock
<1>6. QED
  BY <1>1, <1>2, <1>3, <1>4, <1>5, QuietStep DEF Inv

LEMMA ReadBalanceInv ==
  ASSUME Inv, NEW s \in Sessions, ReadBalance(s)
  PROVE  Inv'
<1>0. req[s] \in Requests /\ req[s].bal \in Balances
  BY ConstantsOK DEF Inv, Busy, ReadBalance
<1>1. BalanceOf(req[s].bal) \in BalanceType
  BY <1>0, BalanceOfType DEF Inv
<1>2. TypeOK'
  BY <1>1 DEF Inv, TypeOK, ReadBalance
<1>3. Busy' /\ HoldsLock'
  BY DEF Inv, TypeOK, Busy, HoldsLock, ReadBalance
<1>4. UNCHANGED entries
  BY DEF ReadBalance
<1>5. HasNewest' /\ KeysUnique'
  BY <1>4, BalanceOfUnchanged DEF Inv, HasNewest, KeysUnique
<1>6. SnapshotFresh'
  <2> SUFFICES ASSUME NEW t \in Sessions, NEW b \in Balances,
                      pc'[t] = "read", req'[t].bal = b
               PROVE  snap'[t] = BalanceOf(b)'
    BY DEF SnapshotFresh
  <2>1. req[t].bal = b /\ BalanceOf(b)' = BalanceOf(b)
    BY <1>4, BalanceOfUnchanged DEF ReadBalance
  <2>2. CASE t = s
    BY <2>1, <2>2 DEF Inv, TypeOK, ReadBalance
  <2>3. CASE t # s
    <3>1. pc[t] = "read" /\ snap'[t] = snap[t]
      BY <2>3 DEF Inv, TypeOK, ReadBalance
    <3>2. QED
      BY <2>1, <3>1 DEF Inv, SnapshotFresh
  <2>4. QED
    BY <2>2, <2>3
<1>7. QED
  BY <1>2, <1>3, <1>5, <1>6 DEF Inv

\* What an accepted operation writes is a row of the table.
LEMMA NewEntryType ==
  ASSUME Inv, NEW s \in Sessions, InsertCommit(s)
  PROVE  /\ req[s] \in Requests
         /\ NewEntry(s) \in Entry
         /\ NewEntry(s).bal = req[s].bal
         /\ NewEntry(s).key = req[s].key
<1>1. req[s] \in Requests
  BY DEF Inv, Busy, InsertCommit
<1>2. snap[s] \in BalanceType /\ Covered(req[s], snap[s])
  BY DEF Inv, TypeOK, InsertCommit, Accepted
<1>3. After(req[s], snap[s]) \in BalanceType
  BY <1>1, <1>2, AfterType
<1>4. began[s] \in Nat
  BY ConstantsOK DEF Inv, TypeOK
<1>5. QED
  BY <1>1, <1>2, <1>3, <1>4, ConstantsOK DEF NewEntry, Entry

\* Another session that has read its balance holds the lock of another pair,
\* and the committed row is of the pair this session holds.
LEMMA InsertInv ==
  ASSUME Inv, NEW s \in Sessions, InsertCommit(s)
  PROVE  Inv'
<1> DEFINE e == NewEntry(s)
           n == Len(entries)
<1>0. /\ e \in Entry /\ e.bal = req[s].bal /\ e.key = req[s].key
      /\ req[s] \in Requests /\ req[s].bal \in Balances
  BY NewEntryType, ConstantsOK
<1>1. entries' = Append(entries, e) /\ End(s) /\ clock' = clock
  BY DEF InsertCommit
<1>2. pc[s] = "read" /\ req[s].key \notin UsedKeys
  BY DEF InsertCommit, Accepted
<1>3. TypeOK' /\ Busy' /\ HoldsLock'
  <2>1. entries' \in Seq(Entry)
    BY <1>0, <1>1, AppendProperties DEF Inv, TypeOK
  <2>2. QED
    BY <1>1, <2>1, EndKeeps DEF Inv, TypeOK
<1>4. /\ n \in Nat /\ DOMAIN entries = 1..n /\ DOMAIN entries' = 1..(n + 1)
      /\ \A i \in 1..n : entries'[i] = entries[i]
      /\ entries'[n + 1] = e
  BY <1>1 DEF Inv, TypeOK
<1> HIDE DEF e, n
<1>5. HasNewest'
  BY <1>0, <1>1, InsertHasNewest DEF Inv
<1>6. KeysUnique'
  BY <1>0, <1>2, <1>4 DEF Inv, KeysUnique, UsedKeys
<1>7. SnapshotFresh'
  <2> SUFFICES ASSUME NEW t \in Sessions, NEW b \in Balances,
                      pc'[t] = "read", req'[t].bal = b
               PROVE  snap'[t] = BalanceOf(b)'
    BY DEF SnapshotFresh
  <2>1. t # s /\ pc[t] = "read" /\ req[t].bal = b /\ snap'[t] = snap[t]
    BY <1>1 DEF Inv, TypeOK, End
  <2>2. b # e.bal
    BY <1>0, <1>2, <2>1 DEF Inv, HoldsLock
  <2>3. BalanceOf(b)' = BalanceOf(b)
    BY <1>0, <1>1, <2>2, OtherPairs DEF Inv
  <2>4. QED
    BY <2>1, <2>3 DEF Inv, SnapshotFresh
<1>8. QED
  BY <1>3, <1>5, <1>6, <1>7 DEF Inv

\* No step of the specification breaks the invariant.
LEMMA NextInv == Inv /\ [Next]_vars => Inv'
<1> SUFFICES ASSUME Inv, [Next]_vars PROVE Inv'
  OBVIOUS
<1>1. ASSUME NEW s \in Sessions, NEW r \in Requests, Begin(s, r) PROVE Inv'
  BY <1>1, BeginInv
<1>2. ASSUME NEW s \in Sessions, CheckKey(s) PROVE Inv'
  BY <1>2, CheckKeyInv
<1>3. ASSUME NEW s \in Sessions, AcquireLock(s) PROVE Inv'
  BY <1>3, AcquireLockInv
<1>4. ASSUME NEW s \in Sessions, ReadBalance(s) PROVE Inv'
  BY <1>4, ReadBalanceInv
<1>5. ASSUME NEW s \in Sessions, InsertCommit(s) PROVE Inv'
  BY <1>5, InsertInv
<1>6. ASSUME NEW s \in Sessions, Refuse(s) PROVE Inv'
  BY <1>6, EndInv DEF Refuse
<1>7. ASSUME NEW s \in Sessions, Crash(s) PROVE Inv'
  BY <1>7, EndInv DEF Crash
<1>8. CASE UNCHANGED vars
  <2>1. TypeOK' /\ Busy' /\ HoldsLock'
    BY <1>8 DEF Inv, TypeOK, Busy, HoldsLock, vars
  <2>2. QED
    BY <1>8, <2>1, QuietStep DEF Inv, vars
<1>9. QED
  BY <1>1, <1>2, <1>3, <1>4, <1>5, <1>6, <1>7, <1>8 DEF Next, Step

\* The inductive invariant holds in every reachable state.
THEOREM Invariance == Spec => []Inv
BY InitInv, NextInv, PTL DEF Spec

(* Type correctness for every instance: whatever the interleaving, crashes  *)
(* and retries, readBalanceLocked finds and insertEntry commits balances    *)
(* that are natural numbers.                                                *)
THEOREM TypeCorrect == Spec => []TypeOK
<1>1. Inv => TypeOK
  BY DEF Inv
<1>2. QED
  BY <1>1, Invariance, PTL

(* ledger_entries never holds an idempotency key twice, although the key is *)
(* looked up before pg_advisory_xact_lock is taken.                         *)
THEOREM OneEntryPerKey == Spec => []KeysUnique
<1>1. Inv => KeysUnique
  BY DEF Inv
<1>2. QED
  BY <1>1, Invariance, PTL

(* The advisory lock does its work: what readBalanceLocked returned is      *)
(* still the balance of the pair when insertEntry runs.                     *)
THEOREM FreshUnderLock == Spec => []SnapshotFresh
<1>1. Inv => SnapshotFresh
  BY DEF Inv
<1>2. QED
  BY <1>1, Invariance, PTL

-----------------------------------------------------------------------------
\* Refinement.  A row committed in created_at order is the newest of its pair,
\* so the balance it carries becomes the balance of the pair.
LEMMA NewestInOrder ==
  ASSUME Inv, NEW e \in Entry, entries' = Append(entries, e), InOrder',
         NEW b \in Balances, b = e.bal
  PROVE  BalanceOf(b)' = e.after
<1> DEFINE n == Len(entries)
<1>1. /\ entries \in Seq(Entry) /\ n \in Nat /\ DOMAIN entries = 1..n
      /\ DOMAIN entries' = 1..(n + 1)
      /\ \A i \in 1..n : entries'[i] = entries[i]
      /\ entries'[n + 1] = e
  BY DEF Inv, TypeOK
<1>2. \A i \in 1..n : entries[i] \in Entry
  BY <1>1, ElementOfSeq
<1>3. e.at \in Nat /\ \A i \in 1..n : entries[i].at \in Nat
  BY <1>2 DEF Entry
<1> HIDE DEF n
<1>4. n + 1 \in Rows(b)' /\ Rows(b)' \subseteq 1..(n + 1)
  BY <1>1 DEF Rows
<1>5. \A i \in Rows(b)' : i # n + 1 => entries'[i].at < e.at
  BY <1>1 DEF InOrder, Rows
<1>6. NewestRows(b)' = {n + 1}
  BY <1>1, <1>3, <1>4, <1>5 DEF NewestRows
<1>7. OneOf({n + 1}) = n + 1
  BY OneOfIn
<1>8. QED
  BY <1>1, <1>4, <1>6, <1>7 DEF BalanceOf

\* A row that is computed from the current balance of its pair, and committed
\* in order, is one atomic operation of the abstract ledger.
LEMMA RowApplies ==
  ASSUME Inv, NEW r \in Requests, NEW e \in Entry, NEW b \in Balances,
         b = r.bal, b = e.bal, e.key = r.key, e.after = After(r, BalanceOf(b)),
         r.key \notin UsedKeys, Covered(r, BalanceOf(b)),
         entries' = Append(entries, e), InOrder'
  PROVE  Abs!Apply(r)
<1> DEFINE n == Len(entries)
<1>1. /\ n \in Nat /\ DOMAIN entries = 1..n /\ DOMAIN entries' = 1..(n + 1)
      /\ \A i \in 1..n : entries'[i] = entries[i]
      /\ entries'[n + 1] = e
  BY DEF Inv, TypeOK
<1> HIDE DEF n
<1>2. UsedKeys' = UsedKeys \cup {r.key}
  BY <1>1 DEF UsedKeys
<1>3. BalanceOf(b)' = After(r, BalanceOf(b))
  BY NewestInOrder
<1>4. \A c \in Balances : c # b => BalanceOf(c)' = BalanceOf(c)
  BY OtherPairs DEF Inv
<1>5. /\ Abs!Covered(r, BalanceOf(b))
      /\ Abs!After(r, BalanceOf(b)) = After(r, BalanceOf(b))
  BY DEF Covered, After, AvailDelta, EscrowDelta, Abs!Covered, Abs!After,
         Abs!AvailDelta, Abs!EscrowDelta
<1>6. [c \in Balances |-> BalanceOf(c)]' =
         [[c \in Balances |-> BalanceOf(c)] EXCEPT ![b] = After(r, BalanceOf(b))]
  BY <1>3, <1>4
<1>7. QED
  BY <1>2, <1>5, <1>6 DEF Abs!Apply

\* A commit in order is one atomic operation of the abstract ledger.
LEMMA InsertApplies ==
  ASSUME Inv, NEW s \in Sessions, InsertCommit(s), InOrder'
  PROVE  Abs!Next
<1>1. PICK r \in Requests : r = req[s]
  BY NewEntryType
<1>2. PICK e \in Entry : e = NewEntry(s)
  BY NewEntryType
<1>3. PICK b \in Balances : b = r.bal
  BY ConstantsOK
<1>4. b = e.bal /\ e.key = r.key /\ entries' = Append(entries, e)
  BY <1>1, <1>2, <1>3, NewEntryType DEF InsertCommit
<1>5. snap[s] = BalanceOf(b)
  BY <1>1, <1>3 DEF Inv, SnapshotFresh, InsertCommit
<1>6. e.after = After(r, BalanceOf(b))
  BY <1>1, <1>2, <1>5 DEF NewEntry
<1>7. r.key \notin UsedKeys /\ Covered(r, BalanceOf(b))
  BY <1>1, <1>5 DEF InsertCommit, Accepted
<1>8. Abs!Apply(r)
  BY <1>3, <1>4, <1>6, <1>7, RowApplies
<1>9. QED
  BY <1>8 DEF Abs!Next

\* A step that commits nothing is not seen by the abstract ledger.
LEMMA QuietAbs == UNCHANGED entries => UNCHANGED Abs!vars
<1> SUFFICES ASSUME UNCHANGED entries PROVE UNCHANGED Abs!vars
  OBVIOUS
<1>1. [b \in Balances |-> BalanceOf(b)]' = [b \in Balances |-> BalanceOf(b)]
  BY BalanceOfUnchanged
<1>2. UsedKeys' = UsedKeys
  BY DEF UsedKeys
<1>3. QED
  BY <1>1, <1>2 DEF Abs!vars

(* The code refines the atomic Ledger on every behaviour that commits the   *)
(* rows of a pair in created_at order; the only thing missing for           *)
(* "serialises concurrent operations" is that order.                        *)
THEOREM ImplementsInOrder == Spec => ImplementsLedgerInOrder
<1>1. Init => Abs!Init
  <2> SUFFICES ASSUME Init PROVE Abs!Init
    OBVIOUS
  <2>1. UsedKeys = {} /\ \A b \in Balances : Rows(b) = {}
    BY DEF Init, UsedKeys, Rows
  <2>2. \A b \in Balances : BalanceOf(b) = ZeroBalance
    BY <2>1 DEF BalanceOf, ZeroBalance
  <2>3. QED
    BY <2>1, <2>2 DEF Abs!Init
<1>2. Inv /\ [Next]_vars => [InOrder' => Abs!Next]_(Abs!vars)
  <2> SUFFICES ASSUME Inv, [Next]_vars
               PROVE  (InOrder' => Abs!Next) \/ UNCHANGED Abs!vars
    OBVIOUS
  <2>1. ASSUME NEW s \in Sessions, InsertCommit(s)
        PROVE  InOrder' => Abs!Next
    BY <2>1, InsertApplies
  <2>2. ASSUME NEW s \in Sessions, ~InsertCommit(s),
               \/ \E r \in Requests : Begin(s, r)
               \/ Step(s)
               \/ Crash(s)
        PROVE  UNCHANGED entries
    BY <2>2 DEF Step, Begin, CheckKey, AcquireLock, ReadBalance, Refuse, Crash
  <2>3. CASE UNCHANGED vars
    BY <2>3, QuietAbs DEF vars
  <2>4. QED
    BY <2>1, <2>2, <2>3, QuietAbs DEF Next
<1>3. QED
  BY <1>1, <1>2, Invariance, PTL DEF Spec, ImplementsLedgerInOrder

=============================================================================
