---------------------------- MODULE DepositsProofs ----------------------------
(***************************************************************************)
(* Proofs about Addresses and Deposits for any exchangers, assets,         *)
(* payments, transactions, event ids, handlers, runs and faults, and any   *)
(* number of provisionings at once.  Their types always hold, and the      *)
(* addresses of an exchanger stay once no provisioning of it is under way. *)
(* Unless provisionings raced, exchangers with a reserved index never      *)
(* share an address, what the reconciliation worker crosses off is in the  *)
(* ledger, and what is in the ledger twice belongs to two accounts.        *)
(***************************************************************************)
EXTENDS Deposits, FiniteSetTheorems, TLAPS

AddrShape ==
  /\ address \in [Exchangers -> [Assets -> IndexOrNone]]
  /\ reserved \in [Exchangers -> IndexOrNone]
  /\ tasks \in [Onboarders -> [exch: Exchangers \cup {NoExchanger}, index: IndexOrNone,
                               at: {"idle", "index", "insert", "reserve"}, count: Nat]]

\* What a provisioning relies on: its exchanger has the addresses it has inserted
\* and no others, and its index is nobody's.
TaskOK(o) ==
  LET t == tasks[o]
  IN t.at # "idle" =>
       /\ t.exch \in Exchangers
       /\ t.at = "index" => t.count = 0
       /\ t.at = "insert" => t.count < Len(AssetList)
       /\ t.at = "reserve" => t.count = Len(AssetList)
       /\ t.at # "index" => t.index \in Nat /\ \A d \in Exchangers : reserved[d] # t.index
       /\ \A j \in DOMAIN AssetList :
             address[t.exch][AssetList[j]] = IF j <= t.count THEN t.index ELSE NoIndex

\* Who has a reserved index has all its addresses, and has it alone.
ReservedOK ==
  /\ \A e \in Exchangers : Reserved(e) => \A a \in Assets : address[e][a] = reserved[e]
  /\ \A d, e \in Exchangers : d # e /\ Reserved(d) => reserved[d] # reserved[e]

AddrInv == AddrShape /\ (\A o \in Onboarders : TaskOK(o)) /\ ReservedOK

-----------------------------------------------------------------------------
\* A finite set of numbers has a largest one: that with the fewest above it.
LEMMA MaxOfFinite ==
  ASSUME NEW S, S \subseteq Nat, IsFiniteSet(S), S # {}
  PROVE  Max(S) \in S /\ \A y \in S : Max(S) >= y
<1> DEFINE Above(x) == {y \in S : y > x}
           T == {Above(x) : x \in S}
<1>1. T \subseteq FiniteSubsetsOf(S) /\ T # {}
  <2>1. FiniteSubsetsOf(S) = SUBSET S
    BY FS_FiniteSubsetsOfFinite
  <2>2. T \subseteq SUBSET S /\ T # {}
    OBVIOUS
  <2> HIDE DEF T
  <2> QED
    BY <2>1, <2>2
<1>2. PICK U \in T : \A V \in T : <<V, U>> \notin StrictSubsetOrdering(S)
  <2> HIDE DEF T
  <2> QED
    BY <1>1, WFMin, FS_StrictSubsetOrderingWellFounded
<1>3. PICK x \in S : U = Above(x)
  OBVIOUS
<1>4. ASSUME NEW y \in S, ~(x >= y) PROVE FALSE
  <2>1. y \in Above(x) /\ y \notin Above(y)
    BY <1>4
  <2>2. Above(y) \subseteq Above(x)
    <3> SUFFICES ASSUME NEW z \in S, z > y PROVE z > x
      OBVIOUS
    <3>1. x \in Nat /\ y \in Nat /\ z \in Nat
      OBVIOUS
    <3> QED
      BY <1>4, <3>1
  <2>3. Above(y) # Above(x)
    BY <2>1
  <2>4. Above(y) \in SUBSET S /\ Above(x) \in SUBSET S
    OBVIOUS
  <2>5. <<Above(y), Above(x)>> \in StrictSubsetOrdering(S)
    <3> HIDE DEF Above
    <3> QED
      BY <2>2, <2>3, <2>4 DEF StrictSubsetOrdering
  <2>6. Above(y) \in T
    OBVIOUS
  <2> HIDE DEF Above, T
  <2> QED
    BY <1>2, <1>3, <2>5, <2>6
<1> QED
  BY <1>4 DEF Max

\* MAX(account_index) + 1 is a number no exchanger has.
LEMMA NextIndexIsFree ==
  ASSUME AddrShape
  PROVE  NextIndex \in Nat /\ \A d \in Exchangers : reserved[d] # NextIndex
<1> DEFINE D == {d \in Exchangers : Reserved(d)}
<1>1. Indexes \subseteq Nat
  BY DEF Indexes, Reserved, AddrShape, IndexOrNone
<1>2. IsFiniteSet(Indexes)
  <2> DEFINE f == [d \in D |-> reserved[d]]
  <2>1. IsFiniteSet(D)
    BY FS_Subset, AddressesOK
  <2>2. f \in Surjection(D, Indexes)
    BY DEF Surjection, Indexes
  <2> HIDE DEF f, D
  <2> QED
    BY <2>1, <2>2, FS_Surjection
<1>3. \A d \in Exchangers : reserved[d] \in Indexes \/ reserved[d] = NoIndex
  BY DEF Indexes, Reserved
<1>4. CASE Indexes = {}
  BY <1>3, <1>4, AddressesOK DEF NextIndex
<1>5. CASE Indexes # {}
  <2>1. Max(Indexes) \in Nat /\ \A y \in Indexes : Max(Indexes) >= y
    BY <1>1, <1>2, <1>5, MaxOfFinite
  <2>2. NextIndex = Max(Indexes) + 1
    BY <1>5 DEF NextIndex
  <2>3. NextIndex \in Nat /\ NextIndex \notin Indexes
    BY <1>1, <2>1, <2>2
  <2> QED
    BY <1>3, <2>3, AddressesOK
<1> QED
  BY <1>4, <1>5

-----------------------------------------------------------------------------
LEMMA OtherTaskOK ==
  ASSUME NEW q \in Onboarders, TaskOK(q), tasks'[q] = tasks[q], UNCHANGED <<address, reserved>>
  PROVE  TaskOK(q)'
BY DEF TaskOK

\* A provisioning ends; the others' exchangers and indexes are not touched.
LEMMA TaskEndsOK ==
  ASSUME AddrInv, NEW o \in Onboarders, TaskDone(o), UNCHANGED address,
         reserved' \in [Exchangers -> IndexOrNone], ReservedOK',
         \A q \in Onboarders \ {o} : InWindow(q) => UNCHANGED reserved
  PROVE  AddrInv'
<1>1. /\ NoTask.at = "idle"
      /\ NoTask \in [exch: Exchangers \cup {NoExchanger}, index: IndexOrNone,
                     at: {"idle", "index", "insert", "reserve"}, count: Nat]
  BY DEF NoTask, IndexOrNone
<1>2. tasks'[o] = NoTask /\ \A q \in Onboarders \ {o} : tasks'[q] = tasks[q]
  BY DEF TaskDone, AddrInv, AddrShape
<1>3. AddrShape'
  BY <1>1 DEF TaskDone, AddrInv, AddrShape
<1>4. TaskOK(o)'
  BY <1>1, <1>2 DEF TaskOK
<1>5. ASSUME NEW q \in Onboarders \ {o} PROVE TaskOK(q)'
  BY <1>2 DEF TaskOK, InWindow, AddrInv, AddrShape
<1> QED
  BY <1>3, <1>4, <1>5 DEF AddrInv

LEMMA ProvisionStep ==
  ASSUME AddrInv, NEW o \in Onboarders, NEW e \in Exchangers, Provision(o, e)
  PROVE  AddrInv' /\ UNCHANGED address
<1> DEFINE new == [NoTask EXCEPT !.exch = e, !.at = "index"]
<1>1. /\ new \in [exch: Exchangers \cup {NoExchanger}, index: IndexOrNone,
                  at: {"idle", "index", "insert", "reserve"}, count: Nat]
      /\ new.exch = e /\ new.at = "index" /\ new.count = 0
  BY DEF NoTask, IndexOrNone
<1>2. /\ tasks' = [tasks EXCEPT ![o] = new] /\ UNCHANGED <<address, reserved>>
      /\ \A a \in Assets : address[e][a] = NoIndex
  BY DEF Provision, Provisioned
<1> HIDE DEF new
<1>3. tasks'[o] = new /\ \A q \in Onboarders \ {o} : tasks'[q] = tasks[q]
  BY <1>2 DEF AddrInv, AddrShape
<1>4. AddrShape'
  BY <1>1, <1>2 DEF AddrInv, AddrShape
<1>5. \A j \in DOMAIN AssetList : AssetList[j] \in Assets /\ ~(j <= 0)
  BY AddressesOK DEF Assets
<1>6. TaskOK(o)'
  BY <1>1, <1>2, <1>3, <1>5 DEF TaskOK
<1>7. ReservedOK'
  BY <1>2 DEF AddrInv, ReservedOK, Reserved
<1>8. \A q \in Onboarders \ {o} : TaskOK(q)'
  BY <1>2, <1>3, OtherTaskOK DEF AddrInv
<1> QED
  BY <1>2, <1>4, <1>6, <1>7, <1>8 DEF AddrInv

LEMMA NextAccountIndexStep ==
  ASSUME AddrInv, NEW o \in Onboarders, NextAccountIndex(o)
  PROVE  AddrInv' /\ UNCHANGED address
<1> DEFINE n == NextIndex
<1>1. /\ tasks[o].at = "index" /\ tasks' = [tasks EXCEPT ![o].at = "insert", ![o].index = n]
      /\ UNCHANGED <<address, reserved>>
  BY DEF NextAccountIndex
<1>2. n \in Nat /\ \A d \in Exchangers : reserved[d] # n
  BY NextIndexIsFree DEF AddrInv
<1> HIDE DEF n
<1>3. /\ tasks'[o].at = "insert" /\ tasks'[o].index = n
      /\ tasks'[o].exch = tasks[o].exch /\ tasks'[o].count = tasks[o].count
      /\ AddrShape'
  <2>1. AddrShape /\ n \in IndexOrNone
    BY <1>2 DEF AddrInv, IndexOrNone
  <2> QED
    BY <1>1, <2>1 DEF AddrShape
<1>4. /\ tasks[o].exch \in Exchangers /\ tasks[o].count = 0
      /\ \A j \in DOMAIN AssetList :
            address[tasks[o].exch][AssetList[j]] = IF j <= tasks[o].count THEN tasks[o].index ELSE NoIndex
  BY <1>1 DEF AddrInv, TaskOK
<1>5. 0 < Len(AssetList) /\ \A j \in DOMAIN AssetList : ~(j <= 0)
  BY AddressesOK
<1>6. TaskOK(o)'
  BY <1>1, <1>2, <1>3, <1>4, <1>5 DEF TaskOK
<1>7. ReservedOK'
  BY <1>1 DEF AddrInv, ReservedOK, Reserved
<1>8. \A q \in Onboarders \ {o} : tasks'[q] = tasks[q]
  BY <1>1 DEF AddrInv, AddrShape
<1>9. \A q \in Onboarders \ {o} : TaskOK(q)'
  BY <1>1, <1>8, OtherTaskOK DEF AddrInv
<1> QED
  BY <1>1, <1>3, <1>6, <1>7, <1>9 DEF AddrInv

\* The address inserted next was not there before.
LEMMA InsertAddressStep ==
  ASSUME AddrInv, ~Racing, NEW o \in Onboarders, InsertAddress(o)
  PROVE  /\ AddrInv'
         /\ \A e \in Exchangers, a \in Assets : address[e][a] # NoIndex => address'[e][a] = address[e][a]
<1> DEFINE e == tasks[o].exch
           n == tasks[o].index
           k == tasks[o].count + 1
           to == IF k = Len(AssetList) THEN "reserve" ELSE "insert"
<1>1. /\ tasks[o].at = "insert" /\ UNCHANGED reserved
      /\ address' = [address EXCEPT ![e][AssetList[k]] = n]
      /\ tasks' = [tasks EXCEPT ![o].count = k, ![o].at = to]
  BY DEF InsertAddress
<1>2. /\ e \in Exchangers /\ n \in Nat /\ tasks[o].count < Len(AssetList)
      /\ \A d \in Exchangers : reserved[d] # n
      /\ \A j \in DOMAIN AssetList : address[e][AssetList[j]] = IF j <= tasks[o].count THEN n ELSE NoIndex
  BY <1>1 DEF AddrInv, TaskOK
<1>3. tasks[o].count \in Nat /\ n \in IndexOrNone
  BY <1>1 DEF AddrInv, AddrShape
<1>4. Len(AssetList) \in Nat /\ DOMAIN AssetList = 1..Len(AssetList)
  BY AddressesOK
<1>5. k \in DOMAIN AssetList /\ k \in Nat /\ AssetList[k] \in Assets
  BY <1>2, <1>3, <1>4 DEF Assets
<1>6. /\ tasks'[o].exch = e /\ tasks'[o].index = n /\ tasks'[o].count = k /\ tasks'[o].at = to
      /\ tasks' \in [Onboarders -> [exch: Exchangers \cup {NoExchanger}, index: IndexOrNone,
                                    at: {"idle", "index", "insert", "reserve"}, count: Nat]]
  <2>1. to \in {"insert", "reserve"}
    OBVIOUS
  <2> HIDE DEF to, k
  <2> QED
    BY <1>1, <1>5, <2>1 DEF AddrInv, AddrShape
<1>7. /\ address' \in [Exchangers -> [Assets -> IndexOrNone]]
      /\ address'[e][AssetList[k]] = n
      /\ \A d \in Exchangers, a \in Assets : d # e \/ a # AssetList[k] => address'[d][a] = address[d][a]
  <2> HIDE DEF e, n, k
  <2> QED
    BY <1>1, <1>2, <1>3, <1>5 DEF AddrInv, AddrShape
<1>8. address[e][AssetList[k]] = NoIndex
  BY <1>2, <1>3, <1>5
<1>9. AddrShape'
  BY <1>1, <1>6, <1>7 DEF AddrInv, AddrShape
<1>10. ASSUME NEW j \in DOMAIN AssetList
       PROVE  address'[e][AssetList[j]] = IF j <= k THEN n ELSE NoIndex
  <2>1. CASE j = k
    BY <1>5, <1>7, <2>1
  <2>2. CASE j # k
    <3>1. AssetList[j] # AssetList[k] /\ AssetList[j] \in Assets
      BY <1>5, <2>2, AddressesOK DEF Assets
    <3>2. address'[e][AssetList[j]] = address[e][AssetList[j]]
      BY <1>2, <1>7, <3>1
    <3>3. j <= k <=> j <= tasks[o].count
      BY <1>3, <1>4, <2>2
    <3> QED
      BY <1>2, <3>2, <3>3
  <2> QED
    BY <2>1, <2>2
<1>11. /\ to = "insert" => k < Len(AssetList)
       /\ to = "reserve" => k = Len(AssetList)
  BY <1>2, <1>3, <1>4
<1>12. TaskOK(o)'
  <2> HIDE DEF to, k
  <2> QED
    BY <1>1, <1>2, <1>6, <1>10, <1>11 DEF TaskOK, to
<1>13. ~Reserved(e)
  BY <1>2, <1>5, <1>8 DEF AddrInv, ReservedOK, Reserved
<1>14. ReservedOK'
  BY <1>1, <1>7, <1>13 DEF AddrInv, ReservedOK, Reserved
<1>15. ASSUME NEW q \in Onboarders \ {o} PROVE TaskOK(q)'
  <2>1. tasks'[q] = tasks[q] /\ TaskOK(q)
    BY <1>1 DEF AddrInv, AddrShape
  <2>2. CASE tasks[q].at = "idle"
    BY <2>1, <2>2 DEF TaskOK
  <2>3. CASE tasks[q].at # "idle"
    <3>1. tasks[q].exch # e
      BY <1>1, <2>3 DEF Racing, NoTaskIn, NoTask
    <3>2. tasks[q].exch \in Exchangers /\ \A j \in DOMAIN AssetList : AssetList[j] \in Assets
      BY <2>1, <2>3 DEF TaskOK, Assets
    <3>3. \A j \in DOMAIN AssetList : address'[tasks[q].exch][AssetList[j]] = address[tasks[q].exch][AssetList[j]]
      BY <1>7, <3>1, <3>2
    <3> QED
      BY <1>1, <2>1, <3>3 DEF TaskOK
  <2> QED
    BY <2>2, <2>3
<1>16. AddrInv'
  BY <1>9, <1>12, <1>14, <1>15 DEF AddrInv
<1> QED
  BY <1>7, <1>8, <1>16

LEMMA ReserveStep ==
  ASSUME AddrInv, ~Racing, NEW o \in Onboarders, ReserveAccountIndex(o)
  PROVE  AddrInv' /\ UNCHANGED address
<1> DEFINE e == tasks[o].exch
           n == tasks[o].index
<1>1. /\ tasks[o].at = "reserve" /\ TaskDone(o) /\ UNCHANGED address
      /\ reserved' = [reserved EXCEPT ![e] = IF Reserved(e) THEN reserved[e] ELSE n]
  BY DEF ReserveAccountIndex
<1>2. /\ e \in Exchangers /\ n \in Nat /\ tasks[o].count = Len(AssetList)
      /\ \A d \in Exchangers : reserved[d] # n
      /\ \A j \in DOMAIN AssetList : address[e][AssetList[j]] = IF j <= tasks[o].count THEN n ELSE NoIndex
  BY <1>1 DEF AddrInv, TaskOK
<1>3. \A a \in Assets : address[e][a] = n
  <2> SUFFICES ASSUME NEW j \in DOMAIN AssetList PROVE address[e][AssetList[j]] = n
    BY DEF Assets
  <2>1. j <= Len(AssetList)
    BY AddressesOK
  <2> QED
    BY <1>2, <2>1
<1>4. AssetList[1] \in Assets
  BY AddressesOK DEF Assets
<1>5. reserved[e] = NoIndex
  BY <1>2, <1>3, <1>4 DEF AddrInv, ReservedOK, Reserved
<1>6. reserved' = [reserved EXCEPT ![e] = n]
  BY <1>1, <1>5 DEF Reserved
<1>7. /\ reserved' \in [Exchangers -> IndexOrNone] /\ reserved'[e] = n
      /\ \A d \in Exchangers \ {e} : reserved'[d] = reserved[d]
  BY <1>2, <1>6 DEF AddrInv, AddrShape, IndexOrNone
<1>8. ReservedOK'
  BY <1>1, <1>2, <1>3, <1>7 DEF AddrInv, ReservedOK, Reserved
<1>9. \A q \in Onboarders \ {o} : ~InWindow(q)
  BY <1>1 DEF Racing, NoTaskIn, NoTask, InWindow
<1> QED
  BY <1>1, <1>7, <1>8, <1>9, TaskEndsOK

LEMMA AddrInvStep ==
  ASSUME AddrInv, ~Racing, AddrNext \/ UNCHANGED accountVars
  PROVE  /\ AddrInv'
         /\ \A e \in Exchangers, a \in Assets : address[e][a] # NoIndex => address'[e][a] = address[e][a]
<1>1. ASSUME UNCHANGED <<address, reserved, tasks>> PROVE AddrInv'
  BY <1>1 DEF AddrInv, AddrShape, TaskOK, ReservedOK, Reserved
<1>2. ASSUME NEW e \in Exchangers, VerifyExchanger(e) \/ BanExchanger(e) \/ ReactivateExchanger(e)
      PROVE  UNCHANGED <<address, reserved, tasks>>
  BY <1>2 DEF VerifyExchanger, BanExchanger, ReactivateExchanger, SetAccount
<1>3. ASSUME NEW o \in Onboarders, Interrupt(o) PROVE AddrInv' /\ UNCHANGED address
  <2>1. TaskDone(o) /\ UNCHANGED <<address, reserved>>
    BY <1>3 DEF Interrupt
  <2>2. ReservedOK' /\ reserved' \in [Exchangers -> IndexOrNone]
    BY <2>1 DEF AddrInv, AddrShape, ReservedOK, Reserved
  <2> QED
    BY <2>1, <2>2, TaskEndsOK
<1>4. CASE UNCHANGED accountVars
  BY <1>1, <1>4 DEF accountVars
<1>5. CASE AddrNext
  BY <1>1, <1>2, <1>3, <1>5, ProvisionStep, NextAccountIndexStep, InsertAddressStep, ReserveStep
     DEF AddrNext, AddrStep
<1> QED
  BY <1>4, <1>5

LEMMA InitAddr == AddrInit => AddrInv
<1> SUFFICES ASSUME AddrInit PROVE AddrInv
  OBVIOUS
<1>1. /\ NoTask.at = "idle"
      /\ NoTask \in [exch: Exchangers \cup {NoExchanger}, index: IndexOrNone,
                     at: {"idle", "index", "insert", "reserve"}, count: Nat]
  BY DEF NoTask, IndexOrNone
<1>2. AddrShape
  BY <1>1 DEF AddrInit, AddrShape, IndexOrNone
<1>3. \A o \in Onboarders : TaskOK(o)
  BY <1>1 DEF AddrInit, TaskOK
<1>4. ReservedOK
  BY DEF AddrInit, ReservedOK, Reserved
<1> QED
  BY <1>2, <1>3, <1>4 DEF AddrInv

LEMMA ApartByIndex == AddrInv => ReservedKeepApart
BY DEF AddrInv, ReservedOK, ReservedKeepApart, Reserved

\* As long as no provisionings race.
AddrApart == AddrInv /\ ~Racing
AddrInvOrRaced == raced \/ AddrApart

LEMMA ApartInit == AddrInit => AddrApart
BY InitAddr DEF AddrInit, AddrApart, Racing, NoTaskIn

\* What is not raced yet after a step was not before.
LEMMA ApartStep ==
  ASSUME AddrApart, ~raced', AddrNext \/ UNCHANGED accountVars
  PROVE  /\ AddrApart'
         /\ \A e \in Exchangers, a \in Assets : address[e][a] # NoIndex => address'[e][a] = address[e][a]
<1>1. /\ AddrInv'
      /\ \A e \in Exchangers, a \in Assets : address[e][a] # NoIndex => address'[e][a] = address[e][a]
  BY AddrInvStep DEF AddrApart
<1>2. CASE UNCHANGED accountVars
  BY <1>1, <1>2 DEF accountVars, AddrApart, Racing, NoTaskIn, InWindow
<1>3. CASE AddrNext
  BY <1>1, <1>3 DEF AddrNext, AddrApart
<1> QED
  BY <1>2, <1>3

LEMMA RacedStays == [AddrNext]_addrVars /\ raced => raced'
BY DEF AddrNext, addrVars, accountVars

\* Exchangers whose provisioning was completed share an address only if provisionings
\* raced: interruptions, repetitions and overlaps outside the window between index and
\* reservation do not make them (nextAccountIndex, provisionAddresses).
THEOREM SharedByRaceOnly == AddrSpec => []SharedOnlyIfRaced
<1>1. AddrInit => AddrInvOrRaced
  BY ApartInit DEF AddrInvOrRaced
<1>2. AddrInvOrRaced /\ [AddrNext]_addrVars => AddrInvOrRaced'
  BY ApartStep, RacedStays DEF AddrInvOrRaced, addrVars
<1>3. AddrInvOrRaced => SharedOnlyIfRaced
  BY ApartByIndex DEF AddrInvOrRaced, AddrApart, SharedOnlyIfRaced
<1> QED
  BY <1>1, <1>2, <1>3, PTL DEF AddrSpec

-----------------------------------------------------------------------------
(* Types, and addresses of exchangers no provisioning is under way of       *)

\* What a provisioning knows at each of its statements.
TaskTyped(o) ==
  LET t == tasks[o]
  IN t.at # "idle" => /\ t.exch \in Exchangers
                      /\ t.at = "index" => t.count = 0
                      /\ t.at = "insert" => t.index \in Nat /\ t.count < Len(AssetList)

CoreTypeOK ==
  /\ account \in [Exchangers -> {"none", "active", "banned"}]
  /\ address \in [Exchangers -> [Assets -> IndexOrNone]]
  /\ reserved \in [Exchangers -> IndexOrNone]
  /\ tasks \in [Onboarders -> [exch: Exchangers \cup {NoExchanger}, index: IndexOrNone,
                               at: {"idle", "index", "insert", "reserve"},
                               count: 0..Len(AssetList)]]

AddrTyped == CoreTypeOK /\ \A o \in Onboarders : TaskTyped(o)

LEMMA TypedShape == AddrTyped => AddrShape
<1>1. Len(AssetList) \in Nat
  BY AddressesOK
<1>2. 0..Len(AssetList) \subseteq Nat
  BY <1>1
<1> QED
  BY <1>2 DEF AddrTyped, CoreTypeOK, AddrShape

LEMMA TypesInit == AddrInit => AddrTyped
<1>1. 0 \in 0..Len(AssetList)
  BY AddressesOK
<1>2. NoTask.at = "idle"
  BY DEF NoTask
<1> QED
  BY <1>1, <1>2 DEF AddrInit, AddrTyped, CoreTypeOK, TaskTyped, NoTask, IndexOrNone

\* A statement of one provisioning.
LEMMA TaskChanges ==
  ASSUME AddrTyped, NEW o \in Onboarders, NEW t, tasks' = [tasks EXCEPT ![o] = t],
         t \in [exch: Exchangers \cup {NoExchanger}, index: IndexOrNone,
                at: {"idle", "index", "insert", "reserve"}, count: 0..Len(AssetList)],
         t.at # "idle" => /\ t.exch \in Exchangers
                          /\ t.at = "index" => t.count = 0
                          /\ t.at = "insert" => t.index \in Nat /\ t.count < Len(AssetList),
         account' \in [Exchangers -> {"none", "active", "banned"}],
         address' \in [Exchangers -> [Assets -> IndexOrNone]],
         reserved' \in [Exchangers -> IndexOrNone]
  PROVE  AddrTyped'
<1>1. tasks'[o] = t /\ \A q \in Onboarders \ {o} : tasks'[q] = tasks[q]
  BY DEF AddrTyped, CoreTypeOK
<1>2. CoreTypeOK'
  BY DEF AddrTyped, CoreTypeOK
<1>3. \A q \in Onboarders : TaskTyped(q)'
  BY <1>1 DEF AddrTyped, TaskTyped
<1> QED
  BY <1>2, <1>3 DEF AddrTyped

LEMMA TaskEnds ==
  ASSUME AddrTyped, NEW o \in Onboarders, TaskDone(o), UNCHANGED <<account, address>>,
         reserved' \in [Exchangers -> IndexOrNone]
  PROVE  AddrTyped'
<1>1. 0 \in 0..Len(AssetList)
  BY AddressesOK
<1>2. /\ NoTask.at = "idle"
      /\ NoTask \in [exch: Exchangers \cup {NoExchanger}, index: IndexOrNone,
                     at: {"idle", "index", "insert", "reserve"}, count: 0..Len(AssetList)]
  BY <1>1 DEF NoTask, IndexOrNone
<1> QED
  BY <1>2, TaskChanges DEF TaskDone, AddrTyped, CoreTypeOK

LEMMA TypesProvision ==
  ASSUME AddrTyped, NEW o \in Onboarders, NEW e \in Exchangers, Provision(o, e) PROVE AddrTyped'
<1> DEFINE t == [NoTask EXCEPT !.exch = e, !.at = "index"]
<1>1. 0 \in 0..Len(AssetList)
  BY AddressesOK
<1>2. /\ t \in [exch: Exchangers \cup {NoExchanger}, index: IndexOrNone,
                at: {"idle", "index", "insert", "reserve"}, count: 0..Len(AssetList)]
      /\ t.at = "index" /\ t.exch = e /\ t.count = 0
  BY <1>1 DEF NoTask, IndexOrNone
<1>3. tasks' = [tasks EXCEPT ![o] = t] /\ UNCHANGED <<account, address, reserved>>
  BY DEF Provision
<1> HIDE DEF t
<1> QED
  BY <1>2, <1>3, TaskChanges DEF AddrTyped, CoreTypeOK

LEMMA TypesNextIndex ==
  ASSUME AddrTyped, NEW o \in Onboarders, NextAccountIndex(o) PROVE AddrTyped'
<1> DEFINE t == [tasks[o] EXCEPT !.at = "insert", !.index = NextIndex]
<1>1. NextIndex \in Nat
  BY TypedShape, NextIndexIsFree
<1>2. Len(AssetList) \in Nat /\ 0 < Len(AssetList)
  BY AddressesOK
<1>3. /\ tasks[o].exch \in Exchangers /\ tasks[o].count = 0
      /\ tasks[o] \in [exch: Exchangers \cup {NoExchanger}, index: IndexOrNone,
                       at: {"idle", "index", "insert", "reserve"}, count: 0..Len(AssetList)]
  BY DEF NextAccountIndex, AddrTyped, CoreTypeOK, TaskTyped
<1>4. /\ t \in [exch: Exchangers \cup {NoExchanger}, index: IndexOrNone,
                at: {"idle", "index", "insert", "reserve"}, count: 0..Len(AssetList)]
      /\ t.at = "insert" /\ t.exch = tasks[o].exch /\ t.count = 0 /\ t.index = NextIndex
  BY <1>1, <1>3 DEF IndexOrNone
<1>5. tasks' = [tasks EXCEPT ![o] = t] /\ UNCHANGED <<account, address, reserved>>
  BY DEF NextAccountIndex
<1> HIDE DEF t
<1> QED
  BY <1>1, <1>2, <1>3, <1>4, <1>5, TaskChanges DEF AddrTyped, CoreTypeOK

LEMMA TypesInsert ==
  ASSUME AddrTyped, NEW o \in Onboarders, InsertAddress(o) PROVE AddrTyped'
<1> DEFINE k == tasks[o].count + 1
           n == Len(AssetList)
           t == [tasks[o] EXCEPT !.count = k, !.at = IF k = n THEN "reserve" ELSE "insert"]
<1>1. /\ tasks[o].exch \in Exchangers /\ tasks[o].index \in Nat /\ tasks[o].count < n
      /\ tasks[o] \in [exch: Exchangers \cup {NoExchanger}, index: IndexOrNone,
                       at: {"idle", "index", "insert", "reserve"}, count: 0..n]
  BY DEF InsertAddress, AddrTyped, CoreTypeOK, TaskTyped
<1>2. n \in Nat /\ k \in 0..n /\ (k # n => k < n) /\ k \in 1..n
  BY <1>1, AddressesOK
<1>3. /\ t \in [exch: Exchangers \cup {NoExchanger}, index: IndexOrNone,
                at: {"idle", "index", "insert", "reserve"}, count: 0..n]
      /\ t.exch = tasks[o].exch /\ t.count = k /\ t.index = tasks[o].index
      /\ t.at = IF k = n THEN "reserve" ELSE "insert"
  BY <1>1, <1>2
<1>4. /\ tasks' = [tasks EXCEPT ![o] = t] /\ UNCHANGED <<account, reserved>>
      /\ address' = [address EXCEPT ![tasks[o].exch][AssetList[k]] = tasks[o].index]
  BY DEF InsertAddress
<1>5. address' \in [Exchangers -> [Assets -> IndexOrNone]]
  BY <1>1, <1>4 DEF AddrTyped, CoreTypeOK, IndexOrNone
<1> HIDE DEF t, k, n
<1> QED
  BY <1>1, <1>2, <1>3, <1>4, <1>5, TaskChanges DEF AddrTyped, CoreTypeOK, n

LEMMA TypesReserve ==
  ASSUME AddrTyped, NEW o \in Onboarders, ReserveAccountIndex(o) PROVE AddrTyped'
<1>1. reserved' \in [Exchangers -> IndexOrNone]
  BY DEF ReserveAccountIndex, AddrTyped, CoreTypeOK
<1> QED
  BY <1>1, TaskEnds DEF ReserveAccountIndex

LEMMA TypesStep == AddrTyped /\ (AddrNext \/ UNCHANGED accountVars) => AddrTyped'
<1> SUFFICES ASSUME AddrTyped, AddrNext \/ UNCHANGED accountVars PROVE AddrTyped'
  OBVIOUS
<1>1. ASSUME NEW o \in Onboarders, Interrupt(o) PROVE AddrTyped'
  BY <1>1, TaskEnds DEF Interrupt, AddrTyped, CoreTypeOK
<1>2. ASSUME NEW e \in Exchangers, VerifyExchanger(e) \/ BanExchanger(e) \/ ReactivateExchanger(e)
      PROVE  AddrTyped'
  BY <1>2 DEF VerifyExchanger, BanExchanger, ReactivateExchanger, SetAccount, AddrTyped, CoreTypeOK,
              TaskTyped
<1>3. CASE UNCHANGED accountVars
  BY <1>3 DEF accountVars, AddrTyped, CoreTypeOK, TaskTyped
<1> QED
  BY <1>1, <1>2, <1>3, TypesProvision, TypesNextIndex, TypesInsert, TypesReserve DEF AddrNext, AddrStep

\* Faults are counted up to their bound; the history is a flag.
CountsTyped == faults \in 0..MaxFaults /\ raced \in BOOLEAN

LEMMA WorksTyped ==
  ASSUME faults \in 0..MaxFaults, NEW ok \in BOOLEAN, Works(ok) PROVE faults' \in 0..MaxFaults
BY AddressesOK DEF Works

LEMMA CountsStep == ASSUME CountsTyped, AddrNext PROVE CountsTyped'
<1>1. raced' \in BOOLEAN
  BY DEF AddrNext, CountsTyped
<1>2. ASSUME NEW o \in Onboarders, Interrupt(o) PROVE faults' \in 0..MaxFaults
  BY <1>2, WorksTyped DEF Interrupt, CountsTyped
<1>3. faults' \in 0..MaxFaults
  BY <1>2 DEF AddrNext, AddrStep, CountsTyped, Provision, NextAccountIndex, InsertAddress,
              ReserveAccountIndex, VerifyExchanger, BanExchanger, ReactivateExchanger, SetAccount
<1> QED
  BY <1>1, <1>3 DEF CountsTyped

-----------------------------------------------------------------------------
\* A provisioning inserts into the addresses of its own exchanger only, and none begins
\* for an exchanger that has an address.
LEMMA SettledStep ==
  ASSUME AddrTyped, AddrNext, NEW e \in Exchangers, Settled(e)
  PROVE  Settled(e)' /\ address'[e] = address[e]
<1>1. Provisioned(e) /\ \A o \in Onboarders : tasks[o].exch # e
  BY DEF Settled
<1>2. NoTask.exch # e
  BY AddressesOK DEF NoTask
<1>3. ASSUME NEW o \in Onboarders, NEW d \in Exchangers, Provision(o, d)
      PROVE  address'[e] = address[e] /\ \A q \in Onboarders : tasks'[q].exch # e
  <2> DEFINE new == [NoTask EXCEPT !.exch = d, !.at = "index"]
  <2>1. d # e /\ tasks' = [tasks EXCEPT ![o] = new] /\ UNCHANGED address
    BY <1>1, <1>3 DEF Provision
  <2>2. new.exch = d
    BY DEF NoTask
  <2> HIDE DEF new
  <2> QED
    BY <1>1, <2>1, <2>2 DEF AddrTyped, CoreTypeOK
<1>4. ASSUME NEW o \in Onboarders, NextAccountIndex(o)
      PROVE  address'[e] = address[e] /\ \A q \in Onboarders : tasks'[q].exch # e
  BY <1>1, <1>4 DEF NextAccountIndex, AddrTyped, CoreTypeOK
<1>5. ASSUME NEW o \in Onboarders, InsertAddress(o)
      PROVE  address'[e] = address[e] /\ \A q \in Onboarders : tasks'[q].exch # e
  <2>1. address'[e] = address[e]
    BY <1>1, <1>5 DEF InsertAddress, AddrTyped, CoreTypeOK
  <2>2. \A q \in Onboarders : tasks'[q].exch # e
    BY <1>1, <1>5 DEF InsertAddress, AddrTyped, CoreTypeOK
  <2> QED
    BY <2>1, <2>2
<1>6. ASSUME NEW o \in Onboarders, ReserveAccountIndex(o) \/ Interrupt(o)
      PROVE  address'[e] = address[e] /\ \A q \in Onboarders : tasks'[q].exch # e
  BY <1>1, <1>2, <1>6 DEF ReserveAccountIndex, Interrupt, TaskDone, AddrTyped, CoreTypeOK
<1>7. ASSUME NEW d \in Exchangers, VerifyExchanger(d) \/ BanExchanger(d) \/ ReactivateExchanger(d)
      PROVE  address'[e] = address[e] /\ \A q \in Onboarders : tasks'[q].exch # e
  BY <1>1, <1>7 DEF VerifyExchanger, BanExchanger, ReactivateExchanger, SetAccount
<1>8. address'[e] = address[e] /\ \A q \in Onboarders : tasks'[q].exch # e
  BY <1>3, <1>4, <1>5, <1>6, <1>7 DEF AddrNext, AddrStep
<1> QED
  BY <1>1, <1>8 DEF Settled, Provisioned

\* However provisionings overlapped, failed or were repeated: the addresses of an
\* exchanger stay once no provisioning of it is under way (provisionAddresses).
THEOREM SettledAddressesStay == AddrSpec => AddressesSettle
<1> DEFINE Stay == \A e \in Exchangers : Settled(e) => Settled(e)' /\ address'[e] = address[e]
<1>1. AddrSpec => []AddrTyped
  <2>1. AddrTyped /\ [AddrNext]_addrVars => AddrTyped'
    BY TypesStep DEF addrVars
  <2> QED
    BY <2>1, TypesInit, PTL DEF AddrSpec
<1>2. AddrTyped /\ [AddrNext]_addrVars => [Stay]_addrVars
  BY SettledStep
<1> HIDE DEF Stay
<1>3. AddrSpec => [][Stay]_addrVars
  BY <1>1, <1>2, PTL DEF AddrSpec
<1> QED
  BY <1>3 DEF AddressesSettle, Stay

-----------------------------------------------------------------------------
(* Deposits                                                                 *)

CallRecords == [pay: Payments \cup {NoPayment}, at: {"idle", "record", "find", "credit", "mark"},
                event: (Providers \X EventIds) \cup {<<"none", "none">>},
                conf: BOOLEAN, exch: Exchangers \cup {NoExchanger}]
Credits == [pay: Payments, exch: Exchangers, event: Providers \X EventIds]

DepShape == /\ paidTo \in [Payments -> (Assets \X IndexOrNone) \cup {NoAddress}]
            /\ events \in [Providers \X EventIds -> {"none", "new", "processed"}]
            /\ credits \subseteq Credits
            /\ calls \in [Slots -> CallRecords]
            /\ scans \in [Scanners -> [todo: SUBSET (Assets \X Nat), rows: SUBSET Payments]]

\* The payments of a page are on the chain.
PagesPaid == \A s \in Scanners : \A p \in scans[s].rows : Paid(p)

\* Some payment of the transaction is credited.
TxCredited(x) == \E c \in credits : Tx[c.pay] = x

\* What an address was paid for stays somebody's.
Held(p) == paidTo[p][2] # NoIndex /\ Holders(paidTo[p]) # {}
PaidToHolder == \A p \in Payments : Paid(p) => Held(p)

ReconcilesTx(c) == c.event[1] = "RECONCILIATION"

\* What processDeposit knows at each of its statements.
CallOK(h) ==
  LET c == calls[h]
  IN c.at # "idle" =>
       /\ c.pay \in Payments /\ Paid(c.pay) /\ c.event \in Providers \X EventIds
       /\ c.at = "credit" => c.exch \in Holders(paidTo[c.pay])
       /\ ReconcilesTx(c) => /\ c.event[2] = Tx[c.pay]
                             /\ c.at = "record" => c.conf
                             /\ c.at = "mark" => TxCredited(Tx[c.pay])

\* Every entry is for a holder of the address, and its key is its own.
CreditsOK ==
  /\ \A c \in credits : Paid(c.pay) /\ c.exch \in Holders(paidTo[c.pay])
  /\ \A c, d \in credits : DepositKey(c) = DepositKey(d) => c = d

\* A processed event of the worker's stands for an entry of its transaction.
ReconciledOK == \A x \in EventIds : Processed(<<"RECONCILIATION", x>>) => TxCredited(x)

DepInv == /\ DepShape
          /\ PagesPaid
          /\ PaidToHolder
          /\ \A h \in Slots : CallOK(h)
          /\ CreditsOK
          /\ ReconciledOK

\* It holds as long as no provisionings race.
Inv == AddrApart /\ DepInv

-----------------------------------------------------------------------------
\* An address that is paid keeps its holders, and may get others.
LEMMA HoldersStay ==
  ASSUME NEW adr \in Assets \X IndexOrNone, adr[2] # NoIndex,
         \A e \in Exchangers, a \in Assets : address[e][a] # NoIndex => address'[e][a] = address[e][a]
  PROVE  Holders(adr) \subseteq Holders(adr)'
<1>1. adr[1] \in Assets
  OBVIOUS
<1> QED
  BY <1>1 DEF Holders

\* Steps that leave the call of h alone.
LEMMA CallStays ==
  ASSUME DepInv, NEW h \in Slots, calls'[h] = calls[h],
         \A p \in Payments : Paid(p) => paidTo'[p] = paidTo[p] /\ Holders(paidTo[p]) \subseteq Holders(paidTo[p])',
         credits \subseteq credits'
  PROVE  CallOK(h)'
BY DEF DepInv, CallOK, Paid, TxCredited, ReconcilesTx

LEMMA ApartUnchanged == ASSUME AddrApart, UNCHANGED accountVars PROVE AddrApart'
<1>1. AddrInv'
  BY AddrInvStep DEF AddrApart
<1> QED
  BY <1>1 DEF accountVars, AddrApart, Racing, NoTaskIn, InWindow

\* Runs go on: what is left of a page is part of it.
ScansGo ==
  /\ scans' \in [Scanners -> [todo: SUBSET (Assets \X Nat), rows: SUBSET Payments]]
  /\ \A s \in Scanners : scans'[s].rows \subseteq scans[s].rows

LEMMA ScansStay == ASSUME DepShape, UNCHANGED scans PROVE ScansGo
BY DEF DepShape, ScansGo

\* Steps of a handler: calls and events, and perhaps an entry in the ledger.
LEMMA OneCall ==
  ASSUME Inv, NEW h \in Slots, calls' \in [Slots -> CallRecords],
         \A g \in Slots \ {h} : calls'[g] = calls[g], CallOK(h)',
         events' \in [Providers \X EventIds -> {"none", "new", "processed"}],
         credits \subseteq credits', credits' \subseteq Credits, CreditsOK', ReconciledOK',
         UNCHANGED <<accountVars, paidTo>>, ScansGo
  PROVE  Inv'
<1>1. AddrApart'
  BY ApartUnchanged DEF Inv
<1>2. UNCHANGED address
  BY DEF accountVars
<1>3. DepShape' /\ PagesPaid'
  BY DEF Inv, DepInv, DepShape, PagesPaid, ScansGo, Paid
<1>4. PaidToHolder'
  BY <1>2 DEF Inv, DepInv, PaidToHolder, Held, Paid, Holders
<1>5. \A p \in Payments : paidTo'[p] = paidTo[p] /\ Holders(paidTo[p])' = Holders(paidTo[p])
  BY <1>2 DEF Holders
<1>6. \A g \in Slots \ {h} : CallOK(g)'
  BY <1>5, CallStays DEF Inv
<1> QED
  BY <1>1, <1>3, <1>4, <1>6 DEF Inv, DepInv

LEMMA GotoEffect ==
  ASSUME DepShape, NEW h \in Slots, NEW at \in {"record", "find", "credit", "mark"}, Goto(h, at)
  PROVE  /\ calls' \in [Slots -> CallRecords]
         /\ \A g \in Slots \ {h} : calls'[g] = calls[g]
         /\ calls'[h].at = at /\ calls'[h].pay = calls[h].pay /\ calls'[h].event = calls[h].event
<1> DEFINE c == [calls[h] EXCEPT !.at = at]
<1>1. calls \in [Slots -> CallRecords]
  BY DEF DepShape
<1>2. c \in CallRecords /\ c.at = at /\ c.pay = calls[h].pay /\ c.event = calls[h].event
  BY <1>1 DEF CallRecords
<1>3. calls' = [calls EXCEPT ![h] = c]
  BY DEF Goto
<1> HIDE DEF c
<1> QED
  BY <1>1, <1>2, <1>3

LEMMA ConcludeEffect ==
  ASSUME DepShape, NEW h \in Slots, Conclude(h)
  PROVE  /\ calls' \in [Slots -> CallRecords]
         /\ \A g \in Slots \ {h} : calls'[g] = calls[g]
         /\ calls'[h].at = "mark" /\ calls'[h].pay = calls[h].pay /\ calls'[h].event = calls[h].event
<1> DEFINE c == [calls[h] EXCEPT !.at = "mark", !.conf = FALSE, !.exch = NoExchanger]
<1>1. calls \in [Slots -> CallRecords]
  BY DEF DepShape
<1>2. c \in CallRecords /\ c.at = "mark" /\ c.pay = calls[h].pay /\ c.event = calls[h].event
  BY <1>1 DEF CallRecords
<1>3. calls' = [calls EXCEPT ![h] = c]
  BY DEF Conclude, Enter
<1> HIDE DEF c
<1> QED
  BY <1>1, <1>2, <1>3

LEMMA FinishEffect ==
  ASSUME DepShape, NEW h \in Slots, Finish(h)
  PROVE  /\ calls' \in [Slots -> CallRecords]
         /\ \A g \in Slots \ {h} : calls'[g] = calls[g]
         /\ calls'[h].at = "idle"
<1>1. NoCall \in CallRecords /\ NoCall.at = "idle"
  BY DEF NoCall, CallRecords
<1> QED
  BY <1>1 DEF DepShape, Finish

LEMMA EnterEffect ==
  ASSUME DepShape, NEW h \in Slots, NEW p \in Payments, NEW ev \in Providers \X EventIds,
         NEW conf \in BOOLEAN, Enter(h, Call(p, ev, conf))
  PROVE  /\ calls' \in [Slots -> CallRecords]
         /\ \A g \in Slots \ {h} : calls'[g] = calls[g]
         /\ calls'[h].at = "record" /\ calls'[h].pay = p /\ calls'[h].event = ev /\ calls'[h].conf = conf
<1> DEFINE new == Call(p, ev, conf)
<1>1. /\ new \in CallRecords /\ new.at = "record" /\ new.pay = p /\ new.event = ev /\ new.conf = conf
  BY DEF Call, CallRecords
<1>2. calls' = [calls EXCEPT ![h] = new]
  BY DEF Enter
<1> HIDE DEF new
<1> QED
  BY <1>1, <1>2 DEF DepShape

-----------------------------------------------------------------------------
\* A call begins for a payment that is really paid.
LEMMA EnterStep ==
  ASSUME Inv, NEW h \in Slots, NEW p \in Payments, NEW ev \in Providers \X EventIds,
         NEW conf \in BOOLEAN, Enter(h, Call(p, ev, conf)), Paid(p),
         ev[1] = "RECONCILIATION" => ev[2] = Tx[p] /\ conf,
         UNCHANGED <<accountVars, paidTo, events, credits>>, ScansGo
  PROVE  Inv'
<1>1. /\ calls' \in [Slots -> CallRecords]
      /\ \A g \in Slots \ {h} : calls'[g] = calls[g]
      /\ calls'[h].at = "record" /\ calls'[h].pay = p /\ calls'[h].event = ev /\ calls'[h].conf = conf
  BY EnterEffect DEF Inv, DepInv
<1>2. CallOK(h)'
  BY <1>1 DEF CallOK, Paid, ReconcilesTx
<1>3. CreditsOK' /\ ReconciledOK'
  BY DEF Inv, DepInv, CreditsOK, ReconciledOK, Paid, Holders, Processed, TxCredited, DepositKey, accountVars
<1> QED
  BY <1>1, <1>2, <1>3, OneCall DEF Inv, DepInv, DepShape

LEMMA TxIsEventId == \A p \in Payments : Tx[p] \in EventIds /\ HookId[p] \in EventIds
BY DEF EventIds

LEMMA CallsStay ==
  ASSUME Inv, NEW h \in Slots, UNCHANGED <<accountVars, paidTo, events, credits, calls>>, ScansGo
  PROVE  Inv'
<1>1. CallOK(h)'
  BY CallStays DEF Inv, DepInv, accountVars, Holders
<1>2. CreditsOK' /\ ReconciledOK'
  BY DEF Inv, DepInv, CreditsOK, ReconciledOK, Paid, Holders, Processed, TxCredited, DepositKey, accountVars
<1> QED
  BY <1>1, <1>2, OneCall DEF Inv, DepInv, DepShape

LEMMA LookStep ==
  ASSUME Inv, NEW s \in Scanners, NEW p, NEW ok \in BOOLEAN, Look(s, p, ok) PROVE Inv'
<1> DEFINE ev == <<"RECONCILIATION", Tx[p]>>
<1>1. /\ p \in scans[s].rows /\ scans' = [scans EXCEPT ![s].rows = scans[s].rows \ {p}]
      /\ UNCHANGED calls \/ Enter(s, Call(p, ev, TRUE))
      /\ UNCHANGED <<accountVars, paidTo, events, credits>>
  BY DEF Look
<1>2. ScansGo
  BY <1>1 DEF Inv, DepInv, DepShape, ScansGo
<1>3. p \in Payments /\ Paid(p) /\ s \in Slots
  BY <1>1 DEF Inv, DepInv, DepShape, PagesPaid, Slots
<1>4. ev \in Providers \X EventIds /\ ev[1] = "RECONCILIATION" /\ ev[2] = Tx[p]
  BY <1>3, TxIsEventId DEF Providers
<1> HIDE DEF ev
<1>5. CASE Enter(s, Call(p, ev, TRUE))
  BY <1>1, <1>2, <1>3, <1>4, <1>5, EnterStep
<1>6. CASE UNCHANGED calls
  BY <1>1, <1>2, <1>3, <1>6, CallsStay
<1> QED
  BY <1>1, <1>5, <1>6

LEMMA DeliverStep ==
  ASSUME Inv, NEW h \in Handlers, NEW p \in Payments, NEW conf \in BOOLEAN, Deliver(h, p, conf)
  PROVE  Inv'
<1> DEFINE ev == <<"NOWNODES", HookId[p]>>
<1>1. /\ Paid(p) /\ Enter(h, Call(p, ev, conf))
      /\ UNCHANGED <<accountVars, paidTo, events, credits, scans>>
  BY DEF Deliver, addrVars
<1>2. ev \in Providers \X EventIds /\ ev[1] # "RECONCILIATION"
  BY TxIsEventId DEF Providers
<1>3. h \in Slots /\ ScansGo
  BY <1>1, ScansStay DEF Slots, Inv, DepInv
<1> HIDE DEF ev
<1> QED
  BY <1>1, <1>2, <1>3, EnterStep

LEMMA CallFacts ==
  ASSUME Inv, NEW h \in Slots, calls[h].at # "idle"
  PROVE  /\ calls[h].pay \in Payments /\ Paid(calls[h].pay) /\ calls[h].event \in Providers \X EventIds
         /\ calls[h].at = "credit" => calls[h].exch \in Holders(paidTo[calls[h].pay])
         /\ ReconcilesTx(calls[h]) =>
              /\ calls[h].event[2] = Tx[calls[h].pay]
              /\ calls[h].at = "record" => calls[h].conf
              /\ calls[h].at = "mark" => TxCredited(Tx[calls[h].pay])
BY DEF Inv, DepInv, CallOK

\* Nothing is processed and nothing entered: the ledger part holds as before.
LEMMA LedgerStays ==
  ASSUME Inv, UNCHANGED <<accountVars, paidTo, credits>>,
         \A ev \in Providers \X EventIds : Processed(ev)' => Processed(ev)
  PROVE  CreditsOK' /\ ReconciledOK'
<1>1. CreditsOK'
  BY DEF Inv, DepInv, CreditsOK, Paid, Holders, DepositKey, accountVars
<1>2. \A x \in EventIds : <<"RECONCILIATION", x>> \in Providers \X EventIds
  BY DEF Providers
<1>3. ReconciledOK'
  BY <1>2 DEF Inv, DepInv, ReconciledOK, TxCredited
<1> QED
  BY <1>1, <1>3

LEMMA RecordEventStep ==
  ASSUME Inv, NEW h \in Slots, RecordEvent(h) PROVE Inv'
<1> DEFINE ev == calls[h].event
           to == IF calls[h].conf THEN "find" ELSE "mark"
<1>1. /\ calls[h].at = "record" /\ IF calls[h].conf THEN Goto(h, "find") ELSE Conclude(h)
      /\ events' = [events EXCEPT ![ev] = IF events[ev] = "none" THEN "new" ELSE events[ev]]
      /\ UNCHANGED <<accountVars, paidTo, credits, scans>>
  BY DEF RecordEvent, addrVars
<1>2. to \in {"find", "mark"} /\ (calls[h].conf => to = "find")
  OBVIOUS
<1>g. (Goto(h, "find") /\ to = "find") \/ (Conclude(h) /\ to = "mark")
  <2>1. CASE calls[h].conf
    BY <1>1, <2>1
  <2>2. CASE ~calls[h].conf
    BY <1>1, <2>2
  <2> QED
    BY <2>1, <2>2
<1> HIDE DEF to
<1>3. /\ calls' \in [Slots -> CallRecords]
      /\ \A g \in Slots \ {h} : calls'[g] = calls[g]
      /\ calls'[h].at = to /\ calls'[h].pay = calls[h].pay /\ calls'[h].event = ev
  BY <1>g, GotoEffect, ConcludeEffect DEF Inv, DepInv
<1>4. CallOK(h)'
  BY <1>1, <1>2, <1>3, CallFacts DEF CallOK, Paid, ReconcilesTx
<1>5. /\ events' \in [Providers \X EventIds -> {"none", "new", "processed"}]
      /\ \A x \in Providers \X EventIds : Processed(x)' => Processed(x)
  BY <1>1 DEF Inv, DepInv, DepShape, Processed
<1> QED
  BY <1>1, <1>3, <1>4, <1>5, LedgerStays, ScansStay, OneCall DEF Inv, DepInv, DepShape

\* A paid address has a holder: the worker's payments are never taken for others'.
LEMMA FindStep ==
  ASSUME Inv, NEW h \in Slots, NEW e \in Exchangers \cup {NoExchanger}, FindExchanger(h, e)
  PROVE  Inv'
<1> DEFINE holders == Holders(paidTo[calls[h].pay])
<1>1. calls[h].at = "find" /\ UNCHANGED <<accountVars, paidTo, events, credits, scans>>
  BY DEF FindExchanger, addrVars
<1>2. holders # {}
  BY <1>1, CallFacts DEF Inv, DepInv, PaidToHolder, Held
<1>3. e \in holders /\ calls' = [calls EXCEPT ![h].at = "credit", ![h].exch = e]
  BY <1>2 DEF FindExchanger
<1>4. /\ calls' \in [Slots -> CallRecords]
      /\ \A g \in Slots \ {h} : calls'[g] = calls[g]
      /\ calls'[h].at = "credit" /\ calls'[h].pay = calls[h].pay /\ calls'[h].event = calls[h].event
      /\ calls'[h].conf = calls[h].conf /\ calls'[h].exch = e
  <2> HIDE DEF holders
  <2>1. calls \in [Slots -> CallRecords]
    BY DEF Inv, DepInv, DepShape
  <2>2. calls'[h] = [calls[h] EXCEPT !.at = "credit", !.exch = e]
    BY <1>3, <2>1
  <2>3. calls[h] \in CallRecords /\ \A g \in Slots \ {h} : calls'[g] = calls[g]
    BY <1>3, <2>1
  <2>4. /\ calls'[h] \in CallRecords
        /\ calls'[h].at = "credit" /\ calls'[h].pay = calls[h].pay /\ calls'[h].event = calls[h].event
        /\ calls'[h].conf = calls[h].conf /\ calls'[h].exch = e
    BY <2>2, <2>3 DEF CallRecords
  <2> QED
    BY <1>3, <2>1, <2>3, <2>4
<1>5. CallOK(h)'
  <2>1. /\ calls[h].pay \in Payments /\ Paid(calls[h].pay) /\ calls[h].event \in Providers \X EventIds
        /\ ReconcilesTx(calls[h]) => calls[h].event[2] = Tx[calls[h].pay]
    BY <1>1, CallFacts
  <2>2. UNCHANGED <<address, paidTo>>
    BY <1>1 DEF accountVars
  <2>3. e \in Holders(paidTo[calls[h].pay])
    BY <1>3
  <2> HIDE DEF holders
  <2>4. (calls[h].exch \in Holders(paidTo[calls[h].pay]))'
    BY <1>4, <2>2, <2>3 DEF Holders
  <2>5. ReconcilesTx(calls[h])' => calls'[h].event[2] = Tx[calls'[h].pay]
    BY <1>4, <2>1 DEF ReconcilesTx
  <2>6. Paid(calls[h].pay)'
    BY <1>4, <2>1, <2>2 DEF Paid
  <2> QED
    BY <1>4, <2>1, <2>4, <2>5, <2>6 DEF CallOK
<1>6. CreditsOK' /\ ReconciledOK'
  BY <1>1, LedgerStays DEF Processed
<1> QED
  BY <1>1, <1>4, <1>5, <1>6, ScansStay, OneCall DEF Inv, DepInv, DepShape

\* recordDeposit: an entry, or one that is there already under the same key.
LEMMA CreditStep ==
  ASSUME Inv, NEW h \in Slots, CreditDeposit(h) PROVE Inv'
<1> DEFINE c == calls[h]
           new == [pay |-> c.pay, exch |-> c.exch, event |-> c.event]
<1>1. /\ c.at = "credit" /\ Conclude(h) /\ credits' = WithCredit(c)
      /\ UNCHANGED <<accountVars, paidTo, events, scans>>
  BY DEF CreditDeposit, addrVars
<1>2. c.pay \in Payments /\ Paid(c.pay) /\ c.event \in Providers \X EventIds /\ c.exch \in Holders(paidTo[c.pay])
  BY <1>1, CallFacts
<1>3. c.exch \in Exchangers
  BY <1>2 DEF Holders
<1>4. /\ new \in Credits /\ new.pay = c.pay /\ new.exch = c.exch
      /\ DepositKey(new) = <<Tx[c.pay], PayAsset[c.pay], c.exch>>
  BY <1>2, <1>3 DEF Credits, DepositKey
<1>5. /\ credits \subseteq credits' /\ credits' \subseteq credits \cup {new}
      /\ IF \A old \in credits : DepositKey(old) # DepositKey(new) THEN new \in credits' ELSE credits' = credits
  <2> HIDE DEF new
  <2> QED
    BY <1>1 DEF WithCredit, new
<1> HIDE DEF new
<1>6. \E d \in credits' : Tx[d.pay] = Tx[c.pay]
  <2>1. CASE \A old \in credits : DepositKey(old) # DepositKey(new)
    BY <1>4, <1>5, <2>1
  <2>2. CASE \E old \in credits : DepositKey(old) = DepositKey(new)
    <3>1. PICK old \in credits : DepositKey(old) = DepositKey(new)
      BY <2>2
    <3>2. Tx[old.pay] = Tx[c.pay]
      BY <1>4, <3>1 DEF DepositKey
    <3> QED
      BY <1>5, <3>2
  <2> QED
    BY <2>1, <2>2
<1>7. CreditsOK'
  <2>1. \A d \in credits' : Paid(d.pay)' /\ d.exch \in Holders(paidTo[d.pay])'
    BY <1>1, <1>2, <1>4, <1>5 DEF Inv, DepInv, CreditsOK, Paid, Holders, accountVars
  <2>2. \A d, g \in credits' : DepositKey(d) = DepositKey(g) => d = g
    BY <1>5 DEF Inv, DepInv, CreditsOK
  <2> QED
    BY <2>1, <2>2 DEF CreditsOK, DepositKey
<1>8. ReconciledOK'
  BY <1>1, <1>5 DEF Inv, DepInv, ReconciledOK, Processed, TxCredited
<1>9. /\ calls' \in [Slots -> CallRecords]
      /\ \A g \in Slots \ {h} : calls'[g] = calls[g]
      /\ calls'[h].at = "mark" /\ calls'[h].pay = c.pay /\ calls'[h].event = c.event
  BY <1>1, ConcludeEffect DEF Inv, DepInv
<1>10. CallOK(h)'
  BY <1>1, <1>6, <1>9, CallFacts DEF CallOK, Paid, ReconcilesTx, TxCredited
<1>11. credits' \subseteq Credits
  BY <1>4, <1>5 DEF Inv, DepInv, DepShape
<1> QED
  BY <1>1, <1>5, <1>7, <1>8, <1>9, <1>10, <1>11, ScansStay, OneCall DEF Inv, DepInv, DepShape

\* The event that is marked is one of a payment that was credited just before.
LEMMA MarkStep ==
  ASSUME Inv, NEW h \in Slots, MarkProcessed(h) PROVE Inv'
<1> DEFINE ev == calls[h].event
<1>1. /\ calls[h].at = "mark" /\ Finish(h) /\ events' = [events EXCEPT ![ev] = "processed"]
      /\ UNCHANGED <<accountVars, paidTo, credits, scans>>
  BY DEF MarkProcessed, addrVars
<1>2. /\ ev \in Providers \X EventIds
      /\ ev[1] = "RECONCILIATION" => TxCredited(ev[2])
  BY <1>1, CallFacts DEF ReconcilesTx
<1> HIDE DEF ev
<1>3. events' \in [Providers \X EventIds -> {"none", "new", "processed"}]
  BY <1>1 DEF Inv, DepInv, DepShape
<1>4. ReconciledOK'
  <2> SUFFICES ASSUME NEW x \in EventIds, Processed(<<"RECONCILIATION", x>>)'
               PROVE  TxCredited(x)
    BY <1>1 DEF ReconciledOK, TxCredited
  <2>1. CASE ev = <<"RECONCILIATION", x>>
    BY <1>2, <2>1
  <2>2. CASE ev # <<"RECONCILIATION", x>>
    <3>1. Processed(<<"RECONCILIATION", x>>)
      BY <1>1, <2>2 DEF Processed, Inv, DepInv, DepShape, Providers
    <3> QED
      BY <3>1 DEF Inv, DepInv, ReconciledOK
  <2> QED
    BY <2>1, <2>2
<1>5. CreditsOK'
  BY <1>1 DEF Inv, DepInv, CreditsOK, Paid, Holders, DepositKey, accountVars
<1>6. /\ calls' \in [Slots -> CallRecords]
      /\ \A g \in Slots \ {h} : calls'[g] = calls[g]
      /\ calls'[h].at = "idle"
  BY <1>1, FinishEffect DEF Inv, DepInv
<1>7. CallOK(h)'
  BY <1>6 DEF CallOK
<1> QED
  BY <1>1, <1>3, <1>4, <1>5, <1>6, <1>7, ScansStay, OneCall DEF Inv, DepInv, DepShape

\* A call ends without having changed anything, and perhaps the run with it.
LEMMA EndsStep ==
  ASSUME Inv, NEW h \in Slots, Finish(h), UNCHANGED <<accountVars, paidTo, events, credits>>, ScansGo
  PROVE  Inv'
<1>1. /\ calls' \in [Slots -> CallRecords]
      /\ \A g \in Slots \ {h} : calls'[g] = calls[g]
      /\ calls'[h].at = "idle"
  BY FinishEffect DEF Inv, DepInv
<1>2. CallOK(h)'
  BY <1>1 DEF CallOK
<1>3. CreditsOK' /\ ReconciledOK'
  BY LedgerStays DEF Processed
<1> QED
  BY <1>1, <1>2, <1>3, OneCall DEF Inv, DepInv, DepShape

LEMMA FailStep ==
  ASSUME Inv, NEW h \in Slots, Fail(h) PROVE Inv'
BY ScansStay, EndsStep DEF Fail, Inv, DepInv

LEMMA AbandonStep ==
  ASSUME Inv, NEW s \in Scanners, Abandon(s) PROVE Inv'
<1>1. /\ Finish(s) /\ UNCHANGED <<accountVars, paidTo, events, credits>>
      /\ \E left \in {{}, scans[s].todo} : scans' = [scans EXCEPT ![s] = [todo |-> left, rows |-> {}]]
  BY DEF Abandon
<1>2. ScansGo
  BY <1>1 DEF Inv, DepInv, DepShape, ScansGo
<1> QED
  BY <1>1, <1>2, EndsStep DEF Slots

-----------------------------------------------------------------------------
\* Steps outside processDeposit: more is paid, and addresses stay.
LEMMA OutsideStep ==
  ASSUME Inv, AddrApart', UNCHANGED <<events, credits, calls>>,
         scans' \in [Scanners -> [todo: SUBSET (Assets \X Nat), rows: SUBSET Payments]],
         \A s \in Scanners : \A p \in scans'[s].rows : Paid(p),
         \A e \in Exchangers, a \in Assets : address[e][a] # NoIndex => address'[e][a] = address[e][a],
         paidTo' \in [Payments -> (Assets \X IndexOrNone) \cup {NoAddress}],
         \A p \in Payments : IF Paid(p) THEN paidTo'[p] = paidTo[p]
                             ELSE (Paid(p) => Held(p))'
  PROVE  Inv'
<1>1. \A p \in Payments : Paid(p) => paidTo[p] \in Assets \X IndexOrNone /\ paidTo[p][2] # NoIndex
  BY DEF Inv, DepInv, DepShape, PaidToHolder, Held, Paid
<1>2. \A p \in Payments : Paid(p) => Paid(p)' /\ Holders(paidTo[p]) \subseteq Holders(paidTo[p])'
  BY <1>1, HoldersStay DEF Paid
<1>3. PaidToHolder'
  <2> SUFFICES ASSUME NEW p \in Payments, Paid(p)' PROVE Held(p)'
    BY DEF PaidToHolder
  <2>1. CASE Paid(p)
    BY <1>1, <1>2, <2>1 DEF Inv, DepInv, PaidToHolder, Held
  <2>2. CASE ~Paid(p)
    BY <2>2
  <2> QED
    BY <2>1, <2>2
<1>4. \A h \in Slots : CallOK(h)'
  BY <1>2, CallStays DEF Inv
<1>5. CreditsOK'
  <2>1. \A c \in credits : c.pay \in Payments
    BY DEF Inv, DepInv, DepShape, Credits
  <2> QED
    BY <1>2, <2>1 DEF Inv, DepInv, CreditsOK, DepositKey, Paid
<1>6. ReconciledOK'
  BY DEF Inv, DepInv, ReconciledOK, Processed, TxCredited
<1>7. DepShape'
  BY DEF Inv, DepInv, DepShape
<1>8. PagesPaid'
  BY <1>2 DEF PagesPaid, DepShape
<1> QED
  BY <1>3, <1>4, <1>5, <1>6, <1>7, <1>8 DEF Inv, DepInv

LEMMA PayStep ==
  ASSUME Inv, NEW p \in Payments, Pay(p) PROVE Inv'
<1> DEFINE a == PayAsset[p]
           n == address[Payee[p]][a]
<1>1. /\ ~Paid(p) /\ n # NoIndex /\ paidTo' = [paidTo EXCEPT ![p] = <<a, n>>]
      /\ UNCHANGED <<accountVars, events, credits, calls, scans>>
  BY DEF Pay, addrVars
<1>2. a \in Assets /\ Payee[p] \in Exchangers /\ n \in IndexOrNone
  BY DepositsOK DEF Inv, AddrApart, AddrInv, AddrShape
<1>3. UNCHANGED address
  BY <1>1 DEF accountVars
<1>4. AddrApart'
  BY <1>1, ApartUnchanged DEF Inv
<1> HIDE DEF n, a
<1>5. /\ paidTo' \in [Payments -> (Assets \X IndexOrNone) \cup {NoAddress}]
      /\ paidTo'[p] = <<a, n>> /\ \A q \in Payments \ {p} : paidTo'[q] = paidTo[q]
  BY <1>1, <1>2 DEF Inv, DepInv, DepShape
<1>6. Payee[p] \in Holders(paidTo[p])'
  BY <1>2, <1>3, <1>5 DEF Holders, n, a
<1>7. ASSUME NEW q \in Payments
      PROVE  IF Paid(q) THEN paidTo'[q] = paidTo[q]
             ELSE (Paid(q) => Held(q))'
  <2>1. CASE q = p
    BY <1>1, <1>5, <1>6, <2>1 DEF Held
  <2>2. CASE q # p
    BY <1>5, <2>2 DEF Paid
  <2> QED
    BY <2>1, <2>2
<1> QED
  BY <1>1, <1>3, <1>4, <1>5, <1>7, OutsideStep DEF Inv, DepInv, DepShape, PagesPaid

LEMMA AddressesStep ==
  ASSUME Inv, AddrNext, ~raced', UNCHANGED depVars PROVE Inv'
<1>1. /\ AddrApart'
      /\ \A e \in Exchangers, a \in Assets : address[e][a] # NoIndex => address'[e][a] = address[e][a]
  BY ApartStep DEF Inv
<1> QED
  BY <1>1, OutsideStep DEF depVars, Inv, DepInv, DepShape, PagesPaid, Paid

\* Steps of the worker before it has a call, and steps nothing here depends on.
LEMMA ScansStep ==
  ASSUME Inv, UNCHANGED <<accountVars, paidTo, events, credits, calls>>,
         scans' \in [Scanners -> [todo: SUBSET (Assets \X Nat), rows: SUBSET Payments]],
         \A s \in Scanners : \A p \in scans'[s].rows : Paid(p)
  PROVE  Inv'
<1>1. AddrApart' /\ UNCHANGED address
  BY ApartUnchanged DEF Inv, accountVars
<1> QED
  BY <1>1, OutsideStep DEF Inv, DepInv, DepShape, Paid

\* A run goes through addresses that were provisioned, of assets it can scan.
LEMMA ActiveTyped ==
  ASSUME address \in [Exchangers -> [Assets -> IndexOrNone]]
  PROVE  ActiveAddresses \subseteq Assets \X Nat
<1> SUFFICES ASSUME NEW e \in Exchangers, NEW a \in Scanned, address[e][a] # NoIndex
             PROVE  <<a, address[e][a]>> \in Assets \X Nat
  BY DEF ActiveAddresses
<1>1. a \in Assets
  BY DepositsOK
<1> QED
  BY <1>1 DEF IndexOrNone

LEMMA StartRunStep == ASSUME Inv, NEW s \in Scanners, StartRun(s) PROVE Inv'
<1>1. /\ UNCHANGED <<accountVars, paidTo, events, credits, calls>>
      /\ scans' = [scans EXCEPT ![s].todo = ActiveAddresses]
  BY DEF StartRun, addrVars
<1>2. ActiveAddresses \subseteq Assets \X Nat
  BY ActiveTyped DEF Inv, AddrApart, AddrInv, AddrShape
<1>3. /\ scans' \in [Scanners -> [todo: SUBSET (Assets \X Nat), rows: SUBSET Payments]]
      /\ \A r \in Scanners : scans'[r].rows = scans[r].rows
  BY <1>1, <1>2 DEF Inv, DepInv, DepShape
<1> QED
  BY <1>1, <1>3, ScansStep DEF Inv, DepInv, PagesPaid

\* The payments of a page are those of an address, which is no payment's that is not made.
LEMMA FetchPageStep ==
  ASSUME Inv, NEW s \in Scanners, NEW adr, NEW ok \in BOOLEAN, FetchPage(s, adr, ok) PROVE Inv'
<1>1. PICK page \in Pages(adr) :
         scans' = [scans EXCEPT ![s] = [todo |-> scans[s].todo \ {adr}, rows |-> IF ok THEN page ELSE {}]]
  BY DEF FetchPage
<1>2. adr \in scans[s].todo /\ UNCHANGED <<accountVars, paidTo, events, credits, calls>>
  BY DEF FetchPage
<1>3. adr \in Assets \X Nat
  BY <1>2 DEF Inv, DepInv, DepShape
<1>4. adr # NoAddress
  BY <1>3, AddressesOK DEF NoAddress
<1>5. page \subseteq Payments /\ \A p \in page : Paid(p)
  BY <1>4 DEF Pages, History, Paid
<1>6. /\ scans' \in [Scanners -> [todo: SUBSET (Assets \X Nat), rows: SUBSET Payments]]
      /\ \A r \in Scanners : scans'[r].rows \subseteq scans[r].rows \cup page
  BY <1>1, <1>5 DEF Inv, DepInv, DepShape
<1> QED
  BY <1>2, <1>5, <1>6, ScansStep DEF Inv, DepInv, PagesPaid

LEMMA InvUnchanged ==
  ASSUME Inv, UNCHANGED <<accountVars, paidTo, events, credits, calls, scans>> PROVE Inv'
BY ScansStep DEF Inv, DepInv, DepShape, PagesPaid

LEMMA InvInit == Init => Inv
<1> SUFFICES ASSUME Init PROVE Inv
  OBVIOUS
<1>1. NoCall \in CallRecords /\ NoCall.at = "idle"
  BY DEF NoCall, CallRecords
<1>2. DepShape /\ PagesPaid
  BY <1>1 DEF Init, DepShape, PagesPaid, NoScan
<1>3. PaidToHolder /\ CreditsOK
  BY DEF Init, PaidToHolder, Paid, CreditsOK
<1>4. \A h \in Slots : CallOK(h)
  BY <1>1 DEF Init, CallOK
<1>5. \A x \in EventIds : <<"RECONCILIATION", x>> \in Providers \X EventIds
  BY DEF Providers
<1>6. ReconciledOK
  BY <1>5 DEF Init, ReconciledOK, Processed
<1>7. AddrApart
  BY ApartInit DEF Init
<1> QED
  BY <1>2, <1>3, <1>4, <1>6, <1>7 DEF Inv, DepInv

LEMMA InvNext == Inv /\ ~raced' /\ [Next]_vars => Inv'
<1> SUFFICES ASSUME Inv, ~raced', [Next]_vars PROVE Inv'
  OBVIOUS
<1>1. ASSUME NEW h \in Slots, Step(h) PROVE Inv'
  BY <1>1, RecordEventStep, FindStep, CreditStep, MarkStep DEF Step
<1>2. ASSUME NEW s \in Scanners, StartRun(s) \/ Abandon(s) PROVE Inv'
  BY <1>2, StartRunStep, AbandonStep
<1>3. ASSUME NEW p \in Payments, Pay(p) \/ Crowd(paidTo[p]) PROVE Inv'
  BY <1>3, PayStep, InvUnchanged DEF Crowd, addrVars
<1>4. CASE UNCHANGED vars
  BY <1>4, InvUnchanged DEF vars, addrVars, depVars
<1> QED
  BY <1>1, <1>2, <1>3, <1>4, AddressesStep, LookStep, FetchPageStep, DeliverStep, FailStep DEF Next

LEMMA DepositsRaced == [Next]_vars /\ raced => raced'
<1> SUFFICES ASSUME [Next]_vars, raced PROVE raced'
  OBVIOUS
<1>1. ASSUME NEW h \in Slots, Step(h) PROVE UNCHANGED accountVars
  BY <1>1 DEF Step, RecordEvent, FindExchanger, CreditDeposit, MarkProcessed, addrVars
<1>2. AddrNext \/ UNCHANGED accountVars
  BY <1>1 DEF Next, vars, addrVars, Pay, Crowd, Deliver, FetchPage, Look, StartRun, Abandon, Fail
<1> QED
  BY <1>2 DEF AddrNext, accountVars

InvOrRaced == raced \/ Inv

LEMMA InvHolds == Spec => []InvOrRaced
<1>1. Init => InvOrRaced
  BY InvInit DEF InvOrRaced
<1>2. InvOrRaced /\ [Next]_vars => InvOrRaced'
  BY InvNext, DepositsRaced DEF InvOrRaced
<1> QED
  BY <1>1, <1>2, PTL DEF Spec

\* What the worker crosses off is in the ledger, for a transaction of one payment,
\* unless provisionings raced (reconciliationWorker, processDeposit).
THEOREM ReconciledDeposits == Spec => []ReconciledIsCredited
<1>1. InvOrRaced => ReconciledIsCredited
  <2> SUFFICES ASSUME Inv, NEW p \in Payments, Alone(p), Processed(<<"RECONCILIATION", Tx[p]>>)
               PROVE  Credited(p)
    BY DEF ReconciledIsCredited, CrossedOff, InvOrRaced
  <2>1. PICK c \in credits : Tx[c.pay] = Tx[p]
    BY TxIsEventId DEF Inv, DepInv, ReconciledOK, TxCredited
  <2>2. c.pay \in Payments
    BY DEF Inv, DepInv, DepShape, Credits
  <2> QED
    BY <2>1, <2>2 DEF Alone, Credited
<1> QED
  BY <1>1, InvHolds, PTL

\* recordDeposit enters nothing under a key that is there, whatever provisionings do.
KeysOnce == \A c, d \in credits : DepositKey(c) = DepositKey(d) => c = d

LEMMA KeysOnceHolds == Spec => []KeysOnce
<1>1. ASSUME KeysOnce, NEW h \in Slots, CreditDeposit(h) PROVE KeysOnce'
  <2> DEFINE new == [pay |-> calls[h].pay, exch |-> calls[h].exch, event |-> calls[h].event]
  <2>1. credits' = credits \/ ((\A old \in credits : DepositKey(old) # DepositKey(new)) /\ credits' = credits \cup {new})
    <3> HIDE DEF new
    <3>1. credits' = WithCredit(calls[h])
      BY <1>1 DEF CreditDeposit
    <3> QED
      BY <3>1 DEF WithCredit, new
  <2> HIDE DEF new
  <2> QED
    BY <1>1, <2>1 DEF KeysOnce, DepositKey
<1>2. ASSUME NEW h \in Slots, Step(h), ~CreditDeposit(h) PROVE UNCHANGED credits
  BY <1>2 DEF Step, RecordEvent, FindExchanger, MarkProcessed
<1>3. ASSUME KeysOnce, [Next]_vars PROVE KeysOnce'
  <2>1. UNCHANGED credits \/ \E h \in Slots : CreditDeposit(h)
    BY <1>2, <1>3 DEF Next, vars, depVars, Pay, Crowd, Deliver, FetchPage, Look, StartRun, Abandon, Fail
  <2> QED
    BY <1>1, <1>3, <2>1 DEF KeysOnce, DepositKey
<1>4. Init => KeysOnce
  BY DEF Init, KeysOnce
<1> QED
  BY <1>3, <1>4, PTL DEF Spec

\* A payment that is in the ledger twice went to an address of two accounts, one of
\* which never completed its provisioning, unless provisionings raced; and those two
\* accounts are never the same one, raced or not (recordDeposit's idempotency key).
THEOREM CreditedTwice == Spec => []CreditedTwiceOnlyIfShared
<1>1. KeysOnce /\ InvOrRaced => CreditedTwiceOnlyIfShared
  <2> SUFFICES ASSUME KeysOnce, InvOrRaced, NEW c \in credits, NEW d \in credits, c # d, c.pay = d.pay
               PROVE  c.exch # d.exch /\ (raced \/ ~(Reserved(c.exch) /\ Reserved(d.exch)))
    BY DEF CreditedTwiceOnlyIfShared
  <2>1. DepositKey(c) # DepositKey(d)
    BY DEF KeysOnce
  <2>2. c.exch # d.exch
    BY <2>1 DEF DepositKey
  <2> SUFFICES ASSUME Inv PROVE ~(Reserved(c.exch) /\ Reserved(d.exch))
    BY <2>2 DEF InvOrRaced
  <2>3. c.pay \in Payments /\ c.exch \in Exchangers /\ d.exch \in Exchangers
    BY DEF Inv, DepInv, DepShape, Credits
  <2>4. /\ Paid(c.pay) /\ c.exch \in Holders(paidTo[c.pay]) /\ d.exch \in Holders(paidTo[c.pay])
    BY DEF Inv, DepInv, CreditsOK
  <2>5. paidTo[c.pay][1] \in Assets
    BY <2>3, <2>4 DEF Inv, DepInv, DepShape, Paid
  <2>6. ReservedKeepApart
    BY ApartByIndex DEF Inv, AddrApart
  <2> QED
    BY <2>2, <2>3, <2>4, <2>5, <2>6 DEF ReservedKeepApart, Holders
<1> QED
  BY <1>1, InvHolds, KeysOnceHolds, PTL

-----------------------------------------------------------------------------
(* Types of Deposits, with any number of provisionings at once              *)

TypedCall == [pay: Payments, event: Providers \X EventIds, conf: BOOLEAN,
              at: {"record", "find", "credit", "mark"}, exch: Exchangers \cup {NoExchanger}]

\* A call that credits has found an exchanger.
CallTyped(h) == \/ Idle(h)
                \/ calls[h] \in TypedCall /\ (calls[h].at = "credit" => calls[h].exch \in Exchangers)

RestTyped ==
  /\ paidTo \in [Payments -> (Assets \X IndexOrNone) \cup {NoAddress}]
  /\ events \in [Providers \X EventIds -> {"none", "new", "processed"}]
  /\ credits \subseteq Credits
  /\ scans \in [Scanners -> [todo: SUBSET (Assets \X Nat), rows: SUBSET Payments]]
  /\ CountsTyped

CallsTyped == /\ DOMAIN calls = Slots
              /\ \A h \in Slots : CallTyped(h)

DepTyped == AddrTyped /\ RestTyped /\ CallsTyped

LEMMA TypedInit == Init => DepTyped
<1>1. ASSUME Init PROVE AddrTyped
  BY <1>1, TypesInit DEF Init
<1>2. ASSUME Init PROVE RestTyped
  <2>1. paidTo \in [Payments -> (Assets \X IndexOrNone) \cup {NoAddress}]
    BY <1>2 DEF Init
  <2>2. events \in [Providers \X EventIds -> {"none", "new", "processed"}] /\ credits \subseteq Credits
    BY <1>2 DEF Init
  <2>3. scans \in [Scanners -> [todo: SUBSET (Assets \X Nat), rows: SUBSET Payments]]
    BY <1>2 DEF Init, NoScan
  <2>4. CountsTyped
    <3>1. faults = 0 /\ raced = FALSE
      BY <1>2 DEF Init, AddrInit
    <3>2. MaxFaults \in Nat
      BY AddressesOK
    <3>3. faults \in 0..MaxFaults
      BY <3>1, <3>2
    <3>4. raced \in BOOLEAN
      BY <3>1, Zenon
    <3> QED
      BY <3>3, <3>4 DEF CountsTyped
  <2> QED
    BY <2>1, <2>2, <2>3, <2>4 DEF RestTyped
<1>3. ASSUME Init PROVE CallsTyped
  <2>1. calls = [c \in Slots |-> NoCall]
    BY <1>3 DEF Init
  <2> QED
    BY <2>1 DEF CallsTyped, CallTyped, Idle
<1> QED
  BY <1>1, <1>2, <1>3 DEF DepTyped

\* One call changes, and is typed afterwards.
LEMMA CallChanges ==
  ASSUME CallsTyped, NEW h \in Slots, NEW c, calls' = [calls EXCEPT ![h] = c],
         c = NoCall \/ (c \in TypedCall /\ (c.at = "credit" => c.exch \in Exchangers))
  PROVE  CallsTyped'
<1>1. DOMAIN calls' = Slots /\ calls'[h] = c /\ \A g \in Slots \ {h} : calls'[g] = calls[g]
  BY DEF CallsTyped
<1>2. \A g \in Slots : CallTyped(g)'
  BY <1>1 DEF CallsTyped, CallTyped, Idle
<1> QED
  BY <1>1, <1>2 DEF CallsTyped

\* A call at one of its statements is typed.
LEMMA BusyCall ==
  ASSUME CallsTyped, NEW h \in Slots, calls[h].at \in {"record", "find", "credit", "mark"}
  PROVE  calls[h] \in TypedCall /\ (calls[h].at = "credit" => calls[h].exch \in Exchangers)
BY DEF CallsTyped, CallTyped, Idle, NoCall

LEMMA CallGoes ==
  ASSUME CallsTyped, NEW h \in Slots, calls[h].at \in {"record", "find", "credit", "mark"},
         NEW at \in {"find", "mark"}, Goto(h, at)
  PROVE  CallsTyped'
<1> DEFINE c == [calls[h] EXCEPT !.at = at]
<1>1. calls[h] \in TypedCall
  BY BusyCall
<1>2. c \in TypedCall /\ c.at = at
  BY <1>1 DEF TypedCall
<1>3. calls' = [calls EXCEPT ![h] = c]
  BY DEF Goto
<1> HIDE DEF c
<1> QED
  BY <1>2, <1>3, CallChanges

LEMMA CallConcludes ==
  ASSUME CallsTyped, NEW h \in Slots, calls[h].at \in {"record", "find", "credit", "mark"}, Conclude(h)
  PROVE  CallsTyped'
<1> DEFINE c == [calls[h] EXCEPT !.at = "mark", !.conf = FALSE, !.exch = NoExchanger]
<1>1. calls[h] \in TypedCall
  BY BusyCall
<1>2. c \in TypedCall /\ c.at = "mark"
  BY <1>1 DEF TypedCall
<1>3. calls' = [calls EXCEPT ![h] = c]
  BY DEF Conclude, Enter
<1> HIDE DEF c
<1> QED
  BY <1>2, <1>3, CallChanges

LEMMA CallFinishes ==
  ASSUME CallsTyped, NEW h \in Slots, Finish(h) PROVE CallsTyped'
BY CallChanges DEF Finish

LEMMA TypedEnter ==
  ASSUME CallsTyped, NEW h \in Slots, NEW p \in Payments, NEW pr \in Providers,
         NEW x \in EventIds, NEW conf \in BOOLEAN, Enter(h, Call(p, <<pr, x>>, conf))
  PROVE  CallsTyped'
<1>1. Call(p, <<pr, x>>, conf) \in TypedCall /\ Call(p, <<pr, x>>, conf).at = "record"
  BY DEF Call, TypedCall
<1> QED
  BY <1>1, CallChanges DEF Enter

LEMMA TypedStep == ASSUME DepTyped, NEW h \in Slots, Step(h) PROVE DepTyped'
<1>1. CASE RecordEvent(h)
  <2>1. calls[h].at = "record" /\ IF calls[h].conf THEN Goto(h, "find") ELSE Conclude(h)
    BY <1>1 DEF RecordEvent
  <2>2. CallsTyped'
    BY <2>1, CallGoes, CallConcludes DEF DepTyped
  <2>3. AddrTyped' /\ RestTyped'
    BY <1>1 DEF RecordEvent, addrVars, accountVars, DepTyped, AddrTyped, CoreTypeOK, TaskTyped, CountsTyped, RestTyped
  <2> QED
    BY <2>2, <2>3 DEF DepTyped
<1>2. ASSUME NEW e \in Exchangers \cup {NoExchanger}, FindExchanger(h, e) PROVE DepTyped'
  <2>1. calls[h].at = "find" /\ calls[h] \in TypedCall
    BY <1>2, BusyCall DEF FindExchanger, DepTyped
  <2>2. ASSUME Conclude(h) PROVE CallsTyped'
    BY <2>1, <2>2, CallConcludes DEF DepTyped
  <2>3. ASSUME ~Conclude(h) PROVE CallsTyped'
    <3> DEFINE c == [calls[h] EXCEPT !.at = "credit", !.exch = e]
    <3>1. e \in Exchangers /\ calls' = [calls EXCEPT ![h] = c]
      BY <1>2, <2>3 DEF FindExchanger, Holders
    <3>2. c \in TypedCall /\ c.exch = e
      BY <2>1, <3>1 DEF TypedCall
    <3> HIDE DEF c
    <3> QED
      BY <3>1, <3>2, CallChanges DEF DepTyped
  <2>4. AddrTyped' /\ RestTyped'
    BY <1>2 DEF FindExchanger, addrVars, accountVars, DepTyped, AddrTyped, CoreTypeOK, TaskTyped, CountsTyped, RestTyped
  <2>5. CallsTyped'
    BY <2>2, <2>3
  <2> QED
    BY <2>4, <2>5 DEF DepTyped
<1>3. CASE CreditDeposit(h)
  <2> DEFINE c == calls[h]
             new == [pay |-> c.pay, exch |-> c.exch, event |-> c.event]
  <2>1. c.at = "credit" /\ Conclude(h) /\ credits' = WithCredit(c)
        /\ UNCHANGED <<addrVars, paidTo, events, scans>>
    BY <1>3 DEF CreditDeposit
  <2>2. c \in TypedCall /\ c.exch \in Exchangers
    BY <2>1, BusyCall DEF DepTyped
  <2>3. new \in Credits
    BY <2>2 DEF TypedCall, Credits
  <2>4. credits' \subseteq credits \cup {new}
    BY <2>1 DEF WithCredit
  <2>5. CallsTyped'
    BY <2>1, CallConcludes DEF DepTyped
  <2> HIDE DEF new
  <2>6. AddrTyped' /\ RestTyped'
    BY <2>1, <2>3, <2>4 DEF addrVars, accountVars, DepTyped, AddrTyped, CoreTypeOK, TaskTyped, CountsTyped, RestTyped
  <2> QED
    BY <2>5, <2>6 DEF DepTyped
<1>4. CASE MarkProcessed(h)
  <2>1. CallsTyped'
    BY <1>4, CallFinishes DEF MarkProcessed, DepTyped
  <2>2. AddrTyped' /\ RestTyped'
    BY <1>4 DEF MarkProcessed, addrVars, accountVars, DepTyped, AddrTyped, CoreTypeOK, TaskTyped, CountsTyped, RestTyped
  <2> QED
    BY <2>1, <2>2 DEF DepTyped
<1> QED
  BY <1>1, <1>2, <1>3, <1>4 DEF Step

\* Steps of the worker and failures: provisionings go on as they are.
LEMMA RestSteps ==
  ASSUME DepTyped, UNCHANGED <<accountVars, paidTo, events, credits>>, CallsTyped', faults' \in 0..MaxFaults,
         scans' \in [Scanners -> [todo: SUBSET (Assets \X Nat), rows: SUBSET Payments]]
  PROVE  DepTyped'
<1>1. AddrTyped'
  BY TypesStep DEF DepTyped
<1> QED
  BY <1>1 DEF accountVars, DepTyped, RestTyped, CountsTyped

LEMMA CallsUnchanged == ASSUME CallsTyped, UNCHANGED calls PROVE CallsTyped'
BY DEF CallsTyped, CallTyped, Idle

LEMMA TypedRuns ==
  ASSUME DepTyped, NEW s \in Scanners,
         \/ StartRun(s) \/ Abandon(s)
         \/ \E adr \in scans[s].todo, ok \in BOOLEAN : FetchPage(s, adr, ok)
         \/ \E p \in scans[s].rows, ok \in BOOLEAN : Look(s, p, ok)
  PROVE  DepTyped'
<1> DEFINE Runs == [Scanners -> [todo: SUBSET (Assets \X Nat), rows: SUBSET Payments]]
<1>0. /\ s \in Slots /\ scans \in Runs /\ CallsTyped /\ CountsTyped
      /\ address \in [Exchangers -> [Assets -> IndexOrNone]]
  BY DEF Slots, DepTyped, RestTyped, AddrTyped, CoreTypeOK
<1>1. CASE StartRun(s)
  <2>1. UNCHANGED <<accountVars, paidTo, events, credits, calls, faults>>
    BY <1>1 DEF StartRun, addrVars
  <2>2. scans' \in Runs
    BY <1>0, <1>1, ActiveTyped DEF StartRun
  <2> QED
    BY <1>0, <2>1, <2>2, CallsUnchanged, RestSteps DEF CountsTyped
<1>2. CASE Abandon(s)
  <2>1. UNCHANGED <<accountVars, paidTo, events, credits>> /\ Finish(s) /\ Works(FALSE)
    BY <1>2 DEF Abandon
  <2>2. scans' \in Runs
    BY <1>0, <1>2 DEF Abandon
  <2> QED
    BY <1>0, <2>1, <2>2, CallFinishes, WorksTyped, RestSteps DEF CountsTyped
<1>3. ASSUME NEW adr \in scans[s].todo, NEW ok \in BOOLEAN, FetchPage(s, adr, ok) PROVE DepTyped'
  <2>1. UNCHANGED <<accountVars, paidTo, events, credits, calls>> /\ Works(ok)
    BY <1>3 DEF FetchPage
  <2>2. \A page \in Pages(adr) : page \subseteq Payments
    BY DEF Pages, History
  <2>3. scans' \in Runs
    BY <1>0, <1>3, <2>2 DEF FetchPage
  <2> QED
    BY <1>0, <2>1, <2>3, CallsUnchanged, WorksTyped, RestSteps DEF CountsTyped
<1>4. ASSUME NEW p \in scans[s].rows, NEW ok \in BOOLEAN, Look(s, p, ok) PROVE DepTyped'
  <2>1. /\ UNCHANGED <<accountVars, paidTo, events, credits>> /\ Works(ok)
        /\ UNCHANGED calls \/ Enter(s, Call(p, <<"RECONCILIATION", Tx[p]>>, TRUE))
        /\ scans' = [scans EXCEPT ![s].rows = scans[s].rows \ {p}]
    BY <1>4 DEF Look
  <2>2. scans' \in Runs
    BY <1>0, <2>1
  <2>3. p \in Payments
    BY <1>0
  <2>4. CallsTyped'
    BY <1>0, <2>1, <2>3, CallsUnchanged, TypedEnter, TxIsEventId DEF Providers
  <2> QED
    BY <1>0, <2>1, <2>2, <2>4, WorksTyped, RestSteps DEF CountsTyped
<1> QED
  BY <1>1, <1>2, <1>3, <1>4

LEMMA TypedNext == DepTyped /\ [Next]_vars => DepTyped'
<1> SUFFICES ASSUME DepTyped, [Next]_vars PROVE DepTyped'
  OBVIOUS
<1>1. CASE AddrNext /\ UNCHANGED depVars
  <2>1. AddrTyped' /\ CountsTyped'
    BY <1>1, TypesStep, CountsStep DEF DepTyped, RestTyped
  <2> QED
    BY <1>1, <2>1, CallsUnchanged DEF depVars, DepTyped, RestTyped
<1>2. ASSUME NEW p \in Payments, Pay(p) PROVE DepTyped'
  <2> DEFINE adr == <<PayAsset[p], address[Payee[p]][PayAsset[p]]>>
  <2>1. adr \in Assets \X IndexOrNone
    BY DepositsOK DEF DepTyped, AddrTyped, CoreTypeOK
  <2>2. /\ paidTo' = [paidTo EXCEPT ![p] = adr]
        /\ UNCHANGED <<accountVars, events, credits, calls, scans, faults>>
    BY <1>2 DEF Pay, addrVars
  <2> HIDE DEF adr
  <2>3. AddrTyped' /\ CallsTyped'
    BY <2>2, TypesStep, CallsUnchanged DEF DepTyped
  <2> QED
    BY <2>1, <2>2, <2>3 DEF accountVars, DepTyped, RestTyped, CountsTyped
<1>3. ASSUME NEW h \in Handlers, NEW p \in Payments, NEW conf \in BOOLEAN, Deliver(h, p, conf)
      PROVE  DepTyped'
  <2>1. CallsTyped'
    BY <1>3, TypedEnter, TxIsEventId DEF Deliver, Providers, DepTyped, Slots
  <2>2. UNCHANGED <<accountVars, paidTo, events, credits, scans, faults>>
    BY <1>3 DEF Deliver, addrVars
  <2> QED
    BY <2>1, <2>2, RestSteps DEF DepTyped, RestTyped, CountsTyped
<1>4. ASSUME NEW c \in Slots, Fail(c) PROVE DepTyped'
  <2>1. CallsTyped' /\ faults' \in 0..MaxFaults
    BY <1>4, CallFinishes, WorksTyped DEF Fail, DepTyped, RestTyped, CountsTyped
  <2>2. UNCHANGED <<accountVars, paidTo, events, credits, scans>>
    BY <1>4 DEF Fail
  <2> QED
    BY <2>1, <2>2, RestSteps DEF DepTyped, RestTyped
<1>5. ASSUME NEW p \in Payments, Crowd(paidTo[p]) PROVE DepTyped'
  <2>1. UNCHANGED <<accountVars, paidTo, events, credits, calls, scans, faults>>
    BY <1>5 DEF Crowd, addrVars
  <2> QED
    BY <2>1, CallsUnchanged, RestSteps DEF DepTyped, RestTyped, CountsTyped
<1>6. CASE UNCHANGED vars
  <2>1. UNCHANGED <<accountVars, paidTo, events, credits, calls, scans, faults>>
    BY <1>6 DEF vars, addrVars, depVars
  <2> QED
    BY <2>1, CallsUnchanged, RestSteps DEF DepTyped, RestTyped, CountsTyped
<1> QED
  BY <1>1, <1>2, <1>3, <1>4, <1>5, <1>6, TypedStep, TypedRuns DEF Next

\* Provisionings, payments, deliveries and the worker leave every variable in its
\* type, also when two provisionings run at once: no index is inserted for an
\* asset that is not there, and no entry is made without an exchanger.
THEOREM DepositsTypeCorrect == Spec => []DepositsTypeOK
<1>1. DepTyped => DepositsTypeOK
  BY DEF DepTyped, AddrTyped, CoreTypeOK, AddrTypeOK, RestTyped, CountsTyped, Credits, CallsTyped, CallTyped,
         TypedCall, DepositsTypeOK
<1>2. Spec => []DepTyped
  BY TypedInit, TypedNext, PTL DEF Spec
<1> QED
  BY <1>1, <1>2, PTL

=============================================================================
