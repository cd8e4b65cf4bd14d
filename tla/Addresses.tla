------------------------------ MODULE Addresses ------------------------------
(***************************************************************************)
(* Exchanger accounts and their deposit addresses: verifyExchanger,        *)
(* provisionAddresses, the ban and the reactivation of an account.         *)
(*                                                                         *)
(* An account index gives one address per asset (deriveAllAddresses), and  *)
(* different indexes give different addresses, so an address is an asset   *)
(* and an index.  provisionAddresses runs outside any transaction: every   *)
(* statement commits on its own, and an error or a restart between two of  *)
(* them leaves the rest undone.                                            *)
(***************************************************************************)
EXTENDS Integers, Sequences, FiniteSets, FiniteSetsExt

CONSTANTS Exchangers,
          AssetList,    \* the assets, in the order deriveAllAddresses gives them
          Onboarders,   \* bound: provisionings running at once
          Bannable,     \* bound: the accounts that are ever banned
          MaxFaults,    \* bound: errors and restarts
          NoExchanger, NoIndex

Assets == {AssetList[k] : k \in DOMAIN AssetList}

ASSUME AddressesOK ==
  /\ IsFiniteSet(Exchangers)
  /\ AssetList \in Seq(STRING) /\ AssetList # <<>>
  /\ \A j, k \in DOMAIN AssetList : AssetList[j] = AssetList[k] => j = k
  /\ NoExchanger \notin Exchangers
  /\ NoIndex \notin Nat
  /\ MaxFaults \in Nat

VARIABLES account,     \* exchangers: no row, active or banned
          address,     \* deposit_addresses: the index each address was derived from
          reserved,    \* exchanger_account_seq
          tasks,       \* the provisioning in each slot
          faults,      \* errors and restarts so far
          raced        \* history, read by the properties only: whether two ever raced

accountVars == <<account, address, reserved, tasks, raced>>
addrVars == <<accountVars, faults>>

NoTask == [exch |-> NoExchanger, at |-> "idle", index |-> NoIndex, count |-> 0]
NoTaskIn(o) == tasks[o] = NoTask

AddrInit == /\ account = [e \in Exchangers |-> "none"]
            /\ address = [e \in Exchangers |-> [a \in Assets |-> NoIndex]]
            /\ reserved = [e \in Exchangers |-> NoIndex]
            /\ tasks = [o \in Onboarders |-> NoTask]
            /\ faults = 0
            /\ raced = FALSE

Provisioned(e) == \E a \in Assets : address[e][a] # NoIndex
Reserved(e) == reserved[e] # NoIndex
Holders(adr) == {e \in Exchangers : address[e][adr[1]] = adr[2]}

Works(ok) == /\ ok \/ faults < MaxFaults
             /\ faults' = IF ok THEN faults ELSE faults + 1

TaskDone(o) == tasks' = [tasks EXCEPT ![o] = NoTask]

\* The transaction of verifyExchanger; it makes a known account active again.
\* What follows it, unless the process stops first, is Provision.
VerifyExchanger(e) == /\ account' = [account EXCEPT ![e] = "active"]
                      /\ UNCHANGED <<address, reserved, tasks, faults>>

\* Mutant: a provisioned exchanger is given addresses again.
ProvisionAgain(o, e) ==
  /\ NoTaskIn(o)
  /\ account[e] # "none"
  /\ tasks' = [tasks EXCEPT ![o] = [NoTask EXCEPT !.exch = e, !.at = "index"]]
  /\ UNCHANGED <<account, address, reserved, faults>>

\* The read at the head of provisionAddresses, called after a verification or by
\* the dashboard's button: any address at all counts as provisioned.
Provision(o, e) ==
  /\ NoTaskIn(o)
  /\ account[e] # "none"
  /\ ~Provisioned(e)
  /\ tasks' = [tasks EXCEPT ![o] = [NoTask EXCEPT !.exch = e, !.at = "index"]]
  /\ UNCHANGED <<account, address, reserved, faults>>

Indexes == {reserved[e] : e \in {d \in Exchangers : Reserved(d)}}

\* Mutant: the largest index is handed out again.
LargestIndex == IF Indexes = {} THEN 0 ELSE Max(Indexes)

NextIndex == IF Indexes = {} THEN 0 ELSE Max(Indexes) + 1

NextAccountIndex(o) ==
  /\ tasks[o].at = "index"
  /\ tasks' = [tasks EXCEPT ![o].at = "insert", ![o].index = NextIndex]
  /\ UNCHANGED <<account, address, reserved, faults>>

\* INSERT ... ON CONFLICT (exchanger_id, asset) DO UPDATE: an address there is replaced.
InsertAddress(o) ==
  LET k == tasks[o].count + 1
  IN /\ tasks[o].at = "insert"
     /\ address' = [address EXCEPT ![tasks[o].exch][AssetList[k]] = tasks[o].index]
     /\ tasks' = [tasks EXCEPT ![o].count = k,
                               ![o].at = IF k = Len(AssetList) THEN "reserve" ELSE "insert"]
     /\ UNCHANGED <<account, reserved, faults>>

ReserveAccountIndex(o) ==
  LET e == tasks[o].exch
  IN /\ tasks[o].at = "reserve"
     /\ reserved' = [reserved EXCEPT ![e] = IF Reserved(e) THEN @ ELSE tasks[o].index]
     /\ TaskDone(o)
     /\ UNCHANGED <<account, address, faults>>

\* An error, or a restart of the process.
Interrupt(o) == /\ ~NoTaskIn(o)
                /\ Works(FALSE)
                /\ TaskDone(o)
                /\ UNCHANGED <<account, address, reserved>>

SetAccount(e, to) == /\ account[e] # "none"
                     /\ account' = [account EXCEPT ![e] = to]
                     /\ UNCHANGED <<address, reserved, tasks, faults>>
BanExchanger(e) == e \in Bannable /\ SetAccount(e, "banned")
ReactivateExchanger(e) == SetAccount(e, "active")

AddrStep == \/ \E o \in Onboarders, e \in Exchangers : Provision(o, e)
            \/ \E o \in Onboarders : \/ NextAccountIndex(o)
                                     \/ InsertAddress(o) \/ ReserveAccountIndex(o)
                                     \/ Interrupt(o)
            \/ \E e \in Exchangers : VerifyExchanger(e) \/ BanExchanger(e) \/ ReactivateExchanger(e)

\* From reading the next index to reserving it.
InWindow(o) == tasks[o].at \in {"insert", "reserve"}
\* Two provisionings race that are of one exchanger, or both in that window.
Racing == \E o, q \in Onboarders :
            /\ o # q /\ ~NoTaskIn(o) /\ ~NoTaskIn(q)
            /\ tasks[o].exch = tasks[q].exch \/ (InWindow(o) /\ InWindow(q))

AddrNext == AddrStep /\ raced' = (raced \/ Racing')

AddrSpec == AddrInit /\ [][AddrNext]_addrVars

-----------------------------------------------------------------------------
IndexOrNone == Nat \cup {NoIndex}

AddrTypeOK ==
  /\ account \in [Exchangers -> {"none", "active", "banned"}]
  /\ address \in [Exchangers -> [Assets -> IndexOrNone]]
  /\ reserved \in [Exchangers -> IndexOrNone]
  /\ tasks \in [Onboarders -> [exch: Exchangers \cup {NoExchanger}, index: IndexOrNone,
                               at: {"idle", "index", "insert", "reserve"},
                               count: 0..Len(AssetList)]]
  /\ faults \in 0..MaxFaults /\ raced \in BOOLEAN

(* "Two concurrent verifications cannot race and produce the same index"    *)
(* (addressService.ts): exchangers whose provisioning was completed never   *)
(* share an address.                                                        *)
ReservedKeepApart ==
  \A d, e \in Exchangers : d # e /\ Reserved(d) /\ Reserved(e)
                              => \A a \in Assets : address[d][a] # address[e][a]

(* They do race.  But only that makes two of them share an address: two     *)
(* provisionings of one exchanger at once, or two that are both between     *)
(* reading the index and reserving it.  Interruptions and repetitions alone *)
(* do not, nor do provisionings that overlap outside of that window.        *)
SharedOnlyIfRaced == raced \/ ReservedKeepApart

(* "Idempotent" (addressService.ts): once no provisioning of an exchanger   *)
(* is under way, the addresses that depositors are shown stay for good,     *)
(* however its provisionings overlapped or were cut short.  (While several  *)
(* are, they replace one another's.)                                        *)
Settled(e) == Provisioned(e) /\ \A o \in Onboarders : tasks[o].exch # e
AddressesSettle ==
  [][\A e \in Exchangers : Settled(e) => Settled(e)' /\ address'[e] = address[e]]_addrVars
=============================================================================
