------------------------------- MODULE Settings -------------------------------
(***************************************************************************)
(* bot_settings and the cache in front of it, for one setting, the         *)
(* MAINTENANCE_MODE that trade forms look at.  A reader who finds the      *)
(* cache expired loads the table; a writer upserts the row and then writes *)
(* the cache in place.  Readers and writers interleave at their queries.   *)
(***************************************************************************)
EXTENDS Integers, Sequences, FiniteSets

CONSTANTS Loads,       \* bound: loads of the cache under way at once
          Writers,     \* bound: updates under way at once
          MaxUpdates   \* bound: updates altogether

ASSUME SettingsOK == MaxUpdates \in Nat

VARIABLES stored,      \* the row of bot_settings
          cached,      \* cache[key]; no entry reads as FALSE
          fresh,       \* the cache has not expired
          loads,       \* what each load under way has read, as a singleton
          writes,      \* the value of each committed update under way, likewise
          updates      \* updates so far

setVars == <<stored, cached, fresh, loads, writes, updates>>

Nothing == {}

SetInit == /\ stored \in BOOLEAN
           /\ cached = FALSE
           /\ fresh = FALSE
           /\ loads = [l \in Loads |-> Nothing]
           /\ writes = [w \in Writers |-> Nothing]
           /\ updates = 0

\* Between the query of loadCache and its answer.
StartLoad(l) == /\ ~fresh
                /\ loads[l] = Nothing
                /\ loads' = [loads EXCEPT ![l] = {stored}]
                /\ UNCHANGED <<stored, cached, fresh, writes, updates>>

\* Mutant: what is in the cache is kept.
MergeLoad(l) == /\ loads[l] # Nothing
                /\ fresh' = TRUE
                /\ loads' = [loads EXCEPT ![l] = Nothing]
                /\ UNCHANGED <<stored, cached, writes, updates>>

FinishLoad(l) == /\ loads[l] # Nothing
                 /\ cached' = (TRUE \in loads[l])
                 /\ fresh' = TRUE
                 /\ loads' = [loads EXCEPT ![l] = Nothing]
                 /\ UNCHANGED <<stored, writes, updates>>

LoadFails(l) == /\ loads[l] # Nothing
                /\ loads' = [loads EXCEPT ![l] = Nothing]
                /\ UNCHANGED <<stored, cached, fresh, writes, updates>>

\* Sixty seconds after a load.
CacheExpires == /\ fresh
                /\ fresh' = FALSE
                /\ UNCHANGED <<stored, cached, loads, writes, updates>>

SetSetting(w, value) == /\ writes[w] = Nothing
                        /\ updates < MaxUpdates
                        /\ stored' = value
                        /\ writes' = [writes EXCEPT ![w] = {value}]
                        /\ updates' = updates + 1
                        /\ UNCHANGED <<cached, fresh, loads>>

UpdateCache(w) == /\ writes[w] # Nothing
                  /\ cached' = (TRUE \in writes[w])
                  /\ writes' = [writes EXCEPT ![w] = Nothing]
                  /\ UNCHANGED <<stored, fresh, loads, updates>>

\* The upsert committed, but its answer was lost.
UpdateUnanswered(w) == /\ writes[w] # Nothing
                       /\ writes' = [writes EXCEPT ![w] = Nothing]
                       /\ UNCHANGED <<stored, cached, fresh, loads, updates>>

\* What a restart leaves of it.
SettingsRestart == /\ cached' = FALSE
                   /\ fresh' = FALSE
                   /\ loads' = [l \in Loads |-> Nothing]
                   /\ writes' = [w \in Writers |-> Nothing]
                   /\ UNCHANGED <<stored, updates>>

SetNext == \/ \E l \in Loads : StartLoad(l) \/ FinishLoad(l) \/ LoadFails(l)
           \/ CacheExpires
           \/ \E w \in Writers : \/ \E value \in BOOLEAN : SetSetting(w, value)
                                 \/ UpdateCache(w) \/ UpdateUnanswered(w)

-----------------------------------------------------------------------------
SetTypeOK == /\ stored \in BOOLEAN /\ cached \in BOOLEAN /\ fresh \in BOOLEAN
             /\ loads \in [Loads -> {{}, {TRUE}, {FALSE}}]
             /\ writes \in [Writers -> {{}, {TRUE}, {FALSE}}]
             /\ updates \in 0..MaxUpdates

(* "Cache is immediately consistent" (settingsService) it is not: a load    *)
(* that began before an update and ends after it, or an answer that was     *)
(* lost, leaves an old value in it.  But not for ever, and also not when    *)
(* the process restarts time and again: what stays stored is what is read   *)
(* from the cache in the end.  (Two updates that finish in the other order  *)
(* need two Writers; the run of Consent has one, and one update.)           *)
SettingsSettle == \A b \in BOOLEAN : <>[](stored = b) => <>[](fresh => cached = b)
=============================================================================
