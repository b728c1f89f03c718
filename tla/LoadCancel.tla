----------------------------- MODULE LoadCancel -----------------------------
(***************************************************************************)
(* The registry that cancels pending model loads, LoadCancelRegistry of    *)
(* src/src/runtime/shared/load-cancel.ts.  Pending loads of one key share  *)
(* an entry (an AbortController and a holder count) until it is aborted.   *)
(* An entry is named after the load whose register created it.             *)
(***************************************************************************)
EXTENDS Integers, FiniteSets

CONSTANTS Loads, Keys, KeyOf, NoEntry

ASSUME LoadAssumption ==
  IsFiniteSet(Loads) /\ KeyOf \in [Loads -> Keys] /\ NoEntry \notin Loads

VARIABLES
  loads,    \* [Keys -> Loads \cup {NoEntry}] the map: the entry of each key
  aborted,  \* entries whose controller was aborted
  holders,  \* [Loads -> Int] holder count of each entry
  held,     \* [Loads -> Loads \cup {NoEntry}] the entry each load's handle closes over
  state,    \* [Loads -> {"idle", "pending", "released"}]
  hit       \* history: loads that were pending when their key was cancelled

registryVars == <<loads, aborted, holders, held, state, hit>>

(* Every variable has its type: the map, the entries and the handles.      *)
RegistryTypeOK ==
  /\ loads \in [Keys -> Loads \cup {NoEntry}] /\ aborted \subseteq Loads
  /\ holders \in [Loads -> Int] /\ held \in [Loads -> Loads \cup {NoEntry}]
  /\ state \in [Loads -> {"idle", "pending", "released"}] /\ hit \subseteq Loads

RegistryInit ==
  /\ loads = [k \in Keys |-> NoEntry] /\ aborted = {} /\ hit = {}
  /\ holders = [l \in Loads |-> 0] /\ held = [l \in Loads |-> NoEntry]
  /\ state = [l \in Loads |-> "idle"]

(* Mutant: a new load joins a cancelled entry. *)
JoinsAny(k) == loads[k] # NoEntry

(* Whether a new load joins the key's entry. *)
Joins(k) == loads[k] # NoEntry /\ loads[k] \notin aborted

(* register(key) *)
Register(l) ==
  LET k == KeyOf[l]
      e == IF Joins(k) THEN loads[k] ELSE l
  IN
  /\ state[l] = "idle"
  /\ loads' = [loads EXCEPT ![k] = e]
  /\ holders' = [holders EXCEPT ![e] = @ + 1]
  /\ held' = [held EXCEPT ![l] = e]
  /\ state' = [state EXCEPT ![l] = "pending"]
  /\ UNCHANGED <<aborted, hit>>

(* Mutant: the last release leaves the entry in the map. *)
UnmapsNever(k, e) == FALSE

(* The handle's release(); a second call returns at once.  An entry that   *)
(* a newer one replaced in the map is not removed from it.                 *)
Unmaps(k, e) == holders[e] = 1 /\ loads[k] = e

Release(l) ==
  LET k == KeyOf[l]
      e == held[l]
  IN
  /\ state[l] = "pending"
  /\ state' = [state EXCEPT ![l] = "released"]
  /\ holders' = [holders EXCEPT ![e] = @ - 1]
  /\ loads' = IF Unmaps(k, e) THEN [loads EXCEPT ![k] = NoEntry] ELSE loads
  /\ UNCHANGED <<aborted, held, hit>>

(* Mutant: cancel does not look whether there is an entry. *)
CancelBlind(k) ==
  /\ aborted' = aborted \cup {loads[k]}
  /\ hit' = hit \cup {l \in Loads : state[l] = "pending" /\ KeyOf[l] = k}
  /\ UNCHANGED <<loads, holders, held, state>>

(* cancel(key); `false` when the map has no entry. *)
Cancel(k) ==
  /\ aborted' = IF loads[k] = NoEntry THEN aborted ELSE aborted \cup {loads[k]}
  /\ hit' = hit \cup {l \in Loads : state[l] = "pending" /\ KeyOf[l] = k}
  /\ UNCHANGED <<loads, holders, held, state>>

RegistryNext ==
  \/ \E l \in Loads : Register(l) \/ Release(l)
  \/ \E k \in Keys : Cancel(k)

RegistrySpec == RegistryInit /\ [][RegistryNext]_registryVars

-----------------------------------------------------------------------------
(* The two guarantees of the registry in one: a pending load's signal is   *)
(* aborted exactly when its key was cancelled while it was pending.  So    *)
(* one cancel reaches every load waiting on the key, no release of a       *)
(* finished load cuts a newer one off from it, and no load inherits a      *)
(* cancel from before it registered (load-cancel.ts, register and release).*)
SignalExact ==
  \A l \in Loads : state[l] = "pending" => (held[l] \in aborted <=> l \in hit)

(* No entry outlives its holders: cancel answers true only while a load    *)
(* that holds the entry is still pending (the release in register).        *)
EntryInUse ==
  \A k \in Keys : loads[k] # NoEntry =>
    \E l \in Loads : state[l] = "pending" /\ held[l] = loads[k] /\ KeyOf[l] = k
=============================================================================
