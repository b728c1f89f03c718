--------------------------- MODULE RegistryProofs ---------------------------
(***************************************************************************)
(* Proofs about the core's two registries of running work.  LoadCancel,    *)
(* the pending loads, for any finite set of loads and any keys.            *)
(* ProcessJournal, the backend processes, for any pids, cores, children,   *)
(* writes and failures.  The modules share no state: each theorem speaks   *)
(* of the specification of one.                                            *)
(***************************************************************************)
EXTENDS LoadCancel, ProcessJournal, FiniteSetTheorems, TLAPS

(* The pending loads whose handle closes over entry e. *)
Hold(st, hd, e) == {l \in Loads : st[l] = "pending" /\ hd[l] = e}

(* What register and release maintain: the counter counts the holders, an  *)
(* entry in the map has some, and every holder of an entry that was not    *)
(* aborted finds it in the map.                                            *)
Counted == \A e \in Loads : holders[e] = Cardinality(Hold(state, held, e))

Linked ==
  /\ \A l \in Loads : state[l] = "pending" =>
       /\ held[l] \in Loads /\ KeyOf[held[l]] = KeyOf[l] /\ state[held[l]] # "idle"
       /\ held[l] \notin aborted => loads[KeyOf[l]] = held[l]
  /\ \A k \in Keys : loads[k] # NoEntry =>
       /\ KeyOf[loads[k]] = k /\ state[loads[k]] # "idle" /\ Hold(state, held, loads[k]) # {}
  /\ \A l \in aborted \cup hit : state[l] # "idle"

RegInv == RegistryTypeOK /\ Counted /\ Linked /\ SignalExact

LEMMA HoldersFinite ==
  ASSUME NEW st, NEW hd, NEW e
  PROVE  IsFiniteSet(Hold(st, hd, e)) /\ Cardinality(Hold(st, hd, e)) \in Nat
<1>1. Hold(st, hd, e) \subseteq Loads BY DEF Hold
<1> QED BY <1>1, LoadAssumption, FS_Subset, FS_CardinalityType

LEMMA RegInit == RegistryInit => RegInv
<1> SUFFICES ASSUME RegistryInit PROVE RegInv OBVIOUS
<1>1. \A e \in Loads : Hold(state, held, e) = {} BY DEF RegistryInit, Hold
<1>2. Counted BY <1>1, FS_EmptySet DEF RegistryInit, Counted
<1> QED BY <1>2 DEF RegistryInit, RegInv, RegistryTypeOK, Linked, SignalExact

(* register adds one holder to the entry it joins or creates. *)
LEMMA RegisterKeeps == ASSUME RegInv, NEW l \in Loads, Register(l) PROVE RegInv'
<1> DEFINE k == KeyOf[l]
           e == IF Joins(k) THEN loads[k] ELSE l
<1> USE LoadAssumption DEF RegInv, RegistryTypeOK
<1>1. /\ state[l] = "idle" /\ loads' = [loads EXCEPT ![k] = e]
      /\ holders' = [holders EXCEPT ![e] = @ + 1] /\ held' = [held EXCEPT ![l] = e]
      /\ state' = [state EXCEPT ![l] = "pending"] /\ aborted' = aborted /\ hit' = hit
  BY DEF Register
<1>2. k \in Keys /\ e \in Loads /\ KeyOf[e] = k /\ e \notin aborted BY <1>1 DEF Joins, Linked
<1>3. state'[e] # "idle" BY <1>1, <1>2 DEF Joins, Linked
<1> HIDE DEF e, k
<1>4. RegistryTypeOK' BY <1>1, <1>2
<1>5. \A x \in Loads : x # l => state'[x] = state[x] /\ held'[x] = held[x] BY <1>1
<1>6. state'[l] = "pending" /\ held'[l] = e BY <1>1, <1>2
<1>7. Hold(state', held', e) = Hold(state, held, e) \cup {l} /\ l \notin Hold(state, held, e)
  BY <1>1, <1>5, <1>6 DEF Hold
<1>8. \A x \in Loads : x # e => Hold(state', held', x) = Hold(state, held, x)
  BY <1>1, <1>5, <1>6 DEF Hold
<1>9. Counted'
  <2>1. Cardinality(Hold(state', held', e)) = Cardinality(Hold(state, held, e)) + 1
    BY <1>7, HoldersFinite, FS_AddElement, Zenon
  <2>2. holders'[e] = Cardinality(Hold(state', held', e)) BY <2>1, <1>1, <1>2 DEF Counted
  <2>3. \A x \in Loads : x # e => holders'[x] = Cardinality(Hold(state', held', x))
    BY <1>1, <1>8, Zenon DEF Counted
  <2> QED BY <2>2, <2>3 DEF Counted
<1>10. \A x \in Loads : state'[x] # "idle" <=> state[x] # "idle" \/ x = l BY <1>5, <1>6
<1>11. ASSUME NEW x \in Loads, state'[x] = "pending"
       PROVE  /\ held'[x] \in Loads /\ KeyOf[held'[x]] = KeyOf[x] /\ state'[held'[x]] # "idle"
              /\ held'[x] \notin aborted' => loads'[KeyOf[x]] = held'[x]
  <2>1. CASE x = l BY <2>1, <1>1, <1>2, <1>3, <1>6 DEF k
  <2>2. CASE x # l
    <3>1. state[x] = "pending" /\ held'[x] = held[x] BY <2>2, <1>5, <1>11
    <3>2. held[x] \in Loads /\ KeyOf[held[x]] = KeyOf[x] /\ state[held[x]] # "idle" BY <3>1 DEF Linked
    <3>3. ASSUME held[x] \notin aborted PROVE loads'[KeyOf[x]] = held[x]
      <4>1. loads[KeyOf[x]] = held[x] BY <3>1, <3>3 DEF Linked
      <4>2. KeyOf[x] = k => e = loads[k] BY <4>1, <3>2, <3>3 DEF e, Joins
      <4> QED BY <4>1, <4>2, <1>1, <1>2
    <3> QED BY <3>1, <3>2, <3>3, <1>1, <1>10
  <2> QED BY <2>1, <2>2
<1>12. ASSUME NEW j \in Keys, loads'[j] # NoEntry
       PROVE  KeyOf[loads'[j]] = j /\ state'[loads'[j]] # "idle" /\ Hold(state', held', loads'[j]) # {}
  <2>1. CASE j = k BY <2>1, <1>1, <1>2, <1>3, <1>7, Zenon
  <2>2. CASE j # k
    <3>1. loads'[j] = loads[j] /\ loads[j] \in Loads BY <2>2, <1>1, <1>12
    <3>2. KeyOf[loads[j]] = j /\ state[loads[j]] # "idle" /\ Hold(state, held, loads[j]) # {}
      BY <3>1, <1>12 DEF Linked
    <3>3. loads[j] # e BY <3>2, <2>2, <1>2
    <3>4. Hold(state', held', loads[j]) = Hold(state, held, loads[j]) BY <3>1, <3>3, <1>8
    <3> QED BY <3>1, <3>2, <3>4, <1>10 DEF Hold
  <2> QED BY <2>1, <2>2
<1>13. \A x \in (aborted \cup hit)' : state'[x] # "idle" BY <1>1, <1>10 DEF Linked
<1>14. Linked' BY <1>11, <1>12, <1>13 DEF Linked
<1>15. SignalExact' BY <1>1, <1>2, <1>5, <1>6 DEF SignalExact, Linked
<1> QED BY <1>4, <1>9, <1>14, <1>15

(* release takes one holder away, and the entry out of the map with the    *)
(* last one.                                                               *)
LEMMA ReleaseKeeps == ASSUME RegInv, NEW l \in Loads, Release(l) PROVE RegInv'
<1> DEFINE k == KeyOf[l]
           e == held[l]
<1> USE LoadAssumption DEF RegInv, RegistryTypeOK
<1>1. /\ state[l] = "pending" /\ state' = [state EXCEPT ![l] = "released"]
      /\ holders' = [holders EXCEPT ![e] = @ - 1]
      /\ loads' = (IF Unmaps(k, e) THEN [loads EXCEPT ![k] = NoEntry] ELSE loads)
      /\ aborted' = aborted /\ held' = held /\ hit' = hit
  BY DEF Release
<1>2. k \in Keys /\ e \in Loads /\ KeyOf[e] = k BY <1>1 DEF Linked
<1> HIDE DEF e, k
<1>3. RegistryTypeOK' BY <1>1, <1>2
<1>4. \A x \in Loads : x # l => state'[x] = state[x] BY <1>1
<1>5. state'[l] = "released" BY <1>1
<1>6. l \in Hold(state, held, e) /\ Hold(state', held', e) = Hold(state, held, e) \ {l}
  BY <1>1, <1>4, <1>5 DEF Hold, e
<1>7. \A x \in Loads : x # e => Hold(state', held', x) = Hold(state, held, x)
  BY <1>1, <1>4, <1>5 DEF Hold, e
<1>8. Cardinality(Hold(state', held', e)) = Cardinality(Hold(state, held, e)) - 1
  <2> DEFINE S == Hold(state, held, e)
  <2>1. IsFiniteSet(S) /\ l \in S BY <1>6, HoldersFinite
  <2> HIDE DEF S
  <2>2. Cardinality(S \ {l}) = Cardinality(S) - 1 BY <2>1, FS_RemoveElement, Zenon
  <2> QED BY <2>2, <1>6 DEF S
<1>9. Counted' BY <1>1, <1>2, <1>7, <1>8, Zenon DEF Counted
<1>10. \A x \in Loads : state'[x] # "idle" <=> state[x] # "idle" BY <1>1, <1>4, <1>5
<1>11. Unmaps(k, e) => Hold(state', held', e) = {}
  <2> SUFFICES ASSUME Unmaps(k, e) PROVE Hold(state', held', e) = {} OBVIOUS
  <2>1. Cardinality(Hold(state', held', e)) = 0 BY <1>2, <1>8 DEF Unmaps, Counted
  <2>2. IsFiniteSet(Hold(state', held', e)) BY <1>6, HoldersFinite, FS_RemoveElement
  <2> QED BY <2>1, <2>2, FS_EmptySet
<1>12. loads[k] = e /\ ~Unmaps(k, e) => Hold(state', held', e) # {}
  <2> SUFFICES ASSUME loads[k] = e, ~Unmaps(k, e), Hold(state', held', e) = {} PROVE FALSE OBVIOUS
  <2>1. Cardinality(Hold(state', held', e)) = 0 BY FS_EmptySet
  <2>2. holders[e] = 1 BY <2>1, <1>2, <1>8, HoldersFinite DEF Counted
  <2> QED BY <2>2 DEF Unmaps
<1>13. ASSUME NEW x \in Loads, state'[x] = "pending"
       PROVE  /\ held'[x] \in Loads /\ KeyOf[held'[x]] = KeyOf[x] /\ state'[held'[x]] # "idle"
              /\ held'[x] \notin aborted' => loads'[KeyOf[x]] = held'[x]
  <2>1. x # l /\ state[x] = "pending" /\ held'[x] = held[x] BY <1>1, <1>4, <1>5, <1>13
  <2>2. held[x] \in Loads /\ KeyOf[held[x]] = KeyOf[x] /\ state[held[x]] # "idle" BY <2>1 DEF Linked
  <2>3. ASSUME held[x] \notin aborted PROVE loads'[KeyOf[x]] = held[x]
    <3>1. loads[KeyOf[x]] = held[x] BY <2>1, <2>3 DEF Linked
    <3>2. held[x] = e => ~Unmaps(k, e)
      <4> SUFFICES ASSUME held[x] = e PROVE Hold(state', held', e) # {} BY <1>11
      <4>1. x \in Hold(state', held', e) BY <1>13, <2>1, <1>1 DEF Hold
      <4> QED BY <4>1
    <3>3. KeyOf[x] = k /\ Unmaps(k, e) => held[x] = e BY <3>1 DEF Unmaps
    <3> QED BY <3>1, <3>2, <3>3, <1>1
  <2> QED BY <2>1, <2>2, <2>3, <1>1, <1>10
<1>14. ASSUME NEW j \in Keys, loads'[j] # NoEntry
       PROVE  KeyOf[loads'[j]] = j /\ state'[loads'[j]] # "idle" /\ Hold(state', held', loads'[j]) # {}
  <2>1. loads'[j] = loads[j] /\ loads[j] \in Loads BY <1>1, <1>2, <1>14
  <2>2. KeyOf[loads[j]] = j /\ state[loads[j]] # "idle" /\ Hold(state, held, loads[j]) # {}
    BY <2>1, <1>14 DEF Linked
  <2>3. CASE loads[j] = e
    <3>1. j = k BY <2>2, <2>3, <1>2
    <3>2. ~Unmaps(k, e) BY <3>1, <1>1, <1>2, <1>14
    <3>3. Hold(state', held', e) # {} BY <3>1, <3>2, <2>3, <1>12
    <3> QED BY <3>3, <2>1, <2>2, <2>3, <1>10, <1>1 DEF Hold
  <2>4. CASE loads[j] # e
    <3>1. Hold(state', held', loads[j]) = Hold(state, held, loads[j]) BY <2>1, <2>4, <1>7
    <3> QED BY <3>1, <2>1, <2>2, <1>10 DEF Hold
  <2> QED BY <2>3, <2>4
<1>15. \A x \in (aborted \cup hit)' : state'[x] # "idle" BY <1>1, <1>10 DEF Linked
<1>16. Linked' BY <1>13, <1>14, <1>15 DEF Linked
<1>17. SignalExact' BY <1>1, <1>4, <1>5 DEF SignalExact
<1> QED BY <1>3, <1>9, <1>16, <1>17

(* cancel aborts the entry every pending load of the key can be reached by. *)
LEMMA CancelKeeps == ASSUME RegInv, NEW k \in Keys, Cancel(k) PROVE RegInv'
<1> USE LoadAssumption DEF RegInv, RegistryTypeOK, Cancel
<1>1. RegistryTypeOK' OBVIOUS
<1>2. \A e : Hold(state', held', e) = Hold(state, held, e) BY DEF Hold
<1>3. Counted' BY <1>2 DEF Counted, Hold
<1>4. Linked' BY <1>2 DEF Linked, Hold
<1>5. SignalExact'
  <2> SUFFICES ASSUME NEW l \in Loads, state[l] = "pending"
      PROVE held[l] \in aborted' <=> l \in hit'
    BY DEF SignalExact
  <2>1. held[l] \in aborted <=> l \in hit BY DEF SignalExact
  <2>2. CASE KeyOf[l] = k BY <2>1, <2>2 DEF Linked
  <2>3. CASE KeyOf[l] # k BY <2>1, <2>3 DEF Linked
  <2> QED BY <2>2, <2>3
<1> QED BY <1>1, <1>3, <1>4, <1>5

LEMMA RegStep == RegInv /\ [RegistryNext]_registryVars => RegInv'
<1>1. CASE RegInv /\ UNCHANGED registryVars
  BY <1>1 DEF registryVars, RegInv, RegistryTypeOK, Counted, Linked, Hold, SignalExact
<1> QED BY <1>1, RegisterKeeps, ReleaseKeeps, CancelKeeps DEF RegistryNext

(* A cancel reaches exactly the loads pending on its key, for any number   *)
(* of loads registering and releasing in any order (LoadCancelRegistry).   *)
THEOREM CancelIsExact == RegistrySpec => []SignalExact
<1>1. RegInv => SignalExact BY DEF RegInv
<1> QED BY RegInit, RegStep, <1>1, PTL DEF RegistrySpec

(* The map, the entries and the handles keep their types.                  *)
THEOREM CancelTypeCorrect == RegistrySpec => []RegistryTypeOK
<1>1. RegInv => RegistryTypeOK BY DEF RegInv
<1> QED BY RegInit, RegStep, <1>1, PTL DEF RegistrySpec

(* The registry leaks no entry (the handle's release).                     *)
THEOREM NoEntryLeaks == RegistrySpec => []EntryInUse
<1>1. RegInv => EntryInUse
  <2> SUFFICES ASSUME RegInv, NEW k \in Keys, loads[k] # NoEntry
      PROVE \E l \in Loads : state[l] = "pending" /\ held[l] = loads[k] /\ KeyOf[l] = k
    BY DEF EntryInUse
  <2>1. PICK l \in Loads : state[l] = "pending" /\ held[l] = loads[k]
    BY DEF RegInv, Linked, Hold
  <2> QED BY <2>1 DEF RegInv, Linked
<1> QED BY RegInit, RegStep, <1>1, PTL DEF RegistrySpec

-----------------------------------------------------------------------------
(* The process journal. *)

(* S has a record the running core wrote for the process at p. *)
Has(S, p) == \E r \in S : r.pid = p /\ r.by = core /\ r.id \in {0, proc[p].id}

(* What the phases of a core say about the other variables: only a core    *)
(* that finished starting has children, every process it spawned is one,   *)
(* and nothing is written before the reaper forgets.                       *)
PhaseOK ==
  /\ \A p \in Pids : child[p] # "none" => up = "ready"
  /\ \A p \in Pids : proc[p] # None =>
       proc[p].by <= core /\ (up # "down" /\ proc[p].by = core => child[p] # "none")
  /\ up # "down" => core > 0
  /\ writing # None => done < asked
  /\ up \in {"scan", "reap"} => asked = 0 /\ done = 0 /\ writing = None
  /\ up = "scan" => mem = disk
  /\ term # None => up = "reap"

(* Where the record of a child is: in this.records from the add on, in the *)
(* write in flight and in the file once that add's write has its turn.     *)
RecordOK(p) ==
  /\ child[p] \in {"adding", "session", "stopping"} => Has(mem, p)
  /\ child[p] \in {"session", "stopping"} =>
       Has(disk, p) /\ (writing # None => Has(writing, p))
  /\ child[p] = "adding" =>
       /\ ticket[p] <= asked
       /\ done >= ticket[p] => Has(disk, p)
       /\ writing # None /\ done + 1 >= ticket[p] => Has(writing, p)

(* A live backend of a core that died, known to the journal at that moment. *)
Orphan(p) ==
  /\ proc[p] # None /\ proc[p].by # 0 /\ proc[p].id \notin lost
  /\ up = "down" \/ proc[p].by # core

Names(S, p) == \E r \in S : r.pid = p /\ r.id = proc[p].id

(* The journal names every orphan until a reaper is through, and the       *)
(* reaper has it on its list or waits for it.                              *)
OrphanOK(p) ==
  Orphan(p) =>
    /\ up \in {"down", "scan", "reap"} /\ Names(disk, p)
    /\ up = "reap" => Names(todo, p) \/ (term # None /\ term.pid = p /\ term.id = proc[p].id)

JournalInv ==
  TypeOK /\ PhaseOK /\ \A p \in Pids : (proc[p] # None => RecordOK(p)) /\ OrphanOK(p)

(* The process the reaper waits for is the one it identified, or gone. *)
TermOK == term # None => proc[term.pid] = None \/ Matches(term)

(* A process that starts, and a record journal.add writes, have their types. *)
LEMMA JournalEntries ==
  ASSUME TypeOK
  PROVE  /\ \A q \in Process : q.by \in 0..MaxCores /\ q.id \in 1..MaxBorn
         /\ born < MaxBorn => /\ [by |-> 0, id |-> born + 1] \in Process
                             /\ [by |-> core, id |-> born + 1] \in Process
         /\ core > 0 => \A p \in Pids : \A id \in 0..MaxBorn :
              [pid |-> p, by |-> core, id |-> id] \in Record
BY BoundAssumption DEF TypeOK, Process, Record

(* Every step keeps the types. *)
LEMMA JournalTypes ==
  ASSUME JournalInv, Next PROVE TypeOK'
<1> USE JournalEntries, BoundAssumption DEF TypeOK, Phases, os, queue, reaper,
            Flush, Remove, WithoutPid, JournalInv, PhaseOK
<1>1. CASE WriteStart \/ WriteEnd \/ WriteFailed
  <2>1. done' \in 0..asked'
    BY <1>1 DEF WriteStart, WriteEnd, WriteFailed
  <2>2. (writing' = None \/ writing' \subseteq Record) /\ disk' \subseteq Record
    BY <1>1 DEF WriteStart, WriteEnd, WriteFailed
  <2> QED BY <1>1, <2>1, <2>2, Zenon DEF WriteStart, WriteEnd, WriteFailed
<1>2. CASE Start \/ Scan
  <2>1. core' \in 0..MaxCores /\ 0 \in 0..MaxWrites /\ 0 \in 0..0
    BY <1>2 DEF Start, Scan
  <2>2. CASE Start
    BY <2>1, <2>2, Zenon DEF Start
  <2>3. CASE Scan
    BY <2>1, <2>3, Zenon DEF Scan
  <2> QED BY <1>2, <2>2, <2>3
<1>3. CASE TermSeenGone \/ TermKill
  <2>1. proc' = proc \/ \E p : proc' = [proc EXCEPT ![p] = None]
    BY <1>3 DEF TermSeenGone, TermKill
  <2>2. proc' \in [Pids -> Process \cup {None}]
    BY <2>1
  <2> QED BY <1>3, <2>2, Zenon DEF TermSeenGone, TermKill
<1>4. CASE Forget \/ Ready
  <2>1. mem' \subseteq mem /\ asked' \in 0..MaxWrites /\ done' \in 0..asked'
    BY <1>4 DEF Forget, Ready
  <2> QED BY <1>4, <2>1, Zenon DEF Forget, Ready
<1>5. CASE Crash
  <2>1. lost' \subseteq 1..MaxBorn
    BY <1>5, Zenon DEF Crash
  <2> QED BY <1>5, <2>1, Zenon DEF Crash
<1>6. ASSUME NEW r \in todo, Terminate(r) PROVE TypeOK'
  BY <1>6 DEF Terminate
<1>7. ASSUME NEW p \in Pids, Spawn(p) PROVE TypeOK'
  BY <1>7 DEF Spawn
<1>8. ASSUME NEW p \in Pids, Unload(p) \/ AddRejected(p) PROVE TypeOK'
  BY <1>8, Zenon DEF Unload, AddRejected
<1>9. ASSUME NEW p \in Pids, Add(p) PROVE TypeOK'
  BY <1>9 DEF Add
<1>10. ASSUME NEW p \in Pids, Adopt(p) PROVE TypeOK'
  BY <1>10 DEF Adopt
<1>11. ASSUME NEW p \in Pids, ChildExit(p) PROVE TypeOK'
  BY <1>11 DEF ChildExit
<1>12. ASSUME NEW p \in Pids, OtherStart(p) \/ OtherExit(p) PROVE TypeOK'
  <2>1. proc' \in [Pids -> Process \cup {None}]
    BY <1>12 DEF OtherStart, OtherExit
  <2>2. born' \in 0..MaxBorn
    BY <1>12 DEF OtherStart, OtherExit
  <2> QED BY <1>12, <2>1, <2>2, Zenon DEF OtherStart, OtherExit
<1> QED BY <1>1, <1>2, <1>3, <1>4, <1>5, <1>6, <1>7, <1>8, <1>9, <1>10, <1>11, <1>12, Zenon DEF Next

(* Every step keeps what the phases say. *)
LEMMA JournalPhases ==
  ASSUME JournalInv, Next PROVE PhaseOK'
<1> USE BoundAssumption DEF TypeOK, Process, Phases, os, queue, reaper,
            Flush, Remove, JournalInv, PhaseOK
<1>1. CASE WriteStart \/ WriteEnd \/ WriteFailed
  BY <1>1 DEF WriteStart, WriteEnd, WriteFailed
<1>2. CASE Start \/ Scan \/ TermSeenGone \/ TermKill
  BY <1>2 DEF Start, Scan, TermSeenGone, TermKill
<1>3. CASE Forget \/ Ready
  BY <1>3 DEF Forget, Ready
<1>4. CASE Crash
  BY <1>4 DEF Crash
<1>5. ASSUME NEW r \in todo, Terminate(r) PROVE PhaseOK'
  BY <1>5 DEF Terminate
<1>6. ASSUME NEW p \in Pids, Spawn(p) \/ Unload(p) \/ AddRejected(p) PROVE PhaseOK'
  BY <1>6 DEF Spawn, Unload, AddRejected
<1>7. ASSUME NEW p \in Pids, Add(p) PROVE PhaseOK'
  BY <1>7 DEF Add
<1>8. ASSUME NEW p \in Pids, Adopt(p) \/ ChildExit(p) PROVE PhaseOK'
  BY <1>8 DEF Adopt, ChildExit
<1>9. ASSUME NEW p \in Pids, OtherStart(p) \/ OtherExit(p) PROVE PhaseOK'
  BY <1>9 DEF OtherStart, OtherExit
<1> QED BY <1>1, <1>2, <1>3, <1>4, <1>5, <1>6, <1>7, <1>8, <1>9, Zenon DEF Next

(* Every step keeps the record of every child where it has to be. *)
LEMMA JournalRecords ==
  ASSUME JournalInv, Next, NEW q \in Pids, proc'[q] # None PROVE RecordOK(q)'
<1> USE DEF TypeOK, os, queue, reaper, Flush, Remove, WithoutPid, JournalInv, PhaseOK,
            RecordOK, Has
<1>1. CASE WriteStart \/ WriteEnd \/ WriteFailed
  BY <1>1 DEF WriteStart, WriteEnd, WriteFailed
<1>2. CASE Start \/ Scan \/ TermSeenGone \/ TermKill
  BY <1>2 DEF Start, Scan, TermSeenGone, TermKill
<1>3. CASE Forget \/ Ready
  BY <1>3 DEF Forget, Ready
<1>4. CASE Crash
  BY <1>4 DEF Crash
<1>5. ASSUME NEW r \in todo, Terminate(r) PROVE RecordOK(q)'
  BY <1>5 DEF Terminate
<1>6. ASSUME NEW p \in Pids, Spawn(p) \/ Unload(p) \/ AddRejected(p) PROVE RecordOK(q)'
  BY <1>6 DEF Spawn, Unload, AddRejected
<1>7. ASSUME NEW p \in Pids, Add(p) PROVE RecordOK(q)'
  <2>1. PICK id \in {0, proc[p].id} :
          mem' = {r \in mem : r.pid # p} \cup {[pid |-> p, by |-> core, id |-> id]}
    BY <1>7 DEF Add
  <2>2. CASE q = p
    <3>1. ticket'[q] = asked' /\ done' < asked' /\ (writing' # None => done' + 1 < asked')
      BY <1>7, <2>2 DEF Add
    <3>2. [pid |-> p, by |-> core, id |-> id] \in mem' /\ core' = core /\ proc' = proc
      BY <1>7, <2>1 DEF Add
    <3>3. Has(mem, q)'
      BY <2>2, <3>2
    <3>4. child'[q] = "adding"
      BY <1>7, <2>2 DEF Add
    <3>5. asked' \in Int /\ done' \in Int /\ ticket'[q] \in Int
      BY <1>7, <2>2 DEF Add
    <3> QED BY <3>1, <3>3, <3>4, <3>5
  <2>3. CASE q # p
    <3>1. \A r \in mem : r.pid = q => r \in mem'
      BY <2>1, <2>3, Zenon
    <3>2. /\ child'[q] = child[q] /\ ticket'[q] = ticket[q]
          /\ UNCHANGED <<proc, core, disk, done, writing>> /\ asked' = asked + 1
      BY <1>7, <2>3, Zenon DEF Add
    <3> QED BY <3>1, <3>2
  <2> QED BY <2>2, <2>3
<1>8. ASSUME NEW p \in Pids, Adopt(p) PROVE RecordOK(q)'
  BY <1>8 DEF Adopt
<1>9. ASSUME NEW p \in Pids, ChildExit(p) PROVE RecordOK(q)'
  BY <1>9 DEF ChildExit
<1>10. ASSUME NEW p \in Pids, OtherStart(p) \/ OtherExit(p) PROVE RecordOK(q)'
  BY <1>10 DEF OtherStart, OtherExit
<1> QED BY <1>1, <1>2, <1>3, <1>4, <1>5, <1>6, <1>7, <1>8, <1>9, <1>10, Zenon DEF Next

(* Every step keeps the orphans in the journal, and on the reaper's list. *)
LEMMA JournalOrphans ==
  ASSUME JournalInv, Next, NEW q \in Pids PROVE OrphanOK(q)'
<1> USE DEF TypeOK, os, queue, reaper, Flush, Remove, JournalInv, PhaseOK,
            OrphanOK, Orphan, Names
<1>1. CASE WriteStart \/ WriteEnd \/ WriteFailed
  BY <1>1 DEF WriteStart, WriteEnd, WriteFailed
<1>2. CASE Start
  BY <1>2 DEF Start
<1>3. CASE Scan
  BY <1>3 DEF Scan, Matches, Process
<1>4. CASE TermSeenGone \/ TermKill
  BY <1>4 DEF TermSeenGone, TermKill, Record
<1>5. CASE Forget \/ Ready
  BY <1>5 DEF Forget, Ready
<1>6. CASE Crash
  BY <1>6 DEF Crash
<1>7. ASSUME NEW r \in todo, Terminate(r) PROVE OrphanOK(q)'
  BY <1>7, NoneAssumption DEF Terminate, Matches, Process
<1>8. ASSUME NEW p \in Pids, Spawn(p) PROVE OrphanOK(q)'
  BY <1>8 DEF Spawn
<1>9. ASSUME NEW p \in Pids, Unload(p) \/ AddRejected(p) \/ Add(p) \/ Adopt(p)
      PROVE OrphanOK(q)'
  BY <1>9 DEF Unload, AddRejected, Add, Adopt
<1>10. ASSUME NEW p \in Pids, ChildExit(p) PROVE OrphanOK(q)'
  BY <1>10 DEF ChildExit
<1>11. ASSUME NEW p \in Pids, OtherStart(p) \/ OtherExit(p) PROVE OrphanOK(q)'
  BY <1>11 DEF OtherStart, OtherExit
<1> QED BY <1>1, <1>2, <1>3, <1>4, <1>5, <1>6, <1>7, <1>8, <1>9, <1>10, <1>11, Zenon DEF Next

(* Before the first core: no processes, an empty journal. *)
LEMMA JournalInit == Init => JournalInv /\ TermOK
<1> SUFFICES ASSUME Init PROVE JournalInv /\ TermOK
  OBVIOUS
<1>1. 0 \in 0..MaxCores /\ 0 \in 0..MaxBorn /\ 0 \in 0..MaxWrites /\ 0 \in 0..0
  BY BoundAssumption
<1>2. TypeOK
  BY <1>1, Zenon DEF Init, TypeOK, Phases
<1>3. PhaseOK
  BY Zenon DEF Init, PhaseOK
<1> QED BY <1>2, <1>3, Zenon DEF JournalInv, Init, OrphanOK, Orphan, TermOK

(* Every step of the cores, the children and the other programs keeps the *)
(* journal invariant.                                                      *)
LEMMA JournalStep == JournalInv /\ [Next]_vars => JournalInv'
<1> SUFFICES ASSUME JournalInv, [Next]_vars PROVE JournalInv'
  OBVIOUS
<1>1. CASE Next
  BY <1>1, JournalTypes, JournalPhases, JournalRecords, JournalOrphans, Zenon DEF JournalInv
<1>2. CASE UNCHANGED vars
  <2> USE <1>2 DEF vars, JournalInv
  <2>1. TypeOK'
    BY DEF TypeOK, Process, Record
  <2>2. PhaseOK'
    BY DEF PhaseOK
  <2>3. ASSUME NEW p \in Pids PROVE (proc[p] # None => RecordOK(p))' /\ OrphanOK(p)'
    <3>1. (proc[p] # None => RecordOK(p)) /\ OrphanOK(p)
      OBVIOUS
    <3>2. QED
      BY <3>1, Zenon DEF RecordOK, Has, OrphanOK, Orphan, Names
  <2> QED BY <2>1, <2>2, <2>3
<1> QED BY <1>1, <1>2

(* While no program may take the pid of the process the reaper waits for,  *)
(* the reaper waits for what it identified.                                *)
LEMMA TermStep ==
  ASSUME ~LateReuse, JournalInv, TermOK, Next PROVE TermOK'
<1> USE DEF TypeOK, os, queue, reaper, JournalInv, PhaseOK, TermOK, Matches
<1>1. CASE WriteStart \/ WriteEnd \/ WriteFailed
  BY <1>1 DEF WriteStart, WriteEnd, WriteFailed
<1>2. CASE Start \/ Scan \/ TermSeenGone \/ TermKill
  BY <1>2 DEF Start, Scan, TermSeenGone, TermKill
<1>3. CASE Forget \/ Ready \/ Crash
  BY <1>3 DEF Forget, Ready, Crash
<1>5. ASSUME NEW r \in todo, Terminate(r) PROVE TermOK'
  BY <1>5 DEF Terminate
<1>6. ASSUME NEW p \in Pids, Spawn(p) \/ Unload(p) \/ AddRejected(p) \/ Add(p) PROVE TermOK'
  BY <1>6 DEF Spawn, Unload, AddRejected, Add
<1>8. ASSUME NEW p \in Pids, Adopt(p) \/ ChildExit(p) PROVE TermOK'
  BY <1>8 DEF Adopt, ChildExit
<1>10. ASSUME NEW p \in Pids, OtherStart(p) \/ OtherExit(p) PROVE TermOK'
  <2>1. CASE OtherExit(p)
    BY <1>10, <2>1 DEF OtherExit
  <2>2. CASE OtherStart(p)
    <3>1. term' = term /\ (term # None => proc'[term.pid] = proc[term.pid])
      BY <1>10, <2>2 DEF OtherStart
    <3> QED BY <3>1
  <2> QED BY <1>10, <2>1, <2>2
<1> QED BY <1>1, <1>2, <1>3, <1>5, <1>6, <1>8, <1>10 DEF Next

(* A published session is in processes.json, for any number of children,   *)
(* cores and writes, and whichever writes fail (journal.add).              *)
THEOREM PublishedIsJournalled == Spec => []SessionsJournalled
<1>1. JournalInv => SessionsJournalled
  BY DEF JournalInv, RecordOK, Has, SessionsJournalled
<1> QED BY <1>1, JournalInit, JournalStep, PTL DEF Spec

(* A core that finished starting shares the machine with no backend the    *)
(* journal named when its core died (reapOrphans).                         *)
THEOREM OrphansAreReaped == Spec => []JournalledAreReaped
<1>1. JournalInv => JournalledAreReaped
  BY Zenon DEF JournalInv, OrphanOK, Orphan, JournalledAreReaped
<1> QED BY <1>1, JournalInit, JournalStep, PTL DEF Spec

(* The reaper kills the process it identified, as long as nobody else gets *)
(* that pid while it waits (terminate).                                    *)
THEOREM ReaperKillsOnlyOrphans ==
  ASSUME ~LateReuse
  PROVE  Spec => KillsOnlyOrphans
<1>1. JournalInv /\ TermOK /\ [Next]_vars => TermOK'
  BY TermStep, Zenon DEF TermOK, vars, Matches
<1>2. JournalInv /\ TermOK /\ [Next]_vars =>
        [term # None /\ term' = None /\ up' = "reap" /\ proc'[term.pid] # proc[term.pid]
           => Matches(term)]_vars
  <2> SUFFICES ASSUME TermOK, Next, term # None, term' = None, up' = "reap",
                      proc'[term.pid] # proc[term.pid], JournalInv
               PROVE  Matches(term)
    OBVIOUS
  <2>1. up = "reap" BY DEF JournalInv, PhaseOK
  <2>2. proc[term.pid] # None
    BY <2>1 DEF Next, WriteStart, WriteEnd, WriteFailed, Start, Scan, TermSeenGone,
       TermKill, Forget, Ready, Crash, Terminate, Spawn, Add, Adopt, AddRejected, Unload,
       ChildExit, OtherStart, OtherExit, os, reaper
  <2> QED BY <2>2 DEF TermOK
<1> QED BY <1>1, <1>2, JournalInit, JournalStep, PTL DEF Spec, KillsOnlyOrphans

(* Every variable of the journal has its type. *)
THEOREM JournalTypeCorrect == Spec => []TypeOK
<1>1. JournalInv => TypeOK
  BY DEF JournalInv
<1> QED BY <1>1, JournalInit, JournalStep, PTL DEF Spec
=============================================================================
