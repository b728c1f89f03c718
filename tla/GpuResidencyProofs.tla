------------------------- MODULE GpuResidencyProofs -------------------------
(***************************************************************************)
(* One resident model per card, for any number of models, providers and    *)
(* cards, any settings and any failures.                                   *)
(*                                                                         *)
(* The argument: a step makes at most one model an occupant that was none, *)
(* and only when nothing it would have to stop is one (the last look of a  *)
(* claim, in the step that grants it), or when it is outside the rule.     *)
(***************************************************************************)
EXTENDS GpuResidency, TLAPS

(* The types the argument needs: what gpuOccupancy reads. *)
Tables ==
  /\ sess \in [Models -> BOOLEAN]
  /\ unl \in [Models -> {"none", "waitload", "stopping"}]
  /\ load \in [Models -> {"none", "queued", "autounload", "planning", "waiting",
                          "evicting", "starting", "failing"}]

(* What an auto-unload still has to stop are models. *)
AutoUnloads == aul \in [Models -> SUBSET Models]

GpuInv == Tables /\ AutoUnloads /\ OnePerCard

(* What one step may do to the occupants. *)
Grows(k) ==
  /\ \A n \in Models \ {k} : Occupied(n)' => Occupied(n)
  /\ Occupied(k)' => Occupied(k) \/ \A n \in Models : Occupied(n) => ~Evicts(k, n)

(* What a load's end does to the tables: the load is over, the sessions    *)
(* are as they were (FailLoad).                                            *)
LEMMA FailLoadTables ==
  ASSUME NEW k \in Models, Tables, FailLoad(k), UNCHANGED stopVars
  PROVE  Tables' /\ Grows(k)
BY DEF Tables, FailLoad, LeaveQueues, stopVars, Grows, Occupied

(* A claim with the turn becomes an occupant only over free cards          *)
(* (GpuResidency.claim's last gpuEvictions).                               *)
LEMMA AdvanceTables ==
  ASSUME NEW k \in Models, NEW rest, Tables, Advance(k, rest), UNCHANGED stopVars
  PROVE  Tables' /\ Grows(k)
<1>1. CASE FailLoad(k)
  BY <1>1, FailLoadTables
<1>2. CASE GpuEvictions(k) = {} /\ load' = [load EXCEPT ![k] = "starting"]
  <2>1. \A n \in Models : Occupied(n) => ~Evicts(k, n)
    BY <1>2 DEF GpuEvictions
  <2>2. QED
    BY <1>2, <2>1 DEF Tables, stopVars, Grows, Occupied
<1>3. CASE load' = [load EXCEPT ![k] = "evicting"]
  BY <1>3 DEF Tables, stopVars, Grows, Occupied
<1>4. QED
  BY <1>1, <1>2, <1>3 DEF Advance

(* Beginning a stop moves a session from the table to the stopping ones    *)
(* (unloadSession, unloadAfterLoading): there is one to move.              *)
LEMMA BeginStopTables ==
  ASSUME NEW k \in Models, NEW m \in Models, Tables, ~NothingToStop(k), BeginStop(k),
         UNCHANGED load
  PROVE  Tables' /\ Grows(m)
<1>1. CASE UNCHANGED stopVars
  BY <1>1 DEF Tables, stopVars, Grows, Occupied
<1>2. CASE unl[k] = "none" /\ unl' = [unl EXCEPT ![k] = "waitload"] /\ UNCHANGED sess
  BY <1>2 DEF Tables, Grows, Occupied
<1>3. CASE TakeDown(k) /\ sess[k]
  BY <1>3 DEF TakeDown, Tables, Grows, Occupied
<1>4. QED
  BY <1>1, <1>2, <1>3 DEF BeginStop, NothingToStop, TakeDown

(* Settling a stop only ends waits: no load becomes an occupant. *)
LEMMA SettledLoads ==
  ASSUME NEW k \in Models, NEW ok \in BOOLEAN, Tables, Settled(k, ok)
  PROVE  /\ load' \in [Models -> {"none", "queued", "autounload", "planning", "waiting",
                                  "evicting", "starting", "failing"}]
         /\ \A n \in Models : load'[n] = "starting" => load[n] = "starting"
BY DEF Tables, Settled

(* The auto-unload list only ever holds models: it is a snapshot of the    *)
(* session table that shrinks (loadOnce, MLX start).                       *)
LEMMA AutoUnloadsStep ==
  ASSUME NEW k \in Models, AutoUnloads, CoreStep(k) \/ OutsideStep(k)
  PROVE  AutoUnloads'
<1>1. CASE UNCHANGED aul
  BY <1>1 DEF AutoUnloads
<1>2. CASE \E s \in SUBSET Models : aul' = [aul EXCEPT ![k] = s]
  BY <1>2 DEF AutoUnloads
<1>3. CASE FailLoad(k) \/ LeaveQueues(k)
  BY <1>2, <1>3 DEF FailLoad, LeaveQueues
<1>4. CASE OutsideStep(k)
  BY <1>1, <1>4 DEF OutsideStep, Acquire, Unload, CancelLoad, Reload, SessionDied, loadVars
<1>5. CASE StartLoad(k)
  <2>1. {} \in SUBSET Models /\ AutoUnloadTargets(k) \in SUBSET Models
    BY DEF AutoUnloadTargets
  <2>2. QED
    BY <1>2, <1>5, <2>1 DEF StartLoad
<1>6. CASE AutoUnloadNext(k)
  BY <1>1, <1>3, <1>6 DEF AutoUnloadNext, AutoUnloads
<1>7. CASE TakeTurn(k) \/ EvictNext(k)
  BY <1>1, <1>3, <1>7 DEF TakeTurn, EvictNext, Advance
<1>8. CASE AbortLoad(k) \/ LoadReady(k) \/ LoadFails(k)
  BY <1>3, <1>8 DEF AbortLoad, LoadReady, LoadFails
<1>9. CASE StopAfterLoad(k) \/ StopDone(k) \/ StopFailed(k)
  BY <1>1, <1>9 DEF StopAfterLoad, StopDone, StopFailed, Settled, loadVars
<1>10. CASE \/ StartOp(k) \/ ClaimAnswer(k) \/ RefusedByLegacy(k) \/ AbandonWait(k)
            \/ FinishAcquire(k) \/ UpdateFails(k)
  BY <1>1, <1>10 DEF StartOp, ClaimAnswer, RefusedByLegacy, AbandonWait, FinishAcquire,
                     UpdateFails, loadVars
<1>11. CASE AcquireLoad(k) \/ ReloadLoad(k) \/ Planned(k)
  BY <1>1, <1>11 DEF AcquireLoad, ReloadLoad, Planned, EnterQueue, loadVars
<1>12. QED
  BY <1>4, <1>5, <1>6, <1>7, <1>8, <1>9, <1>10, <1>11 DEF CoreStep

(* Every step of the core grows the occupants by at most the model it      *)
(* works on.                                                               *)
LEMMA CoreStepTables ==
  ASSUME NEW k \in Models, Tables, AutoUnloads, CoreStep(k)
  PROVE  Tables' /\ Grows(k)
<1>1. CASE StartOp(k)
  <2>1. UNCHANGED load /\ (UNCHANGED stopVars \/ (~NothingToStop(k) /\ BeginStop(k)))
    BY <1>1 DEF StartOp, loadVars
  <2>2. QED
    BY <2>1, BeginStopTables DEF Tables, stopVars, Grows, Occupied
<1>2. CASE ClaimAnswer(k) \/ RefusedByLegacy(k) \/ AbandonWait(k) \/ UpdateFails(k)
  BY <1>2 DEF ClaimAnswer, RefusedByLegacy, AbandonWait, UpdateFails, Tables, loadVars, stopVars,
              Grows, Occupied
<1>3. CASE AcquireLoad(k)
  BY <1>3 DEF AcquireLoad, EnterQueue, Tables, loadVars, stopVars, Grows, Occupied
<1>4. CASE FinishAcquire(k)
  <2>1. UNCHANGED load /\ (UNCHANGED stopVars \/ (~NothingToStop(k) /\ BeginStop(k)))
    BY <1>4 DEF FinishAcquire, loadVars
  <2>2. QED
    BY <2>1, BeginStopTables DEF Tables, stopVars, Grows, Occupied
<1>5. CASE StartLoad(k)
  BY <1>5 DEF StartLoad, Tables, stopVars, Grows, Occupied
<1>6. CASE AutoUnloadNext(k)
  <2>1. CASE FailLoad(k) /\ UNCHANGED stopVars
    BY <2>1, FailLoadTables
  <2>2. CASE load' = [load EXCEPT ![k] = "planning"] /\ UNCHANGED stopVars
    BY <2>2 DEF Tables, stopVars, Grows, Occupied
  <2>3. CASE UNCHANGED load /\ \E n \in Models : UNCHANGED stopVars \/ (~NothingToStop(n) /\ BeginStop(n))
    BY <2>3, BeginStopTables DEF Tables, stopVars, Grows, Occupied
  <2>4. QED
    BY <1>6, <2>1, <2>2, <2>3 DEF AutoUnloadNext, AutoUnloads, stopVars
<1>7. CASE Planned(k)
  BY <1>7 DEF Planned, Tables, stopVars, Grows, Occupied, Evicts
<1>8. CASE TakeTurn(k)
  BY <1>8, AdvanceTables DEF TakeTurn
<1>9. CASE EvictNext(k)
  BY <1>9, AdvanceTables DEF EvictNext
<1>10. CASE AbortLoad(k)
  BY <1>10 DEF AbortLoad, LeaveQueues, Tables, stopVars, Grows, Occupied
<1>11. CASE LoadReady(k)
  BY <1>11 DEF LoadReady, LeaveQueues, Tables, Grows, Occupied
<1>12. CASE LoadFails(k)
  BY <1>12, FailLoadTables DEF LoadFails
<1>13. CASE StopAfterLoad(k)
  <2>1. CASE sess[k] /\ TakeDown(k) /\ UNCHANGED loadVars
    BY <2>1 DEF TakeDown, Tables, loadVars, Grows, Occupied
  <2>2. CASE unl' = [unl EXCEPT ![k] = "none"] /\ UNCHANGED sess /\ Settled(k, TRUE)
    BY <2>2, SettledLoads, Zenon DEF Tables, Grows, Occupied
  <2>3. QED
    BY <1>13, <2>1, <2>2, Zenon DEF StopAfterLoad
<1>14. CASE StopDone(k)
  BY <1>14, SettledLoads, Zenon DEF StopDone, Tables, Grows, Occupied
<1>15. CASE StopFailed(k)
  BY <1>15, SettledLoads, Zenon DEF StopFailed, Tables, Grows, Occupied
<1>16. CASE ReloadLoad(k)
  BY <1>16 DEF ReloadLoad, EnterQueue, Tables, loadVars, stopVars, Grows, Occupied
<1>17. QED
  BY <1>1, <1>2, <1>3, <1>4, <1>5, <1>6, <1>7, <1>8, <1>9, <1>10, <1>11, <1>12, <1>13,
     <1>14, <1>15, <1>16 DEF CoreStep

(* Clients and dying processes never add an occupant. *)
LEMMA OutsideStepTables ==
  ASSUME NEW k \in Models, Tables, OutsideStep(k)
  PROVE  Tables' /\ Grows(k)
<1>1. CASE Acquire(k) \/ Unload(k) \/ CancelLoad(k)
  BY <1>1 DEF Acquire, Unload, CancelLoad, Tables, loadVars, stopVars, Grows, Occupied
<1>2. CASE Reload(k)
  BY <1>2, BeginStopTables DEF Reload, NothingToStop, loadVars
<1>3. CASE SessionDied(k)
  BY <1>3 DEF SessionDied, Tables, loadVars, Grows, Occupied
<1>4. QED
  BY <1>1, <1>2, <1>3 DEF OutsideStep

(* A step that grows the occupants by one over free cards keeps the rule. *)
LEMMA GrowsKeepsRule ==
  ASSUME NEW k \in Models, OnePerCard, Grows(k)
  PROVE  OnePerCard'
<1> SUFFICES ASSUME NEW m \in Models, NEW n \in Models, Evicts(m, n), Evicts(n, m),
                    Occupied(m)', Occupied(n)'
             PROVE  FALSE
  BY DEF OnePerCard, Evicts, ClaimsGpu, CardsOverlap
<1>1. m # n
  BY DEF Evicts
<1>2. QED
  BY <1>1 DEF OnePerCard, Grows

(* One resident model per card (core/gpu/policy.ts, GpuResidency.claim):   *)
(* whatever loads, stops, reloads, cancels and failures happen, two models *)
(* of which either would have to stop the other never hold the GPU         *)
(* together.                                                               *)
THEOREM OneResidentPerCard == Spec => []OnePerCard
<1>1. Init => GpuInv
  BY DEF Init, GpuInv, Tables, AutoUnloads, OnePerCard, Occupied
<1>2. GpuInv /\ [Next]_vars => GpuInv'
  <2> SUFFICES ASSUME GpuInv, [Next]_vars PROVE GpuInv'
    OBVIOUS
  <2>1. CASE UNCHANGED vars
    BY <2>1 DEF GpuInv, Tables, AutoUnloads, OnePerCard, Occupied, Evicts, ClaimsGpu, CardsOverlap,
                vars, stopVars, loadVars
  <2>2. CASE Next
    <3>1. PICK k \in Models : CoreStep(k) \/ OutsideStep(k)
      BY <2>2 DEF Next
    <3>2. Tables' /\ Grows(k)
      BY <3>1, CoreStepTables, OutsideStepTables DEF GpuInv
    <3>3. QED
      BY <3>1, <3>2, GrowsKeepsRule, AutoUnloadsStep DEF GpuInv
  <2>3. QED
    BY <2>1, <2>2
<1>3. GpuInv => OnePerCard
  BY DEF GpuInv
<1>4. QED
  BY <1>1, <1>2, <1>3, PTL DEF Spec
-----------------------------------------------------------------------------
(* No live process is lost, and every session has its claim                *)

(* Only m's own transitions stop it: no request reloads it in place, and   *)
(* no load of another model auto-unloads it.                               *)
OwnStops(m) ==
  /\ m \notin Reloadable
  /\ \A n \in Models : Provider[n] = Provider[m] /\ Provider[n] \in AutoUnload => n = m

(* A failed stop of m finds no load of it: a sidecar's loads and stops     *)
(* wait for each other, llama.cpp's are only kept apart by the transition  *)
(* queue.                                                                  *)
SafeStop(m) == m \in StopMayFail => ~IsLlama(m) \/ OwnStops(m)

(* The variables the argument reads. *)
Types ==
  /\ Tables /\ AutoUnloads
  /\ op \in [Models -> {"idle", "claim", "load", "loading", "joined", "update", "stopping"}]
  /\ claim \in [Models -> BOOLEAN] /\ lost \in [Models -> BOOLEAN]
  /\ created \in [Models -> BOOLEAN]
  /\ au \in [Models -> Models \cup {None}]
  /\ reload \in [Models -> {"none", "stopping", "load", "loading"}]

(* A load that waits for an auto-unload is still in its loop. *)
Waits == \A n \in Models : au[n] # None => load[n] = "autounload"

(* A load runs only over an empty slot of the session table, and a stop    *)
(* that may fail leaves the slot and the load empty.                       *)
Listed(m) ==
  /\ ~lost[m]
  /\ load[m] # "none" => ~sess[m]
  /\ m \in StopMayFail /\ unl[m] = "stopping" => ~sess[m] /\ load[m] = "none"

(* The transition at the head of m's queue is behind its load or its stop. *)
Queued(m) ==
  /\ load[m] # "none" => op[m] = "loading" /\ ~sess[m]
  /\ unl[m] # "none" => op[m] = "stopping" /\ ~sess[m]
  /\ reload[m] = "none" /\ \A n \in Models : m \notin aul[n]

(* The model claim is held from the answer to the acquire to the end of    *)
(* the stop.                                                               *)
Claimed(m) ==
  op[m] \in {"load", "loading", "joined", "update"} \/ sess[m] \/ unl[m] # "none" => claim[m]

SlotInv ==
  /\ Types /\ Waits
  /\ \A m \in Models : SafeStop(m) => Listed(m)
  /\ \A m \in Models : OwnStops(m) => Queued(m) /\ Claimed(m)

(* The slot of m, as far as the argument reads it, and what a step keeps. *)
SameSlot(m) ==
  /\ op'[m] = op[m] /\ claim'[m] = claim[m] /\ reload'[m] = reload[m]
  /\ sess'[m] = sess[m] /\ unl'[m] = unl[m] /\ lost'[m] = lost[m]
  /\ load'[m] = "none" <=> load[m] = "none"

KeepsSlot(m) ==
  /\ SafeStop(m) => Listed(m)'
  /\ OwnStops(m) => Queued(m)' /\ Claimed(m)'

(* It is enough to look at the one slot a step writes. *)
LEMMA OneSlot ==
  ASSUME SlotInv, NEW k \in Models, \A m \in Models \ {k} : SameSlot(m),
         \A n \in Models : aul'[n] \subseteq aul[n], KeepsSlot(k)
  PROVE  \A m \in Models : KeepsSlot(m)
<1> SUFFICES ASSUME NEW m \in Models, m # k PROVE KeepsSlot(m)
  OBVIOUS
<1>1. SafeStop(m) => Listed(m)'
  BY DEF SlotInv, Listed, SameSlot
<1>2. OwnStops(m) => Queued(m)' /\ Claimed(m)'
  BY DEF SlotInv, Queued, Claimed, SameSlot
<1>3. QED
  BY <1>1, <1>2 DEF KeepsSlot

(* The types of the queue, of the lost processes and of the reloads.       *)
LEMMA FailAcquireTypes ==
  ASSUME NEW k \in Models, Types, FailAcquire(k)
  PROVE  /\ op' = [op EXCEPT ![k] = "idle"] /\ created' = [created EXCEPT ![k] = FALSE]
         /\ claim' \in [Models -> BOOLEAN]
         /\ \A n \in Models \ {k} : claim'[n] = claim[n]
         /\ claim'[k] = (claim[k] /\ ~(created[k] /\ ~sess[k]))
BY DEF FailAcquire, PopOp, Types

(* How a load ends: the load's slot is free, and the acquire that waited   *)
(* for it fails (FailLoad).                                                *)
LEMMA FailLoadSlot ==
  ASSUME SlotInv, NEW k \in Models, FailLoad(k), UNCHANGED stopVars, au[k] = None
  PROVE  /\ op' \in [Models -> {"idle", "claim", "load", "loading", "joined", "update", "stopping"}]
         /\ created' \in [Models -> BOOLEAN] /\ claim' \in [Models -> BOOLEAN]
         /\ reload' \in [Models -> {"none", "stopping", "load", "loading"}]
         /\ Waits' /\ \A m \in Models : KeepsSlot(m)
<1> USE DEF SlotInv, Types
<1>1. /\ load' = [load EXCEPT ![k] = "none"] /\ aul' = [aul EXCEPT ![k] = {}] /\ au' = au
      /\ reload' = [reload EXCEPT ![k] = IF @ = "loading" THEN "none" ELSE @]
      /\ sess' = sess /\ unl' = unl /\ lost' = lost
  BY DEF FailLoad, LeaveQueues, stopVars
<1> USE <1>1
<1>2. \/ op[k] \in {"loading", "joined"} /\ FailAcquire(k)
      \/ op[k] \notin {"loading", "joined"} /\ UNCHANGED queueVars
  BY DEF FailLoad
<1>3. \/ op' = op /\ claim' = claim /\ created' = created /\ op[k] \notin {"loading", "joined"}
      \/ /\ op' = [op EXCEPT ![k] = "idle"] /\ created' = [created EXCEPT ![k] = FALSE]
         /\ claim' \in [Models -> BOOLEAN]
         /\ \A n \in Models \ {k} : claim'[n] = claim[n]
         /\ claim'[k] = (claim[k] /\ ~(created[k] /\ ~sess[k]))
         /\ op[k] \in {"loading", "joined"}
  BY <1>2, FailAcquireTypes DEF queueVars
<1> USE <1>3
<1>4. Waits'
  BY DEF Waits, Tables
<1>5. \A m \in Models \ {k} : SameSlot(m)
  BY DEF SameSlot, Tables
<1>6. \A n \in Models : aul'[n] \subseteq aul[n]
  BY DEF AutoUnloads
<1>7. SafeStop(k) => Listed(k)'
  BY DEF Listed, Tables
<1>8. OwnStops(k) => Queued(k)' /\ Claimed(k)'
  BY <1>6 DEF Queued, Claimed, Tables, AutoUnloads
<1>9. \A m \in Models : KeepsSlot(m)
  BY <1>5, <1>6, <1>7, <1>8, OneSlot DEF KeepsSlot
<1>10. QED
  BY <1>4, <1>9, Zenon

(* What a step keeps of the invariant, the types of Tables aside. *)
Keeps ==
  /\ op' \in [Models -> {"idle", "claim", "load", "loading", "joined", "update", "stopping"}]
  /\ created' \in [Models -> BOOLEAN] /\ claim' \in [Models -> BOOLEAN]
  /\ lost' \in [Models -> BOOLEAN] /\ au' \in [Models -> Models \cup {None}]
  /\ reload' \in [Models -> {"none", "stopping", "load", "loading"}]
  /\ Waits' /\ \A m \in Models : KeepsSlot(m)

LEMMA FailLoadKeeps ==
  ASSUME SlotInv, NEW k \in Models, FailLoad(k), UNCHANGED stopVars, au[k] = None
  PROVE  Keeps
<1>1. lost' = lost /\ au' = au
  BY DEF FailLoad, LeaveQueues, stopVars
<1>2. QED
  BY <1>1, FailLoadSlot DEF Keeps, SlotInv, Types

(* A transition moves on, with its load and its stop as they were.         *)
LEMMA OpStep ==
  ASSUME SlotInv, NEW k \in Models, UNCHANGED <<loadVars, stopVars, reload>>,
         NEW o \in {"idle", "claim", "load", "loading", "joined", "update", "stopping"},
         op' = [op EXCEPT ![k] = o], created' \in [Models -> BOOLEAN],
         NEW c \in BOOLEAN, claim' = [claim EXCEPT ![k] = c],
         load[k] # "none" => op[k] # "loading" \/ o = "loading",
         unl[k] # "none" => op[k] # "stopping" \/ o = "stopping",
         o \in {"load", "loading", "joined", "update"} \/ sess[k] \/ unl[k] # "none" => c \/ ~OwnStops(k)
  PROVE  Keeps
<1>1. /\ load' = load /\ aul' = aul /\ au' = au /\ reload' = reload
      /\ sess' = sess /\ unl' = unl /\ lost' = lost
  BY DEF loadVars, stopVars
<1> USE <1>1
<1>2. op'[k] = o /\ claim'[k] = c
  BY DEF SlotInv, Types
<1>3. \A m \in Models \ {k} : SameSlot(m)
  BY DEF SameSlot, SlotInv, Types
<1>4. SafeStop(k) => Listed(k)'
  BY DEF Listed, SlotInv
<1>5. OwnStops(k) => Queued(k)' /\ Claimed(k)'
  BY <1>2 DEF SlotInv, Queued, Claimed
<1>6. \A m \in Models : KeepsSlot(m)
  BY <1>3, <1>4, <1>5, OneSlot DEF KeepsSlot
<1>7. QED
  BY <1>6 DEF Keeps, Waits, SlotInv, Types

(* A transition ends, and gives up the claim only over no session. *)
LEMMA FailAcquireKeeps ==
  ASSUME SlotInv, NEW k \in Models, UNCHANGED <<loadVars, stopVars, reload>>, FailAcquire(k),
         op[k] \notin {"loading", "stopping"}
  PROVE  Keeps
<1> DEFINE c == claim[k] /\ ~(created[k] /\ ~sess[k])
<1>1. op' = [op EXCEPT ![k] = "idle"] /\ created' \in [Models -> BOOLEAN]
      /\ claim' = [claim EXCEPT ![k] = c]
  BY DEF FailAcquire, PopOp, SlotInv, Types
<1>2. c \in BOOLEAN
  OBVIOUS
<1>3. OwnStops(k) => unl[k] = "none" /\ (sess[k] => c)
  BY DEF SlotInv, Queued, Claimed
<1> HIDE DEF c
<1>4. QED
  BY <1>1, <1>2, <1>3, OpStep, Zenon

(* The claim answers an acquire (acquireModelClaim, ClaimHeld).            *)
LEMMA ClaimHeldKeeps ==
  ASSUME SlotInv, NEW k \in Models, UNCHANGED <<loadVars, stopVars, reload>>, ClaimHeld(k),
         op[k] \in {"idle", "claim"}
  PROVE  Keeps
<1> DEFINE new == ~sess[k] /\ load[k] = "none"
<1>1. OwnStops(k) => unl[k] = "none"
  BY DEF SlotInv, Queued
<1>2. CASE Cancelled(k)
  <2>1. PopOp(k) /\ claim' = [claim EXCEPT ![k] = ~new]
    BY <1>2, Zenon DEF ClaimHeld
  <2>2. (~new) \in BOOLEAN /\ (sess[k] => ~new)
    OBVIOUS
  <2> HIDE DEF new
  <2>3. op' = [op EXCEPT ![k] = "idle"] /\ created' \in [Models -> BOOLEAN]
    BY <2>1 DEF PopOp, SlotInv, Types
  <2>4. QED
    BY <1>1, <2>1, <2>2, <2>3, OpStep, Zenon
<1>3. CASE ~Cancelled(k)
  <2>1. /\ op' = [op EXCEPT ![k] = "load"] /\ claim' = [claim EXCEPT ![k] = TRUE]
        /\ created' = [created EXCEPT ![k] = new]
    BY <1>3, Zenon DEF ClaimHeld
  <2>2. new \in BOOLEAN
    OBVIOUS
  <2> HIDE DEF new
  <2>3. created' \in [Models -> BOOLEAN]
    BY <2>1, <2>2 DEF SlotInv, Types
  <2>4. QED
    BY <2>1, <2>3, OpStep, Zenon
<1>4. QED
  BY <1>2, <1>3

(* Stopping m takes its session out of the table, for a transition of m    *)
(* or for somebody else.                                                   *)
LEMMA BeginStopSlot ==
  ASSUME SlotInv, NEW k \in Models, ~NothingToStop(k), BeginStop(k), UNCHANGED load
  PROVE  /\ lost' = lost /\ unl' \in [Models -> {"none", "waitload", "stopping"}]
         /\ \A n \in Models \ {k} : sess'[n] = sess[n] /\ unl'[n] = unl[n]
         /\ sess'[k] => sess[k]
         /\ unl'[k] # "none" /\ (sess[k] \/ unl[k] # "none" \/ load[k] # "none")
         /\ unl[k] = "none" /\ load[k] = "none" => ~sess'[k]
         /\ SafeStop(k) => Listed(k)'
<1> USE DEF SlotInv, Types, Tables
<1>1. /\ lost' = lost /\ unl' \in [Models -> {"none", "waitload", "stopping"}]
      /\ \A n \in Models \ {k} : sess'[n] = sess[n] /\ unl'[n] = unl[n]
      /\ sess'[k] => sess[k]
      /\ unl'[k] # "none" /\ (sess[k] \/ unl[k] # "none" \/ load[k] # "none")
      /\ unl[k] = "none" /\ load[k] = "none" => ~sess'[k]
  BY DEF BeginStop, TakeDown, NothingToStop, stopVars
<1> USE <1>1
<1>2. CASE UNCHANGED stopVars
  BY <1>2 DEF Listed, stopVars
<1>3. CASE unl[k] = "none" /\ unl' = [unl EXCEPT ![k] = "waitload"] /\ UNCHANGED <<sess, lost>>
  BY <1>3 DEF Listed
<1>4. CASE unl[k] = "none" /\ (IsLlama(k) \/ load[k] = "none") /\ TakeDown(k)
  <2>1. ~sess'[k]
    BY <1>4 DEF TakeDown
  <2>2. SafeStop(k) /\ k \in StopMayFail => load[k] = "none"
    <3>1. CASE load[k] = "none"
      BY <3>1
    <3>2. CASE OwnStops(k)
      BY <3>2, <1>4 DEF Queued, NothingToStop
    <3>3. QED
      BY <3>1, <3>2, <1>4 DEF SafeStop
  <2>3. QED
    BY <2>1, <2>2 DEF Listed
<1>5. QED
  BY <1>2, <1>3, <1>4 DEF BeginStop

(* A stop that m's own transition begins.                                  *)
LEMMA OwnStopKeeps ==
  ASSUME SlotInv, NEW k \in Models, ~NothingToStop(k), BeginStop(k),
         op' = [op EXCEPT ![k] = "stopping"], op[k] \in {"idle", "update"},
         UNCHANGED <<tq, created, claim, loadVars, reload>>
  PROVE  Keeps
<1>1. load' = load /\ au' = au /\ aul' = aul
  BY DEF loadVars
<1> USE <1>1
<1>2. /\ lost' = lost /\ \A n \in Models \ {k} : sess'[n] = sess[n] /\ unl'[n] = unl[n]
      /\ unl'[k] # "none" /\ (sess[k] \/ unl[k] # "none" \/ load[k] # "none")
      /\ unl[k] = "none" /\ load[k] = "none" => ~sess'[k]
      /\ SafeStop(k) => Listed(k)'
  BY BeginStopSlot, Zenon
<1> USE <1>2
<1>3. op'[k] = "stopping" /\ \A m \in Models \ {k} : op'[m] = op[m]
  BY DEF SlotInv, Types
<1>4. OwnStops(k) => Queued(k)' /\ Claimed(k)'
  <2> SUFFICES ASSUME OwnStops(k) PROVE Queued(k)' /\ Claimed(k)'
    OBVIOUS
  <2>1. load[k] = "none" /\ unl[k] = "none"
    BY DEF SlotInv, Queued
  <2>2. sess[k] /\ ~sess'[k] /\ claim[k]
    BY <2>1 DEF SlotInv, Claimed
  <2>3. QED
    BY <1>3, <2>1, <2>2, Zenon DEF SlotInv, Queued, Claimed
<1>5. \A m \in Models \ {k} : SameSlot(m)
  BY <1>3 DEF SameSlot
<1>6. \A m \in Models : KeepsSlot(m)
  BY <1>4, <1>5, OneSlot DEF KeepsSlot
<1>7. QED
  BY <1>6, Zenon DEF Keeps, SlotInv, Types, Waits

(* A stop begun for somebody else: a reload, or the auto-unload of the     *)
(* load of k.                                                              *)
LEMMA OtherStopKeeps ==
  ASSUME SlotInv, NEW k \in Models, NEW n \in Models, ~OwnStops(n),
         UNCHANGED stopVars \/ (~NothingToStop(n) /\ BeginStop(n)),
         UNCHANGED <<queueVars, load>>, \A i \in Models : aul'[i] \subseteq aul[i],
         au' \in [Models -> Models \cup {None}], Waits',
         reload' \in [Models -> {"none", "stopping", "load", "loading"}],
         \A m \in Models \ {n} : reload'[m] = reload[m]
  PROVE  Keeps
<1>1. op' = op /\ created' = created /\ claim' = claim /\ load' = load
  BY DEF queueVars
<1> USE <1>1
<1>2. /\ lost' = lost /\ \A m \in Models \ {n} : sess'[m] = sess[m] /\ unl'[m] = unl[m]
      /\ SafeStop(n) => Listed(n)'
  BY BeginStopSlot DEF stopVars, Listed, SlotInv
<1> USE <1>2
<1>3. \A m \in Models \ {n} : SameSlot(m)
  BY DEF SameSlot
<1>4. \A m \in Models : KeepsSlot(m)
  BY <1>3, OneSlot DEF KeepsSlot
<1>5. QED
  BY <1>4 DEF Keeps, SlotInv, Types

(* The stop of k has settled (Settled).  `up` says whether it failed and   *)
(* put the session back.                                                   *)
LEMMA SettledKeeps ==
  ASSUME SlotInv, NEW k \in Models, NEW ok \in BOOLEAN, Settled(k, ok), unl[k] # "none",
         unl' = [unl EXCEPT ![k] = "none"], NEW up \in BOOLEAN, up => ~ok,
         sess'[k] = (up \/ sess[k]), \A n \in Models \ {k} : sess'[n] = sess[n],
         lost' \in [Models -> BOOLEAN], \A n \in Models \ {k} : lost'[n] = lost[n],
         lost'[k] => lost[k] \/ (up /\ sess[k]),
         up => k \in StopMayFail /\ unl[k] = "stopping"
  PROVE  Keeps
<1>1. /\ aul' = aul
      /\ au' = [n \in Models |-> IF au[n] = k THEN None ELSE au[n]]
      /\ reload' = [reload EXCEPT ![k] = IF @ = "stopping" THEN "load" ELSE @]
      /\ load' = [n \in Models |-> IF au[n] = k /\ ~ok /\ IsLlama(n) THEN "failing" ELSE load[n]]
  BY DEF Settled
<1>2. /\ au' \in [Models -> Models \cup {None}] /\ Waits'
      /\ \A n \in Models : load'[n] = "none" <=> load[n] = "none"
  <2>1. au' \in [Models -> Models \cup {None}] /\ \A n \in Models : au'[n] # None => au[n] # k /\ au[n] # None
    BY <1>1 DEF SlotInv, Types
  <2>2. \A n \in Models : load'[n] = load[n] \/ (au[n] = k /\ load'[n] = "failing")
    BY <1>1
  <2>3. \A n \in Models : au[n] = k => load[n] = "autounload"
    BY ModelAssumption DEF SlotInv, Waits
  <2>4. Waits'
    <3>1. \A n \in Models : au[n] # None => load[n] = "autounload"
      BY DEF SlotInv, Waits
    <3>2. QED
      BY <2>1, <2>2, <3>1, Zenon DEF Waits
  <2>5. \A n \in Models : load'[n] = "none" <=> load[n] = "none"
    BY <2>2, <2>3
  <2>6. QED
    BY <2>1, <2>4, <2>5
<1>3. /\ reload' \in [Models -> {"none", "stopping", "load", "loading"}]
      /\ \A n \in Models : reload[n] = "none" <=> reload'[n] = "none"
      /\ \A n \in Models \ {k} : reload'[n] = reload[n]
  BY <1>1 DEF SlotInv, Types
<1>4. /\ op' \in [Models -> {"idle", "claim", "load", "loading", "joined", "update", "stopping"}]
      /\ created' \in [Models -> BOOLEAN]
      /\ \A n \in Models \ {k} : op'[n] = op[n]
      /\ op'[k] = IF op[k] = "stopping" THEN "idle" ELSE op[k]
  <2>1. CASE op[k] # "stopping"
    BY <2>1 DEF Settled, queueVars, SlotInv, Types
  <2>2. CASE op[k] = "stopping"
    <3>1. op' = [op EXCEPT ![k] = "idle"] /\ created' = [created EXCEPT ![k] = FALSE]
      BY <2>2 DEF Settled, PopOp
    <3>2. QED
      BY <2>2, <3>1 DEF SlotInv, Types
  <2>3. QED
    BY <2>1, <2>2
<1>5. /\ claim' \in [Models -> BOOLEAN] /\ \A n \in Models \ {k} : claim'[n] = claim[n]
      /\ op[k] # "stopping" \/ up => claim'[k] = claim[k]
  <2>1. CASE op[k] # "stopping"
    BY <2>1 DEF Settled, queueVars, SlotInv, Types
  <2>2. CASE op[k] = "stopping"
    <3> DEFINE c == IF Head(tq[k]) \in {"unload", "evict"} THEN ~ok ELSE sess'[k]
    <3>1. claim' = [claim EXCEPT ![k] = claim[k] /\ c]
      BY <2>2, Zenon DEF Settled, SlotInv, Types
    <3>2. up => c
      BY Zenon
    <3> DEFINE d == claim[k] /\ c
    <3>3. d \in BOOLEAN /\ (up => d = claim[k])
      <4>1. claim[k] \in BOOLEAN
        BY Zenon DEF SlotInv, Types
      <4>2. QED
        BY <3>2, <4>1, Zenon
    <3>4. claim' = [claim EXCEPT ![k] = d]
      BY <3>1, Zenon
    <3> HIDE DEF d
    <3>5. QED
      BY <2>2, <3>3, <3>4 DEF SlotInv, Types
  <2>3. QED
    BY <2>1, <2>2
<1>6. unl'[k] = "none" /\ \A n \in Models \ {k} : unl'[n] = unl[n]
  BY DEF SlotInv, Types, Tables
<1> USE <1>6
<1>7. \A m \in Models \ {k} : SameSlot(m)
  BY <1>2, <1>3, <1>4, <1>5 DEF SameSlot
<1>8. SafeStop(k) => Listed(k)'
  BY <1>2, Zenon DEF Listed, SlotInv
<1>9. OwnStops(k) => Queued(k)' /\ Claimed(k)'
  <2> SUFFICES ASSUME OwnStops(k) PROVE Queued(k)' /\ Claimed(k)'
    OBVIOUS
  <2>1. op[k] = "stopping" /\ ~sess[k] /\ load[k] = "none" /\ claim[k]
    BY Zenon DEF Queued, Claimed, SlotInv
  <2>2. op'[k] = "idle" /\ load'[k] = "none" /\ reload'[k] = "none"
    BY <1>2, <1>3, <1>4, <2>1 DEF Queued, SlotInv
  <2>3. sess'[k] => claim'[k]
    BY <1>5, <2>1, Zenon
  <2>4. QED
    BY <1>1, <2>2, <2>3, Zenon DEF Queued, Claimed, SlotInv
<1>10. \A m \in Models : KeepsSlot(m)
  BY <1>1, <1>7, <1>8, <1>9, OneSlot, Zenon DEF KeepsSlot
<1>11. QED
  BY <1>2, <1>3, <1>4, <1>5, <1>10 DEF Keeps

(* A new load enters over an empty slot (runtime.load, the load of a       *)
(* reload).                                                                *)
LEMMA EnterKeeps ==
  ASSUME SlotInv, NEW k \in Models, NEW who, EnterQueue(k, who), UNCHANGED <<stopVars, created, claim>>,
         ~sess[k], ~LoadBlocked(k), load[k] = "none",
         op' \in [Models -> {"idle", "claim", "load", "loading", "joined", "update", "stopping"}],
         reload' \in [Models -> {"none", "stopping", "load", "loading"}],
         \A n \in Models \ {k} : op'[n] = op[n] /\ reload'[n] = reload[n],
         OwnStops(k) => op[k] = "load" /\ op'[k] = "loading" /\ reload'[k] = "none"
  PROVE  Keeps
<1>1. /\ load' = [load EXCEPT ![k] = "queued"] /\ au' = au /\ aul' = aul
      /\ sess' = sess /\ unl' = unl /\ lost' = lost
  BY Zenon DEF EnterQueue, stopVars
<1> USE <1>1
<1>2. load'[k] = "queued" /\ \A n \in Models \ {k} : load'[n] = load[n]
  BY DEF SlotInv, Types, Tables
<1> USE <1>2
<1>3. au[k] = None
  BY Zenon DEF SlotInv, Waits
<1>4. Waits'
  BY <1>3 DEF SlotInv, Waits
<1>5. \A m \in Models \ {k} : SameSlot(m)
  BY DEF SameSlot
<1>6. SafeStop(k) => Listed(k)'
  <2> SUFFICES ASSUME SafeStop(k) PROVE Listed(k)'
    OBVIOUS
  <2>1. k \in StopMayFail => unl[k] # "stopping"
    BY Zenon DEF SafeStop, LoadBlocked, SlotInv, Queued
  <2>2. QED
    BY <2>1 DEF Listed, SlotInv
<1>7. OwnStops(k) => Queued(k)' /\ Claimed(k)'
  BY DEF Queued, Claimed, SlotInv
<1>8. \A m \in Models : KeepsSlot(m)
  BY <1>5, <1>6, <1>7, OneSlot DEF KeepsSlot
<1>9. QED
  BY <1>4, <1>8 DEF Keeps, SlotInv, Types

(* A load moves on to its next stage. *)
LEMMA StageKeeps ==
  ASSUME SlotInv, NEW k \in Models, load[k] # "none", au[k] = None,
         NEW s \in {"planning", "waiting", "evicting", "starting", "autounload"},
         load' = [load EXCEPT ![k] = s],
         UNCHANGED <<op, created, claim, au, stopVars, reload>>,
         \A n, m \in Models : m \in aul'[n] => m \in aul[n] \/ ~OwnStops(m)
  PROVE  Keeps
<1>1. sess' = sess /\ unl' = unl /\ lost' = lost
  BY DEF stopVars
<1> USE <1>1
<1>2. \A n \in Models : load'[n] = "none" <=> load[n] = "none"
  BY DEF SlotInv, Types, Tables
<1>3. Waits'
  BY DEF SlotInv, Types, Tables, Waits
<1>4. \A m \in Models : KeepsSlot(m)
  <2> SUFFICES ASSUME NEW m \in Models PROVE KeepsSlot(m)
    OBVIOUS
  <2>1. SafeStop(m) => Listed(m)'
    BY <1>2 DEF SlotInv, Listed
  <2>2. OwnStops(m) => Queued(m)' /\ Claimed(m)'
    BY <1>2 DEF SlotInv, Queued, Claimed
  <2>3. QED
    BY <2>1, <2>2 DEF KeepsSlot
<1>5. QED
  BY <1>3, <1>4 DEF Keeps, SlotInv, Types

(* A claim with the turn moves on. *)
LEMMA AdvanceKeeps ==
  ASSUME SlotInv, NEW k \in Models, NEW rest, Advance(k, rest), UNCHANGED stopVars,
         load[k] \in {"waiting", "evicting"}
  PROVE  Keeps
<1>1. au[k] = None /\ load[k] # "none"
  BY DEF SlotInv, Waits
<1>2. CASE FailLoad(k)
  BY <1>1, <1>2, FailLoadKeeps
<1>3. CASE /\ load' = [load EXCEPT ![k] = "starting"] \/ load' = [load EXCEPT ![k] = "evicting"]
           /\ UNCHANGED <<op, created, claim, au, aul, reload>>
  BY <1>1, <1>3, StageKeeps, Zenon
<1>4. QED
  BY <1>2, <1>3 DEF Advance, queueVars

(* The end of a load, published or aborted. *)
LEMMA LoadReadyKeeps ==
  ASSUME SlotInv, NEW k \in Models, LoadReady(k) PROVE Keeps
<1>1. /\ load[k] = "starting" /\ load' = [load EXCEPT ![k] = "none"]
      /\ aul' = [aul EXCEPT ![k] = {}] /\ au' = au
      /\ reload' = [reload EXCEPT ![k] = IF @ = "loading" THEN "none" ELSE @]
      /\ sess' = [sess EXCEPT ![k] = TRUE] /\ unl' = unl /\ claim' = claim /\ created' = created
      /\ op' = [op EXCEPT ![k] = IF @ \in {"loading", "joined"} THEN "update" ELSE @]
      /\ lost' = [lost EXCEPT ![k] = @ \/ sess[k]]
  BY DEF LoadReady, LeaveQueues
<1> USE <1>1
<1>2. /\ op' \in [Models -> {"idle", "claim", "load", "loading", "joined", "update", "stopping"}]
      /\ reload' \in [Models -> {"none", "stopping", "load", "loading"}]
      /\ lost' \in [Models -> BOOLEAN]
  BY DEF SlotInv, Types, Tables
<1>3. au[k] = None /\ Waits'
  BY DEF SlotInv, Types, Tables, Waits
<1>4. \A m \in Models \ {k} : SameSlot(m)
  BY DEF SlotInv, Types, Tables, SameSlot
<1>5. \A n \in Models : aul'[n] \subseteq aul[n]
  BY DEF SlotInv, Types, AutoUnloads
<1>6. SafeStop(k) => Listed(k)'
  <2> SUFFICES ASSUME SafeStop(k) PROVE Listed(k)'
    OBVIOUS
  <2>1. ~lost[k] /\ ~sess[k] /\ ~(k \in StopMayFail /\ unl[k] = "stopping")
    BY DEF SlotInv, Listed
  <2>2. load'[k] = "none" /\ ~lost'[k]
    BY <2>1 DEF SlotInv, Types, Tables
  <2>3. QED
    BY <2>1, <2>2 DEF Listed
<1>7. OwnStops(k) => Queued(k)' /\ Claimed(k)'
  <2> SUFFICES ASSUME OwnStops(k) PROVE Queued(k)' /\ Claimed(k)'
    OBVIOUS
  <2>1. op[k] = "loading" /\ unl[k] = "none" /\ reload[k] = "none" /\ claim[k]
    BY DEF SlotInv, Queued, Claimed
  <2>2. load'[k] = "none" /\ reload'[k] = "none" /\ \A n \in Models : k \notin aul'[n]
    BY <1>5, <2>1 DEF SlotInv, Types, Tables, Queued
  <2>3. QED
    BY <2>1, <2>2 DEF Queued, Claimed
<1>8. \A m \in Models : KeepsSlot(m)
  BY <1>4, <1>5, <1>6, <1>7, OneSlot DEF KeepsSlot
<1>9. QED
  BY <1>2, <1>3, <1>8 DEF Keeps, SlotInv, Types

(* An aborted load ends as a failed one does, its place in the line aside. *)
LEMMA AbortKeeps ==
  ASSUME SlotInv, NEW k \in Models, AbortLoad(k) PROVE Keeps
<1> DEFINE c == claim[k] /\ ~(created[k] /\ ~sess[k])
<1>1. /\ load[k] \in {"queued", "waiting", "evicting"} /\ op[k] = "loading"
      /\ load' = [load EXCEPT ![k] = "none"] /\ aul' = [aul EXCEPT ![k] = {}] /\ au' = au
      /\ reload' = [reload EXCEPT ![k] = IF @ = "loading" THEN "none" ELSE @]
      /\ sess' = sess /\ unl' = unl /\ lost' = lost
      /\ op' = [op EXCEPT ![k] = "idle"] /\ created' = [created EXCEPT ![k] = FALSE]
  BY DEF AbortLoad, CanAbort, LeaveQueues, stopVars
<1> USE <1>1
<1>2. claim' = [claim EXCEPT ![k] = c]
  BY Zenon DEF AbortLoad
<1>3. c \in BOOLEAN /\ (sess[k] /\ claim[k] => c)
  OBVIOUS
<1> HIDE DEF c
<1>4. /\ reload' \in [Models -> {"none", "stopping", "load", "loading"}]
      /\ claim' \in [Models -> BOOLEAN] /\ created' \in [Models -> BOOLEAN]
  BY <1>2, <1>3 DEF SlotInv, Types
<1>5. au[k] = None /\ Waits'
  BY DEF SlotInv, Types, Tables, Waits
<1>6. \A m \in Models \ {k} : SameSlot(m)
  BY <1>2 DEF SlotInv, Types, Tables, SameSlot
<1>7. \A n \in Models : aul'[n] \subseteq aul[n]
  BY DEF SlotInv, Types, AutoUnloads
<1>8. load'[k] = "none" /\ op'[k] = "idle" /\ claim'[k] = c
  BY <1>2 DEF SlotInv, Types, Tables
<1>9. SafeStop(k) => Listed(k)'
  BY <1>8 DEF SlotInv, Listed
<1>10. OwnStops(k) => Queued(k)' /\ Claimed(k)'
  <2> SUFFICES ASSUME OwnStops(k) PROVE Queued(k)' /\ Claimed(k)'
    OBVIOUS
  <2>1. ~sess[k] /\ unl[k] = "none" /\ reload[k] = "none"
    BY DEF SlotInv, Queued
  <2>2. reload'[k] = "none" /\ \A n \in Models : k \notin aul'[n]
    BY <1>7, <2>1, Zenon DEF SlotInv, Types, Queued
  <2>3. QED
    BY <1>8, <2>1, <2>2 DEF Queued, Claimed
<1>11. \A m \in Models : KeepsSlot(m)
  BY <1>6, <1>7, <1>9, <1>10, OneSlot DEF KeepsSlot
<1>12. QED
  BY <1>4, <1>5, <1>11 DEF Keeps, SlotInv, Types

(* A session that died leaves the table. *)
LEMMA DiedKeeps ==
  ASSUME SlotInv, NEW k \in Models, SessionDied(k) PROVE Keeps
<1>1. /\ sess' = [sess EXCEPT ![k] = FALSE] /\ unl' = unl /\ lost' = lost /\ reload' = reload
      /\ load' = load /\ au' = au /\ aul' = aul /\ op' = op /\ claim' = claim /\ created' = created
  BY DEF SessionDied, loadVars, queueVars
<1> USE <1>1
<1>2. ~sess'[k] /\ \A m \in Models \ {k} : SameSlot(m)
  BY DEF SlotInv, Types, Tables, SameSlot
<1> USE <1>2
<1>3. SafeStop(k) => Listed(k)'
  BY DEF SlotInv, Listed
<1>4. OwnStops(k) => Queued(k)' /\ Claimed(k)'
  BY DEF SlotInv, Queued, Claimed
<1>5. \A m \in Models : KeepsSlot(m)
  BY <1>3, <1>4, OneSlot DEF KeepsSlot
<1>6. QED
  BY <1>5 DEF Keeps, SlotInv, Types, Waits

(* The auto-unload loop: the list it starts with, and its next stop.       *)
LEMMA StartLoadKeeps ==
  ASSUME SlotInv, NEW k \in Models, StartLoad(k) PROVE Keeps
<1>1. /\ load[k] = "queued" /\ load' = [load EXCEPT ![k] = "autounload"]
      /\ UNCHANGED <<op, created, claim, au, stopVars, reload>>
  BY DEF StartLoad, queueVars
<1> USE <1>1
<1>2. au[k] = None
  BY DEF SlotInv, Waits
<1>3. PICK s : /\ aul' = [aul EXCEPT ![k] = s]
               /\ s = {} \/ (Provider[k] \in AutoUnload /\ s = AutoUnloadTargets(k))
  BY DEF StartLoad
<1>4. \A m \in Models : m \in s => ~OwnStops(m)
  <2> SUFFICES ASSUME NEW m \in s, m \in Models, OwnStops(m) PROVE FALSE
    OBVIOUS
  <2>1. Provider[m] = Provider[k] /\ Provider[k] \in AutoUnload /\ sess[m]
    BY <1>3 DEF AutoUnloadTargets
  <2>2. m = k
    BY <2>1 DEF OwnStops
  <2>3. QED
    BY <2>1, <2>2, Zenon DEF SlotInv, Queued
<1>5. \A n, m \in Models : m \in aul'[n] => m \in aul[n] \/ ~OwnStops(m)
  BY <1>3, <1>4 DEF SlotInv, Types, AutoUnloads
<1>6. QED
  BY <1>2, <1>5, StageKeeps, Zenon

LEMMA AutoUnloadKeeps ==
  ASSUME SlotInv, NEW k \in Models, AutoUnloadNext(k) PROVE Keeps
<1>1. load[k] = "autounload" /\ au[k] = None
  BY DEF AutoUnloadNext, CanAutoUnload
<1> USE <1>1
<1>2. CASE FailLoad(k) /\ UNCHANGED stopVars
  BY <1>2, FailLoadKeeps
<1>3. CASE /\ load' = [load EXCEPT ![k] = "planning"]
           /\ UNCHANGED <<queueVars, by, au, aul, pq, stopVars, reload>>
  BY <1>3, StageKeeps, Zenon DEF queueVars
<1>4. ASSUME NEW n \in aul[k], aul' = [aul EXCEPT ![k] = @ \ {n}],
             IF NothingToStop(n) THEN UNCHANGED <<au, stopVars>>
             ELSE BeginStop(n) /\ au' = [au EXCEPT ![k] = n],
             UNCHANGED <<queueVars, load, by, pq, reload>>
      PROVE  Keeps
  <2>1. n \in Models /\ ~OwnStops(n)
    BY <1>4, Zenon DEF SlotInv, Types, AutoUnloads, Queued
  <2>2. \A i \in Models : aul'[i] \subseteq aul[i]
    BY <1>4 DEF SlotInv, Types, AutoUnloads
  <2>3. au' \in [Models -> Models \cup {None}] /\ Waits'
    BY <1>4, <2>1, Zenon DEF SlotInv, Types, Waits
  <2>4. QED
    BY <1>4, <2>1, <2>2, <2>3, OtherStopKeeps DEF SlotInv, Types
<1>5. QED
  BY <1>2, <1>3, <1>4 DEF AutoUnloadNext

(* A stop that leaves the table alone settles. *)
LEMMA QuietlySettledKeeps ==
  ASSUME SlotInv, NEW k \in Models, NEW ok \in BOOLEAN, Settled(k, ok), unl[k] # "none",
         unl' = [unl EXCEPT ![k] = "none"], UNCHANGED <<sess, lost>>
  PROVE  Keeps
<1> DEFINE up == FALSE
<1>1. sess[k] \in BOOLEAN /\ lost \in [Models -> BOOLEAN]
  BY DEF SlotInv, Types, Tables
<1>2. up \in BOOLEAN /\ ~up /\ sess'[k] = (up \/ sess[k])
  BY <1>1, Zenon
<1> HIDE DEF up
<1>3. QED
  BY <1>1, <1>2, SettledKeeps, Zenon

(* Stops that end. *)
LEMMA StopEndKeeps ==
  ASSUME SlotInv, NEW k \in Models, StopAfterLoad(k) \/ StopDone(k) \/ StopFailed(k) PROVE Keeps
<1>1. CASE StopDone(k)
  <2>1. /\ Settled(k, TRUE) /\ unl[k] = "stopping" /\ UNCHANGED <<sess, lost>>
        /\ unl' = [unl EXCEPT ![k] = "none"]
    BY <1>1, Zenon DEF StopDone
  <2>2. QED
    BY <2>1, QuietlySettledKeeps, Zenon
<1>2. CASE StopFailed(k)
  <2>1. /\ k \in StopMayFail /\ unl[k] = "stopping" /\ Settled(k, FALSE)
        /\ unl' = [unl EXCEPT ![k] = "none"]
    BY <1>2, Zenon DEF StopFailed
  <2>2. CASE lost' = [lost EXCEPT ![k] = @ \/ sess[k]] /\ sess' = [sess EXCEPT ![k] = TRUE]
    <3> DEFINE up == TRUE
    <3>1. /\ \A n \in Models \ {k} : lost'[n] = lost[n] /\ sess'[n] = sess[n]
          /\ lost' \in [Models -> BOOLEAN] /\ sess'[k] = TRUE /\ (lost'[k] => lost[k] \/ sess[k])
      BY <2>2 DEF SlotInv, Types, Tables
    <3>2. up \in BOOLEAN /\ up /\ sess'[k] = (up \/ sess[k])
      BY <3>1, Zenon
    <3> HIDE DEF up
    <3>3. QED
      BY <2>1, <3>1, <3>2, SettledKeeps, Zenon
  <2>3. CASE UNCHANGED <<lost, sess>>
    BY <2>1, <2>3, QuietlySettledKeeps, Zenon
  <2>4. QED
    BY <1>2, <2>2, <2>3 DEF StopFailed
<1>3. CASE StopAfterLoad(k)
  <2>1. unl[k] = "waitload"
    BY <1>3, Zenon DEF StopAfterLoad, CanStopAfterLoad
  <2>2. CASE ~sess[k]
    <3>1. Settled(k, TRUE) /\ unl' = [unl EXCEPT ![k] = "none"] /\ UNCHANGED <<sess, lost>>
      BY <1>3, <2>2, Zenon DEF StopAfterLoad
    <3>2. QED
      BY <2>1, <3>1, QuietlySettledKeeps, Zenon
  <2>3. CASE sess[k]
    <3>1. /\ load[k] = "none" /\ UNCHANGED <<queueVars, loadVars, reload>>
          /\ unl' = [unl EXCEPT ![k] = "stopping"] /\ sess' = [sess EXCEPT ![k] = FALSE]
          /\ lost' = lost
      BY <1>3, <2>3, Zenon DEF StopAfterLoad, CanStopAfterLoad, TakeDown
    <3> USE <3>1
    <3>2. /\ op' = op /\ created' = created /\ claim' = claim /\ load' = load /\ au' = au /\ aul' = aul
      BY DEF queueVars, loadVars
    <3> USE <3>2
    <3>3. ~OwnStops(k)
      BY <2>1, <2>3, Zenon DEF SlotInv, Queued
    <3>4. ~sess'[k] /\ \A m \in Models \ {k} : SameSlot(m)
      BY DEF SlotInv, Types, Tables, SameSlot
    <3>5. SafeStop(k) => Listed(k)'
      BY <3>4, Zenon DEF SlotInv, Listed
    <3>6. \A m \in Models : KeepsSlot(m)
      BY <3>3, <3>4, <3>5, OneSlot, Zenon DEF KeepsSlot
    <3>7. QED
      BY <3>6 DEF Keeps, SlotInv, Types, Waits
  <2>4. QED
    BY <2>2, <2>3
<1>4. QED
  BY <1>1, <1>2, <1>3

(* Transitions that move on. *)
LEMMA TransitionKeeps ==
  ASSUME SlotInv, NEW k \in Models,
         \/ StartOp(k) \/ ClaimAnswer(k) \/ RefusedByLegacy(k) \/ AbandonWait(k)
         \/ FinishAcquire(k) \/ UpdateFails(k)
  PROVE  Keeps
<1>1. CASE /\ UNCHANGED <<loadVars, stopVars, reload>> /\ FailAcquire(k)
           /\ op[k] \in {"load", "joined", "update"}
  BY <1>1, FailAcquireKeeps, Zenon
<1>2. CASE /\ UNCHANGED <<loadVars, stopVars, reload, claim>> /\ PopOp(k)
           /\ op[k] \in {"idle", "claim", "update"}
  <2>1. /\ op' = [op EXCEPT ![k] = "idle"] /\ created' \in [Models -> BOOLEAN]
        /\ claim[k] \in BOOLEAN /\ claim' = [claim EXCEPT ![k] = claim[k]]
    BY <1>2 DEF PopOp, SlotInv, Types
  <2>2. OwnStops(k) /\ (sess[k] \/ unl[k] # "none") => claim[k]
    BY DEF SlotInv, Claimed
  <2>3. QED
    BY <1>2, <2>1, <2>2, OpStep, Zenon
<1>3. CASE StartOp(k)
  <2>1. op[k] = "idle" /\ UNCHANGED <<loadVars, reload>>
    BY <1>3 DEF StartOp, CanStartOp
  <2> USE <2>1
  <2>2. CASE ClaimHeld(k) /\ UNCHANGED stopVars
    BY <2>2, ClaimHeldKeeps
  <2>3. CASE op' = [op EXCEPT ![k] = "claim"] /\ UNCHANGED <<tq, created, claim>> /\ UNCHANGED stopVars
    <3>1. /\ created' \in [Models -> BOOLEAN]
          /\ claim[k] \in BOOLEAN /\ claim' = [claim EXCEPT ![k] = claim[k]]
      BY <2>3 DEF SlotInv, Types
    <3>2. OwnStops(k) /\ (sess[k] \/ unl[k] # "none") => claim[k]
      BY Zenon DEF SlotInv, Claimed
    <3>3. QED
      BY <2>3, <3>1, <3>2, OpStep, Zenon
  <2>4. CASE NothingToStop(k) /\ PopOp(k) /\ claim' = [claim EXCEPT ![k] = FALSE] /\ UNCHANGED stopVars
    <3>1. op' = [op EXCEPT ![k] = "idle"] /\ created' \in [Models -> BOOLEAN]
      BY <2>4 DEF PopOp, SlotInv, Types
    <3>2. ~sess[k] /\ unl[k] = "none"
      BY <2>4 DEF NothingToStop
    <3>3. QED
      BY <2>4, <3>1, <3>2, OpStep, Zenon
  <2>5. CASE ~NothingToStop(k) /\ BeginStop(k) /\ op' = [op EXCEPT ![k] = "stopping"]
             /\ UNCHANGED <<tq, created, claim>>
    BY <2>5, OwnStopKeeps, Zenon
  <2>6. QED
    BY <1>2, <1>3, <2>2, <2>3, <2>4, <2>5 DEF StartOp
<1>4. CASE ClaimAnswer(k)
  BY <1>2, <1>4, ClaimHeldKeeps DEF ClaimAnswer
<1>5. CASE RefusedByLegacy(k) \/ AbandonWait(k) \/ UpdateFails(k)
  BY <1>1, <1>5 DEF RefusedByLegacy, AbandonWait, CanAbandon, UpdateFails
<1>6. CASE FinishAcquire(k)
  BY <1>1, <1>2, <1>6, OwnStopKeeps DEF FinishAcquire
<1>7. QED
  BY <1>3, <1>4, <1>5, <1>6

(* Loads that begin. *)
LEMMA BeginLoadKeeps ==
  ASSUME SlotInv, NEW k \in Models, AcquireLoad(k) \/ ReloadLoad(k) PROVE Keeps
<1>1. CASE AcquireLoad(k)
  <2>1. /\ op[k] = "load" /\ ~LoadBlocked(k) /\ UNCHANGED <<tq, created, claim, stopVars, reload>>
    BY <1>1, Zenon DEF AcquireLoad
  <2> USE <2>1
  <2>2. CASE UNCHANGED loadVars /\ (op' = [op EXCEPT ![k] = "update"] \/ op' = [op EXCEPT ![k] = "joined"])
    <3>1. /\ created' \in [Models -> BOOLEAN]
          /\ claim[k] \in BOOLEAN /\ claim' = [claim EXCEPT ![k] = claim[k]]
      BY DEF SlotInv, Types
    <3>2. OwnStops(k) => claim[k]
      BY DEF SlotInv, Claimed
    <3>3. QED
      BY <2>2, <3>1, <3>2, OpStep, Zenon
  <2>3. CASE /\ ~sess[k] /\ load[k] = "none"
             /\ op' = [op EXCEPT ![k] = "loading"] /\ EnterQueue(k, "acquire")
    <3>1. OwnStops(k) => reload'[k] = "none"
      BY Zenon DEF SlotInv, Queued
    <3>2. QED
      BY <2>3, <3>1, EnterKeeps, Zenon DEF SlotInv, Types
  <2>4. QED
    BY <1>1, <2>2, <2>3, Zenon DEF AcquireLoad
<1>2. CASE ReloadLoad(k)
  <2>1. /\ ~OwnStops(k) /\ ~LoadBlocked(k) /\ UNCHANGED <<queueVars, stopVars>>
        /\ reload' \in [Models -> {"none", "stopping", "load", "loading"}]
        /\ \A m \in Models \ {k} : reload'[m] = reload[m]
    BY <1>2, Zenon DEF ReloadLoad, CanReloadLoad, SlotInv, Types, Queued
  <2> USE <2>1
  <2>2. op' = op /\ created' = created /\ claim' = claim
    BY DEF queueVars
  <2>3. CASE UNCHANGED loadVars
    <3>1. load' = load /\ aul' = aul /\ au' = au
      BY <2>3 DEF loadVars
    <3>2. Waits' /\ au' \in [Models -> Models \cup {None}] /\ \A i \in Models : aul'[i] \subseteq aul[i]
      BY <3>1, Zenon DEF SlotInv, Types, Waits
    <3>3. QED
      BY <3>1, <3>2, OtherStopKeeps
  <2>4. CASE ~sess[k] /\ load[k] = "none" /\ EnterQueue(k, "reload")
    BY <2>2, <2>4, EnterKeeps, Zenon DEF SlotInv, Types
  <2>5. QED
    BY <1>2, <2>3, <2>4 DEF ReloadLoad
<1>3. QED
  BY <1>1, <1>2

(* Every step keeps the invariant. *)
LEMMA StepKeeps ==
  ASSUME SlotInv, NEW k \in Models, CoreStep(k) \/ OutsideStep(k) PROVE Keeps
<1>1. CASE Planned(k) \/ TakeTurn(k) \/ EvictNext(k) \/ LoadFails(k)
  <2>1. CASE Planned(k)
    <3>1. /\ load[k] = "planning" /\ UNCHANGED <<op, created, claim, au, aul, stopVars, reload>>
          /\ \/ load' = [load EXCEPT ![k] = "waiting"] \/ load' = [load EXCEPT ![k] = "starting"]
      BY <2>1, Zenon DEF Planned, queueVars
    <3>2. au[k] = None
      BY <3>1 DEF SlotInv, Waits
    <3>3. QED
      BY <3>1, <3>2, StageKeeps, Zenon
  <2>2. CASE TakeTurn(k) \/ EvictNext(k)
    BY <2>2, AdvanceKeeps DEF TakeTurn, CanTakeTurn, EvictNext, CanEvictNext
  <2>3. CASE LoadFails(k)
    <3>1. load[k] # "autounload" /\ FailLoad(k) /\ UNCHANGED stopVars
      BY <2>3 DEF LoadFails
    <3>2. au[k] = None
      BY <3>1 DEF SlotInv, Waits
    <3>3. QED
      BY <3>1, <3>2, FailLoadKeeps
  <2>4. QED
    BY <1>1, <2>1, <2>2, <2>3
<1>2. CASE Reload(k)
  <2>1. /\ ~OwnStops(k) /\ ~NothingToStop(k) /\ BeginStop(k) /\ UNCHANGED <<queueVars, loadVars>>
        /\ reload' = [reload EXCEPT ![k] = "stopping"]
    BY <1>2, Zenon DEF Reload, OwnStops, NothingToStop
  <2>2. /\ load' = load /\ \A i \in Models : aul'[i] \subseteq aul[i]
        /\ au' \in [Models -> Models \cup {None}] /\ Waits'
        /\ reload' \in [Models -> {"none", "stopping", "load", "loading"}]
        /\ \A m \in Models \ {k} : reload'[m] = reload[m]
    BY <2>1, Zenon DEF loadVars, SlotInv, Types, Waits
  <2>3. QED
    BY <2>1, <2>2, OtherStopKeeps
<1>3. CASE Acquire(k) \/ Unload(k) \/ CancelLoad(k)
  <2>1. UNCHANGED <<op, created, claim, loadVars, stopVars, reload>>
    BY <1>3 DEF Acquire, Unload, CancelLoad
  <2>2. op' = [op EXCEPT ![k] = op[k]] /\ claim' = [claim EXCEPT ![k] = claim[k]]
        /\ op[k] \in {"idle", "claim", "load", "loading", "joined", "update", "stopping"}
        /\ claim[k] \in BOOLEAN /\ created' \in [Models -> BOOLEAN]
    BY <2>1 DEF SlotInv, Types
  <2>3. OwnStops(k) /\ (op[k] \in {"load", "loading", "joined", "update"} \/ sess[k] \/ unl[k] # "none")
          => claim[k]
    BY DEF SlotInv, Claimed
  <2>4. QED
    BY <2>1, <2>2, <2>3, OpStep, Zenon
<1>4. QED
  BY <1>1, <1>2, <1>3, TransitionKeeps, BeginLoadKeeps, StartLoadKeeps, AutoUnloadKeeps, AbortKeeps,
     LoadReadyKeeps, StopEndKeeps, DiedKeeps, Zenon DEF CoreStep, OutsideStep

LEMMA SlotInductive ==
  ASSUME SlotInv, [Next]_vars PROVE SlotInv'
<1>1. CASE UNCHANGED vars
  <2>1. UNCHANGED <<op, created, claim, load, au, aul, sess, unl, lost, reload>>
    BY <1>1 DEF vars, queueVars, loadVars, stopVars
  <2>2. Types' /\ Waits'
    BY <2>1 DEF SlotInv, Types, Tables, AutoUnloads, Waits
  <2>3. \A m \in Models : (Listed(m) => Listed(m)') /\ (Queued(m) => Queued(m)') /\ (Claimed(m) => Claimed(m)')
    BY <2>1 DEF Listed, Queued, Claimed
  <2>4. QED
    BY <2>2, <2>3 DEF SlotInv, SafeStop, OwnStops, IsLlama
<1>2. CASE Next
  <2>1. PICK k \in Models : CoreStep(k) \/ OutsideStep(k)
    BY <1>2 DEF Next
  <2>2. Tables' /\ AutoUnloads'
    BY <2>1, CoreStepTables, OutsideStepTables, AutoUnloadsStep DEF SlotInv, Types
  <2>3. Keeps
    BY <2>1, StepKeeps
  <2>4. Types' /\ Waits'
    BY <2>2, <2>3 DEF Types, Keeps
  <2>5. \A m \in Models : KeepsSlot(m)
    BY <2>3 DEF Keeps
  <2>6. QED
    BY <2>4, <2>5 DEF SlotInv, KeepsSlot, SafeStop, OwnStops, IsLlama
<1>3. QED
  BY <1>1, <1>2

LEMMA SlotInit == Init => SlotInv
<1> SUFFICES ASSUME Init PROVE SlotInv
  OBVIOUS
<1>1. Types /\ Waits
  BY DEF Init, Types, Tables, AutoUnloads, Waits
<1>2. \A m \in Models : Listed(m) /\ Queued(m) /\ Claimed(m)
  BY Zenon DEF Init, Listed, Queued, Claimed
<1>3. QED
  BY <1>1, <1>2 DEF SlotInv

(* No live process drops out of the session tables (terminateSession,      *)
(* spawnSession, adopt), whatever is reloaded, cancelled, auto-unloaded or *)
(* fails, as long as no llama.cpp model whose stop may fail is stopped     *)
(* outside its transition queue.                                           *)
THEOREM NoProcessIsLost ==
  ASSUME \A m \in Models : SafeStop(m) PROVE Spec => []NothingLost
<1>1. SlotInv => NothingLost
  BY Zenon DEF SlotInv, Listed, NothingLost
<1>2. QED
  BY <1>1, SlotInit, SlotInductive, PTL DEF Spec

(* Every session is under the cross-process model claim (acquireNow,       *)
(* LocalSessions.unload), whatever is cancelled, evicted or fails, as long *)
(* as models are stopped by their transition queues only.                  *)
THEOREM SessionsAreClaimed ==
  ASSUME \A m \in Models : OwnStops(m) PROVE Spec => []SessionHasClaim
<1>1. SlotInv => SessionHasClaim
  BY DEF SlotInv, Claimed, SessionHasClaim
<1>2. QED
  BY <1>1, SlotInit, SlotInductive, PTL DEF Spec

-----------------------------------------------------------------------------
(* A cancel before the answer wins                                         *)

(* `created` belongs to the acquire at the head, once its claim is held. *)
NotCreated == \A m \in Models : op[m] \in {"idle", "claim"} => ~created[m]

(* What a step does to the transition at the head of k's queue, and when   *)
(* it ends one with a session in the table.                                *)
HeadMoves(k) ==
  /\ \A m \in Models \ {k} : op'[m] = op[m] /\ created'[m] = created[m]
  /\ op'[k] \in {"idle", "claim"} => ~created'[k]
  /\ op[k] # "idle" /\ op'[k] = "idle" /\ Cancelled(k) /\ created[k] /\ sess'[k]
       => \/ unl[k] = "stopping" \/ k \in UpdateMayFail
          \/ op[k] \in {"load", "joined", "loading"} /\ sess[k]

LEMMA PopMoves ==
  ASSUME Types, NEW k \in Models, PopOp(k)
  PROVE  /\ op'[k] = "idle" /\ ~created'[k]
         /\ \A m \in Models \ {k} : op'[m] = op[m] /\ created'[m] = created[m]
BY DEF PopOp, Types

LEMMA FailLoadMoves ==
  ASSUME Types, NotCreated, NEW k \in Models, FailLoad(k), UNCHANGED stopVars PROVE HeadMoves(k)
<1>1. CASE op[k] \in {"loading", "joined"} /\ FailAcquire(k)
  BY <1>1, PopMoves DEF FailAcquire, HeadMoves, stopVars
<1>2. CASE UNCHANGED queueVars
  BY <1>2 DEF HeadMoves, NotCreated, queueVars
<1>3. QED
  BY <1>1, <1>2 DEF FailLoad

LEMMA TransitionMoves ==
  ASSUME Types, NotCreated, NEW k \in Models,
         \/ StartOp(k) \/ ClaimAnswer(k) \/ RefusedByLegacy(k) \/ AbandonWait(k)
         \/ FinishAcquire(k) \/ UpdateFails(k)
  PROVE  HeadMoves(k)
<1>1. CASE PopOp(k) /\ op[k] \in {"idle", "claim"}
  BY <1>1, PopMoves, Zenon DEF HeadMoves, NotCreated
<1>2. CASE op' = [op EXCEPT ![k] = "stopping"] /\ UNCHANGED created
  BY <1>2, Zenon DEF HeadMoves, Types
<1>3. CASE op[k] \in {"idle", "claim"} /\ ClaimHeld(k)
  BY <1>1, <1>3, Zenon DEF ClaimHeld, HeadMoves, Types
<1>4. CASE StartOp(k)
  <2>1. op[k] = "idle"
    BY <1>4 DEF StartOp, CanStartOp
  <2>2. CASE op' = [op EXCEPT ![k] = "claim"] /\ UNCHANGED created
    BY <2>1, <2>2, Zenon DEF HeadMoves, Types, NotCreated
  <2>3. QED
    BY <1>1, <1>2, <1>3, <1>4, <2>1, <2>2 DEF StartOp
<1>5. CASE ClaimAnswer(k)
  BY <1>1, <1>3, <1>5 DEF ClaimAnswer
<1>6. CASE RefusedByLegacy(k) \/ AbandonWait(k) \/ UpdateFails(k)
  <2>1. /\ op[k] \in {"load", "joined"} \/ k \in UpdateMayFail
        /\ PopOp(k) /\ sess' = sess
    BY <1>6, Zenon DEF RefusedByLegacy, AbandonWait, CanAbandon, UpdateFails, FailAcquire, stopVars
  <2>2. QED
    BY <2>1, PopMoves, Zenon DEF HeadMoves
<1>7. CASE FinishAcquire(k)
  <2>1. CASE created[k] /\ Cancelled(k) /\ NothingToStop(k) /\ FailAcquire(k) /\ UNCHANGED stopVars
    BY <2>1, PopMoves DEF FailAcquire, NothingToStop, stopVars, HeadMoves
  <2>2. CASE ~(created[k] /\ Cancelled(k)) /\ PopOp(k)
    BY <2>2, PopMoves, Zenon DEF HeadMoves
  <2>3. QED
    BY <1>2, <1>7, <2>1, <2>2 DEF FinishAcquire
<1>8. QED
  BY <1>4, <1>5, <1>6, <1>7

LEMMA StepMoves ==
  ASSUME SlotInv, NotCreated, NEW k \in Models, CoreStep(k) \/ OutsideStep(k) PROVE HeadMoves(k)
<1> USE DEF SlotInv
<1>1. CASE UNCHANGED <<op, created>>
  BY <1>1, Zenon DEF HeadMoves, NotCreated
<1>2. CASE AcquireLoad(k) \/ LoadReady(k)
  BY <1>2, Zenon DEF AcquireLoad, LoadReady, HeadMoves, Types, NotCreated
<1>3. CASE AbortLoad(k)
  BY <1>3, Zenon DEF AbortLoad, CanAbort, stopVars, HeadMoves, Types
<1>4. CASE StopAfterLoad(k) \/ StopDone(k) \/ StopFailed(k)
  <2>1. UNCHANGED queueVars \/ (PopOp(k) /\ (unl[k] = "stopping" \/ ~sess'[k]))
    BY <1>4, Zenon DEF StopAfterLoad, StopDone, StopFailed, Settled
  <2>2. QED
    BY <1>1, <2>1, PopMoves, Zenon DEF HeadMoves, queueVars
<1>5. CASE StartLoad(k) \/ Planned(k) \/ ReloadLoad(k) \/ OutsideStep(k)
  BY <1>1, <1>5, Zenon DEF StartLoad, Planned, ReloadLoad, OutsideStep, Acquire, Unload,
     CancelLoad, Reload,
                    SessionDied, queueVars
<1>6. CASE AutoUnloadNext(k) \/ TakeTurn(k) \/ EvictNext(k) \/ LoadFails(k)
  <2>1. UNCHANGED <<op, created>> \/ (FailLoad(k) /\ UNCHANGED stopVars)
    BY <1>6, Zenon DEF AutoUnloadNext, TakeTurn, EvictNext, Advance, LoadFails, queueVars
  <2>2. QED
    BY <1>1, <2>1, FailLoadMoves
<1>7. QED
  BY <1>2, <1>3, <1>4, <1>5, <1>6, TransitionMoves, Zenon DEF CoreStep

(* A cancel that comes before the answer wins (acquireNow, adopt),         *)
(* whatever is evicted, auto-unloaded or fails, except where the claim     *)
(* file cannot be written.                                                 *)
THEOREM CancelBeforeAnswerWins ==
  ASSUME UpdateMayFail \subseteq Reloadable PROVE Spec => CancelWins
<1> DEFINE Inv == SlotInv /\ NotCreated
           Wins == \A m \in Models \ Reloadable :
             op[m] # "idle" /\ op'[m] = "idle" /\ Cancelled(m) /\ created[m] /\ sess'[m]
               => \/ unl[m] = "stopping"
                  \/ op[m] \in {"load", "joined", "loading"} /\ sess[m]
<1>1. Init => Inv
  BY SlotInit DEF Init, NotCreated
<1>2. Inv /\ [Next]_vars => Inv' /\ [Wins]_vars
  <2> SUFFICES ASSUME Inv, [Next]_vars PROVE Inv' /\ [Wins]_vars
    BY Zenon
  <2>1. SlotInv'
    BY SlotInductive
  <2>2. CASE UNCHANGED vars
    BY <2>1, <2>2 DEF NotCreated, vars, queueVars
  <2>3. CASE Next
    <3>1. PICK k \in Models : HeadMoves(k)
      BY <2>3, StepMoves DEF Next
    <3>2. NotCreated'
      BY <3>1, Zenon DEF HeadMoves, NotCreated
    <3>3. Wins
      BY <3>1 DEF HeadMoves
    <3>4. QED
      BY <2>1, <3>2, <3>3
  <2>4. QED
    BY <2>2, <2>3, Zenon
<1>3. QED
  BY <1>1, <1>2, PTL DEF Spec, CancelWins
=============================================================================
