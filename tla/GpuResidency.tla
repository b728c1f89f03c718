---------------------------- MODULE GpuResidency ----------------------------
(***************************************************************************)
(* Loading and stopping the local models of one core: the per-model        *)
(* transition queues and load cancels of LocalSessions                     *)
(* (src/src/core/sessions.ts), the load queues and session tables of the   *)
(* native runtimes (runtime/llamacpp/runtime.ts, runtime/shared/sidecar.ts *)
(* as runtime/mlx/runtime.ts uses it), and the GPU claims that stop every  *)
(* other engine on the cards a load takes (core/gpu/residency.ts,          *)
(* core/gpu/policy.ts, core/gpu-residency.ts).                             *)
(*                                                                         *)
(* One action is what runs between two awaits.  Continuations that need no *)
(* I/O run before the event loop takes another event: actions that start   *)
(* with an event are guarded by Quiet.                                     *)
(*                                                                         *)
(* The occupants are sessions of the native runtimes.  Those never report  *)
(* `busy` (only image and audio jobs do), so a claim's refusal over busy   *)
(* work is not here.                                                       *)
(***************************************************************************)
EXTENDS Integers, Sequences

CONSTANTS
  Models,      \* local models, each of one provider
  Provider,    \* [Models -> provider]
  Cards,       \* [Models -> SUBSET cards]; a model on "all" has every card
  Auxiliary,   \* SUBSET Models: embedding and transcription models
  SoleOf,      \* providers that run one session at a time
  Llamacpp,    \* providers run by LlamacppRuntime; the others use SidecarTable
  AutoUnload,  \* providers with auto_unload on
  Reloadable,  \* models a request may reload in place (context, recovery)
  StopMayFail, \* models whose terminate may reject with the process alive
  UpdateMayFail, \* models whose claim file may be unwritable once the load is ready
  MaxOps,      \* bound on the transitions queued per model
  None

Providers == {Provider[m] : m \in Models}

ASSUME ModelAssumption ==
  /\ Auxiliary \subseteq Models /\ Reloadable \subseteq Models /\ StopMayFail \subseteq Models
  /\ UpdateMayFail \subseteq Models
  /\ MaxOps \in Nat /\ None \notin Models

VARIABLES
  tq,      \* [Models -> Seq(Ops)] modelTransitions; the head runs once op # "idle"
  op,      \* how far the head of tq is
  created, \* [Models -> BOOLEAN] `created` of the acquire at the head
  claim,   \* [Models -> BOOLEAN] modelClaims: this core holds the model's claim
  load,    \* the load in `loading`, by stage
  by,      \* who started it: "acquire" (cancellable) or "reload"
  au,      \* the session an auto-unload of this load waits for
  aul,     \* the sessions its auto-unload has still to stop
  pq,      \* [Providers -> Seq(Models)] loadTail: the head's turn it is
  gq,      \* Seq(Models) claims in GpuResidency.tail: the head has the turn
  todo,    \* evictions the claim with the turn has still to do
  target,  \* the eviction it waits for
  sess,    \* [Models -> BOOLEAN] in the runtime's session table
  unl,     \* the stop in flight: "none", "waitload", "stopping"
  reload,  \* autoIncreaseCtx / recreateSession: "none", "stopping", "load", "loading"
  lost     \* [Models -> BOOLEAN] a live process no table lists

queueVars == <<tq, op, created, claim>>
loadVars  == <<load, by, au, aul, pq>>
claimVars == <<gq, todo, target>>
stopVars  == <<sess, unl, lost>>
vars == <<queueVars, loadVars, claimVars, stopVars, reload>>

Ops == {"acquire", "cancelled", "unload", "evict"}

(* Every variable has its type: the tables of the core and of its runtimes. *)
TypeOK ==
  /\ tq \in [Models -> Seq(Ops)]
  /\ op \in [Models -> {"idle", "claim", "load", "loading", "joined", "update", "stopping"}]
  /\ created \in [Models -> BOOLEAN] /\ claim \in [Models -> BOOLEAN]
  /\ load \in [Models -> {"none", "queued", "autounload", "planning", "waiting",
                          "evicting", "starting", "failing"}]
  /\ by \in [Models -> {"acquire", "reload"}]
  /\ au \in [Models -> Models \cup {None}] /\ aul \in [Models -> SUBSET Models]
  /\ pq \in [Providers -> Seq(Models)] /\ gq \in Seq(Models)
  /\ todo \subseteq Models /\ target \in Models \cup {None}
  /\ sess \in [Models -> BOOLEAN]
  /\ unl \in [Models -> {"none", "waitload", "stopping"}]
  /\ reload \in [Models -> {"none", "stopping", "load", "loading"}]
  /\ lost \in [Models -> BOOLEAN]

Init ==
  /\ tq = [m \in Models |-> << >>] /\ op = [m \in Models |-> "idle"]
  /\ created = [m \in Models |-> FALSE] /\ claim = [m \in Models |-> FALSE]
  /\ load = [m \in Models |-> "none"] /\ by = [m \in Models |-> "acquire"]
  /\ au = [m \in Models |-> None] /\ aul = [m \in Models |-> {}]
  /\ pq = [p \in Providers |-> << >>]
  /\ gq = << >> /\ todo = {} /\ target = None
  /\ sess = [m \in Models |-> FALSE] /\ unl = [m \in Models |-> "none"]
  /\ reload = [m \in Models |-> "none"]
  /\ lost = [m \in Models |-> FALSE]

-----------------------------------------------------------------------------
(* The rule: core/gpu/policy.ts.                                           *)

CardsOverlap(m, n) == Cards[m] \cap Cards[n] # {}

ClaimsGpu(m) == m \notin Auxiliary /\ (Provider[m] \in SoleOf \/ Cards[m] # {})

(* Whether a load of m has to stop a session of n first. *)
Evicts(m, n) ==
  /\ ClaimsGpu(m) /\ n \notin Auxiliary /\ m # n
  /\ IF Provider[m] = Provider[n] THEN Provider[m] \in SoleOf ELSE CardsOverlap(m, n)

(* gpuOccupancy: sessions, sessions being stopped, loads past their claim. *)
Occupied(m) == sess[m] \/ unl[m] = "stopping" \/ load[m] = "starting"

(* Mutant: only finished sessions hold a card. *)
GpuEvictionsSessions(m) == {n \in Models : sess[n] /\ Evicts(m, n)}

GpuEvictions(m) == {n \in Models : Occupied(n) /\ Evicts(m, n)}

-----------------------------------------------------------------------------
(* What needs no further event to go on.                                   *)

IsLlama(m) == Provider[m] \in Llamacpp
Cancelled(m) == tq[m] # << >> /\ Head(tq[m]) = "cancelled"

(* SidecarTable.load waits for an unload in flight; llama.cpp does not. *)
LoadBlocked(m) == ~IsLlama(m) /\ unl[m] # "none"

CanStartOp(m) == op[m] = "idle" /\ tq[m] # << >>
CanAbandon(m) == Cancelled(m) /\ (op[m] = "joined" \/ (op[m] = "load" /\ LoadBlocked(m)))
CanAbort(m) == /\ Cancelled(m) /\ op[m] = "loading" /\ by[m] = "acquire"
               /\ load[m] \in {"queued", "waiting", "evicting"}
CanAutoUnload(m) == load[m] = "autounload" /\ au[m] = None
CanTakeTurn(m) == load[m] = "waiting" /\ gq # << >> /\ Head(gq) = m /\ ~CanAbort(m)
EvictSettled == target # None /\ \A i \in 1..Len(tq[target]) : tq[target][i] # "evict"
CanEvictNext(m) == load[m] = "evicting" /\ EvictSettled /\ ~CanAbort(m)
CanStopAfterLoad(m) == unl[m] = "waitload" /\ load[m] = "none"
CanReloadLoad(m) == reload[m] = "load" /\ ~LoadBlocked(m)

Quiet == \A m \in Models :
  ~(\/ CanStartOp(m) \/ CanAbandon(m) \/ CanAbort(m) \/ CanAutoUnload(m) \/ CanTakeTurn(m)
    \/ CanEvictNext(m) \/ CanStopAfterLoad(m) \/ CanReloadLoad(m))

-----------------------------------------------------------------------------
(* Ends of transitions: withModelTransition, acquireNow, unload.           *)

(* Mutant: the queue is not ready for the next transition. *)
PopOpDone(m) == /\ tq' = [tq EXCEPT ![m] = Tail(@)]
                /\ op' = [op EXCEPT ![m] = "done"]
                /\ created' = [created EXCEPT ![m] = FALSE]

PopOp(m) == /\ tq' = [tq EXCEPT ![m] = Tail(@)]
            /\ op' = [op EXCEPT ![m] = "idle"]
            /\ created' = [created EXCEPT ![m] = FALSE]

(* Mutant: the claim is released over a live session. *)
FailAcquireReleases(m) == PopOp(m) /\ claim' = [claim EXCEPT ![m] = FALSE]

(* acquireNow's catch: the claim goes unless a session is there. *)
FailAcquire(m) ==
  /\ PopOp(m)
  /\ claim' = [claim EXCEPT ![m] = @ /\ ~(created[m] /\ ~sess[m])]

-----------------------------------------------------------------------------
(* Runtime stops: unloadSession / SidecarTable.unload.                     *)

(* Nothing to stop and nothing to wait for.  A sidecar waits for a load in *)
(* flight; llama.cpp does not look at it.                                  *)
NothingToStop(m) == unl[m] = "none" /\ ~sess[m] /\ (IsLlama(m) \/ load[m] = "none")

TakeDown(m) == /\ unl' = [unl EXCEPT ![m] = "stopping"]
               /\ sess' = [sess EXCEPT ![m] = FALSE]
               /\ UNCHANGED lost

(* A stop already in flight is joined. *)
BeginStop(m) ==
  IF unl[m] # "none" THEN UNCHANGED stopVars
  ELSE IF ~IsLlama(m) /\ load[m] # "none"
    THEN unl' = [unl EXCEPT ![m] = "waitload"] /\ UNCHANGED <<sess, lost>>
    ELSE TakeDown(m)

(* A stop of m has settled and everyone waiting for it goes on: a client's *)
(* unload or an eviction, which gives up the model claim on success; the   *)
(* undo of a cancelled acquire; a reload; an auto-unload, whose failure    *)
(* ends a llama.cpp load.                                                  *)
Settled(m, ok) ==
  /\ IF op[m] # "stopping" THEN UNCHANGED queueVars
     ELSE /\ PopOp(m)
          /\ claim' = [claim EXCEPT ![m] =
               @ /\ IF Head(tq[m]) \in {"unload", "evict"} THEN ~ok ELSE sess'[m]]
  /\ reload' = [reload EXCEPT ![m] = IF @ = "stopping" THEN "load" ELSE @]
  /\ load' = [n \in Models |-> IF au[n] = m /\ ~ok /\ IsLlama(n) THEN "failing" ELSE load[n]]
  /\ au' = [n \in Models |-> IF au[n] = m THEN None ELSE au[n]]
  /\ UNCHANGED <<by, aul, pq>>

(* unloadAfterLoading, once the load it waited for has ended. *)
StopAfterLoad(m) ==
  /\ CanStopAfterLoad(m)
  /\ IF sess[m]
       THEN TakeDown(m) /\ UNCHANGED <<queueVars, loadVars, reload>>
       ELSE /\ unl' = [unl EXCEPT ![m] = "none"]
            /\ UNCHANGED <<sess, lost>>
            /\ Settled(m, TRUE)
  /\ UNCHANGED claimVars

(* terminate resolved: the process has exited. *)
StopDone(m) ==
  /\ Quiet /\ unl[m] = "stopping"
  /\ unl' = [unl EXCEPT ![m] = "none"]
  /\ UNCHANGED <<sess, lost, claimVars>>
  /\ Settled(m, TRUE)

(* The stop failed.  With the process alive the session is put back, over  *)
(* whatever the table holds by now; with the process gone it is not, and   *)
(* the answer is a failure all the same.                                   *)
StopFailed(m) ==
  /\ Quiet /\ unl[m] = "stopping" /\ m \in StopMayFail
  /\ unl' = [unl EXCEPT ![m] = "none"]
  /\ \/ /\ lost' = [lost EXCEPT ![m] = @ \/ sess[m]]
        /\ sess' = [sess EXCEPT ![m] = TRUE]
     \/ UNCHANGED <<lost, sess>>
  /\ UNCHANGED claimVars
  /\ Settled(m, FALSE)

(* watchExit: a session whose process exited leaves the table. *)
SessionDied(m) ==
  /\ Quiet /\ sess[m]
  /\ sess' = [sess EXCEPT ![m] = FALSE]
  /\ UNCHANGED <<queueVars, loadVars, claimVars, unl, reload, lost>>

-----------------------------------------------------------------------------
(* Loads.                                                                  *)

Drop(s, m) == SelectSeq(s, LAMBDA n : n # m)

EnterQueue(m, who) ==
  /\ load' = [load EXCEPT ![m] = "queued"]
  /\ by' = [by EXCEPT ![m] = who]
  /\ pq' = [pq EXCEPT ![Provider[m]] = Append(@, m)]
  /\ UNCHANGED <<au, aul>>

(* What ends with a load, however it ends. *)
LeaveQueues(m) ==
  /\ load' = [load EXCEPT ![m] = "none"]
  /\ pq' = [pq EXCEPT ![Provider[m]] = Drop(@, m)]
  /\ aul' = [aul EXCEPT ![m] = {}]
  /\ reload' = [reload EXCEPT ![m] = IF @ = "loading" THEN "none" ELSE @]
  /\ UNCHANGED <<by, au>>

(* Mutant: an aborted claim keeps its place in the line. *)
LeaveClaimsKept(m) == UNCHANGED <<gq, todo, target>>

(* A claim lets go of the turn, or of its place in the line. *)
LeaveClaims(m) ==
  /\ gq' = Drop(gq, m)
  /\ IF load[m] = "evicting" THEN todo' = {} /\ target' = None
     ELSE UNCHANGED <<todo, target>>

(* The load fails: the acquire that waits for it fails too. *)
FailLoad(m) ==
  /\ LeaveQueues(m)
  /\ IF op[m] \in {"loading", "joined"} THEN FailAcquire(m) ELSE UNCHANGED queueVars

(* enqueueLoad / SidecarTable.load: the turn has come, settings are read,  *)
(* and an acquire may have to unload what its provider has loaded.  (A     *)
(* sidecar looks for a session again here; its loads and stops of a model  *)
(* wait for each other, so there is never one.)                            *)
AutoUnloadTargets(m) ==
  {n \in Models : /\ Provider[n] = Provider[m] /\ sess[n]
                  /\ IsLlama(m) => n \notin Auxiliary}

StartLoad(m) ==
  /\ Quiet /\ load[m] = "queued" /\ Head(pq[Provider[m]]) = m
  /\ load' = [load EXCEPT ![m] = "autounload"]
  /\ aul' \in {[aul EXCEPT ![m] = s] : s \in
       IF Provider[m] \in AutoUnload /\ by[m] = "acquire" /\ m \notin Auxiliary
         THEN {{}, AutoUnloadTargets(m)} ELSE {{}}}
  /\ UNCHANGED <<queueVars, by, au, pq, claimVars, stopVars, reload>>

(* One turn of the auto-unload loop; after it the load is planned. *)
AutoUnloadNext(m) ==
  /\ CanAutoUnload(m)
  /\ IF by[m] = "acquire" /\ Cancelled(m)
       THEN FailLoad(m) /\ UNCHANGED stopVars
     ELSE IF aul[m] = {}
       THEN /\ load' = [load EXCEPT ![m] = "planning"]
            /\ UNCHANGED <<queueVars, by, au, aul, pq, stopVars, reload>>
     ELSE \E n \in aul[m] :
            /\ aul' = [aul EXCEPT ![m] = @ \ {n}]
            /\ IF NothingToStop(n) THEN UNCHANGED <<au, stopVars>>
               ELSE BeginStop(n) /\ au' = [au EXCEPT ![m] = n]
            /\ UNCHANGED <<queueVars, load, by, pq, reload>>
  /\ UNCHANGED claimVars

(* The load is planned: it asks for the GPU, or starts outside the rule. *)
Planned(m) ==
  /\ Quiet /\ load[m] = "planning" /\ ~(by[m] = "acquire" /\ Cancelled(m))
  /\ load' = [load EXCEPT ![m] = IF ClaimsGpu(m) THEN "waiting" ELSE "starting"]
  /\ gq' = IF ClaimsGpu(m) THEN Append(gq, m) ELSE gq
  /\ UNCHANGED <<queueVars, by, au, aul, pq, todo, target, stopVars, reload>>

(* The process reported ready and is published; a cancel still wins here. *)
LoadReady(m) ==
  /\ Quiet /\ load[m] = "starting" /\ ~(by[m] = "acquire" /\ Cancelled(m))
  /\ lost' = [lost EXCEPT ![m] = @ \/ sess[m]]
  /\ sess' = [sess EXCEPT ![m] = TRUE]
  /\ LeaveQueues(m)
  /\ op' = [op EXCEPT ![m] = IF @ \in {"loading", "joined"} THEN "update" ELSE @]
  /\ UNCHANGED <<tq, created, claim, claimVars, unl>>

(* Planning or the start fails, or is cancelled; a process that was        *)
(* started has exited by the time the load ends.                           *)
LoadFails(m) ==
  /\ Quiet /\ load[m] \in {"planning", "starting", "failing"}
  /\ FailLoad(m)
  /\ UNCHANGED <<claimVars, stopVars>>

-----------------------------------------------------------------------------
(* Claims: GpuResidency.claim and the evictions of gpu-residency.ts.       *)

(* loadCancels.cancel: every acquire of the model that is still pending. *)
CancelAll(q) == [i \in 1..Len(q) |-> IF q[i] = "acquire" THEN "cancelled" ELSE q[i]]

(* stopSession: whatever the occupant's state, its pending acquires are    *)
(* cancelled before the unload queues behind them.                         *)
Evict(n) == tq' = [tq EXCEPT ![n] = Append(CancelAll(@), "evict")]

(* The rest of a claim with the turn, up to its next await: it waits for   *)
(* one more eviction or, with none left, is granted (the load holds its    *)
(* cards in this step) unless something still holds them.                  *)
Advance(m, rest) ==
  LET over == gq' = Tail(gq) /\ todo' = {} /\ target' = None
  IN
  \/ /\ rest = {} /\ GpuEvictions(m) # {} /\ over /\ FailLoad(m)
  \/ /\ rest = {} /\ GpuEvictions(m) = {} /\ over
     /\ load' = [load EXCEPT ![m] = "starting"]
     /\ UNCHANGED <<queueVars, by, au, aul, pq, reload>>
  \/ \E n \in rest :
       /\ todo' = rest \ {n} /\ target' = n
       /\ load' = [load EXCEPT ![m] = "evicting"]
       /\ Evict(n)
       /\ UNCHANGED <<op, created, claim, by, au, aul, pq, gq, reload>>

(* The turn has come. *)
TakeTurn(m) ==
  /\ CanTakeTurn(m)
  /\ Advance(m, GpuEvictions(m))
  /\ UNCHANGED stopVars

(* The eviction waited for has settled, one way or the other. *)
EvictNext(m) ==
  /\ CanEvictNext(m)
  /\ Advance(m, todo)
  /\ UNCHANGED stopVars

(* A cancelled acquire stops waiting in a queue, for the turn or for an    *)
(* eviction; the eviction itself goes on, for nobody.                      *)
AbortLoad(m) ==
  /\ CanAbort(m)
  /\ LeaveQueues(m) /\ LeaveClaims(m)
  /\ tq' = [n \in Models |->
       IF n = m THEN Tail(tq[n])
       ELSE IF load[m] = "evicting" /\ n = target
         THEN [i \in 1..Len(tq[n]) |-> IF tq[n][i] = "evict" THEN "unload" ELSE tq[n][i]]
         ELSE tq[n]]
  /\ op' = [op EXCEPT ![m] = "idle"]
  /\ created' = [created EXCEPT ![m] = FALSE]
  /\ claim' = [claim EXCEPT ![m] = @ /\ ~(created[m] /\ ~sess[m])]
  /\ UNCHANGED stopVars

-----------------------------------------------------------------------------
(* Transitions: LocalSessions.                                             *)

Acquire(m) ==
  /\ Quiet /\ Len(tq[m]) < MaxOps
  /\ tq' = [tq EXCEPT ![m] = Append(@, "acquire")]
  /\ UNCHANGED <<op, created, claim, loadVars, claimVars, stopVars, reload>>

Unload(m) ==
  /\ Quiet /\ Len(tq[m]) < MaxOps
  /\ tq' = [tq EXCEPT ![m] = Append(@, "unload")]
  /\ UNCHANGED <<op, created, claim, loadVars, claimVars, stopVars, reload>>

(* Bounded by the queues, so that evictions nobody waits for do not pile up. *)
CancelLoad(m) ==
  /\ Quiet /\ \A n \in Models : Len(tq[n]) <= MaxOps
  /\ CancelAll(tq[m]) # tq[m]
  /\ tq' = [tq EXCEPT ![m] = CancelAll(@)]
  /\ UNCHANGED <<op, created, claim, loadVars, claimVars, stopVars, reload>>

(* The model claim is held: `created` is read, and a cancel seen here ends *)
(* the acquire.                                                            *)
ClaimHeld(m) ==
  LET new == ~sess[m] /\ load[m] = "none"
  IN IF Cancelled(m)
       THEN PopOp(m) /\ claim' = [claim EXCEPT ![m] = ~new]
       ELSE /\ op' = [op EXCEPT ![m] = "load"]
            /\ created' = [created EXCEPT ![m] = new]
            /\ claim' = [claim EXCEPT ![m] = TRUE]
            /\ UNCHANGED tq

(* The head of the queue starts.  Only an acquire without the claim has to *)
(* wait for it; an unload with nothing to stop succeeds at once and gives  *)
(* the claim up.                                                           *)
StartOp(m) ==
  /\ CanStartOp(m)
  /\ CASE Head(tq[m]) = "cancelled" -> PopOp(m) /\ UNCHANGED <<claim, stopVars>>
       [] Head(tq[m]) = "acquire" ->
            /\ IF claim[m] THEN ClaimHeld(m)
               ELSE op' = [op EXCEPT ![m] = "claim"] /\ UNCHANGED <<tq, created, claim>>
            /\ UNCHANGED stopVars
       [] OTHER ->
            IF NothingToStop(m)
              THEN PopOp(m) /\ claim' = [claim EXCEPT ![m] = FALSE] /\ UNCHANGED stopVars
              ELSE /\ BeginStop(m)
                   /\ op' = [op EXCEPT ![m] = "stopping"]
                   /\ UNCHANGED <<tq, created, claim>>
  /\ UNCHANGED <<loadVars, claimVars, reload>>

(* acquireModelClaim answered, or another process holds the model. *)
ClaimAnswer(m) ==
  /\ Quiet /\ op[m] = "claim"
  /\ ClaimHeld(m) \/ (PopOp(m) /\ UNCHANGED claim)
  /\ UNCHANGED <<loadVars, claimVars, stopVars, reload>>

(* The desktop app has the model loaded: assertNotLoadedByLegacy throws. *)
RefusedByLegacy(m) ==
  /\ Quiet /\ op[m] = "load"
  /\ FailAcquire(m)
  /\ UNCHANGED <<loadVars, claimVars, stopVars, reload>>

(* Mutant: a session that is already there is not looked for. *)
AcquireLoadAgain(m) ==
  /\ Quiet /\ op[m] = "load" /\ ~LoadBlocked(m)
  /\ IF load[m] # "none" THEN op' = [op EXCEPT ![m] = "joined"] /\ UNCHANGED loadVars
     ELSE op' = [op EXCEPT ![m] = "loading"] /\ EnterQueue(m, "acquire")
  /\ UNCHANGED <<tq, created, claim, claimVars, stopVars, reload>>

(* runtime.load: the session there is, the load in flight, or a new load. *)
AcquireLoad(m) ==
  /\ Quiet /\ op[m] = "load" /\ ~LoadBlocked(m)
  /\ IF sess[m] THEN op' = [op EXCEPT ![m] = "update"] /\ UNCHANGED loadVars
     ELSE IF load[m] # "none" THEN op' = [op EXCEPT ![m] = "joined"] /\ UNCHANGED loadVars
     ELSE op' = [op EXCEPT ![m] = "loading"] /\ EnterQueue(m, "acquire")
  /\ UNCHANGED <<tq, created, claim, claimVars, stopVars, reload>>

(* A cancel ends the wait for somebody else's load, or for an unload. *)
AbandonWait(m) ==
  /\ CanAbandon(m)
  /\ FailAcquire(m)
  /\ UNCHANGED <<loadVars, claimVars, stopVars, reload>>

(* Mutant: a cancel that raced readiness is not looked at again. *)
FinishAcquireAnyway(m) ==
  /\ Quiet /\ op[m] = "update" /\ PopOp(m)
  /\ UNCHANGED <<claim, stopVars, loadVars, claimVars, reload>>

(* claim.update answered: the acquire is decided, unless a cancel raced    *)
(* readiness, which stops what this acquire created.                       *)
FinishAcquire(m) ==
  /\ Quiet /\ op[m] = "update"
  /\ IF created[m] /\ Cancelled(m)
       THEN IF NothingToStop(m) THEN FailAcquire(m) /\ UNCHANGED stopVars
            ELSE /\ BeginStop(m)
                 /\ op' = [op EXCEPT ![m] = "stopping"]
                 /\ UNCHANGED <<tq, created, claim>>
       ELSE PopOp(m) /\ UNCHANGED <<claim, stopVars>>
  /\ UNCHANGED <<loadVars, claimVars, reload>>

(* claim.update failed: the acquire fails over the session it loaded. *)
UpdateFails(m) ==
  /\ Quiet /\ op[m] = "update" /\ m \in UpdateMayFail
  /\ FailAcquire(m)
  /\ UNCHANGED <<loadVars, claimVars, stopVars, reload>>

(* autoIncreaseCtx / recreateSession: outside the transition queue, with   *)
(* no cancel, unload then load again whatever the unload answered.         *)
Reload(m) ==
  /\ Quiet /\ m \in Reloadable /\ sess[m] /\ reload[m] = "none"
  /\ BeginStop(m)
  /\ reload' = [reload EXCEPT ![m] = "stopping"]
  /\ UNCHANGED <<queueVars, loadVars, claimVars>>

ReloadLoad(m) ==
  /\ CanReloadLoad(m)
  /\ IF sess[m] THEN reload' = [reload EXCEPT ![m] = "none"] /\ UNCHANGED loadVars
     ELSE /\ reload' = [reload EXCEPT ![m] = "loading"]
          /\ IF load[m] # "none" THEN UNCHANGED loadVars ELSE EnterQueue(m, "reload")
  /\ UNCHANGED <<queueVars, claimVars, stopVars>>

-----------------------------------------------------------------------------
(* What the core does by itself, and what clients and processes do to it. *)
CoreStep(m) ==
  \/ StartOp(m) \/ ClaimAnswer(m) \/ RefusedByLegacy(m) \/ AcquireLoad(m) \/ AbandonWait(m)
  \/ FinishAcquire(m) \/ UpdateFails(m)
  \/ StartLoad(m) \/ AutoUnloadNext(m) \/ Planned(m) \/ TakeTurn(m) \/ EvictNext(m)
  \/ AbortLoad(m) \/ LoadReady(m) \/ LoadFails(m)
  \/ StopAfterLoad(m) \/ StopDone(m) \/ StopFailed(m) \/ ReloadLoad(m)

OutsideStep(m) ==
  \/ Acquire(m) \/ Unload(m) \/ CancelLoad(m) \/ Reload(m)
  \/ SessionDied(m)

Next == \E m \in Models : CoreStep(m) \/ OutsideStep(m)

(* Promise continuations run.  File I/O answers, a start ends by its       *)
(* timeout and a terminate by its kill; the event loop delivers such an    *)
(* event although continuations keep running before it (strong fairness:   *)
(* Quiet comes and goes, the rest of the guard stays).                     *)
Fairness == \A m \in Models :
  /\ WF_vars(StartOp(m)) /\ WF_vars(AbandonWait(m)) /\ WF_vars(AutoUnloadNext(m))
  /\ WF_vars(TakeTurn(m) \/ EvictNext(m)) /\ WF_vars(AbortLoad(m))
  /\ WF_vars(StopAfterLoad(m)) /\ WF_vars(ReloadLoad(m))
  /\ SF_vars(ClaimAnswer(m) \/ AcquireLoad(m) \/ FinishAcquire(m) \/ UpdateFails(m))
  /\ SF_vars(StartLoad(m) \/ Planned(m) \/ LoadFails(m) \/ LoadReady(m))
  /\ SF_vars(StopDone(m) \/ StopFailed(m))

Spec == Init /\ [][Next]_vars
FairSpec == Spec /\ Fairness

-----------------------------------------------------------------------------
(* One resident model per card (core/gpu/policy.ts): two models of which   *)
(* either would have to stop the other never hold the GPU together, a      *)
(* session being stopped and a load past its claim included.               *)
OnePerCard == \A m, n \in Models :
  Evicts(m, n) /\ Evicts(n, m) => ~(Occupied(m) /\ Occupied(n))

(* No live process drops out of the tables residency reads: neither a      *)
(* session put back after a failed stop nor a newly published one replaces *)
(* another (terminateSession, spawnSession, adopt).                        *)
NothingLost == \A m \in Models : ~lost[m]

(* A session is only ever published, and kept, under the cross-process     *)
(* model claim (acquireNow, LocalSessions.unload).                         *)
SessionHasClaim == \A m \in Models : sess[m] => claim[m]

(* A cancel that comes before the answer wins: an acquire that created its *)
(* load and was cancelled leaves no session behind when it ends            *)
(* (acquireNow, adopt), unless the stop itself failed.  A session that was *)
(* in the table before runtime.load answered is not the acquire's: a       *)
(* failed auto-unload put it back.  Stated for models no request reloads:  *)
(* a reload's session is not the acquire's either.                         *)
CancelWins ==
  [][\A m \in Models \ Reloadable :
       op[m] # "idle" /\ op'[m] = "idle" /\ Cancelled(m) /\ created[m] /\ sess'[m]
         => \/ unl[m] = "stopping"
            \/ op[m] \in {"load", "joined", "loading"} /\ sess[m]]_vars

(* Every load ends, and with it every claim that waits for evictions. *)
LoadsEnd == \A m \in Models : load[m] # "none" ~> load[m] = "none"

(* Every transition of a model ends: acquires and unloads are answered. *)
TransitionsEnd == \A m \in Models : op[m] # "idle" ~> op[m] = "idle"
=============================================================================
