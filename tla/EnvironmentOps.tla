---------------------------- MODULE EnvironmentOps ----------------------------
(***************************************************************************)
(* Setting up, updating and removing a managed runtime:                    *)
(* src/src/runtime/environment/{state,service,store,recovery}.ts.          *)
(* An operation is a record on disk that several cores share (the app's    *)
(* and the CLI's).  A core reads it, computes the next state with the      *)
(* reducer of state.ts, and commits it with a compare-and-swap on the      *)
(* revision; the core whose swap landed runs the next effect.  Effects     *)
(* take time, fail, outlive a cancellation, and die with their core.       *)
(*                                                                         *)
(* A plan is its digest.  Every effect and every host step is issued at    *)
(* one revision, which stands for its id and its nonce.  A machine is      *)
(* determined by its revision, so a call keeps the revision it read.       *)
(* The provisioner and the inventory are external: any plan, any verdict.  *)
(***************************************************************************)
EXTENDS Naturals, FiniteSets

CONSTANTS
  Cores,     \* processes; each starts at most once, a restart is another one
  Ops,       \* operations, by request id
  Kind,      \* [Ops -> {"setup", "update", "remove"}]
  Target,    \* [Ops -> {"environment", "runtime"}]
  FollowUp,  \* [Ops -> Ops \cup {None}] the setup a reinstall's removal names
  Digests,   \* plan digests
  Basis,     \* [Digests -> descriptor, image, manifest and target of the plan]
  Steps,     \* plans with a privileged host step
  Blocked,   \* plans with a blocker
  Relogin,   \* plans whose only blocker is the missing sign-in
  MaxCalls,  \* client calls in a behaviour
  None

ASSUME OpsAssumption ==
  /\ Kind \in [Ops -> {"setup", "update", "remove"}]
  /\ Target \in [Ops -> {"environment", "runtime"}]
  /\ FollowUp \in [Ops -> Ops \cup {None}]
  /\ Relogin \subseteq Blocked /\ Blocked \subseteq Digests /\ Steps \subseteq Digests \ Blocked
  /\ MaxCalls \in Nat

VARIABLES
  disk,     \* [Ops -> Record or None] the operation store
  core,     \* [Cores -> {"off", "starting", "up", "stopping", "gone"}]
  runs,     \* effects being performed: perform(record, effect)
  calls,    \* client calls and recoveries between their read and their swap
  asked,    \* client calls so far
  archived, \* operations a reset moved away
  consents, \* [Ops -> SUBSET Digests] plans a client approved
  image,    \* the GPU-check image: None, the user's, or the operation that pulled it
  claimed   \* the installation record names that image as ours to remove

vars == <<disk, core, runs, calls, asked, archived, consents, image, claimed>>

Terminal == {"ready", "removed", "cancelled", "failed"}
Waiting == {"awaiting-consent", "relogin-required", "reboot-required"}
Waits == {None, "relogin-required", "reboot-required"}
WorkPhases == {"preparing-host", "preparing-environment", "pulling-image", "verifying",
               "activating", "removing"}
Phases == Terminal \cup Waiting \cup WorkPhases \cup {"checking", "cancelling"}
Effects == {"probe", "host-step", "prepare-environment", "pull-image", "verify",
            "unload-resident", "activate", "remove", "cleanup", "reconcile"}

Intent == [kind : Effects, rev : Nat]
Record == [phase : Phases, rev : Nat, pend : Intent \cup {None}, indivisible : BOOLEAN,
           plan : Digests \cup {None}, approved : Digests \cup {None},
           consented : Digests \cup {None},
           checkpoint : WorkPhases \cup {None}, step : Nat \cup {None}, steps : BOOLEAN,
           cancel : BOOLEAN, owned : BOOLEAN, owner : Cores]

Run == [core : Cores, op : Ops, kind : Effects, rev : Nat, n : Nat, cons : Digests \cup {None},
        owned : BOOLEAN,
        stage : {"begun", "absent", "present", "half", "done"}]
Events == {"cancel", "receipt", "recover", "abandon", "begin", "follow"}
Call == [core : Cores, op : Ops, event : Events, rev : Nat, owned : BOOLEAN, who : Cores,
         then : Ops \cup {None}, arg : Digests \cup {None}, tries : Nat]

ASSUME NoneAssumption ==
  /\ None \notin Ops \cup Digests \cup Phases \cup Effects \cup Nat
  /\ None \notin Intent /\ None \notin Record
  /\ "user" \notin Ops \cup {None} /\ "stray" \notin Ops \cup {None}

Running(o) == disk[o] # None /\ disk[o].phase \notin Terminal
OwnerGone(w) == core[w] = "gone"

-----------------------------------------------------------------------------
(* The reducer, state.ts                                                   *)

(* advance: the revision moves on once; KEEP leaves the effect in flight.  *)
AdvanceMarkingAll(m, ph, effect) ==
  [m EXCEPT !.phase = ph, !.rev = @ + 1, !.indivisible = FALSE, !.checkpoint = ph,
            !.pend = IF effect = None THEN None ELSE [kind |-> effect, rev |-> m.rev + 1]]
Advance(m, ph, effect) ==
  [m EXCEPT !.phase = ph, !.rev = @ + 1, !.indivisible = FALSE,
            !.pend = IF effect = None THEN None ELSE [kind |-> effect, rev |-> m.rev + 1],
            !.checkpoint = IF ph \in WorkPhases THEN ph ELSE @]
Keep(m, indivisible) == [m EXCEPT !.rev = @ + 1, !.indivisible = indivisible]

StartOperation(c, approved) ==
  [phase |-> "checking", rev |-> 0, pend |-> [kind |-> "probe", rev |-> 0], indivisible |-> FALSE,
   plan |-> None, approved |-> approved, consented |-> None,
   checkpoint |-> None, step |-> None, steps |-> FALSE,
   cancel |-> FALSE, owned |-> FALSE, owner |-> c]

Probed(m, d) == IF m.consented = None THEN [m EXCEPT !.plan = d] ELSE m

StartCancelling(m) == Advance([m EXCEPT !.cancel = TRUE], "cancelling", "cleanup")

AfterConsent(o, m, hostStep) ==
  IF hostStep THEN Advance([m EXCEPT !.step = m.rev + 1], "preparing-host", "host-step")
  ELSE CASE Kind[o] = "setup" -> Advance(m, "preparing-environment", "prepare-environment")
         [] Kind[o] = "update" -> Advance(m, "pulling-image", "pull-image")
         [] Kind[o] = "remove" -> Advance(m, "removing", "remove")

ContinueConsentedWork(o, m, present) ==
  CASE /\ Kind[o] # "remove" /\ Target[o] = "runtime"
       /\ m.checkpoint \in {"pulling-image", "verifying", "activating"}
         -> IF present THEN Advance(m, "verifying", "verify")
                       ELSE Advance(m, "pulling-image", "pull-image")
    [] Kind[o] # "remove" /\ Target[o] = "environment" /\ m.checkpoint = "verifying"
         -> Advance(m, "verifying", "verify")
    [] OTHER -> AfterConsent(o, m, FALSE)

ConsentCovers(o, m, d) == Kind[o] = "remove" \/ Basis[m.consented] = Basis[d]

(* Consent the operation already acted on, and that still covers the plan. *)
CarriesOverAnyApproval(o, m, d) ==
  /\ m.checkpoint # None /\ d \notin Steps /\ m.consented # None
  /\ ConsentCovers(o, m, d)
CarriesOver(o, m, d) ==
  /\ m.checkpoint # None /\ d \notin Steps /\ m.consented # None
  /\ m.approved = m.consented /\ ConsentCovers(o, m, d)

RequirementsReady(o, m, d, present) ==
  CASE m.cancel -> StartCancelling(m)
    [] ~m.cancel /\ d \in Relogin -> Advance(Probed(m, d), "relogin-required", None)
    [] ~m.cancel /\ d \in Blocked \ Relogin -> Advance(Probed(m, d), "failed", None)
    [] ~m.cancel /\ d \notin Blocked /\ CarriesOver(o, m, d)
         -> ContinueConsentedWork(o, [m EXCEPT !.plan = m.consented], present)
    [] ~m.cancel /\ d \notin Blocked /\ ~CarriesOver(o, m, d) /\ m.approved # d
         -> Advance([m EXCEPT !.plan = d], "awaiting-consent", None)
    [] OTHER -> AfterConsent(o, [m EXCEPT !.plan = d, !.consented = d], d \in Steps)

(* The machine's answer to a privileged step: the verdict of a new probe.  *)
HostReceipt(m, outcome, met, relogin) ==
  LET kept == [m EXCEPT !.steps = TRUE, !.step = None]
      waits == relogin \/ (outcome = "reboot-required" /\ ~met) IN
  CASE outcome \in {"declined", "failed"} -> Advance([m EXCEPT !.step = None], "failed", None)
    [] outcome \notin {"declined", "failed"} /\ waits /\ m.cancel -> Advance(kept, "cancelling", "cleanup")
    [] outcome \notin {"declined", "failed"} /\ waits /\ ~m.cancel
         -> Advance(kept, IF relogin THEN "relogin-required" ELSE "reboot-required", None)
    [] outcome \notin {"declined", "failed"} /\ ~waits /\ ~met -> Advance(kept, "failed", None)
    [] OTHER -> IF m.cancel THEN StartCancelling(kept)
                ELSE Advance(kept, "preparing-environment", "prepare-environment")

ReconciledForgettingCancel(m, steps, d, wait) ==
  LET base == [Probed(m, d) EXCEPT !.steps = steps, !.step = None] IN
  IF wait # None THEN Advance(base, wait, None) ELSE Advance(base, "checking", "probe")
Reconciled(m, steps, d, wait) ==
  LET base == [Probed(m, d) EXCEPT !.steps = steps, !.step = None] IN
  CASE m.cancel -> Advance(base, "cancelling", "cleanup")
    [] ~m.cancel /\ wait # None -> Advance(base, wait, None)
    [] ~m.cancel /\ wait = None -> Advance(base, "checking", "probe")

(* After a step that completed, honour a cancellation that came meanwhile. *)
OrCancel(m, next) == IF m.cancel THEN StartCancelling(m) ELSE next

(* The answer to an effect that finished.                                  *)
Completed(o, m, effect) ==
  CASE effect = "prepare-environment" ->
         OrCancel(m, IF Target[o] = "environment" THEN Advance(m, "verifying", "verify")
                                                 ELSE Advance(m, "pulling-image", "pull-image"))
    [] effect = "pull-image" -> OrCancel(m, Advance(m, "verifying", "verify"))
    [] effect = "verify" ->
         OrCancel(m, IF Target[o] = "environment" THEN Advance(m, "ready", None)
                     ELSE Advance(m, "activating", IF Kind[o] = "update" THEN "unload-resident"
                                                                         ELSE "activate"))
    [] effect = "unload-resident" -> Advance(m, "activating", "activate")
    [] effect = "activate" -> Advance([m EXCEPT !.cancel = FALSE], "ready", None)
    [] effect = "remove" -> Advance(m, "removed", None)
    [] effect = "cleanup" -> Advance(m, "cancelled", None)
    [] effect = "host-step" -> Keep(m, TRUE)

Failed(m) == Advance(m, "failed", None)

Cancel(m) ==
  CASE m.phase \in {"ready", "removed", "cancelled", "cancelling"} -> m
    [] m.phase = "failed" -> IF m.steps THEN StartCancelling(m)
                             ELSE Advance([m EXCEPT !.cancel = TRUE], "cancelled", None)
    [] m.phase \notin Terminal \cup {"cancelling"} /\ (m.indivisible \/ m.phase = "activating")
         -> IF m.cancel THEN m ELSE Keep([m EXCEPT !.cancel = TRUE], m.indivisible)
    [] OTHER -> StartCancelling(m)

Resumes(m, d) ==
  \/ m.phase \in {"ready", "removed"}
  \/ /\ m.phase \in {"failed", "cancelled", "relogin-required", "reboot-required"}
     /\ d = None \/ d = m.plan
Resume(m, d) ==
  IF m.phase \in {"ready", "removed"} THEN m
  ELSE Advance([m EXCEPT !.cancel = FALSE, !.approved = IF d = None THEN @ ELSE d], "checking", "reconcile")

Approves(m, d) == m.phase = "awaiting-consent" /\ d # None
Approve(m, d) == Advance([m EXCEPT !.approved = d], "checking", "probe")

(* recovery.ts: the state a restarted core starts from. *)
Restarted(m) ==
  [m EXCEPT !.phase = "checking", !.rev = @ + 1, !.step = None, !.indivisible = FALSE,
            !.pend = [kind |-> "reconcile", rev |-> m.rev + 1]]

-----------------------------------------------------------------------------
(* The service and the store, service.ts and store.ts                      *)

(* dispatch: start the pending effect, unless the core is stopping.  The   *)
(* number tells apart two runs of one effect.                              *)
Dispatched(c, o, m) ==
  IF m.pend = None \/ core[c] = "stopping" THEN {}
  ELSE {[core |-> c, op |-> o, kind |-> m.pend.kind, rev |-> m.pend.rev, cons |-> m.consented,
         n |-> Cardinality({r \in runs : r.core = c /\ r.op = o /\ r.rev = m.pend.rev}),
         owned |-> m.owned, stage |-> "begun"]}

CallOn(m, c, o, event, then, arg) ==
  [core |-> c, op |-> o, event |-> event, rev |-> m.rev, owned |-> m.owned, who |-> m.owner,
   then |-> then, arg |-> arg, tries |-> 1]
NewCall(c, o, event) == CallOn(disk[o], c, o, event, None, None)

(* announce: the end of a reinstall's removal leads to the setup it names. *)
Followed(c, o, m) ==
  IF m.phase = "removed" /\ FollowUp[o] # None
  THEN {CallOn(m, c, o, "follow", FollowUp[o], None)}
  ELSE {}

(* compareAndSwap at the revision read: the write stamps the owner, and    *)
(* what the operation owns only grows.  A result is read and swapped at    *)
(* once: at any other revision it would be refused, or lose its swap.      *)
SwappedOverwriting(c, m, ownedRead) == [m EXCEPT !.owner = c, !.owned = ownedRead]
Swapped(c, m, ownedRead) == [m EXCEPT !.owner = c, !.owned = @ \/ ownedRead]
Commit(c, o, m, ownedRead) == disk' = [disk EXCEPT ![o] = Swapped(c, m, ownedRead)]

(* The record's own effect, at the record's own revision.                  *)
Accepts(r) ==
  /\ disk[r.op] # None /\ disk[r.op].pend # None
  /\ disk[r.op].pend.rev = r.rev /\ disk[r.op].rev = r.rev

(* A result: applied and followed by the next effect, or refused as stale. *)
Answer(r, m) ==
  /\ IF Accepts(r)
     THEN /\ Commit(r.core, r.op, m, m.owned)
          /\ runs' = (runs \ {r}) \cup
                     (IF r.kind = "host-step" THEN {} ELSE Dispatched(r.core, r.op, m))
          /\ calls' = calls \cup Followed(r.core, r.op, m)
     ELSE runs' = runs \ {r} /\ UNCHANGED <<disk, calls>>
  /\ UNCHANGED <<core, asked, archived, consents, image, claimed>>

AnswerProbe(r, d, present) ==
  /\ r.kind = "probe" /\ (Kind[r.op] = "remove" => d \notin Steps)
  /\ Answer(r, RequirementsReady(r.op, disk[r.op], d, present))

AnswerReconcile(r, steps, d, wait) ==
  /\ r.kind = "reconcile"
  /\ Answer(r, Reconciled(disk[r.op], steps, d, wait))

AnswerDone(r) ==
  /\ r.kind \notin {"probe", "reconcile"}
  /\ r.kind \in {"prepare-environment", "activate", "remove"} => r.stage = "done"
  /\ Answer(r, Completed(r.op, disk[r.op], r.kind))

(* The effect threw: its own failure, or the abort of a cancel or shutdown *)
AnswerFailed(r) == r.kind # "host-step" /\ Answer(r, Failed(disk[r.op]))

(* prepare: a GPU-check image that is absent is recorded as this           *)
(* operation's (recordOwned) before it is pulled; one that was present     *)
(* when the setup looked, and gone when it pulled, nobody's.               *)
RecordOwnedAlways(r) ==
  /\ r.kind = "prepare-environment" /\ r.stage = "begun" /\ disk[r.op] # None
  /\ runs' = (runs \ {r}) \cup {[r EXCEPT !.stage = "absent"]}
  /\ disk' = [disk EXCEPT ![r.op].owned = TRUE, ![r.op].owner = r.core]
  /\ UNCHANGED <<core, calls, asked, archived, consents, image, claimed>>
RecordOwned(r) ==
  /\ r.kind = "prepare-environment" /\ r.stage = "begun" /\ disk[r.op] # None
  /\ runs' = (runs \ {r}) \cup {[r EXCEPT !.stage = IF image = None THEN "absent" ELSE "present"]}
  /\ disk' = IF image # None \/ disk[r.op].owned THEN disk
             ELSE [disk EXCEPT ![r.op].owned = TRUE, ![r.op].owner = r.core]
  /\ UNCHANGED <<core, calls, asked, archived, consents, image, claimed>>

PullProbeImage(r) ==
  /\ r.kind = "prepare-environment" /\ r.stage \in {"absent", "present"}
  /\ runs' = (runs \ {r}) \cup {[r EXCEPT !.stage = "done"]}
  /\ image' = CASE image # None -> image
                [] image = None /\ r.stage = "absent" -> r.op
                [] image = None /\ r.stage = "present" -> "stray"
  /\ UNCHANGED <<disk, core, calls, asked, archived, consents, claimed>>

(* activate: the installation record, naming the image if it is ours.      *)
Activate(r) ==
  /\ r.kind = "activate" /\ r.stage = "begun"
  /\ runs' = (runs \ {r}) \cup {[r EXCEPT !.stage = "done"]}
  /\ claimed' = (claimed \/ r.owned)
  /\ UNCHANGED <<disk, core, calls, asked, archived, consents, image>>

(* remove: the image the installation record names, then the record.       *)
RemoveImage(r) ==
  /\ r.kind = "remove" /\ r.stage = "begun"
  /\ runs' = (runs \ {r}) \cup {[r EXCEPT !.stage = "half"]}
  /\ image' = IF claimed THEN None ELSE image
  /\ UNCHANGED <<disk, core, calls, asked, archived, consents, claimed>>
RemoveInstallation(r) ==
  /\ r.kind = "remove" /\ r.stage = "half"
  /\ runs' = (runs \ {r}) \cup {[r EXCEPT !.stage = "done"]}
  /\ claimed' = FALSE
  /\ UNCHANGED <<disk, core, calls, asked, archived, consents, image>>

-----------------------------------------------------------------------------
(* createOrGet: refused while another operation is not finished.           *)
Create(c, o, approved) ==
  /\ disk' = [disk EXCEPT ![o] = StartOperation(c, approved)]
  /\ runs' = runs \cup Dispatched(c, o, StartOperation(c, approved))
  /\ consents' = [consents EXCEPT ![o] = IF approved = None THEN @ ELSE @ \cup {approved}]

Fresh(o) == disk[o] = None /\ o \notin archived
Busy == {b \in Ops : Running(b)}
Abandoned(b) == disk[b].phase \notin Waiting /\ OwnerGone(disk[b].owner)
NotFollowUp(o) == \A p \in Ops : FollowUp[p] # o

Begin(c, o, approved) ==
  /\ core[c] = "up" /\ asked < MaxCalls /\ asked' = asked + 1
  /\ Fresh(o) /\ NotFollowUp(o) /\ Busy = {}
  /\ FollowUp[o] # None => approved # None
  /\ Create(c, o, approved)
  /\ UNCHANGED <<core, calls, archived, image, claimed>>

(* begin, refused by an operation whose core is gone: end that one first.  *)
BeginOverAbandoned(c, o, approved, b) ==
  /\ core[c] = "up" /\ asked < MaxCalls /\ asked' = asked + 1
  /\ Fresh(o) /\ NotFollowUp(o) /\ b \in Busy /\ Abandoned(b)
  /\ FollowUp[o] # None => approved # None
  /\ calls' = calls \cup {CallOn(disk[b], c, b, "abandon", o, approved)}
  /\ UNCHANGED <<disk, core, runs, archived, consents, image, claimed>>

EndAbandoned(k) ==
  /\ k.event = "abandon"
  /\ calls' = (calls \ {k}) \cup {[k EXCEPT !.event = "begin"]}
  /\ IF disk[k.op] # None /\ disk[k.op].rev = k.rev /\ disk[k.op].pend # None
     THEN Commit(k.core, k.op, Failed(disk[k.op]), k.owned)
     ELSE UNCHANGED disk
  /\ UNCHANGED <<core, runs, asked, archived, consents, image, claimed>>

BeginAgain(k) ==
  /\ k.event = "begin"
  /\ calls' = calls \ {k}
  /\ IF Fresh(k.then) /\ Busy = {} THEN Create(k.core, k.then, k.arg)
                                   ELSE UNCHANGED <<disk, runs, consents>>
  /\ UNCHANGED <<core, asked, archived, image, claimed>>

(* beginFollowUp: by request id, so at most once; refused like any begin.  *)
BeginFollowUp(k) ==
  /\ k.event = "follow"
  /\ \/ /\ core[k.core] # "stopping" /\ Fresh(k.then) /\ Busy = {}
        /\ calls' = calls \ {k} /\ Create(k.core, k.then, None)
     \/ \E b \in Busy :
          /\ core[k.core] # "stopping" /\ Fresh(k.then) /\ Abandoned(b)
          /\ calls' = (calls \ {k}) \cup {CallOn(disk[b], k.core, b, "abandon", k.then, None)}
          /\ UNCHANGED <<disk, runs, consents>>
     \/ /\ core[k.core] = "stopping" \/ ~Fresh(k.then) \/ \E b \in Busy : ~Abandoned(b)
        /\ calls' = calls \ {k} /\ UNCHANGED <<disk, runs, consents>>
  /\ UNCHANGED <<core, asked, archived, image, claimed>>

(* A client's cancel, resume, approval or receipt: the read of the record. *)
Asks(c, o, event) ==
  /\ core[c] = "up" /\ disk[o] # None /\ asked < MaxCalls /\ asked' = asked + 1
  /\ event \in {"cancel", "receipt"}
  /\ event = "receipt" => disk[o].step # None
  /\ calls' = calls \cup {NewCall(c, o, event)}
  /\ UNCHANGED <<disk, core, runs, archived, consents, image, claimed>>

(* apply: the swap lands at the revision read, or the call changes nothing.*)
Applies(k, m) ==
  /\ disk[k.op] # None /\ disk[k.op].rev = k.rev
  /\ Commit(k.core, k.op, m, k.owned)
  /\ runs' = runs \cup Dispatched(k.core, k.op, m)
  /\ calls' = (calls \ {k}) \cup Followed(k.core, k.op, m)
  /\ UNCHANGED <<core, asked, archived, image, claimed>>

CommitCancel(k) ==
  /\ k.event = "cancel" /\ Applies(k, Cancel(disk[k.op])) /\ UNCHANGED consents

(* resume and approve name the revision the client saw, so a stale one is  *)
(* refused: reading and swapping at once leaves no outcome out.            *)
AppliesNow(c, o, m) ==
  /\ core[c] = "up" /\ asked < MaxCalls /\ asked' = asked + 1
  /\ Commit(c, o, m, m.owned)
  /\ runs' = runs \cup Dispatched(c, o, m)
  /\ calls' = calls \cup Followed(c, o, m)
  /\ consents' = [consents EXCEPT ![o] = @ \cup ({m.approved} \ {None})]
  /\ UNCHANGED <<core, archived, image, claimed>>
ResumeOp(c, o, d) == disk[o] # None /\ Resumes(disk[o], d) /\ AppliesNow(c, o, Resume(disk[o], d))
ApproveOp(c, o, d) == disk[o] # None /\ Approves(disk[o], d) /\ AppliesNow(c, o, Approve(disk[o], d))

CommitReceipt(k, outcome, met, relogin) ==
  /\ k.event = "receipt" /\ disk[k.op] # None /\ disk[k.op].pend # None
  /\ disk[k.op].phase = "preparing-host"
  /\ Applies(k, HostReceipt(disk[k.op], outcome, met, relogin)) /\ UNCHANGED consents

(* recover: only what a dead owner left; the revision moves on twice.      *)
CommitRecover(k, steps, d, wait) ==
  /\ k.event = "recover" /\ OwnerGone(k.who)
  /\ disk[k.op] # None
  /\ Applies(k, Reconciled(Restarted(disk[k.op]), steps, d, wait)) /\ UNCHANGED consents

(* Something is in the place of what the effect makes, and is not ours.    *)
RecoverForeign(k) ==
  /\ k.event = "recover" /\ OwnerGone(k.who)
  /\ disk[k.op] # None /\ disk[k.op].pend # None
  /\ Applies(k, [Restarted(disk[k.op]) EXCEPT !.phase = "failed", !.pend = None])
  /\ UNCHANGED consents

(* Another call moved the record, or the reducer refused: nothing is       *)
(* written.  A receipt is read again, three times in all.                  *)
Permitted(k) ==
  /\ disk[k.op] # None /\ disk[k.op].rev = k.rev
  /\ k.event = "recover" => OwnerGone(k.who)
  /\ k.event = "receipt" => disk[k.op].pend # None /\ disk[k.op].phase = "preparing-host"
GiveUpDispatching(k) ==
  /\ k.event \in {"cancel", "receipt", "recover"} /\ ~Permitted(k)
  /\ calls' = calls \ {k}
  /\ runs' = IF disk[k.op] = None THEN runs ELSE runs \cup Dispatched(k.core, k.op, disk[k.op])
  /\ UNCHANGED <<disk, core, asked, archived, consents, image, claimed>>
GiveUp(k) ==
  /\ k.event \in {"cancel", "receipt", "recover"} /\ ~Permitted(k)
  /\ calls' = (calls \ {k}) \cup
       (IF /\ k.event = "receipt" /\ k.tries < 3
           /\ disk[k.op] # None /\ disk[k.op].step # None /\ disk[k.op].rev # k.rev
        THEN {[NewCall(k.core, k.op, "receipt") EXCEPT !.tries = k.tries + 1]} ELSE {})
  /\ UNCHANGED <<disk, core, runs, asked, archived, consents, image, claimed>>

(* reset: archive everything, unless an operation is not finished.         *)
Reset(c) ==
  /\ core[c] = "up" /\ Busy = {} /\ asked < MaxCalls /\ asked' = asked + 1
  /\ archived' = archived \cup {o \in Ops : disk[o] # None}
  /\ disk' = [o \in Ops |-> None]
  /\ UNCHANGED <<core, runs, calls, consents, image, claimed>>

-----------------------------------------------------------------------------
(* A core starts: every unfinished operation is looked at, then every      *)
(* reinstall whose setup is missing.                                       *)
Start(c) ==
  /\ core[c] = "off" /\ core' = [core EXCEPT ![c] = "starting"]
  /\ calls' = calls \cup {NewCall(c, o, "recover") : o \in Busy}
  /\ UNCHANGED <<disk, runs, asked, archived, consents, image, claimed>>

FinishStart(c) ==
  /\ core[c] = "starting" /\ ~ \E k \in calls : k.core = c /\ k.event = "recover"
  /\ core' = [core EXCEPT ![c] = "up"]
  /\ calls' = calls \cup UNION {Followed(c, o, disk[o]) : o \in {x \in Ops : disk[x] # None}}
  /\ UNCHANGED <<disk, runs, asked, archived, consents, image, claimed>>

Shutdown(c) ==
  /\ core[c] = "up" /\ core' = [core EXCEPT ![c] = "stopping"]
  /\ UNCHANGED <<disk, runs, calls, asked, archived, consents, image, claimed>>

(* A crash, or the exit that ends a shutdown: what was in flight is lost.  *)
Gone(c) ==
  /\ core[c] \in {"starting", "up", "stopping"} /\ core' = [core EXCEPT ![c] = "gone"]
  /\ runs' = {r \in runs : r.core # c} /\ calls' = {k \in calls : k.core # c}
  /\ UNCHANGED <<disk, asked, archived, consents, image, claimed>>

Init ==
  /\ disk = [o \in Ops |-> None] /\ core = [c \in Cores |-> "off"]
  /\ runs = {} /\ calls = {} /\ asked = 0 /\ archived = {}
  /\ consents = [o \in Ops |-> {}] /\ image \in {None, "user"} /\ claimed = FALSE

Work(r) ==
  \/ \E d \in Digests, present \in BOOLEAN : AnswerProbe(r, d, present)
  \/ \E steps \in BOOLEAN, d \in Digests \cup {None}, wait \in Waits :
       AnswerReconcile(r, steps, d, wait)
  \/ AnswerDone(r) \/ AnswerFailed(r) \/ RecordOwned(r) \/ PullProbeImage(r)
  \/ Activate(r) \/ RemoveImage(r) \/ RemoveInstallation(r)

Handle(k) ==
  \/ EndAbandoned(k) \/ BeginAgain(k) \/ BeginFollowUp(k)
  \/ CommitCancel(k) \/ RecoverForeign(k) \/ GiveUp(k)
  \/ \E outcome \in {"completed", "reboot-required", "declined", "failed"}, met, relogin \in BOOLEAN :
       CommitReceipt(k, outcome, met, relogin)
  \/ \E steps \in BOOLEAN, d \in Digests \cup {None}, wait \in Waits :
       CommitRecover(k, steps, d, wait)

Ask(c) ==
  \/ \E o \in Ops, d \in Digests \cup {None} : Begin(c, o, d)
  \/ \E o, b \in Ops, d \in Digests \cup {None} : BeginOverAbandoned(c, o, d, b)
  \/ \E o \in Ops, event \in Events : Asks(c, o, event)
  \/ \E o \in Ops, d \in Digests \cup {None} : ResumeOp(c, o, d) \/ ApproveOp(c, o, d)
  \/ Reset(c)

Next ==
  \/ \E r \in runs : Work(r)
  \/ \E k \in calls : Handle(k)
  \/ \E c \in Cores : Ask(c) \/ Start(c) \/ FinishStart(c) \/ Shutdown(c) \/ Gone(c)

Spec == Init /\ [][Next]_vars
-----------------------------------------------------------------------------
(* Every variable has its type.                                            *)
TypeOK ==
  /\ disk \in [Ops -> Record \cup {None}]
  /\ core \in [Cores -> {"off", "starting", "up", "stopping", "gone"}]
  /\ runs \subseteq Run /\ calls \subseteq Call
  /\ asked \in 0..MaxCalls /\ archived \subseteq Ops
  /\ consents \in [Ops -> SUBSET Digests]
  /\ image \in Ops \cup {None, "user", "stray"} /\ claimed \in BOOLEAN

WorkEffects == {"host-step", "prepare-environment", "pull-image", "verify", "unload-resident",
                "activate", "remove"}

(* Nothing changes the machine without consent: every effect that does     *)
(* runs under a plan some client approved for this operation, a privileged *)
(* step under exactly the plan that has it, and while an operation works   *)
(* its plan, its approval and its recorded consent are the same            *)
(* (requirements-ready in state.ts, across restarts, resumes and re-asks). *)
ConsentCoversWork ==
  /\ \A r \in runs : r.kind \in WorkEffects => r.cons \in consents[r.op]
  /\ \A r \in runs : r.kind = "host-step" => r.cons \in Steps
  /\ \A o \in Busy : disk[o].phase \in WorkPhases =>
       disk[o].plan = disk[o].approved /\ disk[o].approved = disk[o].consented

(* Of all the effects in flight, in every core that shares the store, at   *)
(* most one can still answer for an operation: two cores never drive one   *)
(* operation at once (apply and compareAndSwap).  A cleanup is the         *)
(* exception: cancelling an operation that is already cancelling           *)
(* dispatches its pending cleanup again.                                   *)
OneDriver ==
  \A r, q \in runs :
    r.op = q.op /\ Accepts(r) /\ Accepts(q) => r = q \/ r.kind = "cleanup"

(* The GPU-check image a setup pulled for itself is on record as its own,  *)
(* whichever core died and whichever stale commit landed (recordOwned      *)
(* before the pull, the union in compareAndSwap).                          *)
OwnedCoversCreated == image \in Ops \ archived => disk[image].owned

(* A GPU-check image the user already had is never recorded as ours, by an *)
(* operation or by the installation a removal works from, so no removal    *)
(* deletes it (imageAbsent in prepare, ownsProbe in activate).             *)
UserImageKept ==
  image = "user" => ~claimed /\ \A o \in Ops : disk[o] # None => ~disk[o].owned

(* While a cancellation stays on record the operation issues no effect but *)
(* the cleanup, whatever completes, is recovered or is answered meanwhile. *)
CancelStopsWork ==
  [][\A o \in Busy : disk[o].cancel /\ disk'[o].cancel =>
       disk'[o].pend \in {disk[o].pend, None} \/ disk'[o].pend.kind = "cleanup"]_disk

(* An effect that is still pending can still be answered by the core that  *)
(* performs it: a transition that only records something keeps the effect  *)
(* answerable (KEEP in state.ts).  A host step is answered by a receipt.   *)
AnswerAttaches ==
  \A r \in runs :
    r.kind # "host-step" /\ disk[r.op] # None /\ disk[r.op].pend # None =>
      (disk[r.op].pend.rev = r.rev => Accepts(r))
===============================================================================
