------------------------ MODULE EnvironmentStepProofs -------------------------
(***************************************************************************)
(* The reducer of state.ts, one transition at a time: what it keeps true of *)
(* one machine, and how the machine it returns relates to the one it got.  *)
(* Then the inductive invariant of the operation store, and the shapes of  *)
(* its steps that write no stage of an effect: a commit, a creation, no    *)
(* write.                                                                  *)
(***************************************************************************)
EXTENDS EnvironmentOps, TLAPS, FiniteSetTheorems


(* What the reducer keeps true of one machine, given the plans approved.   *)
Good(m, C) ==
  /\ m \in Record
  /\ m.approved # None => m.approved \in C
  /\ m.consented # None => m.consented \in C
  /\ m.phase \in WorkPhases =>
       m.plan = m.approved /\ m.approved = m.consented /\ m.consented # None
  /\ m.phase = "preparing-host" => m.consented \in Steps
  /\ m.phase = "awaiting-consent" => ~m.cancel /\ ~m.indivisible
  /\ m.phase \in Terminal => m.pend = None
  /\ m.phase = "cancelling" => m.pend # None /\ m.pend.kind = "cleanup"
  /\ m.pend # None =>
       /\ m.pend.rev <= m.rev
       /\ m.pend.kind \in WorkEffects => m.phase \in WorkPhases
       /\ m.pend.kind = "host-step" => m.phase = "preparing-host"
       /\ m.cancel /\ m.pend.rev = m.rev => m.pend.kind = "cleanup"

(* A transition to a new revision: its effect, if any, is issued there.    *)
Moves(m, n) ==
  n.rev > m.rev /\ (n.pend # None => n.pend.rev = n.rev) /\ n.owned = m.owned

(* A transition that keeps the effect that was pending.                    *)
Keeps(m, n) ==
  n.rev > m.rev /\ n.pend = m.pend /\ n.owned = m.owned /\ n.consented = m.consented

(* What advance sets, and what it leaves alone.                            *)
LEMMA AdvanceFields ==
  ASSUME NEW m \in Record, NEW ph \in Phases, NEW e \in Effects \cup {None}
  PROVE  LET n == Advance(m, ph, e) IN
         /\ n \in Record
         /\ n.phase = ph /\ n.rev = m.rev + 1 /\ n.indivisible = FALSE
         /\ e = None => n.pend = None
         /\ e # None => n.pend = [kind |-> e, rev |-> m.rev + 1] /\ n.pend # None
         /\ n.plan = m.plan /\ n.approved = m.approved /\ n.consented = m.consented
         /\ n.step = m.step /\ n.steps = m.steps /\ n.cancel = m.cancel
         /\ n.owned = m.owned /\ n.owner = m.owner
<1> DEFINE p == IF e = None THEN None ELSE [kind |-> e, rev |-> m.rev + 1]
           c == IF ph \in WorkPhases THEN ph ELSE m.checkpoint
           n == [m EXCEPT !.phase = ph, !.rev = m.rev + 1, !.indivisible = FALSE, !.pend = p,
                          !.checkpoint = c]
<1>1. Advance(m, ph, e) = n
  BY DEF Advance, Record
<1>2. m.rev \in Nat /\ m.checkpoint \in WorkPhases \cup {None}
  BY DEF Record
<1>3. p \in Intent \cup {None} /\ c \in WorkPhases \cup {None}
  BY <1>2 DEF Intent
<1>4. e # None => p # None
  BY <1>2, NoneAssumption DEF Intent
<1> HIDE DEF p, c
<1>5. n \in Record
  <2>1. m.rev + 1 \in Nat /\ FALSE \in BOOLEAN
    BY <1>2
  <2>2. [m EXCEPT !.phase = ph, !.rev = m.rev + 1] \in Record
    BY <2>1, Zenon DEF Record
  <2> DEFINE k == [m EXCEPT !.phase = ph, !.rev = m.rev + 1, !.indivisible = FALSE, !.pend = p]
  <2>3. k \in Record
    BY <2>1, <2>2, <1>3, Zenon DEF Record
  <2>4. n = [k EXCEPT !.checkpoint = c]
    BY DEF Record
  <2> HIDE DEF k, n
  <2>5. [k EXCEPT !.checkpoint = c] \in Record
    BY <2>3, <1>3 DEF Record
  <2> QED
    BY <2>4, <2>5
<1>6. /\ n.phase = ph /\ n.rev = m.rev + 1 /\ n.indivisible = FALSE /\ n.pend = p
      /\ n.plan = m.plan /\ n.approved = m.approved /\ n.consented = m.consented
      /\ n.step = m.step /\ n.steps = m.steps /\ n.cancel = m.cancel
      /\ n.owned = m.owned /\ n.owner = m.owner
  BY DEF Record
<1> QED
  BY <1>1, <1>4, <1>5, <1>6 DEF p

(* A machine that is advanced satisfies Good when its new phase and effect *)
(* agree with its consent and its cancellation.                            *)
Allowed(m, ph, e, C) ==
  /\ m.approved # None => m.approved \in C
  /\ m.consented # None => m.consented \in C
  /\ ph \in WorkPhases => m.plan = m.approved /\ m.approved = m.consented /\ m.consented # None
  /\ ph = "preparing-host" => m.consented \in Steps
  /\ ph = "awaiting-consent" => ~m.cancel
  /\ ph \in Terminal => e = None
  /\ ph = "cancelling" => e = "cleanup"
  /\ e \in WorkEffects => ph \in WorkPhases
  /\ e = "host-step" => ph = "preparing-host"
  /\ m.cancel => e \in {None, "cleanup"}

(* Advancing an allowed machine gives a good one, at a new revision.       *)
LEMMA AdvanceGood ==
  ASSUME NEW m \in Record, NEW ph \in Phases, NEW e \in Effects \cup {None}, NEW C,
         Allowed(m, ph, e, C)
  PROVE  Good(Advance(m, ph, e), C) /\ Moves(m, Advance(m, ph, e))
<1> DEFINE n == Advance(m, ph, e)
<1>1. /\ n \in Record /\ n.phase = ph /\ n.rev = m.rev + 1 /\ n.indivisible = FALSE
      /\ e = None => n.pend = None
      /\ e # None => n.pend = [kind |-> e, rev |-> m.rev + 1] /\ n.pend # None
      /\ n.plan = m.plan /\ n.approved = m.approved /\ n.consented = m.consented
      /\ n.cancel = m.cancel /\ n.owned = m.owned
  BY AdvanceFields, Zenon
<1>2. m.rev \in Nat
  BY DEF Record
<1> HIDE DEF n
<1>3. e # None => n.pend.kind = e /\ n.pend.rev = m.rev + 1
  BY <1>1
<1>4. Good(n, C)
  BY <1>1, <1>2, <1>3, NoneAssumption DEF Good, Allowed, Effects
<1>5. Moves(m, n)
  BY <1>1, <1>2, <1>3 DEF Moves
<1> QED
  BY <1>4, <1>5 DEF n

(* n differs from m only in what a plan, a consent or a host step records. *)
Patch(m, n) ==
  n \in Record /\ n.rev = m.rev /\ n.pend = m.pend /\ n.owned = m.owned

(* Whatever is patched before an advance, the whole is one transition.     *)
LEMMA PatchedAdvance ==
  ASSUME NEW m \in Record, NEW n, Patch(m, n), NEW ph \in Phases, NEW e \in Effects \cup {None},
         NEW C, Allowed(n, ph, e, C)
  PROVE  Good(Advance(n, ph, e), C) /\ Moves(m, Advance(n, ph, e))
<1>1. Good(Advance(n, ph, e), C) /\ Moves(n, Advance(n, ph, e))
  BY AdvanceGood DEF Patch
<1> QED
  BY <1>1 DEF Patch, Moves

(* Cancelling is allowed from any machine.                                 *)
LEMMA StartCancellingGood ==
  ASSUME NEW m \in Record, NEW C, m.approved # None => m.approved \in C,
         m.consented # None => m.consented \in C
  PROVE  Good(StartCancelling(m), C) /\ Moves(m, StartCancelling(m))
<1> DEFINE n == [m EXCEPT !.cancel = TRUE]
<1>1. Patch(m, n) /\ n.approved = m.approved /\ n.consented = m.consented
  BY Zenon DEF Record, Patch
<1> HIDE DEF n
<1>2. Allowed(n, "cancelling", "cleanup", C)
  BY <1>1 DEF Allowed, WorkPhases, Terminal, WorkEffects
<1>3. "cancelling" \in Phases /\ "cleanup" \in Effects
  BY DEF Phases, Effects
<1> QED
  BY <1>1, <1>2, <1>3, PatchedAdvance DEF StartCancelling, n

(* Consent is recorded, approved and current, and nothing is cancelled.    *)
Consented(m, C) ==
  /\ m \in Record /\ m.consented # None /\ m.consented \in C
  /\ m.plan = m.approved /\ m.approved = m.consented /\ ~m.cancel

(* Under a consent that stands, work may be issued.                        *)
LEMMA WorkAllowed ==
  ASSUME NEW m, NEW C, Consented(m, C), NEW ph \in WorkPhases \ {"preparing-host"},
         NEW e \in Effects \ {"host-step"}
  PROVE  Good(Advance(m, ph, e), C) /\ Moves(m, Advance(m, ph, e))
<1>1. m \in Record /\ ph \in Phases /\ Allowed(m, ph, e, C)
  BY DEF Consented, Allowed, Phases, Terminal, WorkPhases
<1> QED
  BY <1>1, AdvanceGood

(* The first work after consent is allowed.                                *)
LEMMA AfterConsentGood ==
  ASSUME NEW o \in Ops, NEW m, NEW C, Consented(m, C), NEW hostStep \in BOOLEAN,
         hostStep => m.consented \in Steps
  PROVE  Good(AfterConsent(o, m, hostStep), C) /\ Moves(m, AfterConsent(o, m, hostStep))
<1>1. CASE hostStep
  <2> DEFINE n == [m EXCEPT !.step = m.rev + 1]
  <2>1. /\ Patch(m, n) /\ n.approved = m.approved /\ n.consented = m.consented
        /\ n.plan = m.plan /\ n.cancel = m.cancel
    BY DEF Record, Patch, Consented
  <2> HIDE DEF n
  <2>2. Allowed(n, "preparing-host", "host-step", C)
    BY <1>1, <2>1 DEF Allowed, WorkPhases, Terminal, WorkEffects, Consented, Record
  <2>3. m \in Record /\ "preparing-host" \in Phases /\ "host-step" \in Effects
    BY DEF Phases, Effects, Consented, WorkPhases
  <2> QED
    BY <1>1, <2>1, <2>2, <2>3, PatchedAdvance DEF AfterConsent, n
<1>2. CASE ~hostStep
  <2>1. Kind[o] \in {"setup", "update", "remove"}
    BY OpsAssumption
  <2>2. /\ {"preparing-environment", "pulling-image", "removing"} \subseteq WorkPhases \ {"preparing-host"}
        /\ {"prepare-environment", "pull-image", "remove"} \subseteq Effects \ {"host-step"}
    BY DEF WorkPhases, Effects
  <2> QED
    BY <1>2, <2>1, <2>2, WorkAllowed DEF AfterConsent
<1> QED
  BY <1>1, <1>2

(* So is the work a resumed operation continues with.                      *)
LEMMA ContinueGood ==
  ASSUME NEW o \in Ops, NEW m, NEW C, Consented(m, C), NEW present \in BOOLEAN
  PROVE  /\ Good(ContinueConsentedWork(o, m, present), C)
         /\ Moves(m, ContinueConsentedWork(o, m, present))
<1>1. /\ {"verifying", "pulling-image"} \subseteq WorkPhases \ {"preparing-host"}
      /\ {"verify", "pull-image"} \subseteq Effects \ {"host-step"}
  BY DEF WorkPhases, Effects
<1>2. Good(AfterConsent(o, m, FALSE), C) /\ Moves(m, AfterConsent(o, m, FALSE))
  BY AfterConsentGood, Zenon
<1>3. /\ Good(Advance(m, "verifying", "verify"), C) /\ Moves(m, Advance(m, "verifying", "verify"))
      /\ Good(Advance(m, "pulling-image", "pull-image"), C)
      /\ Moves(m, Advance(m, "pulling-image", "pull-image"))
  BY <1>1, WorkAllowed
<1> QED
  BY <1>2, <1>3, Zenon DEF ContinueConsentedWork

(* A phase that is neither work, nor cancelling, nor finished with an      *)
(* effect; the effect only looks at the machine.                           *)
LEMMA RestAllowed ==
  ASSUME NEW m \in Record, NEW n, Patch(m, n), NEW C,
         n.approved # None => n.approved \in C, n.consented # None => n.consented \in C,
         NEW ph \in Waiting \cup {"failed", "cancelled", "ready", "removed"},
         ph = "awaiting-consent" => ~n.cancel
  PROVE  Good(Advance(n, ph, None), C) /\ Moves(m, Advance(n, ph, None))
<1>1. ph \in Phases /\ None \in Effects \cup {None} /\ None \notin WorkEffects
  BY NoneAssumption DEF Phases, Waiting, Terminal, WorkEffects, Effects
<1>2. Allowed(n, ph, None, C)
  BY <1>1, NoneAssumption DEF Allowed, Waiting, WorkPhases, Effects
<1> QED
  BY <1>1, <1>2, PatchedAdvance

(* Looking at the machine is allowed unless a cancellation is on record.   *)
LEMMA LookAllowed ==
  ASSUME NEW m \in Record, NEW n, Patch(m, n), NEW C,
         n.approved # None => n.approved \in C, n.consented # None => n.consented \in C,
         ~n.cancel, NEW e \in {"probe", "reconcile"}
  PROVE  Good(Advance(n, "checking", e), C) /\ Moves(m, Advance(n, "checking", e))
<1>1. "checking" \in Phases /\ e \in Effects /\ e \notin WorkEffects
  BY DEF Phases, Effects, WorkEffects
<1>2. Allowed(n, "checking", e, C)
  BY <1>1 DEF Allowed, WorkPhases, Terminal
<1> QED
  BY <1>1, <1>2, PatchedAdvance

(* The cleanup is allowed always.                                          *)
LEMMA CleanupAllowed ==
  ASSUME NEW m \in Record, NEW n, Patch(m, n), NEW C,
         n.approved # None => n.approved \in C, n.consented # None => n.consented \in C
  PROVE  Good(Advance(n, "cancelling", "cleanup"), C) /\ Moves(m, Advance(n, "cancelling", "cleanup"))
<1>1. "cancelling" \in Phases /\ "cleanup" \in Effects
  BY DEF Phases, Effects
<1>2. Allowed(n, "cancelling", "cleanup", C)
  BY DEF Allowed, WorkPhases, Terminal, WorkEffects
<1> QED
  BY <1>1, <1>2, PatchedAdvance

(* Recording the plan a probe saw changes nothing else.                    *)
LEMMA ProbedPatch ==
  ASSUME NEW m \in Record, NEW d \in Digests \cup {None}
  PROVE  /\ Patch(m, Probed(m, d)) /\ Probed(m, d).approved = m.approved
         /\ Probed(m, d).consented = m.consented /\ Probed(m, d).cancel = m.cancel
BY DEF Probed, Patch, Record

(* The answer to a probe.                                                  *)
LEMMA RequirementsGood ==
  ASSUME NEW o \in Ops, NEW m, NEW C, Good(m, C), NEW d \in Digests, NEW present \in BOOLEAN
  PROVE  /\ Good(RequirementsReady(o, m, d, present), C)
         /\ Moves(m, RequirementsReady(o, m, d, present))
<1>1. m \in Record /\ d # None /\ m.consented \in Digests \cup {None} /\ m.cancel \in BOOLEAN
      /\ (m.approved # None => m.approved \in C) /\ (m.consented # None => m.consented \in C)
  BY NoneAssumption DEF Record, Good
<1>2. Good(StartCancelling(m), C) /\ Moves(m, StartCancelling(m))
  BY <1>1, StartCancellingGood
<1>3. Patch(m, Probed(m, d)) /\ Probed(m, d).approved = m.approved /\ Probed(m, d).consented = m.consented
  BY <1>1, ProbedPatch
<1>4. /\ Good(Advance(Probed(m, d), "relogin-required", None), C)
      /\ Moves(m, Advance(Probed(m, d), "relogin-required", None))
      /\ Good(Advance(Probed(m, d), "failed", None), C)
      /\ Moves(m, Advance(Probed(m, d), "failed", None))
  <2>1. {"relogin-required", "failed"} \subseteq Waiting \cup {"failed", "cancelled", "ready", "removed"}
    BY DEF Waiting
  <2> QED
    BY <1>1, <1>3, <2>1, RestAllowed
<1>5. ASSUME ~m.cancel, CarriesOver(o, m, d)
      PROVE  LET n == [m EXCEPT !.plan = m.consented] IN
             /\ Good(ContinueConsentedWork(o, n, present), C)
             /\ Moves(m, ContinueConsentedWork(o, n, present))
  <2> DEFINE n == [m EXCEPT !.plan = m.consented]
  <2>1. Consented(n, C) /\ Patch(m, n)
    BY <1>1, <1>5 DEF CarriesOver, Consented, Record, Patch
  <2> HIDE DEF n
  <2>2. Good(ContinueConsentedWork(o, n, present), C) /\ Moves(n, ContinueConsentedWork(o, n, present))
    BY <2>1, ContinueGood
  <2>3. Moves(m, ContinueConsentedWork(o, n, present))
    BY <2>1, <2>2 DEF Moves, Patch
  <2> QED
    BY <2>2, <2>3 DEF n
<1>6. ASSUME ~m.cancel
      PROVE  LET n == [m EXCEPT !.plan = d] IN
             /\ Good(Advance(n, "awaiting-consent", None), C)
             /\ Moves(m, Advance(n, "awaiting-consent", None))
  <2> DEFINE n == [m EXCEPT !.plan = d]
  <2>1. Patch(m, n) /\ n.approved = m.approved /\ n.consented = m.consented /\ ~n.cancel
    BY <1>1, <1>6 DEF Patch, Record
  <2>2. "awaiting-consent" \in Waiting \cup {"failed", "cancelled", "ready", "removed"}
    BY DEF Waiting
  <2> HIDE DEF n
  <2>3. Good(Advance(n, "awaiting-consent", None), C) /\ Moves(m, Advance(n, "awaiting-consent", None))
    BY <1>1, <2>1, <2>2, RestAllowed
  <2> QED
    BY <2>3 DEF n
<1>7. ASSUME ~m.cancel, m.approved = d
      PROVE  LET n == [m EXCEPT !.plan = d, !.consented = d] IN
             /\ Good(AfterConsent(o, n, d \in Steps), C)
             /\ Moves(m, AfterConsent(o, n, d \in Steps))
  <2> DEFINE n == [m EXCEPT !.plan = d, !.consented = d]
             h == d \in Steps
             j == [m EXCEPT !.plan = d]
  <2>0. /\ j \in Record /\ j.rev = m.rev /\ j.pend = m.pend /\ j.owned = m.owned
        /\ j.plan = d /\ j.approved = m.approved /\ j.cancel = m.cancel
    BY <1>1 DEF Record
  <2>a. n = [j EXCEPT !.consented = d]
    BY <1>1 DEF Record
  <2> HIDE DEF j, n
  <2>b. /\ n \in Record /\ n.rev = m.rev /\ n.pend = m.pend /\ n.owned = m.owned
        /\ n.plan = d /\ n.approved = m.approved /\ n.cancel = m.cancel /\ n.consented = d
    BY <2>0, <2>a DEF Record
  <2>1. Consented(n, C) /\ Patch(m, n) /\ n.consented = d
    BY <1>1, <1>7, <2>b DEF Consented, Patch
  <2>2. h \in BOOLEAN /\ (h => n.consented \in Steps)
    BY <2>1
  <2> HIDE DEF n, h
  <2>3. Good(AfterConsent(o, n, h), C) /\ Moves(n, AfterConsent(o, n, h))
    BY <2>1, <2>2, AfterConsentGood
  <2>4. Moves(m, AfterConsent(o, n, h))
    BY <2>1, <2>3 DEF Moves, Patch
  <2> QED
    BY <2>3, <2>4 DEF n, h
<1>8. CASE m.cancel
  BY <1>2, <1>8 DEF RequirementsReady
<1>9. CASE ~m.cancel /\ d \in Blocked
  BY <1>4, <1>9, OpsAssumption DEF RequirementsReady
<1>10. CASE ~m.cancel /\ d \notin Blocked
  BY <1>5, <1>6, <1>7, <1>10, OpsAssumption DEF RequirementsReady
<1> QED
  BY <1>1, <1>8, <1>9, <1>10

(* The answer to a privileged step.                                        *)
LEMMA HostReceiptGood ==
  ASSUME NEW m, NEW C, Good(m, C), m.phase = "preparing-host", NEW outcome,
         NEW met \in BOOLEAN, NEW relogin \in BOOLEAN
  PROVE  Good(HostReceipt(m, outcome, met, relogin), C) /\ Moves(m, HostReceipt(m, outcome, met, relogin))
<1> DEFINE kept == [m EXCEPT !.steps = TRUE, !.step = None]
           dropped == [m EXCEPT !.step = None]
           Ok(n) == Good(n, C) /\ Moves(m, n)
<1>1. /\ m \in Record /\ m.cancel \in BOOLEAN
      /\ m.approved # None => m.approved \in C
      /\ m.consented # None => m.consented \in C
      /\ m.plan = m.approved /\ m.approved = m.consented /\ m.consented # None
  BY DEF Good, WorkPhases, Record
<1>2. /\ Patch(m, kept) /\ Patch(m, dropped)
      /\ kept.approved = m.approved /\ kept.consented = m.consented /\ kept.plan = m.plan
      /\ kept.cancel = m.cancel
      /\ dropped.approved = m.approved /\ dropped.consented = m.consented
  BY <1>1, Zenon DEF Patch, Record
<1>3. {"failed", "relogin-required", "reboot-required"} \subseteq
        Waiting \cup {"failed", "cancelled", "ready", "removed"}
  BY DEF Waiting
<1> HIDE DEF kept, dropped
<1>4. Ok(Advance(dropped, "failed", None))
  BY <1>1, <1>2, <1>3, RestAllowed
<1>5. /\ Ok(Advance(kept, "failed", None)) /\ Ok(Advance(kept, "relogin-required", None))
      /\ Ok(Advance(kept, "reboot-required", None))
  BY <1>1, <1>2, <1>3, RestAllowed
<1>6. Ok(Advance(kept, "cancelling", "cleanup"))
  BY <1>1, <1>2, CleanupAllowed
<1>7. Ok(StartCancelling(kept))
  <2>1. Good(StartCancelling(kept), C) /\ Moves(kept, StartCancelling(kept))
    BY <1>1, <1>2, StartCancellingGood DEF Patch
  <2> QED
    BY <1>2, <2>1 DEF Moves, Patch
<1>8. ~m.cancel => Ok(Advance(kept, "preparing-environment", "prepare-environment"))
  <2>1. ~m.cancel => Consented(kept, C)
    BY <1>1, <1>2 DEF Consented, Patch
  <2>2. /\ "preparing-environment" \in WorkPhases \ {"preparing-host"}
        /\ "prepare-environment" \in Effects \ {"host-step"}
    BY DEF WorkPhases, Effects
  <2>3. ~m.cancel => /\ Good(Advance(kept, "preparing-environment", "prepare-environment"), C)
                     /\ Moves(kept, Advance(kept, "preparing-environment", "prepare-environment"))
    BY <2>1, <2>2, WorkAllowed
  <2> QED
    BY <1>2, <2>3 DEF Moves, Patch
<1> HIDE DEF Ok
<1>9. Ok(HostReceipt(m, outcome, met, relogin))
  BY <1>1, <1>4, <1>5, <1>6, <1>7, <1>8 DEF HostReceipt, kept, dropped
<1> QED
  BY <1>9 DEF Ok

(* Reconciling asks nothing of the phase or the effect it starts from.     *)
LEMMA ReconciledGood ==
  ASSUME NEW m \in Record, NEW C, m.approved # None => m.approved \in C,
         m.consented # None => m.consented \in C,
         NEW steps \in BOOLEAN, NEW d \in Digests \cup {None}, NEW wait \in Waits
  PROVE  Good(Reconciled(m, steps, d, wait), C) /\ Moves(m, Reconciled(m, steps, d, wait))
<1> DEFINE p == Probed(m, d)
           base == [p EXCEPT !.steps = steps, !.step = None]
           Ok(n) == Good(n, C) /\ Moves(m, n)
<1>1. Patch(m, p) /\ p.approved = m.approved /\ p.consented = m.consented /\ p.cancel = m.cancel
  BY ProbedPatch
<1> HIDE DEF p
<1>2. /\ Patch(m, base) /\ base.approved = m.approved /\ base.consented = m.consented
      /\ base.cancel = m.cancel
  BY <1>1, ZenonT(30) DEF Patch, Record
<1> HIDE DEF base
<1>3. Ok(Advance(base, "cancelling", "cleanup"))
  BY <1>2, CleanupAllowed
<1>4. wait # None => Ok(Advance(base, wait, None))
  BY <1>2, RestAllowed DEF Waits, Waiting
<1>5. ~m.cancel => Ok(Advance(base, "checking", "probe"))
  BY <1>2, LookAllowed
<1>6. m.cancel \in BOOLEAN
  BY DEF Record
<1> HIDE DEF Ok
<1>7. Ok(Reconciled(m, steps, d, wait))
  BY <1>3, <1>4, <1>5, <1>6 DEF Reconciled, base, p
<1> QED
  BY <1>7 DEF Ok

(* What a restarted machine keeps of the one before.                       *)
LEMMA RestartedFields ==
  ASSUME NEW m \in Record
  PROVE  LET n == Restarted(m) IN
         /\ n \in Record /\ n.rev = m.rev + 1 /\ n.owned = m.owned /\ n.cancel = m.cancel
         /\ n.approved = m.approved /\ n.consented = m.consented
<1> DEFINE k == [m EXCEPT !.step = None]
<1>1. Restarted(m) = Advance(k, "checking", "reconcile")
  BY NoneAssumption, Zenon DEF Restarted, Record, Advance, Effects, WorkPhases
<1>2. /\ k \in Record /\ k.rev = m.rev /\ k.owned = m.owned /\ k.cancel = m.cancel
      /\ k.approved = m.approved /\ k.consented = m.consented
  BY DEF Record
<1> DEFINE ph == "checking"
           e == "reconcile"
           n == Advance(k, ph, e)
<1>3. ph \in Phases /\ e \in Effects \cup {None}
  BY DEF Phases, Effects
<1> HIDE DEF k, ph, e
<1>4. /\ n \in Record /\ n.rev = k.rev + 1 /\ n.owned = k.owned /\ n.cancel = k.cancel
      /\ n.approved = k.approved /\ n.consented = k.consented
  BY <1>2, <1>3, AdvanceFields, ZenonT(30)
<1> HIDE DEF n
<1> QED
  BY <1>1, <1>2, <1>4 DEF n, ph, e

(* Recovery: the same operation, reconciled or stopped.                    *)
LEMMA RecoveredGood ==
  ASSUME NEW m, NEW C, Good(m, C),
         NEW steps \in BOOLEAN, NEW d \in Digests \cup {None}, NEW wait \in Waits
  PROVE  LET n == Reconciled(Restarted(m), steps, d, wait) IN Good(n, C) /\ Moves(m, n)
<1> DEFINE k == Restarted(m)
           n == Reconciled(k, steps, d, wait)
<1>1. m \in Record /\ m.rev \in Nat
  BY DEF Good, Record
<1>2. /\ k \in Record /\ k.rev = m.rev + 1 /\ k.owned = m.owned
      /\ k.approved = m.approved /\ k.consented = m.consented
  BY <1>1, RestartedFields
<1>a. (k.approved # None => k.approved \in C) /\ (k.consented # None => k.consented \in C)
  BY <1>2 DEF Good
<1> HIDE DEF k
<1>3. Good(n, C) /\ Moves(k, n)
  BY <1>2, <1>a, ReconciledGood, SMTT(30)
<1>4. n.rev \in Nat
  BY <1>3 DEF Good, Record
<1> HIDE DEF n
<1>5. Moves(m, n)
  BY <1>1, <1>2, <1>3, <1>4 DEF Moves
<1> QED
  BY <1>3, <1>5 DEF n, k

(* Recovery that stops at something it cannot claim.                       *)
LEMMA ForeignGood ==
  ASSUME NEW m, NEW C, Good(m, C)
  PROVE  LET n == [Restarted(m) EXCEPT !.phase = "failed", !.pend = None] IN
         Good(n, C) /\ Moves(m, n)
<1> DEFINE k == Restarted(m)
           n == [k EXCEPT !.phase = "failed", !.pend = None]
<1>1. m \in Record /\ m.rev \in Nat
  BY DEF Good, Record
<1>2. /\ k \in Record /\ k.rev = m.rev + 1 /\ k.owned = m.owned
      /\ k.approved = m.approved /\ k.consented = m.consented
  BY <1>1, RestartedFields
<1> HIDE DEF k
<1>3. /\ n \in Record /\ n.rev = k.rev /\ n.owned = k.owned /\ n.phase = "failed" /\ n.pend = None
      /\ n.approved = k.approved /\ n.consented = k.consented
  BY <1>2, Zenon DEF Record, Phases, Terminal
<1> HIDE DEF n
<1>4. Good(n, C)
  BY <1>2, <1>3 DEF Good, WorkPhases
<1>5. Moves(m, n)
  BY <1>1, <1>2, <1>3, SMTT(30) DEF Moves
<1> QED
  BY <1>4, <1>5 DEF n, k

(* A failure.                                                              *)
LEMMA FailedGood ==
  ASSUME NEW m, NEW C, Good(m, C)
  PROVE  Good(Failed(m), C) /\ Moves(m, Failed(m))
<1>1. m \in Record /\ Patch(m, m)
  BY DEF Good, Patch
<1> QED
  BY <1>1, RestAllowed DEF Failed, Good

(* Starting a privileged step keeps the effect in flight.                  *)
LEMMA KeepGood ==
  ASSUME NEW m, NEW C, Good(m, C), NEW b \in BOOLEAN, m.phase = "preparing-host"
  PROVE  Good(Keep(m, b), C) /\ Keeps(m, Keep(m, b))
<1> DEFINE n == Keep(m, b)
<1>1. m \in Record /\ m.rev \in Nat
  BY DEF Good, Record
<1>2. /\ n \in Record /\ n.rev = m.rev + 1 /\ n.owned = m.owned /\ n.phase = m.phase
      /\ n.pend = m.pend /\ n.plan = m.plan /\ n.cancel = m.cancel
      /\ n.approved = m.approved /\ n.consented = m.consented
  <2> DEFINE k == [m EXCEPT !.rev = m.rev + 1]
  <2>1. /\ k \in Record /\ k.rev = m.rev + 1 /\ k.owned = m.owned /\ k.phase = m.phase
        /\ k.pend = m.pend /\ k.plan = m.plan /\ k.cancel = m.cancel
        /\ k.approved = m.approved /\ k.consented = m.consented
    BY <1>1 DEF Record
  <2>2. n = [k EXCEPT !.indivisible = b]
    BY <1>1 DEF Record, Keep
  <2> HIDE DEF k
  <2> QED
    BY <2>1, <2>2 DEF Record
<1>3. m.pend # None => m.pend.rev \in Nat
  BY <1>1 DEF Record, Intent
<1> HIDE DEF n
<1>4. Good(n, C)
  BY <1>1, <1>2, <1>3 DEF Good
<1>5. Keeps(m, n)
  BY <1>1, <1>2 DEF Keeps
<1> QED
  BY <1>4, <1>5 DEF n

(* Every step of the reducer: to a new effect, keeping the one in flight,  *)
(* or to the same machine, whose effect is then a cleanup or out of date.  *)
Step(m, n) ==
  \/ Moves(m, n)
  \/ Keeps(m, n)
  \/ n = m /\ (m.pend # None => m.pend.kind = "cleanup" \/ m.pend.rev < m.rev)

(* The answer to any effect that finished.                                 *)
LEMMA CompletedGood ==
  ASSUME NEW o \in Ops, NEW m, NEW C, Good(m, C), m.pend # None, m.pend.rev = m.rev,
         NEW effect, effect = m.pend.kind, effect \notin {"probe", "reconcile"}
  PROVE  Good(Completed(o, m, effect), C) /\ Step(m, Completed(o, m, effect))
<1> DEFINE Ok(n) == Good(n, C) /\ Step(m, n)
<1>1. /\ m \in Record /\ Patch(m, m) /\ m.cancel \in BOOLEAN /\ effect \in Effects
      /\ (m.approved # None => m.approved \in C) /\ (m.consented # None => m.consented \in C)
      /\ m.cancel => effect = "cleanup"
  BY DEF Good, Record, Patch, Intent
<1>2. effect \in WorkEffects => Consented(m, C)
  <2>1. effect \in WorkEffects => effect # "cleanup" /\ m.phase \in WorkPhases
    BY DEF WorkEffects, Good
  <2> QED
    BY <1>1, <2>1 DEF Consented, Good
<1>3. Ok(StartCancelling(m))
  BY <1>1, StartCancellingGood, SMTT(30) DEF Step
<1>4. /\ Ok(Advance(m, "ready", None)) /\ Ok(Advance(m, "removed", None))
      /\ Ok(Advance(m, "cancelled", None))
  BY <1>1, RestAllowed, SMTT(30) DEF Step
<1>5. effect \in WorkEffects =>
        /\ Ok(Advance(m, "verifying", "verify")) /\ Ok(Advance(m, "pulling-image", "pull-image"))
        /\ Ok(Advance(m, "activating", "activate")) /\ Ok(Advance(m, "activating", "unload-resident"))
  <2>1. /\ {"verifying", "pulling-image", "activating"} \subseteq WorkPhases \ {"preparing-host"}
        /\ {"verify", "pull-image", "activate", "unload-resident"} \subseteq Effects \ {"host-step"}
    BY DEF WorkPhases, Effects
  <2> QED
    BY <1>2, <2>1, WorkAllowed DEF Step
<1>6. Ok(Advance([m EXCEPT !.cancel = FALSE], "ready", None))
  <2> DEFINE k == [m EXCEPT !.cancel = FALSE]
  <2>1. Patch(m, k) /\ k.approved = m.approved /\ k.consented = m.consented
    BY <1>1, Zenon DEF Patch, Record
  <2> HIDE DEF k
  <2>2. Ok(Advance(k, "ready", None))
    BY <1>1, <2>1, RestAllowed, SMTT(30) DEF Step
  <2> QED
    BY <2>2 DEF k
<1>7. effect = "host-step" => Ok(Keep(m, TRUE))
  BY KeepGood, Zenon DEF Step, Good
<1> HIDE DEF Ok
<1>8. effect \in WorkEffects \cup {"cleanup"}
  BY <1>1 DEF Effects, WorkEffects
<1>9. ASSUME effect \in {"prepare-environment", "pull-image", "verify"}
      PROVE  Ok(Completed(o, m, effect))
  BY <1>3, <1>4, <1>5, <1>9, Zenon DEF Completed, OrCancel, WorkEffects
<1>10. ASSUME effect \in {"unload-resident", "activate", "remove", "cleanup", "host-step"}
       PROVE  Ok(Completed(o, m, effect))
  BY <1>4, <1>5, <1>6, <1>7, <1>10, Zenon DEF Completed, WorkEffects
<1>11. Ok(Completed(o, m, effect))
  BY <1>8, <1>9, <1>10 DEF WorkEffects
<1> QED
  BY <1>11 DEF Ok

(* A cancellation, in any phase.                                           *)
LEMMA CancelGood ==
  ASSUME NEW m, NEW C, Good(m, C)
  PROVE  Good(Cancel(m), C) /\ Step(m, Cancel(m))
<1> DEFINE Ok(n) == Good(n, C) /\ Step(m, n)
           k == [m EXCEPT !.cancel = TRUE]
<1>1. /\ m \in Record /\ m.cancel \in BOOLEAN /\ m.rev \in Nat /\ m.indivisible \in BOOLEAN
      /\ m.steps \in BOOLEAN /\ (m.pend # None => m.pend.rev \in Nat)
      /\ (m.approved # None => m.approved \in C) /\ (m.consented # None => m.consented \in C)
  BY DEF Good, Record, Intent
<1>2. /\ Patch(m, k) /\ k.approved = m.approved /\ k.consented = m.consented
      /\ k.phase = m.phase /\ k.plan = m.plan
  BY <1>1, Zenon DEF Patch, Record
<1> HIDE DEF k
<1>3. m.phase \in {"ready", "removed", "cancelled", "cancelling"} => Ok(m)
  BY DEF Good, Step, Terminal
<1>4. m.cancel => Ok(m)
  BY <1>1 DEF Good, Step
<1>5. Ok(StartCancelling(m))
  BY <1>1, StartCancellingGood DEF Step
<1>6. Ok(Advance(k, "cancelled", None))
  BY <1>1, <1>2, RestAllowed DEF Step
<1>7. ASSUME m.indivisible \/ m.phase = "activating"
      PROVE  Ok(Keep(k, m.indivisible))
  <2> DEFINE n == Keep(k, m.indivisible)
  <2>1. /\ n \in Record /\ n.rev = m.rev + 1 /\ n.owned = m.owned /\ n.phase = m.phase
        /\ n.pend = m.pend /\ n.plan = m.plan
        /\ n.approved = m.approved /\ n.consented = m.consented
    <3> DEFINE j == [k EXCEPT !.rev = m.rev + 1]
    <3>1. /\ j \in Record /\ j.rev = m.rev + 1 /\ j.owned = m.owned /\ j.phase = m.phase
          /\ j.pend = m.pend /\ j.plan = m.plan
          /\ j.approved = m.approved /\ j.consented = m.consented
      BY <1>1, <1>2 DEF Record, Patch
    <3>2. n = [j EXCEPT !.indivisible = m.indivisible]
      BY <1>1, <1>2 DEF Record, Keep, Patch
    <3> HIDE DEF j
    <3> QED
      BY <1>1, <3>1, <3>2 DEF Record
  <2> HIDE DEF n
  <2>2. Good(n, C)
    BY <1>1, <1>7, <2>1 DEF Good
  <2>3. Keeps(m, n)
    BY <1>1, <2>1 DEF Keeps
  <2> QED
    BY <2>2, <2>3 DEF n, Step
<1> HIDE DEF Ok
<1>8. ASSUME m.phase \in {"ready", "removed", "cancelled", "cancelling"}
      PROVE  Ok(Cancel(m))
  BY <1>3, <1>8 DEF Cancel, Terminal
<1>9. ASSUME m.phase = "failed"
      PROVE  Ok(Cancel(m))
  BY <1>1, <1>5, <1>6, <1>9 DEF Cancel, k, Terminal
<1>10. ASSUME m.phase \notin Terminal \cup {"cancelling"}
       PROVE  Ok(Cancel(m))
  BY <1>1, <1>4, <1>5, <1>7, <1>10 DEF Cancel, k, Terminal
<1>11. Ok(Cancel(m))
  BY <1>8, <1>9, <1>10 DEF Terminal
<1> QED
  BY <1>11 DEF Ok

(* A resume, with or without a new approval.                               *)
LEMMA ResumeGood ==
  ASSUME NEW m, NEW C, Good(m, C), NEW d \in Digests \cup {None}, Resumes(m, d),
         NEW D, C \cup ({Resume(m, d).approved} \ {None}) \subseteq D
  PROVE  Good(Resume(m, d), D) /\ Step(m, Resume(m, d))
<1>1. m \in Record
  BY Zenon DEF Good
<1>2. CASE m.phase \in {"ready", "removed"}
  <2>1. Resume(m, d) = m /\ C \subseteq D
    BY <1>2, SMTT(30) DEF Resume
  <2> QED
    BY <1>2, <2>1 DEF Good, Step, Terminal
<1>3. CASE m.phase \notin {"ready", "removed"}
  <2> DEFINE a == IF d = None THEN m.approved ELSE d
             k == [m EXCEPT !.cancel = FALSE, !.approved = a]
             e == "reconcile"
  <2>1. Resume(m, d) = Advance(k, "checking", e)
    BY <1>1, <1>3 DEF Resume, Record
  <2>2. a \in Digests \cup {None}
    BY <1>1 DEF Record
  <2> HIDE DEF a
  <2>3. Patch(m, k) /\ k.approved = a /\ k.consented = m.consented /\ ~k.cancel
    BY <1>1, <2>2, Zenon DEF Patch, Record
  <2> HIDE DEF k
  <2>4. Advance(k, "checking", e).approved = k.approved
    <3> DEFINE ph == "checking"
    <3>1. k \in Record /\ ph \in Phases /\ e \in Effects \cup {None}
      BY <2>3 DEF Phases, Effects, Patch
    <3> HIDE DEF ph, e
    <3>2. Advance(k, ph, e).approved = k.approved
      BY <3>1, AdvanceFields, Zenon
    <3> QED
      BY <3>2 DEF ph, e
  <2>5. (k.approved # None => k.approved \in D) /\ (k.consented # None => k.consented \in D)
    BY <2>1, <2>3, <2>4 DEF Good
  <2>6. Good(Advance(k, "checking", e), D) /\ Moves(m, Advance(k, "checking", e))
    BY <1>1, <2>3, <2>5, LookAllowed
  <2> QED
    BY <2>1, <2>6 DEF Step
<1> QED
  BY <1>2, <1>3

(* An approval.                                                            *)
LEMMA ApproveGood ==
  ASSUME NEW m, NEW C, Good(m, C), NEW d \in Digests, Approves(m, d),
         NEW D, C \cup ({Approve(m, d).approved} \ {None}) \subseteq D
  PROVE  Good(Approve(m, d), D) /\ Step(m, Approve(m, d))
<1> DEFINE k == [m EXCEPT !.approved = d]
           e == "probe"
           ph == "checking"
<1>1. m \in Record /\ Approve(m, d) = Advance(k, ph, e) /\ d # None
  BY NoneAssumption DEF Good, Approve
<1>2. Patch(m, k) /\ k.approved = d /\ k.consented = m.consented /\ ~k.cancel
  BY <1>1 DEF Patch, Record, Approves, Good
<1>3. k \in Record /\ ph \in Phases /\ e \in Effects \cup {None} /\ e \in {"probe", "reconcile"}
  BY <1>2 DEF Phases, Effects, Patch
<1> HIDE DEF k, e
<1>4. Advance(k, ph, e).approved = k.approved
  <2> HIDE DEF ph
  <2> QED
    BY <1>3, AdvanceFields, Zenon
<1>5. (k.approved # None => k.approved \in D) /\ (k.consented # None => k.consented \in D)
  BY <1>1, <1>2, <1>4 DEF Good
<1>6. Good(Advance(k, ph, e), D) /\ Moves(m, Advance(k, ph, e))
  BY <1>1, <1>2, <1>3, <1>5, LookAllowed
<1> QED
  BY <1>1, <1>6 DEF Step

(* A new operation.                                                        *)
LEMMA StartGood ==
  ASSUME NEW c \in Cores, NEW a \in Digests \cup {None}, NEW C, a # None => a \in C
  PROVE  Good(StartOperation(c, a), C)
<1> DEFINE p == [kind |-> "probe", rev |-> 0]
           n == StartOperation(c, a)
<1>1. p \in Intent /\ p # None /\ p.kind = "probe" /\ p.rev = 0 /\ "checking" \in Phases
      /\ FALSE \in BOOLEAN
  BY NoneAssumption DEF Intent, Effects, Phases
<1>2. /\ n.phase = "checking" /\ n.rev = 0 /\ n.pend = p /\ n.approved = a
      /\ n.consented = None /\ n.cancel = FALSE
  BY DEF StartOperation
<1> HIDE DEF p
<1>3. n \in Record
  BY <1>1 DEF StartOperation, Record, p
<1> HIDE DEF n
<1>4. Good(n, C)
  BY <1>1, <1>2, <1>3 DEF Good, WorkPhases, Terminal, WorkEffects
<1> QED
  BY <1>4 DEF n

(* The swap stamps the owner and adds what was read as owned.              *)
LEMMA SwappedGood ==
  ASSUME NEW m, NEW C, Good(m, C), NEW c \in Cores, NEW b \in BOOLEAN
  PROVE  LET n == Swapped(c, m, b) IN
         /\ Good(n, C) /\ n.rev = m.rev /\ n.pend = m.pend /\ n.owned = (m.owned \/ b)
         /\ n.cancel = m.cancel /\ n.phase = m.phase /\ n \in Record
<1> DEFINE k == [m EXCEPT !.owner = c]
           w == m.owned \/ b
           n == [k EXCEPT !.owned = w]
<1>1. m \in Record /\ w \in BOOLEAN
  BY DEF Good, Record
<1>2. Swapped(c, m, b) = n
  BY <1>1 DEF Swapped, Record
<1>3. /\ k \in Record /\ k.rev = m.rev /\ k.pend = m.pend /\ k.cancel = m.cancel
      /\ k.phase = m.phase /\ k.indivisible = m.indivisible /\ k.plan = m.plan
      /\ k.approved = m.approved /\ k.consented = m.consented
  BY <1>1 DEF Record
<1> HIDE DEF k, w
<1>4. /\ n \in Record /\ n.rev = m.rev /\ n.pend = m.pend /\ n.cancel = m.cancel
      /\ n.phase = m.phase /\ n.plan = m.plan /\ n.owned = w /\ n.indivisible = m.indivisible
      /\ n.approved = m.approved /\ n.consented = m.consented
  BY <1>1, <1>3, SMTT(30) DEF Record
<1> HIDE DEF n
<1>5. Good(n, C)
  BY <1>4, SMTT(30) DEF Good
<1> QED
  BY <1>2, <1>4, <1>5 DEF w

-----------------------------------------------------------------------------

(* The inductive invariant.  A record is a good machine that no reset has  *)
(* archived.  A run belongs to an operation that exists or existed, never  *)
(* is ahead of its record, and is the record's effect if it has its        *)
(* revision.  A prepare that is about to pull is on record.                *)
RecordOk(o) ==
  disk[o] # None =>
    o \notin archived /\ Good(disk[o], consents[o]) /\ (image = "user" => ~disk[o].owned)

RunOk(r) ==
  /\ ~Fresh(r.op)
  /\ r.kind \in WorkEffects => r.cons \in consents[r.op]
  /\ r.kind = "host-step" => r.cons \in Steps
  /\ image = "user" => ~r.owned
  /\ disk[r.op] # None =>
       /\ r.rev <= disk[r.op].rev
       /\ disk[r.op].pend # None /\ disk[r.op].pend.rev = r.rev => r.kind = disk[r.op].pend.kind
  /\ r.kind = "prepare-environment" /\ r.stage = "absent" /\ r.op \notin archived =>
       disk[r.op] # None /\ disk[r.op].owned

CallOk(k) ==
  /\ k.event \in {"abandon", "begin", "follow"} => k.then \in Ops
  /\ image = "user" => ~k.owned

ImageOk ==
  /\ image \in Ops \ archived => disk[image] # None /\ disk[image].owned
  /\ image = "user" => ~claimed

IInv ==
  /\ TypeOK /\ IsFiniteSet(runs)
  /\ \A o \in Ops : RecordOk(o)
  /\ \A r \in runs : RunOk(r)
  /\ \A k \in calls : CallOk(k)
  /\ OneDriver
  /\ ImageOk

(* An effect a step puts on a record is issued at the record's revision.   *)
Issues ==
  \A o \in Busy :
    /\ disk'[o] # None
    /\ disk'[o].pend = disk[o].pend \/ (disk'[o].pend # None => disk'[o].pend.rev = disk'[o].rev)

(* At most one run is dispatched, and it is the pending effect.            *)
LEMMA DispatchedRun ==
  ASSUME TypeOK, IsFiniteSet(runs), NEW c \in Cores, NEW o \in Ops, NEW n \in Record
  PROVE  \E q \in Run :
           /\ Dispatched(c, o, n) \subseteq {q}
           /\ n.pend # None => /\ q.op = o /\ q.kind = n.pend.kind /\ q.rev = n.pend.rev
                              /\ q.cons = n.consented /\ q.owned = n.owned /\ q.stage = "begun"
           /\ n.pend = None => Dispatched(c, o, n) = {}
<1>1. CASE n.pend = None
  <2> DEFINE q == [core |-> c, op |-> o, kind |-> "probe", rev |-> 0, n |-> 0, cons |-> None,
                   owned |-> FALSE, stage |-> "begun"]
  <2>1. q \in Run
    BY DEF Run, Effects
  <2> QED
    BY <1>1, <2>1 DEF Dispatched
<1>2. CASE n.pend # None
  <2> DEFINE s == {r \in runs : r.core = c /\ r.op = o /\ r.rev = n.pend.rev}
             a == Cardinality(s)
             q == [core |-> c, op |-> o, kind |-> n.pend.kind, rev |-> n.pend.rev, cons |-> n.consented,
                   n |-> a, owned |-> n.owned, stage |-> "begun"]
  <2>1. a \in Nat
    BY FS_Subset, FS_CardinalityType, SMTT(30)
  <2>2. Dispatched(c, o, n) \subseteq {q}
    BY DEF Dispatched
  <2>3. /\ n.pend.kind \in Effects /\ n.pend.rev \in Nat /\ n.consented \in Digests \cup {None}
        /\ n.owned \in BOOLEAN
    BY <1>2 DEF Record, Intent
  <2> HIDE DEF a
  <2>4. q \in Run
    BY <2>1, <2>3 DEF Run
  <2> QED
    BY <1>2, <2>2, <2>4
<1> QED
  BY <1>1, <1>2, SMTT(30)

(* The call that begins a follow-up setup.                                 *)
LEMMA FollowedCall ==
  ASSUME NEW c \in Cores, NEW o \in Ops, NEW n \in Record, image = "user" => ~n.owned
  PROVE  Followed(c, o, n) \subseteq Call /\ \A k \in Followed(c, o, n) : CallOk(k)
<1>1. n.rev \in Nat /\ n.owned \in BOOLEAN /\ n.owner \in Cores
  BY DEF Record
<1>2. CASE n.phase = "removed" /\ FollowUp[o] # None
  <2> DEFINE k == CallOn(n, c, o, "follow", FollowUp[o], None)
  <2>1. FollowUp[o] \in Ops
    BY <1>2, OpsAssumption
  <2>2. k \in Call /\ k.then = FollowUp[o] /\ k.owned = n.owned
    BY <1>1, <2>1 DEF CallOn, Call, Events
  <2>3. CallOk(k)
    BY <2>1, <2>2 DEF CallOk
  <2> QED
    BY <1>2, <2>2, <2>3 DEF Followed
<1> QED
  BY <1>2 DEF Followed

(* A commit: the record moves by a step of the reducer, and at most its    *)
(* pending effect is dispatched.                                           *)
LEMMA CommitStep ==
  ASSUME IInv, NEW o \in Ops, NEW c \in Cores, NEW n, NEW b \in BOOLEAN,
         disk[o] # None, Step(disk[o], n), Good(n, consents'[o]), image = "user" => ~b,
         disk' = [disk EXCEPT ![o] = Swapped(c, n, b)],
         runs' \subseteq runs \cup Dispatched(c, o, n),
         consents' \in [Ops -> SUBSET Digests], \A x \in Ops : consents[x] \subseteq consents'[x],
         calls' \subseteq Call, \A k \in calls' : CallOk(k), asked' \in 0..MaxCalls,
         UNCHANGED <<core, archived, image, claimed>>
  PROVE  IInv' /\ Issues
<1> DEFINE m == disk[o]
           w == Swapped(c, n, b)
<1>1. /\ TypeOK /\ IsFiniteSet(runs) /\ OneDriver /\ ImageOk
      /\ \A x \in Ops : RecordOk(x)
      /\ \A r \in runs : RunOk(r)
  BY Zenon DEF IInv
<1>2. /\ Good(w, consents'[o]) /\ w.rev = n.rev /\ w.pend = n.pend /\ w.owned = (n.owned \/ b)
      /\ w \in Record
  BY SwappedGood, SMTT(30)
<1> HIDE DEF w
<1>3. /\ disk \in [Ops -> Record \cup {None}] /\ disk' = [disk EXCEPT ![o] = w]
  BY <1>1 DEF TypeOK, w
<1>4. /\ disk'[o] = w /\ w # None
      /\ \A x \in Ops \ {o} : disk'[x] = disk[x]
      /\ disk' \in [Ops -> Record \cup {None}]
  BY <1>2, <1>3, NoneAssumption
<1>5. /\ m \in Record /\ m.rev \in Nat /\ (m.pend # None => m.pend.rev <= m.rev) /\ m.owned \in BOOLEAN
      /\ (image = "user" => ~m.owned) /\ o \notin archived
      /\ m.pend # None => m.pend.rev \in Nat
  BY <1>1, <1>3, ZenonT(30) DEF RecordOk, Good, Record, Intent
<1>6. n \in Record /\ n.rev \in Nat /\ n.owned = m.owned /\ n.rev >= m.rev
  BY <1>5 DEF Step, Moves, Keeps, Good, Record
<1>7. PICK q \in Run :
        /\ Dispatched(c, o, n) \subseteq {q}
        /\ n.pend # None => /\ q.op = o /\ q.kind = n.pend.kind /\ q.rev = n.pend.rev
                           /\ q.cons = n.consented /\ q.owned = n.owned /\ q.stage = "begun"
        /\ n.pend = None => Dispatched(c, o, n) = {}
  BY <1>1, <1>6, DispatchedRun, ZenonT(30)
<1>8. /\ runs' \subseteq runs \cup {q}
      /\ q \in runs' => q \in runs \/ n.pend # None
  BY <1>7, Zenon
<1>9. TypeOK' /\ IsFiniteSet(runs')
  <2>1. IsFiniteSet(runs')
    BY <1>1, <1>8, FS_AddElement, FS_Subset, Zenon
  <2>2. TypeOK'
    BY <1>1, <1>4, <1>8, Zenon DEF TypeOK
  <2> QED
    BY <2>1, <2>2, Zenon
<1>10. \A x \in Ops : RecordOk(x)'
  <2> SUFFICES ASSUME NEW x \in Ops PROVE RecordOk(x)'
    BY Zenon
  <2>1. CASE x = o
    BY <1>2, <1>4, <1>5, <1>6, <2>1, Zenon DEF RecordOk
  <2>2. CASE x # o
    <3>1. disk[x] # None => Good(disk[x], consents'[x])
      BY <1>1, Zenon DEF RecordOk, Good
    <3> QED
      BY <1>1, <1>4, <2>2, <3>1, Zenon DEF RecordOk
  <2> QED
    BY <2>1, <2>2, ZenonT(30)
<1>11. \A r \in runs' : RunOk(r)'
  <2> SUFFICES ASSUME NEW r \in runs' PROVE RunOk(r)'
    OBVIOUS
  <2>1. CASE r \in runs
    <3>1. /\ RunOk(r) /\ r.op \in Ops /\ r.rev \in Nat
      BY <1>1, <2>1, SMTT(30) DEF TypeOK, Run
    <3>2. ~Fresh(r.op)'
      BY <1>4, <3>1 DEF RunOk, Fresh
    <3>3. CASE r.op = o
      <4>1. r.rev <= m.rev /\ (m.pend # None /\ m.pend.rev = r.rev => r.kind = m.pend.kind)
        BY <3>1, <3>3 DEF RunOk
      <4>2. r.rev <= w.rev /\ (w.pend # None /\ w.pend.rev = r.rev => r.kind = w.pend.kind)
        BY <1>2, <1>5, <1>6, <3>1, <4>1 DEF Step, Moves, Keeps
      <4>3. m.owned => w.owned
        BY <1>2, <1>6, Zenon
      <4> QED
        BY <1>4, <3>1, <3>2, <3>3, <4>2, <4>3, ZenonT(30) DEF RunOk
    <3>4. CASE r.op # o
      BY <1>4, <3>1, <3>2, <3>4, Zenon DEF RunOk
    <3> QED
      BY <3>3, <3>4, SMTT(30)
  <2>2. CASE r \notin runs
    <3>1. /\ r.op = o /\ r.kind = n.pend.kind /\ r.rev = n.pend.rev /\ r.cons = n.consented
          /\ r.owned = n.owned /\ r.stage = "begun" /\ n.pend # None
      BY <1>7, <1>8, <2>2, Zenon
    <3>2. /\ n.pend.rev <= n.rev
          /\ n.pend.kind \in WorkEffects => n.consented \in consents'[o]
          /\ n.pend.kind = "host-step" => n.consented \in Steps
      BY <3>1, Zenon DEF Good
    <3> QED
      BY <1>2, <1>4, <1>5, <1>6, <3>1, <3>2, Zenon DEF RunOk, Fresh
  <2> QED
    BY <2>1, <2>2, Zenon
<1>12. OneDriver'
  <2> SUFFICES ASSUME NEW r \in runs', NEW p \in runs', r.op = p.op, Accepts(r)', Accepts(p)'
               PROVE  r = p \/ r.kind = "cleanup"
    BY DEF OneDriver
  <2>1. r.op \in Ops /\ RunOk(r)' /\ RunOk(p)'
    BY <1>9, <1>11, Zenon DEF TypeOK, Run
  <2>2. CASE r.op # o
    <3>1. r \in runs /\ p \in runs
      BY <1>7, <1>8, <2>2, Zenon
    <3> QED
      BY <1>1, <1>4, <2>1, <2>2, <3>1, Zenon DEF OneDriver, Accepts
  <2>3. CASE r.op = o
    <3>1. /\ n.pend # None /\ n.pend.rev = n.rev /\ r.rev = n.rev /\ p.rev = n.rev
          /\ r.kind = n.pend.kind /\ p.kind = n.pend.kind
      BY <1>2, <1>4, <2>1, <2>3, Zenon DEF Accepts, RunOk
    <3>2. CASE Moves(m, n) \/ Keeps(m, n)
      <4>1. n.rev > m.rev
        BY <3>2 DEF Moves, Keeps
      <4>2. ASSUME NEW x \in runs, x.op = o PROVE x.rev <= m.rev
        BY <1>1, <4>2 DEF RunOk
      <4>3. ASSUME NEW x \in runs', x.op = o, x.rev = n.rev PROVE x = q
        <5>1. x \in runs => x.rev <= m.rev
          BY <4>2, <4>3
        <5>2. x \notin runs
          BY <1>5, <1>6, <4>1, <4>3, <5>1, SMTT(30)
        <5> QED
          BY <1>8, <5>2, ZenonT(30)
      <4> QED
        BY <2>3, <3>1, <4>3, Zenon
    <3>3. CASE n = m /\ (m.pend # None => m.pend.kind = "cleanup" \/ m.pend.rev < m.rev)
      BY <1>5, <3>1, <3>3
    <3> QED
      BY <3>2, <3>3 DEF Step
  <2> QED
    BY <2>2, <2>3, ZenonT(30)
<1>13. ImageOk'
  <2>1. image \in Ops \ archived => disk'[image] # None /\ disk'[image].owned
    BY <1>1, <1>2, <1>4, <1>6, Zenon DEF ImageOk
  <2> QED
    BY <1>1, <2>1, Zenon DEF ImageOk
<1>14. (\A k \in calls : CallOk(k))'
  BY Zenon DEF CallOk
<1>15. Issues
  BY <1>2, <1>4, Zenon DEF Issues, Step, Moves, Keeps, Busy, Running
<1> QED
  BY <1>9, <1>10, <1>11, <1>12, <1>13, <1>14, <1>15, Zenon DEF IInv

(* Nothing is written: runs and calls end, calls are read.                 *)
LEMMA NoWrite ==
  ASSUME IInv, runs' \subseteq runs, calls' \subseteq Call, \A k \in calls' : CallOk(k),
         asked' \in 0..MaxCalls,
         core' \in [Cores -> {"off", "starting", "up", "stopping", "gone"}],
         UNCHANGED <<disk, archived, consents, image, claimed>>
  PROVE  IInv' /\ Issues
<1>1. TypeOK' /\ IsFiniteSet(runs')
  BY FS_Subset DEF IInv, TypeOK
<1>2. \A o \in Ops : RecordOk(o)'
  BY SMTT(30) DEF IInv, RecordOk
<1>3. \A r \in runs' : RunOk(r)'
  BY SMTT(30) DEF IInv, RunOk, Fresh
<1>4. OneDriver'
  BY DEF IInv, OneDriver, Accepts
<1>5. ImageOk' /\ (\A k \in calls : CallOk(k))'
  BY DEF IInv, ImageOk, CallOk
<1>6. Issues
  BY DEF Issues, Busy, Running
<1> QED
  BY <1>1, <1>2, <1>3, <1>4, <1>5, <1>6 DEF IInv

(* A fresh operation is created; nothing ran for it before.                *)
LEMMA CreateStep ==
  ASSUME IInv, NEW c \in Cores, NEW o \in Ops, Fresh(o), NEW a \in Digests \cup {None}, Create(c, o, a),
         calls' \subseteq Call, \A k \in calls' : CallOk(k), asked' \in 0..MaxCalls,
         UNCHANGED <<core, archived, image, claimed>>
  PROVE  IInv' /\ Issues
<1> DEFINE n == StartOperation(c, a)
<1>1. /\ TypeOK /\ IsFiniteSet(runs) /\ OneDriver /\ ImageOk
      /\ \A x \in Ops : RecordOk(x)
      /\ \A r \in runs : RunOk(r)
  BY SMTT(30) DEF IInv
<1>2. /\ consents' \in [Ops -> SUBSET Digests] /\ (a # None => a \in consents'[o])
      /\ \A x \in Ops : consents[x] \subseteq consents'[x]
  BY <1>1 DEF TypeOK, Create
<1>3. Good(n, consents'[o])
  BY <1>2, StartGood
<1>4. n.owned = FALSE /\ n \in Record /\ n # None
  BY <1>3, NoneAssumption, Zenon DEF StartOperation, Good
<1>5. /\ disk' = [disk EXCEPT ![o] = n] /\ runs' = runs \cup Dispatched(c, o, n)
      /\ disk \in [Ops -> Record \cup {None}]
  BY <1>1 DEF Create, TypeOK
<1> HIDE DEF n
<1>6. /\ disk'[o] = n /\ disk' \in [Ops -> Record \cup {None}]
      /\ \A x \in Ops \ {o} : disk'[x] = disk[x]
  BY <1>4, <1>5, SMTT(30)
<1>7. PICK q \in Run :
        /\ Dispatched(c, o, n) \subseteq {q}
        /\ n.pend # None => /\ q.op = o /\ q.kind = n.pend.kind /\ q.rev = n.pend.rev
                           /\ q.cons = n.consented /\ q.owned = n.owned /\ q.stage = "begun"
        /\ n.pend = None => Dispatched(c, o, n) = {}
  BY <1>1, <1>4, DispatchedRun
<1>8. /\ runs' \subseteq runs \cup {q} /\ runs \subseteq runs'
      /\ q \in runs' => q \in runs \/ n.pend # None
  BY <1>5, <1>7, SMTT(30)
<1>9. \A r \in runs : r.op \in Ops /\ r.op # o
  BY <1>1, SMTT(30) DEF TypeOK, Run, RunOk
<1>10. TypeOK' /\ IsFiniteSet(runs')
  <2>1. IsFiniteSet(runs')
    BY <1>1, <1>8, FS_AddElement, FS_Subset
  <2>2. TypeOK'
    BY <1>1, <1>2, <1>6, <1>8 DEF TypeOK
  <2> QED
    BY <2>1, <2>2
<1>11. \A x \in Ops : RecordOk(x)'
  <2> SUFFICES ASSUME NEW x \in Ops PROVE RecordOk(x)'
    OBVIOUS
  <2>1. CASE x = o
    BY <1>3, <1>4, <1>6, <2>1 DEF RecordOk, Fresh
  <2>2. CASE x # o
    <3>1. disk[x] # None => Good(disk[x], consents'[x])
      BY <1>1, <1>2, Zenon DEF RecordOk, Good
    <3> QED
      BY <1>1, <1>6, <2>2, <3>1, Zenon DEF RecordOk
  <2> QED
    BY <2>1, <2>2
<1>12. \A r \in runs' : RunOk(r)'
  <2> SUFFICES ASSUME NEW r \in runs' PROVE RunOk(r)'
    OBVIOUS
  <2>1. CASE r \in runs
    BY <1>1, <1>2, <1>6, <1>9, <2>1, Zenon DEF RunOk, Fresh
  <2>2. CASE r \notin runs
    <3>1. /\ r.op = o /\ r.kind = n.pend.kind /\ r.rev = n.pend.rev /\ r.cons = n.consented
          /\ r.owned = n.owned /\ r.stage = "begun" /\ n.pend # None
      BY <1>7, <1>8, <2>2, Zenon
    <3>2. /\ n.pend.rev <= n.rev
          /\ n.pend.kind \in WorkEffects => n.consented \in consents'[o]
          /\ n.pend.kind = "host-step" => n.consented \in Steps
      BY <1>3, <3>1, Zenon DEF Good
    <3> QED
      BY <1>4, <1>6, <3>1, <3>2, Zenon DEF RunOk, Fresh
  <2> QED
    BY <2>1, <2>2
<1>13. OneDriver'
  <2> SUFFICES ASSUME NEW r \in runs', NEW p \in runs', r.op = p.op, Accepts(r)', Accepts(p)'
               PROVE  r = p \/ r.kind = "cleanup"
    BY DEF OneDriver
  <2>1. CASE r \in runs
    <3>1. p \in runs
      BY <1>7, <1>8, <1>9, <2>1, Zenon
    <3> QED
      BY <1>1, <1>6, <1>9, <2>1, <3>1, Zenon DEF OneDriver, Accepts
  <2>2. CASE r \notin runs
    <3>1. r = q /\ q.op = o
      BY <1>7, <1>8, <2>2
    <3> QED
      BY <1>8, <1>9, <3>1, SMTT(30)
  <2> QED
    BY <2>1, <2>2
<1>14. ImageOk'
  <2>1. image \in Ops \ archived => image # o
    BY <1>1 DEF ImageOk, Fresh
  <2> QED
    BY <1>1, <1>6, <2>1 DEF ImageOk
<1>15. (\A k \in calls : CallOk(k))'
  BY DEF CallOk
<1>16. Issues
  BY <1>6 DEF Issues, Busy, Running, Fresh
<1> QED
  BY <1>10, <1>11, <1>12, <1>13, <1>14, <1>15, <1>16 DEF IInv

====
