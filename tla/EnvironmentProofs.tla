-------------------------- MODULE EnvironmentProofs ---------------------------
(***************************************************************************)
(* For every number of cores, operations, plans and calls: no work runs    *)
(* without consent, no two effects answer for one operation, a             *)
(* cancellation issues nothing but the cleanup, and the GPU-check image is *)
(* on record exactly when it is ours.                                      *)
(***************************************************************************)
EXTENDS EnvironmentStepProofs

(* Recording what is owned leaves everything else of a machine alone.      *)
WithOwned(m, c) == [m EXCEPT !.owned = TRUE, !.owner = c]

(* Recording what is owned keeps a machine good.                           *)
LEMMA OwnedGood ==
  ASSUME NEW m, NEW C, Good(m, C), NEW c \in Cores
  PROVE  LET n == WithOwned(m, c) IN
         /\ Good(n, C) /\ n \in Record /\ n.rev = m.rev /\ n.pend = m.pend /\ n.owned
<1> DEFINE k == [m EXCEPT !.owned = TRUE]
           n == [k EXCEPT !.owner = c]
<1>1. m \in Record
  BY DEF Good
<1>2. WithOwned(m, c) = n
  BY <1>1 DEF Record, WithOwned
<1>3. /\ k \in Record /\ k.rev = m.rev /\ k.pend = m.pend /\ k.cancel = m.cancel
      /\ k.phase = m.phase /\ k.plan = m.plan /\ k.owned = TRUE /\ k.indivisible = m.indivisible
      /\ k.approved = m.approved /\ k.consented = m.consented
  BY <1>1, Zenon DEF Record
<1> HIDE DEF k
<1>4. /\ n \in Record /\ n.rev = m.rev /\ n.pend = m.pend /\ n.cancel = m.cancel
      /\ n.phase = m.phase /\ n.plan = m.plan /\ n.owned = TRUE /\ n.indivisible = m.indivisible
      /\ n.approved = m.approved /\ n.consented = m.consented
  BY <1>1, <1>3 DEF Record
<1> HIDE DEF n
<1>5. Good(n, C)
  BY <1>4 DEF Good
<1> QED
  BY <1>2, <1>4, <1>5

(* A run goes one stage further: at most it records what it owns, and      *)
(* touches the image or the installation.                                  *)
LEMMA StageStep ==
  ASSUME IInv, NEW r \in runs, NEW st \in {"begun", "absent", "present", "half", "done"},
         runs' = (runs \ {r}) \cup {[r EXCEPT !.stage = st]},
         UNCHANGED <<core, calls, asked, archived, consents>>,
         \/ disk' = disk
         \/ /\ image = None /\ disk[r.op] # None
            /\ disk' = [disk EXCEPT ![r.op] = WithOwned(disk[r.op], r.core)],
         r.kind = "prepare-environment" /\ st = "absent" /\ r.op \notin archived =>
           disk'[r.op] # None /\ disk'[r.op].owned,
         image' \in Ops \cup {None, "user", "stray"}, image' = "user" => image = "user",
         image' \in Ops \ archived => disk'[image'] # None /\ disk'[image'].owned,
         claimed' \in BOOLEAN, image' = "user" => ~claimed'
  PROVE  IInv' /\ Issues
<1> DEFINE q == [r EXCEPT !.stage = st]
<1>1. /\ TypeOK /\ IsFiniteSet(runs) /\ OneDriver /\ ImageOk
      /\ \A x \in Ops : RecordOk(x)
      /\ \A x \in runs : RunOk(x)
      /\ \A k \in calls : CallOk(k)
  BY DEF IInv
<1>2. r \in Run /\ RunOk(r) /\ disk \in [Ops -> Record \cup {None}]
  BY <1>1 DEF TypeOK
<1>3. /\ q \in Run /\ q.core = r.core /\ q.op = r.op /\ q.kind = r.kind /\ q.rev = r.rev
      /\ q.cons = r.cons /\ q.owned = r.owned /\ q.stage = st /\ r.op \in Ops /\ r.core \in Cores
  BY <1>2 DEF Run
<1> HIDE DEF q
<1>4. runs' = (runs \ {r}) \cup {q}
  BY DEF q
<1>5. /\ disk' \in [Ops -> Record \cup {None}]
      /\ \A x \in Ops :
           /\ disk'[x] = None <=> disk[x] = None
           /\ disk[x] # None =>
                /\ disk'[x].rev = disk[x].rev /\ disk'[x].pend = disk[x].pend
                /\ disk[x].owned => disk'[x].owned
                /\ Good(disk'[x], consents[x])
                /\ disk'[x].owned = disk[x].owned \/ image = None
  <2>1. CASE disk' = disk
    BY <1>1, <1>2, <2>1 DEF RecordOk
  <2>2. CASE /\ image = None /\ disk[r.op] # None
             /\ disk' = [disk EXCEPT ![r.op] = WithOwned(disk[r.op], r.core)]
    <3> DEFINE n == WithOwned(disk[r.op], r.core)
    <3>1. Good(disk[r.op], consents[r.op])
      BY <1>1, <1>3, <2>2 DEF RecordOk
    <3>2. /\ Good(n, consents[r.op]) /\ n \in Record
          /\ n.rev = disk[r.op].rev /\ n.pend = disk[r.op].pend /\ n.owned
      BY <1>3, <3>1, OwnedGood
    <3> HIDE DEF n
    <3>3. disk' = [disk EXCEPT ![r.op] = n] /\ n # None
      BY <2>2, <3>2, NoneAssumption DEF n
    <3>4. disk'[r.op] = n /\ \A x \in Ops \ {r.op} : disk'[x] = disk[x]
      BY <1>2, <1>3, <3>3
    <3>5. disk' \in [Ops -> Record \cup {None}]
      BY <1>2, <3>2, <3>3, Zenon
    <3> QED
      BY <1>1, <1>3, <2>2, <3>2, <3>3, <3>4, <3>5 DEF RecordOk
  <2> QED
    BY <2>1, <2>2
<1>6. TypeOK' /\ IsFiniteSet(runs')
  <2>1. IsFiniteSet(runs')
    BY <1>1, <1>4, FS_AddElement, FS_Subset, Zenon
  <2>2. TypeOK'
    BY <1>1, <1>3, <1>4, <1>5 DEF TypeOK
  <2> QED
    BY <2>1, <2>2
<1>7. \A x \in Ops : RecordOk(x)'
  BY <1>1, <1>5, NoneAssumption DEF RecordOk
<1>8. \A x \in runs' : RunOk(x)'
  <2> SUFFICES ASSUME NEW x \in runs' PROVE RunOk(x)'
    OBVIOUS
  <2> DEFINE y == IF x = q THEN r ELSE x
  <2>1. /\ y \in runs /\ x.op = y.op /\ x.kind = y.kind /\ x.rev = y.rev /\ x.cons = y.cons
        /\ x.owned = y.owned /\ (x = y \/ (x = q /\ y = r))
    BY <1>3, <1>4
  <2> HIDE DEF y
  <2>2. y.op \in Ops /\ RunOk(y)
    BY <1>1, <2>1 DEF TypeOK, Run
  <2>3. ~Fresh(x.op)'
    BY <1>5, <2>1, <2>2 DEF RunOk, Fresh
  <2>4. x.kind = "prepare-environment" /\ x.stage = "absent" /\ x.op \notin archived =>
          disk'[x.op] # None /\ disk'[x.op].owned
    BY <1>3, <1>5, <2>1, <2>2 DEF RunOk
  <2> QED
    BY <1>5, <2>1, <2>2, <2>3, <2>4 DEF RunOk
<1>9. OneDriver'
  <2> SUFFICES ASSUME NEW x \in runs', NEW y \in runs', x.op = y.op, Accepts(x)', Accepts(y)'
               PROVE  x = y \/ x.kind = "cleanup"
    BY DEF OneDriver
  <2> DEFINE u == IF x = q THEN r ELSE x
             v == IF y = q THEN r ELSE y
  <2>1. /\ u \in runs /\ x.op = u.op /\ x.kind = u.kind /\ x.rev = u.rev
        /\ (x = u /\ u # r) \/ (x = q /\ u = r)
    BY <1>3, <1>4
  <2>2. /\ v \in runs /\ y.op = v.op /\ y.kind = v.kind /\ y.rev = v.rev
        /\ (y = v /\ v # r) \/ (y = q /\ v = r)
    BY <1>3, <1>4
  <2> HIDE DEF u, v
  <2>3. u.op \in Ops /\ v.op \in Ops
    BY <1>1, <2>1, <2>2 DEF TypeOK, Run
  <2>a. /\ disk'[u.op] # None /\ disk'[u.op].pend # None
        /\ disk'[u.op].pend.rev = u.rev /\ disk'[u.op].rev = u.rev
    BY <2>1 DEF Accepts
  <2>b. /\ disk'[v.op] # None /\ disk'[v.op].pend # None
        /\ disk'[v.op].pend.rev = v.rev /\ disk'[v.op].rev = v.rev
    BY <2>2 DEF Accepts
  <2>4. Accepts(u) /\ Accepts(v)
    BY <1>5, <2>3, <2>a, <2>b DEF Accepts
  <2>5. u = v \/ u.kind = "cleanup"
    BY <1>1, <2>1, <2>2, <2>4, Zenon DEF OneDriver
  <2> QED
    BY <2>1, <2>2, <2>5
<1>10. ImageOk' /\ (\A k \in calls : CallOk(k))'
  BY <1>1 DEF ImageOk, CallOk
<1>11. Issues
  BY <1>5 DEF Issues, Busy, Running
<1> QED
  BY <1>6, <1>7, <1>8, <1>9, <1>10, <1>11 DEF IInv

-----------------------------------------------------------------------------
(* What a run may rely on: it is the record's effect if it is accepted.    *)
LEMMA AcceptedRun ==
  ASSUME IInv, NEW r \in runs
  PROVE  /\ r \in Run /\ RunOk(r)
         /\ Accepts(r) => /\ disk[r.op] # None /\ Good(disk[r.op], consents[r.op])
                          /\ disk[r.op].pend # None /\ disk[r.op].pend.rev = disk[r.op].rev
                          /\ r.kind = disk[r.op].pend.kind
<1>1. r \in Run /\ RunOk(r) /\ r.op \in Ops
  BY DEF IInv, TypeOK, Run
<1> QED
  BY <1>1, Zenon DEF IInv, RunOk, RecordOk, Accepts

(* A step of the reducer owns what the record owned.                       *)
LEMMA StepOwned ==
  ASSUME IInv, NEW o \in Ops, disk[o] # None, NEW n, Step(disk[o], n), NEW C, Good(n, C)
  PROVE  /\ n \in Record /\ n.owned \in BOOLEAN /\ (image = "user" => ~n.owned)
         /\ \A c \in Cores : /\ Followed(c, o, n) \subseteq Call
                             /\ \A k \in Followed(c, o, n) : CallOk(k)
<1>1. n \in Record /\ n.owned \in BOOLEAN /\ (image = "user" => ~n.owned)
  BY Zenon DEF IInv, RecordOk, Step, Moves, Keeps, Good, Record
<1> QED
  BY <1>1, FollowedCall

(* A result, accepted or refused.                                          *)
LEMMA AnswerStep ==
  ASSUME IInv, NEW r \in runs, NEW n, Answer(r, n),
         Accepts(r) => Good(n, consents[r.op]) /\ Step(disk[r.op], n)
  PROVE  IInv' /\ Issues
<1>1. r \in Run /\ r.op \in Ops /\ r.core \in Cores
  BY AcceptedRun DEF Run
<1>2. /\ calls \subseteq Call /\ (\A k \in calls : CallOk(k)) /\ asked \in 0..MaxCalls
      /\ consents \in [Ops -> SUBSET Digests]
      /\ core \in [Cores -> {"off", "starting", "up", "stopping", "gone"}]
  BY DEF IInv, TypeOK
<1>3. CASE Accepts(r)
  <2>1. disk[r.op] # None /\ Good(n, consents[r.op]) /\ Step(disk[r.op], n)
    BY <1>3, SMTT(30) DEF Accepts
  <2>2. /\ n.owned \in BOOLEAN /\ (image = "user" => ~n.owned)
        /\ Followed(r.core, r.op, n) \subseteq Call
        /\ \A k \in Followed(r.core, r.op, n) : CallOk(k)
    BY <1>1, <2>1, StepOwned
  <2>3. /\ disk' = [disk EXCEPT ![r.op] = Swapped(r.core, n, n.owned)]
        /\ runs' \subseteq runs \cup Dispatched(r.core, r.op, n)
        /\ calls' = calls \cup Followed(r.core, r.op, n)
        /\ UNCHANGED <<core, asked, archived, consents, image, claimed>>
    BY <1>3, Zenon DEF Answer, Commit
  <2>4. calls' \subseteq Call /\ \A k \in calls' : CallOk(k)
    BY <1>2, <2>2, <2>3
  <2>5. /\ Good(n, consents'[r.op]) /\ consents' \in [Ops -> SUBSET Digests]
        /\ (\A x \in Ops : consents[x] \subseteq consents'[x]) /\ asked' \in 0..MaxCalls
    BY <1>2, <2>1, <2>3
  <2> QED
    BY <1>1, <2>1, <2>2, <2>3, <2>4, <2>5, CommitStep, Zenon
<1>4. CASE ~Accepts(r)
  <2>1. runs' \subseteq runs /\ UNCHANGED <<disk, calls, core, asked, archived, consents, image, claimed>>
    BY <1>4 DEF Answer
  <2> QED
    BY <1>2, <2>1, NoWrite, SMTT(30)
<1> QED
  BY <1>3, <1>4

(* A run.                                                                  *)
LEMMA WorkStep ==
  ASSUME IInv, NEW r \in runs, Work(r)
  PROVE  IInv' /\ Issues
<1> DEFINE m == disk[r.op]
<1>1. /\ r \in Run /\ RunOk(r) /\ r.op \in Ops /\ r.core \in Cores
      /\ Accepts(r) => /\ m # None /\ Good(m, consents[r.op]) /\ m \in Record
                       /\ m.pend # None /\ m.pend.rev = m.rev /\ r.kind = m.pend.kind
  BY AcceptedRun, Zenon DEF Run, Good
<1>2. ASSUME NEW d \in Digests, NEW present \in BOOLEAN, AnswerProbe(r, d, present)
      PROVE  IInv' /\ Issues
  <2> DEFINE n == RequirementsReady(r.op, m, d, present)
  <2>1. Accepts(r) => Good(n, consents[r.op]) /\ Step(m, n)
    BY <1>1, RequirementsGood, Zenon DEF Step
  <2>2. Answer(r, n)
    BY <1>2, SMTT(30) DEF AnswerProbe
  <2> QED
    BY <2>1, <2>2, AnswerStep
<1>3. ASSUME NEW steps \in BOOLEAN, NEW d \in Digests \cup {None}, NEW wait \in Waits,
             AnswerReconcile(r, steps, d, wait)
      PROVE  IInv' /\ Issues
  <2> DEFINE n == Reconciled(m, steps, d, wait)
  <2>1. Accepts(r) => (m.approved # None => m.approved \in consents[r.op])
                      /\ (m.consented # None => m.consented \in consents[r.op])
    BY <1>1 DEF Good
  <2>2. Accepts(r) => Good(n, consents[r.op]) /\ Step(m, n)
    BY <1>1, <2>1, ReconciledGood, Zenon DEF Step
  <2>3. Answer(r, n)
    BY <1>3, ZenonT(30) DEF AnswerReconcile
  <2> QED
    BY <2>2, <2>3, AnswerStep, SMTT(30)
<1>4. ASSUME AnswerDone(r)
      PROVE  IInv' /\ Issues
  <2> DEFINE n == Completed(r.op, m, r.kind)
  <2>1. Accepts(r) => Good(n, consents[r.op]) /\ Step(m, n)
    BY <1>1, <1>4, CompletedGood DEF AnswerDone
  <2>2. Answer(r, n)
    BY <1>4 DEF AnswerDone
  <2> QED
    BY <2>1, <2>2, AnswerStep, Zenon
<1>5. ASSUME AnswerFailed(r)
      PROVE  IInv' /\ Issues
  <2>1. Accepts(r) => Good(Failed(m), consents[r.op]) /\ Step(m, Failed(m))
    BY <1>1, FailedGood DEF Step
  <2>2. Answer(r, Failed(m))
    BY <1>5 DEF AnswerFailed
  <2> QED
    BY <2>1, <2>2, AnswerStep, SMTT(30)
<1>6. /\ image \in Ops \ archived => disk[image] # None /\ disk[image].owned
      /\ image = "user" => ~claimed
      /\ image \in Ops \cup {None, "user", "stray"} /\ claimed \in BOOLEAN
      /\ disk \in [Ops -> Record \cup {None}]
      /\ image = "user" => ~r.owned
  BY <1>1, Zenon DEF IInv, ImageOk, TypeOK, RunOk
<1>7. ASSUME RecordOwned(r)
      PROVE  IInv' /\ Issues
  <2> DEFINE st == IF image = None THEN "absent" ELSE "present"
  <2>1. /\ runs' = (runs \ {r}) \cup {[r EXCEPT !.stage = st]} /\ disk[r.op] # None
        /\ UNCHANGED <<core, calls, asked, archived, consents, image, claimed>>
        /\ st \in {"begun", "absent", "present", "half", "done"}
    BY <1>7 DEF RecordOwned
  <2>2. CASE image # None \/ disk[r.op].owned
    <3>1. disk' = disk
      BY <1>7, <2>2 DEF RecordOwned
    <3>2. st = "absent" => disk'[r.op] # None /\ disk'[r.op].owned
      BY <2>1, <2>2, <3>1
    <3> HIDE DEF st
    <3> QED
      BY <1>6, <2>1, <3>1, <3>2, StageStep
  <2>3. CASE image = None /\ ~disk[r.op].owned
    <3>1. disk' = [disk EXCEPT ![r.op] = WithOwned(disk[r.op], r.core)]
      BY <1>1, <1>6, <1>7, <2>3, Zenon DEF RecordOwned, WithOwned
    <3>2. Good(disk[r.op], consents[r.op])
      BY <1>1, <2>1, SMTT(30) DEF IInv, RecordOk
    <3>3. /\ WithOwned(disk[r.op], r.core).owned /\ WithOwned(disk[r.op], r.core) \in Record
      BY <1>1, <3>2, OwnedGood, SMTT(30)
    <3>4. disk'[r.op] # None /\ disk'[r.op].owned
      BY <1>1, <1>6, <3>1, <3>3, NoneAssumption
    <3>5. image' \notin Ops /\ image' # "user"
      BY <2>1, <2>3, NoneAssumption
    <3> HIDE DEF st
    <3> QED
      BY <1>6, <2>1, <2>3, <3>1, <3>4, <3>5, StageStep, Zenon
  <2> QED
    BY <1>6, <2>2, <2>3
<1>8. ASSUME PullProbeImage(r)
      PROVE  IInv' /\ Issues
  <2>1. /\ runs' = (runs \ {r}) \cup {[r EXCEPT !.stage = "done"]}
        /\ UNCHANGED <<disk, core, calls, asked, archived, consents, claimed>>
        /\ image' = image \/ (image' = r.op /\ r.kind = "prepare-environment" /\ r.stage = "absent")
                          \/ image' = "stray"
    BY <1>8 DEF PullProbeImage
  <2>2. /\ image' \in Ops \cup {None, "user", "stray"} /\ (image' = "user" => image = "user")
        /\ image' \in Ops \ archived => disk[image'] # None /\ disk[image'].owned
    BY <1>1, <1>6, <2>1, NoneAssumption DEF RunOk
  <2> QED
    BY <1>6, <2>1, <2>2, StageStep
<1>9. ASSUME Activate(r)
      PROVE  IInv' /\ Issues
  <2>1. /\ runs' = (runs \ {r}) \cup {[r EXCEPT !.stage = "done"]}
        /\ UNCHANGED <<disk, core, calls, asked, archived, consents, image>>
        /\ claimed' = (claimed \/ r.owned)
    BY <1>9 DEF Activate
  <2>2. claimed' \in BOOLEAN /\ (image' = "user" => ~claimed')
    BY <1>1, <1>6, <2>1 DEF Run
  <2> QED
    BY <1>6, <2>1, <2>2, StageStep
<1>10. ASSUME RemoveImage(r)
       PROVE  IInv' /\ Issues
  <2>1. /\ runs' = (runs \ {r}) \cup {[r EXCEPT !.stage = "half"]}
        /\ UNCHANGED <<disk, core, calls, asked, archived, consents, claimed>>
        /\ image' = image \/ image' = None
    BY <1>10 DEF RemoveImage
  <2>2. /\ image' \in Ops \cup {None, "user", "stray"} /\ (image' = "user" => image = "user")
        /\ image' \in Ops \ archived => disk[image'] # None /\ disk[image'].owned
    BY <1>1, <1>6, <2>1, NoneAssumption
  <2> QED
    BY <1>6, <2>1, <2>2, StageStep
<1>11. ASSUME RemoveInstallation(r)
       PROVE  IInv' /\ Issues
  <2>1. /\ runs' = (runs \ {r}) \cup {[r EXCEPT !.stage = "done"]}
        /\ UNCHANGED <<disk, core, calls, asked, archived, consents, image>>
        /\ claimed' = FALSE
    BY <1>11, SMTT(30) DEF RemoveInstallation
  <2> QED
    BY <1>6, <2>1, StageStep, Zenon
<1> QED
  BY <1>2, <1>3, <1>4, <1>5, <1>7, <1>8, <1>9, <1>10, <1>11 DEF Work

(* A call that reads a record is a call, with what the record owns.        *)
LEMMA ReadCall ==
  ASSUME IInv, NEW c \in Cores, NEW o \in Ops, disk[o] # None, NEW event \in Events,
         NEW then \in Ops \cup {None}, NEW arg \in Digests \cup {None},
         event \in {"abandon", "begin", "follow"} => then \in Ops
  PROVE  LET k == CallOn(disk[o], c, o, event, then, arg) IN
         k \in Call /\ CallOk(k) /\ k.event = event /\ k.owned = disk[o].owned
<1>1. /\ disk[o].rev \in Nat /\ disk[o].owned \in BOOLEAN /\ disk[o].owner \in Cores
      /\ image = "user" => ~disk[o].owned
  BY DEF IInv, RecordOk, Good, Record
<1> DEFINE k == CallOn(disk[o], c, o, event, then, arg)
<1>2. k \in Call /\ k.event = event /\ k.owned = disk[o].owned /\ k.then = then
  BY <1>1, Zenon DEF CallOn, Call
<1> HIDE DEF k
<1>3. CallOk(k)
  BY <1>1, <1>2, SMTT(30) DEF CallOk
<1> QED
  BY <1>2, <1>3, SMTT(30) DEF k

(* A client's cancel or receipt, and a recovery, as they are read.         *)
LEMMA ReadNewCall ==
  ASSUME IInv, NEW c \in Cores, NEW o \in Ops, disk[o] # None,
         NEW event \in {"cancel", "receipt", "recover"}
  PROVE  NewCall(c, o, event) \in Call /\ CallOk(NewCall(c, o, event))
<1>1. event \in Events
  BY DEF Events
<1> QED
  BY <1>1, ReadCall DEF NewCall

(* What every action but a few leaves in place.                            *)
LEMMA Typed ==
  ASSUME IInv
  PROVE  /\ calls \subseteq Call /\ (\A k \in calls : CallOk(k)) /\ asked \in 0..MaxCalls
         /\ consents \in [Ops -> SUBSET Digests] /\ disk \in [Ops -> Record \cup {None}]
         /\ core \in [Cores -> {"off", "starting", "up", "stopping", "gone"}]
         /\ \A k \in calls : k.op \in Ops /\ k.core \in Cores /\ k.owned \in BOOLEAN
                              /\ k.arg \in Digests \cup {None}
         /\ \A o \in Ops : disk[o] # None => Good(disk[o], consents[o])
BY DEF IInv, TypeOK, Call, RecordOk

(* A call whose swap landed.                                               *)
LEMMA AppliesStep ==
  ASSUME IInv, NEW k \in calls, NEW n, Applies(k, n), UNCHANGED consents,
         Good(n, consents[k.op]), Step(disk[k.op], n)
  PROVE  IInv' /\ Issues
<1>1. /\ k.op \in Ops /\ k.core \in Cores /\ k.owned \in BOOLEAN /\ disk[k.op] # None
      /\ image = "user" => ~k.owned
  BY Typed, Zenon DEF Applies, CallOk
<1>2. /\ Followed(k.core, k.op, n) \subseteq Call
      /\ \A j \in Followed(k.core, k.op, n) : CallOk(j)
  BY <1>1, StepOwned, Zenon
<1>3. /\ disk' = [disk EXCEPT ![k.op] = Swapped(k.core, n, k.owned)]
      /\ runs' \subseteq runs \cup Dispatched(k.core, k.op, n)
      /\ calls' \subseteq calls \cup Followed(k.core, k.op, n)
      /\ UNCHANGED <<core, asked, archived, consents, image, claimed>>
  BY Zenon DEF Applies, Commit
<1>4. /\ calls' \subseteq Call /\ (\A j \in calls' : CallOk(j)) /\ asked' \in 0..MaxCalls
      /\ Good(n, consents'[k.op]) /\ consents' \in [Ops -> SUBSET Digests]
      /\ (\A x \in Ops : consents[x] \subseteq consents'[x])
  BY <1>2, <1>3, Typed, Zenon
<1> QED
  BY <1>1, <1>3, <1>4, CommitStep, Zenon

(* A call.                                                                 *)
LEMMA HandleStep ==
  ASSUME IInv, NEW k \in calls, Handle(k)
  PROVE  IInv' /\ Issues
<1> DEFINE m == disk[k.op]
<1>1. /\ k \in Call /\ CallOk(k) /\ k.op \in Ops /\ k.core \in Cores /\ k.owned \in BOOLEAN
      /\ k.arg \in Digests \cup {None} /\ (m # None => Good(m, consents[k.op]))
  BY Typed
<1>2. ASSUME EndAbandoned(k)
      PROVE  IInv' /\ Issues
  <2> DEFINE j == [k EXCEPT !.event = "begin"]
  <2>1. j \in Call /\ j.then = k.then /\ j.owned = k.owned
    BY <1>1 DEF Call, Events
  <2>2. CallOk(j)
    BY <1>1, <1>2, <2>1 DEF CallOk, EndAbandoned
  <2>3. /\ calls' = (calls \ {k}) \cup {j}
        /\ UNCHANGED <<core, runs, asked, archived, consents, image, claimed>>
    BY <1>2 DEF EndAbandoned
  <2> HIDE DEF j
  <2>4. /\ calls' \subseteq Call /\ (\A x \in calls' : CallOk(x)) /\ asked' \in 0..MaxCalls
        /\ core' \in [Cores -> {"off", "starting", "up", "stopping", "gone"}]
        /\ consents' \in [Ops -> SUBSET Digests] /\ runs' \subseteq runs
        /\ \A x \in Ops : consents[x] \subseteq consents'[x]
    BY <2>1, <2>2, <2>3, Typed
  <2>5. CASE m # None /\ m.rev = k.rev /\ m.pend # None
    <3>1. disk' = [disk EXCEPT ![k.op] = Swapped(k.core, Failed(m), k.owned)]
      BY <1>2, <2>5 DEF EndAbandoned, Commit
    <3>2. Good(Failed(m), consents'[k.op]) /\ Step(m, Failed(m))
      BY <1>1, <2>3, <2>5, FailedGood, Zenon DEF Step
    <3>3. image = "user" => ~k.owned
      BY <1>1 DEF CallOk
    <3> QED
      BY <1>1, <2>3, <2>4, <2>5, <3>1, <3>2, <3>3, CommitStep, Zenon
  <2>6. CASE ~(m # None /\ m.rev = k.rev /\ m.pend # None)
    <3>1. disk' = disk
      BY <1>2, <2>6 DEF EndAbandoned
    <3> QED
      BY <2>3, <2>4, <3>1, NoWrite
  <2> QED
    BY <2>5, <2>6
<1>3. ASSUME BeginAgain(k)
      PROVE  IInv' /\ Issues
  <2>1. calls' \subseteq calls /\ UNCHANGED <<core, asked, archived, image, claimed>> /\ k.then \in Ops
    BY <1>1, <1>3, Zenon DEF BeginAgain, CallOk
  <2>2. /\ calls' \subseteq Call /\ (\A x \in calls' : CallOk(x)) /\ asked' \in 0..MaxCalls
        /\ core' \in [Cores -> {"off", "starting", "up", "stopping", "gone"}]
    BY <2>1, Typed, SMTT(30)
  <2>3. CASE Fresh(k.then) /\ Busy = {}
    <3>1. Create(k.core, k.then, k.arg)
      BY <1>3, <2>3 DEF BeginAgain
    <3> QED
      BY <1>1, <2>1, <2>2, <2>3, <3>1, CreateStep
  <2>4. CASE ~(Fresh(k.then) /\ Busy = {})
    <3>1. UNCHANGED <<disk, runs, consents>>
      BY <1>3, <2>4 DEF BeginAgain
    <3> QED
      BY <2>1, <2>2, <3>1, NoWrite
  <2> QED
    BY <2>3, <2>4
<1>4. ASSUME BeginFollowUp(k)
      PROVE  IInv' /\ Issues
  <2>1. UNCHANGED <<core, asked, archived, image, claimed>> /\ k.then \in Ops
    BY <1>1, <1>4, ZenonT(30) DEF BeginFollowUp, CallOk
  <2> DEFINE abandon(b) == CallOn(disk[b], k.core, b, "abandon", k.then, None)
  <2>2. CASE Fresh(k.then) /\ Busy = {} /\ calls' = calls \ {k} /\ Create(k.core, k.then, None)
    <3>1. calls' \subseteq Call /\ (\A x \in calls' : CallOk(x)) /\ asked' \in 0..MaxCalls
      BY <2>1, <2>2, Typed
    <3> QED
      BY <1>1, <2>1, <2>2, <3>1, CreateStep, SMTT(30)
  <2>3. ASSUME NEW b \in Busy, calls' = (calls \ {k}) \cup {abandon(b)}, UNCHANGED <<disk, runs, consents>>
        PROVE  IInv' /\ Issues
    <3>1. b \in Ops /\ disk[b] # None /\ "abandon" \in Events
      BY DEF Busy, Running, Events
    <3>2. abandon(b) \in Call /\ CallOk(abandon(b))
      BY <1>1, <2>1, <3>1, ReadCall, Zenon
    <3> HIDE DEF abandon
    <3>3. /\ calls' \subseteq Call /\ (\A x \in calls' : CallOk(x)) /\ asked' \in 0..MaxCalls
          /\ core' \in [Cores -> {"off", "starting", "up", "stopping", "gone"}]
      BY <2>1, <2>3, <3>2, Typed
    <3> QED
      BY <2>1, <2>3, <3>3, NoWrite
  <2>4. CASE calls' = calls \ {k} /\ UNCHANGED <<disk, runs, consents>>
    <3>1. /\ calls' \subseteq Call /\ (\A x \in calls' : CallOk(x)) /\ asked' \in 0..MaxCalls
          /\ core' \in [Cores -> {"off", "starting", "up", "stopping", "gone"}]
      BY <2>1, <2>4, Typed
    <3> QED
      BY <2>1, <2>4, <3>1, NoWrite
  <2>5. \/ Fresh(k.then) /\ Busy = {} /\ calls' = calls \ {k} /\ Create(k.core, k.then, None)
        \/ \E b \in Busy : calls' = (calls \ {k}) \cup {abandon(b)} /\ UNCHANGED <<disk, runs, consents>>
        \/ calls' = calls \ {k} /\ UNCHANGED <<disk, runs, consents>>
    BY <1>4, Zenon DEF BeginFollowUp
  <2> QED
    BY <2>2, <2>3, <2>4, <2>5, Zenon
<1>5. ASSUME CommitCancel(k)
      PROVE  IInv' /\ Issues
  <2>1. Applies(k, Cancel(m)) /\ UNCHANGED consents /\ m # None
    BY <1>5, Zenon DEF CommitCancel, Applies
  <2>2. Good(Cancel(m), consents[k.op]) /\ Step(m, Cancel(m))
    BY <1>1, <2>1, CancelGood, Zenon
  <2> QED
    BY <2>1, <2>2, AppliesStep, Zenon
<1>6. ASSUME RecoverForeign(k)
      PROVE  IInv' /\ Issues
  <2> DEFINE n == [Restarted(m) EXCEPT !.phase = "failed", !.pend = None]
  <2>1. Applies(k, n) /\ UNCHANGED consents /\ m # None
    BY <1>6 DEF RecoverForeign
  <2>2. Good(n, consents[k.op]) /\ Moves(m, n)
    BY <1>1, <2>1, ForeignGood, Zenon
  <2> HIDE DEF n
  <2> QED
    BY <2>1, <2>2, AppliesStep DEF Step
<1>7. ASSUME NEW outcome, NEW met \in BOOLEAN, NEW relogin \in BOOLEAN,
             CommitReceipt(k, outcome, met, relogin)
      PROVE  IInv' /\ Issues
  <2> DEFINE n == HostReceipt(m, outcome, met, relogin)
  <2>1. Applies(k, n) /\ UNCHANGED consents /\ m # None /\ m.phase = "preparing-host"
    BY <1>7 DEF CommitReceipt
  <2>2. Good(n, consents[k.op]) /\ Moves(m, n)
    BY <1>1, <2>1, HostReceiptGood, Zenon
  <2> HIDE DEF n
  <2> QED
    BY <2>1, <2>2, AppliesStep, Zenon DEF Step
<1>8. ASSUME NEW steps \in BOOLEAN, NEW d \in Digests \cup {None}, NEW wait \in Waits,
             CommitRecover(k, steps, d, wait)
      PROVE  IInv' /\ Issues
  <2> DEFINE n == Reconciled(Restarted(m), steps, d, wait)
  <2>1. Applies(k, n) /\ UNCHANGED consents /\ m # None
    BY <1>8, Zenon DEF CommitRecover
  <2>2. Good(n, consents[k.op]) /\ Moves(m, n)
    BY <1>1, <2>1, RecoveredGood, Zenon
  <2> HIDE DEF n
  <2> QED
    BY <2>1, <2>2, AppliesStep, Zenon DEF Step
<1>9. ASSUME GiveUp(k)
      PROVE  IInv' /\ Issues
  <2> DEFINE j == NewCall(k.core, k.op, "receipt")
             t == [j EXCEPT !.tries = k.tries + 1]
  <2>1. /\ calls' \subseteq calls \/ (calls' \subseteq calls \cup {t} /\ m # None)
        /\ UNCHANGED <<disk, core, runs, asked, archived, consents, image, claimed>>
    BY <1>9 DEF GiveUp
  <2>2. m # None => j \in Call /\ CallOk(j)
    BY <1>1, ReadNewCall
  <2> HIDE DEF j
  <2>3. m # None => t \in Call /\ CallOk(t)
    <3>1. k.tries + 1 \in Nat
      BY <1>1 DEF Call
    <3>2. m # None => t \in Call /\ t.event = j.event /\ t.then = j.then /\ t.owned = j.owned
      BY <2>2, <3>1, SMTT(30) DEF Call
    <3> QED
      BY <2>2, <3>2, SMTT(30) DEF CallOk
  <2> HIDE DEF t
  <2>4. /\ calls' \subseteq Call /\ (\A x \in calls' : CallOk(x)) /\ asked' \in 0..MaxCalls
        /\ core' \in [Cores -> {"off", "starting", "up", "stopping", "gone"}] /\ runs' \subseteq runs
    BY <2>1, <2>3, Typed
  <2> QED
    BY <2>1, <2>4, NoWrite, Zenon
<1> QED
  BY <1>2, <1>3, <1>4, <1>5, <1>6, <1>7, <1>8, <1>9, SMTT(30) DEF Handle

(* A resume or an approval.                                                *)
LEMMA AppliesNowStep ==
  ASSUME IInv, NEW c \in Cores, NEW o \in Ops, disk[o] # None, NEW n, AppliesNow(c, o, n),
         Step(disk[o], n), Good(n, consents[o] \cup ({n.approved} \ {None}))
  PROVE  IInv' /\ Issues
<1>1. /\ n \in Record /\ n.owned \in BOOLEAN /\ (image = "user" => ~n.owned)
      /\ Followed(c, o, n) \subseteq Call /\ (\A k \in Followed(c, o, n) : CallOk(k))
  BY StepOwned, Zenon
<1>2. /\ disk' = [disk EXCEPT ![o] = Swapped(c, n, n.owned)]
      /\ runs' \subseteq runs \cup Dispatched(c, o, n) /\ calls' = calls \cup Followed(c, o, n)
      /\ consents' = [consents EXCEPT ![o] = consents[o] \cup ({n.approved} \ {None})]
      /\ asked < MaxCalls /\ asked' = asked + 1 /\ UNCHANGED <<core, archived, image, claimed>>
  BY DEF AppliesNow, Commit
<1>3. {n.approved} \ {None} \subseteq Digests
  BY <1>1, Zenon DEF Record
<1>4. /\ consents' \in [Ops -> SUBSET Digests] /\ Good(n, consents'[o])
      /\ \A x \in Ops : consents[x] \subseteq consents'[x]
  BY <1>2, <1>3, Typed, SMTT(30)
<1>5. /\ calls' \subseteq Call /\ (\A k \in calls' : CallOk(k)) /\ asked' \in 0..MaxCalls
  BY <1>1, <1>2, Typed, OpsAssumption
<1> QED
  BY <1>1, <1>2, <1>4, <1>5, CommitStep, Zenon

(* A reset.                                                                *)
LEMMA ResetStep ==
  ASSUME IInv, NEW c \in Cores, Reset(c)
  PROVE  IInv' /\ Issues
<1>1. /\ disk' = [o \in Ops |-> None] /\ archived' = archived \cup {o \in Ops : disk[o] # None}
      /\ asked' = asked + 1 /\ asked < MaxCalls /\ Busy = {}
      /\ UNCHANGED <<core, runs, calls, consents, image, claimed>>
  BY DEF Reset
<1>2. TypeOK' /\ IsFiniteSet(runs')
  BY <1>1, OpsAssumption DEF IInv, TypeOK
<1>3. \A o \in Ops : disk'[o] = None
  BY <1>1
<1>4. \A o \in Ops : RecordOk(o)'
  BY <1>3, SMTT(30) DEF RecordOk
<1>5. \A r \in runs' : RunOk(r)'
  <2> SUFFICES ASSUME NEW r \in runs PROVE RunOk(r)'
    BY <1>1
  <2>1. RunOk(r) /\ r.op \in Ops
    BY SMTT(30) DEF IInv, TypeOK, Run
  <2>2. r.op \in archived'
    BY <1>1, <2>1, SMTT(30) DEF RunOk, Fresh
  <2> QED
    BY <1>1, <1>3, <2>1, <2>2 DEF RunOk, Fresh
<1>6. OneDriver'
  BY <1>1, <1>3 DEF OneDriver, Accepts, IInv, TypeOK, Run
<1>7. ImageOk' /\ (\A k \in calls : CallOk(k))'
  BY <1>1 DEF IInv, ImageOk, CallOk
<1>8. Issues
  BY <1>1 DEF Issues
<1> QED
  BY <1>2, <1>4, <1>5, <1>6, <1>7, <1>8, SMTT(30) DEF IInv

(* A client's request.                                                     *)
LEMMA AskStep ==
  ASSUME IInv, NEW c \in Cores, Ask(c)
  PROVE  IInv' /\ Issues
<1>1. ASSUME NEW o \in Ops, NEW d \in Digests \cup {None}, Begin(c, o, d)
      PROVE  IInv' /\ Issues
  <2>1. /\ Fresh(o) /\ Create(c, o, d) /\ UNCHANGED <<core, calls, archived, image, claimed>>
        /\ asked' = asked + 1 /\ asked < MaxCalls
    BY <1>1, SMTT(30) DEF Begin
  <2>2. calls' \subseteq Call /\ (\A k \in calls' : CallOk(k)) /\ asked' \in 0..MaxCalls
    BY <2>1, Typed, OpsAssumption
  <2> QED
    BY <2>1, <2>2, CreateStep
<1>2. ASSUME NEW o \in Ops, NEW b \in Ops, NEW d \in Digests \cup {None},
             BeginOverAbandoned(c, o, d, b)
      PROVE  IInv' /\ Issues
  <2> DEFINE j == CallOn(disk[b], c, b, "abandon", o, d)
  <2>1. /\ calls' = calls \cup {j} /\ asked' = asked + 1 /\ asked < MaxCalls
        /\ UNCHANGED <<disk, core, runs, archived, consents, image, claimed>>
        /\ disk[b] # None /\ "abandon" \in Events
    BY <1>2, Zenon DEF BeginOverAbandoned, Busy, Running, Events
  <2>2. j \in Call /\ CallOk(j)
    BY <2>1, ReadCall, Zenon
  <2> HIDE DEF j
  <2>3. /\ calls' \subseteq Call /\ (\A k \in calls' : CallOk(k)) /\ asked' \in 0..MaxCalls
        /\ core' \in [Cores -> {"off", "starting", "up", "stopping", "gone"}] /\ runs' \subseteq runs
    BY <2>1, <2>2, Typed, OpsAssumption
  <2> QED
    BY <2>1, <2>3, NoWrite
<1>3. ASSUME NEW o \in Ops, NEW event \in Events, Asks(c, o, event)
      PROVE  IInv' /\ Issues
  <2> DEFINE j == NewCall(c, o, event)
  <2>1. /\ calls' = calls \cup {j} /\ asked' = asked + 1 /\ asked < MaxCalls
        /\ UNCHANGED <<disk, core, runs, archived, consents, image, claimed>>
        /\ disk[o] # None /\ event \in {"cancel", "receipt", "recover"}
    BY <1>3 DEF Asks
  <2>2. j \in Call /\ CallOk(j)
    BY <2>1, ReadNewCall, SMTT(30)
  <2> HIDE DEF j
  <2>3. /\ calls' \subseteq Call /\ (\A k \in calls' : CallOk(k)) /\ asked' \in 0..MaxCalls
        /\ core' \in [Cores -> {"off", "starting", "up", "stopping", "gone"}] /\ runs' \subseteq runs
    BY <2>1, <2>2, Typed, OpsAssumption
  <2> QED
    BY <2>1, <2>3, NoWrite, SMTT(30)
<1>4. ASSUME NEW o \in Ops, NEW d \in Digests \cup {None}, ResumeOp(c, o, d)
      PROVE  IInv' /\ Issues
  <2> DEFINE n == Resume(disk[o], d)
  <2>1. disk[o] # None /\ Resumes(disk[o], d) /\ AppliesNow(c, o, n)
    BY <1>4 DEF ResumeOp
  <2>2. Good(disk[o], consents[o])
    BY <2>1, Typed, Zenon
  <2>3. Good(n, consents[o] \cup ({n.approved} \ {None})) /\ Step(disk[o], n)
    BY <2>1, <2>2, ResumeGood, Zenon
  <2> HIDE DEF n
  <2> QED
    BY <2>1, <2>3, AppliesNowStep, Zenon
<1>5. ASSUME NEW o \in Ops, NEW d \in Digests \cup {None}, ApproveOp(c, o, d)
      PROVE  IInv' /\ Issues
  <2> DEFINE n == Approve(disk[o], d)
  <2>1. disk[o] # None /\ Approves(disk[o], d) /\ AppliesNow(c, o, n) /\ d \in Digests
    BY <1>5 DEF ApproveOp, Approves
  <2>2. Good(disk[o], consents[o])
    BY <2>1, Typed, Zenon
  <2>3. Good(n, consents[o] \cup ({n.approved} \ {None})) /\ Step(disk[o], n)
    BY <2>1, <2>2, ApproveGood, Zenon
  <2> HIDE DEF n
  <2> QED
    BY <2>1, <2>3, AppliesNowStep, Zenon
<1>6. ASSUME Reset(c)
      PROVE  IInv' /\ Issues
  BY <1>6, ResetStep
<1> QED
  BY <1>1, <1>2, <1>3, <1>4, <1>5, <1>6, SMTT(30) DEF Ask

(* A core starts, stops or dies.                                           *)
LEMMA CoreStep ==
  ASSUME IInv, NEW c \in Cores, Start(c) \/ FinishStart(c) \/ Shutdown(c) \/ Gone(c)
  PROVE  IInv' /\ Issues
<1>1. /\ runs' \subseteq runs /\ UNCHANGED <<disk, asked, archived, consents, image, claimed>>
      /\ core' \in [Cores -> {"off", "starting", "up", "stopping", "gone"}]
      /\ asked' \in 0..MaxCalls
  BY Typed, Zenon DEF Start, FinishStart, Shutdown, Gone
<1>2. calls' \subseteq Call /\ \A k \in calls' : CallOk(k)
  <2>1. CASE Start(c)
    <3>1. ASSUME NEW o \in Busy PROVE NewCall(c, o, "recover") \in Call /\ CallOk(NewCall(c, o, "recover"))
      <4>1. o \in Ops /\ disk[o] # None
        BY DEF Busy, Running
      <4> QED
        BY <4>1, ReadNewCall
    <3> QED
      BY <2>1, <3>1, Typed DEF Start
  <2>2. CASE FinishStart(c)
    <3> DEFINE s == UNION {Followed(c, o, disk[o]) : o \in {x \in Ops : disk[x] # None}}
    <3>1. ASSUME NEW o \in Ops, disk[o] # None
          PROVE  Followed(c, o, disk[o]) \subseteq Call /\ \A k \in Followed(c, o, disk[o]) : CallOk(k)
      <4>1. disk[o] \in Record /\ (image = "user" => ~disk[o].owned)
        BY <3>1, Zenon DEF IInv, RecordOk, Good
      <4> QED
        BY <4>1, FollowedCall
    <3>2. s \subseteq Call /\ \A k \in s : CallOk(k)
      BY <3>1, Zenon
    <3>3. calls' = calls \cup s
      BY <2>2 DEF FinishStart
    <3> HIDE DEF s
    <3> QED
      BY <3>2, <3>3, Typed
  <2>3. CASE Shutdown(c) \/ Gone(c)
    BY <2>3, Typed, Zenon DEF Shutdown, Gone
  <2> QED
    BY <2>1, <2>2, <2>3
<1> QED
  BY <1>1, <1>2, NoWrite

(* The initial states.                                                     *)
LEMMA InitOk == Init => IInv
<1> SUFFICES ASSUME Init PROVE IInv
  OBVIOUS
<1>1. IsFiniteSet(runs)
  BY FS_EmptySet DEF Init
<1>2. TypeOK
  <2>1. /\ disk \in [Ops -> Record \cup {None}] /\ consents \in [Ops -> SUBSET Digests]
        /\ core \in [Cores -> {"off", "starting", "up", "stopping", "gone"}]
    BY DEF Init
  <2>2. asked \in 0..MaxCalls
    BY OpsAssumption DEF Init
  <2>3. /\ runs \subseteq Run /\ calls \subseteq Call /\ archived \subseteq Ops
        /\ image \in Ops \cup {None, "user", "stray"} /\ claimed \in BOOLEAN
    BY Zenon DEF Init
  <2> QED
    BY <2>1, <2>2, <2>3 DEF TypeOK
<1>3. OneDriver /\ ImageOk
  BY NoneAssumption DEF Init, OneDriver, ImageOk
<1> QED
  BY <1>1, <1>2, <1>3 DEF Init, IInv, RecordOk

(* Every step.                                                             *)
LEMMA NextOk == IInv /\ [Next]_vars => IInv' /\ (Issues \/ UNCHANGED disk)
<1> SUFFICES ASSUME IInv, [Next]_vars PROVE IInv' /\ (Issues \/ UNCHANGED disk)
  OBVIOUS
<1>1. CASE Next
  BY <1>1, WorkStep, HandleStep, AskStep, CoreStep DEF Next
<1>2. CASE UNCHANGED vars
  <2>1. /\ runs' \subseteq runs /\ calls' \subseteq Call /\ (\A k \in calls' : CallOk(k))
        /\ asked' \in 0..MaxCalls
        /\ core' \in [Cores -> {"off", "starting", "up", "stopping", "gone"}]
        /\ UNCHANGED <<disk, archived, consents, image, claimed>>
    BY <1>2, Typed DEF vars
  <2> QED
    BY <2>1, NoWrite, SMTT(30)
<1> QED
  BY <1>1, <1>2

(* The invariant holds always.                                             *)
LEMMA Invariance == Spec => []IInv
BY InitOk, NextOk, PTL DEF Spec

(* Every variable keeps its type.                                          *)
THEOREM TypeCorrect == Spec => []TypeOK
<1>1. IInv => TypeOK
  BY DEF IInv
<1> QED
  BY <1>1, Invariance, PTL

(* No effect that changes the machine runs without a client's approval of  *)
(* the plan it runs under, whatever cores share the store, crash, recover, *)
(* resume or ask again.                                                    *)
THEOREM NoWorkWithoutConsent == Spec => []ConsentCoversWork
<1>1. IInv => ConsentCoversWork
  <2> SUFFICES ASSUME IInv PROVE ConsentCoversWork
    OBVIOUS
  <2>1. \A r \in runs : RunOk(r)
    BY DEF IInv
  <2>2. \A o \in Busy : Good(disk[o], consents[o])
    BY Typed DEF Busy, Running
  <2> QED
    BY <2>1, <2>2, Zenon DEF ConsentCoversWork, RunOk, Good
<1> QED
  BY <1>1, Invariance, PTL

(* No two effects in flight can both answer for one operation, but for     *)
(* cleanups: no two cores drive an operation at once.                      *)
THEOREM OneDriverAlways == Spec => []OneDriver
<1>1. IInv => OneDriver
  BY DEF IInv
<1> QED
  BY <1>1, Invariance, PTL

(* A GPU-check image a setup pulled is on record as its own, through       *)
(* crashes, takeovers and stale commits.                                   *)
THEOREM CreatedIsOwned == Spec => []OwnedCoversCreated
<1>1. IInv => OwnedCoversCreated
  BY DEF IInv, ImageOk, OwnedCoversCreated
<1> QED
  BY <1>1, Invariance, PTL

(* The user's own image is never on record as ours.                        *)
THEOREM UserImageAlwaysKept == Spec => []UserImageKept
<1>1. IInv => UserImageKept
  BY DEF IInv, ImageOk, RecordOk, UserImageKept
<1> QED
  BY <1>1, Invariance, PTL

(* A cancellation on record is followed by nothing but the cleanup.        *)
THEOREM CancelIsFinal == Spec => CancelStopsWork
<1>1. IInv /\ [Next]_vars =>
        [\A o \in Busy : disk[o].cancel /\ disk'[o].cancel =>
           disk'[o].pend \in {disk[o].pend, None} \/ disk'[o].pend.kind = "cleanup"]_disk
  <2> SUFFICES ASSUME IInv, [Next]_vars, disk' # disk, NEW o \in Busy, disk[o].cancel, disk'[o].cancel,
                      disk'[o].pend # disk[o].pend, disk'[o].pend # None
               PROVE  disk'[o].pend.kind = "cleanup"
    OBVIOUS
  <2>1. IInv' /\ Issues
    BY NextOk
  <2>2. o \in Ops /\ disk'[o] # None /\ disk'[o].pend.rev = disk'[o].rev
    BY <2>1 DEF Issues, Busy
  <2>3. RecordOk(o)'
    BY <2>1, <2>2, Zenon DEF IInv
  <2> QED
    BY <2>2, <2>3, Zenon DEF RecordOk, Good
<1> QED
  BY <1>1, Invariance, PTL DEF Spec, CancelStopsWork
===============================================================================
