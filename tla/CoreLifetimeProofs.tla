------------------------- MODULE CoreLifetimeProofs -------------------------
(***************************************************************************)
(* Proofs about the life of a core.  InstanceLock, for any set of          *)
(* processes: recovery is always exclusive; ownership is, when no writer   *)
(* stalls past the grace period, no publish fails half-way and no process  *)
(* exits after releasing while another one is between reading its record   *)
(* and probing its pid.  AppLease, for any apps and registrations and      *)
(* every timing that satisfies TimingAssumption.  The modules share no     *)
(* state: each theorem speaks of the specification of one.                 *)
(***************************************************************************)
EXTENDS InstanceLock, AppLease, TLAPS

USE ProcAssumption

(* Processes whose claim file exists. *)
Claiming == {"readdir", "peers", "mutex", "mstale", "mwrite", "recheck", "reverify",
             "rmlock", "mclose", "unclaim"}

(* Of two claimants that both listed the directory, one saw the other; a   *)
(* claimant still looking at its listing sees whoever already recovers.    *)
ClaimInv ==
  /\ TypeOK
  /\ \A p \in Procs : alive[p] /\ pc[p] \in Claiming => p \in claims
  /\ \A p, q \in Procs : p # q /\ At(p, "peers") /\ At(q, "peers")
                           => q \in seen[p] \/ p \in seen[q]
  /\ \A p, q \in Procs : p # q /\ Recovering(p) /\ At(q, "peers") => p \in seen[q]
  /\ OneRecovery

LEMMA ClaimInit == Init => ClaimInv
BY DEF Init, ClaimInv, TypeOK, Pcs, Claiming, At, Recovering, OneRecovery

(* One step of one process, the body of Next. *)
Step(p) ==
  \/ Open(p) \/ Write(p) \/ WriteFails(p) \/ Truncate(p) \/ Publish(p) \/ PublishFails(p)
  \/ Release(p) \/ ReleaseRead(p) \/ Unlink(p) \/ Inspect(p) \/ Verify(p)
  \/ WriteClaim(p) \/ Readdir(p) \/ Peers(p) \/ OpenMutex(p) \/ RemoveStaleMutex(p)
  \/ WriteMutex(p) \/ Recheck(p) \/ Reverify(p) \/ RemoveLock(p) \/ CloseMutex(p)
  \/ Unclaim(p) \/ GiveUp(p) \/ Crash(p) \/ Exit(p)

(* Every file operation of acquire, publish and release keeps the types.   *)
LEMMA TypeStep == TypeOK /\ Next => TypeOK'
<1> SUFFICES ASSUME TypeOK, Next PROVE TypeOK' OBVIOUS
<1> PICK p \in Procs : Step(p) BY DEF Next, Step
<1> USE DEF TypeOK, Pcs, Goto, files
<1>1. CASE Open(p) BY <1>1, Zenon DEF Open
<1>2. CASE Write(p) BY <1>2 DEF Write
<1>3. CASE WriteFails(p) BY <1>3 DEF WriteFails
<1>4. CASE Truncate(p) BY <1>4 DEF Truncate
<1>5. CASE Publish(p) BY <1>5 DEF Publish
<1>6. CASE PublishFails(p) BY <1>6 DEF PublishFails
<1>7. CASE Release(p) BY <1>7 DEF Release
<1>8. CASE ReleaseRead(p) BY <1>8 DEF ReleaseRead
<1>9. CASE Unlink(p) BY <1>9 DEF Unlink
<1>10. CASE Inspect(p) BY <1>10 DEF Inspect, Corrupt
<1>11. CASE Verify(p) BY <1>11 DEF Verify
<1>12. CASE WriteClaim(p) BY <1>12 DEF WriteClaim
<1>13. CASE Readdir(p) BY <1>13 DEF Readdir
<1>14. CASE Peers(p)
  <2> USE <1>14 DEF Peers
  <2>1. claims' \subseteq Procs /\ seen' \in [Procs -> SUBSET Procs] BY Zenon
  <2>2. pc' \in [Procs -> Pcs] OBVIOUS
  <2>3. scan' \in [Procs -> 0..1] OBVIOUS
  <2> QED BY <2>1, <2>2, <2>3
<1>15. CASE OpenMutex(p) BY <1>15, Zenon DEF OpenMutex
<1>16. CASE RemoveStaleMutex(p) BY <1>16 DEF RemoveStaleMutex
<1>17. CASE WriteMutex(p) BY <1>17 DEF WriteMutex
<1>18. CASE Recheck(p) BY <1>18 DEF Recheck, Corrupt
<1>19. CASE Reverify(p) BY <1>19 DEF Reverify
<1>20. CASE RemoveLock(p) BY <1>20 DEF RemoveLock
<1>21. CASE CloseMutex(p) BY <1>21 DEF CloseMutex
<1>22. CASE Unclaim(p) BY <1>22 DEF Unclaim
<1>23. CASE GiveUp(p) BY <1>23 DEF GiveUp
<1>24. CASE Crash(p) BY <1>24 DEF Crash
<1>25. CASE Exit(p) BY <1>25 DEF Exit
<1> QED
  BY <1>1, <1>2, <1>3, <1>4, <1>5, <1>6, <1>7, <1>8, <1>9, <1>10, <1>11, <1>12, <1>13, <1>14,
     <1>15, <1>16, <1>17, <1>18, <1>19, <1>20, <1>21, <1>22, <1>23, <1>24, <1>25, Zenon DEF Step

(* Every step keeps the claim discipline of tryRecoverStale. *)
LEMMA ClaimStep == ClaimInv /\ [Next]_vars => ClaimInv'
<1>s. CASE ClaimInv /\ UNCHANGED vars
  BY <1>s DEF vars, ClaimInv, TypeOK, At, Recovering, OneRecovery
<1> SUFFICES ASSUME ClaimInv, Next PROVE ClaimInv' BY <1>s
<1>0. TypeOK' BY TypeStep DEF ClaimInv
<1> PICK p \in Procs : Step(p) BY DEF Next, Step
<1> USE DEF ClaimInv, TypeOK, Pcs, Goto, At, files, Claiming, Recovering, OneRecovery
<1>1. CASE Open(p) BY <1>1, <1>0 DEF Open
<1>2. CASE Write(p) BY <1>2, <1>0 DEF Write
<1>3. CASE WriteFails(p) BY <1>3, <1>0 DEF WriteFails
<1>4. CASE Truncate(p) BY <1>4, <1>0 DEF Truncate
<1>5. CASE Publish(p) BY <1>5, <1>0 DEF Publish
<1>6. CASE PublishFails(p) BY <1>6, <1>0 DEF PublishFails
<1>7. CASE Release(p) BY <1>7, <1>0 DEF Release
<1>8. CASE ReleaseRead(p) BY <1>8, <1>0 DEF ReleaseRead
<1>9. CASE Unlink(p) BY <1>9, <1>0 DEF Unlink
<1>10. CASE Inspect(p) BY <1>10, <1>0 DEF Inspect, Corrupt
<1>11. CASE Verify(p) BY <1>11, <1>0 DEF Verify
<1>12. CASE WriteClaim(p) BY <1>12, <1>0 DEF WriteClaim
<1>13. CASE Readdir(p) BY <1>13, <1>0 DEF Readdir
<1>14. CASE Peers(p) BY <1>14, <1>0 DEF Peers
<1>15. CASE OpenMutex(p) BY <1>15, <1>0 DEF OpenMutex
<1>16. CASE RemoveStaleMutex(p) BY <1>16, <1>0 DEF RemoveStaleMutex
<1>17. CASE WriteMutex(p) BY <1>17, <1>0 DEF WriteMutex
<1>18. CASE Recheck(p) BY <1>18, <1>0 DEF Recheck, Corrupt
<1>19. CASE Reverify(p) BY <1>19, <1>0 DEF Reverify
<1>20. CASE RemoveLock(p) BY <1>20, <1>0 DEF RemoveLock
<1>21. CASE CloseMutex(p) BY <1>21, <1>0 DEF CloseMutex
<1>22. CASE Unclaim(p) BY <1>22, <1>0 DEF Unclaim
<1>23. CASE GiveUp(p) BY <1>23, <1>0 DEF GiveUp
<1>24. CASE Crash(p) BY <1>24, <1>0 DEF Crash
<1>25. CASE Exit(p) BY <1>25, <1>0 DEF Exit
<1> QED
  BY <1>1, <1>2, <1>3, <1>4, <1>5, <1>6, <1>7, <1>8, <1>9, <1>10, <1>11, <1>12, <1>13, <1>14,
     <1>15, <1>16, <1>17, <1>18, <1>19, <1>20, <1>21, <1>22, <1>23, <1>24, <1>25, Zenon DEF Step

(* tryRecoverStale's claim files serialise recovery, for any number of     *)
(* starters, crashes, stalls and failed writes.                            *)
THEOREM RecoveryExclusive == Spec => []OneRecovery
<1>1. ClaimInv => OneRecovery BY DEF ClaimInv
<1> QED BY ClaimInit, ClaimStep, <1>1, PTL DEF Spec

(* Whatever starters, crashes, stalls and failed writes there are, every   *)
(* file and every place in acquire has its type.                           *)
THEOREM LockTypeCorrect == Spec => []TypeOK
<1>1. ClaimInv => TypeOK BY DEF ClaimInv
<1> QED BY ClaimInit, ClaimStep, <1>1, PTL DEF Spec

-----------------------------------------------------------------------------
(* No writer outlasts the grace period, no process exits after it released *)
(* and no publish fails between truncate and write.                        *)
Undisturbed == Slow = {} /\ Exits = {} /\ Fails = {}

Holding == {"write", "own", "publish", "ready", "release", "unlink"}

(* The file at the lock path belongs to its live holder; a recovery about  *)
(* to remove it removes a dead process's; and the record it is checking is *)
(* the one at the path, or its writer has since released and lives on.     *)
OwnInv ==
  /\ ClaimInv
  /\ \A p \in Procs : alive[p] /\ pc[p] \in Holding => lock = p
  /\ lock # None /\ alive[lock] => pc[lock] \in Holding
  /\ \A p \in Procs : alive[p] /\ pc[p] \in Holding \ {"write", "publish"} => filled[p]
  /\ \A p \in Procs : At(p, "rmlock") => lock # None /\ ~alive[lock]
  /\ \A p \in Procs : At(p, "reverify") =>
       /\ rec[p] # None
       /\ lock = rec[p] \/ (alive[rec[p]] /\ pc[rec[p]] = "done")

LEMMA OwnInit == Init => OwnInv
<1> SUFFICES ASSUME Init PROVE OwnInv OBVIOUS
<1>1. lock # None => lock \in Procs /\ ~alive[lock] BY ProcAssumption, Zenon DEF Init
<1>2. \A p \in Procs : alive[p] => pc[p] = "start" BY Zenon DEF Init
<1> QED BY <1>1, <1>2, ClaimInit DEF OwnInv, Holding, At

(* A process that holds no lock moves on without touching it. *)
LEMMA OwnFrame ==
  ASSUME OwnInv, ClaimInv', NEW p \in Procs, NEW l \in Pcs \ (Holding \cup {"rmlock", "reverify"}),
         pc[p] \notin Holding \cup {"done"}, pc' = [pc EXCEPT ![p] = l],
         UNCHANGED <<alive, lock, filled, rec>>
  PROVE  OwnInv'
<1> USE DEF OwnInv, At, Holding
<1>1. TypeOK BY DEF ClaimInv
<1>2. \A q \in Procs : q # p => pc'[q] = pc[q] BY <1>1 DEF TypeOK
<1>3. pc'[p] = l BY <1>1 DEF TypeOK
<1>4. \A q \in Procs : alive'[q] /\ pc'[q] \in Holding => lock' = q BY <1>2, <1>3
<1>5. lock' # None /\ alive'[lock'] => pc'[lock'] \in Holding
  <2> SUFFICES ASSUME lock # None, alive[lock] PROVE pc'[lock] \in Holding OBVIOUS
  <2>1. lock \in Procs /\ lock # p BY <1>1 DEF TypeOK
  <2> QED BY <2>1, <1>2
<1>6. \A q \in Procs : alive'[q] /\ pc'[q] \in Holding \ {"write", "publish"} => filled'[q]
  BY <1>2, <1>3
<1>7. \A q \in Procs : At(q, "rmlock")' => lock' # None /\ ~alive'[lock'] BY <1>2, <1>3
<1>8. \A q \in Procs : At(q, "reverify")' =>
        rec'[q] # None /\ (lock' = rec'[q] \/ (alive'[rec'[q]] /\ pc'[rec'[q]] = "done"))
  <2> SUFFICES ASSUME NEW q \in Procs, alive[q], pc'[q] = "reverify"
      PROVE rec[q] # None /\ (lock = rec[q] \/ (alive[rec[q]] /\ pc'[rec[q]] = "done"))
    OBVIOUS
  <2>1. q # p /\ pc[q] = "reverify" BY <1>2, <1>3
  <2>2. rec[q] \in Procs BY <1>1, <2>1 DEF TypeOK
  <2> QED BY <2>1, <2>2, <1>2
<1> QED BY <1>4, <1>5, <1>6, <1>7, <1>8

(* Every step keeps it; the steps of a recovery rely on being the only one. *)
LEMMA OwnStep == ASSUME Undisturbed PROVE OwnInv /\ [Next]_vars => OwnInv'
<1>c. OwnInv /\ [Next]_vars => ClaimInv' BY ClaimStep DEF OwnInv
<1>s. CASE OwnInv /\ UNCHANGED vars
  BY <1>c, <1>s DEF vars, OwnInv, At
<1> SUFFICES ASSUME OwnInv, Next PROVE OwnInv' BY <1>s
<1>0. ClaimInv' BY <1>c
<1>t. TypeOK /\ TypeOK' /\ OneRecovery BY <1>0 DEF ClaimInv, OwnInv
<1> PICK p \in Procs : Step(p) BY DEF Next, Step
<1> USE DEF OwnInv, TypeOK, Pcs, Goto, At, files, Holding, Undisturbed
<1>1. CASE Open(p)
  <2>1. CASE lock = None
    <3>1. lock' = p /\ pc' = [pc EXCEPT ![p] = "write"] /\ UNCHANGED <<alive, rec>>
          /\ filled' = [filled EXCEPT ![p] = FALSE] BY <1>1, <2>1 DEF Open
    <3>2. \A q \in Procs : q # p => pc'[q] = pc[q] /\ filled'[q] = filled[q] BY <3>1, <1>t
    <3>3. pc'[p] = "write" /\ pc[p] = "start" BY <3>1, <1>1, <1>t DEF Open
    <3>4. \A q \in Procs : alive[q] => pc[q] \notin Holding \cup {"rmlock"} BY <2>1, ProcAssumption
    <3>5. \A q \in Procs : At(q, "reverify")' => rec'[q] # None /\ alive'[rec'[q]] /\ pc'[rec'[q]] = "done"
      <4> SUFFICES ASSUME NEW q \in Procs, alive[q], pc'[q] = "reverify"
          PROVE rec[q] # None /\ alive[rec[q]] /\ pc'[rec[q]] = "done"
        BY <3>1
      <4>1. q # p /\ pc[q] = "reverify" BY <3>2, <3>3
      <4>2. rec[q] # None /\ alive[rec[q]] /\ pc[rec[q]] = "done" BY <4>1, <2>1
      <4>3. rec[q] \in Procs BY <4>2, <1>t
      <4>4. rec[q] # p BY <4>2, <3>3
      <4> QED BY <4>2, <4>3, <4>4, <3>2, Zenon
    <3> QED BY <3>1, <3>2, <3>3, <3>4, <3>5, <1>0
  <2>2. CASE lock # None BY <1>1, <2>2, <1>0, OwnFrame DEF Open
  <2> QED BY <2>1, <2>2
<1>2. CASE Write(p) BY <1>2, <1>0, <1>t DEF Write
<1>3. CASE WriteFails(p) BY <1>3, <1>0, <1>t DEF WriteFails
<1>4. CASE Truncate(p) BY <1>4, <1>0, <1>t DEF Truncate
<1>5. CASE Publish(p) BY <1>5, <1>0, <1>t DEF Publish
<1>6. CASE PublishFails(p) BY <1>6, <1>0, <1>t DEF PublishFails
<1>7. CASE Release(p) BY <1>7, <1>0, <1>t DEF Release
<1>8. CASE ReleaseRead(p) BY <1>8, <1>0, <1>t DEF ReleaseRead
<1>9. CASE Unlink(p) BY <1>9, <1>0, <1>t DEF Unlink
<1>10. CASE Inspect(p) BY <1>10, <1>0, <1>t DEF Inspect, Corrupt
<1>11. CASE Verify(p) BY <1>11, <1>0, <1>t DEF Verify
<1>12. CASE WriteClaim(p) BY <1>12, <1>0, <1>t DEF WriteClaim
<1>13. CASE Readdir(p) BY <1>13, <1>0, <1>t DEF Readdir
<1>14. CASE Peers(p)
  <2>1. PICK l \in {"unclaim", "mutex", "readdir"} : pc' = [pc EXCEPT ![p] = l] BY <1>14 DEF Peers
  <2>2. UNCHANGED <<alive, lock, filled, rec>> BY <1>14 DEF Peers
  <2>3. pc[p] \notin Holding \cup {"done"} BY <1>14 DEF Peers
  <2>4. l \in Pcs \ (Holding \cup {"rmlock", "reverify"}) OBVIOUS
  <2> QED BY ONLY OwnInv, <2>1, <2>2, <2>3, <2>4, <1>0, OwnFrame
<1>15. CASE OpenMutex(p)
  <2>1. PICK l \in {"mwrite", "mstale", "unclaim"} : pc' = [pc EXCEPT ![p] = l] BY <1>15 DEF OpenMutex
  <2>2. UNCHANGED <<alive, lock, filled, rec>> BY <1>15 DEF OpenMutex
  <2>3. pc[p] \notin Holding \cup {"done"} BY <1>15 DEF OpenMutex
  <2>4. l \in Pcs \ (Holding \cup {"rmlock", "reverify"}) OBVIOUS
  <2> QED BY ONLY OwnInv, <2>1, <2>2, <2>3, <2>4, <1>0, OwnFrame
<1>16. CASE RemoveStaleMutex(p) BY <1>16, <1>0, <1>t DEF RemoveStaleMutex
<1>17. CASE WriteMutex(p) BY <1>17, <1>0, <1>t DEF WriteMutex
<1>18. CASE Recheck(p) BY <1>18, <1>0, <1>t DEF Recheck, Readable, Completing, Corrupt
<1>19. CASE Reverify(p)
  <2>1. CASE alive[rec[p]]
    <3>1. pc' = [pc EXCEPT ![p] = "mclose"] /\ UNCHANGED <<alive, lock, filled, rec>>
      BY <1>19, <2>1 DEF Reverify
    <3>2. pc[p] \notin Holding \cup {"done"} BY <1>19 DEF Reverify
    <3>3. "mclose" \in Pcs \ (Holding \cup {"rmlock", "reverify"}) OBVIOUS
    <3> QED BY ONLY OwnInv, <3>1, <3>2, <3>3, <1>0, OwnFrame
  <2>2. CASE ~alive[rec[p]]
    <3>1. lock = rec[p] /\ lock # None BY <1>19, <2>2 DEF Reverify
    <3>2. pc' = [pc EXCEPT ![p] = "rmlock"] /\ UNCHANGED <<alive, lock, filled, rec>>
      BY <1>19, <2>2 DEF Reverify
    <3>3. pc'[p] = "rmlock" /\ \A q \in Procs : q # p => pc'[q] = pc[q] BY <3>2, <1>t
    <3>4. lock # p BY <1>19, <2>2, <3>1 DEF Reverify
    <3>5. \A q \in Procs : At(q, "reverify")' =>
            rec'[q] # None /\ (lock' = rec'[q] \/ (alive'[rec'[q]] /\ pc'[rec'[q]] = "done"))
      <4> SUFFICES ASSUME NEW q \in Procs, alive[q], pc'[q] = "reverify" PROVE FALSE
        BY <3>2
      <4> QED BY <3>3, <1>19, <1>t DEF Reverify, Recovering, OneRecovery
    <3> QED BY <2>2, <3>1, <3>2, <3>3, <3>4, <3>5, <1>0, <1>t
  <2> QED BY <2>1, <2>2
<1>20. CASE RemoveLock(p) BY <1>20, <1>0, <1>t DEF RemoveLock, Recovering, OneRecovery
<1>21. CASE CloseMutex(p) BY <1>21, <1>0, <1>t DEF CloseMutex
<1>22. CASE Unclaim(p) BY <1>22, <1>0, <1>t DEF Unclaim
<1>23. CASE GiveUp(p) BY <1>23, <1>0, <1>t DEF GiveUp
<1>24. CASE Crash(p) BY <1>24, <1>0, <1>t DEF Crash
<1>25. CASE Exit(p) BY <1>25, <1>0, <1>t DEF Exit
<1> QED
  BY <1>1, <1>2, <1>3, <1>4, <1>5, <1>6, <1>7, <1>8, <1>9, <1>10, <1>11, <1>12, <1>13, <1>14,
     <1>15, <1>16, <1>17, <1>18, <1>19, <1>20, <1>21, <1>22, <1>23, <1>24, <1>25, Zenon DEF Step

LEMMA OwnInvGives == OwnInv => SingleOwner /\ OwnerKeepsLock
BY DEF OwnInv, Owner, Holding, SingleOwner, OwnerKeepsLock

(* Concurrent starters produce at most one owner (InstanceLock.acquire).   *)
THEOREM AtMostOneOwner == Undisturbed /\ Spec => []SingleOwner
<1> SUFFICES ASSUME Undisturbed PROVE Spec => []SingleOwner OBVIOUS
<1> QED BY OwnInit, OwnStep, OwnInvGives, PTL DEF Spec

(* Nothing removes a live owner's lock: no recovery, failed write or       *)
(* release of another process (recoverUnderClaim, release).                *)
THEOREM LiveLockStays == Undisturbed /\ Spec => []OwnerKeepsLock
<1> SUFFICES ASSUME Undisturbed PROVE Spec => []OwnerKeepsLock OBVIOUS
<1> QED BY OwnInit, OwnStep, OwnInvGives, PTL DEF Spec

(* A step of the lock takes ownership nobody has, gives it up, or leaves it. *)
LEMMA PromiseStep ==
  ASSUME Undisturbed PROVE OwnInv /\ [Next]_vars => [Promise!Next]_{p \in Procs : Owner(p)}
<1> DEFINE owners == {p \in Procs : Owner(p)}
<1>s. CASE OwnInv /\ UNCHANGED vars BY <1>s DEF vars, Owner
<1> SUFFICES ASSUME OwnInv, Next PROVE [Promise!Next]_owners BY <1>s
<1>t. TypeOK BY DEF OwnInv, ClaimInv
<1> PICK p \in Procs : Step(p) BY DEF Next, Step
<1> USE <1>t DEF TypeOK, Goto, At, files, Owner
<1>2. CASE Write(p)
  <2>1. owners = {} BY <1>2, Zenon DEF Write, OwnInv, Holding
  <2>2. owners' = {p} BY <1>2, <2>1 DEF Write
  <2> QED BY <2>1, <2>2 DEF Promise!Next, Promise!Take
<1>7. CASE Release(p)
  <2>1. p \in owners /\ owners' = owners \ {p} BY <1>7 DEF Release
  <2> QED BY <2>1 DEF Promise!Next, Promise!Leave
<1>24. CASE Crash(p)
  <2>1. owners' = owners \ {p} BY <1>24 DEF Crash
  <2> QED BY <2>1 DEF Promise!Next, Promise!Leave
<1>6. CASE PublishFails(p) BY <1>6 DEF PublishFails, Undisturbed
<1>25. CASE Exit(p) BY <1>25 DEF Exit, Undisturbed
<1>1. CASE Open(p)
  <2>1. owners' = owners BY <1>1, Zenon DEF Open
  <2> QED BY <2>1
<1>3. CASE WriteFails(p)
  <2>1. owners' = owners BY <1>3 DEF WriteFails
  <2> QED BY <2>1
<1>4. CASE Truncate(p)
  <2>1. owners' = owners BY <1>4 DEF Truncate
  <2> QED BY <2>1
<1>5. CASE Publish(p)
  <2>1. owners' = owners BY <1>5 DEF Publish
  <2> QED BY <2>1
<1>8. CASE ReleaseRead(p)
  <2>1. owners' = owners BY <1>8 DEF ReleaseRead
  <2> QED BY <2>1
<1>9. CASE Unlink(p)
  <2>1. owners' = owners BY <1>9 DEF Unlink
  <2> QED BY <2>1
<1>10. CASE Inspect(p)
  <2>1. owners' = owners BY <1>10 DEF Inspect
  <2> QED BY <2>1
<1>11. CASE Verify(p)
  <2>1. owners' = owners BY <1>11 DEF Verify
  <2> QED BY <2>1
<1>12. CASE WriteClaim(p)
  <2>1. owners' = owners BY <1>12 DEF WriteClaim
  <2> QED BY <2>1
<1>13. CASE Readdir(p)
  <2>1. owners' = owners BY <1>13 DEF Readdir
  <2> QED BY <2>1
<1>14. CASE Peers(p)
  <2>1. owners' = owners BY <1>14, Zenon DEF Peers
  <2> QED BY <2>1
<1>15. CASE OpenMutex(p)
  <2>1. owners' = owners BY <1>15, Zenon DEF OpenMutex
  <2> QED BY <2>1
<1>16. CASE RemoveStaleMutex(p)
  <2>1. owners' = owners BY <1>16 DEF RemoveStaleMutex
  <2> QED BY <2>1
<1>17. CASE WriteMutex(p)
  <2>1. owners' = owners BY <1>17 DEF WriteMutex
  <2> QED BY <2>1
<1>18. CASE Recheck(p)
  <2>1. owners' = owners BY <1>18 DEF Recheck
  <2> QED BY <2>1
<1>19. CASE Reverify(p)
  <2>1. owners' = owners BY <1>19, Zenon DEF Reverify
  <2> QED BY <2>1
<1>20. CASE RemoveLock(p)
  <2>1. owners' = owners BY <1>20 DEF RemoveLock
  <2> QED BY <2>1
<1>21. CASE CloseMutex(p)
  <2>1. owners' = owners BY <1>21 DEF CloseMutex
  <2> QED BY <2>1
<1>22. CASE Unclaim(p)
  <2>1. owners' = owners BY <1>22 DEF Unclaim
  <2> QED BY <2>1
<1>23. CASE GiveUp(p)
  <2>1. owners' = owners BY <1>23 DEF GiveUp
  <2> QED BY <2>1
<1> QED
  BY <1>1, <1>2, <1>3, <1>4, <1>5, <1>6, <1>7, <1>8, <1>9, <1>10, <1>11, <1>12, <1>13, <1>14,
     <1>15, <1>16, <1>17, <1>18, <1>19, <1>20, <1>21, <1>22, <1>23, <1>24, <1>25, Zenon DEF Step

(* acquire, recovery, publish and release implement the one-owner          *)
(* specification, for any number of starters and crashes.                  *)
THEOREM LockImplementsOneOwner == Undisturbed /\ Spec => ImplementsOneOwner
<1> SUFFICES ASSUME Undisturbed PROVE Spec => ImplementsOneOwner OBVIOUS
<1>1. Init => Promise!Init BY Zenon DEF Init, Promise!Init, Owner
<1> QED BY OwnInit, OwnStep, <1>1, PromiseStep, PTL DEF Spec, ImplementsOneOwner, Promise!Spec

-----------------------------------------------------------------------------
(* The lease of an app-owned core                                          *)

HIDE ProcAssumption

(* The lease bound is inductive with the types. *)
LeaseInv == LeaseTypeOK /\ LeaseBound

(* The lease invariant holds in the state the timer starts in. *)
LEMMA LeaseStart == LeaseInit => LeaseInv
<1> SUFFICES ASSUME LeaseInit PROVE LeaseInv
  OBVIOUS
<1>1. /\ 0 \in 0..(Expiry + 1) /\ 0 \in 0..MaxStall /\ 0 \in 0..(Heartbeat + MaxStall)
      /\ 0 \in Int
  BY TimingAssumption
<1>2. LeaseTypeOK
  BY <1>1, Zenon DEF LeaseInit, LeaseTypeOK
<1>3. LeaseBound
  BY Zenon DEF LeaseInit, LeaseBound
<1> QED BY <1>2, <1>3 DEF LeaseInv

(* Every step of the registry, the timer, the apps and the clock keeps the *)
(* lease invariant.                                                        *)
LEMMA LeaseStep == LeaseInv /\ [LeaseNext]_leaseVars => LeaseInv'
<1> SUFFICES ASSUME LeaseInv, [LeaseNext]_leaseVars PROVE LeaseInv'
  OBVIOUS
<1> USE TimingAssumption, NoRegAssumption
<1> USE DEF LeaseInv, LeaseTypeOK, LeaseBound, registry, appSide, timer, Fresh, AgesOf,
            Serving
<1>1. ASSUME NEW a \in Apps, Register(a) PROVE LeaseInv'
  <2>1. PICK r \in Regs \ clients :
          /\ \A b \in Apps : held[b] # r
          /\ clients' = Fresh(clients, age) \cup {r}
          /\ age' = AgesOf(clients', [age EXCEPT ![r] = 0])
          /\ held' = [held EXCEPT ![a] = r]
    BY <1>1, Zenon DEF Register
  <2>2. LeaseTypeOK'
    BY <1>1, <2>1 DEF Register
  <2>3. LeaseBound'
    BY <1>1, <2>1, <2>2 DEF Register
  <2> QED BY <2>2, <2>3
<1>2. ASSUME NEW a \in Apps, HeartbeatServed(a) PROVE LeaseInv'
  <2>1. LeaseTypeOK'
    BY <1>2 DEF HeartbeatServed
  <2>2. LeaseBound'
    <3>1. CASE held[a] \in clients'
      BY <1>2, <2>1, <3>1 DEF HeartbeatServed
    <3>2. CASE held[a] \notin clients'
      BY <1>2, <2>1, <3>2 DEF HeartbeatServed
    <3> QED BY <3>1, <3>2
  <2> QED BY <2>1, <2>2
<1>3. ASSUME NEW a \in Apps, Unregister(a) PROVE LeaseInv'
  BY <1>3 DEF Unregister
<1>4. ASSUME NEW a \in Apps, AppCrash(a) PROVE LeaseInv'
  BY <1>4 DEF AppCrash
<1>5. ASSUME NEW a \in Apps, Launch(a) PROVE LeaseInv'
  BY <1>5 DEF Launch
<1>6. ASSUME NEW a \in Apps, NEW force \in BOOLEAN, Shutdown(a, force) PROVE LeaseInv'
  <2>1. LeaseTypeOK'
    BY <1>6 DEF Shutdown, AcceptShutdown
  <2>2. LeaseBound'
    BY <1>6, <2>1 DEF Shutdown, AcceptShutdown
  <2> QED BY <2>1, <2>2
<1>7. CASE Snapshot
  BY <1>7 DEF Snapshot
<1>8. CASE ShutdownTimer
  BY <1>8 DEF ShutdownTimer
<1>9. CASE LeaseCheck
  <2> DEFINE ext == ExtendLeases
  <2>1. /\ ext \in [Regs -> Int]
        /\ \A r \in clients : ext[r] <= age[r]
    BY <1>9 DEF ExtendLeases, Stalled, LeaseCheck
  <2>2. /\ clients' = Fresh(clients, ext)
        /\ age' = AgesOf(clients', ext)
        /\ stopping' \in BOOLEAN /\ everRegistered' \in BOOLEAN
        /\ stopped' \in {"no", "lease", "request"}
        /\ sinceCheck' = 0 /\ awake /\ awake' = awake
        /\ UNCHANGED <<sinceStart, asked, work, up, wants, held, beat>>
    BY <1>9, Zenon DEF LeaseCheck, AcceptShutdown
  <2> HIDE DEF ext
  <2>3. LeaseTypeOK'
    BY <2>1, <2>2
  <2>4. LeaseBound'
    BY <2>1, <2>2, <2>3
  <2> QED BY <2>3, <2>4
<1>10. CASE Tick
  <2>1. LeaseTypeOK'
    BY <1>10 DEF Tick
  <2>2. ASSUME NEW a \in Apps, held'[a] # NoReg
        PROVE /\ up'[a] /\ wants'[a]
              /\ held'[a] \in clients' => age'[held'[a]] <= beat'[a]
              /\ beat'[a] <= Heartbeat + sinceCheck' \/ (awake' /\ sinceCheck' = 0)
    <3>1. /\ held[a] # NoReg /\ wants[a] /\ up[a] /\ held' = held
          /\ held[a] \in clients => age[held[a]] <= beat[a]
      BY <1>10, <2>2 DEF Tick
    <3>2. beat[a] <= Heartbeat + sinceCheck
      BY <1>10, <3>1 DEF Tick, Overdue
    <3>3. beat'[a] = beat[a] + 1 /\ sinceCheck' = sinceCheck + 1
      BY <1>10, <3>1, <3>2 DEF Tick
    <3> QED BY <1>10, <3>1, <3>2, <3>3 DEF Tick
  <2> QED BY <2>1, <2>2
<1>11. CASE Sleep
  <2>1. LeaseTypeOK'
    BY <1>11, Zenon DEF Sleep
  <2>2. ASSUME NEW a \in Apps, held[a] # NoReg PROVE beat[a] <= Heartbeat + sinceCheck
    BY <1>11, <2>2 DEF Sleep, Overdue
  <2>3. LeaseBound'
    BY <1>11, <2>2 DEF Sleep
  <2> QED BY <2>1, <2>3
<1>12. CASE Wake
  BY <1>12 DEF Wake
<1>13. CASE WorkStart
  BY <1>13 DEF WorkStart
<1>14. CASE WorkEnd
  BY <1>14, Zenon DEF WorkEnd
<1>15. CASE UNCHANGED leaseVars
  BY <1>15 DEF leaseVars
<1> QED
  BY <1>1, <1>2, <1>3, <1>4, <1>5, <1>6, <1>7, <1>8, <1>9, <1>10, <1>11,
     <1>12, <1>13, <1>14, <1>15, Zenon DEF LeaseNext

(* For every number of apps and every timing in which a lease outlives a   *)
(* heartbeat and a check, every reachable state keeps the lease bound.     *)
THEOREM LeaseBoundAlways == LeaseSpec => []LeaseBound
<1>1. LeaseInv => LeaseBound
  BY DEF LeaseInv
<1> QED BY <1>1, LeaseStart, LeaseStep, PTL DEF LeaseSpec

(* The registry, the timer and the apps keep their types: ages, and the    *)
(* time since an app's last contact, stay bounded by the lease and by a    *)
(* heartbeat plus the longest stall.                                       *)
THEOREM LeaseTypeCorrect == LeaseSpec => []LeaseTypeOK
<1>1. LeaseInv => LeaseTypeOK
  BY DEF LeaseInv
<1> QED BY <1>1, LeaseStart, LeaseStep, PTL DEF LeaseSpec

(* A check of the lease timer never expires the registration of an app     *)
(* that is up and beating, whatever stall preceded it (app-lease.ts:10).   *)
THEOREM CheckSparesBeating == LeaseSpec => CheckSparesBeatingClient
<1>1. LeaseInv /\ [LeaseNext]_leaseVars =>
        [LeaseCheck => \A a \in Apps :
           up[a] /\ held[a] \in clients => held[a] \in clients']_leaseVars
  <2> SUFFICES ASSUME LeaseInv, LeaseCheck,
                      NEW a \in Apps, up[a], held[a] \in clients
               PROVE held[a] \in clients'
    OBVIOUS
  <2>1. held[a] # NoReg /\ held[a] \in Regs
    BY NoRegAssumption DEF LeaseInv, LeaseTypeOK
  <2>2. /\ sinceCheck \in Int /\ beat[a] \in Int /\ age[held[a]] \in Int
        /\ age[held[a]] <= beat[a] /\ beat[a] <= Heartbeat + sinceCheck
    BY <2>1, TimingAssumption DEF LeaseInv, LeaseTypeOK, LeaseBound, LeaseCheck, CheckDue
  <2>3. age[held[a]] - Stalled <= Expiry
    BY <2>2, TimingAssumption DEF Stalled, LeaseCheck, CheckDue
  <2>4. held[a] \in Fresh(clients, ExtendLeases)
    BY <2>1, <2>3 DEF Fresh, ExtendLeases
  <2>5. clients' = Fresh(clients, ExtendLeases)
    BY DEF LeaseCheck, AcceptShutdown
  <2> QED BY <2>4, <2>5
<1> QED BY <1>1, LeaseStart, LeaseStep, PTL DEF LeaseSpec, CheckSparesBeatingClient
=============================================================================
