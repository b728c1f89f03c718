---------------------------- MODULE InstanceLock ----------------------------
(***************************************************************************)
(* One core owner per data folder: src/src/lock/instance-lock.ts.          *)
(* Processes open the lock file exclusively, write their record into it,   *)
(* and recover a lock whose owner is gone, serialised by claim files and   *)
(* a mutex file.  A process may crash between any two file operations.     *)
(*                                                                         *)
(* A file path holds the process that created the file there (its inode);  *)
(* a write goes to the inode the writer has open, wherever the path leads. *)
(* Each process takes part once: a restarted core is another process.      *)
(***************************************************************************)
EXTENDS Integers

CONSTANTS
  Procs,  \* SUBSET Int: processes; their claim names sort like the numbers
  Slow,   \* processes that may stall past CORRUPT_LOCK_GRACE_MS mid-write
  Exits,  \* processes that may exit once they are done
  Crashed, \* an earlier core that died holding the lock, or None
  Fails,  \* processes whose publish may fail after the truncate
  None

ASSUME ProcAssumption ==
  /\ Procs \subseteq Int /\ None \notin Procs /\ Crashed \in Procs \cup {None}
  /\ Slow \subseteq Procs /\ Exits \subseteq Procs /\ Fails \subseteq Procs

VARIABLES
  pc,      \* the next file operation of each process
  alive,   \* [Procs -> BOOLEAN]
  lock,    \* whose file is at instance.lock, or None
  filled,  \* [Procs -> BOOLEAN] its lock file holds a whole record
  rec,     \* [Procs -> Procs \cup {None}] the owner in the record last read
  claims,  \* processes whose recover- claim file exists
  seen,    \* [Procs -> SUBSET Procs] peers of the last readdir
  scan,    \* [Procs -> 0..1] the scan of tryRecoverStale
  mutex,   \* whose file is at instance.lock.takeover, or None
  mfilled, \* [Procs -> BOOLEAN] its mutex file holds its pid
  result   \* [Procs -> STRING] what tryRecoverStale will answer

vars == <<pc, alive, lock, filled, rec, claims, seen, scan, mutex, mfilled, result>>
files == <<lock, filled, claims, mutex, mfilled>>

Pcs == {"start", "write", "own", "publish", "ready", "release", "unlink", "inspect", "verify",
        "claim", "readdir", "peers", "mutex", "mstale", "mwrite", "recheck", "reverify", "rmlock",
        "mclose", "unclaim", "done"}

(* Every variable has its type: the files of the data folder and where     *)
(* each starter is in acquire.                                             *)
TypeOK ==
  /\ pc \in [Procs -> Pcs] /\ alive \in [Procs -> BOOLEAN]
  /\ lock \in Procs \cup {None} /\ filled \in [Procs -> BOOLEAN]
  /\ rec \in [Procs -> Procs \cup {None}]
  /\ claims \subseteq Procs /\ seen \in [Procs -> SUBSET Procs] /\ scan \in [Procs -> 0..1]
  /\ mutex \in Procs \cup {None} /\ mfilled \in [Procs -> BOOLEAN]
  /\ result \in [Procs -> {"retry", "owned"}]

Init ==
  /\ pc = [p \in Procs |-> IF p = Crashed THEN "ready" ELSE "start"]
  /\ alive = [p \in Procs |-> p # Crashed]
  /\ lock = Crashed /\ filled = [p \in Procs |-> p = Crashed] /\ rec = [p \in Procs |-> None]
  /\ claims = {} /\ seen = [p \in Procs |-> {}] /\ scan = [p \in Procs |-> 0]
  /\ mutex = None /\ mfilled = [p \in Procs |-> FALSE]
  /\ result = [p \in Procs |-> "retry"]

At(p, label) == alive[p] /\ pc[p] = label
Goto(p, label) == pc' = [pc EXCEPT ![p] = label]

-----------------------------------------------------------------------------
(* readLockRecord re-reads a torn record for the grace period: it answers  *)
(* "corrupt" only when nobody completes the record within it.              *)
Completing(q) == alive[q] /\ pc[q] \in {"write", "publish"} /\ q \notin Slow
Readable == lock # None => filled[lock] \/ ~Completing(lock)
Corrupt == lock # None /\ ~filled[lock]

(* Mutant: the lock is opened without the exclusive flag. *)
OpenShared(p) ==
  /\ At(p, "start")
  /\ lock' = p /\ filled' = [filled EXCEPT ![p] = FALSE] /\ Goto(p, "write")
  /\ UNCHANGED <<alive, rec, claims, seen, scan, mutex, mfilled, result>>

(* open(path, 'wx') *)
Open(p) ==
  /\ At(p, "start")
  /\ IF lock = None
       THEN lock' = p /\ filled' = [filled EXCEPT ![p] = FALSE] /\ Goto(p, "write")
       ELSE Goto(p, "inspect") /\ UNCHANGED <<lock, filled>>
  /\ UNCHANGED <<alive, rec, claims, seen, scan, mutex, mfilled, result>>

(* writeRecord for `starting`: the file is empty until the write. *)
Write(p) ==
  /\ At(p, "write")
  /\ filled' = [filled EXCEPT ![p] = TRUE] /\ Goto(p, "own")
  /\ UNCHANGED <<alive, lock, rec, claims, seen, scan, mutex, mfilled, result>>

(* The write failed: the lock path is removed. *)
WriteFails(p) ==
  /\ At(p, "write")
  /\ lock' = None /\ Goto(p, "done")
  /\ UNCHANGED <<alive, filled, rec, claims, seen, scan, mutex, mfilled, result>>

(* publish: truncate, then write the `ready` record. *)
Truncate(p) ==
  /\ At(p, "own")
  /\ filled' = [filled EXCEPT ![p] = FALSE] /\ Goto(p, "publish")
  /\ UNCHANGED <<alive, lock, rec, claims, seen, scan, mutex, mfilled, result>>

Publish(p) ==
  /\ At(p, "publish")
  /\ filled' = [filled EXCEPT ![p] = TRUE] /\ Goto(p, "ready")
  /\ UNCHANGED <<alive, lock, rec, claims, seen, scan, mutex, mfilled, result>>

(* The write failed after the truncate: start-up fails and releases. *)
PublishFails(p) ==
  /\ At(p, "publish") /\ p \in Fails
  /\ Goto(p, "release")
  /\ UNCHANGED <<alive, files, rec, seen, scan, result>>

(* release: another instance's record is left alone, anything else goes. *)
Release(p) ==
  /\ \/ At(p, "own") \/ At(p, "ready")
  /\ Goto(p, "release")
  /\ UNCHANGED <<alive, files, rec, seen, scan, result>>

ReleaseRead(p) ==
  /\ At(p, "release") /\ Readable
  /\ Goto(p, IF lock # None /\ filled[lock] /\ lock # p THEN "done" ELSE "unlink")
  /\ UNCHANGED <<alive, files, rec, seen, scan, result>>

Unlink(p) ==
  /\ At(p, "unlink")
  /\ lock' = None /\ Goto(p, "done")
  /\ UNCHANGED <<alive, filled, rec, claims, seen, scan, mutex, mfilled, result>>

(* acquire's inspectLock reads the record ... *)
Inspect(p) ==
  /\ At(p, "inspect") /\ Readable
  /\ rec' = [rec EXCEPT ![p] = lock]
  /\ Goto(p, IF lock = None THEN "start" ELSE IF Corrupt THEN "claim" ELSE "verify")
  /\ UNCHANGED <<alive, files, seen, scan, result>>

(* ... and then asks whether the process it names still runs. *)
Verify(p) ==
  /\ At(p, "verify")
  /\ Goto(p, IF alive[rec[p]] THEN "done" ELSE "claim")
  /\ UNCHANGED <<alive, files, rec, seen, scan, result>>

-----------------------------------------------------------------------------
(* tryRecoverStale                                                         *)

WriteClaim(p) ==
  /\ At(p, "claim")
  /\ claims' = claims \cup {p} /\ Goto(p, "readdir")
  /\ scan' = [scan EXCEPT ![p] = 0] /\ result' = [result EXCEPT ![p] = "retry"]
  /\ UNCHANGED <<alive, lock, filled, rec, seen, mutex, mfilled>>

Readdir(p) ==
  /\ At(p, "readdir")
  /\ seen' = [seen EXCEPT ![p] = claims \ {p}] /\ Goto(p, "peers")
  /\ UNCHANGED <<alive, files, rec, scan, result>>

(* Mutant: a third scan. *)
PeersThirdScan(p) ==
  /\ At(p, "peers")
  /\ seen' = [seen EXCEPT ![p] = {}]
  /\ IF seen[p] = {} THEN Goto(p, "mutex") /\ UNCHANGED scan
     ELSE IF scan[p] <= 1 THEN Goto(p, "readdir") /\ scan' = [scan EXCEPT ![p] = @ + 1]
     ELSE Goto(p, "unclaim") /\ UNCHANGED scan
  /\ UNCHANGED <<alive, files, rec, result>>

(* Mutant: the lowest name does not wait for the others to withdraw. *)
PeersNoWait(p) ==
  /\ At(p, "peers")
  /\ seen' = [seen EXCEPT ![p] = {}]
  /\ Goto(p, IF \E q \in seen[p] : alive[q] /\ q < p THEN "unclaim" ELSE "mutex")
  /\ UNCHANGED <<alive, files, rec, scan, result>>

(* Claims of dead peers go; a live one with a lower name wins; a live one  *)
(* with a higher name is waited for, for one more scan.                    *)
Peers(p) ==
  LET live == {q \in seen[p] : alive[q]} IN
  /\ At(p, "peers")
  /\ claims' = claims \ (seen[p] \ live)
  /\ seen' = [seen EXCEPT ![p] = {}]
  /\ IF \E q \in live : q < p THEN Goto(p, "unclaim") /\ UNCHANGED scan
     ELSE IF live = {} THEN Goto(p, "mutex") /\ UNCHANGED scan
     ELSE IF scan[p] = 0 THEN Goto(p, "readdir") /\ scan' = [scan EXCEPT ![p] = 1]
     ELSE Goto(p, "unclaim") /\ UNCHANGED scan
  /\ UNCHANGED <<alive, lock, filled, rec, mutex, mfilled, result>>

(* recoverUnderClaim: take the mutex, or look whether it is stale. *)
OpenMutex(p) ==
  /\ At(p, "mutex")
  /\ IF mutex = None
       THEN mutex' = p /\ mfilled' = [mfilled EXCEPT ![p] = FALSE] /\ Goto(p, "mwrite")
       ELSE UNCHANGED <<mutex, mfilled>> /\
            \/ (~alive[mutex] \/ mutex \in Slow) /\ Goto(p, "mstale")
            \/ (alive[mutex] \/ ~mfilled[mutex]) /\ Goto(p, "unclaim")
  /\ UNCHANGED <<alive, lock, filled, rec, claims, seen, scan, result>>

RemoveStaleMutex(p) ==
  /\ At(p, "mstale")
  /\ mutex' = None /\ Goto(p, "unclaim")
  /\ UNCHANGED <<alive, lock, filled, rec, claims, seen, scan, mfilled, result>>

WriteMutex(p) ==
  /\ At(p, "mwrite")
  /\ mfilled' = [mfilled EXCEPT ![p] = TRUE] /\ Goto(p, "recheck")
  /\ UNCHANGED <<alive, lock, filled, rec, claims, seen, scan, mutex, result>>

(* Mutant: the verdict from before the mutex is trusted. *)
RecheckSkipped(p) ==
  /\ At(p, "recheck") /\ Goto(p, "rmlock")
  /\ UNCHANGED <<alive, files, rec, seen, scan, result>>

(* inspectLock again, under the mutex: the same two steps. *)
Recheck(p) ==
  /\ At(p, "recheck") /\ Readable
  /\ rec' = [rec EXCEPT ![p] = lock]
  /\ Goto(p, IF lock = None THEN "mclose" ELSE IF Corrupt THEN "rmlock" ELSE "reverify")
  /\ UNCHANGED <<alive, files, seen, scan, result>>

Reverify(p) ==
  /\ At(p, "reverify")
  /\ IF alive[rec[p]]
       THEN result' = [result EXCEPT ![p] = "owned"] /\ Goto(p, "mclose")
       ELSE Goto(p, "rmlock") /\ UNCHANGED result
  /\ UNCHANGED <<alive, files, rec, seen, scan>>

RemoveLock(p) ==
  /\ At(p, "rmlock")
  /\ lock' = None /\ Goto(p, "mclose")
  /\ UNCHANGED <<alive, filled, rec, claims, seen, scan, mutex, mfilled, result>>

CloseMutex(p) ==
  /\ At(p, "mclose")
  /\ mutex' = None /\ Goto(p, "unclaim")
  /\ UNCHANGED <<alive, lock, filled, rec, claims, seen, scan, mfilled, result>>

Unclaim(p) ==
  /\ At(p, "unclaim")
  /\ claims' = claims \ {p}
  /\ Goto(p, IF result[p] = "owned" THEN "done" ELSE "start")
  /\ UNCHANGED <<alive, lock, filled, rec, seen, scan, mutex, mfilled, result>>

(* TAKEOVER_ATTEMPTS are used up. *)
GiveUp(p) ==
  /\ At(p, "start")
  /\ Goto(p, "done")
  /\ UNCHANGED <<alive, files, rec, seen, scan, result>>

Crash(p) ==
  /\ alive[p] /\ pc[p] # "done"
  /\ alive' = [alive EXCEPT ![p] = FALSE]
  /\ UNCHANGED <<pc, files, rec, seen, scan, result>>

Exit(p) ==
  /\ alive[p] /\ pc[p] = "done" /\ p \in Exits
  /\ alive' = [alive EXCEPT ![p] = FALSE]
  /\ UNCHANGED <<pc, files, rec, seen, scan, result>>

Next == \E p \in Procs :
  \/ Open(p) \/ Write(p) \/ WriteFails(p) \/ Truncate(p) \/ Publish(p) \/ PublishFails(p)
  \/ Release(p) \/ ReleaseRead(p) \/ Unlink(p) \/ Inspect(p) \/ Verify(p)
  \/ WriteClaim(p) \/ Readdir(p) \/ Peers(p) \/ OpenMutex(p) \/ RemoveStaleMutex(p)
  \/ WriteMutex(p) \/ Recheck(p) \/ Reverify(p) \/ RemoveLock(p) \/ CloseMutex(p)
  \/ Unclaim(p) \/ GiveUp(p) \/ Crash(p) \/ Exit(p)

Spec == Init /\ [][Next]_vars

-----------------------------------------------------------------------------
Owner(p) == alive[p] /\ pc[p] \in {"own", "publish", "ready"}

(* Concurrent starters produce exactly one owner (InstanceLock.acquire):   *)
(* two live processes never both hold the lock, whoever crashed where.     *)
SingleOwner == \A p, q \in Procs : Owner(p) /\ Owner(q) => p = q

(* A live owner's lock stays at the path: no recovery, failed write or     *)
(* release of another process removes it (recoverUnderClaim, release).     *)
OwnerKeepsLock == \A p \in Procs : Owner(p) => lock = p

(* Recovery is serialised (tryRecoverStale): two live processes are never  *)
(* both between taking the takeover mutex's turn and giving up the claim.  *)
Recovering(p) == alive[p] /\ pc[p] \in {"mutex", "mstale", "mwrite", "recheck", "reverify", "rmlock", "mclose"}
OneRecovery == \A p, q \in Procs : Recovering(p) /\ Recovering(q) => p = q

(* acquire, publish and release, with every recovery path and crash behind *)
(* them, implement the one-owner specification.                            *)
Promise == INSTANCE OneOwner WITH owners <- {p \in Procs : Owner(p)}
ImplementsOneOwner == Promise!Spec
=============================================================================
