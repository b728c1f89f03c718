--------------------------- MODULE ProcessJournal ---------------------------
(***************************************************************************)
(* The journal of backend processes and the reaper that reads it after a   *)
(* crash: src/src/lock/process-journal.ts, src/src/core/reap-orphans.ts,   *)
(* and its use by the chat runtimes (adopt, journalSpawn, watchExit).      *)
(* Cores own the data folder one after another; pids are reused by other   *)
(* programs.  A start identity is the number of the process, 0 unreadable. *)
(***************************************************************************)
EXTENDS Integers

CONSTANTS
  Pids,
  MaxBorn,     \* bound: processes ever started
  MaxCores,    \* bound: core instances
  MaxWrites,   \* bound: journal writes of one core
  Unreadable,  \* BOOLEAN: processStartId may fail
  WritesFail,  \* BOOLEAN: a journal write may fail
  LateReuse,   \* BOOLEAN: another program may get an orphan's pid while the reaper waits on it
  None

ASSUME BoundAssumption ==
  /\ MaxBorn \in Nat /\ MaxCores \in Nat /\ MaxWrites \in Nat
  /\ {Unreadable, WritesFail, LateReuse} \subseteq BOOLEAN

VARIABLES
  core, up,                      \* the current instance and its phase
  proc, born,                    \* the process at each pid, or None
  child,                         \* what the core thinks of its child at each pid
  ticket,                        \* the write an add waits for
  mem, disk,                     \* this.records, processes.json
  asked, done, writing, broken,  \* the flush queue; once a write failed it stays rejected
  todo, term,                    \* orphans still to terminate, the one being waited for
  drop,                          \* records the reaper will forget
  lost                           \* history: children no record identified when their core died

vars == <<core, up, proc, born, child, ticket, mem, disk, asked, done, writing, broken,
          todo, term, drop, lost>>
os == <<proc, born>>
queue == <<asked, done, writing, broken>>
reaper == <<todo, term, drop, lost>>

Process == [by : 0..MaxCores, id : 1..MaxBorn]
Record == [pid : Pids, by : 1..MaxCores, id : 0..MaxBorn]
Phases == {"down", "scan", "reap", "forget", "ready"}

ASSUME NoneAssumption == None \notin Record

(* Every variable has its type: processes, the journal and its queue.      *)
TypeOK ==
  /\ core \in 0..MaxCores /\ up \in Phases /\ born \in 0..MaxBorn
  /\ proc \in [Pids -> Process \cup {None}]
  /\ child \in [Pids -> {"none", "loading", "adding", "failing", "session", "stopping"}]
  /\ ticket \in [Pids -> 0..MaxWrites]
  /\ mem \subseteq Record /\ disk \subseteq Record
  /\ asked \in 0..MaxWrites /\ done \in 0..asked /\ broken \in BOOLEAN
  /\ writing = None \/ writing \subseteq Record
  /\ todo \subseteq Record /\ drop \subseteq Record /\ (term = None \/ term \in Record)
  /\ lost \subseteq 1..MaxBorn

Init ==
  /\ core = 0 /\ up = "down" /\ born = 0 /\ proc = [p \in Pids |-> None]
  /\ child = [p \in Pids |-> "none"] /\ ticket = [p \in Pids |-> 0]
  /\ mem = {} /\ disk = {} /\ asked = 0 /\ done = 0 /\ writing = None /\ broken = FALSE
  /\ todo = {} /\ term = None /\ drop = {} /\ lost = {}

-----------------------------------------------------------------------------
(* The journal *)

Matches(r) == proc[r.pid] # None /\ r.id # 0 /\ proc[r.pid].id = r.id
WithoutPid(records, p) == {r \in records : r.pid # p}

(* flush() queues a write of whatever the records are when its turn comes. *)
Flush == asked < MaxWrites /\ asked' = asked + 1 /\ UNCHANGED <<done, writing, broken>>

WriteStart ==
  /\ up # "down" /\ ~broken /\ writing = None /\ done < asked
  /\ writing' = mem
  /\ UNCHANGED <<core, up, os, child, ticket, mem, disk, asked, done, broken, reaper>>

(* Mutant: a finished write is counted again. *)
WriteEndRepeats ==
  /\ up # "down" /\ writing # None
  /\ disk' = writing /\ done' = done + 1
  /\ UNCHANGED <<core, up, os, child, ticket, mem, asked, writing, broken, reaper>>

(* rename over processes.json *)
WriteEnd ==
  /\ up # "down" /\ writing # None
  /\ disk' = writing /\ writing' = None /\ done' = done + 1
  /\ UNCHANGED <<core, up, os, child, ticket, mem, asked, broken, reaper>>

WriteFailed ==
  /\ WritesFail /\ up # "down" /\ writing # None
  /\ writing' = None /\ broken' = TRUE
  /\ UNCHANGED <<core, up, os, child, ticket, mem, disk, asked, done, reaper>>

(* remove(pid): no write when there is no such record. *)
Remove(p) ==
  IF \E r \in mem : r.pid = p THEN mem' = WithoutPid(mem, p) /\ Flush
  ELSE UNCHANGED <<mem, queue>>

-----------------------------------------------------------------------------
(* Children of the chat runtimes *)

Spawn(p) ==
  /\ up = "ready" /\ child[p] = "none" /\ proc[p] = None /\ born < MaxBorn
  /\ born' = born + 1 /\ proc' = [proc EXCEPT ![p] = [by |-> core, id |-> born + 1]]
  /\ child' = [child EXCEPT ![p] = "loading"]
  /\ UNCHANGED <<core, up, ticket, mem, disk, queue, reaper>>

(* The child is ready: its start identity is read and journal.add called. *)
Add(p) ==
  /\ child[p] = "loading" /\ proc[p] # None
  /\ \E id \in {proc[p].id} \cup (IF Unreadable THEN {0} ELSE {}) :
       mem' = WithoutPid(mem, p) \cup {[pid |-> p, by |-> core, id |-> id]}
  /\ Flush
  /\ ticket' = [ticket EXCEPT ![p] = asked + 1]
  /\ child' = [child EXCEPT ![p] = "adding"]
  /\ UNCHANGED <<core, up, os, disk, reaper>>

(* Mutant: the session is published without waiting for its journal entry. *)
AdoptEarly(p) ==
  /\ child[p] = "adding" /\ proc[p] # None
  /\ child' = [child EXCEPT ![p] = "session"]
  /\ UNCHANGED <<core, up, os, ticket, mem, disk, queue, reaper>>

(* add resolved: the session is published and watched; a child that died   *)
(* meanwhile is noticed at once.                                           *)
Adopt(p) ==
  /\ child[p] = "adding" /\ done >= ticket[p]
  /\ IF proc[p] # None
       THEN child' = [child EXCEPT ![p] = "session"] /\ UNCHANGED <<mem, queue>>
       ELSE child' = [child EXCEPT ![p] = "none"] /\ Remove(p)
  /\ UNCHANGED <<core, up, os, ticket, disk, reaper>>

(* add rejected: the child is terminated. *)
AddRejected(p) ==
  /\ child[p] = "adding" /\ broken /\ done < ticket[p]
  /\ child' = [child EXCEPT ![p] = IF proc[p] = None THEN "none" ELSE "failing"]
  /\ UNCHANGED <<core, up, os, ticket, mem, disk, queue, reaper>>

Unload(p) ==
  /\ child[p] = "session"
  /\ child' = [child EXCEPT ![p] = "stopping"]
  /\ UNCHANGED <<core, up, os, ticket, mem, disk, queue, reaper>>

(* The exit of a child: watchExit or the end of terminate. *)
ChildExit(p) ==
  /\ up # "down" /\ child[p] # "none" /\ proc[p] # None
  /\ proc' = [proc EXCEPT ![p] = None]
  /\ CASE child[p] = "adding" -> UNCHANGED <<child, mem, queue>>
       [] child[p] \in {"session", "stopping"} -> child' = [child EXCEPT ![p] = "none"] /\ Remove(p)
       [] OTHER -> child' = [child EXCEPT ![p] = "none"] /\ UNCHANGED <<mem, queue>>
  /\ UNCHANGED <<core, up, born, ticket, disk, reaper>>

-----------------------------------------------------------------------------
(* The owner starts, reaps and dies *)

Start ==
  /\ up = "down" /\ core < MaxCores
  /\ core' = core + 1 /\ up' = "scan" /\ mem' = disk
  /\ asked' = 0 /\ done' = 0 /\ writing' = None /\ broken' = FALSE
  /\ ticket' = [p \in Pids |-> 0]
  /\ UNCHANGED <<os, child, disk, reaper>>

(* scanOrphans with no live owner: confirmed, gone, or left alone. *)
Scan ==
  /\ up = "scan"
  /\ todo' = {r \in mem : Matches(r)}
  /\ drop' = {r \in mem : Matches(r) \/ proc[r.pid] = None \/ r.id # 0}
  /\ term' = None /\ up' = "reap"
  /\ UNCHANGED <<core, os, child, ticket, mem, disk, queue, lost>>

(* Mutant: the verdict of the scan is not verified again. *)
TerminateUnverified(r) ==
  /\ up = "reap" /\ term = None /\ r \in todo
  /\ todo' = todo \ {r} /\ term' = r
  /\ UNCHANGED <<core, up, os, child, ticket, mem, disk, queue, drop, lost>>

(* terminate(record): verify again, then SIGTERM. *)
Terminate(r) ==
  /\ up = "reap" /\ term = None /\ r \in todo
  /\ todo' = todo \ {r}
  /\ term' = IF Matches(r) THEN r ELSE None
  /\ UNCHANGED <<core, up, os, child, ticket, mem, disk, queue, drop, lost>>

TermSeenGone ==
  /\ up = "reap" /\ term # None /\ proc[term.pid] = None
  /\ term' = None
  /\ UNCHANGED <<core, up, os, child, ticket, mem, disk, queue, todo, drop, lost>>

(* The five seconds are over and a process has the pid: SIGKILL. *)
TermKill ==
  /\ up = "reap" /\ term # None /\ proc[term.pid] # None
  /\ proc' = [proc EXCEPT ![term.pid] = None] /\ term' = None
  /\ UNCHANGED <<core, up, born, child, ticket, mem, disk, queue, todo, drop, lost>>

(* Mutant: start-up goes on before the orphans are stopped. *)
ForgetEarly ==
  /\ up = "reap" /\ term = None /\ up' = "forget"
  /\ IF drop = {} THEN UNCHANGED <<mem, queue>>
     ELSE mem' = {r \in mem : \A d \in drop : d.pid # r.pid} /\ Flush
  /\ UNCHANGED <<core, os, child, ticket, disk, reaper>>

(* forget(confirmed and gone) *)
Forget ==
  /\ up = "reap" /\ todo = {} /\ term = None
  /\ up' = "forget"
  /\ IF drop = {} THEN UNCHANGED <<mem, queue>>
     ELSE mem' = {r \in mem : \A d \in drop : d.pid # r.pid} /\ Flush
  /\ UNCHANGED <<core, os, child, ticket, disk, reaper>>

(* Start-up goes on once the write landed, and fails with it. *)
Ready ==
  /\ up = "forget" /\ (~broken => done = asked)
  /\ up' = IF broken THEN "down" ELSE "ready"
  /\ UNCHANGED <<core, os, child, ticket, mem, disk, queue, reaper>>

Crash ==
  /\ up # "down"
  /\ up' = "down" /\ child' = [p \in Pids |-> "none"] /\ writing' = None
  /\ todo' = {} /\ term' = None /\ drop' = {}
  /\ lost' = lost \cup {proc[p].id : p \in {q \in Pids :
       child[q] # "none" /\ proc[q] # None /\ ~\E d \in disk : d.pid = q /\ d.id = proc[q].id}}
  /\ UNCHANGED <<core, os, ticket, mem, disk, asked, done, broken>>

-----------------------------------------------------------------------------
(* Other programs, and orphans that end by themselves or on SIGTERM.       *)

OtherStart(p) ==
  /\ proc[p] = None /\ child[p] = "none" /\ born < MaxBorn
  /\ term # None => LateReuse \/ term.pid # p
  /\ born' = born + 1 /\ proc' = [proc EXCEPT ![p] = [by |-> 0, id |-> born + 1]]
  /\ UNCHANGED <<core, up, child, ticket, mem, disk, queue, reaper>>

OtherExit(p) ==
  /\ proc[p] # None /\ child[p] = "none"
  /\ proc' = [proc EXCEPT ![p] = None]
  /\ UNCHANGED <<core, up, born, child, ticket, mem, disk, queue, reaper>>

Next ==
  \/ WriteStart \/ WriteEnd \/ WriteFailed \/ Start \/ Scan \/ TermSeenGone \/ TermKill
  \/ Forget \/ Ready \/ Crash
  \/ \E r \in todo : Terminate(r)
  \/ \E p \in Pids : \/ Spawn(p) \/ Add(p) \/ Adopt(p) \/ AddRejected(p) \/ Unload(p)
                     \/ ChildExit(p) \/ OtherStart(p) \/ OtherExit(p)

Spec == Init /\ [][Next]_vars

-----------------------------------------------------------------------------
(* A published session is in processes.json (or its identity could not be  *)
(* read), whatever writes of other children are queued or failed (add is   *)
(* awaited before sessions.set): a crash at any moment leaves it findable. *)
SessionsJournalled ==
  \A p \in Pids : child[p] \in {"session", "stopping"} /\ proc[p] # None =>
    \E r \in disk : r.pid = p /\ r.by = core /\ r.id \in {0, proc[p].id}

(* reapOrphans kills the process it identified, never whoever has its pid  *)
(* by then.                                                                *)
KillsOnlyOrphans ==
  [][term # None /\ term' = None /\ up' = "reap" /\ proc'[term.pid] # proc[term.pid]
       => Matches(term)]_vars

(* A core that finished starting shares the machine with no backend that   *)
(* was in the journal with its identity when its core died (reapOrphans,   *)
(* forget), even if earlier reaps were cut short by crashes.               *)
JournalledAreReaped ==
  up = "ready" =>
    \A p \in Pids : proc[p] # None => proc[p].by \in {0, core} \/ proc[p].id \in lost

(* Nothing an earlier core spawned still runs once the next one is ready.  *)
AllReaped ==
  up = "ready" => \A p \in Pids : proc[p] # None => proc[p].by \in {0, core}
=============================================================================
