---------------------------- MODULE ManagedText ----------------------------
(***************************************************************************)
(* Loading a model into a container and stopping it again:                 *)
(* src/src/runtime/managed-text/lifecycle.ts, with the journal of the      *)
(* containers (container/execution-journal.ts), the reconcile of a         *)
(* restarted core (container/reconcile.ts, leftoverContainers of           *)
(* core/managed-engines.ts) and the hold on the WSL distribution           *)
(* (wsl/keeper.ts).                                                        *)
(*                                                                         *)
(* A load is one Entry, named by its generation: pc is where its load      *)
(* coroutine awaits, stage where its teardown does.  One step is the code  *)
(* between two awaits.  Docker is external: a call takes effect or fails   *)
(* (a call that timed out may have done either), an engine may exit by     *)
(* itself, and the watchdog in a container ends an engine that is not fed  *)
(* heartbeats.                                                             *)
(***************************************************************************)
EXTENDS Naturals, FiniteSets

CONSTANTS
  Models,
  Keys,           \* loadKeyOf: what a container was started with
  MaxLoads,       \* generations in a behaviour
  MaxCalls,       \* calls that wait for a teardown at one time
  PortAttempts,   \* timings.portAttempts
  Republish,      \* timings.republishAttempts
  MaxCores,       \* cores, one after another
  MaxVmStops,     \* times the WSL distribution stops; 0 on Linux
  None

OnWindows == MaxVmStops > 0
Gens == 1 .. MaxLoads
Tries == (0 .. Republish) \X (1 .. PortAttempts)   \* the round and the attempt that made it
Containers == Gens \X Tries

VARIABLES
  core,      \* "off", "starting" (it reconciles), "up"
  cores,     \* cores started so far
  closed,    \* shutdown() was called
  loads,     \* generations used so far
  old,       \* generations up to this one are an earlier core's
  table,     \* [Models -> Gens or None] this.entries
  entry,     \* [Gens -> Entry or None]
  calls,     \* loads and unloads that wait for a teardown
  told,      \* [Gens -> Nat] session:unloaded and session:died emitted
  served,    \* generations that were ready
  missed,    \* those whose crash was reported while their stop stayed unconfirmed
  running,   \* containers whose engine runs
  journal,   \* containers with a record on disk
  todo,      \* records the reconcile has not reached
  left,      \* records it could not resolve (leftoverContainers)
  hold,      \* the process that keeps the distribution up: "none", "alive", "dead" (not noticed)
  leases,    \* generations that hold the distribution
  vmStops    \* times it stopped

instance == <<core, cores, old, todo, left>>
keeping == <<hold, leases>>
history == <<told, served, missed>>
vars == <<instance, closed, loads, table, entry, calls, history, running, journal, keeping, vmStops>>

LoadPcs == {"previous", "prepare", "heartbeat", "launch", "create", "journal", "unmake", "start",
            "wait", "discard", "rm", "unjournal", "check", "gateway", "failing"}
Stages == {"closing", "stop", "rm", "unjournal"}

Entry == [model : Models, key : Keys,
          state : {"loading", "ready", "stopping", "stop-unconfirmed"},
          pc : LoadPcs \cup {"over"}, stage : Stages \cup {"none"}, aborted : BOOLEAN,
          attempt : 0 .. PortAttempts, republished : 0 .. Republish,
          cont : Tries \cup {None}, ticker : BOOLEAN,
          died : BOOLEAN, lost : BOOLEAN]

ASSUME ConstantsAssumption ==
  /\ MaxLoads \in Nat /\ MaxCalls \in Nat /\ MaxCores \in Nat /\ MaxVmStops \in Nat
  /\ PortAttempts \in Nat \ {0} /\ Republish \in Nat
  /\ None \notin Gens /\ None \notin Tries /\ None \notin Entry

Call == [kind : {"load", "reload", "unload"}, model : Models, key : Keys \cup {None}, on : Gens,
         first : BOOLEAN, out : {"pending", "confirmed", "unconfirmed"}]

NewEntry(m, k) ==
  [model |-> m, key |-> k, state |-> "loading", pc |-> "previous", stage |-> "none",
   aborted |-> FALSE, attempt |-> 1, republished |-> 0, cont |-> None, ticker |-> FALSE,
   died |-> FALSE, lost |-> FALSE]

(* The container an entry holds, and the try its next create would be.     *)
Held(g) == <<g, entry[g].cont>>
NextTry(g) == <<entry[g].republished, entry[g].attempt>>

In(m, state) == table[m] # None /\ entry[table[m]].state = state
Live(g) == core = "up" /\ entry[g] # None
At(g, pc) == Live(g) /\ entry[g].pc = pc
Ends(g, stage) == Live(g) /\ entry[g].stage = stage
Fed(c) == Live(c[1]) /\ entry[c[1]].ticker

-----------------------------------------------------------------------------
(* Docker: a container matters while its engine runs                       *)

(* `docker stop` confirmed: exited, or already absent.                     *)
StopConfirmed(c) == running' = running \ {c}
StopUnconfirmed(c) == running' \in {running, running \ {c}}

(* `docker rm`, without force: refused while the container runs.           *)
RemoveSucceeds(c) == c \notin running /\ UNCHANGED running
RemoveFails(c) == UNCHANGED running

(* An engine exits by itself.                                              *)
EngineExits(c) ==
  /\ c \in running /\ running' = running \ {c}
  /\ UNCHANGED <<instance, closed, loads, table, entry, calls, history, journal, keeping, vmStops>>

(* Without heartbeats the watchdog ends it within its stale limit.         *)
WatchdogEnds(c) ==
  /\ c \in running /\ ~Fed(c) /\ running' = running \ {c}
  /\ UNCHANGED <<instance, closed, loads, table, entry, calls, history, journal, keeping, vmStops>>

-----------------------------------------------------------------------------
(* The keeper of the WSL distribution                                      *)

(* acquire starts a holding process only where there is none.              *)
Acquire(g) ==
  IF ~OnWindows THEN UNCHANGED keeping
  ELSE /\ leases' = leases \cup {g}
       /\ hold' = IF hold = "none" THEN "alive" ELSE hold

(* The last lease lets the process go; a second release does nothing.      *)
Release(g) ==
  /\ leases' = leases \ {g}
  /\ hold' = IF leases = {g} THEN "none" ELSE hold

-----------------------------------------------------------------------------
(* load, unload and shutdown                                               *)

Wait(kind, m, k, first) ==
  [kind |-> kind, model |-> m, key |-> k, on |-> table[m], first |-> first, out |-> "pending"]

Begin(m, k) ==
  LET g == loads + 1 IN
  /\ loads < MaxLoads /\ loads' = g
  /\ table' = [table EXCEPT ![m] = g]
  /\ entry' = [entry EXCEPT ![g] = NewEntry(m, k)]
  /\ Acquire(g)

(* The load coroutine is over, and with it its counters.                   *)
LoadOver(e) == [e EXCEPT !.pc = "over", !.attempt = 1, !.republished = 0]

(* end: the session is withdrawn at once, its teardown follows.            *)
Ending(e, died) == [LoadOver(e) EXCEPT !.state = "stopping", !.stage = "closing", !.died = died]

(* What a load finds: nothing, a session started with another key, or one  *)
(* it joins or is refused by.  `rest` are the calls that go on waiting.    *)
Enter(m, k, rest) ==
  \/ table[m] = None /\ Begin(m, k) /\ calls' = rest
  \/ /\ In(m, "ready") /\ entry[table[m]].key # k
     /\ entry' = [entry EXCEPT ![table[m]] = Ending(@, FALSE)]
     /\ calls' = rest \cup {Wait("reload", m, k, TRUE)}
     /\ UNCHANGED <<loads, table, keeping>>
  \/ /\ table[m] # None /\ ~(In(m, "ready") /\ entry[table[m]].key # k)
     /\ calls' = rest /\ UNCHANGED <<loads, table, entry, keeping>>

Load(m, k) ==
  /\ core = "up" /\ ~closed /\ Cardinality(calls) < MaxCalls
  /\ \/ ~In(m, "stopping") /\ Enter(m, k, calls)
     \/ /\ In(m, "stopping") /\ calls' = calls \cup {Wait("load", m, k, FALSE)}
        /\ UNCHANGED <<loads, table, entry, keeping>>
  /\ UNCHANGED <<instance, closed, history, running, journal, vmStops>>

Returned(c, kind) == core = "up" /\ c \in calls /\ c.kind = kind /\ c.out # "pending"

(* A load that waited looks again, and starts nothing once shutdown began. *)
LoadReturnsUnasked(c) ==
  /\ Returned(c, "load") /\ Enter(c.model, c.key, calls \ {c})
  /\ UNCHANGED <<instance, closed, history, running, journal, vmStops>>
LoadReturns(c) ==
  /\ Returned(c, "load")
  /\ IF closed THEN calls' = calls \ {c} /\ UNCHANGED <<loads, table, entry, keeping>>
               ELSE Enter(c.model, c.key, calls \ {c})
  /\ UNCHANGED <<instance, closed, history, running, journal, vmStops>>

(* Its signal aborts: a waiting load gives up, the teardown goes on.       *)
LoadGivesUp(c) ==
  /\ core = "up" /\ c \in calls /\ c.kind = "load" /\ calls' = calls \ {c}
  /\ UNCHANGED <<instance, closed, loads, table, entry, history, running, journal, keeping, vmStops>>

(* Only the caller that began a teardown reports it, once it is confirmed. *)
ReportsAny(c) == IF c.out = "confirmed" THEN [told EXCEPT ![c.on] = @ + 1] ELSE told
Reports(c) == IF c.first /\ c.out = "confirmed" THEN [told EXCEPT ![c.on] = @ + 1] ELSE told

(* A reload after its unload: the model must still be free.                *)
ReloadReturnsUnchecked(c) ==
  /\ Returned(c, "reload") /\ calls' = calls \ {c} /\ told' = Reports(c)
  /\ IF c.out = "confirmed" /\ ~closed
     THEN Begin(c.model, c.key) ELSE UNCHANGED <<loads, table, entry, keeping>>
  /\ UNCHANGED <<instance, closed, served, missed, running, journal, vmStops>>
ReloadReturns(c) ==
  /\ Returned(c, "reload") /\ calls' = calls \ {c} /\ told' = Reports(c)
  /\ \/ /\ c.out = "confirmed" /\ ~closed /\ table[c.model] = None
        /\ Begin(c.model, c.key)
     \/ UNCHANGED <<loads, table, entry, keeping>>   \* refused, or cancelled meanwhile
  /\ UNCHANGED <<instance, closed, served, missed, running, journal, vmStops>>

UnloadReturns(c) ==
  /\ Returned(c, "unload") /\ calls' = calls \ {c} /\ told' = Reports(c)
  /\ UNCHANGED <<instance, closed, loads, table, entry, served, missed, running, journal, keeping, vmStops>>

(* unload of every model of ms: a load is cancelled, a teardown joined, a  *)
(* session (or one whose stop was not confirmed) ended.                    *)
Unloaded(g) ==
  LET e == entry[g] IN
  IF e.state = "loading" THEN [e EXCEPT !.aborted = TRUE]
  ELSE IF e.state = "stopping" THEN e
  ELSE Ending(e, FALSE)

UnloadAll(ms) ==
  LET present == {m \in ms : table[m] # None} IN
  /\ entry' = [g \in Gens |-> IF \E m \in present : table[m] = g THEN Unloaded(g) ELSE entry[g]]
  /\ calls' = calls \cup
       {Wait("unload", m, None, ~In(m, "stopping")) : m \in {x \in present : ~In(x, "loading")}}

Unload(m) ==
  /\ core = "up" /\ table[m] # None /\ Cardinality(calls) < MaxCalls /\ UnloadAll({m})
  /\ UNCHANGED <<instance, closed, loads, table, history, running, journal, keeping, vmStops>>

Shutdown ==
  /\ core = "up" /\ ~closed /\ closed' = TRUE /\ UnloadAll(Models)
  /\ UNCHANGED <<instance, loads, table, history, running, journal, keeping, vmStops>>

(* The caller of a load, or an unload while it loads, aborts its signal.   *)
Cancel(g) ==
  /\ Live(g) /\ entry[g].state = "loading" /\ entry' = [entry EXCEPT ![g].aborted = TRUE]
  /\ UNCHANGED <<instance, closed, loads, table, calls, history, running, journal, keeping, vmStops>>

-----------------------------------------------------------------------------
(* runLoad: the load coroutine                                             *)

Goes(g, pc) == entry' = [entry EXCEPT ![g].pc = pc]

(* checkAborted, and raceLoadCancel around the awaits before a container.  *)
GoesUnlessAborted(g, pc) == Goes(g, IF entry[g].aborted THEN "failing" ELSE pc)

loadFrame == <<instance, closed, loads, table, calls, keeping, vmStops>>

(* An await that touches no container throws.                              *)
Throws(g) ==
  /\ Live(g) /\ entry[g].pc \in {"previous", "prepare", "heartbeat", "launch", "wait", "check", "gateway"}
  /\ Goes(g, "failing") /\ UNCHANGED <<loadFrame, history, running, journal>>

(* stopPrevious, then beforeCreate and the directories and launch files.   *)
StopsPrevious(g) ==
  /\ At(g, "previous") /\ GoesUnlessAborted(g, "prepare")
  /\ UNCHANGED <<loadFrame, history, running, journal>>

Prepares(g) ==
  /\ At(g, "prepare")
  /\ IF entry[g].aborted THEN Goes(g, "failing")
     ELSE entry' = [entry EXCEPT ![g].pc = "heartbeat", ![g].ticker = TRUE]
  /\ UNCHANGED <<loadFrame, history, running, journal>>

FirstHeartbeat(g) ==
  /\ At(g, "heartbeat") /\ GoesUnlessAborted(g, "launch")
  /\ UNCHANGED <<loadFrame, history, running, journal>>

(* createAndStart: prepareLaunch, create, journal, start.                  *)
PreparesLaunch(g) ==
  /\ At(g, "launch") /\ GoesUnlessAborted(g, "create")
  /\ UNCHANGED <<loadFrame, history, running, journal>>

Creates(g) ==
  /\ At(g, "create")
  /\ \/ entry' = [entry EXCEPT ![g].cont = NextTry(g), ![g].pc = "journal"]
     \/ Goes(g, "failing")                                     \* no id came back
  /\ UNCHANGED <<loadFrame, history, running, journal>>

JournalsNothing(g) ==
  /\ At(g, "journal") /\ GoesUnlessAborted(g, "start")
  /\ UNCHANGED <<loadFrame, history, running, journal>>
Journals(g) ==
  /\ At(g, "journal")
  /\ \/ journal' = journal \cup {Held(g)} /\ GoesUnlessAborted(g, "start")
     \/ Goes(g, "unmake") /\ UNCHANGED journal
  /\ UNCHANGED <<loadFrame, history, running>>

(* Never started and not journalled: removed now, or by hand.              *)
Unmakes(g) ==
  /\ At(g, "unmake") /\ (RemoveSucceeds(Held(g)) \/ RemoveFails(Held(g)))
  /\ entry' = [entry EXCEPT ![g].cont = None, ![g].pc = "failing"]
  /\ UNCHANGED <<loadFrame, history, journal>>

StartsContainer(g) ==
  /\ At(g, "start")
  /\ \/ running' = running \cup {Held(g)} /\ Goes(g, "wait")
     \/ running' \in {running, running \cup {Held(g)}} /\ Goes(g, "failing")
     \/ /\ UNCHANGED running                                       \* isPortBindConflict
        /\ Goes(g, IF entry[g].attempt < PortAttempts THEN "rm" ELSE "failing")
  /\ UNCHANGED <<loadFrame, history, journal>>

(* waitReady: ready, exited (or out of time: Throws), or Windows cannot    *)
(* reach what answers in the guest.                                        *)
BecomesReady(g) ==
  /\ At(g, "wait") /\ Held(g) \in running /\ Goes(g, "check")
  /\ UNCHANGED <<loadFrame, history, running, journal>>

PortTakenAgain(g) ==
  /\ At(g, "wait") /\ OnWindows /\ Held(g) \in running
  /\ entry' = [entry EXCEPT ![g].republished = @ + 1, ![g].attempt = 0, ![g].pc = "discard"]
  /\ UNCHANGED <<loadFrame, history, running, journal>>
PortTaken(g) ==
  /\ At(g, "wait") /\ OnWindows /\ Held(g) \in running
  /\ entry[g].republished < Republish
  /\ entry' = [entry EXCEPT ![g].republished = @ + 1, ![g].attempt = 0, ![g].pc = "discard"]
  /\ UNCHANGED <<loadFrame, history, running, journal>>

(* discardContainer, then another round of createAndStart.                 *)
Discards(g) ==
  /\ At(g, "discard")
  /\ \/ StopConfirmed(Held(g)) /\ Goes(g, "rm")
     \/ StopUnconfirmed(Held(g)) /\ Goes(g, "failing")
  /\ UNCHANGED <<loadFrame, history, journal>>

(* The container of a failed try is removed and its record dropped.        *)
RemovesTry(g) ==
  /\ At(g, "rm")
  /\ \/ RemoveSucceeds(Held(g)) /\ Goes(g, "unjournal")
     \/ RemoveFails(Held(g)) /\ Goes(g, "failing")
  /\ UNCHANGED <<loadFrame, history, journal>>

UnjournalsTry(g) ==
  /\ At(g, "unjournal")
  /\ \/ /\ journal' = journal \ {Held(g)}
        /\ entry' = [entry EXCEPT ![g].cont = None, ![g].attempt = @ + 1, ![g].pc = "launch"]
     \/ Goes(g, "failing") /\ UNCHANGED journal
  /\ UNCHANGED <<loadFrame, history, running>>

(* readyRefusal and generationRefusal (a refusal: Throws).                 *)
Accepted(g) ==
  /\ At(g, "check") /\ Goes(g, "gateway")
  /\ UNCHANGED <<loadFrame, history, running, journal>>

(* The gateway is up: the session is ready unless the load was cancelled.  *)
Serves(g) ==
  /\ At(g, "gateway")
  /\ IF entry[g].aborted
     THEN Goes(g, "failing") /\ UNCHANGED history
     ELSE /\ entry' = [entry EXCEPT ![g] = [LoadOver(@) EXCEPT !.state = "ready"]]
          /\ served' = served \cup {g} /\ UNCHANGED <<told, missed>>
  /\ UNCHANGED <<loadFrame, running, journal>>

(* failLoad reads the log's tail, then ends the entry.                     *)
FailLoad(g) ==
  /\ At(g, "failing") /\ entry' = [entry EXCEPT ![g] = Ending(@, FALSE)]
  /\ UNCHANGED <<loadFrame, history, running, journal>>

-----------------------------------------------------------------------------
(* end and teardown                                                        *)

(* An ended entry leaves the table and lets the distribution go; one whose *)
(* stop was not confirmed keeps both.  Everyone who waited learns which.   *)
Answered(g, out) ==
  {IF c.on = g /\ c.out = "pending" THEN [c EXCEPT !.out = out] ELSE c : c \in calls}

Died(g) == IF entry[g].died THEN [told EXCEPT ![g] = @ + 1] ELSE told

Gone(g) ==
  /\ entry' = [entry EXCEPT ![g] = None]
  /\ table' = [m \in Models |-> IF table[m] = g THEN None ELSE table[m]]
  /\ Release(g) /\ calls' = Answered(g, "confirmed") /\ told' = Died(g) /\ UNCHANGED missed

UnconfirmedAsGone(g) == Gone(g)
Unconfirmed(g) ==
  /\ entry' = [entry EXCEPT ![g].state = "stop-unconfirmed", ![g].stage = "none", ![g].died = FALSE]
  /\ calls' = Answered(g, "unconfirmed") /\ UNCHANGED <<table, keeping>>
  /\ told' = Died(g) /\ missed' = IF entry[g].died THEN missed \cup {g} ELSE missed

endFrame == <<instance, closed, loads, served, vmStops>>
Proceeds(g, stage) ==
  /\ entry' = [entry EXCEPT ![g].stage = stage] /\ UNCHANGED <<table, keeping, calls, told, missed>>

(* Gateway closed, heartbeat stopped.  Under a stopped distribution no     *)
(* docker call follows: the container is taken to be gone with the VM.     *)
Closes(g) ==
  /\ Ends(g, "closing")
  /\ IF entry[g].lost \/ entry[g].cont = None
     THEN Gone(g)
     ELSE /\ entry' = [entry EXCEPT ![g].ticker = FALSE, ![g].stage = "stop"]
          /\ UNCHANGED <<table, keeping, calls, told, missed>>
  /\ UNCHANGED <<endFrame, running, journal>>

Stops(g) ==
  /\ Ends(g, "stop")
  /\ \/ StopConfirmed(Held(g)) /\ Proceeds(g, "rm")
     \/ StopUnconfirmed(Held(g)) /\ Unconfirmed(g)
  /\ UNCHANGED <<endFrame, journal>>

Removes(g) ==
  /\ Ends(g, "rm")
  /\ \/ RemoveSucceeds(Held(g)) /\ Proceeds(g, "unjournal")
     \/ RemoveFails(Held(g)) /\ Gone(g)      \* the record stays for the next core
  /\ UNCHANGED <<endFrame, journal>>

Unjournals(g) ==
  /\ Ends(g, "unjournal") /\ (journal' = journal \ {Held(g)} \/ UNCHANGED journal) /\ Gone(g)
  /\ UNCHANGED <<endFrame, running>>

(* The monitor sees the container exited.                                  *)
OnCrash(g) ==
  /\ Live(g) /\ entry[g].state = "ready" /\ Held(g) \notin running
  /\ entry' = [entry EXCEPT ![g] = Ending(@, TRUE)]
  /\ UNCHANGED <<loadFrame, history, running, journal>>

-----------------------------------------------------------------------------
(* The WSL distribution stops                                              *)

VmStops ==
  /\ vmStops < MaxVmStops /\ vmStops' = vmStops + 1
  /\ running' = {}
  /\ hold' = IF hold = "alive" THEN "dead" ELSE hold
  /\ UNCHANGED <<instance, closed, loads, table, entry, calls, history, journal, leases>>

(* onDistributionStopped: the core hears that its holding process ended.   *)
Deserted(e) ==
  IF e.state = "loading" THEN [e EXCEPT !.lost = TRUE, !.aborted = TRUE]
  ELSE [Ending(e, TRUE) EXCEPT !.lost = TRUE]

OnDistributionStopped ==
  LET hit == {g \in Gens : entry[g] # None /\ entry[g].state \in {"ready", "loading"}} IN
  /\ core = "up" /\ hold = "dead" /\ hold' = "none" /\ leases' = leases \ hit
  /\ entry' = [g \in Gens |-> IF g \in hit THEN Deserted(entry[g]) ELSE entry[g]]
  /\ UNCHANGED <<instance, closed, loads, table, calls, history, running, journal, vmStops>>

-----------------------------------------------------------------------------
(* A core ends, by a crash or after its shutdown, and another one starts   *)

Exit ==
  /\ core # "off" /\ core' = "off" /\ old' = loads
  /\ table' = [m \in Models |-> None] /\ entry' = [g \in Gens |-> None]
  /\ calls' = {} /\ told' = [g \in Gens |-> 0] /\ served' = {} /\ missed' = {}
  /\ todo' = {} /\ left' = {} /\ hold' = "none" /\ leases' = {} /\ closed' = FALSE
  /\ UNCHANGED <<cores, loads, running, journal, vmStops>>

Start ==
  /\ core = "off" /\ cores < MaxCores
  /\ core' = "starting" /\ cores' = cores + 1 /\ todo' = journal
  /\ UNCHANGED <<closed, loads, old, left, table, entry, calls, history, running, journal, keeping, vmStops>>

reconcileFrame == <<core, cores, old, closed, loads, table, entry, calls, history, keeping, vmStops>>

(* One record: absent, or stopped and removed; then the record goes.       *)
Resolved(c) == running' = running \ {c} /\ journal' = journal \ {c}

(* Or some call failed, or the time ran out: container and record stay.    *)
Unresolved(c) == running' \in {running, running \ {c}} /\ UNCHANGED journal

Reconcile(c) ==
  /\ core = "starting" /\ c \in todo /\ todo' = todo \ {c}
  /\ \/ Resolved(c) /\ UNCHANGED left
     \/ Unresolved(c) /\ left' = left \cup {c}
  /\ UNCHANGED reconcileFrame

FinishStart ==
  /\ core = "starting" /\ todo = {} /\ core' = "up"
  /\ UNCHANGED <<cores, old, todo, left, closed, loads, table, entry, calls, history, running, journal,
                 keeping, vmStops>>

(* A load that needs the card evicts a leftover: the reconcile again.      *)
EvictLeftover(c) ==
  /\ core = "up" /\ c \in left
  /\ \/ Resolved(c) /\ left' = left \ {c}
     \/ Unresolved(c) /\ UNCHANGED left
  /\ UNCHANGED <<todo, reconcileFrame>>

-----------------------------------------------------------------------------
Init ==
  /\ core = "off" /\ cores = 0 /\ closed = FALSE /\ loads = 0 /\ old = 0
  /\ table = [m \in Models |-> None] /\ entry = [g \in Gens |-> None] /\ calls = {}
  /\ told = [g \in Gens |-> 0] /\ served = {} /\ missed = {}
  /\ running = {} /\ journal = {} /\ todo = {} /\ left = {}
  /\ hold = "none" /\ leases = {} /\ vmStops = 0

LoadStep(g) ==
  \/ Throws(g) \/ StopsPrevious(g) \/ Prepares(g) \/ FirstHeartbeat(g) \/ PreparesLaunch(g)
  \/ Creates(g) \/ Journals(g) \/ Unmakes(g) \/ StartsContainer(g) \/ BecomesReady(g)
  \/ PortTaken(g) \/ Discards(g) \/ RemovesTry(g) \/ UnjournalsTry(g) \/ Accepted(g)
  \/ Serves(g) \/ FailLoad(g)

EndStep(g) == Closes(g) \/ Stops(g) \/ Removes(g) \/ Unjournals(g)

CallStep == \E c \in calls : LoadReturns(c) \/ ReloadReturns(c) \/ UnloadReturns(c)

Next ==
  \/ \E m \in Models : Unload(m) \/ \E k \in Keys : Load(m, k)
  \/ \E g \in Gens : Cancel(g) \/ LoadStep(g) \/ EndStep(g) \/ OnCrash(g)
  \/ \E c \in calls : LoadGivesUp(c)
  \/ CallStep \/ Shutdown
  \/ \E c \in Containers : EngineExits(c) \/ WatchdogEnds(c) \/ Reconcile(c) \/ EvictLeftover(c)
  \/ VmStops \/ OnDistributionStopped
  \/ Exit \/ Start \/ FinishStart

Spec == Init /\ [][Next]_vars

(* Every await of a load and of a teardown ends: docker calls, probes and  *)
(* the readiness wait have deadlines, and the callers resume after them.   *)
FairSpec ==
  /\ Spec
  /\ \A g \in Gens : WF_vars(LoadStep(g)) /\ WF_vars(EndStep(g))
  /\ WF_vars(CallStep)

-----------------------------------------------------------------------------
(* Every variable has its type.                                            *)
TypeOK ==
  /\ core \in {"off", "starting", "up"} /\ cores \in 0 .. MaxCores /\ closed \in BOOLEAN
  /\ loads \in 0 .. MaxLoads /\ old \in 0 .. MaxLoads /\ vmStops \in 0 .. MaxVmStops
  /\ table \in [Models -> Gens \cup {None}]
  /\ entry \in [Gens -> Entry \cup {None}]
  /\ calls \subseteq Call /\ told \in [Gens -> Nat] /\ served \subseteq Gens /\ missed \subseteq Gens
  /\ running \subseteq Containers
  /\ journal \subseteq Containers /\ todo \subseteq Containers /\ left \subseteq Containers
  /\ hold \in {"none", "alive", "dead"} /\ leases \subseteq Gens

(* A container that runs has a record on disk, at every moment a core may  *)
(* die: createAndStart journals before it starts, and a record goes only   *)
(* after the container did.  So no engine is ever lost to the next core.   *)
JournalCoversRunning == running \subseteq journal

(* A running engine keeps its card reserved: its entry is in the table and *)
(* holds it, or it is a leftover an earlier core left, or the WSL stop     *)
(* dropped it, and then nothing feeds its watchdog.                        *)
InTable(g) == entry[g] # None /\ table[entry[g].model] = g
Reserved ==
  core = "up" =>
    \A c \in running :
      \/ InTable(c[1]) /\ entry[c[1]].cont = c[2]
      \/ c \in left
      \/ vmStops > 0 /\ entry[c[1]] = None

(* A model that is loaded or being stopped is never replaced in the table: *)
(* its entry goes first (load's checks after each of its awaits).          *)
NoOverwrite ==
  [][\A m \in Models : table[m] # None /\ core' # "off" => table'[m] \in {None, table[m]}]_vars

(* A session that served is reported ended exactly once, however its       *)
(* unload, reload, crash and WSL stop overlapped, once nobody waits for    *)
(* its teardown; a crash whose stop was not confirmed is reported again by *)
(* the unload that confirms it.                                            *)
AnnouncedOnce ==
  \A g \in served :
    entry[g] = None /\ (\A c \in calls : c.on # g) =>
      told[g] = IF g \in missed THEN 2 ELSE 1

(* After shutdown every load and session ends, or its stop is unconfirmed. *)
Drained == \A g \in Gens : entry[g] # None => entry[g].state = "stop-unconfirmed"
ShutdownDrains == closed ~> (Drained \/ core # "up")
====
