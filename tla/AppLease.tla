------------------------------ MODULE AppLease ------------------------------
(***************************************************************************)
(* The client registry of a core (src/src/server/clients.ts) and the lease *)
(* timer that retires an app-owned core once its app is gone               *)
(* (src/src/core/app-lease.ts, run by src/src/core/create.ts).             *)
(*                                                                         *)
(* Time is counted in units of the check interval's clock and kept as      *)
(* ages, never as absolute stamps: age[r] is now - last_seen, sinceCheck   *)
(* is now - lastCheckAt.  The core process may be suspended (a machine     *)
(* asleep or swapping): clocks go on, nothing it runs does.  While it runs *)
(* no timer and no waiting request is overtaken by the clock.              *)
(***************************************************************************)
EXTENDS Integers, FiniteSets

CONSTANTS Apps,       \* processes that attach: the desktop app, a CLI
          Regs,       \* registration ids; a released one may be issued again
          Check,      \* APP_LEASE_CHECK_MS
          Heartbeat,  \* CLIENT_HEARTBEAT_INTERVAL_MS
          Expiry,     \* CLIENT_EXPIRY_MS
          MaxStall,   \* bound: the longest gap between two checks
          NoReg        \* "no registration"

(* The lease outlives one missed heartbeat and one check; the code uses    *)
(* 5 s, 15 s and 45 s.                                                     *)
ASSUME TimingAssumption ==
  /\ Check \in Nat /\ Heartbeat \in Nat /\ Expiry \in Nat /\ MaxStall \in Nat
  /\ 0 < Check /\ 0 < Heartbeat
  /\ Heartbeat + Check <= Expiry
  /\ Check <= MaxStall

ASSUME NoRegAssumption == NoReg \notin Regs

VARIABLES
  clients,        \* ids in ClientRegistry.clients
  age,            \* now - last_seen of each id; 0 for an id that is not there
  stopping,       \* ClientRegistry.stopping: admission is closed
  everRegistered, \* appEverRegistered of the lease timer
  sinceStart,     \* now - start of the timer, saturating past the deadline
  sinceCheck,     \* now - lastCheckAt
  stopped,        \* who stopped the core: "no", "lease" or "request"
  asked,          \* /shutdown was accepted, its 10 ms timer is pending
  work,           \* workInProgress(...) is not empty
  awake,          \* the core process is being run
  up,             \* [Apps -> BOOLEAN] the app process is alive
  wants,          \* [Apps -> BOOLEAN] the app attached and has not detached
  held,           \* [Apps -> Regs \cup {NoReg}] the id the app believes it has
  beat            \* [Apps -> Nat] time since the app's last contact was served

leaseVars == <<clients, age, stopping, everRegistered, sinceStart, sinceCheck,
          stopped, asked, work, awake, up, wants, held, beat>>
registry == <<clients, age, stopping>>
appSide  == <<up, wants, held, beat>>
timer    == <<everRegistered, sinceStart, sinceCheck>>

(* Every variable has its type: the registry, the lease timer, the apps.   *)
LeaseTypeOK ==
  /\ clients \subseteq Regs
  /\ age \in [Regs -> Int]
  /\ stopping \in BOOLEAN /\ everRegistered \in BOOLEAN
  /\ sinceStart \in 0..(Expiry + 1)
  /\ sinceCheck \in 0..MaxStall
  /\ stopped \in {"no", "lease", "request"}
  /\ asked \in BOOLEAN /\ work \in BOOLEAN /\ awake \in BOOLEAN
  /\ up \in [Apps -> BOOLEAN]
  /\ wants \in [Apps -> BOOLEAN]
  /\ held \in [Apps -> Regs \cup {NoReg}]
  /\ beat \in [Apps -> 0..(Heartbeat + MaxStall)]

LeaseInit ==
  /\ clients = {} /\ age = [r \in Regs |-> 0]
  /\ stopping = FALSE /\ everRegistered = FALSE
  /\ sinceStart = 0 /\ sinceCheck = 0
  /\ stopped = "no" /\ asked = FALSE /\ work = FALSE /\ awake = TRUE
  /\ up = [a \in Apps |-> TRUE]
  /\ wants = [a \in Apps |-> FALSE]
  /\ held = [a \in Apps |-> NoReg]
  /\ beat = [a \in Apps |-> 0]

-----------------------------------------------------------------------------
(* ClientRegistry.                                                         *)

(* sweep: last_seen < now - expiryMs goes. *)
Fresh(ids, ages) == {r \in ids : ages[r] <= Expiry}

AgesOf(ids, ages) == [r \in Regs |-> IF r \in ids THEN ages[r] ELSE 0]

(* The registry answers only while the control listener is up. *)
Serving == awake /\ stopped = "no"

(* register: POST /clients answers 201 with a new id, and its snapshot     *)
(* lists (and so sweeps) the clients.                                      *)
Register(a) ==
  /\ Serving /\ ~stopping
  /\ up[a] /\ held[a] = NoReg
  /\ \E r \in Regs \ clients :
       /\ \A b \in Apps : held[b] # r
       /\ clients' = Fresh(clients, age) \cup {r}
       /\ age' = AgesOf(clients', [age EXCEPT ![r] = 0])
       /\ held' = [held EXCEPT ![a] = r]
  /\ wants' = [wants EXCEPT ![a] = TRUE]
  /\ beat' = [beat EXCEPT ![a] = 0]
  /\ UNCHANGED <<stopping, timer, stopped, asked, work, awake, up>>

(* Mutant: the heartbeat answers without refreshing last_seen. *)
HeartbeatUnrefreshed(a) ==
  /\ Serving /\ up[a] /\ held[a] # NoReg
  /\ clients' = Fresh(clients, age) /\ age' = AgesOf(clients', age)
  /\ held' = [held EXCEPT ![a] = IF @ \in clients' THEN @ ELSE NoReg]
  /\ beat' = [beat EXCEPT ![a] = 0]
  /\ UNCHANGED <<stopping, timer, stopped, asked, work, awake, up, wants>>

(* heartbeat: sweep first, then refresh; an id that is gone answers 410    *)
(* and the client has to register again.                                   *)
HeartbeatServed(a) ==
  /\ Serving /\ up[a] /\ held[a] # NoReg
  /\ clients' = Fresh(clients, age)
  /\ IF held[a] \in clients'
       THEN age' = AgesOf(clients', [age EXCEPT ![held[a]] = 0]) /\ UNCHANGED held
       ELSE held' = [held EXCEPT ![a] = NoReg] /\ age' = AgesOf(clients', age)
  /\ beat' = [beat EXCEPT ![a] = 0]
  /\ UNCHANGED <<stopping, timer, stopped, asked, work, awake, up, wants>>

(* unregister: DELETE /clients/:id, no sweep. *)
Unregister(a) ==
  /\ Serving /\ up[a] /\ held[a] # NoReg
  /\ clients' = clients \ {held[a]}
  /\ age' = AgesOf(clients', age)
  /\ held' = [held EXCEPT ![a] = NoReg]
  /\ wants' = [wants EXCEPT ![a] = FALSE]
  /\ UNCHANGED <<stopping, timer, stopped, asked, work, awake, up, beat>>

(* list: every snapshot sweeps. *)
Snapshot ==
  /\ Serving
  /\ clients' = Fresh(clients, age)
  /\ age' = AgesOf(clients', age)
  /\ UNCHANGED <<stopping, timer, stopped, asked, work, awake, appSide>>

(* acceptShutdown: the leases are read and admission closed in one step. *)
AcceptShutdown(except, force, ages) ==
  /\ clients' = Fresh(clients, ages)
  /\ age' = AgesOf(clients', ages)
  /\ stopping' = (stopping \/ force \/ clients' \ {except} = {})

(* POST /shutdown: refused while others are attached, unless forced. *)
Shutdown(a, force) ==
  /\ Serving /\ up[a]
  /\ AcceptShutdown(held[a], force, age)
  /\ asked' = (asked \/ force \/ clients' \ {held[a]} = {})
  /\ UNCHANGED <<timer, stopped, work, awake, appSide>>

(* Mutant: the timer only marks the core as stopping, a state nobody handles. *)
ShutdownTimerMarks ==
  /\ Serving /\ asked
  /\ stopped' = "stopping"
  /\ UNCHANGED <<registry, timer, asked, work, awake, appSide>>

(* The 10 ms timer of /shutdown. *)
ShutdownTimer ==
  /\ Serving /\ asked
  /\ stopped' = "request"
  /\ UNCHANGED <<registry, timer, asked, work, awake, appSide>>

-----------------------------------------------------------------------------
(* The lease timer.                                                        *)

(* Mutant: a late check counts the stall against the leases. *)
StalledIgnored == 0

(* stalledMs: the lateness of this check. *)
Stalled == IF sinceCheck > Check THEN sinceCheck - Check ELSE 0

(* extendLeases: every lease gets the stall back. *)
ExtendLeases == [r \in Regs |-> IF r \in clients THEN age[r] - Stalled ELSE 0]

(* Mutant: a core no app ever registered with waits for one for ever. *)
LeaseDecisionNoDeadline(count, ever) ==
  IF count > 0 \/ ~ever THEN "keep" ELSE IF work THEN "wait" ELSE "retire"

(* appLeaseDecision. *)
LeaseDecision(count, ever) ==
  IF count > 0 \/ (~ever /\ sinceStart <= Expiry) THEN "keep"
  ELSE IF work THEN "wait" ELSE "retire"

CheckDue == sinceCheck >= Check

(* One run of the interval's callback. *)
LeaseCheck ==
  /\ awake /\ stopped = "no" /\ CheckDue
  /\ sinceCheck' = 0
  /\ LET live == Fresh(clients, ExtendLeases)
         ever == everRegistered \/ live # {}
     IN /\ everRegistered' = ever
        /\ IF LeaseDecision(Cardinality(live), ever) = "retire"
             THEN /\ AcceptShutdown(NoReg, FALSE, ExtendLeases)
                  /\ stopped' = IF clients' = {} THEN "lease" ELSE stopped
             ELSE /\ clients' = live /\ age' = AgesOf(live, ExtendLeases)
                  /\ UNCHANGED <<stopping, stopped>>
  /\ UNCHANGED <<sinceStart, asked, work, awake, appSide>>

-----------------------------------------------------------------------------
(* The world around it.                                                    *)

Overdue(a) == up[a] /\ held[a] # NoReg /\ beat[a] >= Heartbeat

(* Clocks advance.  While the core runs, its due timer and the heartbeats  *)
(* waiting in its socket are served first.                                 *)
Tick ==
  /\ stopped = "no"
  /\ awake => ~CheckDue /\ \A a \in Apps : ~Overdue(a)
  /\ sinceCheck < MaxStall
  /\ sinceCheck' = sinceCheck + 1
  /\ sinceStart' = IF sinceStart <= Expiry THEN sinceStart + 1 ELSE sinceStart
  /\ age' = [r \in Regs |-> IF r \in clients THEN age[r] + 1 ELSE 0]
  /\ beat' = [a \in Apps |-> IF wants[a] /\ beat[a] < Heartbeat + MaxStall
                                 THEN beat[a] + 1 ELSE beat[a]]
  /\ UNCHANGED <<clients, stopping, everRegistered, stopped, asked, work, awake,
                 up, wants, held>>

(* The core process is suspended; what is due has been served before. *)
Sleep ==
  /\ stopped = "no" /\ awake /\ ~CheckDue /\ \A a \in Apps : ~Overdue(a)
  /\ awake' = FALSE
  /\ UNCHANGED <<registry, timer, stopped, asked, work, appSide>>

Wake ==
  /\ ~awake /\ awake' = TRUE
  /\ UNCHANGED <<registry, timer, stopped, asked, work, appSide>>

(* An app dies without detaching, or starts (again). *)
AppCrash(a) ==
  /\ up[a]
  /\ up' = [up EXCEPT ![a] = FALSE]
  /\ wants' = [wants EXCEPT ![a] = FALSE]
  /\ held' = [held EXCEPT ![a] = NoReg]
  /\ beat' = [beat EXCEPT ![a] = 0]
  /\ UNCHANGED <<registry, timer, stopped, asked, work, awake>>

Launch(a) ==
  /\ ~up[a]
  /\ up' = [up EXCEPT ![a] = TRUE]
  /\ UNCHANGED <<registry, timer, stopped, asked, work, awake, wants, held, beat>>

(* An image job or a model load starts, or ends. *)
WorkStart ==
  /\ Serving /\ ~work /\ work' = TRUE
  /\ UNCHANGED <<registry, timer, stopped, asked, awake, appSide>>

WorkEnd ==
  /\ Serving /\ work /\ work' = FALSE
  /\ UNCHANGED <<registry, timer, stopped, asked, awake, appSide>>

LeaseNext ==
  \/ \E a \in Apps : \/ Register(a) \/ HeartbeatServed(a) \/ Unregister(a)
                     \/ AppCrash(a) \/ Launch(a)
                     \/ \E force \in BOOLEAN : Shutdown(a, force)
  \/ Snapshot \/ ShutdownTimer \/ LeaseCheck
  \/ Tick \/ Sleep \/ Wake \/ WorkStart \/ WorkEnd

(* A running core serves its timers and its socket, and a suspended one is *)
(* resumed; attaching, working and stopping are the users' choice.         *)
Fairness ==
  /\ WF_leaseVars(LeaseCheck) /\ WF_leaseVars(Tick) /\ WF_leaseVars(Wake)
  /\ WF_leaseVars(ShutdownTimer)
  /\ \A a \in Apps : WF_leaseVars(Overdue(a) /\ HeartbeatServed(a))

LeaseSpec == LeaseInit /\ [][LeaseNext]_leaseVars
FairLeaseSpec == LeaseSpec /\ Fairness

-----------------------------------------------------------------------------
(* Properties.                                                             *)

(* The check (create.ts:1340) never expires the registration of an app     *)
(* that is up and sends its heartbeats, however long the core itself was   *)
(* suspended before the check: the stall is handed back to every lease.    *)
CheckSparesBeatingClient ==
  [][LeaseCheck => \A a \in Apps :
       up[a] /\ held[a] \in clients => held[a] \in clients']_leaseVars

(* What the spared lease rests on: the registry never thinks a held        *)
(* registration older than the app's last served contact, and that contact *)
(* is at most a heartbeat and the gap since the last check away - or the   *)
(* check has just run and the waiting heartbeat is served next.            *)
LeaseBound ==
  \A a \in Apps : held[a] # NoReg =>
    /\ up[a] /\ wants[a]
    /\ held[a] \in clients => age[held[a]] <= beat[a]
    /\ beat[a] <= Heartbeat + sinceCheck \/ (awake /\ sinceCheck = 0)

(* An app that really crashed still loses its core (app-lease.ts:11): once *)
(* nobody is up and the work is over, the core stops, through whatever     *)
(* registrations were left behind and whatever stalls happened.            *)
AbandonedCoreStops ==
  <>[](~work /\ \A a \in Apps : ~up[a]) => <>(stopped # "no")

(* A core does not retire for time it was not running: the lease timer     *)
(* never stops the core under an app that attached, is still up, and was   *)
(* heard from within one heartbeat interval.                               *)
NoRetireUnderLiveApp ==
  [][LeaseCheck /\ stopped' = "lease" =>
       \A a \in Apps : wants[a] => beat[a] > Heartbeat]_leaseVars
=============================================================================
