----------------------- MODULE ManagedTextStepProofs -----------------------
(***************************************************************************)
(* The inductive invariant of ManagedText, and the steps an entry takes by *)
(* itself: the load coroutine (runLoad) and its teardown (end).            *)
(***************************************************************************)
EXTENDS ManagedText, TLAPS

-----------------------------------------------------------------------------
(* The inductive invariant                                                 *)

Types ==
  /\ core \in {"off", "starting", "up"} /\ loads \in 0 .. MaxLoads /\ old \in 0 .. loads
  /\ vmStops \in Nat
  /\ table \in [Models -> Gens \cup {None}]
  /\ entry \in [Gens -> Entry \cup {None}]
  /\ running \subseteq Containers /\ journal \subseteq Containers
  /\ todo \subseteq Containers /\ left \subseteq Containers

CallsOK == calls \subseteq Call /\ \A c \in calls : c.kind \in {"load", "reload"} => c.key \in Keys

(* Where the load or the teardown of an entry is says what it holds: no    *)
(* container before create, a recorded one when it is about to start it,   *)
(* and one that does not run when its id or its record may be dropped.     *)
Bare == {"previous", "prepare", "heartbeat", "launch", "create"}
Holding == {"journal", "unmake", "start", "wait", "discard", "rm", "unjournal"}
Quiet == {"journal", "unmake", "start", "rm", "unjournal"}

Good(e, g, run, jrn, stops) ==
  /\ e.pc \in Bare => e.cont = None /\ e.attempt >= 1
  /\ e.pc \in Holding => e.cont # None
  /\ e.pc \in Quiet => <<g, e.cont>> \notin run
  /\ e.pc = "start" => <<g, e.cont>> \in jrn
  /\ e.pc \in {"discard", "rm", "unjournal"} => e.attempt < PortAttempts
  /\ e.pc # "over" => e.stage = "none"
  /\ e.stage \in {"stop", "rm", "unjournal"} => e.cont # None
  /\ e.stage \in {"rm", "unjournal"} => <<g, e.cont>> \notin run
  /\ e.lost => stops > 0

EntryOK(g) ==
  entry[g] # None =>
    /\ core = "up" /\ old < g /\ g <= loads /\ table[entry[g].model] = g
    /\ Good(entry[g], g, running, journal, vmStops)

TableOK == \A m \in Models : table[m] # None => entry[table[m]] # None /\ entry[table[m]].model = m

(* What a running engine still has: a record, and the entry that made it,  *)
(* a place among the leftovers, or a stop of the distribution behind it.   *)
RunsOK ==
  /\ running \subseteq journal
  /\ \A c \in running :
       /\ entry[c[1]] # None => entry[c[1]].cont = c[2]
       /\ core = "up" => entry[c[1]] # None \/ c \in left \/ vmStops > 0
       /\ core = "starting" => c \in todo \/ c \in left

InstanceOK ==
  /\ core # "up" => old = loads
  /\ core = "up" => todo = {}
  /\ \A c \in journal : c[1] <= loads
  /\ \A c \in todo \cup left : c[1] <= old
  /\ hold = "dead" => vmStops > 0

IInv == Types /\ CallsOK /\ (\A g \in Gens : EntryOK(g)) /\ TableOK /\ RunsOK /\ InstanceOK

-----------------------------------------------------------------------------
(* Steps of existing entries                                               *)

(* What holds of entries that change in place, whatever changed them.      *)
LEMMA EntriesStep ==
  ASSUME IInv, core = "up",
         UNCHANGED <<core, old, loads, table, todo, left, vmStops>>, hold' = "dead" => vmStops > 0,
         CallsOK', entry' \in [Gens -> Entry \cup {None}],
         \A h \in Gens : entry'[h] # None <=> entry[h] # None,
         \A h \in Gens : entry[h] # None =>
           entry'[h].model = entry[h].model /\ Good(entry'[h], h, running', journal', vmStops),
         running' \subseteq journal', journal' \subseteq Containers,
         \A c \in journal' : c[1] <= loads,
         \A c \in running' : entry'[c[1]] # None => entry'[c[1]].cont = c[2],
         \A c \in running' : c \in running \/ entry[c[1]] # None
  PROVE  IInv'
<1> USE DEF Types, Containers
<1>1. Types'
  BY DEF IInv
<1>2. \A g \in Gens : EntryOK(g)'
  BY <1>1, Zenon DEF IInv, EntryOK
<1>3. TableOK'
  BY DEF IInv, TableOK
<1>4. RunsOK'
  BY DEF IInv, RunsOK
<1>5. InstanceOK'
  BY DEF IInv, InstanceOK
<1>6. QED
  BY <1>1, <1>2, <1>3, <1>4, <1>5 DEF IInv

(* What a step of one entry leaves alone.                                  *)
Still == UNCHANGED <<core, old, loads, table, todo, left, vmStops, hold>>

LEMMA SameCalls == ASSUME IInv, UNCHANGED calls PROVE CallsOK'
  BY DEF IInv, CallsOK

(* One entry changes, and docker and the journal only about its container. *)
LEMMA EntryStep ==
  ASSUME IInv, NEW g \in Gens, Live(g), NEW e \in Entry, Still, CallsOK',
         e.model = entry[g].model, entry' = [entry EXCEPT ![g] = e],
         Good(e, g, running', journal', vmStops),
         running' \subseteq running \cup {<<g, e.cont>>},
         \A c \in running' : c[1] = g => e.cont = c[2],
         running' \subseteq journal', journal' \subseteq Containers,
         \A c \in journal' : c \in journal \/ c[1] = g,
         \A c \in journal : c[1] # g => c \in journal'
  PROVE  IInv'
<1> USE DEF Live
<1>2. entry' \in [Gens -> Entry \cup {None}]
  BY DEF IInv, Types
<1>3. \A h \in Gens : entry'[h] # None <=> entry[h] # None
  BY ConstantsAssumption DEF IInv, Types
<1>4. ASSUME NEW h \in Gens, entry[h] # None, h # g
      PROVE  entry'[h].model = entry[h].model /\ Good(entry'[h], h, running', journal', vmStops)
  <2>1. entry'[h] = entry[h]
    BY <1>4 DEF IInv, Types
  <2>2. Good(entry[h], h, running, journal, vmStops)
    BY <1>4 DEF IInv, EntryOK
  <2>3. <<h, entry[h].cont>> \notin running => <<h, entry[h].cont>> \notin running'
    BY <1>4
  <2>4. <<h, entry[h].cont>> \in journal => <<h, entry[h].cont>> \in journal'
    BY <1>4
  <2>5. QED
    BY <2>1, <2>2, <2>3, <2>4 DEF Good
<1>5. \A c \in journal' : c[1] <= loads
  BY DEF IInv, InstanceOK, EntryOK
<1>6. \A c \in running' : entry'[c[1]] # None => entry'[c[1]].cont = c[2]
  BY DEF IInv, RunsOK, Types, Containers
<1>7. entry'[g] = e
  BY DEF IInv, Types
<1>8. \A h \in Gens : entry[h] # None =>
        entry'[h].model = entry[h].model /\ Good(entry'[h], h, running', journal', vmStops)
  BY <1>4, <1>7
<1>9. \A c \in running' : c \in running \/ entry[c[1]] # None
  BY SMT
<1>10. UNCHANGED <<core, old, loads, table, todo, left, vmStops>> /\ (hold' = "dead" => vmStops > 0)
  BY DEF Still, IInv, InstanceOK
<1>11. QED
  BY <1>2, <1>3, <1>5, <1>6, <1>8, <1>9, <1>10, EntriesStep

(* A load step that only moves on, with what docker and the journal did.   *)
LEMMA PcStep ==
  ASSUME IInv, NEW g \in Gens, Live(g), NEW p \in LoadPcs, Goes(g, p), Still, UNCHANGED calls,
         entry[g].pc # "over",
         p \in Bare => entry[g].cont = None /\ entry[g].attempt >= 1,
         p \in Holding => entry[g].cont # None,
         p \in Quiet => Held(g) \notin running',
         p = "start" => Held(g) \in journal',
         p \in {"discard", "rm", "unjournal"} => entry[g].attempt < PortAttempts,
         running' \subseteq running \cup {Held(g)}, running' \subseteq journal',
         journal' \subseteq Containers,
         \A c \in journal' : c \in journal \/ c[1] = g,
         \A c \in journal : c[1] # g => c \in journal'
  PROVE  IInv'
<1> DEFINE e == [entry[g] EXCEPT !.pc = p]
<1>1. entry[g] \in Entry /\ Good(entry[g], g, running, journal, vmStops)
  BY DEF Live, IInv, Types, EntryOK
<1>2. e \in Entry
  BY <1>1 DEF Entry
<1>3. /\ e.pc = p /\ e.cont = entry[g].cont /\ e.attempt = entry[g].attempt /\ e.stage = entry[g].stage
      /\ e.lost = entry[g].lost /\ e.model = entry[g].model
  BY <1>1 DEF Entry
<1>4. entry' = [entry EXCEPT ![g] = e]
  BY DEF Goes
<1>5. p # "over"
  BY DEF LoadPcs
<1> HIDE DEF e
<1>6. Good(e, g, running', journal', vmStops)
  BY <1>1, <1>3, <1>5 DEF Good, Held
<1>7. \A c \in running' : c[1] = g => e.cont = c[2]
  BY <1>3 DEF IInv, RunsOK, Held, Live
<1>8. QED
  BY <1>2, <1>3, <1>4, <1>6, <1>7, EntryStep, SameCalls, Zenon DEF Held

(* The two steps every await may take: nothing but the place changes, or   *)
(* the load fails, with the container it holds perhaps running.            *)
LEMMA MoveStep ==
  ASSUME IInv, NEW g \in Gens, Live(g), NEW p \in LoadPcs, Goes(g, p), Still, UNCHANGED calls,
         entry[g].pc # "over", UNCHANGED <<running, journal>>,
         p \in Bare => entry[g].cont = None /\ entry[g].attempt >= 1,
         p \in Holding => entry[g].cont # None,
         p \in Quiet => Held(g) \notin running,
         p = "start" => Held(g) \in journal,
         p \in {"discard", "rm", "unjournal"} => entry[g].attempt < PortAttempts
  PROVE  IInv'
<1>1. /\ running' \subseteq running \cup {Held(g)} /\ running' \subseteq journal'
      /\ journal' \subseteq Containers
  BY DEF IInv, Types, RunsOK
<1>2. QED
  BY <1>1, PcStep, Zenon

LEMMA FailStep ==
  ASSUME IInv, NEW g \in Gens, Live(g), Goes(g, "failing"), Still, UNCHANGED calls,
         entry[g].pc # "over", UNCHANGED journal,
         running' \subseteq running \cup {Held(g)}, running' \subseteq journal
  PROVE  IInv'
<1> DEFINE p == "failing"
<1>1. /\ p \in LoadPcs /\ p \notin Bare /\ p \notin Holding /\ p \notin Quiet /\ p # "start"
      /\ p \notin {"discard", "rm", "unjournal"} /\ Goes(g, p)
  BY DEF LoadPcs, Bare, Holding, Quiet
<1> HIDE DEF p
<1>2. journal' \subseteq Containers /\ running' \subseteq journal'
  BY DEF IInv, Types
<1>3. QED
  BY <1>1, <1>2, PcStep, Zenon

(* An entry of the invariant, ready to use.                                *)
LEMMA EntryFacts ==
  ASSUME IInv, NEW g \in Gens, Live(g)
  PROVE  /\ entry[g] \in Entry /\ Good(entry[g], g, running, journal, vmStops)
         /\ \A c \in running : c[1] = g => c = Held(g)
         /\ running \subseteq journal /\ journal \subseteq Containers
<1>1. entry[g] \in Entry /\ Good(entry[g], g, running, journal, vmStops)
  BY DEF Live, IInv, Types, EntryOK
<1>2. \A c \in running : c[1] = g => c = Held(g)
  BY DEF Live, IInv, Types, RunsOK, Containers, Held
<1>3. QED
  BY <1>1, <1>2 DEF IInv, RunsOK, Types

LEMMA EntryGood ==
  ASSUME IInv, NEW g \in Gens, Live(g)
  PROVE  entry[g] \in Entry /\ Good(entry[g], g, running, journal, vmStops)
  BY EntryFacts, Zenon

(* A field of an entry is set: it is an entry still, and the rest stays.   *)
LEMMA SetPc ==
  ASSUME NEW e \in Entry, NEW v \in LoadPcs \cup {"over"}, NEW f, f = [e EXCEPT !.pc = v]
  PROVE  /\ f \in Entry /\ f.model = e.model /\ f.stage = e.stage /\ f.cont = e.cont
         /\ f.attempt = e.attempt /\ f.lost = e.lost /\ f.pc = v
  BY DEF Entry

LEMMA SetStage ==
  ASSUME NEW e \in Entry, NEW v \in Stages \cup {"none"}, NEW f, f = [e EXCEPT !.stage = v]
  PROVE  /\ f \in Entry /\ f.model = e.model /\ f.pc = e.pc /\ f.cont = e.cont
         /\ f.attempt = e.attempt /\ f.lost = e.lost /\ f.stage = v
  BY DEF Entry

LEMMA SetCont ==
  ASSUME NEW e \in Entry, NEW v \in Tries \cup {None}, NEW f, f = [e EXCEPT !.cont = v]
  PROVE  /\ f \in Entry /\ f.model = e.model /\ f.pc = e.pc /\ f.stage = e.stage
         /\ f.attempt = e.attempt /\ f.lost = e.lost /\ f.cont = v
  BY DEF Entry

LEMMA SetAttempt ==
  ASSUME NEW e \in Entry, NEW v \in 0 .. PortAttempts, NEW f, f = [e EXCEPT !.attempt = v]
  PROVE  /\ f \in Entry /\ f.model = e.model /\ f.pc = e.pc /\ f.stage = e.stage
         /\ f.cont = e.cont /\ f.lost = e.lost /\ f.attempt = v
  BY DEF Entry

LEMMA SetRepublished ==
  ASSUME NEW e \in Entry, NEW v \in 0 .. Republish, NEW f, f = [e EXCEPT !.republished = v]
  PROVE  /\ f \in Entry /\ f.model = e.model /\ f.pc = e.pc /\ f.stage = e.stage
         /\ f.cont = e.cont /\ f.attempt = e.attempt /\ f.lost = e.lost /\ f.republished = v
  BY DEF Entry

LEMMA SetState ==
  ASSUME NEW e \in Entry, NEW v \in {"loading", "ready", "stopping", "stop-unconfirmed"}, NEW f, f = [e EXCEPT !.state = v]
  PROVE  /\ f \in Entry /\ f.model = e.model /\ f.pc = e.pc /\ f.stage = e.stage
         /\ f.cont = e.cont /\ f.attempt = e.attempt /\ f.lost = e.lost /\ f.state = v
  BY DEF Entry

LEMMA SetTicker ==
  ASSUME NEW e \in Entry, NEW v \in BOOLEAN, NEW f, f = [e EXCEPT !.ticker = v]
  PROVE  /\ f \in Entry /\ f.model = e.model /\ f.pc = e.pc /\ f.stage = e.stage
         /\ f.cont = e.cont /\ f.attempt = e.attempt /\ f.lost = e.lost /\ f.ticker = v
  BY DEF Entry

LEMMA SetAborted ==
  ASSUME NEW e \in Entry, NEW v \in BOOLEAN, NEW f, f = [e EXCEPT !.aborted = v]
  PROVE  /\ f \in Entry /\ f.model = e.model /\ f.pc = e.pc /\ f.stage = e.stage
         /\ f.cont = e.cont /\ f.attempt = e.attempt /\ f.lost = e.lost /\ f.aborted = v
  BY DEF Entry

LEMMA SetDied ==
  ASSUME NEW e \in Entry, NEW v \in BOOLEAN, NEW f, f = [e EXCEPT !.died = v]
  PROVE  /\ f \in Entry /\ f.model = e.model /\ f.pc = e.pc /\ f.stage = e.stage
         /\ f.cont = e.cont /\ f.attempt = e.attempt /\ f.lost = e.lost /\ f.died = v
  BY DEF Entry

LEMMA SetLost ==
  ASSUME NEW e \in Entry, NEW v \in BOOLEAN, NEW f, f = [e EXCEPT !.lost = v]
  PROVE  /\ f \in Entry /\ f.model = e.model /\ f.pc = e.pc /\ f.stage = e.stage
         /\ f.cont = e.cont /\ f.attempt = e.attempt /\ f.lost = v
  BY DEF Entry

-----------------------------------------------------------------------------
(* runLoad                                                                 *)

LEMMA LoadFrame ==
  ASSUME UNCHANGED loadFrame PROVE Still /\ UNCHANGED calls
  BY DEF loadFrame, instance, keeping, Still

LEMMA ThrowsKeeps == ASSUME IInv, NEW g \in Gens, Throws(g) PROVE IInv'
<1>1. Live(g) /\ Goes(g, "failing") /\ UNCHANGED <<running, journal>> /\ entry[g].pc # "over"
  BY DEF Throws
<1>2. running' \subseteq running \cup {Held(g)} /\ running' \subseteq journal
  BY <1>1 DEF IInv, RunsOK
<1>3. QED
  BY <1>1, <1>2, FailStep, LoadFrame DEF Throws

(* The awaits before a container exists, and the two after it is ready.    *)
LEMMA EarlyKeeps ==
  ASSUME IInv, NEW g \in Gens,
         \/ StopsPrevious(g) \/ FirstHeartbeat(g) \/ PreparesLaunch(g) \/ BecomesReady(g) \/ Accepted(g)
  PROVE  IInv'
<1>1. PICK p \in LoadPcs :
         /\ Goes(g, p) /\ p \in {"failing", "prepare", "launch", "create", "check", "gateway"}
         /\ p \in Bare => entry[g].pc \in Bare
  BY DEF StopsPrevious, FirstHeartbeat, PreparesLaunch, BecomesReady, Accepted, GoesUnlessAborted,
         LoadPcs, Bare, At
<1>2. /\ Live(g) /\ entry[g].pc # "over" /\ UNCHANGED <<running, journal>> /\ Still /\ UNCHANGED calls
  BY LoadFrame DEF StopsPrevious, FirstHeartbeat, PreparesLaunch, BecomesReady, Accepted, At
<1>3. p \in Bare => entry[g].cont = None /\ entry[g].attempt >= 1
  BY <1>1, <1>2, EntryGood, Zenon DEF Good
<1>4. p \notin Holding /\ p \notin Quiet /\ p # "start" /\ p \notin {"discard", "rm", "unjournal"}
  BY <1>1 DEF Holding, Quiet
<1>5. QED
  BY <1>1, <1>2, <1>3, <1>4, MoveStep, Zenon

LEMMA PreparesKeeps == ASSUME IInv, NEW g \in Gens, Prepares(g) PROVE IInv'
<1>1. Live(g) /\ entry[g].pc = "prepare" /\ UNCHANGED <<running, journal>> /\ Still /\ UNCHANGED calls
  BY LoadFrame DEF Prepares, At
<1>2. entry[g] \in Entry /\ Good(entry[g], g, running, journal, vmStops)
  BY <1>1, EntryFacts
<1>3. CASE entry[g].aborted
  BY <1>1, <1>3, EntryFacts, FailStep DEF Prepares
<1>4. CASE ~entry[g].aborted
  <2> DEFINE p == "heartbeat"
             d == [entry[g] EXCEPT !.pc = p]
             e == [d EXCEPT !.ticker = TRUE]
  <2>1. entry' = [entry EXCEPT ![g] = e]
    BY <1>4, Zenon DEF Prepares
  <2>2. p \in LoadPcs \cup {"over"} /\ p \in Bare /\ p \notin Holding /\ p \notin Quiet /\ p # "start"
        /\ p \notin {"discard", "rm", "unjournal"}
    BY DEF LoadPcs, Bare, Holding, Quiet
  <2> HIDE DEF p
  <2>3. d \in Entry /\ d.pc = p /\ d.cont = entry[g].cont /\ d.attempt = entry[g].attempt
        /\ d.stage = entry[g].stage /\ d.lost = entry[g].lost /\ d.model = entry[g].model
    BY <1>2, <2>2, SetPc
  <2> HIDE DEF d
  <2>4. e \in Entry /\ e.pc = p /\ e.cont = entry[g].cont /\ e.attempt = entry[g].attempt
        /\ e.stage = entry[g].stage /\ e.lost = entry[g].lost /\ e.model = entry[g].model
    BY <2>3, SetTicker, Zenon
  <2> HIDE DEF e
  <2>5. Good(e, g, running', journal', vmStops)
    BY <1>1, <1>2, <2>2, <2>4 DEF Good, Bare
  <2>6. \A c \in running' : c[1] = g => e.cont = c[2]
    BY <1>1, <2>4, EntryFacts DEF Held
  <2>7. QED
    BY <1>1, <2>1, <2>4, <2>5, <2>6, EntryFacts, EntryStep, SameCalls, Zenon
<1>5. QED
  BY <1>3, <1>4

LEMMA CreatesKeeps == ASSUME IInv, NEW g \in Gens, Creates(g) PROVE IInv'
<1>1. Live(g) /\ entry[g].pc = "create" /\ UNCHANGED <<running, journal>> /\ Still /\ UNCHANGED calls
  BY LoadFrame DEF Creates, At
<1>2. entry[g] \in Entry /\ Good(entry[g], g, running, journal, vmStops)
  BY <1>1, EntryFacts
<1>3. CASE Goes(g, "failing")
  BY <1>1, <1>3, EntryFacts, FailStep
<1>4. CASE entry' = [entry EXCEPT ![g].cont = NextTry(g), ![g].pc = "journal"]
  <2> DEFINE t == NextTry(g)
             p == "journal"
             d == [entry[g] EXCEPT !.cont = t]
             e == [d EXCEPT !.pc = p]
  <2>1. entry' = [entry EXCEPT ![g] = e]
    BY <1>4, Zenon
  <2>2. p \in LoadPcs \cup {"over"} /\ p \notin Bare /\ p # "start" /\ p # "over"
        /\ p \notin {"discard", "rm", "unjournal"}
    BY DEF LoadPcs, Bare
  <2>3. entry[g].cont = None /\ entry[g].attempt >= 1 /\ entry[g].stage = "none"
    BY <1>1, <1>2 DEF Good, Bare
  <2>4. t \in Tries /\ t # None
    BY <1>2, <2>3, ConstantsAssumption DEF Entry, Tries, NextTry
  <2> HIDE DEF t, p
  <2>5. d \in Entry /\ d.cont = t /\ d.stage = "none" /\ d.lost = entry[g].lost
        /\ d.model = entry[g].model
    BY <1>2, <2>3, <2>4, SetCont
  <2> HIDE DEF d
  <2>6. e \in Entry /\ e.pc = p /\ e.cont = t /\ e.stage = "none" /\ e.lost = entry[g].lost
        /\ e.model = entry[g].model
    BY <2>2, <2>5, SetPc
  <2> HIDE DEF e
  <2>7. \A c \in running : c[1] # g
    <3> SUFFICES ASSUME NEW c \in running, c[1] = g PROVE FALSE
      OBVIOUS
    <3>1. c = <<g, None>> /\ c \in Gens \X Tries
      BY <1>1, <2>3, EntryFacts DEF Held, Containers
    <3>2. QED
      BY <3>1, ConstantsAssumption
  <2>8. Good(e, g, running', journal', vmStops)
    BY <1>1, <1>2, <2>2, <2>4, <2>6, <2>7 DEF Good
  <2>9. QED
    BY <1>1, <2>1, <2>6, <2>7, <2>8, EntryFacts, EntryStep, SameCalls, Zenon
<1>5. QED
  BY <1>3, <1>4 DEF Creates

LEMMA HeldIsContainer ==
  ASSUME IInv, NEW g \in Gens, Live(g), entry[g].cont # None
  PROVE  Held(g) \in Containers
<1>1. entry[g] \in Entry
  BY EntryFacts
<1>2. entry[g].cont \in Tries
  BY <1>1 DEF Entry
<1>3. QED
  BY <1>2 DEF Held, Containers

LEMMA JournalsKeeps == ASSUME IInv, NEW g \in Gens, Journals(g) PROVE IInv'
<1>1. Live(g) /\ entry[g].pc = "journal" /\ UNCHANGED running /\ Still /\ UNCHANGED calls
  BY LoadFrame DEF Journals, At
<1>2. entry[g].cont # None /\ Held(g) \notin running
  BY <1>1, EntryGood DEF Good, Holding, Quiet, Held
<1>3. CASE journal' = journal \cup {Held(g)} /\ GoesUnlessAborted(g, "start")
  <2>1. PICK p \in LoadPcs : Goes(g, p) /\ p \in {"failing", "start"}
    BY <1>3 DEF GoesUnlessAborted, LoadPcs
  <2>2. p \notin Bare /\ p \notin {"discard", "rm", "unjournal"} /\ entry[g].pc # "over"
    BY <1>1, <2>1 DEF Bare
  <2>3. /\ journal' \subseteq Containers /\ Held(g) \in journal'
        /\ \A c \in journal' : c \in journal \/ c[1] = g
        /\ running' \subseteq journal' /\ running' \subseteq running \cup {Held(g)}
    BY <1>1, <1>2, <1>3, HeldIsContainer, EntryFacts DEF Held
  <2>4. QED
    BY <1>1, <1>2, <1>3, <2>1, <2>2, <2>3, PcStep, Zenon
<1>4. CASE Goes(g, "unmake") /\ UNCHANGED journal
  <2> DEFINE p == "unmake"
  <2>1. p \in LoadPcs /\ Goes(g, p) /\ p \notin Bare /\ p # "start" /\ p \notin {"discard", "rm", "unjournal"}
    BY <1>4 DEF LoadPcs, Bare
  <2> HIDE DEF p
  <2>2. entry[g].pc # "over"
    BY <1>1
  <2>3. QED
    BY <1>1, <1>2, <1>4, <2>1, <2>2, MoveStep, Zenon
<1>5. QED
  BY <1>3, <1>4 DEF Journals

LEMMA StartsKeeps == ASSUME IInv, NEW g \in Gens, StartsContainer(g) PROVE IInv'
<1>1. Live(g) /\ entry[g].pc = "start" /\ UNCHANGED journal /\ Still /\ UNCHANGED calls
  BY LoadFrame DEF StartsContainer, At
<1>2. /\ Held(g) \in journal /\ Held(g) \notin running /\ entry[g].cont # None
      /\ running \subseteq journal
  BY <1>1, EntryFacts DEF Good, Holding, Quiet, Held
<1>3. CASE running' = running \cup {Held(g)} /\ Goes(g, "wait")
  <2> DEFINE p == "wait"
  <2>1. /\ p \in LoadPcs /\ Goes(g, p) /\ p \notin Bare /\ p \notin Quiet /\ p # "start"
        /\ p \notin {"discard", "rm", "unjournal"}
    BY <1>3 DEF LoadPcs, Bare, Quiet
  <2> HIDE DEF p
  <2>2. /\ entry[g].pc # "over" /\ journal' \subseteq Containers /\ running' \subseteq journal'
        /\ running' \subseteq running \cup {Held(g)}
    BY <1>1, <1>2, <1>3, EntryFacts
  <2>3. QED
    BY <1>1, <1>2, <1>3, <2>1, <2>2, PcStep, Zenon
<1>4. CASE running' \in {running, running \cup {Held(g)}} /\ Goes(g, "failing")
  BY <1>1, <1>2, <1>4, FailStep
<1>5. CASE /\ UNCHANGED running
           /\ Goes(g, IF entry[g].attempt < PortAttempts THEN "rm" ELSE "failing")
  <2>1. CASE entry[g].attempt < PortAttempts
    <3> DEFINE p == "rm"
    <3>1. p \in LoadPcs /\ Goes(g, p) /\ p \notin Bare /\ p # "start" /\ entry[g].pc # "over"
      BY <1>1, <1>5, <2>1 DEF LoadPcs, Bare
    <3> HIDE DEF p
    <3>2. QED
      BY <1>1, <1>2, <1>5, <2>1, <3>1, MoveStep, Zenon
  <2>2. CASE ~(entry[g].attempt < PortAttempts)
    BY <1>1, <1>2, <1>5, <2>2, FailStep
  <2>3. QED
    BY <2>1, <2>2
<1>6. QED
  BY <1>3, <1>4, <1>5 DEF StartsContainer

LEMMA UnmakesKeeps == ASSUME IInv, NEW g \in Gens, Unmakes(g) PROVE IInv'
<1> DEFINE p == "failing"
           d == [entry[g] EXCEPT !.cont = None]
           e == [d EXCEPT !.pc = p]
<1>1. /\ Live(g) /\ entry[g].pc = "unmake" /\ UNCHANGED <<running, journal>> /\ Still /\ UNCHANGED calls
      /\ entry' = [entry EXCEPT ![g] = e]
  BY LoadFrame, Zenon DEF Unmakes, At, RemoveSucceeds, RemoveFails
<1>2. entry[g] \in Entry /\ Good(entry[g], g, running, journal, vmStops)
  BY <1>1, EntryFacts
<1>3. Held(g) \notin running /\ entry[g].stage = "none"
  BY <1>1, <1>2 DEF Good, Quiet, Held
<1>4. /\ p \in LoadPcs \cup {"over"} /\ p \notin Bare /\ p \notin Holding /\ p \notin Quiet
      /\ p # "start" /\ p \notin {"discard", "rm", "unjournal"}
  BY DEF LoadPcs, Bare, Holding, Quiet
<1> HIDE DEF p
<1>5. d \in Entry /\ d.stage = "none" /\ d.lost = entry[g].lost /\ d.model = entry[g].model
  BY <1>2, <1>3, SetCont
<1> HIDE DEF d
<1>6. e \in Entry /\ e.pc = p /\ e.stage = "none" /\ e.lost = entry[g].lost /\ e.model = entry[g].model
  BY <1>4, <1>5, SetPc
<1> HIDE DEF e
<1>7. Good(e, g, running', journal', vmStops)
  BY <1>1, <1>2, <1>4, <1>6 DEF Good
<1>8. \A c \in running : c[1] # g
  BY <1>1, <1>3, EntryFacts, Zenon
<1>9. QED
  BY <1>1, <1>6, <1>7, <1>8, EntryFacts, EntryStep, SameCalls, Zenon

LEMMA PortTakenKeeps == ASSUME IInv, NEW g \in Gens, PortTaken(g) PROVE IInv'
<1> DEFINE p == "discard"
           b == [entry[g] EXCEPT !.republished = @ + 1]
           d == [b EXCEPT !.attempt = 0]
           e == [d EXCEPT !.pc = p]
<1>1. /\ Live(g) /\ entry[g].pc = "wait" /\ UNCHANGED <<running, journal>> /\ Still /\ UNCHANGED calls
      /\ entry[g].republished < Republish
  BY LoadFrame DEF PortTaken, At
<1>2. entry' = [entry EXCEPT ![g] = e]
  BY Zenon DEF PortTaken
<1>3. entry[g] \in Entry /\ Good(entry[g], g, running, journal, vmStops)
  BY <1>1, EntryFacts
<1>4. entry[g].cont # None /\ entry[g].stage = "none"
  BY <1>1, <1>3 DEF Good, Holding
<1>5. entry[g].republished + 1 \in 0 .. Republish /\ 0 \in 0 .. PortAttempts /\ 0 < PortAttempts
  BY <1>1, <1>3, ConstantsAssumption DEF Entry
<1>6. /\ p \in LoadPcs \cup {"over"} /\ p \notin Bare /\ p \notin Quiet
      /\ p # "start" /\ p # "over"
  BY DEF LoadPcs, Bare, Quiet
<1> HIDE DEF p
<1>7. /\ b \in Entry /\ b.stage = "none" /\ b.lost = entry[g].lost /\ b.model = entry[g].model
      /\ b.cont = entry[g].cont
  BY <1>3, <1>4, <1>5, SetRepublished
<1> HIDE DEF b
<1>8. /\ d \in Entry /\ d.stage = "none" /\ d.lost = entry[g].lost /\ d.model = entry[g].model
      /\ d.cont = entry[g].cont /\ d.attempt = 0
  BY <1>5, <1>7, SetAttempt
<1> HIDE DEF d
<1>9. /\ e \in Entry /\ e.stage = "none" /\ e.lost = entry[g].lost /\ e.model = entry[g].model
      /\ e.cont = entry[g].cont /\ e.attempt = 0 /\ e.pc = p
  BY <1>6, <1>8, SetPc
<1> HIDE DEF e
<1>10. Good(e, g, running', journal', vmStops)
  BY <1>1, <1>3, <1>4, <1>5, <1>6, <1>9 DEF Good
<1>11. \A c \in running' : c[1] = g => e.cont = c[2]
  BY <1>1, <1>9, EntryFacts DEF Held
<1>12. QED
  BY <1>1, <1>2, <1>9, <1>10, <1>11, EntryFacts, EntryStep, SameCalls, Zenon

LEMMA DiscardsKeeps == ASSUME IInv, NEW g \in Gens, Discards(g) PROVE IInv'
<1>1. Live(g) /\ entry[g].pc = "discard" /\ UNCHANGED journal /\ Still /\ UNCHANGED calls
  BY LoadFrame DEF Discards, At
<1>2. entry[g].cont # None /\ entry[g].attempt < PortAttempts
  BY <1>1, EntryGood, Zenon DEF Good, Holding
<1>3. CASE StopConfirmed(Held(g)) /\ Goes(g, "rm")
  <2> DEFINE p == "rm"
  <2>1. p \in LoadPcs /\ Goes(g, p) /\ p \notin Bare /\ p # "start" /\ entry[g].pc # "over"
    BY <1>1, <1>3 DEF LoadPcs, Bare
  <2> HIDE DEF p
  <2>2. /\ Held(g) \notin running' /\ running' \subseteq running \cup {Held(g)}
        /\ running' \subseteq journal' /\ journal' \subseteq Containers
    BY <1>1, <1>3, EntryFacts DEF StopConfirmed
  <2>3. QED
    BY <1>1, <1>2, <2>1, <2>2, PcStep, Zenon
<1>4. CASE StopUnconfirmed(Held(g)) /\ Goes(g, "failing")
  BY <1>1, <1>4, EntryFacts, FailStep DEF StopUnconfirmed
<1>5. QED
  BY <1>3, <1>4 DEF Discards

LEMMA RemovesTryKeeps == ASSUME IInv, NEW g \in Gens, RemovesTry(g) PROVE IInv'
<1>1. Live(g) /\ entry[g].pc = "rm" /\ UNCHANGED <<running, journal>> /\ Still /\ UNCHANGED calls
  BY LoadFrame DEF RemovesTry, At, RemoveSucceeds, RemoveFails
<1>2. entry[g].cont # None /\ entry[g].attempt < PortAttempts /\ Held(g) \notin running
  BY <1>1, EntryGood DEF Good, Holding, Quiet, Held
<1>3. CASE Goes(g, "unjournal")
  <2> DEFINE p == "unjournal"
  <2>1. p \in LoadPcs /\ Goes(g, p) /\ p \notin Bare /\ p # "start" /\ entry[g].pc # "over"
    BY <1>1, <1>3 DEF LoadPcs, Bare
  <2> HIDE DEF p
  <2>2. QED
    BY <1>1, <1>2, <2>1, MoveStep, Zenon
<1>4. CASE Goes(g, "failing")
  BY <1>1, <1>4, EntryFacts, FailStep
<1>5. QED
  BY <1>3, <1>4 DEF RemovesTry

LEMMA UnjournalsTryKeeps == ASSUME IInv, NEW g \in Gens, UnjournalsTry(g) PROVE IInv'
<1>1. Live(g) /\ entry[g].pc = "unjournal" /\ UNCHANGED running /\ Still /\ UNCHANGED calls
  BY LoadFrame DEF UnjournalsTry, At
<1>2. entry[g] \in Entry /\ Good(entry[g], g, running, journal, vmStops)
  BY <1>1, EntryFacts
<1>3. CASE Goes(g, "failing") /\ UNCHANGED journal
  BY <1>1, <1>3, EntryFacts, FailStep
<1>4. CASE /\ journal' = journal \ {Held(g)}
           /\ entry' = [entry EXCEPT ![g].cont = None, ![g].attempt = @ + 1, ![g].pc = "launch"]
  <2> DEFINE p == "launch"
             b == [entry[g] EXCEPT !.cont = None]
             d == [b EXCEPT !.attempt = @ + 1]
             e == [d EXCEPT !.pc = p]
  <2>1. entry' = [entry EXCEPT ![g] = e]
    BY <1>4, Zenon
  <2>2. entry[g].attempt < PortAttempts /\ entry[g].stage = "none" /\ Held(g) \notin running
    BY <1>1, <1>2 DEF Good, Quiet, Held
  <2>3. entry[g].attempt + 1 \in 0 .. PortAttempts /\ entry[g].attempt + 1 >= 1
    BY <1>2, <2>2, ConstantsAssumption DEF Entry
  <2>4. /\ p \in LoadPcs \cup {"over"} /\ p \notin Holding /\ p \notin Quiet
        /\ p # "start" /\ p \notin {"discard", "rm", "unjournal"}
    BY DEF LoadPcs, Holding, Quiet
  <2> HIDE DEF p
  <2>5. /\ b \in Entry /\ b.stage = "none" /\ b.lost = entry[g].lost /\ b.model = entry[g].model
        /\ b.cont = None /\ b.attempt = entry[g].attempt
    BY <1>2, <2>2, SetCont
  <2> HIDE DEF b
  <2>6. /\ d \in Entry /\ d.stage = "none" /\ d.lost = entry[g].lost /\ d.model = entry[g].model
        /\ d.cont = None /\ d.attempt >= 1
    BY <2>3, <2>5, SetAttempt
  <2> HIDE DEF d
  <2>7. /\ e \in Entry /\ e.stage = "none" /\ e.lost = entry[g].lost /\ e.model = entry[g].model
        /\ e.cont = None /\ e.attempt >= 1 /\ e.pc = p
    BY <2>4, <2>6, SetPc
  <2> HIDE DEF e
  <2>8. Good(e, g, running', journal', vmStops)
    BY <1>1, <1>2, <2>4, <2>7 DEF Good
  <2>9. \A c \in running : c[1] # g
    BY <1>1, <2>2, EntryFacts, Zenon
  <2>10. /\ journal' \subseteq Containers /\ running' \subseteq journal'
         /\ \A c \in journal : c[1] # g => c \in journal'
    BY <1>1, <1>4, <2>2, EntryFacts DEF Held
  <2>11. QED
    BY <1>1, <1>4, <2>1, <2>7, <2>8, <2>9, <2>10, EntryStep, SameCalls, Zenon
<1>5. QED
  BY <1>3, <1>4 DEF UnjournalsTry

(* A load that is over: the entry is served or torn down.                  *)
LEMMA LoadIsOver ==
  ASSUME NEW e \in Entry
  PROVE  /\ LoadOver(e) \in Entry
         /\ LoadOver(e).pc = "over" /\ LoadOver(e).cont = e.cont /\ LoadOver(e).stage = e.stage
         /\ LoadOver(e).lost = e.lost /\ LoadOver(e).model = e.model
<1> DEFINE p == "over"
           b == [e EXCEPT !.pc = p]
           d == [b EXCEPT !.attempt = 1]
           f == [d EXCEPT !.republished = 0]
<1>1. LoadOver(e) = f
  BY Zenon DEF LoadOver
<1>2. p \in LoadPcs \cup {"over"} /\ 1 \in 0 .. PortAttempts /\ 0 \in 0 .. Republish
  BY ConstantsAssumption
<1>3. p = "over"
  OBVIOUS
<1> HIDE DEF p
<1>4. /\ b \in Entry /\ b.pc = p /\ b.cont = e.cont /\ b.stage = e.stage /\ b.lost = e.lost
      /\ b.model = e.model
  BY <1>2, SetPc
<1> HIDE DEF b
<1>5. /\ d \in Entry /\ d.pc = p /\ d.cont = e.cont /\ d.stage = e.stage /\ d.lost = e.lost
      /\ d.model = e.model
  BY <1>2, <1>4, SetAttempt
<1> HIDE DEF d
<1>6. /\ f \in Entry /\ f.pc = p /\ f.cont = e.cont /\ f.stage = e.stage /\ f.lost = e.lost
      /\ f.model = e.model
  BY <1>2, <1>5, SetRepublished
<1>7. QED
  BY <1>1, <1>3, <1>6

LEMMA EndingFacts ==
  ASSUME NEW e \in Entry, NEW died \in BOOLEAN
  PROVE  /\ Ending(e, died) \in Entry /\ Ending(e, died).cont = e.cont
         /\ Ending(e, died).model = e.model /\ Ending(e, died).lost = e.lost
         /\ Ending(e, died).pc = "over" /\ Ending(e, died).stage = "closing"
         /\ Ending(e, died).state = "stopping"
<1> DEFINE s == "stopping"
           c == "closing"
           a == LoadOver(e)
           b == [a EXCEPT !.state = s]
           d == [b EXCEPT !.stage = c]
           f == [d EXCEPT !.died = died]
<1>1. Ending(e, died) = f
  BY Zenon DEF Ending
<1>2. s \in {"loading", "ready", "stopping", "stop-unconfirmed"} /\ c \in Stages \cup {"none"}
  BY DEF Stages
<1>3. s = "stopping" /\ c = "closing"
  OBVIOUS
<1> HIDE DEF s, c
<1>4. a \in Entry /\ a.pc = "over" /\ a.cont = e.cont /\ a.lost = e.lost /\ a.model = e.model
  BY LoadIsOver
<1> HIDE DEF a
<1>5. b \in Entry /\ b.pc = "over" /\ b.cont = e.cont /\ b.lost = e.lost /\ b.model = e.model
      /\ b.state = s
  BY <1>2, <1>4, SetState
<1> HIDE DEF b
<1>6. d \in Entry /\ d.pc = "over" /\ d.cont = e.cont /\ d.lost = e.lost /\ d.model = e.model
      /\ d.stage = c
  BY <1>2, <1>5, SetStage
<1>7. d.state = s
  BY <1>2, <1>5 DEF Entry
<1> HIDE DEF d
<1>8. f \in Entry /\ f.pc = "over" /\ f.cont = e.cont /\ f.lost = e.lost /\ f.model = e.model
      /\ f.stage = c
  BY <1>6, SetDied
<1>9. f.state = s
  BY <1>6, <1>7 DEF Entry
<1>10. QED
  BY <1>1, <1>3, <1>8, <1>9

(* An ending entry has nothing to keep but its container.                  *)
LEMMA EndingGood ==
  ASSUME NEW e \in Entry, NEW died \in BOOLEAN, NEW g, NEW run, NEW jrn, NEW stops,
         e.lost => stops > 0
  PROVE  Good(Ending(e, died), g, run, jrn, stops)
<1> DEFINE f == Ending(e, died)
<1>1. f.pc = "over" /\ f.stage = "closing" /\ f.lost = e.lost
  BY EndingFacts
<1> HIDE DEF f
<1>2. Good(f, g, run, jrn, stops)
  BY <1>1 DEF Good, Bare, Holding, Quiet
<1>3. QED
  BY <1>2 DEF f

LEMMA EndingStep ==
  ASSUME IInv, NEW g \in Gens, Live(g), NEW died \in BOOLEAN, Still, CallsOK',
         entry' = [entry EXCEPT ![g] = Ending(entry[g], died)], UNCHANGED <<running, journal>>
  PROVE  IInv'
<1> DEFINE e == Ending(entry[g], died)
<1>1. entry[g] \in Entry /\ Good(entry[g], g, running, journal, vmStops)
  BY EntryFacts
<1>2. e \in Entry /\ e.cont = entry[g].cont /\ e.model = entry[g].model
  BY <1>1, EndingFacts
<1>3. entry[g].lost => vmStops > 0
  BY <1>1 DEF Good
<1>4. Good(e, g, running', journal', vmStops)
  BY <1>1, <1>3, EndingGood
<1>5. entry' = [entry EXCEPT ![g] = e]
  OBVIOUS
<1> HIDE DEF e
<1>6. \A c \in running' : c[1] = g => e.cont = c[2]
  BY <1>2, EntryFacts DEF Held
<1>7. QED
  BY <1>2, <1>4, <1>5, <1>6, EntryFacts, EntryStep, ZenonT(30)

LEMMA FailLoadKeeps == ASSUME IInv, NEW g \in Gens, FailLoad(g) PROVE IInv'
<1>1. /\ Live(g) /\ UNCHANGED <<running, journal>> /\ Still /\ UNCHANGED calls
      /\ entry' = [entry EXCEPT ![g] = Ending(entry[g], FALSE)]
  BY LoadFrame DEF FailLoad, At
<1>2. QED
  BY <1>1, SameCalls, EndingStep, Zenon

LEMMA OnCrashKeeps == ASSUME IInv, NEW g \in Gens, OnCrash(g) PROVE IInv'
<1>1. /\ Live(g) /\ UNCHANGED <<running, journal>> /\ Still /\ UNCHANGED calls
      /\ entry' = [entry EXCEPT ![g] = Ending(entry[g], TRUE)]
  BY LoadFrame DEF OnCrash
<1>2. QED
  BY <1>1, SameCalls, EndingStep, Zenon

LEMMA ServesKeeps == ASSUME IInv, NEW g \in Gens, Serves(g) PROVE IInv'
<1>1. Live(g) /\ entry[g].pc = "gateway" /\ UNCHANGED <<running, journal>> /\ Still /\ UNCHANGED calls
  BY LoadFrame DEF Serves, At
<1>2. entry[g] \in Entry /\ Good(entry[g], g, running, journal, vmStops)
  BY <1>1, EntryFacts
<1>3. CASE entry[g].aborted
  BY <1>1, <1>3, EntryFacts, FailStep DEF Serves
<1>4. CASE ~entry[g].aborted
  <2> DEFINE s == "ready"
             d == LoadOver(entry[g])
             e == [d EXCEPT !.state = s]
  <2>1. entry' = [entry EXCEPT ![g] = e]
    BY <1>4 DEF Serves
  <2>2. s \in {"loading", "ready", "stopping", "stop-unconfirmed"}
    OBVIOUS
  <2> HIDE DEF s
  <2>3. entry[g].stage = "none"
    BY <1>1, <1>2 DEF Good
  <2>4. /\ d \in Entry /\ d.pc = "over" /\ d.cont = entry[g].cont /\ d.stage = "none"
        /\ d.lost = entry[g].lost /\ d.model = entry[g].model
    BY <1>2, <2>3, LoadIsOver
  <2> HIDE DEF d
  <2>5. /\ e \in Entry /\ e.pc = "over" /\ e.cont = entry[g].cont /\ e.stage = "none"
        /\ e.lost = entry[g].lost /\ e.model = entry[g].model
    BY <2>2, <2>4, SetState
  <2> HIDE DEF e
  <2>6. Good(e, g, running', journal', vmStops)
    BY <1>1, <1>2, <2>5 DEF Good, Bare, Holding, Quiet
  <2>7. \A c \in running' : c[1] = g => e.cont = c[2]
    BY <1>1, <2>5, EntryFacts DEF Held
  <2>8. QED
    BY <1>1, <2>1, <2>5, <2>6, <2>7, EntryFacts, EntryStep, SameCalls, Zenon
<1>5. QED
  BY <1>3, <1>4

LEMMA LoadStepKeeps == ASSUME IInv, NEW g \in Gens, LoadStep(g) PROVE IInv'
  BY ThrowsKeeps, EarlyKeeps, PreparesKeeps, CreatesKeeps, JournalsKeeps, UnmakesKeeps, StartsKeeps,
     PortTakenKeeps, DiscardsKeeps, RemovesTryKeeps, UnjournalsTryKeeps, ServesKeeps, FailLoadKeeps,
     Zenon DEF LoadStep

-----------------------------------------------------------------------------
(* end and teardown                                                        *)

LEMMA AnsweredCalls ==
  ASSUME IInv, NEW g \in Gens, NEW out \in {"pending", "confirmed", "unconfirmed"},
         calls' = Answered(g, out)
  PROVE  CallsOK'
<1>1. SUFFICES ASSUME NEW c \in calls'
               PROVE  c \in Call /\ (c.kind \in {"load", "reload"} => c.key \in Keys)
  BY Zenon DEF CallsOK
<1>2. PICK b \in calls : c = IF b.on = g /\ b.out = "pending" THEN [b EXCEPT !.out = out] ELSE b
  BY DEF Answered
<1>3. b \in Call /\ (b.kind \in {"load", "reload"} => b.key \in Keys)
  BY DEF IInv, CallsOK
<1>4. CASE c = b
  BY <1>3, <1>4
<1>5. CASE c = [b EXCEPT !.out = out]
  <2>1. c \in Call /\ c.kind = b.kind /\ c.key = b.key
    BY <1>3, <1>5 DEF Call
  <2>2. QED
    BY <1>3, <2>1
<1>6. QED
  BY <1>2, <1>4, <1>5

(* An entry leaves the table: its engine does not run, or the distribution *)
(* stopped under it.                                                       *)
LEMMA GoneStep ==
  ASSUME IInv, NEW g \in Gens, Live(g), Gone(g), UNCHANGED <<core, old, loads, todo, left, vmStops, running>>,
         entry[g].lost \/ \A c \in running : c[1] # g,
         journal' = journal \/ (journal' = journal \ {Held(g)} /\ Held(g) \notin running)
  PROVE  IInv'
<1>1. /\ entry' = [entry EXCEPT ![g] = None]
      /\ table' = [m \in Models |-> IF table[m] = g THEN None ELSE table[m]]
      /\ hold' = "dead" => hold = "dead"
  BY DEF Gone, Release
<1>2. Types'
  BY <1>1 DEF IInv, Types
<1>3. CallsOK'
  BY AnsweredCalls DEF Gone
<1>4. entry[g].lost => vmStops > 0
  BY EntryGood, Zenon DEF Good
<1>5. ASSUME NEW h \in Gens PROVE EntryOK(h)'
  <2>1. CASE h = g
    BY <1>1, <2>1 DEF EntryOK, IInv, Types
  <2>2. CASE h # g /\ entry[h] # None
    <3>1. entry'[h] = entry[h] /\ entry[h] \in Entry
      BY <1>1, <2>2 DEF IInv, Types
    <3>2. /\ core = "up" /\ old < h /\ h <= loads /\ table[entry[h].model] = h
          /\ Good(entry[h], h, running, journal, vmStops)
      BY <2>2 DEF IInv, EntryOK
    <3>3. <<h, entry[h].cont>> \in journal => <<h, entry[h].cont>> \in journal'
      BY <2>2 DEF Held
    <3>4. Good(entry[h], h, running', journal', vmStops)
      BY <3>2, <3>3 DEF Good
    <3>5. table'[entry[h].model] = h
      BY <1>1, <2>2, <3>1, <3>2 DEF Entry
    <3>6. QED
      BY <3>1, <3>2, <3>4, <3>5 DEF EntryOK
  <2>3. CASE h # g /\ entry[h] = None
    BY <1>1, <2>3 DEF EntryOK, IInv, Types
  <2>4. QED
    BY <2>1, <2>2, <2>3
<1>6. TableOK'
  BY <1>1 DEF IInv, TableOK, Types
<1>7. RunsOK'
  <2>1. running' \subseteq journal'
    BY DEF IInv, RunsOK
  <2>2. ASSUME NEW c \in running'
        PROVE  /\ entry'[c[1]] # None => entry'[c[1]].cont = c[2]
               /\ core' = "up" => entry'[c[1]] # None \/ c \in left' \/ vmStops' > 0
               /\ core' = "starting" => c \in todo' \/ c \in left'
    <3>1. c \in running /\ c[1] \in Gens /\ core = "up"
      BY DEF IInv, Types, Containers, Live
    <3>2. CASE c[1] = g
      BY <1>1, <1>4, <3>1, <3>2 DEF IInv, Types
    <3>3. CASE c[1] # g
      <4>1. entry'[c[1]] = entry[c[1]]
        BY <1>1, <3>1, <3>3 DEF IInv, Types
      <4>2. QED
        BY <3>1, <4>1 DEF IInv, RunsOK
    <3>4. QED
      BY <3>2, <3>3
  <2>3. QED
    BY <2>1, <2>2, Zenon DEF RunsOK
<1>8. InstanceOK'
  BY <1>1 DEF IInv, InstanceOK
<1>9. QED
  BY <1>2, <1>3, <1>5, <1>6, <1>7, <1>8 DEF IInv

LEMMA EndFrame ==
  ASSUME UNCHANGED endFrame
  PROVE  UNCHANGED <<core, old, loads, todo, left, vmStops>>
  BY DEF endFrame, instance

(* A teardown proceeds with the entry in place.                            *)
LEMMA StageStep ==
  ASSUME IInv, NEW g \in Gens, Live(g), entry[g].pc = "over", Still, CallsOK',
         NEW e \in Entry, entry' = [entry EXCEPT ![g] = e], e.model = entry[g].model, e.pc = "over",
         e.cont = entry[g].cont, e.lost = entry[g].lost, UNCHANGED journal, running' \subseteq running,
         e.stage \in {"stop", "rm", "unjournal"} => e.cont # None,
         e.stage \in {"rm", "unjournal"} => Held(g) \notin running'
  PROVE  IInv'
<1>1. Good(e, g, running', journal', vmStops)
  BY EntryGood DEF Good, Bare, Holding, Quiet, Held
<1>2. /\ running' \subseteq running \cup {<<g, e.cont>>} /\ running' \subseteq journal'
      /\ journal' \subseteq Containers
  BY EntryFacts
<1>3. \A c \in running' : c[1] = g => e.cont = c[2]
  BY EntryFacts DEF Held
<1>4. QED
  BY <1>1, <1>2, <1>3, EntryStep, Zenon

LEMMA ProceedsStep ==
  ASSUME IInv, NEW g \in Gens, Live(g), entry[g].stage # "none", NEW st \in Stages, Proceeds(g, st),
         UNCHANGED <<endFrame, journal>>, running' \subseteq running, entry[g].cont # None,
         Held(g) \notin running'
  PROVE  IInv'
<1> DEFINE e == [entry[g] EXCEPT !.stage = st]
<1>1. entry[g] \in Entry /\ entry[g].pc = "over"
  BY EntryGood, Zenon DEF Good
<1>2. entry' = [entry EXCEPT ![g] = e] /\ UNCHANGED <<table, keeping, calls>>
  BY DEF Proceeds
<1>3. /\ e \in Entry /\ e.model = entry[g].model /\ e.pc = "over" /\ e.cont = entry[g].cont
      /\ e.lost = entry[g].lost
  BY <1>1, SetStage
<1> HIDE DEF e
<1>4. Still /\ CallsOK'
  BY <1>2, EndFrame, SameCalls DEF Still, keeping
<1>5. QED
  BY <1>1, <1>2, <1>3, <1>4, StageStep, Zenon

LEMMA UnconfirmedStep ==
  ASSUME IInv, NEW g \in Gens, Live(g), entry[g].stage # "none", Unconfirmed(g),
         UNCHANGED <<endFrame, journal>>, running' \subseteq running
  PROVE  IInv'
<1> DEFINE s == "stop-unconfirmed"
           n == "none"
           b == [entry[g] EXCEPT !.state = s]
           d == [b EXCEPT !.stage = n]
           e == [d EXCEPT !.died = FALSE]
<1>1. entry[g] \in Entry /\ entry[g].pc = "over"
  BY EntryGood, Zenon DEF Good
<1>2. entry' = [entry EXCEPT ![g] = e]
  BY Zenon DEF Unconfirmed
<1>3. /\ s \in {"loading", "ready", "stopping", "stop-unconfirmed"} /\ n \in Stages \cup {"none"}
      /\ n \notin {"stop", "rm", "unjournal"} /\ n \notin {"rm", "unjournal"}
  OBVIOUS
<1> HIDE DEF s, n
<1>4. b \in Entry /\ b.model = entry[g].model /\ b.pc = "over" /\ b.cont = entry[g].cont
      /\ b.lost = entry[g].lost
  BY <1>1, <1>3, SetState
<1> HIDE DEF b
<1>5. d \in Entry /\ d.model = entry[g].model /\ d.pc = "over" /\ d.cont = entry[g].cont
      /\ d.lost = entry[g].lost /\ d.stage = n
  BY <1>3, <1>4, SetStage
<1> HIDE DEF d
<1>6. e \in Entry /\ e.model = entry[g].model /\ e.pc = "over" /\ e.cont = entry[g].cont
      /\ e.lost = entry[g].lost /\ e.stage = n
  BY <1>5, SetDied, Zenon
<1> HIDE DEF e
<1>7. Still /\ CallsOK'
  BY EndFrame, AnsweredCalls DEF Still, Unconfirmed, keeping
<1>8. QED
  BY <1>1, <1>2, <1>3, <1>6, <1>7, StageStep, Zenon

LEMMA ClosesKeeps == ASSUME IInv, NEW g \in Gens, Closes(g) PROVE IInv'
<1>1. Live(g) /\ entry[g].stage = "closing" /\ UNCHANGED <<endFrame, running, journal>>
  BY DEF Closes, Ends
<1>2. entry[g] \in Entry /\ entry[g].pc = "over"
  BY <1>1, EntryGood, Zenon DEF Good
<1>3. CASE entry[g].lost \/ entry[g].cont = None
  <2>1. Gone(g)
    BY <1>3 DEF Closes
  <2>2. entry[g].cont = None => \A c \in running : c[1] # g
    <3> SUFFICES ASSUME entry[g].cont = None, NEW c \in running, c[1] = g PROVE FALSE
      OBVIOUS
    <3>1. c = <<g, None>> /\ c \in Gens \X Tries
      BY <1>1, EntryFacts DEF Held, Containers
    <3>2. QED
      BY <3>1, ConstantsAssumption
  <2>3. QED
    BY <1>1, <1>3, <2>1, <2>2, EndFrame, GoneStep, Zenon
<1>4. CASE ~(entry[g].lost \/ entry[g].cont = None)
  <2> DEFINE st == "stop"
             d == [entry[g] EXCEPT !.ticker = FALSE]
             e == [d EXCEPT !.stage = st]
  <2>1. entry' = [entry EXCEPT ![g] = e] /\ UNCHANGED <<table, keeping, calls>>
    BY <1>4, Zenon DEF Closes
  <2>2. st \in Stages \cup {"none"} /\ st \notin {"rm", "unjournal"}
    BY DEF Stages
  <2> HIDE DEF st
  <2>3. d \in Entry /\ d.model = entry[g].model /\ d.pc = "over" /\ d.cont = entry[g].cont
        /\ d.lost = entry[g].lost
    <3> DEFINE v == FALSE
    <3>1. v \in BOOLEAN /\ d = [entry[g] EXCEPT !.ticker = v]
      OBVIOUS
    <3> HIDE DEF v, d
    <3>2. QED
      BY <1>2, <3>1, SetTicker
  <2> HIDE DEF d
  <2>4. e \in Entry /\ e.model = entry[g].model /\ e.pc = "over" /\ e.cont = entry[g].cont
        /\ e.lost = entry[g].lost /\ e.stage = st
    BY <2>2, <2>3, SetStage
  <2> HIDE DEF e
  <2>5. Still /\ CallsOK' /\ running' \subseteq running
    BY <1>1, <2>1, EndFrame, SameCalls DEF Still, keeping
  <2>6. QED
    BY <1>1, <1>2, <1>4, <2>1, <2>2, <2>4, <2>5, StageStep, Zenon
<1>5. QED
  BY <1>3, <1>4

LEMMA StopsKeeps == ASSUME IInv, NEW g \in Gens, Stops(g) PROVE IInv'
<1>1. Live(g) /\ entry[g].stage = "stop" /\ UNCHANGED <<endFrame, journal>>
  BY DEF Stops, Ends
<1>2. entry[g].cont # None /\ entry[g].stage # "none"
  BY <1>1, EntryGood, Zenon DEF Good
<1>3. CASE StopConfirmed(Held(g)) /\ Proceeds(g, "rm")
  <2> DEFINE st == "rm"
  <2>1. st \in Stages /\ Proceeds(g, st) /\ running' \subseteq running /\ Held(g) \notin running'
    BY <1>3 DEF Stages, StopConfirmed
  <2> HIDE DEF st
  <2>2. QED
    BY <1>1, <1>2, <2>1, ProceedsStep, Zenon
<1>4. CASE StopUnconfirmed(Held(g)) /\ Unconfirmed(g)
  BY <1>1, <1>2, <1>4, UnconfirmedStep DEF StopUnconfirmed
<1>5. QED
  BY <1>3, <1>4 DEF Stops

LEMMA RemovesKeeps == ASSUME IInv, NEW g \in Gens, Removes(g) PROVE IInv'
<1>1. Live(g) /\ entry[g].stage = "rm" /\ UNCHANGED <<endFrame, journal, running>>
  BY DEF Removes, Ends, RemoveSucceeds, RemoveFails
<1>2. entry[g].cont # None /\ entry[g].stage # "none" /\ Held(g) \notin running
  BY <1>1, EntryGood DEF Good, Held
<1>3. CASE Proceeds(g, "unjournal")
  <2> DEFINE st == "unjournal"
  <2>1. st \in Stages /\ Proceeds(g, st) /\ running' \subseteq running /\ Held(g) \notin running'
    BY <1>1, <1>2, <1>3 DEF Stages
  <2> HIDE DEF st
  <2>2. QED
    BY <1>1, <1>2, <2>1, ProceedsStep, Zenon
<1>4. CASE Gone(g)
  <2>1. \A c \in running : c[1] # g
    BY <1>1, <1>2, EntryFacts, Zenon
  <2>2. QED
    BY <1>1, <1>4, <2>1, EndFrame, GoneStep, Zenon
<1>5. QED
  BY <1>3, <1>4 DEF Removes

LEMMA UnjournalsKeeps == ASSUME IInv, NEW g \in Gens, Unjournals(g) PROVE IInv'
<1>1. /\ Live(g) /\ entry[g].stage = "unjournal" /\ Gone(g) /\ UNCHANGED <<endFrame, running>>
      /\ journal' = journal \/ journal' = journal \ {Held(g)}
  BY DEF Unjournals, Ends
<1>2. Held(g) \notin running
  BY <1>1, EntryGood DEF Good, Held
<1>3. \A c \in running : c[1] # g
  BY <1>1, <1>2, EntryFacts, Zenon
<1>4. QED
  BY <1>1, <1>2, <1>3, EndFrame, GoneStep, Zenon

LEMMA EndStepKeeps == ASSUME IInv, NEW g \in Gens, EndStep(g) PROVE IInv'
  BY ClosesKeeps, StopsKeeps, RemovesKeeps, UnjournalsKeeps DEF EndStep

====
