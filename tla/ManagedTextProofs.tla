------------------------- MODULE ManagedTextProofs -------------------------
(***************************************************************************)
(* Proofs about ManagedText, for any models, keys, number of loads, retry  *)
(* limits, cores and stops of the distribution: a running engine has a     *)
(* record on disk and keeps its card reserved, a table entry is never      *)
(* replaced under its teardown, and every variable keeps its type.         *)
(***************************************************************************)
EXTENDS ManagedTextStepProofs

-----------------------------------------------------------------------------
(* load, unload and shutdown                                               *)

LEMMA NewEntryFacts ==
  ASSUME NEW m \in Models, NEW k \in Keys, NEW g, NEW run, NEW jrn, NEW stops
  PROVE  /\ NewEntry(m, k) \in Entry /\ NewEntry(m, k).model = m
         /\ Good(NewEntry(m, k), g, run, jrn, stops)
<1>1. NewEntry(m, k) \in Entry
  BY ConstantsAssumption DEF NewEntry, Entry, LoadPcs
<1>2. Good(NewEntry(m, k), g, run, jrn, stops)
  BY DEF NewEntry, Good, Bare, Holding, Quiet
<1>3. QED
  BY <1>1, <1>2 DEF NewEntry

LEMMA BeginStep ==
  ASSUME IInv, core = "up", NEW m \in Models, NEW k \in Keys, table[m] = None, Begin(m, k),
         UNCHANGED <<core, old, todo, left, vmStops, running, journal>>, CallsOK'
  PROVE  IInv'
<1> DEFINE g == loads + 1
           e == NewEntry(m, k)
<1>1. /\ g \in Gens /\ loads' = g /\ g > loads /\ g \in 0 .. MaxLoads /\ old \in 0 .. g /\ old < g
  BY ConstantsAssumption DEF IInv, Types, Begin, Gens
<1>2. /\ table' = [table EXCEPT ![m] = g] /\ entry' = [entry EXCEPT ![g] = e]
      /\ hold' = "dead" => hold = "dead"
  BY Zenon DEF Begin, Acquire, keeping
<1>3. e \in Entry /\ e.model = m /\ Good(e, g, running, journal, vmStops)
  BY NewEntryFacts
<1>4. \A h \in Gens : entry[h] # None => h # g
  BY <1>1 DEF IInv, Types, EntryOK, Gens
<1>5. \A c \in journal : c[1] # g /\ c[1] <= g
  BY <1>1 DEF IInv, Types, InstanceOK, Containers, Gens
<1>6. loads \in Nat
  BY DEF IInv, Types
<1> HIDE DEF e
<1>7. Types'
  BY <1>1, <1>2, <1>3 DEF IInv, Types
<1> HIDE DEF g
<1>8. ASSUME NEW h \in Gens PROVE EntryOK(h)'
  <2>1. CASE h = g
    <3>1. entry'[h] = e /\ table'[m] = g
      BY <1>2, <2>1 DEF IInv, Types
    <3>2. h <= loads' /\ old < h
      BY <1>1, <1>6, <2>1 DEF g
    <3>3. QED
      BY <1>1, <1>3, <2>1, <3>1, <3>2 DEF EntryOK
  <2>2. CASE h # g /\ entry[h] # None
    <3>1. entry'[h] = entry[h] /\ entry[h] \in Entry
      BY <1>2, <2>2 DEF IInv, Types
    <3>2. /\ old < h /\ h <= loads /\ table[entry[h].model] = h
          /\ Good(entry[h], h, running, journal, vmStops)
      BY <2>2 DEF IInv, EntryOK
    <3>3. entry[h].model # m /\ entry[h].model \in Models
      <4>1. entry[h].model \in Models
        BY <3>1 DEF Entry
      <4>2. h # None
        BY ConstantsAssumption
      <4>3. QED
        BY <3>2, <4>1, <4>2, Zenon
    <3>4. table'[entry[h].model] = h
      BY <1>2, <3>2, <3>3 DEF IInv, Types
    <3>5. h <= loads'
      BY <1>1, <1>6, <3>2 DEF g, Gens
    <3>6. QED
      BY <3>1, <3>2, <3>4, <3>5 DEF EntryOK
  <2>3. CASE h # g /\ entry[h] = None
    BY <1>2, <2>3 DEF EntryOK, IInv, Types
  <2>4. QED
    BY <2>1, <2>2, <2>3, Zenon
<1>9. TableOK'
  <2> SUFFICES ASSUME NEW n \in Models, table'[n] # None
               PROVE  entry'[table'[n]] # None /\ entry'[table'[n]].model = n
    BY DEF TableOK
  <2>1. CASE n = m
    BY <1>1, <1>2, <1>3, <2>1, ConstantsAssumption DEF IInv, Types
  <2>2. CASE n # m
    <3>1. table'[n] = table[n] /\ table[n] \in Gens
      BY <1>2, <2>2 DEF IInv, Types
    <3>2. entry[table[n]] # None /\ entry[table[n]].model = n
      BY <3>1 DEF IInv, TableOK
    <3>3. table[n] # g
      BY <1>4, <3>1, <3>2
    <3>4. entry'[table[n]] = entry[table[n]]
      BY <1>2, <3>1, <3>3 DEF IInv, Types
    <3>5. QED
      BY <3>1, <3>2, <3>4
  <2>3. QED
    BY <2>1, <2>2
<1>10. RunsOK'
  <2>1. \A c \in running : c[1] \in Gens /\ c[1] # g
    BY <1>5 DEF IInv, RunsOK, Types, Containers
  <2>2. \A c \in running : entry'[c[1]] = entry[c[1]]
    BY <1>2, <2>1 DEF IInv, Types
  <2>3. running' \subseteq journal'
    BY DEF IInv, RunsOK
  <2>4. ASSUME NEW c \in running'
        PROVE  /\ entry'[c[1]] # None => entry'[c[1]].cont = c[2]
               /\ core' = "up" => entry'[c[1]] # None \/ c \in left' \/ vmStops' > 0
               /\ core' = "starting" => c \in todo' \/ c \in left'
    <3>1. /\ entry[c[1]] # None => entry[c[1]].cont = c[2]
          /\ core = "up" => entry[c[1]] # None \/ c \in left \/ vmStops > 0
          /\ core = "starting" => c \in todo \/ c \in left
      BY Zenon DEF IInv, RunsOK
    <3>2. entry'[c[1]] = entry[c[1]]
      BY <2>2
    <3>3. QED
      BY <3>1, <3>2, Zenon
  <2>5. QED
    BY <2>3, <2>4, Zenon DEF RunsOK
<1>11. InstanceOK'
  BY <1>1, <1>2, <1>5 DEF IInv, InstanceOK
<1>12. QED
  BY <1>7, <1>8, <1>9, <1>10, <1>11 DEF IInv

(* Only calls change.                                                      *)
LEMMA CallsStep ==
  ASSUME IInv, Still, UNCHANGED <<entry, running, journal>>, CallsOK'
  PROVE  IInv'
<1>1. Types' /\ TableOK' /\ RunsOK' /\ InstanceOK'
  BY DEF Still, IInv, Types, TableOK, RunsOK, InstanceOK
<1>2. \A g \in Gens : EntryOK(g)'
  BY DEF Still, IInv, EntryOK
<1>3. QED
  BY <1>1, <1>2, Zenon DEF IInv

LEMMA WaitIsCall ==
  ASSUME IInv, NEW m \in Models, table[m] # None, NEW first \in BOOLEAN,
         NEW kind \in {"load", "reload", "unload"}, NEW k \in Keys \cup {None}
  PROVE  Wait(kind, m, k, first) \in Call /\ Wait(kind, m, k, first).kind = kind
         /\ Wait(kind, m, k, first).key = k
<1>1. table[m] \in Gens
  BY DEF IInv, Types
<1>2. QED
  BY <1>1 DEF Wait, Call

LEMMA EnterStep ==
  ASSUME IInv, core = "up", NEW m \in Models, NEW k \in Keys, NEW rest \in SUBSET calls,
         Enter(m, k, rest), UNCHANGED <<core, old, todo, left, vmStops, running, journal>>
  PROVE  IInv'
<1>1. CASE table[m] = None /\ Begin(m, k) /\ calls' = rest
  <2>1. CallsOK'
    BY <1>1 DEF IInv, CallsOK
  <2>2. QED
    BY <1>1, <2>1, BeginStep
<1>2. CASE /\ In(m, "ready")
           /\ entry' = [entry EXCEPT ![table[m]] = Ending(@, FALSE)]
           /\ calls' = rest \cup {Wait("reload", m, k, TRUE)}
           /\ UNCHANGED <<loads, table, keeping>>
  <2> DEFINE kind == "reload"
             first == TRUE
             g == table[m]
  <2>1. kind \in {"load", "reload", "unload"} /\ table[m] # None /\ first \in BOOLEAN
        /\ k \in Keys \cup {None}
    BY <1>2 DEF In
  <2>2. calls' = rest \cup {Wait(kind, m, k, first)}
    BY <1>2
  <2> HIDE DEF kind, first
  <2>3. /\ Wait(kind, m, k, first) \in Call /\ Wait(kind, m, k, first).key = k
    BY <2>1, WaitIsCall
  <2>4. CallsOK'
    BY <2>2, <2>3, Zenon DEF IInv, CallsOK
  <2>5. g \in Gens /\ Live(g)
    BY <2>1 DEF IInv, Types, TableOK, Live
  <2>6. entry' = [entry EXCEPT ![g] = Ending(entry[g], FALSE)]
    BY <1>2
  <2>7. Still
    BY <1>2 DEF Still, keeping
  <2> HIDE DEF g
  <2>8. QED
    BY <2>4, <2>5, <2>6, <2>7, EndingStep, Zenon
<1>3. CASE calls' = rest /\ UNCHANGED <<loads, table, entry, keeping>>
  <2>1. CallsOK' /\ Still
    BY <1>3 DEF IInv, CallsOK, Still, keeping
  <2>2. QED
    BY <1>3, <2>1, CallsStep
<1>4. QED
  BY <1>1, <1>2, <1>3, Zenon DEF Enter

LEMMA LoadKeeps == ASSUME IInv, NEW m \in Models, NEW k \in Keys, Load(m, k) PROVE IInv'
<1>1. core = "up" /\ UNCHANGED <<core, old, todo, left, vmStops, running, journal>>
  BY DEF Load, instance
<1>2. CASE Enter(m, k, calls)
  BY <1>1, <1>2, EnterStep
<1>3. CASE /\ In(m, "stopping") /\ calls' = calls \cup {Wait("load", m, k, FALSE)}
           /\ UNCHANGED <<loads, table, entry, keeping>>
  <2> DEFINE kind == "load"
             first == FALSE
  <2>1. kind \in {"load", "reload", "unload"} /\ table[m] # None /\ first \in BOOLEAN
        /\ k \in Keys \cup {None}
    BY <1>3 DEF In
  <2>2. calls' = calls \cup {Wait(kind, m, k, first)}
    BY <1>3
  <2> HIDE DEF kind, first
  <2>3. /\ Wait(kind, m, k, first) \in Call /\ Wait(kind, m, k, first).key = k
    BY <2>1, WaitIsCall
  <2>4. CallsOK'
    BY <2>2, <2>3, Zenon DEF IInv, CallsOK
  <2>5. Still
    BY <1>1, <1>3 DEF Still, keeping
  <2>6. QED
    BY <1>1, <1>3, <2>4, <2>5, CallsStep
<1>4. QED
  BY <1>2, <1>3, Zenon DEF Load

LEMMA CallFacts ==
  ASSUME IInv, NEW c \in calls
  PROVE  c.model \in Models /\ (c.kind \in {"load", "reload"} => c.key \in Keys)
         /\ calls \ {c} \in SUBSET calls
  BY DEF IInv, CallsOK, Call

LEMMA FewerCalls == ASSUME IInv, NEW c \in calls, calls' = calls \ {c} PROVE CallsOK'
  BY DEF IInv, CallsOK

LEMMA LoadReturnsKeeps == ASSUME IInv, NEW c \in calls, LoadReturns(c) PROVE IInv'
<1>1. /\ core = "up" /\ UNCHANGED <<core, old, todo, left, vmStops, running, journal>>
      /\ c.kind = "load"
  BY DEF LoadReturns, Returned, instance
<1>2. CASE closed
  BY <1>1, <1>2, FewerCalls, CallsStep DEF LoadReturns, Still, keeping
<1>3. CASE ~closed
  <2>1. Enter(c.model, c.key, calls \ {c})
    BY <1>3 DEF LoadReturns
  <2>2. c.model \in Models /\ c.key \in Keys /\ calls \ {c} \in SUBSET calls
    BY <1>1, CallFacts
  <2>3. QED
    BY <1>1, <2>1, <2>2, EnterStep, Zenon
<1>4. QED
  BY <1>2, <1>3

LEMMA ReloadReturnsKeeps == ASSUME IInv, NEW c \in calls, ReloadReturns(c) PROVE IInv'
<1>1. /\ core = "up" /\ UNCHANGED <<core, old, todo, left, vmStops, running, journal>>
      /\ c.kind = "reload" /\ CallsOK'
  BY FewerCalls DEF ReloadReturns, Returned, instance
<1>2. CASE table[c.model] = None /\ Begin(c.model, c.key)
  <2>1. c.model \in Models /\ c.key \in Keys
    BY <1>1, CallFacts
  <2>2. QED
    BY <1>1, <1>2, <2>1, BeginStep, Zenon
<1>3. CASE UNCHANGED <<loads, table, entry, keeping>>
  BY <1>1, <1>3, CallsStep DEF Still, keeping
<1>4. QED
  BY <1>2, <1>3 DEF ReloadReturns

LEMMA DropCallKeeps ==
  ASSUME IInv, NEW c \in calls, LoadGivesUp(c) \/ UnloadReturns(c) PROVE IInv'
<1>1. Still /\ UNCHANGED <<entry, running, journal>> /\ calls' = calls \ {c}
  BY DEF LoadGivesUp, UnloadReturns, Still, instance, keeping
<1>2. QED
  BY <1>1, FewerCalls, CallsStep

LEMMA CallStepKeeps == ASSUME IInv, CallStep PROVE IInv'
  BY LoadReturnsKeeps, ReloadReturnsKeeps, DropCallKeeps DEF CallStep

(* Entries that change without docker: their place and container stay, or  *)
(* they end.                                                               *)
LEMMA MarksStep ==
  ASSUME IInv, core = "up", UNCHANGED <<core, old, loads, table, todo, left, vmStops, running, journal>>,
         hold' = "dead" => vmStops > 0, CallsOK', NEW f, entry' = [h \in Gens |-> f[h]],
         \A h \in Gens : f[h] = None <=> entry[h] = None,
         \A h \in Gens : entry[h] # None =>
           f[h] \in Entry /\ f[h].model = entry[h].model /\ f[h].cont = entry[h].cont
           /\ Good(f[h], h, running, journal, vmStops)
  PROVE  IInv'
<1>1. entry' \in [Gens -> Entry \cup {None}]
  BY Zenon
<1>2. \A h \in Gens : entry'[h] = f[h]
  OBVIOUS
<1>3. \A c \in running' : c[1] \in Gens /\ (entry[c[1]] # None => entry[c[1]].cont = c[2])
  BY DEF IInv, Types, RunsOK, Containers
<1>4. \A c \in running' : entry'[c[1]] # None => entry'[c[1]].cont = c[2]
  BY <1>2, <1>3
<1>5. /\ running' \subseteq journal' /\ journal' \subseteq Containers /\ \A c \in journal' : c[1] <= loads
  BY DEF IInv, Types, RunsOK, InstanceOK
<1>6. \A h \in Gens : entry'[h] # None <=> entry[h] # None
  BY <1>2, Zenon
<1>7. \A h \in Gens : entry[h] # None =>
        entry'[h].model = entry[h].model /\ Good(entry'[h], h, running', journal', vmStops)
  BY <1>2
<1>8. QED
  BY <1>1, <1>4, <1>5, <1>6, <1>7, EntriesStep, Zenon

LEMMA AbortedFacts ==
  ASSUME NEW e \in Entry, NEW g, NEW run, NEW jrn, NEW stops, Good(e, g, run, jrn, stops),
         NEW f, f = [e EXCEPT !.aborted = TRUE]
  PROVE  f \in Entry /\ f.model = e.model /\ f.cont = e.cont /\ f.lost = e.lost
         /\ Good(f, g, run, jrn, stops)
<1>1. /\ f \in Entry /\ f.model = e.model /\ f.pc = e.pc /\ f.stage = e.stage
      /\ f.cont = e.cont /\ f.attempt = e.attempt /\ f.lost = e.lost
  <2> DEFINE v == TRUE
  <2>1. v \in BOOLEAN /\ f = [e EXCEPT !.aborted = v]
    OBVIOUS
  <2> HIDE DEF v
  <2>2. QED
    BY <2>1, SetAborted, ZenonT(30)
<1>2. QED
  BY <1>1 DEF Good

LEMMA UnloadedFacts ==
  ASSUME IInv, NEW g \in Gens, Live(g)
  PROVE  /\ Unloaded(g) \in Entry /\ Unloaded(g).model = entry[g].model
         /\ Unloaded(g).cont = entry[g].cont /\ Good(Unloaded(g), g, running, journal, vmStops)
<1>1. entry[g] \in Entry /\ Good(entry[g], g, running, journal, vmStops)
  BY EntryGood
<1>2. CASE entry[g].state = "loading"
  BY <1>1, <1>2, AbortedFacts DEF Unloaded
<1>3. CASE entry[g].state # "loading" /\ entry[g].state = "stopping"
  BY <1>1, <1>3 DEF Unloaded
<1>4. CASE entry[g].state # "loading" /\ entry[g].state # "stopping"
  <2> DEFINE died == FALSE
             f == Ending(entry[g], died)
  <2>1. Unloaded(g) = f /\ died \in BOOLEAN
    BY <1>4 DEF Unloaded
  <2> HIDE DEF died
  <2>2. entry[g].lost => vmStops > 0
    BY <1>1 DEF Good
  <2>3. f \in Entry /\ f.model = entry[g].model /\ f.cont = entry[g].cont
    BY <1>1, <2>1, EndingFacts
  <2>4. Good(f, g, running, journal, vmStops)
    BY <1>1, <2>1, <2>2, EndingGood
  <2> HIDE DEF f
  <2>5. QED
    BY <2>1, <2>3, <2>4
<1>5. QED
  BY <1>2, <1>3, <1>4

LEMMA UnloadAllKeeps ==
  ASSUME IInv, core = "up", NEW ms \in SUBSET Models, UnloadAll(ms), Still, UNCHANGED <<running, journal>>
  PROVE  IInv'
<1> DEFINE present == {m \in ms : table[m] # None}
           f == [g \in Gens |-> IF \E m \in present : table[m] = g THEN Unloaded(g) ELSE entry[g]]
<1>1. /\ entry' = f
      /\ calls' = calls \cup
           {Wait("unload", m, None, ~In(m, "stopping")) : m \in {x \in present : ~In(x, "loading")}}
  BY Zenon DEF UnloadAll
<1>2. CallsOK'
  <2>1. ASSUME NEW m \in Models, table[m] # None
        PROVE  /\ Wait("unload", m, None, ~In(m, "stopping")) \in Call
               /\ Wait("unload", m, None, ~In(m, "stopping")).kind = "unload"
    <3> DEFINE b == ~In(m, "stopping")
    <3>1. b \in BOOLEAN /\ table[m] \in Gens
      BY <2>1 DEF IInv, Types, In
    <3> HIDE DEF b
    <3>2. Wait("unload", m, None, b) \in Call /\ Wait("unload", m, None, b).kind = "unload"
      BY <3>1 DEF Wait, Call
    <3>3. QED
      BY <3>2 DEF b
  <2>2. SUFFICES ASSUME NEW c \in calls'
                 PROVE  c \in Call /\ (c.kind \in {"load", "reload"} => c.key \in Keys)
    BY Zenon DEF CallsOK
  <2>3. CASE c \in calls
    BY <2>3 DEF IInv, CallsOK
  <2>4. CASE c \notin calls
    <3>1. PICK m \in Models : table[m] # None /\ c = Wait("unload", m, None, ~In(m, "stopping"))
      BY <1>1, <2>4, Zenon
    <3>2. QED
      BY <2>1, <3>1
  <2>5. QED
    BY <2>3, <2>4
<1>3. ASSUME NEW g \in Gens
      PROVE  /\ f[g] = None <=> entry[g] = None
             /\ entry[g] # None => f[g] \in Entry /\ f[g].model = entry[g].model
                  /\ f[g].cont = entry[g].cont /\ Good(f[g], g, running, journal, vmStops)
  <2>1. CASE \E m \in present : table[m] = g
    <3>1. f[g] = Unloaded(g)
      BY <2>1, Zenon
    <3>2. Live(g)
      BY <2>1 DEF IInv, TableOK, Live
    <3> HIDE DEF f
    <3>3. QED
      BY <3>1, <3>2, UnloadedFacts, ConstantsAssumption, Zenon DEF Live
  <2>2. CASE ~\E m \in present : table[m] = g
    <3>1. f[g] = entry[g]
      BY <2>2
    <3> HIDE DEF f
    <3>2. entry[g] # None => Live(g)
      BY DEF Live
    <3>3. QED
      BY <3>1, <3>2, EntryGood, Zenon
  <2>3. QED
    BY <2>1, <2>2, Zenon
<1>4. /\ UNCHANGED <<core, old, loads, table, todo, left, vmStops>> /\ (hold' = "dead" => vmStops > 0)
      /\ entry' = [h \in Gens |-> f[h]]
  BY <1>1 DEF Still, IInv, InstanceOK
<1> HIDE DEF f, present
<1>5. QED
  BY <1>2, <1>3, <1>4, MarksStep, Zenon

LEMMA UnloadKeeps == ASSUME IInv, NEW m \in Models, Unload(m) PROVE IInv'
<1>1. core = "up" /\ UnloadAll({m}) /\ Still /\ UNCHANGED <<running, journal>>
  BY DEF Unload, Still, instance, keeping
<1>2. QED
  BY <1>1, UnloadAllKeeps

LEMMA ShutdownKeeps == ASSUME IInv, Shutdown PROVE IInv'
<1>1. core = "up" /\ UnloadAll(Models) /\ Still /\ UNCHANGED <<running, journal>>
  BY DEF Shutdown, Still, instance, keeping
<1>2. QED
  BY <1>1, UnloadAllKeeps

LEMMA CancelKeeps == ASSUME IInv, NEW g \in Gens, Cancel(g) PROVE IInv'
<1> DEFINE e == [entry[g] EXCEPT !.aborted = TRUE]
<1>1. /\ Live(g) /\ entry' = [entry EXCEPT ![g] = e] /\ Still /\ UNCHANGED calls
      /\ UNCHANGED <<running, journal>>
  BY DEF Cancel, Still, instance, keeping
<1>2. e \in Entry /\ e.model = entry[g].model /\ e.cont = entry[g].cont
      /\ Good(e, g, running, journal, vmStops)
  BY <1>1, EntryGood, AbortedFacts
<1> HIDE DEF e
<1>3. \A c \in running' : c[1] = g => e.cont = c[2]
  BY <1>1, <1>2, EntryFacts DEF Held
<1>4. Good(e, g, running', journal', vmStops)
  BY <1>1, <1>2
<1>5. QED
  BY <1>1, <1>2, <1>3, <1>4, EntryFacts, EntryStep, SameCalls, ZenonT(30)

-----------------------------------------------------------------------------
(* Engines that exit, the distribution, and cores                          *)

(* Engines stop running and nothing else changes.                          *)
LEMMA FewerRun ==
  ASSUME IInv, running' \subseteq running, vmStops' \in Nat, vmStops' >= vmStops,
         hold' = "dead" => vmStops' > 0,
         UNCHANGED <<core, old, loads, table, entry, calls, journal, todo, left>>
  PROVE  IInv'
<1>1. Types' /\ TableOK' /\ CallsOK'
  BY DEF IInv, Types, TableOK, CallsOK
<1>2. vmStops > 0 => vmStops' > 0
  BY DEF IInv, Types
<1>3. ASSUME NEW g \in Gens, entry[g] # None
      PROVE  Good(entry[g], g, running', journal', vmStops')
  <2>1. Good(entry[g], g, running, journal, vmStops)
    BY <1>3 DEF IInv, EntryOK
  <2>2. QED
    BY <1>2, <2>1 DEF Good
<1>4. \A g \in Gens : EntryOK(g)'
  BY <1>3 DEF IInv, EntryOK
<1>5. RunsOK'
  BY <1>2 DEF IInv, RunsOK
<1>6. InstanceOK'
  BY <1>2 DEF IInv, InstanceOK
<1>7. QED
  BY <1>1, <1>4, <1>5, <1>6, Zenon DEF IInv

LEMMA ExitsKeep ==
  ASSUME IInv, NEW c \in Containers, EngineExits(c) \/ WatchdogEnds(c) PROVE IInv'
<1>1. /\ running' \subseteq running /\ UNCHANGED <<core, old, loads, table, entry, calls, journal, todo, left>>
      /\ UNCHANGED <<vmStops, hold>>
  BY DEF EngineExits, WatchdogEnds, instance, keeping
<1>2. vmStops' \in Nat /\ vmStops' >= vmStops /\ (hold' = "dead" => vmStops' > 0)
  BY <1>1 DEF IInv, Types, InstanceOK
<1>3. QED
  BY <1>1, <1>2, FewerRun

LEMMA VmStopsKeeps == ASSUME IInv, VmStops PROVE IInv'
<1>1. running' \subseteq running /\ UNCHANGED <<core, old, loads, table, entry, calls, journal, todo, left>>
  BY DEF VmStops, instance
<1>2. vmStops' \in Nat /\ vmStops' >= vmStops /\ vmStops' > 0
  BY DEF IInv, Types, VmStops
<1>3. QED
  BY <1>1, <1>2, FewerRun

LEMMA DesertedFacts ==
  ASSUME IInv, vmStops > 0, NEW g \in Gens, Live(g)
  PROVE  /\ Deserted(entry[g]) \in Entry /\ Deserted(entry[g]).model = entry[g].model
         /\ Deserted(entry[g]).cont = entry[g].cont
         /\ Good(Deserted(entry[g]), g, running, journal, vmStops)
<1> DEFINE v == TRUE
<1>1. entry[g] \in Entry /\ Good(entry[g], g, running, journal, vmStops)
  BY EntryGood
<1>2. v \in BOOLEAN
  OBVIOUS
<1>3. CASE entry[g].state = "loading"
  <2> DEFINE b == [entry[g] EXCEPT !.lost = v]
             f == [b EXCEPT !.aborted = TRUE]
  <2>1. Deserted(entry[g]) = f
    BY <1>3, Zenon DEF Deserted
  <2> HIDE DEF v
  <2>2. /\ b \in Entry /\ b.model = entry[g].model /\ b.pc = entry[g].pc /\ b.stage = entry[g].stage
        /\ b.cont = entry[g].cont /\ b.attempt = entry[g].attempt
    BY <1>1, <1>2, SetLost
  <2> HIDE DEF b
  <2>3. Good(b, g, running, journal, vmStops)
    BY <1>1, <2>2 DEF Good
  <2>4. f \in Entry /\ f.model = b.model /\ f.cont = b.cont /\ Good(f, g, running, journal, vmStops)
    BY <2>2, <2>3, AbortedFacts
  <2> HIDE DEF f
  <2>5. QED
    BY <2>1, <2>2, <2>4
<1>4. CASE entry[g].state # "loading"
  <2> DEFINE b == Ending(entry[g], v)
             f == [b EXCEPT !.lost = v]
  <2>1. Deserted(entry[g]) = f
    BY <1>4 DEF Deserted
  <2> HIDE DEF v
  <2>2. /\ b \in Entry /\ b.model = entry[g].model /\ b.pc = "over" /\ b.stage = "closing"
        /\ b.cont = entry[g].cont
    BY <1>1, <1>2, EndingFacts
  <2> HIDE DEF b
  <2>3. /\ f \in Entry /\ f.model = entry[g].model /\ f.pc = "over" /\ f.stage = "closing"
        /\ f.cont = entry[g].cont
    BY <1>2, <2>2, SetLost
  <2> HIDE DEF f
  <2>4. Good(f, g, running, journal, vmStops)
    BY <2>3 DEF Good, Bare, Holding, Quiet
  <2>5. QED
    BY <2>1, <2>3, <2>4, Zenon
<1>5. QED
  BY <1>3, <1>4, Zenon

LEMMA DistributionStoppedKeeps == ASSUME IInv, OnDistributionStopped PROVE IInv'
<1> DEFINE hit == {g \in Gens : entry[g] # None /\ entry[g].state \in {"ready", "loading"}}
           f == [g \in Gens |-> IF g \in hit THEN Deserted(entry[g]) ELSE entry[g]]
<1>1. /\ core = "up" /\ vmStops > 0 /\ hold' = "none" /\ entry' = f /\ UNCHANGED calls
      /\ UNCHANGED <<core, old, loads, table, todo, left, vmStops, running, journal>>
  BY DEF OnDistributionStopped, instance, IInv, InstanceOK
<1>2. ASSUME NEW g \in Gens
      PROVE  /\ f[g] = None <=> entry[g] = None
             /\ entry[g] # None => f[g] \in Entry /\ f[g].model = entry[g].model
                  /\ f[g].cont = entry[g].cont /\ Good(f[g], g, running, journal, vmStops)
  <2>1. entry[g] # None => Live(g)
    BY <1>1 DEF Live
  <2>2. CASE g \in hit
    <3>1. f[g] = Deserted(entry[g]) /\ entry[g] # None
      BY <2>2
    <3> HIDE DEF f
    <3>2. QED
      BY <1>1, <2>1, <3>1, DesertedFacts, ConstantsAssumption, Zenon
  <2>3. CASE g \notin hit
    <3>1. f[g] = entry[g]
      BY <2>3
    <3> HIDE DEF f
    <3>2. QED
      BY <2>1, <3>1, EntryGood, Zenon
  <2>4. QED
    BY <2>2, <2>3, Zenon
<1>3. entry' = [h \in Gens |-> f[h]] /\ (hold' = "dead" => vmStops > 0) /\ CallsOK'
  BY <1>1, SameCalls
<1> HIDE DEF f, hit
<1>4. QED
  BY <1>1, <1>2, <1>3, MarksStep, Zenon

LEMMA ExitKeeps == ASSUME IInv, Exit PROVE IInv'
<1>1. /\ core' = "off" /\ old' = loads /\ table' = [m \in Models |-> None]
      /\ entry' = [g \in Gens |-> None] /\ calls' = {} /\ todo' = {} /\ left' = {} /\ hold' = "none"
      /\ UNCHANGED <<loads, running, journal, vmStops>>
  BY DEF Exit
<1>2. Types' /\ CallsOK'
  BY <1>1 DEF IInv, Types, CallsOK
<1>3. (\A g \in Gens : EntryOK(g)') /\ TableOK'
  BY <1>1 DEF EntryOK, TableOK
<1>4. RunsOK'
  BY <1>1 DEF IInv, Types, Containers, RunsOK
<1>5. InstanceOK'
  BY <1>1 DEF IInv, InstanceOK
<1>6. QED
  BY <1>2, <1>3, <1>4, <1>5 DEF IInv

(* While no core is up there are no entries.                               *)
LEMMA NoEntries == ASSUME IInv, core # "up" PROVE \A g \in Gens : entry[g] = None
  BY DEF IInv, EntryOK

LEMMA StartKeeps == ASSUME IInv, Start PROVE IInv'
<1>1. /\ core = "off" /\ core' = "starting" /\ todo' = journal
      /\ UNCHANGED <<loads, old, left, table, entry, calls, running, journal, hold, vmStops>>
  BY DEF Start, keeping
<1>2. Types' /\ CallsOK' /\ TableOK'
  BY <1>1 DEF IInv, Types, CallsOK, TableOK
<1>3. \A g \in Gens : EntryOK(g)'
  BY <1>1, NoEntries DEF EntryOK
<1>4. RunsOK'
  BY <1>1 DEF IInv, RunsOK
<1>5. InstanceOK'
  BY <1>1 DEF IInv, InstanceOK
<1>6. QED
  BY <1>2, <1>3, <1>4, <1>5 DEF IInv

LEMMA FinishStartKeeps == ASSUME IInv, FinishStart PROVE IInv'
<1>1. /\ core = "starting" /\ core' = "up" /\ todo = {}
      /\ UNCHANGED <<loads, old, todo, left, table, entry, calls, running, journal, hold, vmStops>>
  BY DEF FinishStart, keeping
<1>2. Types' /\ CallsOK' /\ TableOK'
  BY <1>1 DEF IInv, Types, CallsOK, TableOK
<1>3. \A g \in Gens : EntryOK(g)'
  BY <1>1, NoEntries DEF EntryOK
<1>4. RunsOK'
  BY <1>1 DEF IInv, RunsOK
<1>5. InstanceOK'
  BY <1>1 DEF IInv, InstanceOK
<1>6. QED
  BY <1>2, <1>3, <1>4, <1>5 DEF IInv

(* One record of another instance is worked on.                            *)
LEMMA RecordStep ==
  ASSUME IInv, NEW c \in Containers, c[1] <= old, UNCHANGED reconcileFrame,
         todo' \in SUBSET todo, core = "up" => todo' = {}, left' \in SUBSET (left \cup {c}),
         running' \in SUBSET running, journal' \in {journal, journal \ {c}},
         \A x \in todo \cup left : x # c => x \in todo' \cup left',
         \A x \in left : x # c => x \in left',
         \/ journal' = journal \ {c} /\ c \notin running'
         \/ journal' = journal /\ (c \in left' \/ c \notin running')
  PROVE  IInv'
<1>1. UNCHANGED <<core, old, loads, table, entry, calls, hold, vmStops>>
  BY DEF reconcileFrame, keeping
<1>2. Types' /\ CallsOK' /\ TableOK'
  BY <1>1 DEF IInv, Types, CallsOK, TableOK
<1>3. ASSUME NEW g \in Gens PROVE EntryOK(g)'
  <2>1. CASE entry[g] = None
    BY <1>1, <2>1, Zenon DEF EntryOK
  <2>2. CASE entry[g] # None
    <3>1. /\ core = "up" /\ old < g /\ g <= loads /\ table[entry[g].model] = g
          /\ Good(entry[g], g, running, journal, vmStops)
      BY <2>2 DEF IInv, EntryOK
    <3>2. c[1] # g
      BY <3>1 DEF IInv, Types, Gens
    <3>3. <<g, entry[g].cont>> \in journal => <<g, entry[g].cont>> \in journal'
      BY <3>2
    <3>4. Good(entry[g], g, running', journal', vmStops)
      BY <3>1, <3>3 DEF Good
    <3>5. QED
      BY <1>1, <3>1, <3>4, Zenon DEF EntryOK
  <2>3. QED
    BY <2>1, <2>2, Zenon
<1>4. RunsOK'
  <2>1. running' \subseteq journal'
    BY Zenon DEF IInv, RunsOK
  <2>2. ASSUME NEW x \in running'
        PROVE  /\ entry'[x[1]] # None => entry'[x[1]].cont = x[2]
               /\ core' = "up" => entry'[x[1]] # None \/ x \in left' \/ vmStops' > 0
               /\ core' = "starting" => x \in todo' \/ x \in left'
    BY <1>1, <2>1 DEF IInv, RunsOK
  <2>3. QED
    BY <2>1, <2>2, Zenon DEF RunsOK
<1>5. InstanceOK'
  BY <1>1 DEF IInv, InstanceOK
<1>6. QED
  BY <1>2, <1>3, <1>4, <1>5 DEF IInv

LEMMA ReconcileKeeps == ASSUME IInv, NEW c \in Containers, Reconcile(c) PROVE IInv'
<1>1. c[1] <= old /\ core = "starting" /\ todo' = todo \ {c} /\ UNCHANGED reconcileFrame
  BY DEF Reconcile, IInv, InstanceOK
<1>2. CASE Resolved(c) /\ UNCHANGED left
  BY <1>1, <1>2, RecordStep DEF Resolved
<1>3. CASE Unresolved(c) /\ left' = left \cup {c}
  BY <1>1, <1>3, RecordStep DEF Unresolved
<1>4. QED
  BY <1>2, <1>3 DEF Reconcile

LEMMA EvictLeftoverKeeps == ASSUME IInv, NEW c \in Containers, EvictLeftover(c) PROVE IInv'
<1>1. /\ c[1] <= old /\ core = "up" /\ c \in left /\ todo = {} /\ todo' = todo
      /\ UNCHANGED reconcileFrame
  BY DEF EvictLeftover, IInv, InstanceOK
<1>2. CASE Resolved(c) /\ left' = left \ {c}
  BY <1>1, <1>2, RecordStep DEF Resolved
<1>3. CASE Unresolved(c) /\ UNCHANGED left
  BY <1>1, <1>3, RecordStep DEF Unresolved
<1>4. QED
  BY <1>2, <1>3 DEF EvictLeftover

-----------------------------------------------------------------------------
(* The invariant                                                           *)

LEMMA InitHolds == Init => IInv
<1> SUFFICES ASSUME Init PROVE IInv
  OBVIOUS
<1>1. Types /\ CallsOK
  BY ConstantsAssumption DEF Init, Types, CallsOK
<1>2. (\A g \in Gens : EntryOK(g)) /\ TableOK /\ RunsOK /\ InstanceOK
  BY ConstantsAssumption DEF Init, EntryOK, TableOK, RunsOK, InstanceOK
<1>3. QED
  BY <1>1, <1>2 DEF IInv

LEMMA NextKeeps == IInv /\ [Next]_vars => IInv'
<1> SUFFICES ASSUME IInv, [Next]_vars PROVE IInv'
  OBVIOUS
<1>1. CASE \E m \in Models : Unload(m) \/ \E k \in Keys : Load(m, k)
  BY <1>1, UnloadKeeps, LoadKeeps, Zenon
<1>2. CASE \E g \in Gens : Cancel(g) \/ LoadStep(g) \/ EndStep(g) \/ OnCrash(g)
  BY <1>2, CancelKeeps, LoadStepKeeps, EndStepKeeps, OnCrashKeeps, Zenon
<1>3. CASE \E c \in calls : LoadGivesUp(c)
  BY <1>3, DropCallKeeps, Zenon
<1>4. CASE CallStep \/ Shutdown
  BY <1>4, CallStepKeeps, ShutdownKeeps, Zenon
<1>5. CASE \E c \in Containers : EngineExits(c) \/ WatchdogEnds(c) \/ Reconcile(c) \/ EvictLeftover(c)
  BY <1>5, ExitsKeep, ReconcileKeeps, EvictLeftoverKeeps, Zenon
<1>6. CASE VmStops \/ OnDistributionStopped
  BY <1>6, VmStopsKeeps, DistributionStoppedKeeps, Zenon
<1>7. CASE Exit \/ Start \/ FinishStart
  BY <1>7, ExitKeeps, StartKeeps, FinishStartKeeps, Zenon
<1>8. CASE UNCHANGED vars
  <2>1. Still /\ UNCHANGED <<entry, running, journal, calls>>
    BY <1>8 DEF vars, instance, keeping, Still
  <2>2. QED
    BY <2>1, SameCalls, CallsStep
<1>9. QED
  BY <1>1, <1>2, <1>3, <1>4, <1>5, <1>6, <1>7, <1>8, Zenon DEF Next

LEMMA Inductive == Spec => []IInv
<1>1. QED
  BY InitHolds, NextKeeps, PTL DEF Spec

(* However many models, loads, port attempts, republished ports, cores and *)
(* stops of the distribution: a container that runs has its record on disk *)
(* (createAndStart journals before it starts, teardown and reconcile drop  *)
(* a record after a confirmed stop), so the next core finds it.            *)
THEOREM RunningIsJournalled == Spec => []JournalCoversRunning
<1>1. IInv => JournalCoversRunning
  BY DEF IInv, RunsOK, JournalCoversRunning
<1>2. QED
  BY <1>1, Inductive, PTL

(* A running engine keeps its reservation: its entry is in this.entries    *)
(* and holds its container, or it is a leftover the reconcile kept, or a   *)
(* stop of the distribution dropped its entry (teardown of a lost entry).  *)
THEOREM RunningIsReserved == Spec => []Reserved
<1>1. ASSUME IInv PROVE Reserved
  <2> SUFFICES ASSUME core = "up", NEW c \in running
               PROVE  \/ InTable(c[1]) /\ entry[c[1]].cont = c[2]
                      \/ c \in left
                      \/ vmStops > 0 /\ entry[c[1]] = None
    BY DEF Reserved
  <2>1. c[1] \in Gens
    BY <1>1 DEF IInv, Types, Containers
  <2>2. /\ entry[c[1]] # None => entry[c[1]].cont = c[2]
        /\ entry[c[1]] # None \/ c \in left \/ vmStops > 0
    BY <1>1 DEF IInv, RunsOK
  <2>3. entry[c[1]] # None => InTable(c[1])
    BY <1>1, <2>1 DEF IInv, EntryOK, InTable
  <2>4. QED
    BY <2>2, <2>3
<1>2. QED
  BY <1>1, Inductive, PTL

(* The table of a core that stays up: an entry is put in for a model that  *)
(* has none, or the entry of a generation is taken out.                    *)
TableKept == \A m \in Models : table[m] # None /\ core' # "off" => table'[m] \in {None, table[m]}

LEMMA SameTable == ASSUME UNCHANGED table PROVE TableKept
  BY DEF TableKept

LEMMA BeginTable ==
  ASSUME IInv, NEW m \in Models, NEW k, table[m] = None, Begin(m, k) PROVE TableKept
  BY DEF IInv, Types, Begin, TableKept

LEMMA GoneTable == ASSUME NEW g, Gone(g) PROVE TableKept
  BY DEF Gone, TableKept

LEMMA EnterTable ==
  ASSUME IInv, NEW m \in Models, NEW k, NEW rest, Enter(m, k, rest) PROVE TableKept
<1>1. (table[m] = None /\ Begin(m, k)) \/ UNCHANGED table
  BY Zenon DEF Enter
<1>2. QED
  BY <1>1, SameTable, BeginTable

LEMMA NextTable == ASSUME IInv, Next PROVE TableKept
<1>1. CASE \E m \in Models : Unload(m) \/ \E k \in Keys : Load(m, k)
  <2>1. ASSUME NEW m \in Models, NEW k \in Keys, Load(m, k) PROVE TableKept
    <3>1. Enter(m, k, calls) \/ UNCHANGED table
      BY <2>1, Zenon DEF Load
    <3>2. QED
      BY <3>1, EnterTable, SameTable, Zenon
  <2>2. QED
    BY <1>1, <2>1, SameTable DEF Unload
<1>2. CASE \E g \in Gens : Cancel(g) \/ LoadStep(g) \/ EndStep(g) \/ OnCrash(g)
  <2>1. ASSUME NEW g \in Gens, LoadStep(g) \/ Cancel(g) \/ OnCrash(g) PROVE UNCHANGED table
    <3>1. CASE Throws(g) \/ StopsPrevious(g) \/ Prepares(g) \/ FirstHeartbeat(g) \/ PreparesLaunch(g)
               \/ Creates(g) \/ Journals(g) \/ Unmakes(g) \/ StartsContainer(g)
      BY <3>1 DEF Throws, StopsPrevious, Prepares, FirstHeartbeat, PreparesLaunch,
                  Creates, Journals, Unmakes, StartsContainer, loadFrame
    <3>2. CASE BecomesReady(g) \/ PortTaken(g) \/ Discards(g) \/ RemovesTry(g) \/ UnjournalsTry(g)
               \/ Accepted(g) \/ Serves(g) \/ FailLoad(g) \/ Cancel(g) \/ OnCrash(g)
      BY <3>2, Zenon DEF BecomesReady, PortTaken, Discards, RemovesTry, UnjournalsTry,
                  Accepted, Serves, FailLoad, Cancel, OnCrash, loadFrame
    <3>3. QED
      BY <2>1, <3>1, <3>2, Zenon DEF LoadStep
  <2>2. ASSUME NEW g \in Gens, EndStep(g) PROVE Gone(g) \/ UNCHANGED table
    BY <2>2, Zenon DEF EndStep, Closes, Stops, Removes, Unjournals, Proceeds, Unconfirmed
  <2>3. QED
    BY <1>2, <2>1, <2>2, SameTable, GoneTable, Zenon
<1>3. CASE \E c \in calls : LoadGivesUp(c)
  BY <1>3, SameTable DEF LoadGivesUp
<1>4. CASE CallStep \/ Shutdown
  <2>1. ASSUME NEW c \in calls, LoadReturns(c) PROVE TableKept
    <3>1. c.model \in Models
      BY CallFacts
    <3>2. Enter(c.model, c.key, calls \ {c}) \/ UNCHANGED table
      BY <2>1, Zenon DEF LoadReturns
    <3>3. QED
      BY <3>1, <3>2, EnterTable, SameTable, Zenon
  <2>2. ASSUME NEW c \in calls, ReloadReturns(c) PROVE TableKept
    <3>1. c.model \in Models
      BY CallFacts
    <3>2. (table[c.model] = None /\ Begin(c.model, c.key)) \/ UNCHANGED table
      BY <2>2, Zenon DEF ReloadReturns
    <3>3. QED
      BY <3>1, <3>2, BeginTable, SameTable, Zenon
  <2>3. ASSUME NEW c \in calls, UnloadReturns(c) PROVE TableKept
    BY <2>3, SameTable DEF UnloadReturns
  <2>4. CASE Shutdown
    BY <2>4, SameTable DEF Shutdown
  <2>5. QED
    BY <1>4, <2>1, <2>2, <2>3, <2>4, Zenon DEF CallStep
<1>5. CASE \E c \in Containers : EngineExits(c) \/ WatchdogEnds(c) \/ Reconcile(c) \/ EvictLeftover(c)
  BY <1>5, SameTable DEF EngineExits, WatchdogEnds, Reconcile, EvictLeftover, reconcileFrame
<1>6. CASE VmStops \/ OnDistributionStopped
  BY <1>6, SameTable DEF VmStops, OnDistributionStopped
<1>7. CASE Start \/ FinishStart
  BY <1>7, SameTable DEF Start, FinishStart
<1>8. CASE Exit
  BY <1>8 DEF Exit, TableKept
<1>9. QED
  BY <1>1, <1>2, <1>3, <1>4, <1>5, <1>6, <1>7, <1>8, Zenon DEF Next

(* A model's entry is never replaced in this.entries while its core lives: *)
(* the loads, reloads and waiting loads of load() each look again after    *)
(* their last await, so only a model without an entry gets one.            *)
THEOREM EntryNotOverwritten == Spec => NoOverwrite
<1>1. ASSUME IInv, [Next]_vars
      PROVE  [\A m \in Models : table[m] # None /\ core' # "off" => table'[m] \in {None, table[m]}]_vars
  BY <1>1, NextTable DEF TableKept
<1>2. QED
  BY <1>1, Inductive, PTL DEF Spec, NoOverwrite

-----------------------------------------------------------------------------
(* The variables the first invariant says nothing of                       *)

RestOK ==
  /\ cores \in 0 .. MaxCores /\ closed \in BOOLEAN /\ vmStops \in 0 .. MaxVmStops
  /\ told \in [Gens -> Nat] /\ served \subseteq Gens /\ missed \subseteq Gens
  /\ hold \in {"none", "alive", "dead"} /\ leases \subseteq Gens

LEMMA RestInit == Init => RestOK
<1>1. 0 \in 0 .. MaxCores /\ 0 \in 0 .. MaxVmStops /\ [g \in Gens |-> 0] \in [Gens -> Nat]
  BY ConstantsAssumption
<1>2. QED
  BY <1>1, Zenon DEF Init, RestOK

LEMMA RestSame ==
  ASSUME RestOK, UNCHANGED <<cores, closed, vmStops, history, keeping>> PROVE RestOK'
  BY DEF RestOK, history, keeping

LEMMA BeginRest ==
  ASSUME IInv, RestOK, NEW m, NEW k, Begin(m, k), UNCHANGED <<cores, vmStops>>,
         closed' \in BOOLEAN, told' \in [Gens -> Nat], served' \subseteq Gens, missed' \subseteq Gens
  PROVE  RestOK'
<1>1. loads + 1 \in Gens
  BY ConstantsAssumption DEF IInv, Types, Begin, Gens
<1>2. leases' \subseteq Gens /\ hold' \in {"none", "alive", "dead"}
  BY <1>1 DEF Begin, Acquire, keeping, RestOK
<1>3. QED
  BY <1>2 DEF RestOK

LEMMA EnterRest ==
  ASSUME IInv, RestOK, NEW m, NEW k, NEW rest, Enter(m, k, rest),
         UNCHANGED <<cores, closed, vmStops, history>>
  PROVE  RestOK'
<1>1. CASE Begin(m, k)
  BY <1>1, BeginRest DEF RestOK, history
<1>2. CASE UNCHANGED keeping
  BY <1>2, RestSame
<1>3. QED
  BY <1>1, <1>2, Zenon DEF Enter

LEMMA CallRest ==
  ASSUME IInv, RestOK, NEW c \in calls, LoadReturns(c) \/ ReloadReturns(c) \/ UnloadReturns(c)
  PROVE  RestOK'
<1>1. Reports(c) \in [Gens -> Nat]
  BY DEF IInv, CallsOK, Call, RestOK, Reports
<1>2. CASE LoadReturns(c)
  BY <1>2, EnterRest, RestSame DEF LoadReturns, instance
<1>3. CASE ReloadReturns(c)
  <2>1. UNCHANGED <<cores, closed, vmStops, served, missed>> /\ told' \in [Gens -> Nat]
    BY <1>1, <1>3 DEF ReloadReturns, instance
  <2>2. CASE Begin(c.model, c.key)
    BY <2>1, <2>2, BeginRest DEF RestOK
  <2>3. CASE UNCHANGED keeping
    BY <2>1, <2>3 DEF RestOK, keeping
  <2>4. QED
    BY <1>3, <2>2, <2>3 DEF ReloadReturns
<1>4. CASE UnloadReturns(c)
  BY <1>1, <1>4 DEF UnloadReturns, RestOK, instance, keeping
<1>5. QED
  BY <1>2, <1>3, <1>4

LEMMA EndRest == ASSUME RestOK, NEW g \in Gens, EndStep(g) PROVE RestOK'
<1>1. Died(g) \in [Gens -> Nat]
  BY DEF RestOK, Died
<1>2. UNCHANGED <<cores, closed, served, vmStops>>
  BY DEF EndStep, Closes, Stops, Removes, Unjournals, endFrame, instance
<1>3. CASE Gone(g)
  BY <1>1, <1>2, <1>3 DEF Gone, Release, RestOK
<1>4. CASE Unconfirmed(g)
  BY <1>1, <1>2, <1>4 DEF Unconfirmed, keeping, RestOK
<1>5. CASE UNCHANGED <<keeping, told, missed>>
  BY <1>2, <1>5 DEF keeping, RestOK
<1>6. QED
  BY <1>3, <1>4, <1>5 DEF EndStep, Closes, Stops, Removes, Unjournals, Proceeds

LEMMA LoadRest == ASSUME RestOK, NEW g \in Gens, LoadStep(g) PROVE RestOK'
<1>1. UNCHANGED <<cores, closed, vmStops, keeping>>
  BY Zenon DEF LoadStep, Throws, StopsPrevious, Prepares, FirstHeartbeat, PreparesLaunch, Creates, Journals,
     Unmakes, StartsContainer, BecomesReady, PortTaken, Discards, RemovesTry, UnjournalsTry, Accepted,
     Serves, FailLoad, loadFrame, instance
<1>2. UNCHANGED <<told, missed>> /\ (served' = served \/ served' = served \cup {g})
  BY Zenon DEF LoadStep, Throws, StopsPrevious, Prepares, FirstHeartbeat, PreparesLaunch, Creates, Journals,
     Unmakes, StartsContainer, BecomesReady, PortTaken, Discards, RemovesTry, UnjournalsTry, Accepted,
     Serves, FailLoad, history
<1>3. QED
  BY <1>1, <1>2 DEF RestOK, keeping

LEMMA RestNext == IInv /\ RestOK /\ [Next]_vars => RestOK'
<1> SUFFICES ASSUME IInv, RestOK, [Next]_vars PROVE RestOK'
  OBVIOUS
<1>1. ASSUME NEW m \in Models, Unload(m) PROVE RestOK'
  BY <1>1, RestSame DEF Unload, instance
<1>2. ASSUME NEW m \in Models, NEW k \in Keys, Load(m, k) PROVE RestOK'
  BY <1>2, EnterRest, RestSame, Zenon DEF Load, instance
<1>3. ASSUME NEW g \in Gens, Cancel(g) \/ OnCrash(g) PROVE RestOK'
  BY <1>3, RestSame, Zenon DEF Cancel, OnCrash, loadFrame, instance
<1>4. ASSUME NEW c \in calls, LoadGivesUp(c) PROVE RestOK'
  BY <1>4, RestSame DEF LoadGivesUp, instance
<1>5. CASE CallStep
  BY <1>5, CallRest DEF CallStep
<1>6. CASE Shutdown
  BY <1>6 DEF Shutdown, RestOK, instance, history, keeping
<1>7. ASSUME NEW c \in Containers, EngineExits(c) \/ WatchdogEnds(c) PROVE RestOK'
  BY <1>7, RestSame DEF EngineExits, WatchdogEnds, instance
<1>8. ASSUME NEW c \in Containers, Reconcile(c) \/ EvictLeftover(c) PROVE RestOK'
  BY <1>8, RestSame DEF Reconcile, EvictLeftover, reconcileFrame
<1>9. CASE VmStops
  BY <1>9, ConstantsAssumption DEF VmStops, RestOK, instance, history
<1>10. CASE OnDistributionStopped
  BY <1>10 DEF OnDistributionStopped, RestOK, instance, history
<1>11. CASE Exit
  <2>1. [g \in Gens |-> 0] \in [Gens -> Nat]
    OBVIOUS
  <2>2. QED
    BY <1>11, <2>1, Zenon DEF Exit, RestOK
<1>12. CASE Start
  BY <1>12, ConstantsAssumption DEF Start, RestOK, history, keeping
<1>13. CASE FinishStart
  BY <1>13, RestSame DEF FinishStart
<1>14. CASE UNCHANGED vars
  BY <1>14, RestSame DEF vars, instance
<1>15. QED
  BY <1>1, <1>2, <1>3, <1>4, <1>5, <1>6, <1>7, <1>8, <1>9, <1>10, <1>11, <1>12, <1>13, <1>14,
     EndRest, LoadRest DEF Next

LEMMA RestInductive == Spec => []RestOK
<1>1. Init => RestOK
  BY RestInit
<1>2. IInv /\ RestOK /\ [Next]_vars => RestOK'
  BY RestNext
<1>3. QED
  BY <1>1, <1>2, Inductive, PTL DEF Spec

(* Every variable of the lifecycle, the journal and the keeper keeps its   *)
(* type (lifecycle.ts, execution-journal.ts, keeper.ts).                   *)
THEOREM TextTypeCorrect == Spec => []TypeOK
<1>1. IInv /\ RestOK => TypeOK
  <2>1. ASSUME Types PROVE old \in 0 .. MaxLoads
    BY <2>1, ConstantsAssumption DEF Types
  <2>2. QED
    BY <2>1, Zenon DEF IInv, Types, CallsOK, RestOK, TypeOK
<1>2. QED
  BY <1>1, Inductive, RestInductive, PTL
=============================================================================
