---------------------- MODULE ManagedTextReportProofs ----------------------
(***************************************************************************)
(* Proofs about what ManagedText tells its listeners, for any models,      *)
(* keys, number of loads and cores: a session that served is reported      *)
(* ended exactly once, however its unload, reload, crash and WSL stop      *)
(* overlapped.                                                             *)
(***************************************************************************)
EXTENDS ManagedTextProofs

-----------------------------------------------------------------------------
(* The account of a generation                                             *)

(* A call that will report the teardown it began, unless that fails.       *)
Owes(c) == c.first /\ c.out # "unconfirmed"
NoneOwes(cs) == \A c \in cs : ~Owes(c)
OneOwes(cs) == \E c \in cs : Owes(c) /\ \A b \in cs : Owes(b) => b = c

(* Reports already made of a crash whose stop was not confirmed.           *)
Due(g, mis) == IF g \in mis THEN 1 ELSE 0

(* The calls of cs that wait for generation g.                             *)
On(g, cs) == {c \in cs : c.on = g}

(* What the listeners were told of generation g (n), what its calls cs     *)
(* still have to tell them, and where its entry e is: together they make   *)
(* one report, and one more for a crash whose stop was not confirmed.      *)
Account(g, e, n, srv, mis, cs) ==
  /\ e # None /\ e.state \in {"loading", "ready"} => n = 0 /\ g \notin mis /\ cs = {}
  /\ e # None /\ e.state = "loading" => g \notin srv
  /\ \A c \in cs : c.out = "pending" => e # None /\ e.state = "stopping"
  /\ \A c \in cs : c.out = "confirmed" => e = None
  /\ g \in srv =>
       /\ e # None /\ e.state = "stopping" /\ e.died => n = 0 /\ g \notin mis /\ NoneOwes(cs)
       /\ e # None /\ e.state = "stopping" /\ ~e.died => n = Due(g, mis) /\ OneOwes(cs)
       /\ e # None /\ e.state = "stop-unconfirmed" => n = Due(g, mis) /\ NoneOwes(cs)
       /\ e = None => \/ n = Due(g, mis) + 1 /\ NoneOwes(cs)
                      \/ n = Due(g, mis) /\ OneOwes(cs)

(* An entry is loading while its coroutine runs, stopping while its        *)
(* teardown does.                                                          *)
Shape(e) == (e.pc # "over" => e.state = "loading") /\ (e.stage # "none" => e.state = "stopping")

(* A generation that no load has used.                                     *)
Unused(g, cs, tl) ==
  entry[g] = None /\ g \notin served /\ g \notin missed /\ tl[g] = 0 /\ On(g, cs) = {}

(* The ledger, with the calls of cs and the reports of tl.                 *)
Ledger(cs, tl) ==
  /\ \A g \in Gens : Account(g, entry[g], tl[g], served, missed, On(g, cs))
  /\ \A g \in Gens : entry[g] # None => Shape(entry[g])
  /\ \A g \in Gens : g > loads => Unused(g, cs, tl)
  /\ \A c \in cs : c.kind = "load" => ~c.first

ReportInv == Ledger(calls, told)

-----------------------------------------------------------------------------
(* What each kind of step does to an account                               *)

(* Nothing the account depends on changes.                                 *)
LEMMA AccountSame ==
  ASSUME NEW g, NEW e, NEW f, NEW n, NEW srv, NEW mis, NEW cs, Account(g, e, n, srv, mis, cs),
         e = None <=> f = None, e # None => f.state = e.state /\ f.died = e.died
  PROVE  Account(g, f, n, srv, mis, cs)
  BY Zenon DEF Account

(* The other generations do not matter.                                    *)
LEMMA AccountOthers ==
  ASSUME NEW g, NEW e, NEW n, NEW srv, NEW mis, NEW cs, Account(g, e, n, srv, mis, cs),
         NEW srv2, NEW mis2, g \in srv2 <=> g \in srv, g \in mis2 <=> g \in mis
  PROVE  Account(g, e, n, srv2, mis2, cs)
  BY DEF Account, Due

LEMMA AccountServes ==
  ASSUME NEW g, NEW e, NEW f, NEW n, NEW srv, NEW mis, NEW cs, Account(g, e, n, srv, mis, cs),
         e # None, f # None, e.state = "loading", f.state = "ready"
  PROVE  Account(g, f, n, srv \cup {g}, mis, cs)
  BY DEF Account

(* A load fails, or a session crashed: no call waits for it yet.           *)
LEMMA AccountEnds ==
  ASSUME NEW g, NEW e, NEW f, NEW n, NEW srv, NEW mis, NEW cs, Account(g, e, n, srv, mis, cs),
         e # None, f # None, f.state = "stopping",
         e.state = "loading" \/ (e.state = "ready" /\ f.died)
  PROVE  Account(g, f, n, srv, mis, cs)
  BY DEF Account, NoneOwes

(* A call begins the teardown, and owes its report.                        *)
LEMMA AccountUnload ==
  ASSUME NEW g, NEW e, NEW f, NEW n, NEW srv, NEW mis, NEW cs, Account(g, e, n, srv, mis, cs),
         e # None, f # None, e.state \in {"ready", "stop-unconfirmed"}, f.state = "stopping", ~f.died,
         NEW w, w.first, w.out = "pending"
  PROVE  Account(g, f, n, srv, mis, cs \cup {w})
<1>1. OneOwes(cs \cup {w}) \/ g \notin srv
  BY DEF Account, OneOwes, NoneOwes, Owes
<1>2. g \in srv => n = Due(g, mis)
  BY DEF Account, Due
<1>3. QED
  BY <1>1, <1>2 DEF Account

(* A call joins the teardown.                                              *)
LEMMA AccountJoin ==
  ASSUME NEW g, NEW e, NEW n, NEW srv, NEW mis, NEW cs, Account(g, e, n, srv, mis, cs),
         e # None, e.state = "stopping", NEW w, ~w.first, w.out = "pending"
  PROVE  Account(g, e, n, srv, mis, cs \cup {w})
<1>1. /\ NoneOwes(cs) => NoneOwes(cs \cup {w})
      /\ OneOwes(cs) => OneOwes(cs \cup {w})
  BY DEF OneOwes, NoneOwes, Owes
<1>2. QED
  BY <1>1 DEF Account

(* A call that owes nothing goes.                                          *)
LEMMA AccountDrop ==
  ASSUME NEW g, NEW e, NEW n, NEW srv, NEW mis, NEW cs, Account(g, e, n, srv, mis, cs),
         NEW c, ~Owes(c)
  PROVE  Account(g, e, n, srv, mis, cs \ {c})
<1>1. /\ NoneOwes(cs) => NoneOwes(cs \ {c})
      /\ OneOwes(cs) => OneOwes(cs \ {c})
  BY DEF OneOwes, NoneOwes
<1>2. QED
  BY <1>1 DEF Account

(* A call reports the teardown it began.                                   *)
LEMMA AccountReport ==
  ASSUME NEW g, NEW e, NEW n, NEW srv, NEW mis, NEW cs, Account(g, e, n, srv, mis, cs),
         NEW c \in cs, c.first, c.out = "confirmed"
  PROVE  Account(g, e, n + 1, srv, mis, cs \ {c})
<1>1. e = None
  BY DEF Account
<1>2. Owes(c)
  BY DEF Owes
<1>3. OneOwes(cs) => NoneOwes(cs \ {c})
  BY <1>2 DEF OneOwes, NoneOwes
<1>4. ~NoneOwes(cs)
  BY <1>2 DEF NoneOwes
<1>5. QED
  BY <1>1, <1>3, <1>4 DEF Account

(* The calls that waited, with their answer.                               *)
Told(c, out) == IF c.out = "pending" THEN [c EXCEPT !.out = out] ELSE c

LEMMA ToldFacts ==
  ASSUME NEW c \in Call, NEW out \in {"confirmed", "unconfirmed"}
  PROVE  /\ Told(c, out).first = c.first /\ Told(c, out).on = c.on /\ Told(c, out).kind = c.kind
         /\ Told(c, out).out = IF c.out = "pending" THEN out ELSE c.out
         /\ Told(c, out).out # "pending"
  BY DEF Told, Call

LEMMA AccountGone ==
  ASSUME NEW g, NEW e, NEW n, NEW m, NEW srv, NEW mis, NEW cs \in SUBSET Call,
         Account(g, e, n, srv, mis, cs), e # None, e.state = "stopping", e.died \in BOOLEAN,
         m = IF e.died THEN n + 1 ELSE n
  PROVE  Account(g, None, m, srv, mis, {Told(c, "confirmed") : c \in cs})
<1> DEFINE out == "confirmed"
           after == {Told(c, out) : c \in cs}
<1>1. out \in {"confirmed", "unconfirmed"} /\ out # "unconfirmed"
  OBVIOUS
<1> HIDE DEF out
<1>2. \A c \in cs : Owes(Told(c, out)) <=> Owes(c)
  BY <1>1, ToldFacts DEF Owes
<1>3. NoneOwes(cs) => NoneOwes(after)
  BY <1>2 DEF NoneOwes
<1>4. OneOwes(cs) => OneOwes(after)
  BY <1>2 DEF OneOwes
<1>5. \A c \in after : c.out # "pending"
  BY <1>1, ToldFacts
<1> USE <1>5
<1> HIDE DEF after
<1>6. Account(g, None, m, srv, mis, after)
  <2>1. CASE g \notin srv
    BY <2>1 DEF Account
  <2>2. CASE g \in srv /\ e.died
    BY <1>3, <2>2 DEF Account, Due
  <2>3. CASE g \in srv /\ ~e.died
    BY <1>4, <2>3 DEF Account
  <2>4. QED
    BY <2>1, <2>2, <2>3
<1>7. QED
  BY <1>6 DEF after, out

LEMMA AccountUnconfirmed ==
  ASSUME NEW g, NEW e, NEW f, NEW n, NEW m, NEW srv, NEW mis, NEW mis2, NEW cs \in SUBSET Call,
         Account(g, e, n, srv, mis, cs), e # None, e.state = "stopping", e.died \in BOOLEAN,
         m = IF e.died THEN n + 1 ELSE n, mis2 = IF e.died THEN mis \cup {g} ELSE mis,
         f # None, f.state = "stop-unconfirmed"
  PROVE  Account(g, f, m, srv, mis2, {Told(c, "unconfirmed") : c \in cs})
<1> DEFINE out == "unconfirmed"
           after == {Told(c, out) : c \in cs}
<1>1. out \in {"confirmed", "unconfirmed"} /\ out = "unconfirmed"
  OBVIOUS
<1> HIDE DEF out
<1>2. \A c \in cs : c.out # "confirmed" /\ c \in Call
  BY DEF Account
<1>3. \A c \in cs : Told(c, out).out = "unconfirmed"
  BY <1>1, <1>2, ToldFacts DEF Call
<1>4. \A c \in after : c.out = "unconfirmed"
  BY <1>3
<1> USE <1>4
<1> HIDE DEF after
<1>5. NoneOwes(after)
  BY DEF NoneOwes, Owes
<1>6. Account(g, f, m, srv, mis2, after)
  <2>1. CASE g \notin srv
    BY <2>1 DEF Account
  <2>2. CASE g \in srv /\ e.died
    BY <1>5, <2>2 DEF Account, Due
  <2>3. CASE g \in srv /\ ~e.died
    BY <1>5, <2>3 DEF Account
  <2>4. QED
    BY <2>1, <2>2, <2>3
<1>7. QED
  BY <1>6 DEF after, out

(* A new generation, and one of a core that ended.                         *)
LEMMA AccountNew ==
  ASSUME NEW g, NEW e, NEW srv, NEW mis, g \notin srv, g \notin mis,
         e # None => e.state = "loading"
  PROVE  Account(g, e, 0, srv, mis, {})
  BY DEF Account

-----------------------------------------------------------------------------
(* Steps of one entry                                                      *)

(* While the table stays, so does which generations have an entry.         *)
LEMMA SameLive ==
  ASSUME IInv, IInv', UNCHANGED table, NEW g \in Gens
  PROVE  entry[g] = None <=> entry'[g] = None
<1>1. ASSUME entry[g] # None PROVE entry'[g] # None
  <2>1. entry[g].model \in Models /\ table[entry[g].model] = g /\ g # None
    BY <1>1, ConstantsAssumption DEF IInv, Types, EntryOK, Entry
  <2>2. QED
    BY <2>1 DEF IInv, TableOK
<1>2. ASSUME entry'[g] # None PROVE entry[g] # None
  <2>1. entry'[g].model \in Models /\ table'[entry'[g].model] = g /\ g # None
    BY <1>2, ConstantsAssumption DEF IInv, Types, EntryOK, Entry
  <2>2. QED
    BY <2>1 DEF IInv, TableOK
<1>3. QED
  BY <1>1, <1>2

(* What the account needs of an entry that changes in place.               *)
Tame(g) ==
  entry[g] # None =>
    entry'[g].state = entry[g].state /\ entry'[g].died = entry[g].died /\ Shape(entry'[g])

LEMMA TameStep ==
  ASSUME IInv, IInv', ReportInv, UNCHANGED <<loads, table, calls, history>>,
         \A g \in Gens : Tame(g)
  PROVE  ReportInv'
<1>1. \A g \in Gens : entry[g] = None <=> entry'[g] = None
  BY SameLive
<1> USE <1>1
<1>2. UNCHANGED <<told, served, missed>>
  BY DEF history
<1>3. \A g \in Gens : Account(g, entry'[g], told'[g], served', missed', On(g, calls'))
  <2>1. TAKE g \in Gens
  <2>2. Account(g, entry[g], told[g], served, missed, On(g, calls))
    BY DEF ReportInv, Ledger
  <2>3. Account(g, entry'[g], told[g], served, missed, On(g, calls))
    BY <2>2, AccountSame, Zenon DEF Tame
  <2>4. QED
    BY <1>2, <2>3
<1>4. \A g \in Gens : entry'[g] # None => Shape(entry'[g])
  BY DEF Tame
<1>5. \A g \in Gens : g > loads' => Unused(g, calls, told)'
  BY <1>2 DEF ReportInv, Ledger, Unused
<1>6. QED
  BY <1>3, <1>4, <1>5 DEF ReportInv, Ledger

(* A step of the load coroutine that keeps the entry loading.              *)
Moved(g) ==
  /\ \A h \in Gens : h # g => entry'[h] = entry[h]
  /\ entry'[g].state = entry[g].state /\ entry'[g].died = entry[g].died
  /\ entry'[g].stage = entry[g].stage

LEMMA MovedStep ==
  ASSUME IInv, IInv', ReportInv, UNCHANGED <<loads, table, calls, history>>,
         NEW g \in Gens, entry[g] # None, entry[g].state = "loading", Moved(g)
  PROVE  ReportInv'
<1>1. Tame(g)
  BY DEF Tame, Moved, ReportInv, Ledger, Shape
<1>2. \A h \in Gens : h # g => Tame(h)
  BY DEF Tame, Moved, ReportInv, Ledger
<1>3. QED
  BY <1>1, <1>2, TameStep, Zenon

LEMMA LoadingFacts ==
  ASSUME IInv, ReportInv, NEW g \in Gens, Live(g), entry[g].pc # "over"
  PROVE  /\ entry[g] # None /\ entry[g].state = "loading" /\ entry[g] \in Entry
         /\ entry \in [Gens -> Entry \cup {None}]
  BY DEF IInv, Types, Live, ReportInv, Ledger, Shape

(* Fields the account does not depend on.                                  *)
Kept(e, f) ==
  /\ {"state", "died", "stage"} \subseteq DOMAIN f
  /\ f.state = e.state /\ f.died = e.died /\ f.stage = e.stage

LEMMA SetsKept ==
  ASSUME NEW e, {"state", "died", "stage"} \subseteq DOMAIN e, NEW v
  PROVE  /\ Kept(e, [e EXCEPT !.pc = v]) /\ Kept(e, [e EXCEPT !.ticker = v])
         /\ Kept(e, [e EXCEPT !.cont = v]) /\ Kept(e, [e EXCEPT !.attempt = v])
         /\ Kept(e, [e EXCEPT !.republished = v]) /\ Kept(e, [e EXCEPT !.aborted = v])
         /\ Kept(e, [e EXCEPT !.lost = v])
  BY DEF Kept

LEMMA KeptMoves ==
  ASSUME IInv, NEW g \in Gens, entry[g] \in Entry, NEW f, entry' = [entry EXCEPT ![g] = f],
         Kept(entry[g], f)
  PROVE  Moved(g)
  BY DEF IInv, Types, Moved, Kept

LEMMA GoesMoves ==
  ASSUME IInv, NEW g \in Gens, entry[g] \in Entry, NEW p, Goes(g, p)
  PROVE  Moved(g)
<1>1. {"state", "died", "stage"} \subseteq DOMAIN entry[g]
  BY DEF Entry
<1>2. Kept(entry[g], [entry[g] EXCEPT !.pc = p])
  BY <1>1, SetsKept, Zenon
<1>3. entry' = [entry EXCEPT ![g] = [entry[g] EXCEPT !.pc = p]]
  BY DEF Goes
<1>4. QED
  BY <1>2, <1>3, KeptMoves, Zenon

LEMMA KeptTwice == ASSUME NEW a, NEW b, NEW c, Kept(a, b), Kept(b, c) PROVE Kept(a, c)
  BY DEF Kept

(* The load coroutine, but for its end.                                    *)
Running(g) ==
  \/ Throws(g) \/ StopsPrevious(g) \/ Prepares(g) \/ FirstHeartbeat(g) \/ PreparesLaunch(g)
  \/ Creates(g) \/ Journals(g) \/ Unmakes(g) \/ StartsContainer(g) \/ BecomesReady(g)
  \/ PortTaken(g) \/ Discards(g) \/ RemovesTry(g) \/ UnjournalsTry(g) \/ Accepted(g)

LEMMA RunningMoves ==
  ASSUME IInv, ReportInv, NEW g \in Gens, Running(g)
  PROVE  /\ Live(g) /\ entry[g].pc # "over" /\ Moved(g) /\ UNCHANGED <<loadFrame, history>>
<1>1. Live(g) /\ entry[g].pc # "over" /\ UNCHANGED <<loadFrame, history>>
  BY DEF Running, Throws, StopsPrevious, Prepares, FirstHeartbeat, PreparesLaunch, Creates, Journals,
     Unmakes, StartsContainer, BecomesReady, PortTaken, Discards, RemovesTry, UnjournalsTry, Accepted, At
<1>2. entry[g] # None /\ entry[g] \in Entry /\ entry \in [Gens -> Entry \cup {None}]
  BY <1>1, LoadingFacts
<1>3. CASE \E p \in LoadPcs : Goes(g, p)
  BY <1>1, <1>2, <1>3, GoesMoves, Zenon
<1>11. {"state", "died", "stage"} \subseteq DOMAIN entry[g]
  BY <1>2 DEF Entry
<1> USE <1>11
<1>4. CASE entry' = [entry EXCEPT ![g].pc = "heartbeat", ![g].ticker = TRUE]
  <2> DEFINE b == [entry[g] EXCEPT !.pc = "heartbeat"]
             d == [b EXCEPT !.ticker = TRUE]
  <2>1. entry' = [entry EXCEPT ![g] = d]
    BY <1>4, Zenon
  <2>2. Kept(entry[g], b)
    BY SetsKept, Zenon DEF Kept
  <2> HIDE DEF b
  <2>3. Kept(b, d)
    BY <2>2, SetsKept, Zenon DEF Kept
  <2> HIDE DEF d
  <2>4. QED
    BY <1>1, <1>2, <2>1, <2>2, <2>3, KeptTwice, KeptMoves, Zenon
<1>5. CASE entry' = [entry EXCEPT ![g].cont = NextTry(g), ![g].pc = "journal"]
  <2> DEFINE b == [entry[g] EXCEPT !.cont = NextTry(g)]
             d == [b EXCEPT !.pc = "journal"]
  <2>1. entry' = [entry EXCEPT ![g] = d]
    BY <1>5, Zenon
  <2>2. Kept(entry[g], b)
    BY SetsKept, Zenon DEF Kept
  <2> HIDE DEF b
  <2>3. Kept(b, d)
    BY <2>2, SetsKept, Zenon DEF Kept
  <2> HIDE DEF d
  <2>4. QED
    BY <1>1, <1>2, <2>1, <2>2, <2>3, KeptTwice, KeptMoves, Zenon
<1>6. CASE entry' = [entry EXCEPT ![g].cont = None, ![g].pc = "failing"]
  <2> DEFINE b == [entry[g] EXCEPT !.cont = None]
             d == [b EXCEPT !.pc = "failing"]
  <2>1. entry' = [entry EXCEPT ![g] = d]
    BY <1>6, Zenon
  <2>2. Kept(entry[g], b)
    BY SetsKept, Zenon DEF Kept
  <2> HIDE DEF b
  <2>3. Kept(b, d)
    BY <2>2, SetsKept, Zenon DEF Kept
  <2> HIDE DEF d
  <2>4. QED
    BY <1>1, <1>2, <2>1, <2>2, <2>3, KeptTwice, KeptMoves, Zenon
<1>7. CASE entry' = [entry EXCEPT ![g].republished = @ + 1, ![g].attempt = 0, ![g].pc = "discard"]
  <2> DEFINE b == [entry[g] EXCEPT !.republished = @ + 1]
             d == [b EXCEPT !.attempt = 0]
             f == [d EXCEPT !.pc = "discard"]
  <2>1. entry' = [entry EXCEPT ![g] = f]
    BY <1>7, Zenon
  <2>2. Kept(entry[g], b)
    BY SetsKept, Zenon DEF Kept
  <2> HIDE DEF b
  <2>3. Kept(b, d)
    BY <2>2, SetsKept, Zenon DEF Kept
  <2> HIDE DEF d
  <2>4. Kept(d, f)
    BY <2>3, SetsKept, Zenon DEF Kept
  <2> HIDE DEF f
  <2>5. QED
    BY <1>1, <1>2, <2>1, <2>2, <2>3, <2>4, KeptTwice, KeptMoves, Zenon
<1>8. CASE entry' = [entry EXCEPT ![g].cont = None, ![g].attempt = @ + 1, ![g].pc = "launch"]
  <2> DEFINE b == [entry[g] EXCEPT !.cont = None]
             d == [b EXCEPT !.attempt = @ + 1]
             f == [d EXCEPT !.pc = "launch"]
  <2>1. entry' = [entry EXCEPT ![g] = f]
    BY <1>8, Zenon
  <2>2. Kept(entry[g], b)
    BY SetsKept, Zenon DEF Kept
  <2> HIDE DEF b
  <2>3. Kept(b, d)
    BY <2>2, SetsKept, Zenon DEF Kept
  <2> HIDE DEF d
  <2>4. Kept(d, f)
    BY <2>3, SetsKept, Zenon DEF Kept
  <2> HIDE DEF f
  <2>5. QED
    BY <1>1, <1>2, <2>1, <2>2, <2>3, <2>4, KeptTwice, KeptMoves, Zenon
<1>9. \/ \E p \in LoadPcs : Goes(g, p)
      \/ entry' = [entry EXCEPT ![g].pc = "heartbeat", ![g].ticker = TRUE]
      \/ entry' = [entry EXCEPT ![g].cont = NextTry(g), ![g].pc = "journal"]
      \/ entry' = [entry EXCEPT ![g].cont = None, ![g].pc = "failing"]
      \/ entry' = [entry EXCEPT ![g].republished = @ + 1, ![g].attempt = 0, ![g].pc = "discard"]
      \/ entry' = [entry EXCEPT ![g].cont = None, ![g].attempt = @ + 1, ![g].pc = "launch"]
  <2>1. \A p \in LoadPcs : GoesUnlessAborted(g, p) => \E q \in LoadPcs : Goes(g, q)
    BY DEF GoesUnlessAborted, LoadPcs
  <2>2. CASE Throws(g) \/ StopsPrevious(g) \/ FirstHeartbeat(g) \/ PreparesLaunch(g)
             \/ BecomesReady(g) \/ Accepted(g) \/ Journals(g)
    BY <2>1, <2>2 DEF Throws, StopsPrevious, FirstHeartbeat, PreparesLaunch, BecomesReady, Accepted,
       Journals, LoadPcs
  <2>3. CASE StartsContainer(g) \/ Discards(g) \/ RemovesTry(g)
    BY <2>3 DEF StartsContainer, Discards, RemovesTry, LoadPcs
  <2>4. CASE Prepares(g) \/ Creates(g) \/ Unmakes(g)
    BY <2>4 DEF Prepares, Creates, Unmakes, LoadPcs
  <2>5. CASE PortTaken(g) \/ UnjournalsTry(g)
    BY <2>5 DEF PortTaken, UnjournalsTry, LoadPcs
  <2>6. QED
    BY <2>2, <2>3, <2>4, <2>5, Zenon DEF Running
<1>10. QED
  BY <1>1, <1>3, <1>4, <1>5, <1>6, <1>7, <1>8, <1>9

LEMMA RunningReports == ASSUME IInv, IInv', ReportInv, NEW g \in Gens, Running(g) PROVE ReportInv'
<1>1. Live(g) /\ entry[g].pc # "over" /\ Moved(g) /\ UNCHANGED <<loadFrame, history>>
  BY RunningMoves
<1> USE <1>1
<1>2. entry[g] # None /\ entry[g].state = "loading"
  BY LoadingFacts
<1>3. UNCHANGED <<loads, table, calls, history>>
  BY DEF loadFrame
<1>4. QED
  BY <1>2, <1>3, MovedStep, Zenon

(* One generation changes, from a ledger with the calls of cs and the      *)
(* reports of tl.                                                          *)
Others(g, cs, tl) ==
  \A h \in Gens : h # g =>
    /\ entry'[h] = entry[h] /\ told'[h] = tl[h]
    /\ h \in served' <=> h \in served
    /\ h \in missed' <=> h \in missed
    /\ On(h, calls') = On(h, cs)

LEMMA LedgerStep ==
  ASSUME NEW cs, NEW tl, Ledger(cs, tl), NEW g \in Gens, Others(g, cs, tl),
         Account(g, entry'[g], told'[g], served', missed', On(g, calls')),
         entry'[g] # None => Shape(entry'[g]),
         \A h \in Gens : h > loads' => h > loads /\ h # g,
         \A c \in calls' : c.kind = "load" => ~c.first
  PROVE  ReportInv'
<1>1. \A h \in Gens : Account(h, entry'[h], told'[h], served', missed', On(h, calls'))
  <2>1. TAKE h \in Gens
  <2>2. CASE h # g
    <3>1. Account(h, entry[h], tl[h], served, missed, On(h, cs))
      BY DEF Ledger
    <3>2. Account(h, entry[h], tl[h], served', missed', On(h, cs))
      BY <2>2, <3>1, AccountOthers DEF Others
    <3>3. QED
      BY <2>2, <3>2 DEF Others
  <2>3. QED
    BY <2>2
<1>2. \A h \in Gens : entry'[h] # None => Shape(entry'[h])
  BY DEF Ledger, Others
<1>3. \A h \in Gens : h > loads' => Unused(h, calls, told)'
  BY DEF Ledger, Others, Unused
<1>4. QED
  BY <1>1, <1>2, <1>3 DEF ReportInv, Ledger

(* A generation with an entry is one a load used.                          *)
LEMMA UsedGen ==
  ASSUME IInv, NEW g \in Gens, entry[g] # None, UNCHANGED loads
  PROVE  \A h \in Gens : h > loads' => h > loads /\ h # g
  BY DEF IInv, Types, EntryOK, Gens

(* The entry of g is replaced, and no call or report changes.              *)
LEMMA ReplaceStep ==
  ASSUME IInv, ReportInv, UNCHANGED <<loads, calls, told, missed>>, NEW g \in Gens, entry[g] # None, NEW f,
         entry' = [entry EXCEPT ![g] = f], Shape(f), served' \in {served, served \cup {g}},
         Account(g, f, told[g], served', missed, On(g, calls))
  PROVE  ReportInv'
<1>1. entry'[g] = f /\ \A h \in Gens : h # g => entry'[h] = entry[h]
  BY DEF IInv, Types
<1> USE <1>1
<1>2. Others(g, calls, told)
  BY DEF Others
<1>3. Account(g, entry'[g], told'[g], served', missed', On(g, calls'))
  OBVIOUS
<1>4. Ledger(calls, told) /\ \A c \in calls' : c.kind = "load" => ~c.first
  BY DEF ReportInv, Ledger
<1>5. QED
  BY <1>2, <1>3, <1>4, UsedGen, LedgerStep

(* What end leaves of an entry.                                            *)
LEMMA EndingShape ==
  ASSUME NEW e \in Entry, NEW died \in BOOLEAN
  PROVE  /\ Ending(e, died) \in Entry /\ Ending(e, died) # None /\ Shape(Ending(e, died))
         /\ Ending(e, died).state = "stopping" /\ Ending(e, died).died = died
<1>1. Ending(e, died) \in Entry /\ Ending(e, died).pc = "over" /\ Ending(e, died).state = "stopping"
  BY EndingFacts
<1>2. Ending(e, died).died = died
  BY DEF Ending, LoadOver, Entry
<1>3. QED
  BY <1>1, <1>2, ConstantsAssumption DEF Shape

LEMMA EndReports ==
  ASSUME IInv, ReportInv, NEW g \in Gens, entry[g] # None, NEW died \in BOOLEAN,
         entry[g].state = "loading" \/ (entry[g].state = "ready" /\ died),
         entry' = [entry EXCEPT ![g] = Ending(entry[g], died)], UNCHANGED <<loads, calls, history>>
  PROVE  ReportInv'
<1> DEFINE f == Ending(entry[g], died)
<1>1. entry[g] \in Entry
  BY DEF IInv, Types
<1>2. f # None /\ Shape(f) /\ f.state = "stopping" /\ f.died = died
  BY <1>1, EndingShape
<1>3. entry' = [entry EXCEPT ![g] = f]
  OBVIOUS
<1> HIDE DEF f
<1>4. Account(g, entry[g], told[g], served, missed, On(g, calls))
  BY DEF ReportInv, Ledger
<1>5. Account(g, f, told[g], served, missed, On(g, calls))
  BY <1>2, <1>4, AccountEnds
<1>6. QED
  BY <1>2, <1>3, <1>5, ReplaceStep, Zenon DEF history

LEMMA FailLoadReports == ASSUME IInv, ReportInv, NEW g \in Gens, FailLoad(g) PROVE ReportInv'
<1> DEFINE died == FALSE
<1>1. /\ Live(g) /\ entry[g].pc # "over" /\ UNCHANGED <<loads, calls, history>> /\ died \in BOOLEAN
      /\ entry' = [entry EXCEPT ![g] = Ending(entry[g], died)]
  BY DEF FailLoad, At, loadFrame
<1> HIDE DEF died
<1>2. QED
  BY <1>1, LoadingFacts, EndReports, Zenon

LEMMA OnCrashReports == ASSUME IInv, ReportInv, NEW g \in Gens, OnCrash(g) PROVE ReportInv'
<1> DEFINE died == TRUE
<1>1. /\ entry[g] # None /\ entry[g].state = "ready" /\ UNCHANGED <<loads, calls, history>>
      /\ died \in BOOLEAN /\ died /\ entry' = [entry EXCEPT ![g] = Ending(entry[g], died)]
  BY DEF OnCrash, Live, loadFrame
<1> HIDE DEF died
<1>2. QED
  BY <1>1, EndReports, Zenon

LEMMA ServesReports == ASSUME IInv, IInv', ReportInv, NEW g \in Gens, Serves(g) PROVE ReportInv'
<1>1. Live(g) /\ entry[g].pc # "over" /\ UNCHANGED <<loads, table, calls>>
  BY DEF Serves, At, loadFrame
<1>2. entry[g] # None /\ entry[g].state = "loading" /\ entry[g] \in Entry
  BY <1>1, LoadingFacts
<1> USE <1>2
<1>3. CASE entry[g].aborted
  <2>1. Moved(g) /\ UNCHANGED history
    BY <1>3, GoesMoves DEF Serves
  <2>2. QED
    BY <1>1, <2>1, MovedStep
<1>4. CASE ~entry[g].aborted
  <2> DEFINE r == "ready"
             e == LoadOver(entry[g])
             f == [e EXCEPT !.state = r]
  <2>1. /\ entry' = [entry EXCEPT ![g] = f] /\ served' = served \cup {g} /\ UNCHANGED <<told, missed>>
    BY <1>4, Zenon DEF Serves
  <2>2. r \in {"loading", "ready", "stopping", "stop-unconfirmed"} /\ r = "ready"
    OBVIOUS
  <2> USE <2>2
  <2> HIDE DEF r
  <2>3. e \in Entry /\ e.pc = "over" /\ e.stage = entry[g].stage
    BY LoadIsOver
  <2> HIDE DEF e
  <2>4. f \in Entry /\ f.pc = "over" /\ f.stage = entry[g].stage /\ f.state = r
    BY <2>3, SetState
  <2> HIDE DEF f
  <2>5. entry[g].stage = "none"
    BY <1>1 DEF ReportInv, Ledger, Shape
  <2>6. Shape(f) /\ f # None
    BY <2>4, <2>5, ConstantsAssumption DEF Shape
  <2>7. Account(g, entry[g], told[g], served, missed, On(g, calls))
    BY DEF ReportInv, Ledger
  <2>8. Account(g, f, told[g], served', missed, On(g, calls))
    BY <2>1, <2>4, <2>6, <2>7, AccountServes
  <2>9. QED
    BY <1>1, <2>1, <2>6, <2>8, ReplaceStep, Zenon
<1>5. QED
  BY <1>3, <1>4

LEMMA LoadStepReports == ASSUME IInv, IInv', ReportInv, NEW g \in Gens, LoadStep(g) PROVE ReportInv'
  BY RunningReports, ServesReports, FailLoadReports, Zenon DEF LoadStep, Running

(* An entry whose teardown runs.                                           *)
LEMMA EndsFacts ==
  ASSUME IInv, ReportInv, NEW g \in Gens, NEW stage \in Stages, Ends(g, stage)
  PROVE  /\ entry[g] # None /\ entry[g] \in Entry /\ entry[g].state = "stopping"
         /\ entry[g].died \in BOOLEAN
<1>1. entry[g] # None /\ entry[g].stage # "none"
  BY DEF Ends, Live, Stages
<1>2. entry[g] \in Entry /\ entry[g].state = "stopping"
  BY <1>1 DEF IInv, Types, ReportInv, Ledger, Shape
<1>3. QED
  BY <1>1, <1>2 DEF Entry

(* The answer reaches the calls of one generation.                         *)
LEMMA AnsweredOn ==
  ASSUME IInv, NEW g, NEW out \in {"confirmed", "unconfirmed"}
  PROVE  /\ On(g, Answered(g, out)) = {Told(c, out) : c \in On(g, calls)}
         /\ \A h : h # g => On(h, Answered(g, out)) = On(h, calls)
         /\ (\A c \in calls : c.kind = "load" => ~c.first)
              => \A c \in Answered(g, out) : c.kind = "load" => ~c.first
<1> DEFINE f(c) == IF c.on = g /\ c.out = "pending" THEN [c EXCEPT !.out = out] ELSE c
<1>1. Answered(g, out) = {f(c) : c \in calls}
  BY DEF Answered
<1> USE <1>1
<1>2. \A c \in calls : c.on = g => f(c) = Told(c, out)
  BY DEF Told
<1>3. \A c \in calls : c.on # g => f(c) = c
  OBVIOUS
<1>4. \A c \in calls : f(c).on = c.on /\ f(c).kind = c.kind /\ f(c).first = c.first
  BY <1>2, <1>3, ToldFacts DEF IInv, CallsOK
<1> USE <1>4
<1> HIDE DEF f
<1>5. On(g, Answered(g, out)) = {Told(c, out) : c \in On(g, calls)}
  BY <1>2 DEF On
<1>6. \A h : h # g => On(h, Answered(g, out)) = On(h, calls)
  BY <1>3 DEF On
<1>7. ASSUME \A c \in calls : c.kind = "load" => ~c.first
      PROVE  \A c \in Answered(g, out) : c.kind = "load" => ~c.first
  BY <1>7
<1>8. QED
  BY <1>5, <1>6, <1>7, Zenon

LEMMA DiedFacts ==
  ASSUME RestOK, NEW g \in Gens
  PROVE  /\ Died(g)[g] = IF entry[g].died THEN told[g] + 1 ELSE told[g]
         /\ \A h \in Gens : h # g => Died(g)[h] = told[h]
  BY DEF RestOK, Died

LEMMA GoneReports ==
  ASSUME IInv, RestOK, ReportInv, NEW g \in Gens, entry[g] # None, entry[g].state = "stopping",
         entry[g].died \in BOOLEAN, Gone(g), UNCHANGED <<loads, served>>
  PROVE  ReportInv'
<1> DEFINE out == "confirmed"
<1>1. /\ entry' = [entry EXCEPT ![g] = None] /\ calls' = Answered(g, out) /\ told' = Died(g)
      /\ UNCHANGED missed /\ out \in {"confirmed", "unconfirmed"}
  BY DEF Gone
<1> USE <1>1
<1>2. entry'[g] = None /\ \A h \in Gens : h # g => entry'[h] = entry[h]
  BY DEF IInv, Types
<1> USE <1>2
<1>3. On(g, calls) \in SUBSET Call
  BY DEF IInv, CallsOK, On
<1>4. Account(g, entry[g], told[g], served, missed, On(g, calls))
  BY DEF ReportInv, Ledger
<1>5. Account(g, None, told'[g], served, missed, {Told(c, out) : c \in On(g, calls)})
  BY <1>3, <1>4, DiedFacts, AccountGone, Zenon
<1> HIDE DEF out
<1>6. Account(g, entry'[g], told'[g], served', missed', On(g, calls'))
  BY <1>5, AnsweredOn, Zenon
<1>7. Others(g, calls, told)
  BY DiedFacts, AnsweredOn DEF Others
<1>8. Ledger(calls, told) /\ \A c \in calls' : c.kind = "load" => ~c.first
  BY AnsweredOn DEF ReportInv, Ledger
<1>9. QED
  BY <1>6, <1>7, <1>8, UsedGen, LedgerStep, Zenon

LEMMA UnconfirmedReports ==
  ASSUME IInv, RestOK, ReportInv, NEW g \in Gens, entry[g] # None, entry[g].state = "stopping",
         entry[g] \in Entry, Unconfirmed(g), UNCHANGED <<loads, served>>
  PROVE  ReportInv'
<1> DEFINE s == "stop-unconfirmed"
           n == "none"
           d == FALSE
           a == [entry[g] EXCEPT !.state = s]
           b == [a EXCEPT !.stage = n]
           f == [b EXCEPT !.died = d]
           out == "unconfirmed"
<1>1. entry' = [entry EXCEPT ![g] = f]
  BY Zenon DEF Unconfirmed
<1>2. /\ calls' = Answered(g, out) /\ told' = Died(g) /\ out \in {"confirmed", "unconfirmed"}
      /\ missed' = IF entry[g].died THEN missed \cup {g} ELSE missed
  BY DEF Unconfirmed
<1>3. /\ s \in {"loading", "ready", "stopping", "stop-unconfirmed"} /\ s = "stop-unconfirmed"
      /\ n \in Stages \cup {"none"} /\ n = "none" /\ d \in BOOLEAN
  OBVIOUS
<1> HIDE DEF s, n, d
<1>4. entry[g].pc = "over" /\ entry[g].died \in BOOLEAN
  BY DEF ReportInv, Ledger, Shape, Entry
<1>5. a \in Entry /\ a.pc = "over" /\ a.state = s
  BY <1>3, <1>4, SetState
<1> HIDE DEF a
<1>6. b \in Entry /\ b.pc = "over" /\ b.stage = n
  BY <1>3, <1>5, SetStage
<1>7. b.state = s
  BY <1>5 DEF Entry
<1> HIDE DEF b
<1>8. f \in Entry /\ f.pc = "over" /\ f.stage = n
  BY <1>3, <1>6, SetDied
<1>9. f.state = s
  BY <1>6, <1>7 DEF Entry
<1> HIDE DEF f
<1>10. f # None /\ Shape(f)
  BY <1>3, <1>8, ConstantsAssumption DEF Shape
<1>11. entry'[g] = f /\ \A h \in Gens : h # g => entry'[h] = entry[h]
  BY <1>1 DEF IInv, Types
<1> USE <1>11
<1>12. On(g, calls) \in SUBSET Call
  BY DEF IInv, CallsOK, On
<1>13. Account(g, entry[g], told[g], served, missed, On(g, calls))
  BY DEF ReportInv, Ledger
<1>14. Account(g, f, told'[g], served, missed', {Told(c, out) : c \in On(g, calls)})
  BY <1>2, <1>3, <1>4, <1>9, <1>10, <1>12, <1>13, DiedFacts, AccountUnconfirmed, Zenon
<1> HIDE DEF out
<1>15. Account(g, entry'[g], told'[g], served', missed', On(g, calls'))
  BY <1>2, <1>14, AnsweredOn, Zenon
<1>16. Others(g, calls, told)
  BY <1>2, DiedFacts, AnsweredOn DEF Others
<1>17. Ledger(calls, told) /\ \A c \in calls' : c.kind = "load" => ~c.first
  BY <1>2, AnsweredOn DEF ReportInv, Ledger
<1>18. QED
  BY <1>10, <1>15, <1>16, <1>17, UsedGen, LedgerStep, Zenon

(* The teardown goes on.                                                   *)
LEMMA StageReports ==
  ASSUME IInv, IInv', ReportInv, NEW g \in Gens, entry[g] # None, entry[g].state = "stopping", NEW f,
         entry' = [entry EXCEPT ![g] = f], f.state = "stopping", f.died = entry[g].died,
         f.pc = entry[g].pc, UNCHANGED <<loads, table, calls, history>>
  PROVE  ReportInv'
<1>1. entry'[g] = f /\ \A h \in Gens : h # g => entry'[h] = entry[h]
  BY DEF IInv, Types
<1>2. Shape(f)
  BY DEF ReportInv, Ledger, Shape
<1>3. \A h \in Gens : Tame(h)
  BY <1>1, <1>2 DEF Tame, ReportInv, Ledger
<1>4. QED
  BY <1>3, TameStep, Zenon

LEMMA ProceedsReports ==
  ASSUME IInv, IInv', RestOK, ReportInv, NEW g \in Gens, entry[g] # None, entry[g] \in Entry,
         entry[g].state = "stopping", NEW stage \in Stages, Proceeds(g, stage), UNCHANGED <<loads, served>>
  PROVE  ReportInv'
<1> DEFINE f == [entry[g] EXCEPT !.stage = stage]
<1>1. entry' = [entry EXCEPT ![g] = f] /\ UNCHANGED <<loads, table, calls, history>>
  BY DEF Proceeds, history
<1>2. f.state = "stopping" /\ f.died = entry[g].died /\ f.pc = entry[g].pc
  BY DEF Entry
<1> HIDE DEF f
<1>3. QED
  BY <1>1, <1>2, StageReports, Zenon

LEMMA ClosesReports ==
  ASSUME IInv, IInv', RestOK, ReportInv, NEW g \in Gens, Closes(g) PROVE ReportInv'
<1> DEFINE stage == "closing"
<1>1. Ends(g, stage) /\ stage \in Stages /\ UNCHANGED <<loads, served>>
  BY DEF Closes, Stages, endFrame
<1> USE <1>1
<1> HIDE DEF stage
<1>2. /\ entry[g] # None /\ entry[g] \in Entry /\ entry[g].state = "stopping"
      /\ entry[g].died \in BOOLEAN
  BY EndsFacts
<1> USE <1>2
<1>3. CASE Gone(g)
  BY <1>3, GoneReports
<1>4. CASE /\ entry' = [entry EXCEPT ![g].ticker = FALSE, ![g].stage = "stop"]
           /\ UNCHANGED <<table, keeping, calls, told, missed>>
  <2> DEFINE v == "stop"
             b == [entry[g] EXCEPT !.ticker = FALSE]
             f == [b EXCEPT !.stage = v]
  <2>1. entry' = [entry EXCEPT ![g] = f] /\ UNCHANGED <<loads, table, calls, history>>
    BY <1>4, Zenon DEF history
  <2> HIDE DEF v
  <2>2. /\ {"state", "died", "pc"} \subseteq DOMAIN b
        /\ b.state = "stopping" /\ b.died = entry[g].died /\ b.pc = entry[g].pc
    BY DEF Entry
  <2> HIDE DEF b
  <2>3. f.state = "stopping" /\ f.died = entry[g].died /\ f.pc = entry[g].pc
    BY <2>2
  <2> HIDE DEF f
  <2>4. QED
    BY <2>1, <2>3, StageReports, Zenon
<1>5. QED
  BY <1>3, <1>4, Zenon DEF Closes

LEMMA StopsReports ==
  ASSUME IInv, IInv', RestOK, ReportInv, NEW g \in Gens, Stops(g) PROVE ReportInv'
<1> DEFINE stage == "stop"
           next == "rm"
<1>1. /\ Ends(g, stage) /\ stage \in Stages /\ next \in Stages /\ UNCHANGED <<loads, served>>
      /\ Proceeds(g, next) \/ Unconfirmed(g)
  BY DEF Stops, Stages, endFrame
<1> HIDE DEF stage, next
<1>2. entry[g] # None /\ entry[g] \in Entry /\ entry[g].state = "stopping"
  BY <1>1, EndsFacts
<1>3. QED
  BY <1>1, <1>2, ProceedsReports, UnconfirmedReports, Zenon

LEMMA RemovesReports ==
  ASSUME IInv, IInv', RestOK, ReportInv, NEW g \in Gens, Removes(g) PROVE ReportInv'
<1> DEFINE stage == "rm"
           next == "unjournal"
<1>1. /\ Ends(g, stage) /\ stage \in Stages /\ next \in Stages /\ UNCHANGED <<loads, served>>
      /\ Proceeds(g, next) \/ Gone(g)
  BY DEF Removes, Stages, endFrame
<1> HIDE DEF stage, next
<1>2. /\ entry[g] # None /\ entry[g] \in Entry /\ entry[g].state = "stopping"
      /\ entry[g].died \in BOOLEAN
  BY <1>1, EndsFacts
<1>3. QED
  BY <1>1, <1>2, ProceedsReports, GoneReports, Zenon

LEMMA UnjournalsReports ==
  ASSUME IInv, RestOK, ReportInv, NEW g \in Gens, Unjournals(g) PROVE ReportInv'
<1> DEFINE stage == "unjournal"
<1>1. /\ Ends(g, stage) /\ stage \in Stages /\ UNCHANGED <<loads, served>> /\ Gone(g)
  BY DEF Unjournals, Stages, endFrame
<1> HIDE DEF stage
<1>2. entry[g] # None /\ entry[g].state = "stopping" /\ entry[g].died \in BOOLEAN
  BY <1>1, EndsFacts
<1>3. QED
  BY <1>1, <1>2, GoneReports, Zenon

LEMMA EndStepReports ==
  ASSUME IInv, IInv', RestOK, ReportInv, NEW g \in Gens, EndStep(g) PROVE ReportInv'
  BY ClosesReports, StopsReports, RemovesReports, UnjournalsReports, Zenon DEF EndStep

-----------------------------------------------------------------------------
(* load, unload and the calls that wait                                    *)

(* A call of a used generation.                                            *)
LEMMA CallGen ==
  ASSUME IInv, ReportInv, NEW c \in calls
  PROVE  c \in Call /\ c.on \in Gens /\ ~(c.on > loads) /\ c \in On(c.on, calls)
<1>1. c \in Call /\ c.on \in Gens
  BY DEF IInv, CallsOK, Call
<1>2. c \in On(c.on, calls)
  BY DEF On
<1>3. QED
  BY <1>1, <1>2 DEF ReportInv, Ledger, Unused

(* A call returns: the ledger without it, with what it reported.           *)
LEMMA ReturnLedger ==
  ASSUME IInv, RestOK, ReportInv, NEW c \in calls, c.out # "pending" \/ c.kind = "load"
  PROVE  Ledger(calls \ {c}, Reports(c))
<1>1. c \in Call /\ c.on \in Gens /\ ~(c.on > loads) /\ c \in On(c.on, calls)
  BY CallGen
<1>2. \A g \in Gens : On(g, calls \ {c}) = On(g, calls) \ {c}
  BY DEF On
<1>3. \A g \in Gens : Account(g, entry[g], told[g], served, missed, On(g, calls))
  BY DEF ReportInv, Ledger
<1>4. CASE c.first /\ c.out = "confirmed"
  <2>1. /\ Reports(c)[c.on] = told[c.on] + 1
        /\ \A g \in Gens : g # c.on => Reports(c)[g] = told[g]
    BY <1>1, <1>4 DEF Reports, RestOK
  <2> USE <2>1
  <2>2. \A g \in Gens : g # c.on => On(g, calls) \ {c} = On(g, calls)
    BY DEF On
  <2>3. \A g \in Gens : Account(g, entry[g], Reports(c)[g], served, missed, On(g, calls \ {c}))
    <3>1. TAKE g \in Gens
    <3>2. CASE g = c.on
      <4>1. Account(g, entry[g], told[g] + 1, served, missed, On(g, calls) \ {c})
        BY <1>1, <1>3, <1>4, <3>2, AccountReport, Zenon
      <4>2. QED
        BY <1>2, <3>2, <4>1
    <3>3. CASE g # c.on
      BY <1>2, <1>3, <2>2, <3>3
    <3>4. QED
      BY <3>2, <3>3
  <2>4. \A g \in Gens : g > loads => Unused(g, calls \ {c}, Reports(c))
    BY <1>1, <1>2, Zenon DEF ReportInv, Ledger, Unused
  <2>5. QED
    BY <2>3, <2>4, Zenon DEF ReportInv, Ledger
<1>5. CASE ~(c.first /\ c.out = "confirmed")
  <2>1. Reports(c) = told
    BY <1>5 DEF Reports
  <2>2. ~Owes(c)
    BY <1>1, <1>5 DEF Owes, ReportInv, Ledger, Call
  <2>3. \A g \in Gens : Account(g, entry[g], Reports(c)[g], served, missed, On(g, calls \ {c}))
    BY <1>2, <1>3, <2>1, <2>2, AccountDrop
  <2>4. \A g \in Gens : g > loads => Unused(g, calls \ {c}, Reports(c))
    BY <1>2, <2>1, Zenon DEF ReportInv, Ledger, Unused
  <2>5. QED
    BY <2>3, <2>4, Zenon DEF ReportInv, Ledger
<1>6. QED
  BY <1>4, <1>5

LEMMA LedgerSame ==
  ASSUME NEW cs, NEW tl, Ledger(cs, tl), calls' = cs, told' = tl,
         UNCHANGED <<loads, entry, served, missed>>
  PROVE  ReportInv'
  BY DEF ReportInv, Ledger, Unused

LEMMA BeginReports ==
  ASSUME IInv, NEW m \in Models, NEW k \in Keys, Begin(m, k), NEW cs, NEW tl, Ledger(cs, tl),
         calls' = cs, told' = tl, UNCHANGED <<served, missed>>
  PROVE  ReportInv'
<1> DEFINE g == loads + 1
           e == NewEntry(m, k)
<1>1. /\ g \in Gens /\ loads' = g /\ g > loads /\ loads \in Nat /\ entry' = [entry EXCEPT ![g] = e]
  BY ConstantsAssumption DEF IInv, Types, Begin, Gens
<1> USE <1>1
<1>2. e.state = "loading" /\ Shape(e)
  BY DEF NewEntry, Shape
<1>3. \A h \in Gens : h > loads' => h > loads /\ h # g
  BY DEF Gens
<1> HIDE DEF g, e
<1>4. Unused(g, cs, tl)
  BY DEF Ledger
<1>5. entry'[g] = e /\ \A h \in Gens : h # g => entry'[h] = entry[h]
  BY DEF IInv, Types
<1> USE <1>5
<1>6. Account(g, entry'[g], told'[g], served', missed', On(g, calls'))
  BY <1>2, <1>4, AccountNew DEF Unused
<1>7. Others(g, cs, tl)
  BY DEF Others
<1>8. \A c \in calls' : c.kind = "load" => ~c.first
  BY DEF Ledger
<1>9. QED
  BY <1>2, <1>3, <1>6, <1>7, <1>8, LedgerStep, Zenon

(* A call is added to those that wait for its generation.                  *)
LEMMA OnPlus ==
  ASSUME NEW w, NEW cs
  PROVE  /\ On(w.on, cs \cup {w}) = On(w.on, cs) \cup {w}
         /\ \A h : h # w.on => On(h, cs \cup {w}) = On(h, cs)
  BY DEF On

(* A session, or one whose stop was not confirmed, is ended by a call.     *)
LEMMA EndAccount ==
  ASSUME IInv, NEW cs, Ledger(cs, told), NEW g \in Gens, entry[g] # None,
         entry[g].state \in {"ready", "stop-unconfirmed"}, NEW w, w.first, w.out = "pending"
  PROVE  /\ Account(g, Ending(entry[g], FALSE), told[g], served, missed, On(g, cs) \cup {w})
         /\ Shape(Ending(entry[g], FALSE))
<1> DEFINE died == FALSE
           f == Ending(entry[g], died)
<1>1. entry[g] \in Entry /\ died \in BOOLEAN /\ ~died
  BY DEF IInv, Types
<1> HIDE DEF died
<1>2. f # None /\ f.state = "stopping" /\ f.died = died /\ Shape(f)
  BY <1>1, EndingShape
<1> HIDE DEF f
<1>3. Account(g, entry[g], told[g], served, missed, On(g, cs))
  BY DEF Ledger
<1>4. Account(g, f, told[g], served, missed, On(g, cs) \cup {w})
  BY <1>1, <1>2, <1>3, AccountUnload
<1>5. QED
  BY <1>2, <1>4, Zenon DEF f, died

LEMMA EnterReports ==
  ASSUME IInv, NEW m \in Models, NEW k \in Keys, NEW rest, Ledger(rest, told), Enter(m, k, rest),
         UNCHANGED history
  PROVE  ReportInv'
<1>1. UNCHANGED <<told, served, missed>>
  BY DEF history
<1>2. CASE Begin(m, k) /\ calls' = rest
  BY <1>1, <1>2, BeginReports
<1>3. CASE /\ In(m, "ready")
           /\ entry' = [entry EXCEPT ![table[m]] = Ending(@, FALSE)]
           /\ calls' = rest \cup {Wait("reload", m, k, TRUE)}
           /\ UNCHANGED loads
  <2> DEFINE g == table[m]
             f == Ending(entry[g], FALSE)
             kind == "reload"
             first == TRUE
             w == Wait(kind, m, k, first)
  <2>1. g \in Gens /\ entry[g] # None /\ entry[g].state \in {"ready", "stop-unconfirmed"}
    BY <1>3 DEF IInv, Types, In, TableOK
  <2>2. entry' = [entry EXCEPT ![g] = f] /\ calls' = rest \cup {w}
    BY <1>3
  <2>3. /\ On(g, calls') = On(g, rest) \cup {w} /\ \A h : h # g => On(h, calls') = On(h, rest)
        /\ w.out = "pending" /\ w.first /\ w.kind # "load"
    <3>1. w.on = g /\ w.out = "pending" /\ w.first /\ w.kind # "load"
      BY DEF Wait
    <3> HIDE DEF w, g
    <3>2. QED
      BY <2>2, <3>1, OnPlus, Zenon
  <2> USE <2>1, <2>3
  <2> HIDE DEF w, g
  <2>4. /\ Account(g, f, told[g], served, missed, On(g, rest) \cup {w}) /\ Shape(f)
    BY EndAccount, Zenon
  <2> HIDE DEF f
  <2>5. entry'[g] = f /\ \A h \in Gens : h # g => entry'[h] = entry[h]
    BY <2>2 DEF IInv, Types
  <2> USE <2>5
  <2>6. Account(g, entry'[g], told'[g], served', missed', On(g, calls'))
    BY <1>1, <2>4, Zenon
  <2>7. Others(g, rest, told)
    BY <1>1, Zenon DEF Others
  <2>8. \A c \in calls' : c.kind = "load" => ~c.first
    BY <2>2, Zenon DEF Ledger
  <2>9. \A h \in Gens : h > loads' => h > loads /\ h # g
    BY <1>3, UsedGen
  <2>10. QED
    BY <2>4, <2>6, <2>7, <2>8, <2>9, LedgerStep, Zenon
<1>4. CASE calls' = rest /\ UNCHANGED <<loads, entry>>
  BY <1>1, <1>4, LedgerSame
<1>5. QED
  BY <1>2, <1>3, <1>4, Zenon DEF Enter

LEMMA LoadReports ==
  ASSUME IInv, ReportInv, NEW m \in Models, NEW k \in Keys, Load(m, k) PROVE ReportInv'
<1>1. UNCHANGED history /\ Ledger(calls, told)
  BY DEF Load, ReportInv
<1>2. CASE Enter(m, k, calls)
  BY <1>1, <1>2, EnterReports
<1>3. CASE /\ In(m, "stopping") /\ calls' = calls \cup {Wait("load", m, k, FALSE)}
           /\ UNCHANGED <<loads, entry>>
  <2> DEFINE g == table[m]
             kind == "load"
             first == FALSE
             w == Wait(kind, m, k, first)
  <2>1. g \in Gens /\ entry[g] # None /\ entry[g].state = "stopping"
    BY <1>3 DEF IInv, Types, In, TableOK
  <2>2. calls' = calls \cup {w}
    BY <1>3
  <2>3. /\ On(g, calls') = On(g, calls) \cup {w} /\ \A h : h # g => On(h, calls') = On(h, calls)
        /\ w.out = "pending" /\ ~w.first
    <3>1. w.on = g /\ w.out = "pending" /\ ~w.first
      BY Zenon DEF Wait
    <3> HIDE DEF w, g
    <3>2. QED
      BY <2>2, <3>1, OnPlus, Zenon
  <2> USE <2>1, <2>3
  <2> HIDE DEF w, g
  <2>4. Account(g, entry[g], told[g], served, missed, On(g, calls))
    BY Zenon DEF ReportInv, Ledger
  <2>5. Account(g, entry[g], told[g], served, missed, On(g, calls) \cup {w})
    BY <2>4, AccountJoin, Zenon
  <2>6. Account(g, entry'[g], told'[g], served', missed', On(g, calls'))
    BY <1>1, <1>3, <2>5, Zenon DEF history
  <2>7. Others(g, calls, told)
    BY <1>1, <1>3, Zenon DEF Others, history
  <2>8. \A c \in calls' : c.kind = "load" => ~c.first
    BY <2>2 DEF ReportInv, Ledger
  <2>9. \A h \in Gens : h > loads' => h > loads /\ h # g
    BY <1>3, UsedGen
  <2>10. entry'[g] # None => Shape(entry'[g])
    BY <1>3, Zenon DEF ReportInv, Ledger
  <2>11. QED
    BY <1>1, <2>6, <2>7, <2>8, <2>9, <2>10, LedgerStep, Zenon
<1>4. QED
  BY <1>2, <1>3, Zenon DEF Load

LEMMA LoadReturnsReports ==
  ASSUME IInv, RestOK, ReportInv, NEW c \in calls, LoadReturns(c) PROVE ReportInv'
<1>1. UNCHANGED history /\ c.kind = "load" /\ c.out # "pending"
  BY DEF LoadReturns, Returned
<1> USE <1>1
<1>2. Reports(c) = told
  BY DEF Reports, ReportInv, Ledger
<1>3. Ledger(calls \ {c}, told)
  BY <1>2, ReturnLedger
<1>4. c.model \in Models /\ c.key \in Keys
  BY CallFacts
<1>5. CASE closed
  BY <1>3, <1>5, LedgerSame, Zenon DEF LoadReturns, history
<1>6. CASE ~closed
  BY <1>3, <1>4, <1>6, EnterReports, Zenon DEF LoadReturns
<1>7. QED
  BY <1>5, <1>6

LEMMA ReloadReturnsReports ==
  ASSUME IInv, RestOK, ReportInv, NEW c \in calls, ReloadReturns(c) PROVE ReportInv'
<1>1. /\ c.kind = "reload" /\ c.out # "pending" /\ calls' = calls \ {c} /\ told' = Reports(c)
      /\ UNCHANGED <<served, missed>>
  BY DEF ReloadReturns, Returned
<1> USE <1>1
<1>2. Ledger(calls \ {c}, Reports(c))
  BY ReturnLedger
<1>3. c.model \in Models /\ c.key \in Keys
  BY CallFacts
<1>4. CASE Begin(c.model, c.key)
  BY <1>2, <1>3, <1>4, BeginReports, Zenon
<1>5. CASE UNCHANGED <<loads, entry>>
  BY <1>2, <1>5, LedgerSame, Zenon
<1>6. QED
  BY <1>4, <1>5 DEF ReloadReturns

LEMMA UnloadReturnsReports ==
  ASSUME IInv, RestOK, ReportInv, NEW c \in calls, UnloadReturns(c) PROVE ReportInv'
<1>1. /\ c.out # "pending" /\ calls' = calls \ {c} /\ told' = Reports(c)
      /\ UNCHANGED <<loads, entry, served, missed>>
  BY DEF UnloadReturns, Returned
<1>2. Ledger(calls \ {c}, Reports(c))
  BY <1>1, ReturnLedger
<1>3. QED
  BY <1>1, <1>2, LedgerSame, Zenon

LEMMA LoadGivesUpReports ==
  ASSUME IInv, RestOK, ReportInv, NEW c \in calls, LoadGivesUp(c) PROVE ReportInv'
<1>1. /\ c.kind = "load" /\ calls' = calls \ {c} /\ UNCHANGED <<loads, entry, told, served, missed>>
  BY DEF LoadGivesUp, history
<1> USE <1>1
<1>2. Reports(c) = told
  BY DEF Reports, ReportInv, Ledger
<1>3. Ledger(calls \ {c}, told)
  BY <1>2, ReturnLedger
<1>4. QED
  BY <1>3, LedgerSame, Zenon

(* Many entries change at once, and calls begin to wait for them.          *)
LEMMA PointStep ==
  ASSUME ReportInv, UNCHANGED <<loads, history>>,
         \A g \in Gens : Account(g, entry'[g], told[g], served, missed, On(g, calls')),
         \A g \in Gens : entry'[g] # None => Shape(entry'[g]),
         \A g \in Gens : entry[g] = None => entry'[g] = None /\ On(g, calls') = On(g, calls),
         \A c \in calls' : c.kind = "load" => ~c.first
  PROVE  ReportInv'
<1>1. UNCHANGED <<told, served, missed>>
  BY DEF history
<1>2. \A g \in Gens : g > loads' => Unused(g, calls, told)'
  BY <1>1 DEF ReportInv, Ledger, Unused
<1>3. QED
  BY <1>1, <1>2, Zenon DEF ReportInv, Ledger

(* Setting a flag of a loading entry keeps its account.                    *)
LEMMA FlagAccount ==
  ASSUME IInv, ReportInv, NEW g \in Gens, entry[g] # None, entry[g].state = "loading", NEW f,
         f # None, Kept(entry[g], f), NEW cs, cs = On(g, calls)
  PROVE  Account(g, f, told[g], served, missed, cs) /\ Shape(f)
<1>1. Account(g, entry[g], told[g], served, missed, cs) /\ Shape(entry[g])
  BY Zenon DEF ReportInv, Ledger
<1>2. Shape(f)
  BY <1>1 DEF Shape, Kept
<1>3. QED
  BY <1>1, <1>2, AccountSame, Zenon DEF Kept

LEMMA UnloadedLoading ==
  ASSUME IInv, ReportInv, NEW g \in Gens, Live(g), entry[g].state = "loading"
  PROVE  Account(g, Unloaded(g), told[g], served, missed, On(g, calls)) /\ Shape(Unloaded(g))
<1> DEFINE v == TRUE
           f == [entry[g] EXCEPT !.aborted = v]
<1>1. Unloaded(g) = f /\ v \in BOOLEAN
  BY DEF Unloaded
<1>2. entry[g] \in Entry /\ entry[g] # None
  BY DEF IInv, Types, Live
<1> USE <1>2
<1>3. {"state", "died", "stage"} \subseteq DOMAIN entry[g]
  BY DEF Entry
<1> HIDE DEF v
<1>4. Kept(entry[g], f)
  BY <1>3, SetsKept, Zenon
<1>5. f # None
  BY <1>1, SetAborted, ConstantsAssumption, Zenon
<1> HIDE DEF f
<1>6. QED
  BY <1>1, <1>4, <1>5, FlagAccount, Zenon

(* unload of several models: what becomes of one generation.               *)
LEMMA UnloadOne ==
  ASSUME IInv, ReportInv, core = "up", NEW ms \in SUBSET Models, UnloadAll(ms), NEW m \in ms,
         NEW g \in Gens, table[m] = g
  PROVE  /\ Account(g, entry'[g], told[g], served, missed, On(g, calls'))
         /\ entry'[g] # None => Shape(entry'[g])
<1> DEFINE W(x) == Wait("unload", x, None, ~In(x, "stopping"))
           new == {W(x) : x \in {y \in ms : table[y] # None /\ ~In(y, "loading")}}
           w == W(m)
<1>1. entry[g] # None /\ entry[g].model = m /\ g # None /\ Live(g) /\ entry'[g] = Unloaded(g)
  BY ConstantsAssumption DEF IInv, TableOK, Live, UnloadAll
<1> USE <1>1
<1>2. \A x \in ms : table[x] = g => x = m
  BY DEF IInv, TableOK
<1>3. calls' = calls \cup new
  BY DEF UnloadAll
<1>4. w.out = "pending" /\ (w.first <=> entry[g].state # "stopping")
  BY Zenon DEF Wait, In
<1>5. \A x : W(x).on = table[x]
  BY DEF Wait
<1> HIDE DEF W
<1>6. In(m, "loading") <=> entry[g].state = "loading"
  BY DEF In
<1>7. Account(g, entry[g], told[g], served, missed, On(g, calls)) /\ Shape(entry[g])
  BY Zenon DEF ReportInv, Ledger
<1>8. CASE entry[g].state = "loading"
  <2>1. \A c \in new : c.on # g
    BY <1>2, <1>5, <1>6, <1>8
  <2> HIDE DEF new
  <2>2. On(g, calls') = On(g, calls)
    BY <1>3, <2>1 DEF On
  <2>3. QED
    BY <1>8, <2>2, UnloadedLoading, Zenon
<1>9. CASE entry[g].state # "loading"
  <2>1. w \in new /\ w.on = g /\ \A c \in new : c.on = g => c = w
    BY <1>2, <1>5, <1>6, <1>9
  <2> HIDE DEF new, w
  <2>2. On(g, calls') = On(g, calls) \cup {w}
    BY <1>3, <2>1 DEF On
  <2>3. CASE entry[g].state = "stopping"
    <3>1. ~w.first /\ entry'[g] = entry[g]
      BY <1>4, <2>3 DEF Unloaded
    <3>2. Account(g, entry[g], told[g], served, missed, On(g, calls) \cup {w})
      BY <1>4, <1>7, <2>3, <3>1, AccountJoin, Zenon
    <3>3. QED
      BY <1>7, <2>2, <3>1, <3>2, Zenon
  <2>4. CASE entry[g].state # "stopping"
    <3>1. w.first /\ entry'[g] = Ending(entry[g], FALSE)
      BY <1>4, <1>9, <2>4 DEF Unloaded
    <3>2. entry[g].state \in {"ready", "stop-unconfirmed"}
      BY <1>9, <2>4 DEF IInv, Types, Entry
    <3>3. Ledger(calls, told)
      BY DEF ReportInv
    <3>4. /\ Account(g, Ending(entry[g], FALSE), told[g], served, missed, On(g, calls) \cup {w})
          /\ Shape(Ending(entry[g], FALSE))
      BY <1>4, <3>1, <3>2, <3>3, EndAccount, Zenon
    <3>5. QED
      BY <2>2, <3>1, <3>4, Zenon
  <2>5. QED
    BY <2>3, <2>4
<1>10. QED
  BY <1>8, <1>9

LEMMA UnloadAllReports ==
  ASSUME IInv, ReportInv, core = "up", NEW ms \in SUBSET Models, UnloadAll(ms), UNCHANGED <<loads, history>>
  PROVE  ReportInv'
<1>1. \A x : /\ Wait("unload", x, None, ~In(x, "stopping")).on = table[x]
             /\ Wait("unload", x, None, ~In(x, "stopping")).kind = "unload"
  BY DEF Wait
<1>2. ASSUME NEW g \in Gens, ~\E m \in ms : table[m] = g
      PROVE  entry'[g] = entry[g] /\ On(g, calls') = On(g, calls)
  BY <1>1, <1>2 DEF UnloadAll, On
<1>3. ASSUME NEW g \in Gens, entry[g] = None PROVE ~\E m \in ms : table[m] = g
  BY <1>3, ConstantsAssumption DEF IInv, TableOK
<1>4. \A g \in Gens : /\ Account(g, entry'[g], told[g], served, missed, On(g, calls'))
                      /\ entry'[g] # None => Shape(entry'[g])
  <2>1. TAKE g \in Gens
  <2>2. CASE \E m \in ms : table[m] = g
    BY <2>2, UnloadOne, Zenon
  <2>3. CASE ~\E m \in ms : table[m] = g
    BY <1>2, <2>3 DEF ReportInv, Ledger
  <2>4. QED
    BY <2>2, <2>3
<1>5. \A c \in calls' : c.kind = "load" => ~c.first
  BY <1>1, Zenon DEF UnloadAll, ReportInv, Ledger
<1>6. QED
  BY <1>2, <1>3, <1>4, <1>5, PointStep, Zenon

LEMMA CancelReports ==
  ASSUME IInv, IInv', ReportInv, NEW g \in Gens, Cancel(g) PROVE ReportInv'
<1> DEFINE f == [entry[g] EXCEPT !.aborted = TRUE]
<1>1. /\ entry[g] # None /\ entry[g].state = "loading" /\ entry' = [entry EXCEPT ![g] = f]
      /\ UNCHANGED <<loads, table, calls, history>>
  BY DEF Cancel, Live
<1>2. entry[g] \in Entry /\ {"state", "died", "stage"} \subseteq DOMAIN entry[g]
  BY <1>1 DEF IInv, Types, Entry
<1>3. Kept(entry[g], f)
  BY <1>2, SetsKept, Zenon
<1> HIDE DEF f
<1>4. QED
  BY <1>1, <1>2, <1>3, KeptMoves, MovedStep, Zenon

LEMMA DesertedAccount ==
  ASSUME IInv, ReportInv, NEW g \in Gens, Live(g), entry[g].state \in {"ready", "loading"}
  PROVE  /\ Account(g, Deserted(entry[g]), told[g], served, missed, On(g, calls))
         /\ Shape(Deserted(entry[g]))
<1> DEFINE v == TRUE
           cs == On(g, calls)
<1>1. entry[g] \in Entry /\ entry[g] # None /\ v \in BOOLEAN /\ v
  BY DEF IInv, Types, Live
<1> USE <1>1
<1>2. {"state", "died", "stage"} \subseteq DOMAIN entry[g]
  BY DEF Entry
<1>3. CASE entry[g].state = "loading"
  <2> DEFINE b == [entry[g] EXCEPT !.lost = v]
             f == [b EXCEPT !.aborted = v]
  <2>1. Deserted(entry[g]) = f
    BY <1>3, Zenon DEF Deserted
  <2> HIDE DEF v
  <2>2. b \in Entry /\ Kept(entry[g], b)
    BY <1>2, SetLost, SetsKept, Zenon
  <2> HIDE DEF b
  <2>3. f \in Entry /\ Kept(b, f)
    BY <2>2, SetAborted, SetsKept, Zenon DEF Kept
  <2> HIDE DEF f
  <2>4. f # None /\ Kept(entry[g], f)
    BY <2>2, <2>3, KeptTwice, ConstantsAssumption, Zenon
  <2>5. QED
    BY <1>3, <2>1, <2>4, FlagAccount, Zenon
<1>4. CASE entry[g].state = "ready"
  <2> DEFINE b == Ending(entry[g], v)
             f == [b EXCEPT !.lost = v]
  <2>1. Deserted(entry[g]) = f
    BY <1>4 DEF Deserted
  <2> HIDE DEF v
  <2>2. b \in Entry /\ b.state = "stopping" /\ b.died = v /\ b.pc = "over"
    BY EndingShape, EndingFacts, Zenon
  <2> USE <2>2
  <2> HIDE DEF b
  <2>3. {"state", "died", "stage"} \subseteq DOMAIN b
    BY DEF Entry
  <2>4. Kept(b, f)
    BY <2>3, SetsKept, Zenon
  <2>5. f \in Entry /\ f.pc = b.pc
    BY SetLost, Zenon
  <2> HIDE DEF f
  <2>6. f # None /\ f.state = "stopping" /\ f.died /\ Shape(f)
    BY <2>4, <2>5, ConstantsAssumption DEF Kept, Shape
  <2>7. Account(g, entry[g], told[g], served, missed, cs)
    BY DEF ReportInv, Ledger
  <2>8. Account(g, f, told[g], served, missed, cs)
    BY <1>4, <2>6, <2>7, AccountEnds, Zenon
  <2>9. QED
    BY <2>1, <2>6, <2>8, Zenon
<1>5. QED
  BY <1>3, <1>4

LEMMA DistributionStoppedReports ==
  ASSUME IInv, ReportInv, OnDistributionStopped PROVE ReportInv'
<1> DEFINE hit == {g \in Gens : entry[g] # None /\ entry[g].state \in {"ready", "loading"}}
<1>1. /\ core = "up" /\ UNCHANGED <<loads, calls, history>>
      /\ entry' = [g \in Gens |-> IF g \in hit THEN Deserted(entry[g]) ELSE entry[g]]
  BY DEF OnDistributionStopped
<1> USE <1>1
<1>2. \A g \in Gens : /\ Account(g, entry'[g], told[g], served, missed, On(g, calls'))
                      /\ entry'[g] # None => Shape(entry'[g])
  <2>1. TAKE g \in Gens
  <2>2. CASE g \in hit
    <3>1. entry'[g] = Deserted(entry[g]) /\ Live(g) /\ entry[g].state \in {"ready", "loading"}
      BY <2>2 DEF Live
    <3>2. QED
      BY <3>1, DesertedAccount
  <2>3. CASE g \notin hit
    <3>1. entry'[g] = entry[g]
      BY <2>3
    <3>2. QED
      BY <3>1 DEF ReportInv, Ledger
  <2>4. QED
    BY <2>2, <2>3
<1>3. \A g \in Gens : entry[g] = None => entry'[g] = None /\ On(g, calls') = On(g, calls)
  OBVIOUS
<1>4. \A c \in calls' : c.kind = "load" => ~c.first
  BY DEF ReportInv, Ledger
<1>5. QED
  BY <1>2, <1>3, <1>4, PointStep, Zenon

(* Every listener is gone with its core: the accounts start anew.          *)
LEMMA EmptyLedger ==
  ASSUME entry' = [g \in Gens |-> None], calls' = {}, told' = [g \in Gens |-> 0], served' = {},
         missed' = {}
  PROVE  ReportInv'
<1>1. \A g \in Gens : On(g, calls') = {} /\ entry'[g] = None /\ told'[g] = 0
  BY DEF On
<1> USE <1>1
<1>2. \A g \in Gens : Account(g, entry'[g], told'[g], served', missed', On(g, calls'))
  BY AccountNew
<1>3. \A g \in Gens : g > loads' => Unused(g, calls, told)'
  BY DEF Unused
<1>4. QED
  BY <1>2, <1>3 DEF ReportInv, Ledger

LEMMA ReportInit == Init => ReportInv
<1> SUFFICES ASSUME Init PROVE ReportInv
  OBVIOUS
<1>1. \A g \in Gens : On(g, calls) = {} /\ entry[g] = None /\ told[g] = 0 /\ g \notin served /\ g \notin missed
  BY DEF Init, On
<1>2. \A g \in Gens : Account(g, entry[g], told[g], served, missed, On(g, calls))
  BY <1>1, AccountNew
<1>3. QED
  BY <1>1, <1>2 DEF ReportInv, Ledger, Unused, Init

-----------------------------------------------------------------------------
(* The invariant                                                           *)

LEMMA SameReports ==
  ASSUME ReportInv, UNCHANGED <<loads, entry, calls, history>> PROVE ReportInv'
<1>1. Ledger(calls, told) /\ UNCHANGED <<loads, entry, calls, told, served, missed>>
  BY DEF ReportInv, history
<1>2. QED
  BY <1>1, LedgerSame, Zenon

LEMMA ReportNext == IInv /\ IInv' /\ RestOK /\ ReportInv /\ [Next]_vars => ReportInv'
<1> SUFFICES ASSUME IInv, IInv', RestOK, ReportInv, [Next]_vars PROVE ReportInv'
  OBVIOUS
<1>1. CASE \E m \in Models : Unload(m) \/ \E k \in Keys : Load(m, k)
  <2>1. ASSUME NEW m \in Models, Unload(m) PROVE ReportInv'
    BY <2>1, UnloadAllReports DEF Unload
  <2>2. QED
    BY <1>1, <2>1, LoadReports, Zenon
<1>2. CASE \E g \in Gens : Cancel(g) \/ LoadStep(g) \/ EndStep(g) \/ OnCrash(g)
  BY <1>2, CancelReports, LoadStepReports, EndStepReports, OnCrashReports, Zenon
<1>3. CASE CallStep \/ \E c \in calls : LoadGivesUp(c)
  BY <1>3, LoadReturnsReports, ReloadReturnsReports, UnloadReturnsReports, LoadGivesUpReports, Zenon
     DEF CallStep
<1>4. CASE Shutdown
  BY <1>4, UnloadAllReports DEF Shutdown
<1>5. CASE \E c \in Containers : EngineExits(c) \/ WatchdogEnds(c) \/ Reconcile(c) \/ EvictLeftover(c)
  BY <1>5, SameReports, Zenon DEF EngineExits, WatchdogEnds, Reconcile, EvictLeftover, reconcileFrame
<1>6. CASE VmStops \/ Start \/ FinishStart
  BY <1>6, SameReports, Zenon DEF VmStops, Start, FinishStart
<1>7. CASE OnDistributionStopped
  BY <1>7, DistributionStoppedReports
<1>8. CASE Exit
  BY <1>8, EmptyLedger DEF Exit
<1>9. CASE UNCHANGED vars
  BY <1>9, SameReports DEF vars
<1>10. QED
  BY <1>1, <1>2, <1>3, <1>4, <1>5, <1>6, <1>7, <1>8, <1>9, Zenon DEF Next

(* A session that served is reported ended exactly once when its teardown  *)
(* is over and nobody waits for it, and once more for a crash whose stop   *)
(* was not confirmed (unload, end and onCrash of lifecycle.ts).            *)
THEOREM EndIsAnnouncedOnce == Spec => []AnnouncedOnce
<1>1. RestOK /\ ReportInv => AnnouncedOnce
  <2> SUFFICES ASSUME RestOK, ReportInv, NEW g \in served, entry[g] = None, \A c \in calls : c.on # g
               PROVE  told[g] = IF g \in missed THEN 2 ELSE 1
    BY DEF AnnouncedOnce
  <2>1. On(g, calls) = {} /\ g \in Gens
    BY DEF On, RestOK
  <2>2. Account(g, entry[g], told[g], served, missed, {})
    BY <2>1 DEF ReportInv, Ledger
  <2>3. QED
    BY <2>2 DEF Account, OneOwes, Due
<1>2. Init => ReportInv
  BY ReportInit
<1>3. IInv /\ IInv' /\ RestOK /\ ReportInv /\ [Next]_vars => ReportInv'
  BY ReportNext
<1>4. QED
  BY <1>1, <1>2, <1>3, Inductive, RestInductive, PTL DEF Spec
=============================================================================
