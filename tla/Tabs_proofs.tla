----------------------------- MODULE Tabs_proofs -----------------------------
(***************************************************************************)
(* What the five pages without a timer promise, for every number of        *)
(* overlapping handlers: once nothing is under way, what is shown is what  *)
(* the client will find again, and after a reload that ran alone all of it *)
(* is of one question.                                                     *)
(***************************************************************************)
EXTENDS Tabs, WellFoundedInduction, TLAPS

-----------------------------------------------------------------------------
(* The coroutines, the same on every page.                                 *)

TabTasks  == Turners \cup {"build"}
JobFields == {"pc", "read", "slot", "torn", "alone"}

DoingShape ==
  /\ DOMAIN doing = TabTasks
  /\ \A t \in TabTasks : DOMAIN doing[t] = JobFields /\ doing[t].alone \in BOOLEAN

\* A coroutine that nothing ran beside so far has nothing beside it now.
AloneIsAlone ==
  \A t \in TabTasks : doing[t].alone =>
    doing[t].pc # "rest" /\ \A s \in TabTasks : s # t => doing[s].pc = "rest"

DoingInv == DoingShape /\ AloneIsAlone

\* Some coroutine awaits one of these.
Awaited(pcs) == \E t \in TabTasks : doing[t].pc \in pcs

\* What a step of the page does to its coroutines, as far as the proofs look.
Waits(s) == doing'[s].pc = doing[s].pc /\ doing'[s].read = doing[s].read
Stays(s) == Waits(s) /\ doing'[s].alone = doing[s].alone

Begun(t, pc, read) ==
  /\ DoingShape' /\ UNCHANGED ended
  /\ doing[t].pc = "rest" /\ doing'[t].pc = pc /\ doing'[t].read = read
  /\ doing'[t].alone => \A s \in TabTasks : doing[s].pc = "rest"
  /\ \A s \in TabTasks \ {t} : Waits(s) /\ ~doing'[s].alone

GoneOn(t, pc, read) ==
  /\ DoingShape' /\ UNCHANGED ended
  /\ doing'[t].pc = pc /\ doing'[t].read = read /\ doing'[t].alone = doing[t].alone
  /\ \A s \in TabTasks \ {t} : Stays(s)

Over(t) ==
  /\ DoingShape'
  /\ doing'[t].pc = "rest" /\ ~doing'[t].alone
  /\ \A s \in TabTasks \ {t} : Stays(s)

\* How a coroutine that is over leaves the page.
Reloaded(t) == Over(t) /\ ended' = IF doing[t].alone THEN "lone" ELSE IF ended = "broken" THEN "broken" ELSE "shared"
Redrew(t)   == Over(t) /\ ended' = IF ended = "lone" /\ ~doing[t].alone THEN "shared" ELSE ended
Broke(t)    == Over(t) /\ ended' = "broken"
Left(t)     == Over(t) /\ UNCHANGED ended

Unmoved   == DoingShape' /\ \A s \in TabTasks : Stays(s)
Disturbed == DoingShape' /\ \A s \in TabTasks : Waits(s) /\ ~doing'[s].alone

LEMMA DoingStep ==
  ASSUME DoingInv, NEW t \in TabTasks, NEW pc, NEW read,
         \/ pc # "rest" /\ (Begun(t, pc, read) \/ (doing[t].pc # "rest" /\ GoneOn(t, pc, read)))
         \/ Over(t) \/ Unmoved \/ Disturbed
  PROVE  DoingInv'
<1>1. CASE Begun(t, pc, read) /\ pc # "rest"
  BY <1>1 DEF DoingInv, AloneIsAlone, Begun, Waits
<1>2. CASE GoneOn(t, pc, read) /\ pc # "rest" /\ doing[t].pc # "rest"
  BY <1>2 DEF DoingInv, AloneIsAlone, GoneOn, Stays, Waits
<1>3. CASE Over(t)
  BY <1>3 DEF DoingInv, AloneIsAlone, Over, Stays, Waits
<1>4. CASE Unmoved \/ Disturbed
  BY <1>4 DEF DoingInv, AloneIsAlone, Unmoved, Disturbed, Stays, Waits
<1> QED
  BY <1>1, <1>2, <1>3, <1>4

\* A coroutine has gone where it is.
LEMMA GoesWhere ==
  ASSUME NEW t, NEW pc, NEW read
  PROVE  /\ GoneOn(t, pc, read) => doing'[t].pc = pc /\ GoneOn(t, doing'[t].pc, doing'[t].read)
         /\ Begun(t, pc, read) => doing'[t].pc = pc /\ Begun(t, doing'[t].pc, doing'[t].read)
<1>1. ASSUME GoneOn(t, pc, read) PROVE doing'[t].pc = pc /\ doing'[t].read = read
  BY <1>1 DEF GoneOn
<1>2. ASSUME Begun(t, pc, read) PROVE doing'[t].pc = pc /\ doing'[t].read = read
  BY <1>2 DEF Begun
<1> QED
  BY <1>1, <1>2

-----------------------------------------------------------------------------
(* The Census page.                                                        *)

LEMMA CensusCoroutines ==
  ASSUME DoingShape, NEW t \in TabTasks
  PROVE  /\ \A slot, pc, read : Census!BeginsIn(slot, t, pc, read) => Begun(t, pc, read)
         /\ \A pc, read : Census!Goes(t, pc, read) => GoneOn(t, pc, read)
         /\ \A slots : Census!Ends(t, slots) => Reloaded(t)
         /\ Census!Breaks(t) => Broke(t)
         /\ \A slots : Census!Redraws(slots) => Unmoved
<1>0. /\ DOMAIN Census!Resting = JobFields /\ Census!Resting.pc = "rest" /\ Census!Resting.alone = FALSE
      /\ Census!Tasks = TabTasks
  BY DEF Census!Resting, Census!Tasks, JobFields, TabTasks
<1>1. ASSUME NEW slot, NEW pc, NEW read, Census!BeginsIn(slot, t, pc, read) PROVE Begun(t, pc, read)
  <2>1. (\A s \in TabTasks : doing[s].pc = "rest") <=> Census!Calm
    BY <1>0 DEF Census!Calm, Census!Busy
  <2> DEFINE r == [Census!Resting EXCEPT !.pc = pc, !.read = read, !.slot = slot, !.alone = Census!Calm]
  <2>2. DOMAIN r = JobFields /\ r.pc = pc /\ r.read = read /\ (r.alone <=> Census!Calm) /\ r.alone \in BOOLEAN
    BY <1>0 DEF JobFields, Census!Calm
  <2>3. /\ doing[t].pc = "rest" /\ UNCHANGED ended /\ DOMAIN doing' = TabTasks
        /\ doing'[t] = r /\ \A s \in TabTasks \ {t} : doing'[s] = [doing[s] EXCEPT !.alone = FALSE]
    BY <1>0, <1>1 DEF Census!BeginsIn
  <2> HIDE DEF r
  <2>4. ASSUME NEW s \in TabTasks \ {t}
        PROVE  DOMAIN doing'[s] = JobFields /\ doing'[s].alone = FALSE /\ Waits(s)
    BY <2>3 DEF DoingShape, Waits, JobFields
  <2>5. DoingShape'
    BY <2>2, <2>3, <2>4 DEF DoingShape
  <2> QED
    BY <2>1, <2>2, <2>3, <2>4, <2>5 DEF Begun
<1>2. ASSUME NEW pc, NEW read, Census!Goes(t, pc, read) PROVE GoneOn(t, pc, read)
  BY <1>2 DEF Census!Goes, DoingShape, GoneOn, Stays, Waits, JobFields
<1>3. ASSUME NEW slots, Census!Rests(t, slots) PROVE Over(t)
  BY <1>0, <1>3 DEF Census!Rests, Census!Torn, DoingShape, Over, Stays, Waits, JobFields
<1>4. ASSUME Census!Breaks(t) PROVE Broke(t)
  BY <1>0, <1>4 DEF Census!Breaks, DoingShape, Broke, Over, Stays, Waits, JobFields
<1>5. ASSUME NEW slots, Census!Redraws(slots) PROVE Unmoved
  BY <1>0, <1>5 DEF Census!Redraws, Census!Torn, DoingShape, Unmoved, Stays, Waits, JobFields
<1> QED
  BY <1>1, <1>2, <1>3, <1>4, <1>5 DEF Census!Ends, Reloaded

\* The corpus of the page is the client's, and is drawn, unless a reload is
\* under way that will see to it, or one broke off.
CensusFinds == ended # "broken" =>
  /\ client.corpus = view.corpus \/ Awaited({"lists", "listed"})
  /\ view.drawn.corpus = view.corpus \/ Awaited({"lists", "listed", "summary", "columns"})

\* A reload that runs alone asks what the client wants, and of the corpus held.
CensusAsksAlone ==
  \A t \in TabTasks : doing[t].alone =>
    /\ doing[t].pc \in {"summary", "columns"} =>
         /\ view.corpus = client.corpus
         /\ doing[t].read = [corpus |-> client.corpus, asked |-> client.asked]
    /\ doing[t].pc = "columns" => view.summary = client.corpus

\* What the page holds, and drew, is of one question.
CensusIsOfOne ==
  /\ view.corpus = client.corpus /\ view.summary = client.corpus
  /\ client.corpus # 0 => view.rows = [corpus |-> client.corpus, asked |-> client.asked]
  /\ view.drawn.corpus = view.corpus /\ view.drawn.summary = view.summary /\ view.drawn.rows = view.rows

CensusInv ==
  /\ DoingInv
  /\ DOMAIN client = {"corpus", "asked"} /\ DOMAIN view = {"corpora", "corpus", "summary", "rows", "drawn"}
  /\ CensusFinds /\ CensusAsksAlone
  /\ ended = "lone" => CensusIsOfOne \/ Awaited({"lists", "listed", "summary", "columns"})

LEMMA CensusInvInit == Census!CensusInit => CensusInv
<1> SUFFICES ASSUME Census!CensusInit PROVE CensusInv
  OBVIOUS
<1>1. DoingInv /\ doing["build"].pc = "lists" /\ ended = "shared" /\ "build" \in TabTasks
  BY DEF Census!CensusInit, Census!Opens, Census!Resting, Census!Tasks, DoingInv, DoingShape, AloneIsAlone,
         TabTasks, JobFields
<1>2. CensusAsksAlone
  BY DEF Census!CensusInit, Census!Opens, Census!Resting, Census!Tasks, CensusAsksAlone, TabTasks
<1> QED
  BY <1>1, <1>2 DEF Census!CensusInit, CensusInv, CensusFinds, Awaited

LEMMA CensusMoves ==
  ASSUME CensusInv, [Census!CensusNext]_tabVars
  PROVE  CensusInv'
<1> USE DEF Awaited, Stays, Waits
<1>0. /\ DoingInv /\ DoingShape /\ CensusFinds /\ CensusAsksAlone /\ Census!Tasks = TabTasks
      /\ DOMAIN client = {"corpus", "asked"} /\ DOMAIN view = {"corpora", "corpus", "summary", "rows", "drawn"}
      /\ ended = "lone" => CensusIsOfOne \/ Awaited({"lists", "listed", "summary", "columns"})
  BY DEF CensusInv, DoingInv, Census!Tasks, TabTasks
<1>a. \A t \in TabTasks : \A pc, read : Census!At(t, pc) => doing[t].pc = pc
  BY DEF Census!At
<1>1. ASSUME NEW t \in Turners, Census!PickCorpus(t) \/ Census!Refilter(t) \/ Census!TurnPage(t)
      PROVE  CensusInv'
  <2>1. PICK now : Census!Picks(t, now) /\ DOMAIN now = {"corpus", "asked"}
    <3>1. CASE Census!PickCorpus(t)
      <4>1. PICK c \in view.drawn.corpora : Census!Picks(t, [corpus |-> c, asked |-> [client.asked EXCEPT !.page = 1]])
        BY <3>1 DEF Census!PickCorpus
      <4> QED
        BY <4>1
    <3>2. CASE Census!Refilter(t)
      <4>1. PICK f \in 1..2 : Census!Picks(t, [client EXCEPT !.asked = [filter |-> f, page |-> 1]])
        BY <3>2 DEF Census!Refilter
      <4> QED
        BY <1>0, <4>1
    <3>3. CASE Census!TurnPage(t)
      <4>1. PICK p \in 1..2 : Census!Picks(t, [client EXCEPT !.asked.page = p])
        BY <3>3 DEF Census!TurnPage
      <4> QED
        BY <1>0, <4>1
    <3> QED
      BY <1>1, <3>1, <3>2, <3>3
  <2>2. t \in TabTasks /\ Begun(t, "lists", {}) /\ DOMAIN client' = {"corpus", "asked"} /\ UNCHANGED <<db, view>>
    BY <1>0, <2>1, CensusCoroutines DEF Census!Picks, Census!Begins, TabTasks
  <2>3. DoingInv'
    BY <1>0, <2>2, DoingStep
  <2> QED
    BY <1>0, <2>2, <2>3 DEF CensusInv, CensusFinds, CensusAsksAlone, Begun
<1>2. ASSUME NEW t \in TabTasks, Census!Lists(t) PROVE CensusInv'
  <2>1. GoneOn(t, "listed", db.corpora) /\ doing[t].pc = "lists" /\ UNCHANGED <<db, client, view>>
    BY <1>0, <1>2, CensusCoroutines DEF Census!Lists, Census!At
  <2>2. DoingInv'
    BY <1>0, <2>1, DoingStep
  <2> QED
    BY <1>0, <2>1, <2>2 DEF CensusInv, CensusFinds, CensusAsksAlone, CensusIsOfOne, GoneOn
<1>3. ASSUME NEW t \in TabTasks, Census!Listed(t) PROVE CensusInv'
  <2> DEFINE corpus == Census!CurrentCorpus(doing[t].read, client.corpus)
             held   == [view EXCEPT !.corpora = doing[t].read, !.corpus = corpus]
  <2>1. /\ doing[t].pc = "listed" /\ client' = [client EXCEPT !.corpus = corpus]
        /\ IF corpus = 0
             THEN view' = Census!Drawn([held EXCEPT !.summary = 0, !.rows = Census!NoRows]) /\ Reloaded(t)
             ELSE view' = held /\ GoneOn(t, "summary", [corpus |-> corpus, asked |-> client.asked])
    BY <1>0, <1>3, CensusCoroutines DEF Census!Listed, Census!At
  <2> HIDE DEF corpus
  <2>2. CASE corpus = 0
    <3>1. DoingInv'
      BY <1>0, <2>1, <2>2, DoingStep DEF Reloaded
    <3>2. /\ client'.corpus = 0 /\ view'.corpus = 0 /\ view'.summary = 0
          /\ view'.drawn.corpus = view'.corpus /\ view'.drawn.summary = view'.summary /\ view'.drawn.rows = view'.rows
          /\ DOMAIN client' = {"corpus", "asked"}
          /\ DOMAIN view' = {"corpora", "corpus", "summary", "rows", "drawn"}
      <4> DEFINE cleared == [held EXCEPT !.summary = 0, !.rows = Census!NoRows]
      <4>1. /\ DOMAIN cleared = {"corpora", "corpus", "summary", "rows", "drawn"}
            /\ cleared.corpus = corpus /\ cleared.summary = 0 /\ view' = Census!Drawn(cleared)
        BY <1>0, <2>1, <2>2
      <4> HIDE DEF cleared
      <4> QED
        BY <1>0, <2>1, <2>2, <4>1 DEF Census!Drawn
    <3>3. CensusFinds' /\ CensusIsOfOne'
      BY <1>0, <2>1, <2>2, <3>2 DEF CensusFinds, CensusIsOfOne
    <3>4. CensusAsksAlone'
      BY <1>0, <2>1, <2>2 DEF CensusAsksAlone, Reloaded, Over, DoingInv, AloneIsAlone
    <3> QED
      BY <3>1, <3>2, <3>3, <3>4 DEF CensusInv
  <2>3. CASE corpus # 0
    <3>1. DoingInv'
      BY <1>0, <2>1, <2>3, DoingStep
    <3>2. /\ client'.corpus = corpus /\ client'.asked = client.asked /\ view'.corpus = corpus
          /\ DOMAIN client' = {"corpus", "asked"}
          /\ DOMAIN view' = {"corpora", "corpus", "summary", "rows", "drawn"}
      BY <1>0, <2>1, <2>3
    <3> QED
      BY <1>0, <2>1, <2>3, <3>1, <3>2
         DEF CensusInv, CensusFinds, CensusAsksAlone, GoneOn, DoingInv, AloneIsAlone
  <2> QED
    BY <2>2, <2>3
<1>4. ASSUME NEW t \in TabTasks, Census!ListedTorn(t) PROVE CensusInv'
  <2>1. Broke(t) /\ UNCHANGED client /\ DOMAIN view' = {"corpora", "corpus", "summary", "rows", "drawn"}
        /\ view'.corpus = view.corpus /\ view'.summary = view.summary
    BY <1>0, <1>4, CensusCoroutines DEF Census!ListedTorn
  <2>2. DoingInv'
    BY <1>0, <2>1, DoingStep DEF Broke
  <2> QED
    BY <1>0, <2>1, <2>2 DEF CensusInv, CensusFinds, CensusAsksAlone, Broke, Over
<1>5. ASSUME NEW t \in TabTasks, Census!Summarised(t) PROVE CensusInv'
  <2>1. /\ doing[t].pc = "summary" /\ UNCHANGED client /\ view' = [view EXCEPT !.summary = doing[t].read.corpus]
        /\ \/ Broke(t)
           \/ view.corpus # 0 /\ GoneOn(t, "columns", [doing[t].read EXCEPT !.corpus = view.corpus])
    BY <1>0, <1>5, CensusCoroutines DEF Census!Summarised, Census!At
  <2>2. DoingInv'
    BY <1>0, <2>1, DoingStep DEF Broke
  <2>3. DOMAIN view' = {"corpora", "corpus", "summary", "rows", "drawn"}
        /\ view'.corpus = view.corpus /\ view'.drawn = view.drawn /\ view'.summary = doing[t].read.corpus
    BY <1>0, <2>1
  <2>4. doing[t].alone => /\ [doing[t].read EXCEPT !.corpus = view.corpus] = doing[t].read
                          /\ doing[t].read.corpus = client.corpus
    BY <1>0, <2>1 DEF CensusAsksAlone
  <2> QED
    BY <1>0, <2>1, <2>2, <2>3, <2>4
       DEF CensusInv, CensusFinds, CensusAsksAlone, Broke, Over, GoneOn, DoingInv, AloneIsAlone
<1>6. ASSUME NEW t \in TabTasks, Census!Columned(t) PROVE CensusInv'
  <2>1. /\ doing[t].pc = "columns" /\ UNCHANGED client /\ Reloaded(t)
        /\ view' = Census!Drawn([view EXCEPT !.rows = doing[t].read])
    BY <1>0, <1>6, CensusCoroutines DEF Census!Columned, Census!At
  <2>2. DoingInv'
    BY <1>0, <2>1, DoingStep DEF Reloaded
  <2>3. /\ DOMAIN view' = {"corpora", "corpus", "summary", "rows", "drawn"}
        /\ view'.corpus = view.corpus /\ view'.summary = view.summary /\ view'.rows = doing[t].read
        /\ view'.drawn.corpus = view.corpus /\ view'.drawn.summary = view.summary /\ view'.drawn.rows = doing[t].read
    BY <1>0, <2>1 DEF Census!Drawn
  <2> QED
    BY <1>0, <2>1, <2>2, <2>3
       DEF CensusInv, CensusFinds, CensusAsksAlone, CensusIsOfOne, Reloaded, Over, DoingInv, AloneIsAlone
<1>7. CASE Census!ToggleMenu
  <2>1. Unmoved /\ UNCHANGED <<client, ended>> /\ view' = Census!Drawn(view)
    BY <1>0, <1>7, CensusCoroutines DEF Census!ToggleMenu, TabTasks
  <2>2. DoingInv'
    BY <1>0, <2>1, DoingStep DEF TabTasks
  <2>3. /\ DOMAIN view' = {"corpora", "corpus", "summary", "rows", "drawn"}
        /\ view'.corpus = view.corpus /\ view'.summary = view.summary /\ view'.rows = view.rows
        /\ view'.drawn.corpus = view.corpus /\ view'.drawn.summary = view.summary /\ view'.drawn.rows = view.rows
    BY <1>0, <2>1 DEF Census!Drawn
  <2> QED
    BY <1>0, <2>1, <2>2, <2>3
       DEF CensusInv, CensusFinds, CensusAsksAlone, CensusIsOfOne, Unmoved
<1>8. CASE Census!CorporaChange \/ UNCHANGED tabVars
  <2>1. UNCHANGED <<client, view, doing, ended>>
    BY <1>8 DEF Census!CorporaChange, Census!Elsewhere, tabVars
  <2> QED
    BY <1>0, <2>1
       DEF CensusInv, CensusFinds, CensusAsksAlone, CensusIsOfOne, DoingInv, DoingShape, AloneIsAlone
<1> QED
  BY <1>0, <1>1, <1>2, <1>3, <1>4, <1>5, <1>6, <1>7, <1>8 DEF Census!CensusNext, Census!CensusStep

LEMMA CensusHolds == CensusInv => Census!CensusRemembers /\ Census!CensusAgrees
BY DEF CensusInv, CensusFinds, CensusIsOfOne, Awaited, Census!CensusRemembers, Census!CensusAgrees,
       Census!Calm, Census!Busy, Census!Tasks, TabTasks

-----------------------------------------------------------------------------
(* The Codelists page.                                                     *)

LEMMA CodelistsCoroutines ==
  ASSUME DoingShape, NEW t \in TabTasks
  PROVE  /\ \A slot, pc, read : Codelists!BeginsIn(slot, t, pc, read) => Begun(t, pc, read)
         /\ \A pc, read : Codelists!Goes(t, pc, read) => GoneOn(t, pc, read)
         /\ \A slots : Codelists!Ends(t, slots) => Reloaded(t)
         /\ \A slots : Codelists!Draws(t, slots) => Redrew(t)
         /\ Codelists!Refused(t) => Left(t)
         /\ Codelists!Breaks(t) => Broke(t)
         /\ \A slots : Codelists!Redraws(slots) => Unmoved
<1>0. /\ DOMAIN Codelists!Resting = JobFields /\ Codelists!Resting.pc = "rest" /\ Codelists!Resting.alone = FALSE
      /\ Codelists!Tasks = TabTasks
  BY DEF Codelists!Resting, Codelists!Tasks, JobFields, TabTasks
<1>1. ASSUME NEW slot, NEW pc, NEW read, Codelists!BeginsIn(slot, t, pc, read) PROVE Begun(t, pc, read)
  <2>1. (\A s \in TabTasks : doing[s].pc = "rest") <=> Codelists!Calm
    BY <1>0 DEF Codelists!Calm, Codelists!Busy
  <2> DEFINE r == [Codelists!Resting EXCEPT !.pc = pc, !.read = read, !.slot = slot, !.alone = Codelists!Calm]
  <2>2. DOMAIN r = JobFields /\ r.pc = pc /\ r.read = read /\ (r.alone <=> Codelists!Calm) /\ r.alone \in BOOLEAN
    BY <1>0 DEF JobFields, Codelists!Calm
  <2>3. /\ doing[t].pc = "rest" /\ UNCHANGED ended /\ DOMAIN doing' = TabTasks
        /\ doing'[t] = r /\ \A s \in TabTasks \ {t} : doing'[s] = [doing[s] EXCEPT !.alone = FALSE]
    BY <1>0, <1>1 DEF Codelists!BeginsIn
  <2> HIDE DEF r
  <2>4. ASSUME NEW s \in TabTasks \ {t}
        PROVE  DOMAIN doing'[s] = JobFields /\ doing'[s].alone = FALSE /\ Waits(s)
    BY <2>3 DEF DoingShape, Waits, JobFields
  <2>5. DoingShape'
    BY <2>2, <2>3, <2>4 DEF DoingShape
  <2> QED
    BY <2>1, <2>2, <2>3, <2>4, <2>5 DEF Begun
<1>2. ASSUME NEW pc, NEW read, Codelists!Goes(t, pc, read) PROVE GoneOn(t, pc, read)
  BY <1>2 DEF Codelists!Goes, DoingShape, GoneOn, Stays, Waits, JobFields
<1>3. ASSUME NEW slots, Codelists!Rests(t, slots) PROVE Over(t)
  BY <1>0, <1>3 DEF Codelists!Rests, Codelists!Torn, DoingShape, Over, Stays, Waits, JobFields
<1>4. ASSUME Codelists!Breaks(t) PROVE Broke(t)
  BY <1>0, <1>4 DEF Codelists!Breaks, DoingShape, Broke, Over, Stays, Waits, JobFields
<1>5. ASSUME Codelists!Refused(t) PROVE Left(t)
  BY <1>0, <1>5 DEF Codelists!Refused, DoingShape, Left, Over, Stays, Waits, JobFields
<1>6. ASSUME NEW slots, Codelists!Redraws(slots) PROVE Unmoved
  BY <1>0, <1>6 DEF Codelists!Redraws, Codelists!Torn, DoingShape, Unmoved, Stays, Waits, JobFields
<1> QED
  BY <1>1, <1>2, <1>3, <1>4, <1>5, <1>6 DEF Codelists!Ends, Reloaded, Codelists!Draws, Redrew

ListReload == {"lists", "listed", "attributes", "columns"}

\* The corpus of the page is the client's, and is drawn, unless a reload is
\* under way that will see to it; what is drawn of the columns is what is held,
\* and the table is one of theirs.  A reload that broke off may leave less.
CodelistsFind == ended # "broken" =>
  /\ client.corpus = view.corpus \/ Awaited({"lists", "listed"})
  /\ view.drawn.corpus = view.corpus \/ Awaited(ListReload)
  /\ view.drawn.columns = view.columns /\ client.table \in Codelists!TablesOf(view.columns) \cup {0}

CodelistsAskAlone ==
  \A t \in TabTasks : doing[t].alone =>
    /\ doing[t].pc \in {"attributes", "columns"} => view.corpus = client.corpus
    /\ doing[t].pc = "columns" => doing[t].read = [corpus |-> client.corpus, language |-> client.language]

\* The columns are of the corpus and the language in force.
CodelistsAreOfOne ==
  /\ view.corpus = client.corpus /\ view.drawn.corpus = view.corpus
  /\ client.corpus # 0 => view.columns = [corpus |-> client.corpus, language |-> client.language]

ClientFields == {"corpus", "language", "table", "selected"}
ViewFields   == {"corpora", "corpus", "columns", "proposals", "drawn"}

CodelistsInv ==
  /\ DoingInv
  /\ DOMAIN client = ClientFields /\ DOMAIN view = ViewFields
  /\ CodelistsFind /\ CodelistsAskAlone
  /\ ended = "lone" => CodelistsAreOfOne \/ Awaited(ListReload)

LEMMA CodelistsInvInit == Codelists!CodelistsInit => CodelistsInv
<1> SUFFICES ASSUME Codelists!CodelistsInit PROVE CodelistsInv
  OBVIOUS
<1>1. DoingInv /\ doing["build"].pc = "lists" /\ ended = "shared" /\ "build" \in TabTasks
  BY DEF Codelists!CodelistsInit, Codelists!Opens, Codelists!Resting, Codelists!Tasks, DoingInv, DoingShape,
         AloneIsAlone, TabTasks, JobFields
<1>2. CodelistsAskAlone
  BY DEF Codelists!CodelistsInit, Codelists!Opens, Codelists!Resting, Codelists!Tasks, CodelistsAskAlone, TabTasks
<1> QED
  BY <1>1, <1>2 DEF Codelists!CodelistsInit, CodelistsInv, CodelistsFind, Awaited, ListReload, ClientFields, ViewFields

LEMMA CodelistsMove ==
  ASSUME CodelistsInv, [Codelists!CodelistsNext]_tabVars
  PROVE  CodelistsInv'
<1> USE DEF Awaited, Stays, Waits, ListReload
<1>0. /\ DoingInv /\ DoingShape /\ AloneIsAlone /\ CodelistsFind /\ CodelistsAskAlone
      /\ DOMAIN client = ClientFields /\ DOMAIN view = ViewFields /\ Codelists!Tasks = TabTasks
      /\ ended = "lone" => CodelistsAreOfOne \/ Awaited(ListReload)
  BY DEF CodelistsInv, DoingInv, Codelists!Tasks, TabTasks
<1>a. \A t \in Turners : t \in TabTasks
  BY DEF TabTasks
\* Drawing changes what is drawn, no more.
<1>b. ASSUME NEW v, DOMAIN v = ViewFields
      PROVE  LET d == Codelists!Drawn(v) IN
             /\ DOMAIN d = ViewFields /\ d.corpus = v.corpus /\ d.columns = v.columns
             /\ d.drawn.corpus = v.corpus /\ d.drawn.columns = v.columns
  BY <1>b DEF Codelists!Drawn, ViewFields
\* A coroutine that has nothing to do with the reload.
<1>1. ASSUME NEW t \in TabTasks, NEW pc, NEW read, pc \notin {"rest", "attributes", "columns"},
             \/ Begun(t, pc, read)
             \/ GoneOn(t, pc, read) /\ doing[t].pc \notin {"rest"} \cup ListReload
             \/ GoneOn(t, pc, read) /\ doing[t].pc = "lists" /\ pc = "listed",
             UNCHANGED view, DOMAIN client' = ClientFields, client'.table = client.table,
             pc = "lists" \/ (client'.corpus = client.corpus /\ client'.language = client.language)
      PROVE  CodelistsInv'
  <2>1. DoingInv'
    BY <1>0, <1>1, DoingStep
  <2>2. CodelistsFind'
    BY <1>0, <1>1 DEF CodelistsFind, Begun, GoneOn
  <2>3. CodelistsAskAlone'
    BY <1>0, <1>1 DEF CodelistsAskAlone, Begun, GoneOn, AloneIsAlone
  <2>4. ended' = "lone" => CodelistsAreOfOne' \/ Awaited(ListReload)'
    BY <1>0, <1>1 DEF CodelistsAreOfOne, Begun, GoneOn
  <2> QED
    BY <1>0, <1>1, <2>1, <2>2, <2>3, <2>4 DEF CodelistsInv
<1>2. ASSUME NEW t \in Turners, Codelists!PickCorpus(t) \/ Codelists!PickLanguage(t) PROVE CodelistsInv'
  <2>1. PICK now : /\ Codelists!Picks(t, now) /\ DOMAIN now = ClientFields /\ now.table = client.table
    <3>1. CASE Codelists!PickCorpus(t)
      <4>1. PICK c \in view.drawn.corpora : Codelists!Picks(t, [client EXCEPT !.corpus = c, !.selected = FALSE])
        BY <3>1 DEF Codelists!PickCorpus
      <4> DEFINE picked == [client EXCEPT !.corpus = c, !.selected = FALSE]
      <4>2. DOMAIN picked = ClientFields /\ picked.table = client.table
        BY <1>0 DEF ClientFields
      <4>3. Codelists!Picks(t, picked)
        BY <4>1
      <4> HIDE DEF picked
      <4> QED
        BY <4>2, <4>3
    <3>2. CASE Codelists!PickLanguage(t)
      <4>1. PICK l \in Codelists!Languages : Codelists!Picks(t, [client EXCEPT !.language = l])
        BY <3>2 DEF Codelists!PickLanguage
      <4> QED
        BY <1>0, <4>1 DEF ClientFields
    <3> QED
      BY <1>2, <3>1, <3>2
  <2>2. Begun(t, "lists", {}) /\ client' = now /\ UNCHANGED view
    BY <1>0, <1>a, <2>1, CodelistsCoroutines DEF Codelists!Picks, Codelists!Begins
  <2> QED
    BY <1>1, <1>a, <2>1, <2>2
<1>3. ASSUME NEW t \in Turners, \/ Codelists!PickAttribute(t) \/ Codelists!OpenAutomap(t)
                                \/ Codelists!ApplyAutomap(t) \/ Codelists!Import(t)
      PROVE  CodelistsInv'
  <2>1. PICK pc, read : pc \in {"mapping", "proposing", "applying", "importing"} /\ Begun(t, pc, read)
    BY <1>0, <1>3, <1>a, CodelistsCoroutines
       DEF Codelists!PickAttribute, Codelists!OpenAutomap, Codelists!ApplyAutomap, Codelists!Import, Codelists!Begins
  <2>2. UNCHANGED <<client, view>>
    BY <1>3 DEF Codelists!PickAttribute, Codelists!OpenAutomap, Codelists!ApplyAutomap, Codelists!Import
  <2> QED
    BY <1>0, <1>1, <1>a, <2>1, <2>2
<1>4. CASE Codelists!PickTable \/ Codelists!SelectColumn
  <2>1. PICK k : /\ client' = [client EXCEPT !.table = k] \/ client' = [client EXCEPT !.selected = TRUE]
                 /\ client' = [client EXCEPT !.selected = TRUE] \/ k \in Codelists!TablesOf(view.drawn.columns) \cup {0}
                 /\ view' = Codelists!Drawn(view) /\ Unmoved /\ UNCHANGED ended
    BY <1>0, <1>4, CodelistsCoroutines
       DEF Codelists!PickTable, Codelists!SelectColumn, Codelists!Shows, TabTasks
  <2>2. /\ DOMAIN client' = ClientFields /\ client'.corpus = client.corpus /\ client'.language = client.language
        /\ client'.table \in {client.table} \cup Codelists!TablesOf(view.drawn.columns) \cup {0}
    BY <1>0, <2>1 DEF ClientFields
  <2>3. DoingInv'
    BY <1>0, <2>1, DoingStep DEF TabTasks
  <2>4. CodelistsFind'
    BY <1>0, <1>b, <2>1, <2>2 DEF CodelistsFind, Unmoved
  <2>5. CodelistsAskAlone'
    BY <1>0, <1>b, <2>1, <2>2 DEF CodelistsAskAlone, Unmoved
  <2>6. ended' = "lone" => CodelistsAreOfOne' \/ Awaited(ListReload)'
    BY <1>0, <1>b, <2>1, <2>2 DEF CodelistsAreOfOne, Unmoved
  <2> QED
    BY <1>0, <1>b, <2>1, <2>2, <2>3, <2>4, <2>5, <2>6 DEF CodelistsInv
\* One that is over and was in no reload.
<1>5. ASSUME NEW t \in TabTasks, doing[t].pc \notin {"rest"} \cup ListReload, Left(t) \/ Redrew(t),
             UNCHANGED client, DOMAIN view' = ViewFields, view'.corpus = view.corpus, view'.columns = view.columns,
             \/ view'.drawn = view.drawn
             \/ view'.drawn.corpus = view.corpus /\ view'.drawn.columns = view.columns
      PROVE  CodelistsInv'
  <2>1. DoingInv'
    BY <1>0, <1>5, DoingStep DEF Left, Redrew
  <2>2. Over(t) /\ ended' \in {ended, "shared"} /\ (ended = "broken" => ended' = "broken")
    BY <1>5 DEF Left, Redrew
  <2>3. CodelistsFind'
    BY <1>0, <1>5, <2>2 DEF CodelistsFind, Over
  <2>4. CodelistsAskAlone'
    BY <1>0, <1>5, <2>2 DEF CodelistsAskAlone, Over
  <2>5. ended' = "lone" => CodelistsAreOfOne' \/ Awaited(ListReload)'
    BY <1>0, <1>5, <2>2 DEF CodelistsAreOfOne, Over
  <2> QED
    BY <1>0, <1>5, <2>1, <2>3, <2>4, <2>5 DEF CodelistsInv
<1>6. ASSUME NEW t \in TabTasks, Codelists!Proposed(t) \/ Codelists!WriteRefused(t) PROVE CodelistsInv'
  <2>1. doing[t].pc \notin {"rest"} \cup ListReload /\ (Left(t) \/ Redrew(t)) /\ UNCHANGED client
    BY <1>0, <1>6, CodelistsCoroutines DEF Codelists!Proposed, Codelists!WriteRefused, Codelists!At
  <2>2. view' = Codelists!Drawn(view) \/ view' = [view EXCEPT !.proposals = doing[t].read] \/ UNCHANGED view
    BY <1>6 DEF Codelists!Proposed, Codelists!WriteRefused
  <2>3. /\ DOMAIN view' = ViewFields /\ view'.corpus = view.corpus /\ view'.columns = view.columns
        /\ \/ view'.drawn = view.drawn
           \/ view'.drawn.corpus = view.corpus /\ view'.drawn.columns = view.columns
    BY <1>0, <1>b, <2>2 DEF ViewFields
  <2> QED
    BY <1>5, <2>1, <2>3
<1>7. ASSUME NEW t \in TabTasks, Codelists!Writes(t) \/ Codelists!Mapped(t) \/ Codelists!Lists(t) PROVE CodelistsInv'
  <2>1. /\ DOMAIN client' = ClientFields /\ client'.table = client.table
        /\ client'.corpus = client.corpus /\ client'.language = client.language /\ UNCHANGED view
    BY <1>0, <1>7 DEF Codelists!Writes, Codelists!Mapped, Codelists!Lists, ClientFields
  <2>2. CASE Codelists!Writes(t) \/ Codelists!Mapped(t)
    <3>1. PICK pc \in {"mapped", "lists"} : GoneOn(t, pc, {}) /\ doing[t].pc \notin {"rest"} \cup ListReload
      BY <1>0, <2>2, CodelistsCoroutines DEF Codelists!Writes, Codelists!Mapped, Codelists!At
    <3> QED
      BY <1>1, <2>1, <3>1
  <2>3. CASE Codelists!Lists(t)
    <3>1. GoneOn(t, "listed", db.corpora) /\ doing[t].pc = "lists"
      BY <1>0, <2>3, CodelistsCoroutines DEF Codelists!Lists, Codelists!At
    <3> QED
      BY <1>1, <2>1, <3>1
  <2> QED
    BY <1>7, <2>2, <2>3
<1>8. ASSUME NEW t \in TabTasks, Codelists!Listed(t) PROVE CodelistsInv'
  <2> DEFINE corpus == Codelists!CurrentCorpus(doing[t].read, client.corpus)
  <2>1. /\ doing[t].pc = "listed" /\ client' = [client EXCEPT !.corpus = corpus]
        /\ view' = [view EXCEPT !.corpora = doing[t].read, !.corpus = corpus]
        /\ GoneOn(t, "attributes", {})
    BY <1>0, <1>8, CodelistsCoroutines DEF Codelists!Listed, Codelists!At
  <2> HIDE DEF corpus
  <2>2. /\ client'.corpus = corpus /\ view'.corpus = corpus /\ client'.table = client.table
        /\ view'.columns = view.columns /\ view'.drawn = view.drawn
        /\ DOMAIN client' = ClientFields /\ DOMAIN view' = ViewFields
    BY <1>0, <2>1 DEF ClientFields, ViewFields
  <2>3. DoingInv'
    BY <1>0, <2>1, DoingStep
  <2>4. CodelistsFind'
    BY <1>0, <2>1, <2>2 DEF CodelistsFind, GoneOn
  <2>5. CodelistsAskAlone'
    BY <1>0, <2>1, <2>2 DEF CodelistsAskAlone, GoneOn, AloneIsAlone
  <2> QED
    BY <2>1, <2>2, <2>3, <2>4, <2>5 DEF CodelistsInv, GoneOn
\* The redraw that ends a reload.
<1>9. ASSUME NEW t \in TabTasks, doing[t].pc \in {"attributes", "columns"}, NEW columns, Codelists!Shown(t, columns),
             doing[t].alone /\ view.corpus # 0 => columns = [corpus |-> view.corpus, language |-> client.language]
      PROVE  CodelistsInv'
  <2> DEFINE held == [view EXCEPT !.columns = columns]
  <2>1. /\ view' = Codelists!Drawn(held) /\ Reloaded(t)
        /\ client' = [client EXCEPT !.table = IF @ \in Codelists!TablesOf(columns) THEN @ ELSE 0]
    BY <1>0, <1>9, CodelistsCoroutines DEF Codelists!Shown
  <2>2. DOMAIN held = ViewFields /\ held.corpus = view.corpus /\ held.columns = columns
    BY <1>0 DEF ViewFields
  <2>3. /\ DOMAIN view' = ViewFields /\ view'.corpus = view.corpus /\ view'.columns = columns
        /\ view'.drawn.corpus = view.corpus /\ view'.drawn.columns = columns
    BY <1>b, <2>1, <2>2
  <2>4. /\ DOMAIN client' = ClientFields /\ client'.corpus = client.corpus /\ client'.language = client.language
        /\ client'.table \in Codelists!TablesOf(columns) \cup {0}
    BY <1>0, <2>1 DEF ClientFields
  <2>5. DoingInv'
    BY <1>0, <2>1, DoingStep DEF Reloaded
  <2>6. ended' # "broken" => ended # "broken" \/ doing[t].alone
    BY <2>1 DEF Reloaded
  <2>7. CodelistsFind'
    BY <1>0, <1>9, <2>1, <2>3, <2>4, <2>6 DEF CodelistsFind, CodelistsAskAlone, Reloaded, Over
  <2>8. CodelistsAskAlone'
    BY <1>0, <1>9, <2>1, <2>3, <2>4 DEF CodelistsAskAlone, Reloaded, Over, AloneIsAlone
  <2>9. ended' = "lone" => CodelistsAreOfOne'
    BY <1>0, <1>9, <2>1, <2>3, <2>4 DEF CodelistsAskAlone, CodelistsAreOfOne, Reloaded
  <2> QED
    BY <2>3, <2>4, <2>5, <2>7, <2>8, <2>9 DEF CodelistsInv
<1>10. ASSUME NEW t \in TabTasks, Codelists!Attributed(t) \/ Codelists!Columned(t) PROVE CodelistsInv'
  <2>1. CASE Codelists!Attributed(t) /\ view.corpus # 0
    <3>1. /\ doing[t].pc = "attributes" /\ UNCHANGED <<client, view>>
          /\ GoneOn(t, "columns", [corpus |-> view.corpus, language |-> client.language])
      BY <1>0, <2>1, CodelistsCoroutines DEF Codelists!Attributed, Codelists!At
    <3>2. DoingInv'
      BY <1>0, <3>1, DoingStep
    <3>3. CodelistsFind'
      BY <1>0, <3>1 DEF CodelistsFind, GoneOn
    <3>4. CodelistsAskAlone'
      BY <1>0, <3>1 DEF CodelistsAskAlone, GoneOn
    <3> QED
      BY <1>0, <3>1, <3>2, <3>3, <3>4 DEF CodelistsInv, GoneOn
  <2>2. CASE Codelists!Attributed(t) /\ view.corpus = 0
    BY <1>9, <2>2 DEF Codelists!Attributed, Codelists!At
  <2>3. CASE Codelists!Columned(t)
    <3>1. doing[t].pc = "columns" /\ Codelists!Shown(t, doing[t].read)
      BY <2>3 DEF Codelists!Columned, Codelists!At
    <3>2. doing[t].alone => doing[t].read = [corpus |-> view.corpus, language |-> client.language]
      BY <1>0, <3>1 DEF CodelistsAskAlone
    <3> QED
      BY <1>9, <3>1, <3>2
  <2> QED
    BY <1>10, <2>1, <2>2, <2>3
<1>11. ASSUME NEW t \in TabTasks, Codelists!StorageGone(t) PROVE CodelistsInv'
  <2>1. Broke(t) /\ doing[t].pc # "rest" /\ UNCHANGED client
    BY <1>0, <1>11, CodelistsCoroutines DEF Codelists!StorageGone
  <2>2. DOMAIN view' = ViewFields /\ view'.corpus = view.corpus
    BY <1>0, <1>11 DEF Codelists!StorageGone, ViewFields
  <2>3. DoingInv'
    BY <1>0, <2>1, DoingStep DEF Broke
  <2>4. CodelistsAskAlone'
    BY <1>0, <2>1, <2>2 DEF CodelistsAskAlone, Broke, Over, AloneIsAlone
  <2> QED
    BY <1>0, <2>1, <2>2, <2>3, <2>4 DEF CodelistsInv, CodelistsFind, Broke
<1>12. CASE Codelists!CorporaChange \/ UNCHANGED tabVars
  <2>1. UNCHANGED <<client, view, doing, ended>>
    BY <1>12 DEF Codelists!CorporaChange, Codelists!Elsewhere, tabVars
  <2> QED
    BY <1>0, <2>1
       DEF CodelistsInv, CodelistsFind, CodelistsAskAlone, CodelistsAreOfOne, DoingInv, DoingShape, AloneIsAlone
<1> QED
  BY <1>0, <1>2, <1>3, <1>4, <1>6, <1>7, <1>8, <1>10, <1>11, <1>12 DEF Codelists!CodelistsNext, Codelists!CodelistsStep

LEMMA CodelistsHold == CodelistsInv => Codelists!CodelistsRemember /\ Codelists!CodelistsAgree
BY DEF CodelistsInv, CodelistsFind, CodelistsAreOfOne, Awaited, ListReload, Codelists!CodelistsRemember,
       Codelists!CodelistsAgree, Codelists!Calm, Codelists!Busy, Codelists!Tasks, TabTasks

-----------------------------------------------------------------------------
(* The Features page.                                                      *)

LEMMA FeaturesCoroutines ==
  ASSUME DoingShape, NEW t \in TabTasks
  PROVE  /\ \A slot, pc, read : Features!BeginsIn(slot, t, pc, read) => Begun(t, pc, read)
         /\ \A pc, read : Features!Goes(t, pc, read) => GoneOn(t, pc, read)
         /\ \A slots : Features!Ends(t, slots) => Reloaded(t)
         /\ \A slots : Features!Draws(t, slots) => Redrew(t)
         /\ Features!Refused(t) => Left(t)
         /\ Features!Breaks(t) => Broke(t)
         /\ \A slots : Features!Redraws(slots) => Unmoved
         /\ \A slots : Features!Interrupts(slots) => Disturbed
<1>0. /\ DOMAIN Features!Resting = JobFields /\ Features!Resting.pc = "rest" /\ Features!Resting.alone = FALSE
      /\ Features!Tasks = TabTasks
  BY DEF Features!Resting, Features!Tasks, JobFields, TabTasks
<1>1. ASSUME NEW slot, NEW pc, NEW read, Features!BeginsIn(slot, t, pc, read) PROVE Begun(t, pc, read)
  <2>1. (\A s \in TabTasks : doing[s].pc = "rest") <=> Features!Calm
    BY <1>0 DEF Features!Calm, Features!Busy
  <2> DEFINE r == [Features!Resting EXCEPT !.pc = pc, !.read = read, !.slot = slot, !.alone = Features!Calm]
  <2>2. DOMAIN r = JobFields /\ r.pc = pc /\ r.read = read /\ (r.alone <=> Features!Calm) /\ r.alone \in BOOLEAN
    BY <1>0 DEF JobFields, Features!Calm
  <2>3. /\ doing[t].pc = "rest" /\ UNCHANGED ended /\ DOMAIN doing' = TabTasks
        /\ doing'[t] = r /\ \A s \in TabTasks \ {t} : doing'[s] = [doing[s] EXCEPT !.alone = FALSE]
    BY <1>0, <1>1 DEF Features!BeginsIn
  <2> HIDE DEF r
  <2>4. ASSUME NEW s \in TabTasks \ {t}
        PROVE  DOMAIN doing'[s] = JobFields /\ doing'[s].alone = FALSE /\ Waits(s)
    BY <2>3 DEF DoingShape, Waits, JobFields
  <2>5. DoingShape'
    BY <2>2, <2>3, <2>4 DEF DoingShape
  <2> QED
    BY <2>1, <2>2, <2>3, <2>4, <2>5 DEF Begun
<1>2. ASSUME NEW pc, NEW read, Features!Goes(t, pc, read) PROVE GoneOn(t, pc, read)
  BY <1>2 DEF Features!Goes, DoingShape, GoneOn, Stays, Waits, JobFields
<1>3. ASSUME NEW slots, Features!Rests(t, slots) PROVE Over(t)
  BY <1>0, <1>3 DEF Features!Rests, Features!Torn, DoingShape, Over, Stays, Waits, JobFields
<1>4. ASSUME Features!Breaks(t) PROVE Broke(t)
  BY <1>0, <1>4 DEF Features!Breaks, DoingShape, Broke, Over, Stays, Waits, JobFields
<1>5. ASSUME Features!Refused(t) PROVE Left(t)
  BY <1>0, <1>5 DEF Features!Refused, DoingShape, Left, Over, Stays, Waits, JobFields
<1>6. ASSUME NEW slots, Features!Redraws(slots) PROVE Unmoved
  BY <1>0, <1>6 DEF Features!Redraws, Features!Torn, DoingShape, Unmoved, Stays, Waits, JobFields
<1>7. ASSUME NEW slots, Features!Interrupts(slots) PROVE Disturbed
  BY <1>0, <1>7 DEF Features!Interrupts, Features!Torn, DoingShape, Disturbed, Waits, JobFields
<1> QED
  BY <1>1, <1>2, <1>3, <1>4, <1>5, <1>6, <1>7 DEF Features!Ends, Reloaded, Features!Draws, Redrew

SetReload      == {"sets", "listed", "getting", "got"}
FeaturesReload == SetReload \cup {"corpora", "enums", "columns"}
ScopeReload    == {"enums only", "columns only"}

\* The set of the page is the client's, and the selected feature one of it,
\* unless a reload is under way that will see to it, or one broke off.
FeaturesFind == ended # "broken" =>
  /\ client.set = view.config \/ Awaited(SetReload)
  /\ client.feature \in view.features \cup {Features!None, Features!New} \/ Awaited(FeaturesReload)

FeaturesAskAlone ==
  \A t \in TabTasks : doing[t].alone =>
    /\ doing[t].pc \in {"corpora", "enums", "columns"} => client.set = view.config
    /\ doing[t].pc \in {"enums", "columns"} \cup ScopeReload => doing[t].read = client.validate
    /\ doing[t].pc \in {"columns", "columns only"} => view.enums = client.validate

\* Both lists of columns are of what is validated against.
FeaturesAreOfOne == view.enums = client.validate /\ view.columns = client.validate

FeaturesClient == {"set", "feature", "validate"}
FeaturesView   == {"sets", "config", "features", "draft", "typed", "enums", "columns", "link", "drawn"}

FeaturesInv ==
  /\ DoingInv
  /\ DOMAIN client = FeaturesClient /\ DOMAIN view = FeaturesView
  /\ view.draft = client.feature
  /\ FeaturesFind /\ FeaturesAskAlone
  /\ ended = "lone" => FeaturesAreOfOne \/ Awaited(FeaturesReload \cup ScopeReload)

LEMMA FeaturesInvInit == Features!FeaturesInit => FeaturesInv
<1> SUFFICES ASSUME Features!FeaturesInit PROVE FeaturesInv
  OBVIOUS
<1>1. DoingInv /\ doing["build"].pc = "sets" /\ ended = "shared" /\ "build" \in TabTasks
  BY DEF Features!FeaturesInit, Features!Opens, Features!Resting, Features!Tasks, DoingInv, DoingShape,
         AloneIsAlone, TabTasks, JobFields
<1>2. FeaturesAskAlone
  BY DEF Features!FeaturesInit, Features!Opens, Features!Resting, Features!Tasks, FeaturesAskAlone, TabTasks,
         ScopeReload
<1>3. DOMAIN client = FeaturesClient /\ DOMAIN view = FeaturesView /\ view.draft = client.feature
  BY DEF Features!FeaturesInit, FeaturesClient, FeaturesView
<1> QED
  BY <1>1, <1>2, <1>3 DEF FeaturesInv, FeaturesFind, Awaited, SetReload, FeaturesReload

LEMMA FeaturesMove ==
  ASSUME FeaturesInv, [Features!FeaturesNext]_tabVars
  PROVE  FeaturesInv'
<1> USE DEF Awaited, Stays, Waits, SetReload, FeaturesReload, ScopeReload
<1>0. /\ DoingInv /\ DoingShape /\ AloneIsAlone /\ FeaturesFind /\ FeaturesAskAlone
      /\ DOMAIN client = FeaturesClient /\ DOMAIN view = FeaturesView /\ Features!Tasks = TabTasks
      /\ view.draft = client.feature
      /\ ended = "lone" => FeaturesAreOfOne \/ Awaited(FeaturesReload \cup ScopeReload)
  BY DEF FeaturesInv, DoingInv, Features!Tasks, TabTasks
<1>a. \A t \in Turners : t \in TabTasks
  BY DEF TabTasks
\* FEATURE_KEY and the draft.
<1>b. \A v, f : DOMAIN v = FeaturesView =>
        /\ DOMAIN Features!Opened(v, f) = FeaturesView /\ Features!Opened(v, f).draft = f
        /\ Features!Opened(v, f).config = v.config /\ Features!Opened(v, f).features = v.features
        /\ Features!Opened(v, f).enums = v.enums /\ Features!Opened(v, f).columns = v.columns
  BY DEF Features!Opened, FeaturesView
<1>c. \A c, f : DOMAIN c = FeaturesClient =>
        /\ DOMAIN Features!Keeps(c, f) = FeaturesClient /\ Features!Keeps(c, f).feature = f
        /\ Features!Keeps(c, f).set = c.set /\ Features!Keeps(c, f).validate = c.validate
  BY DEF Features!Keeps, FeaturesClient
\* What the client remembers and the page holds, of which no list is new.
<1> DEFINE Same ==
      /\ DOMAIN client' = FeaturesClient /\ DOMAIN view' = FeaturesView
      /\ view'.config = view.config /\ view'.features = view.features
      /\ view'.enums = view.enums /\ view'.columns = view.columns
      /\ client'.validate = client.validate /\ view'.draft = client'.feature
<1>d. UNCHANGED <<client, view>> => Same
  BY <1>0
<1>f. DOMAIN client = FeaturesClient /\ DOMAIN view = FeaturesView /\ view.draft = client.feature
  BY <1>0
<1>e. \A t \in TabTasks : \A pc, read :
        Features!Goes(t, pc, read) => doing'[t].pc = pc /\ GoneOn(t, doing'[t].pc, doing'[t].read)
  <2> TAKE t \in TabTasks
  <2>1. \A pc, read : Features!Goes(t, pc, read) => GoneOn(t, pc, read)
    BY <1>0, FeaturesCoroutines
  <2> QED
    BY <2>1, GoesWhere
<1> HIDE DEF Same
\* A coroutine that is not yet, or not at all, at the features of a set.
<1>1. ASSUME NEW t \in TabTasks, Same, doing'[t].pc \notin {"rest", "corpora", "enums", "columns"} \cup ScopeReload,
             \/ Begun(t, doing'[t].pc, doing'[t].read)
             \/ /\ GoneOn(t, doing'[t].pc, doing'[t].read)
                /\ doing[t].pc \notin {"rest", "corpora", "enums", "columns"} \cup ScopeReload
                /\ doing[t].pc \in SetReload => doing'[t].pc \in SetReload,
             doing'[t].pc = "sets" \/ (client'.set = client.set /\ client'.feature = client.feature)
      PROVE  FeaturesInv'
  <2>1. DoingInv'
    BY <1>0, <1>1, DoingStep
  <2>2. FeaturesFind'
    BY <1>0, <1>1 DEF FeaturesFind, Begun, GoneOn, Same
  <2>3. FeaturesAskAlone'
    <3>1. \A s \in TabTasks : doing'[s].alone => s = t
      BY <1>1, <2>1 DEF DoingInv, AloneIsAlone
    <3> QED
      BY <1>1, <3>1 DEF FeaturesAskAlone
  <2>4. ended' = "lone" => FeaturesAreOfOne' \/ Awaited(FeaturesReload \cup ScopeReload)'
    BY <1>0, <1>1 DEF FeaturesAreOfOne, Begun, GoneOn, Same
  <2> QED
    BY <1>0, <1>1, <2>1, <2>2, <2>3, <2>4 DEF FeaturesInv, Same
<1>2. ASSUME NEW t \in Turners, Features!PickSet(t) PROVE FeaturesInv'
  <2>1. PICK s \in view.sets : /\ Begun(t, "sets", {})
                               /\ client' = [Features!Keeps(client, Features!None) EXCEPT !.set = s]
                               /\ view' = Features!Opened(view, Features!None)
    BY <1>0, <1>2, <1>a, FeaturesCoroutines DEF Features!PickSet, Features!Begins
  <2>2. DOMAIN client' = FeaturesClient /\ client'.feature = Features!None /\ client'.validate = client.validate
    BY <1>f, <1>c, <2>1 DEF FeaturesClient
  <2>3. Same
    BY <1>f, <1>b, <2>1, <2>2 DEF Same
  <2> QED
    <3>1. doing'[t].pc = "sets" /\ Begun(t, doing'[t].pc, doing'[t].read)
      BY <2>1, GoesWhere
    <3> QED
      BY <1>1, <1>a, <2>3, <3>1
<1>3. ASSUME NEW t \in Turners, \/ Features!SaveDraft(t) \/ Features!DeleteFeature(t) \/ Features!Freeze(t)
                                \/ Features!Clone(t) \/ Features!DeleteSet(t)
      PROVE  FeaturesInv'
  <2>1. PICK pc, read : /\ pc \in {"saving", "deleting", "freezing", "creating", "dropping"}
                        /\ Features!Uses(t, pc, read)
    BY <1>3 DEF Features!SaveDraft, Features!DeleteFeature, Features!Freeze, Features!Clone, Features!DeleteSet
  <2>2. Begun(t, pc, read) /\ UNCHANGED <<client, view>>
    BY <1>0, <1>a, <2>1, FeaturesCoroutines DEF Features!Uses, Features!Begins
  <2>3. doing'[t].pc = pc /\ Begun(t, doing'[t].pc, doing'[t].read)
    BY <2>2, GoesWhere
  <2>4. Same
    BY <1>d, <2>2
  <2> QED
    BY <1>1, <1>a, <2>1, <2>2, <2>3, <2>4
<1>4. ASSUME NEW t \in TabTasks, \/ Features!Saves(t) \/ Features!Deletes(t) \/ Features!Creates(t)
                                 \/ Features!Drops(t) \/ Features!Freezes(t) \/ Features!Lists(t)
      PROVE  FeaturesInv'
  <2>1. /\ GoneOn(t, doing'[t].pc, doing'[t].read) /\ UNCHANGED <<client, view>>
        /\ doing'[t].pc \in {"saved", "deleted", "created", "dropped", "sets", "listed"}
        /\ doing[t].pc \in {"saving", "deleting", "creating", "dropping", "freezing", "sets"}
        /\ doing[t].pc = "sets" => doing'[t].pc = "listed"
    <3>1. CASE Features!Saves(t)
      BY <1>e, <3>1 DEF Features!Saves, Features!Writes, Features!At
    <3>2. CASE Features!Deletes(t)
      BY <1>e, <3>2 DEF Features!Deletes, Features!Writes, Features!At
    <3>3. CASE Features!Creates(t)
      BY <1>e, <3>3 DEF Features!Creates, Features!Writes, Features!At
    <3>4. CASE Features!Drops(t)
      BY <1>e, <3>4 DEF Features!Drops, Features!Writes, Features!At
    <3>5. CASE Features!Freezes(t)
      BY <1>e, <3>5 DEF Features!Freezes, Features!Writes, Features!At
    <3>6. CASE Features!Lists(t)
      BY <1>e, <3>6 DEF Features!Lists, Features!At
    <3> QED
      BY <1>4, <3>1, <3>2, <3>3, <3>4, <3>5, <3>6
  <2> QED
    BY <1>1, <1>d, <2>1
<1>5. ASSUME NEW t \in TabTasks, Features!WriteRefused(t) PROVE FeaturesInv'
  <2>1. /\ doing[t].pc \notin {"rest"} \cup FeaturesReload \cup ScopeReload /\ Left(t) /\ UNCHANGED <<client, view>>
    BY <1>0, <1>5, FeaturesCoroutines DEF Features!WriteRefused
  <2>2. DoingInv'
    BY <1>0, <2>1, DoingStep DEF Left
  <2>3. FeaturesFind'
    BY <1>0, <2>1 DEF FeaturesFind, Left, Over
  <2>4. FeaturesAskAlone'
    BY <1>0, <2>1 DEF FeaturesAskAlone, Left, Over
  <2>5. ended' = "lone" => FeaturesAreOfOne' \/ Awaited(FeaturesReload \cup ScopeReload)'
    BY <1>0, <2>1 DEF FeaturesAreOfOne, Left, Over
  <2> QED
    BY <1>0, <2>1, <2>2, <2>3, <2>4, <2>5 DEF FeaturesInv
<1>6. ASSUME NEW t \in TabTasks, \/ Features!Saved(t) \/ Features!Deleted(t)
                                 \/ Features!Created(t) \/ Features!Dropped(t)
      PROVE  FeaturesInv'
  <2>1. /\ doing'[t].pc = "sets" /\ GoneOn(t, doing'[t].pc, doing'[t].read)
        /\ doing[t].pc \in {"saved", "deleted", "created", "dropped"}
        /\ DOMAIN client' = FeaturesClient /\ client'.validate = client.validate
        /\ \/ view' = view /\ client'.feature = client.feature
           \/ view' = Features!Opened(view, client'.feature)
    <3>1. CASE Features!Saved(t)
      BY <1>f, <1>c, <1>e, <3>1 DEF Features!Saved, Features!Kept, Features!At
    <3>2. CASE Features!Deleted(t)
      BY <1>f, <1>c, <1>e, <3>2 DEF Features!Deleted, Features!Kept, Features!At
    <3>3. CASE Features!Created(t)
      <4>1. client' = [Features!Keeps(client, Features!None) EXCEPT !.set = doing[t].read]
        BY <3>3 DEF Features!Created, Features!Kept
      <4>2. DOMAIN client' = FeaturesClient /\ client'.feature = Features!None /\ client'.validate = client.validate
        BY <1>f, <1>c, <4>1 DEF FeaturesClient
      <4> QED
        BY <1>e, <3>3, <4>2 DEF Features!Created, Features!Kept, Features!At
    <3>4. CASE Features!Dropped(t)
      BY <1>f, <1>e, <3>4 DEF Features!Dropped, Features!Kept, Features!At, FeaturesClient
    <3> QED
      BY <1>6, <3>1, <3>2, <3>3, <3>4
  <2>2. Same
    BY <1>f, <1>b, <2>1 DEF Same
  <2> QED
    BY <1>1, <2>1, <2>2
\* A handler without an await changes what is selected, no list.
<1>7. CASE Features!Refilter \/ Features!SelectFeature \/ Features!StartNewFeature \/ Features!Types
  <2>1. Unmoved /\ UNCHANGED ended
    <3>1. CASE Features!Types
      BY <1>0, <3>1 DEF Features!Types, Unmoved, DoingShape
    <3>2. CASE ~Features!Types
      BY <1>0, <1>7, <3>2, FeaturesCoroutines
         DEF Features!Refilter, Features!SelectFeature, Features!StartNewFeature, Features!Shows, TabTasks
    <3> QED
      BY <3>1, <3>2
  <2>2. \/ UNCHANGED <<client, view>>
        \/ UNCHANGED client /\ view' = [view EXCEPT !.typed = @ + 1]
        \/ \E f \in view.features \cup {Features!New} :
             client' = Features!Keeps(client, f) /\ view' = Features!Opened(view, f)
    BY <1>7 DEF Features!Refilter, Features!SelectFeature, Features!StartNewFeature, Features!Types, Features!Shows
  <2>3. /\ Same /\ client'.set = client.set
        /\ client'.feature \in {client.feature, Features!New} \cup view.features
    <3>1. CASE UNCHANGED <<client, view>>
      BY <1>f, <1>d, <3>1
    <3>2. CASE UNCHANGED client /\ view' = [view EXCEPT !.typed = @ + 1]
      BY <1>0, <3>2 DEF FeaturesView, Same
    <3>3. CASE \E f \in view.features \cup {Features!New} :
                 client' = Features!Keeps(client, f) /\ view' = Features!Opened(view, f)
      <4>1. PICK f \in view.features \cup {Features!New} :
                   client' = Features!Keeps(client, f) /\ view' = Features!Opened(view, f)
        BY <3>3
      <4> QED
        BY <1>f, <1>b, <1>c, <4>1 DEF Same
    <3> QED
      BY <2>2, <3>1, <3>2, <3>3
  <2>4. DoingInv'
    BY <1>0, <2>1, DoingStep DEF TabTasks
  <2>5. FeaturesFind'
    BY <1>0, <2>1, <2>3 DEF FeaturesFind, Unmoved, Same
  <2>6. FeaturesAskAlone'
    BY <1>0, <2>1, <2>3 DEF FeaturesAskAlone, Unmoved, Same
  <2>7. ended' = "lone" => FeaturesAreOfOne' \/ Awaited(FeaturesReload \cup ScopeReload)'
    BY <1>0, <2>1, <2>3 DEF FeaturesAreOfOne, Unmoved, Same
  <2> QED
    BY <2>3, <2>4, <2>5, <2>6, <2>7 DEF FeaturesInv, Same
<1>8. ASSUME NEW t \in Turners, Features!PickScope(t) PROVE FeaturesInv'
  <2>1. PICK q \in Features!Scopes :
          /\ client' = [client EXCEPT !.validate = q]
          /\ \/ /\ q = 0 /\ view' = [view EXCEPT !.enums = 0, !.columns = 0] /\ Disturbed /\ UNCHANGED ended
             \/ Begun(t, "enums only", q) /\ UNCHANGED view
    BY <1>0, <1>8, <1>a, FeaturesCoroutines DEF Features!PickScope, Features!Begins
  <2>2. /\ DOMAIN client' = FeaturesClient /\ client'.set = client.set /\ client'.feature = client.feature
        /\ client'.validate = q
    BY <1>0, <2>1 DEF FeaturesClient
  <2>3. CASE /\ q = 0 /\ view' = [view EXCEPT !.enums = 0, !.columns = 0] /\ Disturbed /\ UNCHANGED ended
    <3>1. /\ DOMAIN view' = FeaturesView /\ view'.config = view.config /\ view'.features = view.features
          /\ view'.draft = view.draft /\ view'.enums = 0 /\ view'.columns = 0
      BY <1>0, <2>3 DEF FeaturesView
    <3>2. DoingInv'
      BY <1>0, <1>a, <2>3, DoingStep
    <3> QED
      BY <1>0, <2>2, <2>3, <3>1, <3>2
         DEF FeaturesInv, FeaturesFind, FeaturesAskAlone, FeaturesAreOfOne, Disturbed
  <2>4. CASE Begun(t, "enums only", q) /\ UNCHANGED view
    <3>1. DoingInv'
      BY <1>0, <1>a, <2>4, DoingStep
    <3>2. FeaturesFind'
      BY <1>0, <2>2, <2>4 DEF FeaturesFind, Begun
    <3>3. FeaturesAskAlone'
      BY <1>0, <2>2, <2>4 DEF FeaturesAskAlone, Begun
    <3> QED
      BY <1>0, <1>a, <2>2, <2>4, <3>1, <3>2, <3>3 DEF FeaturesInv, Begun
  <2> QED
    BY <2>1, <2>3, <2>4
<1>9. ASSUME NEW t \in TabTasks, Features!Listed(t) \/ Features!Got(t) \/ Features!Gets(t) PROVE FeaturesInv'
  \* The set is there, or there is none: both the client and the page go by it.
  <2>1. ASSUME doing[t].pc \in {"listed", "got"}, GoneOn(t, "corpora", {}),
               DOMAIN client' = FeaturesClient, DOMAIN view' = FeaturesView,
               client'.set = view'.config, client'.feature = client.feature, client'.validate = client.validate,
               view'.draft = view.draft, view'.enums = view.enums, view'.columns = view.columns
        PROVE  FeaturesInv'
    <3>1. DoingInv'
      BY <1>0, <2>1, DoingStep
    <3>2. FeaturesFind'
      BY <1>0, <2>1 DEF FeaturesFind, GoneOn
    <3>3. FeaturesAskAlone'
      BY <1>0, <2>1 DEF FeaturesAskAlone, GoneOn, AloneIsAlone
    <3> QED
      BY <1>0, <2>1, <3>1, <3>2, <3>3 DEF FeaturesInv, GoneOn
  <2>2. CASE Features!Got(t)
    <3>1. /\ doing[t].pc = "got" /\ GoneOn(t, "corpora", {})
          /\ view' = [view EXCEPT !.config = doing[t].read.set, !.features = doing[t].read.features]
          /\ client' = [client EXCEPT !.set = doing[t].read.set]
      BY <1>0, <2>2, FeaturesCoroutines DEF Features!Got, Features!At
    <3>2. /\ DOMAIN client' = FeaturesClient /\ DOMAIN view' = FeaturesView /\ client'.set = view'.config
          /\ client'.feature = client.feature /\ client'.validate = client.validate
          /\ view'.draft = view.draft /\ view'.enums = view.enums /\ view'.columns = view.columns
      BY <1>0, <3>1 DEF FeaturesClient, FeaturesView
    <3> QED
      BY <2>1, <3>1, <3>2
  <2>3. CASE Features!Listed(t)
    <3> DEFINE set == IF client.set \in doing[t].read THEN client.set ELSE Features!Max(doing[t].read \cup {0})
    <3>1. /\ doing[t].pc = "listed"
          /\ \/ /\ view' = [view EXCEPT !.sets = doing[t].read]
                /\ GoneOn(t, "getting", set) /\ UNCHANGED client
             \/ /\ view' = [view EXCEPT !.sets = doing[t].read, !.config = 0, !.features = {}]
                /\ client' = [client EXCEPT !.set = 0]
                /\ GoneOn(t, "corpora", {})
      BY <1>0, <2>3, FeaturesCoroutines DEF Features!Listed, Features!At
    <3> HIDE DEF set
    <3>2. CASE view' = [view EXCEPT !.sets = doing[t].read] /\ GoneOn(t, "getting", set) /\ UNCHANGED client
      <4>1. Same
        BY <1>0, <3>2 DEF FeaturesView, Same
      <4> QED
        <5>1. doing'[t].pc = "getting" /\ GoneOn(t, doing'[t].pc, doing'[t].read)
          BY <3>2, GoesWhere
        <5> QED
          BY <1>1, <3>1, <3>2, <4>1, <5>1
    <3>3. CASE /\ view' = [view EXCEPT !.sets = doing[t].read, !.config = 0, !.features = {}]
               /\ client' = [client EXCEPT !.set = 0] /\ GoneOn(t, "corpora", {})
      <4>1. /\ DOMAIN client' = FeaturesClient /\ DOMAIN view' = FeaturesView /\ client'.set = view'.config
            /\ client'.feature = client.feature /\ client'.validate = client.validate
            /\ view'.draft = view.draft /\ view'.enums = view.enums /\ view'.columns = view.columns
        BY <1>0, <3>3 DEF FeaturesClient, FeaturesView
      <4> QED
        BY <2>1, <3>1, <3>3, <4>1
    <3> QED
      BY <3>1, <3>2, <3>3
  <2>4. CASE Features!Gets(t)
    <3>1. /\ doing[t].pc = "getting" /\ UNCHANGED <<client, view>>
          /\ Broke(t) \/ \E read : GoneOn(t, "got", read)
      BY <1>0, <2>4, FeaturesCoroutines DEF Features!Gets, Features!At
    <3>2. CASE \E read : GoneOn(t, "got", read)
      <4>1. doing'[t].pc = "got" /\ GoneOn(t, doing'[t].pc, doing'[t].read)
        BY <3>2, GoesWhere
      <4>2. Same
        BY <1>d, <3>1
      <4> QED
        BY <1>1, <3>1, <4>1, <4>2
    <3>3. CASE Broke(t)
      <4>1. DoingInv'
        BY <1>0, <3>3, DoingStep DEF Broke
      <4>2. FeaturesAskAlone'
        BY <1>0, <3>1, <3>3 DEF FeaturesAskAlone, Broke, Over
      <4> QED
        BY <1>0, <3>1, <3>3, <4>1, <4>2 DEF FeaturesInv, FeaturesFind, Broke
    <3> QED
      BY <3>1, <3>2, <3>3
  <2> QED
    BY <1>9, <2>2, <2>3, <2>4
\* The selection is put right and the page redrawn.
<1>10. ASSUME NEW t \in TabTasks, doing[t].pc \in {"corpora", "columns"}, NEW c, NEW v, Features!Synced(t, c, v),
              DOMAIN c = FeaturesClient, DOMAIN v = FeaturesView, c.set = client.set, c.feature = client.feature,
              v.config = view.config, v.features = view.features, v.draft = view.draft,
              doing[t].alone => v.enums = c.validate /\ v.columns = c.validate
       PROVE  FeaturesInv'
  <2> DEFINE f    == IF v.config = 0 THEN Features!None
                     ELSE IF c.feature \in v.features \cup {Features!New} THEN c.feature ELSE Features!None
             kept == IF f = v.draft THEN v ELSE Features!Opened(v, f)
             once == [kept EXCEPT !.link = Features!NoLink, !.drawn = TRUE]
  <2>1. /\ Reloaded(t)
        /\ \/ client' = Features!Keeps(c, f) /\ view' = once
           \/ client' = Features!Keeps(c, Features!New) /\ view' = Features!Opened(once, Features!New)
    BY <1>0, <1>10, FeaturesCoroutines DEF Features!Synced
  <2>2. f \in v.features \cup {Features!None, Features!New}
    OBVIOUS
  <2> HIDE DEF f
  <2>3. /\ DOMAIN kept = FeaturesView /\ kept.draft = f /\ kept.config = v.config /\ kept.features = v.features
        /\ kept.enums = v.enums /\ kept.columns = v.columns
    BY <1>b, <1>10
  <2> HIDE DEF kept
  <2>4. /\ DOMAIN once = FeaturesView /\ once.draft = f /\ once.config = v.config /\ once.features = v.features
        /\ once.enums = v.enums /\ once.columns = v.columns
    BY <2>3 DEF FeaturesView
  <2> HIDE DEF once
  <2>5. /\ DOMAIN client' = FeaturesClient /\ DOMAIN view' = FeaturesView /\ view'.draft = client'.feature
        /\ client'.feature \in view'.features \cup {Features!None, Features!New}
        /\ client'.set = client.set /\ view'.config = view.config
        /\ client'.validate = c.validate /\ view'.enums = v.enums /\ view'.columns = v.columns
    BY <1>b, <1>c, <1>10, <2>1, <2>2, <2>4
  <2>6. DoingInv'
    BY <1>0, <2>1, DoingStep DEF Reloaded
  <2>7. ended' # "broken" => ended # "broken" \/ doing[t].alone
    BY <2>1 DEF Reloaded
  <2>8. FeaturesFind'
    BY <1>0, <1>10, <2>1, <2>5, <2>7 DEF FeaturesFind, FeaturesAskAlone, Reloaded, Over
  <2>9. FeaturesAskAlone'
    BY <1>0, <1>10, <2>1, <2>5 DEF FeaturesAskAlone, Reloaded, Over, AloneIsAlone
  <2>10. ended' = "lone" => FeaturesAreOfOne'
    BY <1>10, <2>1, <2>5 DEF FeaturesAreOfOne, Reloaded
  <2> QED
    BY <2>5, <2>6, <2>8, <2>9, <2>10 DEF FeaturesInv
<1>11. ASSUME NEW t \in TabTasks, Features!Corpora(t) PROVE FeaturesInv'
  <2> DEFINE q    == IF view.link.corpus # 0 THEN view.link.corpus ELSE client.validate
             asks == [client EXCEPT !.validate = q]
  <2>1. /\ doing[t].pc = "corpora"
        /\ \/ q = 0 /\ Features!Synced(t, asks, [view EXCEPT !.enums = 0, !.columns = 0])
           \/ client' = asks /\ GoneOn(t, "enums", q) /\ UNCHANGED view
    BY <1>0, <1>11, FeaturesCoroutines DEF Features!Corpora, Features!At
  <2> HIDE DEF q
  <2>2. /\ DOMAIN asks = FeaturesClient /\ asks.set = client.set /\ asks.feature = client.feature
        /\ asks.validate = q
    BY <1>0 DEF FeaturesClient
  <2> HIDE DEF asks
  <2>3. CASE q = 0 /\ Features!Synced(t, asks, [view EXCEPT !.enums = 0, !.columns = 0])
    <3> DEFINE v == [view EXCEPT !.enums = 0, !.columns = 0]
    <3>1. /\ DOMAIN v = FeaturesView /\ v.config = view.config /\ v.features = view.features
          /\ v.draft = view.draft /\ v.enums = 0 /\ v.columns = 0
      BY <1>0 DEF FeaturesView
    <3>2. Features!Synced(t, asks, v)
      BY <2>3
    <3> HIDE DEF v
    <3> QED
      BY <1>10, <2>1, <2>2, <2>3, <3>1, <3>2
  <2>4. CASE client' = asks /\ GoneOn(t, "enums", q) /\ UNCHANGED view
    <3>1. DoingInv'
      BY <1>0, <2>1, <2>4, DoingStep
    <3>2. FeaturesFind'
      BY <1>0, <2>1, <2>2, <2>4 DEF FeaturesFind, GoneOn
    <3>3. FeaturesAskAlone'
      BY <1>0, <2>1, <2>2, <2>4 DEF FeaturesAskAlone, GoneOn, AloneIsAlone
    <3> QED
      BY <1>0, <2>2, <2>4, <3>1, <3>2, <3>3 DEF FeaturesInv, GoneOn
  <2> QED
    BY <2>1, <2>3, <2>4
<1>12. ASSUME NEW t \in TabTasks, Features!Enums(t) PROVE FeaturesInv'
  <2>1. PICK pc : /\ GoneOn(t, pc, doing[t].read) /\ UNCHANGED client /\ view' = [view EXCEPT !.enums = doing[t].read]
                  /\ \/ doing[t].pc = "enums" /\ pc = "columns"
                     \/ doing[t].pc = "enums only" /\ pc = "columns only"
    BY <1>0, <1>12, FeaturesCoroutines DEF Features!Enums, Features!At
  <2>2. /\ DOMAIN view' = FeaturesView /\ view'.config = view.config /\ view'.features = view.features
        /\ view'.draft = view.draft /\ view'.enums = doing[t].read
    BY <1>0, <2>1 DEF FeaturesView
  <2>3. DoingInv'
    BY <1>0, <2>1, DoingStep
  <2>4. FeaturesFind'
    BY <1>0, <2>1, <2>2 DEF FeaturesFind, GoneOn
  <2>5. FeaturesAskAlone'
    BY <1>0, <2>1, <2>2 DEF FeaturesAskAlone, GoneOn, AloneIsAlone
  <2> QED
    BY <1>0, <2>1, <2>2, <2>3, <2>4, <2>5 DEF FeaturesInv, GoneOn
<1>13. ASSUME NEW t \in TabTasks, Features!Columned(t) PROVE FeaturesInv'
  <2> DEFINE v == [view EXCEPT !.columns = doing[t].read]
  <2>1. \/ doing[t].pc = "columns" /\ Features!Synced(t, client, v)
        \/ doing[t].pc = "columns only" /\ view' = v /\ Redrew(t) /\ UNCHANGED client
    BY <1>0, <1>13, FeaturesCoroutines DEF Features!Columned, Features!At
  <2>2. /\ DOMAIN v = FeaturesView /\ v.config = view.config /\ v.features = view.features
        /\ v.draft = view.draft /\ v.enums = view.enums /\ v.columns = doing[t].read
    BY <1>0 DEF FeaturesView
  <2> HIDE DEF v
  <2>3. doing[t].alone => v.enums = client.validate /\ v.columns = client.validate
    BY <1>0, <2>1, <2>2 DEF FeaturesAskAlone
  <2>4. CASE doing[t].pc = "columns" /\ Features!Synced(t, client, v)
    BY <1>0, <1>10, <2>2, <2>3, <2>4
  <2>5. CASE doing[t].pc = "columns only" /\ view' = v /\ Redrew(t) /\ UNCHANGED client
    <3>1. DoingInv'
      BY <1>0, <2>5, DoingStep DEF Redrew
    <3>2. Over(t) /\ (ended = "broken" => ended' = "broken") /\ (ended' = "lone" => doing[t].alone)
      BY <2>5 DEF Redrew
    <3>3. FeaturesFind'
      BY <1>0, <2>2, <2>5, <3>2 DEF FeaturesFind, Over
    <3>4. FeaturesAskAlone'
      BY <1>0, <2>2, <2>5, <3>2 DEF FeaturesAskAlone, Over, AloneIsAlone
    <3> QED
      BY <1>0, <2>2, <2>3, <2>5, <3>1, <3>2, <3>3, <3>4 DEF FeaturesInv, FeaturesAreOfOne
  <2> QED
    BY <2>1, <2>4, <2>5
<1>14. ASSUME NEW t \in TabTasks, Features!StorageGone(t) PROVE FeaturesInv'
  <2>1. Broke(t) /\ doing[t].pc # "rest" /\ UNCHANGED client
    BY <1>0, <1>14, FeaturesCoroutines DEF Features!StorageGone
  <2>2. DOMAIN view' = FeaturesView /\ view'.draft = view.draft
    BY <1>0, <1>14 DEF Features!StorageGone, FeaturesView
  <2>3. DoingInv'
    BY <1>0, <2>1, DoingStep DEF Broke
  <2>4. FeaturesAskAlone'
    BY <1>0, <2>1 DEF FeaturesAskAlone, Broke, Over, AloneIsAlone
  <2> QED
    BY <1>0, <2>1, <2>2, <2>3, <2>4 DEF FeaturesInv, FeaturesFind, Broke
<1>15. CASE Features!SetsChange \/ UNCHANGED tabVars
  <2>1. UNCHANGED <<client, view, doing, ended>>
    BY <1>15 DEF Features!SetsChange, Features!Elsewhere, tabVars
  <2> QED
    BY <1>0, <2>1
       DEF FeaturesInv, FeaturesFind, FeaturesAskAlone, FeaturesAreOfOne, DoingInv, DoingShape, AloneIsAlone
<1> QED
  BY <1>0, <1>2, <1>3, <1>4, <1>5, <1>6, <1>7, <1>8, <1>9, <1>11, <1>12, <1>13, <1>14, <1>15
     DEF Features!FeaturesNext, Features!FeaturesStep

LEMMA FeaturesHold == FeaturesInv => Features!FeaturesRemember /\ Features!FeaturesAgree
BY DEF FeaturesInv, FeaturesFind, FeaturesAreOfOne, Awaited, SetReload, FeaturesReload, ScopeReload,
       Features!FeaturesRemember, Features!FeaturesAgree, Features!Calm, Features!Busy, Features!Tasks, TabTasks

-----------------------------------------------------------------------------
(* The Prompts page.                                                       *)

\* Finitely many versions: numbers, none beyond some number.
Bounded(S) == S \subseteq Nat /\ \E n \in Nat : \A x \in S : x <= n

\* The least bound of a set that has one is the largest of its numbers.
LEMMA LargestIsOne ==
  ASSUME NEW S, Bounded(S), S # {}
  PROVE  Prompts!Max(S) \in S /\ \A x \in S : x <= Prompts!Max(S)
<1> DEFINE bounds == {n \in Nat : \A x \in S : x <= n}
<1>1. bounds \subseteq Nat /\ bounds # {} /\ S \subseteq Nat
  BY DEF Bounded
<1>2. PICK n \in bounds : \A m \in bounds : <<m, n>> \notin OpToRel(<, Nat)
  <2> HIDE DEF bounds
  <2> QED
    BY <1>1, NatLessThanWellFounded, WFMin
<1>3. n \in Nat /\ \A m \in bounds : ~(m < n)
  BY <1>1, <1>2 DEF OpToRel
<1>4. n \in S
  <2>1. CASE n = 0
    <3>1. PICK y \in S : y \in Nat /\ y <= n
      BY <1>1, <1>2
    <3> QED
      BY <1>3, <2>1, <3>1
  <2>2. CASE n # 0 /\ n \notin S
    <3>1. n - 1 \in Nat /\ n - 1 < n /\ \A x \in S : x <= n - 1
      BY <1>1, <1>3, <2>2
    <3> QED
      BY <1>3, <3>1
  <2> QED
    BY <2>1, <2>2
<1>5. \E y \in S : \A x \in S : y >= x
  BY <1>1, <1>3, <1>4
<1>6. Prompts!Max(S) \in S /\ \A x \in S : Prompts!Max(S) >= x
  BY <1>5 DEF Prompts!Max
<1> QED
  BY <1>1, <1>6

LEMMA BoundedGrows ==
  ASSUME NEW S, Bounded(S)
  PROVE  /\ Bounded(S \cup {Prompts!Max(S \cup {0}) + 1})
         /\ \A x : Bounded(S \ {x})
<1>1. Bounded(S \cup {0})
  BY DEF Bounded
<1>2. Prompts!Max(S \cup {0}) \in Nat /\ \A x \in S : x <= Prompts!Max(S \cup {0})
  BY <1>1, LargestIsOne DEF Bounded
<1> DEFINE next == Prompts!Max(S \cup {0}) + 1
<1>3. next \in Nat /\ \A x \in S \cup {next} : x <= next
  BY <1>2 DEF Bounded
<1>4. Bounded(S \cup {next})
  <2> HIDE DEF next
  <2> QED
    BY <1>3 DEF Bounded
<1> QED
  BY <1>4 DEF Bounded

LEMMA PromptsCoroutines ==
  ASSUME DoingShape, NEW t \in TabTasks
  PROVE  /\ \A slot, pc, read : Prompts!BeginsIn(slot, t, pc, read) => Begun(t, pc, read)
         /\ \A pc, read : Prompts!Goes(t, pc, read) => GoneOn(t, pc, read)
         /\ \A slots : Prompts!Ends(t, slots) => Reloaded(t)
         /\ \A slots : Prompts!Draws(t, slots) => Redrew(t)
         /\ Prompts!Refused(t) => Left(t)
         /\ Prompts!Breaks(t) => Broke(t)
         /\ \A slots : Prompts!Redraws(slots) => Unmoved
<1>0. /\ DOMAIN Prompts!Resting = JobFields /\ Prompts!Resting.pc = "rest" /\ Prompts!Resting.alone = FALSE
      /\ Prompts!Tasks = TabTasks
  BY DEF Prompts!Resting, Prompts!Tasks, JobFields, TabTasks
<1>1. ASSUME NEW slot, NEW pc, NEW read, Prompts!BeginsIn(slot, t, pc, read) PROVE Begun(t, pc, read)
  <2>1. (\A s \in TabTasks : doing[s].pc = "rest") <=> Prompts!Calm
    BY <1>0 DEF Prompts!Calm, Prompts!Busy
  <2> DEFINE r == [Prompts!Resting EXCEPT !.pc = pc, !.read = read, !.slot = slot, !.alone = Prompts!Calm]
  <2>2. DOMAIN r = JobFields /\ r.pc = pc /\ r.read = read /\ (r.alone <=> Prompts!Calm) /\ r.alone \in BOOLEAN
    BY <1>0 DEF JobFields, Prompts!Calm
  <2>3. /\ doing[t].pc = "rest" /\ UNCHANGED ended /\ DOMAIN doing' = TabTasks
        /\ doing'[t] = r /\ \A s \in TabTasks \ {t} : doing'[s] = [doing[s] EXCEPT !.alone = FALSE]
    BY <1>0, <1>1 DEF Prompts!BeginsIn
  <2> HIDE DEF r
  <2>4. ASSUME NEW s \in TabTasks \ {t}
        PROVE  DOMAIN doing'[s] = JobFields /\ doing'[s].alone = FALSE /\ Waits(s)
    BY <2>3 DEF DoingShape, Waits, JobFields
  <2>5. DoingShape'
    BY <2>2, <2>3, <2>4 DEF DoingShape
  <2> QED
    BY <2>1, <2>2, <2>3, <2>4, <2>5 DEF Begun
<1>2. ASSUME NEW pc, NEW read, Prompts!Goes(t, pc, read) PROVE GoneOn(t, pc, read)
  BY <1>2 DEF Prompts!Goes, DoingShape, GoneOn, Stays, Waits, JobFields
<1>3. ASSUME NEW slots, Prompts!Rests(t, slots) PROVE Over(t)
  BY <1>0, <1>3 DEF Prompts!Rests, Prompts!Torn, DoingShape, Over, Stays, Waits, JobFields
<1>4. ASSUME Prompts!Breaks(t) PROVE Broke(t)
  BY <1>0, <1>4 DEF Prompts!Breaks, DoingShape, Broke, Over, Stays, Waits, JobFields
<1>5. ASSUME Prompts!Refused(t) PROVE Left(t)
  BY <1>0, <1>5 DEF Prompts!Refused, DoingShape, Left, Over, Stays, Waits, JobFields
<1>6. ASSUME NEW slots, Prompts!Redraws(slots) PROVE Unmoved
  BY <1>0, <1>6 DEF Prompts!Redraws, Prompts!Torn, DoingShape, Unmoved, Stays, Waits, JobFields
<1> QED
  BY <1>1, <1>2, <1>3, <1>4, <1>5, <1>6 DEF Prompts!Ends, Reloaded, Prompts!Draws, Redrew

PromptsReload == {"lists", "listed", "slots"}
PromptsView   == {"versions", "active", "draft", "preview", "drawn"}

\* Versions come and go, there and in what was read and is held.
VersionsAreNumbered ==
  /\ Bounded(db.versions) /\ Bounded(view.versions)
  /\ \A t \in TabTasks : doing[t].pc = "listed" => Bounded(doing[t].read.versions)

SelectedIsHeld ==
  IF view.versions = {} THEN client.selected = Prompts!Nothing ELSE client.selected \in view.versions

PromptsInv ==
  /\ DoingInv
  /\ DOMAIN db = {"versions", "active"} /\ DOMAIN view = PromptsView
  /\ VersionsAreNumbered
  /\ ended # "broken" => SelectedIsHeld \/ Awaited(PromptsReload)

LEMMA PromptsInvInit == Prompts!PromptsInit => PromptsInv
<1> SUFFICES ASSUME Prompts!PromptsInit PROVE PromptsInv
  OBVIOUS
<1>1. /\ DoingInv /\ doing["build"].pc = "lists" /\ "build" \in TabTasks
      /\ \A t \in TabTasks : doing[t].pc # "listed"
  BY DEF Prompts!PromptsInit, Prompts!Opens, Prompts!Resting, Prompts!Tasks, DoingInv, DoingShape,
         AloneIsAlone, TabTasks, JobFields
<1>2. Bounded({}) /\ Bounded({1, 2})
  BY DEF Bounded
<1>3. DOMAIN db = {"versions", "active"} /\ DOMAIN view = PromptsView
  BY DEF Prompts!PromptsInit, PromptsView
<1>4. db.versions \in {{}, {1, 2}} /\ view.versions = {}
  BY DEF Prompts!PromptsInit
<1> QED
  BY <1>1, <1>2, <1>3, <1>4 DEF PromptsInv, VersionsAreNumbered, Awaited, PromptsReload

LEMMA PromptsMove ==
  ASSUME PromptsInv, [Prompts!PromptsNext]_tabVars
  PROVE  PromptsInv'
<1> USE DEF Awaited, Stays, Waits, PromptsReload
<1>0. /\ DoingInv /\ DoingShape /\ VersionsAreNumbered
      /\ DOMAIN db = {"versions", "active"} /\ DOMAIN view = PromptsView
      /\ ended # "broken" => SelectedIsHeld \/ Awaited(PromptsReload)
  BY DEF PromptsInv, DoingInv
<1>a. \A t \in Turners : t \in TabTasks
  BY DEF TabTasks
\* What the database may say next.
<1>b. /\ Bounded(db.versions \cup {Prompts!NextVersion})
      /\ \A v : Bounded(db.versions \ {v})
  BY <1>0, BoundedGrows DEF VersionsAreNumbered, Prompts!NextVersion
<1> DEFINE Numbered == DOMAIN db' = {"versions", "active"} /\ Bounded(db'.versions)
<1>c. UNCHANGED db => Numbered
  BY <1>0 DEF VersionsAreNumbered
<1> HIDE DEF Numbered
\* A coroutine that holds no versions and may drop what is selected only to
\* put it right in a reload.
<1>1. ASSUME NEW t \in TabTasks, Numbered, DOMAIN view' = PromptsView, view'.versions = view.versions,
             doing'[t].pc \notin {"rest", "listed", "slots"},
             \/ Begun(t, doing'[t].pc, doing'[t].read)
             \/ /\ GoneOn(t, doing'[t].pc, doing'[t].read)
                /\ doing[t].pc \notin {"rest"} \cup PromptsReload,
             doing'[t].pc = "lists" \/ UNCHANGED client
      PROVE  PromptsInv'
  <2>1. DoingInv'
    BY <1>0, <1>1, DoingStep
  <2>2. VersionsAreNumbered'
    BY <1>0, <1>1 DEF VersionsAreNumbered, Begun, GoneOn, Numbered
  <2>3. ended' # "broken" => SelectedIsHeld' \/ Awaited(PromptsReload)'
    BY <1>0, <1>1 DEF SelectedIsHeld, Begun, GoneOn
  <2> QED
    BY <1>1, <2>1, <2>2, <2>3 DEF PromptsInv, Numbered
\* One that was in no reload is over.
<1>2. ASSUME NEW t \in TabTasks, doing[t].pc \notin {"rest"} \cup PromptsReload, Left(t) \/ Redrew(t),
             UNCHANGED <<db, client>>, DOMAIN view' = PromptsView, view'.versions = view.versions
      PROVE  PromptsInv'
  <2>1. DoingInv'
    BY <1>0, <1>2, DoingStep DEF Left, Redrew
  <2>2. Over(t) /\ (ended' # "broken" => ended # "broken")
    BY <1>2 DEF Left, Redrew
  <2>3. VersionsAreNumbered'
    BY <1>0, <1>2, <2>2 DEF VersionsAreNumbered, Over
  <2>4. ended' # "broken" => SelectedIsHeld' \/ Awaited(PromptsReload)'
    BY <1>0, <1>2, <2>2 DEF SelectedIsHeld, Over
  <2> QED
    BY <1>0, <1>2, <2>1, <2>3, <2>4 DEF PromptsInv
<1>3. CASE Prompts!Select \/ Prompts!StartEditing \/ Prompts!Types
  <2>1. /\ Unmoved /\ UNCHANGED <<db, ended>>
        /\ DOMAIN view' = PromptsView /\ view'.versions = view.versions
        /\ client'.selected \in view.versions \/ UNCHANGED client
    <3>1. CASE Prompts!Types
      BY <1>0, <3>1 DEF Prompts!Types, Unmoved, DoingShape, PromptsView
    <3>2. CASE Prompts!StartEditing
      BY <1>0, <3>2, PromptsCoroutines DEF Prompts!StartEditing, Prompts!Redrawn, TabTasks, PromptsView
    <3>3. CASE Prompts!Select
      BY <1>0, <3>3, PromptsCoroutines DEF Prompts!Select, Prompts!Redrawn, TabTasks, PromptsView
    <3> QED
      BY <1>3, <3>1, <3>2, <3>3
  <2>2. DoingInv'
    BY <1>0, <2>1, DoingStep DEF TabTasks
  <2>3. VersionsAreNumbered'
    BY <1>0, <2>1 DEF VersionsAreNumbered, Unmoved
  <2>4. ended' # "broken" => SelectedIsHeld' \/ Awaited(PromptsReload)'
    BY <1>0, <2>1 DEF SelectedIsHeld, Unmoved
  <2> QED
    BY <1>0, <2>1, <2>2, <2>3, <2>4 DEF PromptsInv
<1>4. ASSUME NEW t \in Turners, Prompts!Save(t) \/ Prompts!Delete(t) \/ Prompts!Preview(t) PROVE PromptsInv'
  <2>1. PICK pc, read : pc \in {"saving", "deleting", "previewing"} /\ Prompts!Uses(t, pc, read)
    BY <1>4 DEF Prompts!Save, Prompts!Delete, Prompts!Preview
  <2>2. Begun(t, pc, read) /\ UNCHANGED <<db, client, view>>
    BY <1>0, <1>a, <2>1, PromptsCoroutines DEF Prompts!Uses, Prompts!Begins
  <2>3. doing'[t].pc = pc /\ Begun(t, doing'[t].pc, doing'[t].read)
    BY <2>2, GoesWhere
  <2> QED
    BY <1>0, <1>1, <1>a, <1>c, <2>1, <2>2, <2>3
<1>5. ASSUME NEW t \in TabTasks, Prompts!Saved(t) \/ Prompts!Deletes(t) \/ Prompts!Activates(t) PROVE PromptsInv'
  <2>1. /\ doing[t].pc \in {"saving", "deleting", "activating"} /\ UNCHANGED <<client, view>>
        /\ \/ UNCHANGED db /\ (Left(t) \/ Redrew(t))
           \/ Numbered /\ \E pc \in {"activating", "activated", "deleted"} : \E read : GoneOn(t, pc, read)
    <3>1. CASE Prompts!Saved(t)
      BY <1>0, <1>b, <3>1, PromptsCoroutines DEF Prompts!Saved, Prompts!At, Numbered
    <3>2. CASE Prompts!Deletes(t)
      BY <1>0, <1>b, <3>2, PromptsCoroutines DEF Prompts!Deletes, Prompts!At, Numbered
    <3>3. CASE Prompts!Activates(t)
      BY <1>0, <3>3, PromptsCoroutines DEF Prompts!Activates, Prompts!At, Numbered, VersionsAreNumbered
    <3> QED
      BY <1>5, <3>1, <3>2, <3>3
  <2>2. CASE UNCHANGED db /\ (Left(t) \/ Redrew(t))
    BY <1>0, <1>2, <2>1, <2>2
  <2>3. CASE Numbered /\ \E pc \in {"activating", "activated", "deleted"} : \E read : GoneOn(t, pc, read)
    <3>1. doing'[t].pc \in {"activating", "activated", "deleted"} /\ GoneOn(t, doing'[t].pc, doing'[t].read)
      BY <2>3, GoesWhere
    <3> QED
      BY <1>0, <1>1, <2>1, <2>3, <3>1
  <2> QED
    BY <2>1, <2>2, <2>3
<1>6. ASSUME NEW t \in TabTasks, Prompts!Activated(t) \/ Prompts!Deleted(t) PROVE PromptsInv'
  <2>1. /\ doing[t].pc \in {"activated", "deleted"} /\ UNCHANGED db /\ GoneOn(t, "lists", {})
        /\ DOMAIN view' = PromptsView /\ view'.versions = view.versions
    BY <1>0, <1>6, PromptsCoroutines DEF Prompts!Activated, Prompts!Deleted, Prompts!At, PromptsView
  <2>2. doing'[t].pc = "lists" /\ GoneOn(t, doing'[t].pc, doing'[t].read)
    BY <2>1, GoesWhere
  <2> QED
    BY <1>1, <1>c, <2>1, <2>2
<1>7. ASSUME NEW t \in TabTasks, Prompts!Previewed(t) PROVE PromptsInv'
  <2>1. doing[t].pc = "previewing" /\ (Left(t) \/ Redrew(t)) /\ UNCHANGED <<db, client>>
    BY <1>0, <1>7, PromptsCoroutines DEF Prompts!Previewed, Prompts!At
  <2>2. DOMAIN view' = PromptsView /\ view'.versions = view.versions
    BY <1>0, <1>7 DEF Prompts!Previewed, PromptsView
  <2> QED
    BY <1>2, <2>1, <2>2
<1>8. ASSUME NEW t \in TabTasks, Prompts!Lists(t) PROVE PromptsInv'
  <2>1. doing[t].pc = "lists" /\ GoneOn(t, "listed", db) /\ UNCHANGED <<db, client, view>>
    BY <1>0, <1>8, PromptsCoroutines DEF Prompts!Lists, Prompts!At
  <2>2. DoingInv'
    BY <1>0, <2>1, DoingStep
  <2>3. VersionsAreNumbered'
    BY <1>0, <2>1 DEF VersionsAreNumbered, GoneOn
  <2> QED
    BY <1>0, <2>1, <2>2, <2>3 DEF PromptsInv, GoneOn
<1>9. ASSUME NEW t \in TabTasks, Prompts!Listed(t) PROVE PromptsInv'
  <2>1. /\ doing[t].pc = "listed" /\ GoneOn(t, "slots", {}) /\ UNCHANGED <<db, client>>
        /\ DOMAIN view' = PromptsView /\ view'.versions = doing[t].read.versions
    BY <1>0, <1>9, PromptsCoroutines DEF Prompts!Listed, Prompts!At, PromptsView
  <2>2. DoingInv'
    BY <1>0, <2>1, DoingStep
  <2>3. VersionsAreNumbered'
    BY <1>0, <2>1 DEF VersionsAreNumbered, GoneOn
  <2> QED
    BY <1>0, <2>1, <2>2, <2>3 DEF PromptsInv, GoneOn
<1>10. ASSUME NEW t \in TabTasks, Prompts!Slotted(t) PROVE PromptsInv'
  <2>1. /\ doing[t].pc = "slots" /\ Reloaded(t) /\ UNCHANGED db
        /\ DOMAIN view' = PromptsView /\ view'.versions = view.versions
    BY <1>0, <1>10, PromptsCoroutines DEF Prompts!Slotted, Prompts!At, PromptsView
  <2>2. view.versions # {} => Prompts!Default \in view.versions
    BY <1>0, LargestIsOne DEF VersionsAreNumbered, Prompts!Default
  <2>3. client'.selected = IF view.versions = {} THEN Prompts!Nothing
                           ELSE IF Prompts!Selected # Prompts!Nothing THEN Prompts!Selected ELSE Prompts!Default
    BY <1>10 DEF Prompts!Slotted
  <2>4. SelectedIsHeld'
    BY <2>1, <2>2, <2>3 DEF SelectedIsHeld, Prompts!Selected
  <2>5. DoingInv'
    BY <1>0, <2>1, DoingStep DEF Reloaded
  <2>6. VersionsAreNumbered'
    BY <1>0, <2>1 DEF VersionsAreNumbered, Reloaded, Over
  <2> QED
    BY <1>0, <2>1, <2>4, <2>5, <2>6 DEF PromptsInv
<1>11. ASSUME NEW t \in TabTasks, Prompts!StorageGone(t) PROVE PromptsInv'
  <2>1. Broke(t) /\ doing[t].pc # "rest" /\ UNCHANGED <<db, client, view>>
    BY <1>0, <1>11, PromptsCoroutines DEF Prompts!StorageGone
  <2>2. DoingInv'
    BY <1>0, <2>1, DoingStep DEF Broke
  <2>3. VersionsAreNumbered'
    BY <1>0, <2>1 DEF VersionsAreNumbered, Broke, Over
  <2> QED
    BY <1>0, <2>1, <2>2, <2>3 DEF PromptsInv, Broke
<1>12. CASE Prompts!VersionsChange \/ UNCHANGED tabVars
  <2>1. UNCHANGED <<client, view, doing, ended>>
    BY <1>12 DEF Prompts!VersionsChange, Prompts!Elsewhere, tabVars
  <2>2. UNCHANGED db \/ \E versions, active :
          Bounded(versions) /\ db' = [versions |-> versions, active |-> active]
    BY <1>b, <1>12 DEF Prompts!VersionsChange, Prompts!Elsewhere, tabVars
  <2>3. DOMAIN db' = {"versions", "active"} /\ Bounded(db'.versions)
    BY <1>0, <2>2 DEF VersionsAreNumbered
  <2> QED
    BY <1>0, <2>1, <2>3
       DEF PromptsInv, VersionsAreNumbered, SelectedIsHeld, DoingInv, DoingShape, AloneIsAlone
<1> QED
  BY <1>0, <1>3, <1>4, <1>5, <1>6, <1>7, <1>8, <1>9, <1>10, <1>11, <1>12
     DEF Prompts!PromptsNext, Prompts!PromptsStep, Prompts!Tasks, TabTasks

LEMMA PromptsHold == PromptsInv => Prompts!PromptsRemember
BY DEF PromptsInv, SelectedIsHeld, Awaited, PromptsReload, Prompts!PromptsRemember, Prompts!Calm, Prompts!Busy,
       Prompts!Tasks, TabTasks

-----------------------------------------------------------------------------
(* The Scrubbing page.                                                     *)

LEMMA ScrubbingCoroutines ==
  ASSUME DoingShape, NEW t \in TabTasks
  PROVE  /\ \A slot, pc, read : Scrubbing!BeginsIn(slot, t, pc, read) => Begun(t, pc, read)
         /\ \A pc, read : Scrubbing!Goes(t, pc, read) => GoneOn(t, pc, read)
         /\ \A slots : Scrubbing!Ends(t, slots) => Reloaded(t)
         /\ \A slots : Scrubbing!Draws(t, slots) => Redrew(t)
         /\ Scrubbing!Refused(t) => Left(t)
         /\ Scrubbing!Breaks(t) => Broke(t)
<1>0. /\ DOMAIN Scrubbing!Resting = JobFields /\ Scrubbing!Resting.pc = "rest" /\ Scrubbing!Resting.alone = FALSE
      /\ Scrubbing!Tasks = TabTasks
  BY DEF Scrubbing!Resting, Scrubbing!Tasks, JobFields, TabTasks
<1>1. ASSUME NEW slot, NEW pc, NEW read, Scrubbing!BeginsIn(slot, t, pc, read) PROVE Begun(t, pc, read)
  <2>1. (\A s \in TabTasks : doing[s].pc = "rest") <=> Scrubbing!Calm
    BY <1>0 DEF Scrubbing!Calm, Scrubbing!Busy
  <2> DEFINE r == [Scrubbing!Resting EXCEPT !.pc = pc, !.read = read, !.slot = slot, !.alone = Scrubbing!Calm]
  <2>2. DOMAIN r = JobFields /\ r.pc = pc /\ r.read = read /\ (r.alone <=> Scrubbing!Calm) /\ r.alone \in BOOLEAN
    BY <1>0 DEF JobFields, Scrubbing!Calm
  <2>3. /\ doing[t].pc = "rest" /\ UNCHANGED ended /\ DOMAIN doing' = TabTasks
        /\ doing'[t] = r /\ \A s \in TabTasks \ {t} : doing'[s] = [doing[s] EXCEPT !.alone = FALSE]
    BY <1>0, <1>1 DEF Scrubbing!BeginsIn
  <2> HIDE DEF r
  <2>4. ASSUME NEW s \in TabTasks \ {t}
        PROVE  DOMAIN doing'[s] = JobFields /\ doing'[s].alone = FALSE /\ Waits(s)
    BY <2>3 DEF DoingShape, Waits, JobFields
  <2>5. DoingShape'
    BY <2>2, <2>3, <2>4 DEF DoingShape
  <2> QED
    BY <2>1, <2>2, <2>3, <2>4, <2>5 DEF Begun
<1>2. ASSUME NEW pc, NEW read, Scrubbing!Goes(t, pc, read) PROVE GoneOn(t, pc, read)
  BY <1>2 DEF Scrubbing!Goes, DoingShape, GoneOn, Stays, Waits, JobFields
<1>3. ASSUME NEW slots, Scrubbing!Rests(t, slots) PROVE Over(t)
  BY <1>0, <1>3 DEF Scrubbing!Rests, Scrubbing!Torn, DoingShape, Over, Stays, Waits, JobFields
<1>4. ASSUME Scrubbing!Breaks(t) PROVE Broke(t)
  BY <1>0, <1>4 DEF Scrubbing!Breaks, DoingShape, Broke, Over, Stays, Waits, JobFields
<1>5. ASSUME Scrubbing!Refused(t) PROVE Left(t)
  BY <1>0, <1>5 DEF Scrubbing!Refused, DoingShape, Left, Over, Stays, Waits, JobFields
<1> QED
  BY <1>1, <1>2, <1>3, <1>4, <1>5 DEF Scrubbing!Ends, Reloaded, Scrubbing!Draws, Redrew

\* A coroutine is where it was, and its element is as whole as it was.
SlotKept(s) ==
  doing'[s].pc = doing[s].pc /\ doing'[s].slot = doing[s].slot /\ (doing'[s].torn <=> doing[s].torn)

LEMMA SlotsAreKept ==
  ASSUME DoingShape, NEW t \in TabTasks
  PROVE  /\ \A slot, pc, read : Scrubbing!BeginsIn(slot, t, pc, read) =>
              /\ doing[t].pc = "rest" /\ doing'[t].pc = pc /\ doing'[t].slot = slot /\ ~doing'[t].torn
              /\ \A s \in TabTasks \ {t} : SlotKept(s)
         /\ \A pc, read : Scrubbing!Goes(t, pc, read) =>
              doing'[t].pc = pc /\ \A s \in TabTasks \ {t} : SlotKept(s)
         /\ \A slots : Scrubbing!Rests(t, slots) =>
              /\ doing'[t].pc = "rest"
              /\ \A s \in TabTasks \ {t} :
                   /\ doing'[s].pc = doing[s].pc /\ doing'[s].slot = doing[s].slot
                   /\ doing[s].slot \notin slots => SlotKept(s)
         /\ Scrubbing!Refused(t) \/ Scrubbing!Breaks(t) =>
              doing'[t].pc = "rest" /\ \A s \in TabTasks \ {t} : SlotKept(s)
<1>0. /\ DOMAIN Scrubbing!Resting = JobFields /\ Scrubbing!Resting.pc = "rest" /\ Scrubbing!Resting.torn = FALSE
      /\ Scrubbing!Tasks = TabTasks
  BY DEF Scrubbing!Resting, Scrubbing!Tasks, JobFields, TabTasks
<1>1. ASSUME NEW slot, NEW pc, NEW read, Scrubbing!BeginsIn(slot, t, pc, read)
      PROVE  /\ doing[t].pc = "rest" /\ doing'[t].pc = pc /\ doing'[t].slot = slot /\ ~doing'[t].torn
             /\ \A s \in TabTasks \ {t} : SlotKept(s)
  <2> DEFINE r == [Scrubbing!Resting EXCEPT !.pc = pc, !.read = read, !.slot = slot, !.alone = Scrubbing!Calm]
  <2>1. r.pc = pc /\ r.slot = slot /\ r.torn = FALSE
    BY <1>0 DEF JobFields
  <2>2. /\ doing[t].pc = "rest" /\ doing'[t] = r
        /\ \A s \in TabTasks \ {t} : doing'[s] = [doing[s] EXCEPT !.alone = FALSE]
    BY <1>0, <1>1 DEF Scrubbing!BeginsIn
  <2> HIDE DEF r
  <2>3. ASSUME NEW s \in TabTasks \ {t}
        PROVE  doing'[s].pc = doing[s].pc /\ doing'[s].slot = doing[s].slot /\ doing'[s].torn = doing[s].torn
    BY <2>2 DEF DoingShape, JobFields
  <2> QED
    BY <2>1, <2>2, <2>3 DEF SlotKept
<1>2. ASSUME NEW pc, NEW read, Scrubbing!Goes(t, pc, read)
      PROVE  doing'[t].pc = pc /\ \A s \in TabTasks \ {t} : SlotKept(s)
  BY <1>2 DEF Scrubbing!Goes, DoingShape, SlotKept, JobFields
<1>3. ASSUME NEW slots, Scrubbing!Rests(t, slots)
      PROVE  /\ doing'[t].pc = "rest"
             /\ \A s \in TabTasks \ {t} :
                  /\ doing'[s].pc = doing[s].pc /\ doing'[s].slot = doing[s].slot
                  /\ doing[s].slot \notin slots => SlotKept(s)
  BY <1>0, <1>3 DEF Scrubbing!Rests, Scrubbing!Torn, DoingShape, SlotKept, JobFields
<1>4. ASSUME Scrubbing!Refused(t) \/ Scrubbing!Breaks(t)
      PROVE  doing'[t].pc = "rest" /\ \A s \in TabTasks \ {t} : SlotKept(s)
  BY <1>0, <1>4 DEF Scrubbing!Refused, Scrubbing!Breaks, DoingShape, SlotKept, JobFields
<1> QED
  BY <1>1, <1>2, <1>3, <1>4

ScrubbingReload == {"active", "activated", "versions", "versioned", "reloading"}
ScrubbingEntries == {"entries", "switching"} \cup ScrubbingReload
ScrubbingView   == {"active", "versions", "entries", "switch"}

\* The switch shows what was picked, or some pick will redraw it: nothing but a
\* pick tears the element of a pick.
SwitchIsPicked ==
  /\ \A t \in TabTasks : doing[t].pc = "switching" => doing[t].slot = "kind"
  /\ view.switch = client.kind \/ \E t \in TabTasks : doing[t].pc = "switching" /\ ~doing[t].torn

\* Versions are only added.
RulesAreCounted ==
  /\ db \in Nat /\ view.active \in Nat /\ view.versions \in Nat
  /\ view.active <= db /\ view.versions <= db
  /\ \A t \in TabTasks : doing[t].pc \in {"activated", "versioned"} => doing[t].read \in Nat /\ doing[t].read <= db

ScrubbingFinds == ended = "lone" =>
  /\ view.entries = client \/ Awaited(ScrubbingEntries)
  /\ view.active <= view.versions \/ Awaited(ScrubbingReload)

\* One that runs alone asks what the client wants, and finds the versions no
\* older than the active one.
ScrubbingAsksAlone ==
  \A t \in TabTasks : doing[t].alone =>
    /\ doing[t].pc \in {"entries", "switching", "reloading"} => doing[t].read = client
    /\ doing[t].pc = "versioned" => view.active <= doing[t].read
    /\ doing[t].pc = "reloading" => view.active <= view.versions

ScrubbingInv ==
  /\ DoingInv
  /\ DOMAIN client = {"kind", "asked"} /\ DOMAIN view = ScrubbingView
  /\ SwitchIsPicked /\ RulesAreCounted /\ ScrubbingFinds /\ ScrubbingAsksAlone

LEMMA ScrubbingInvInit == Scrubbing!ScrubbingInit => ScrubbingInv
<1> SUFFICES ASSUME Scrubbing!ScrubbingInit PROVE ScrubbingInv
  OBVIOUS
<1>1. /\ DoingInv /\ ended = "shared"
      /\ \A t \in TabTasks : doing[t].pc \in {"rest", "active"}
  BY DEF Scrubbing!ScrubbingInit, Scrubbing!Opens, Scrubbing!Resting, Scrubbing!Tasks, DoingInv, DoingShape,
         AloneIsAlone, TabTasks, JobFields
<1>2. /\ DOMAIN client = {"kind", "asked"} /\ DOMAIN view = ScrubbingView
      /\ view.switch = client.kind /\ db = 1 /\ view.active = 0 /\ view.versions = 0
  BY DEF Scrubbing!ScrubbingInit, ScrubbingView
<1> QED
  BY <1>1, <1>2 DEF ScrubbingInv, SwitchIsPicked, RulesAreCounted, ScrubbingFinds, ScrubbingAsksAlone

\* The switch, step by step.
LEMMA SwitchStep ==
  ASSUME DoingShape, SwitchIsPicked, DOMAIN client = {"kind", "asked"}, DOMAIN view = ScrubbingView,
         Scrubbing!ScrubbingNext
  PROVE  SwitchIsPicked'
<1>1. \A t \in Turners : t \in TabTasks
  BY DEF TabTasks
<1>2. ASSUME NEW t \in TabTasks, doing[t].pc = "rest", \A s \in TabTasks \ {t} : SlotKept(s),
             doing'[t].pc # "switching", view'.switch = view.switch, client'.kind = client.kind
      PROVE  SwitchIsPicked'
  BY <1>2 DEF SwitchIsPicked, SlotKept
<1>3. ASSUME NEW t \in Turners, Scrubbing!PickKind(t) PROVE SwitchIsPicked'
  <2>1. PICK now : Scrubbing!Picks(t, "kind", "switching", now)
    BY <1>3 DEF Scrubbing!PickKind
  <2>2. /\ doing'[t].pc = "switching" /\ doing'[t].slot = "kind" /\ ~doing'[t].torn
        /\ \A s \in TabTasks \ {t} : SlotKept(s)
    BY <1>1, <2>1, SlotsAreKept DEF Scrubbing!Picks
  <2> QED
    BY <1>1, <2>2 DEF SwitchIsPicked, SlotKept
<1>4. ASSUME NEW t \in Turners, Scrubbing!Search(t) \/ Scrubbing!TurnPage(t) PROVE SwitchIsPicked'
  <2>1. PICK slot, q : Scrubbing!Picks(t, slot, "entries", [client EXCEPT !.asked = q])
    BY <1>4 DEF Scrubbing!Search, Scrubbing!TurnPage
  <2>2. doing[t].pc = "rest" /\ doing'[t].pc = "entries" /\ \A s \in TabTasks \ {t} : SlotKept(s)
    BY <1>1, <2>1, SlotsAreKept DEF Scrubbing!Picks
  <2>3. client'.kind = client.kind /\ UNCHANGED view
    BY <2>1 DEF Scrubbing!Picks
  <2> QED
    BY <1>1, <1>2, <2>2, <2>3
<1>5. ASSUME NEW t \in Turners, Scrubbing!Import(t) \/ Scrubbing!Remove(t) PROVE SwitchIsPicked'
  <2>1. PICK slot : Scrubbing!BeginsIn(slot, t, "writing", {}) /\ UNCHANGED <<client, view>>
    BY <1>5 DEF Scrubbing!Import, Scrubbing!Remove
  <2>2. doing[t].pc = "rest" /\ doing'[t].pc = "writing" /\ \A s \in TabTasks \ {t} : SlotKept(s)
    BY <1>1, <2>1, SlotsAreKept
  <2> QED
    BY <1>1, <1>2, <2>1, <2>2
<1>6. ASSUME NEW t \in TabTasks, doing[t].pc # "switching" \/ doing[t].torn, doing'[t].pc # "switching",
             \A s \in TabTasks \ {t} : /\ doing'[s].pc = doing[s].pc /\ doing'[s].slot = doing[s].slot
                                       /\ doing[s].slot = "kind" => SlotKept(s),
             UNCHANGED client, view'.switch = view.switch
      PROVE  SwitchIsPicked'
  BY <1>6 DEF SwitchIsPicked, SlotKept
<1>7. ASSUME NEW t \in TabTasks,
             \/ Scrubbing!Writes(t) \/ Scrubbing!ReadsActive(t) \/ Scrubbing!Activated(t)
             \/ Scrubbing!ReadsVersions(t) \/ Scrubbing!Versioned(t)
      PROVE  SwitchIsPicked'
  <2>1. /\ doing[t].pc \in {"writing", "active", "activated", "versions", "versioned"} /\ UNCHANGED client
        /\ Scrubbing!Refused(t) \/ \E read : \E pc \in {"active", "activated", "versions", "versioned", "reloading"} :
             Scrubbing!Goes(t, pc, read)
    BY <1>7 DEF Scrubbing!Writes, Scrubbing!ReadsActive, Scrubbing!Activated, Scrubbing!ReadsVersions,
                Scrubbing!Versioned, Scrubbing!At
  <2>2. view'.switch = view.switch
    BY <1>7 DEF Scrubbing!Writes, Scrubbing!ReadsActive, Scrubbing!Activated, Scrubbing!ReadsVersions,
                Scrubbing!Versioned, ScrubbingView
  <2>3. doing'[t].pc # "switching" /\ \A s \in TabTasks \ {t} : SlotKept(s)
    BY <2>1, SlotsAreKept
  <2> QED
    BY <1>6, <2>1, <2>2, <2>3 DEF SlotKept
<1>8. ASSUME NEW t \in TabTasks, Scrubbing!Entered(t) PROVE SwitchIsPicked'
  <2>1. /\ doing[t].pc \in {"entries", "reloading"} /\ UNCHANGED client /\ view'.switch = view.switch
        /\ \E slots \in {{"entries"}, {"entries", "upper"}} : Scrubbing!Rests(t, slots)
    BY <1>8 DEF Scrubbing!Entered, Scrubbing!Ends, Scrubbing!Draws, ScrubbingView
  <2>2. /\ doing'[t].pc = "rest"
        /\ \A s \in TabTasks \ {t} : /\ doing'[s].pc = doing[s].pc /\ doing'[s].slot = doing[s].slot
                                     /\ doing[s].slot = "kind" => SlotKept(s)
    BY <2>1, SlotsAreKept
  <2> QED
    BY <1>6, <2>1, <2>2
<1>9. ASSUME NEW t \in TabTasks, Scrubbing!Switched(t) PROVE SwitchIsPicked'
  <2>1. UNCHANGED client /\ view'.switch = client.kind /\ Scrubbing!Rests(t, {"entries", "kind"})
    BY <1>9 DEF Scrubbing!Switched, Scrubbing!Draws, ScrubbingView
  <2>2. /\ doing'[t].pc = "rest"
        /\ \A s \in TabTasks \ {t} : doing'[s].pc = doing[s].pc /\ doing'[s].slot = doing[s].slot
    BY <2>1, SlotsAreKept
  <2> QED
    BY <2>1, <2>2 DEF SwitchIsPicked
<1>10. ASSUME NEW t \in TabTasks, Scrubbing!StorageGone(t) PROVE SwitchIsPicked'
  <2>1. doing[t].torn /\ Scrubbing!Breaks(t) /\ UNCHANGED client /\ view'.switch = view.switch
    BY <1>10 DEF Scrubbing!StorageGone, ScrubbingView
  <2>2. doing'[t].pc = "rest" /\ \A s \in TabTasks \ {t} : SlotKept(s)
    BY <2>1, SlotsAreKept
  <2> QED
    BY <1>6, <2>1, <2>2 DEF SlotKept
<1>11. CASE Scrubbing!RulesChange
  BY <1>11 DEF Scrubbing!RulesChange, Scrubbing!Elsewhere, SwitchIsPicked
<1> QED
  BY <1>3, <1>4, <1>5, <1>7, <1>8, <1>9, <1>10, <1>11
     DEF Scrubbing!ScrubbingNext, Scrubbing!ScrubbingStep, Scrubbing!Tasks, TabTasks

LEMMA ScrubbingMoves ==
  ASSUME ScrubbingInv, [Scrubbing!ScrubbingNext]_tabVars
  PROVE  ScrubbingInv'
<1> USE DEF Awaited, Stays, Waits, ScrubbingReload, ScrubbingEntries
<1>0. /\ DoingInv /\ DoingShape /\ AloneIsAlone /\ DOMAIN client = {"kind", "asked"} /\ DOMAIN view = ScrubbingView
      /\ SwitchIsPicked /\ RulesAreCounted /\ ScrubbingFinds /\ ScrubbingAsksAlone
  BY DEF ScrubbingInv, DoingInv
<1>a. \A t \in Turners : t \in TabTasks
  BY DEF TabTasks
<1>b. SwitchIsPicked'
  BY <1>0, SwitchStep DEF SwitchIsPicked, tabVars
<1>1. ASSUME NEW t \in Turners, Scrubbing!PickKind(t) \/ Scrubbing!Search(t) \/ Scrubbing!TurnPage(t)
      PROVE  ScrubbingInv'
  <2>1. PICK slot, pc, now : /\ pc \in {"switching", "entries"} /\ DOMAIN now = {"kind", "asked"}
                             /\ Scrubbing!Picks(t, slot, pc, now)
    <3>1. CASE Scrubbing!PickKind(t)
      <4>1. PICK k \in Scrubbing!Kinds : Scrubbing!Picks(t, "kind", "switching", [kind |-> k, asked |-> 1])
        BY <3>1 DEF Scrubbing!PickKind
      <4> QED
        BY <4>1
    <3>2. CASE Scrubbing!Search(t) \/ Scrubbing!TurnPage(t)
      <4>1. PICK slot, q : Scrubbing!Picks(t, slot, "entries", [client EXCEPT !.asked = q])
        BY <3>2 DEF Scrubbing!Search, Scrubbing!TurnPage
      <4> QED
        BY <1>0, <4>1
    <3> QED
      BY <1>1, <3>1, <3>2
  <2>2. Begun(t, pc, now) /\ client' = now /\ UNCHANGED <<db, view>>
    BY <1>0, <1>a, <2>1, ScrubbingCoroutines DEF Scrubbing!Picks
  <2>3. DoingInv'
    BY <1>0, <1>a, <2>1, <2>2, DoingStep
  <2>4. RulesAreCounted'
    BY <1>0, <2>1, <2>2 DEF RulesAreCounted, Begun
  <2>5. ScrubbingFinds'
    BY <1>0, <1>a, <2>1, <2>2 DEF ScrubbingFinds, Begun
  <2>6. ScrubbingAsksAlone'
    BY <1>0, <1>a, <2>1, <2>2 DEF ScrubbingAsksAlone, Begun
  <2> QED
    BY <1>0, <1>b, <2>1, <2>2, <2>3, <2>4, <2>5, <2>6 DEF ScrubbingInv
<1>2. ASSUME NEW t \in Turners, Scrubbing!Import(t) \/ Scrubbing!Remove(t) PROVE ScrubbingInv'
  <2>1. Begun(t, "writing", {}) /\ UNCHANGED <<db, client, view>>
    BY <1>0, <1>2, <1>a, ScrubbingCoroutines DEF Scrubbing!Import, Scrubbing!Remove
  <2>2. DoingInv'
    BY <1>0, <1>a, <2>1, DoingStep
  <2>3. RulesAreCounted' /\ ScrubbingFinds' /\ ScrubbingAsksAlone'
    BY <1>0, <2>1 DEF RulesAreCounted, ScrubbingFinds, ScrubbingAsksAlone, Begun
  <2> QED
    BY <1>0, <1>b, <2>1, <2>2, <2>3 DEF ScrubbingInv
<1>3. ASSUME NEW t \in TabTasks, Scrubbing!Writes(t) PROVE ScrubbingInv'
  <2>1. /\ doing[t].pc = "writing" /\ UNCHANGED <<client, view>> /\ (UNCHANGED db \/ db' = db + 1)
        /\ Left(t) \/ GoneOn(t, "active", {})
    BY <1>0, <1>3, ScrubbingCoroutines DEF Scrubbing!Writes, Scrubbing!At
  <2>2. DoingInv'
    BY <1>0, <2>1, DoingStep DEF Left
  <2>3. CASE Left(t)
    BY <1>0, <1>b, <2>1, <2>2, <2>3
       DEF ScrubbingInv, RulesAreCounted, ScrubbingFinds, ScrubbingAsksAlone, Left, Over
  <2>4. CASE GoneOn(t, "active", {})
    BY <1>0, <1>b, <2>1, <2>2, <2>4
       DEF ScrubbingInv, RulesAreCounted, ScrubbingFinds, ScrubbingAsksAlone, GoneOn
  <2> QED
    BY <2>1, <2>3, <2>4
<1>4. ASSUME NEW t \in TabTasks, Scrubbing!ReadsActive(t) \/ Scrubbing!ReadsVersions(t) PROVE ScrubbingInv'
  <2>1. /\ \/ doing[t].pc = "active" /\ GoneOn(t, "activated", db)
           \/ doing[t].pc = "versions" /\ GoneOn(t, "versioned", db)
        /\ UNCHANGED <<db, client, view>>
    BY <1>0, <1>4, ScrubbingCoroutines DEF Scrubbing!ReadsActive, Scrubbing!ReadsVersions, Scrubbing!At
  <2>2. DoingInv'
    BY <1>0, <2>1, DoingStep
  <2>3. RulesAreCounted'
    BY <1>0, <2>1 DEF RulesAreCounted, GoneOn
  <2>4. ScrubbingFinds'
    BY <1>0, <2>1 DEF ScrubbingFinds, GoneOn
  <2>5. ScrubbingAsksAlone'
    BY <1>0, <2>1 DEF ScrubbingAsksAlone, GoneOn, RulesAreCounted
  <2> QED
    BY <1>0, <1>b, <2>1, <2>2, <2>3, <2>4, <2>5 DEF ScrubbingInv
<1>5. ASSUME NEW t \in TabTasks, Scrubbing!Activated(t) PROVE ScrubbingInv'
  <2>1. /\ doing[t].pc = "activated" /\ GoneOn(t, "versions", {}) /\ UNCHANGED <<db, client>>
        /\ DOMAIN view' = ScrubbingView /\ view'.active = doing[t].read
        /\ view'.versions = view.versions /\ view'.entries = view.entries
    BY <1>0, <1>5, ScrubbingCoroutines DEF Scrubbing!Activated, Scrubbing!At, ScrubbingView
  <2>2. DoingInv'
    BY <1>0, <2>1, DoingStep
  <2>3. RulesAreCounted'
    BY <1>0, <2>1 DEF RulesAreCounted, GoneOn
  <2>4. ScrubbingFinds'
    BY <1>0, <2>1 DEF ScrubbingFinds, GoneOn
  <2>5. ScrubbingAsksAlone'
    BY <1>0, <2>1 DEF ScrubbingAsksAlone, GoneOn, AloneIsAlone
  <2> QED
    BY <1>0, <1>b, <2>1, <2>2, <2>3, <2>4, <2>5 DEF ScrubbingInv
<1>6. ASSUME NEW t \in TabTasks, Scrubbing!Versioned(t) PROVE ScrubbingInv'
  <2>1. /\ doing[t].pc = "versioned" /\ GoneOn(t, "reloading", client) /\ UNCHANGED <<db, client>>
        /\ DOMAIN view' = ScrubbingView /\ view'.versions = doing[t].read
        /\ view'.active = view.active /\ view'.entries = view.entries
    BY <1>0, <1>6, ScrubbingCoroutines DEF Scrubbing!Versioned, Scrubbing!At, ScrubbingView
  <2>2. DoingInv'
    BY <1>0, <2>1, DoingStep
  <2>3. RulesAreCounted'
    BY <1>0, <2>1 DEF RulesAreCounted, GoneOn
  <2>4. ScrubbingFinds'
    BY <1>0, <2>1 DEF ScrubbingFinds, GoneOn
  <2>5. ScrubbingAsksAlone'
    BY <1>0, <2>1 DEF ScrubbingAsksAlone, GoneOn, AloneIsAlone
  <2> QED
    BY <1>0, <1>b, <2>1, <2>2, <2>3, <2>4, <2>5 DEF ScrubbingInv
<1>7. ASSUME NEW t \in TabTasks, Scrubbing!Entered(t) \/ Scrubbing!Switched(t) PROVE ScrubbingInv'
  <2>1. /\ \/ doing[t].pc = "reloading" /\ Reloaded(t)
           \/ doing[t].pc \in {"entries", "switching"} /\ Redrew(t)
        /\ UNCHANGED <<db, client>> /\ DOMAIN view' = ScrubbingView /\ view'.entries = doing[t].read
        /\ view'.active = view.active /\ view'.versions = view.versions
    <3>1. CASE Scrubbing!Entered(t)
      BY <1>0, <3>1, ScrubbingCoroutines DEF Scrubbing!Entered, Scrubbing!At, ScrubbingView
    <3>2. CASE Scrubbing!Switched(t)
      BY <1>0, <3>2, ScrubbingCoroutines DEF Scrubbing!Switched, Scrubbing!At, ScrubbingView
    <3> QED
      BY <1>7, <3>1, <3>2
  <2>2. Over(t)
    BY <2>1 DEF Reloaded, Redrew
  <2>3. DoingInv'
    BY <1>0, <2>2, DoingStep
  <2>4. RulesAreCounted'
    BY <1>0, <2>1, <2>2 DEF RulesAreCounted, Over
  <2>5. ended' = "lone" => doing[t].alone
    BY <2>1 DEF Reloaded, Redrew
  <2>6. doing[t].alone => view'.entries = client'
    BY <1>0, <2>1 DEF ScrubbingAsksAlone
  <2>7. ended' = "lone" => view'.active <= view'.versions
    <3>1. CASE Reloaded(t) /\ doing[t].pc = "reloading"
      BY <1>0, <2>1, <2>5, <3>1 DEF ScrubbingAsksAlone
    <3>2. CASE Redrew(t) /\ doing[t].pc # "reloading"
      BY <1>0, <2>1, <2>5, <3>2 DEF ScrubbingFinds, Redrew, AloneIsAlone
    <3> QED
      BY <2>1, <3>1, <3>2
  <2>8. ScrubbingFinds'
    BY <2>5, <2>6, <2>7 DEF ScrubbingFinds
  <2>9. ScrubbingAsksAlone'
    BY <1>0, <2>1, <2>2 DEF ScrubbingAsksAlone, Over
  <2> QED
    BY <1>0, <1>b, <2>1, <2>3, <2>4, <2>8, <2>9 DEF ScrubbingInv
<1>8. ASSUME NEW t \in TabTasks, Scrubbing!StorageGone(t) PROVE ScrubbingInv'
  <2>1. /\ doing[t].pc # "rest" /\ Broke(t) /\ UNCHANGED <<db, client>>
        /\ DOMAIN view' = ScrubbingView /\ view'.active = view.active
        /\ view'.versions = view.versions \/ (doing[t].pc = "versioned" /\ view'.versions = doing[t].read)
    BY <1>0, <1>8, ScrubbingCoroutines DEF Scrubbing!StorageGone, Scrubbing!At, ScrubbingView
  <2>2. DoingInv'
    BY <1>0, <2>1, DoingStep DEF Broke
  <2>3. RulesAreCounted'
    BY <1>0, <2>1 DEF RulesAreCounted, Broke, Over
  <2>4. ScrubbingFinds'
    BY <2>1 DEF ScrubbingFinds, Broke
  <2>5. ScrubbingAsksAlone'
    BY <1>0, <2>1 DEF ScrubbingAsksAlone, Broke, Over, AloneIsAlone
  <2> QED
    BY <1>0, <1>b, <2>1, <2>2, <2>3, <2>4, <2>5 DEF ScrubbingInv
<1>9. CASE Scrubbing!RulesChange \/ UNCHANGED tabVars
  <2>1. UNCHANGED <<client, view, doing, ended>> /\ (UNCHANGED db \/ db' = db + 1)
    BY <1>9 DEF Scrubbing!RulesChange, Scrubbing!Elsewhere, tabVars
  <2>2. DoingInv' /\ ScrubbingFinds' /\ ScrubbingAsksAlone'
    BY <1>0, <2>1 DEF DoingInv, DoingShape, AloneIsAlone, ScrubbingFinds, ScrubbingAsksAlone
  <2>3. RulesAreCounted'
    BY <1>0, <2>1 DEF RulesAreCounted
  <2> QED
    BY <1>0, <1>b, <2>1, <2>2, <2>3 DEF ScrubbingInv
<1> QED
  BY <1>0, <1>1, <1>2, <1>3, <1>4, <1>5, <1>6, <1>7, <1>8, <1>9
     DEF Scrubbing!ScrubbingNext, Scrubbing!ScrubbingStep, Scrubbing!Tasks, TabTasks

LEMMA ScrubbingHolds == ScrubbingInv => Scrubbing!ScrubbingRemembers /\ Scrubbing!ScrubbingAgrees
BY DEF ScrubbingInv, SwitchIsPicked, ScrubbingFinds, Awaited, ScrubbingReload, ScrubbingEntries,
       Scrubbing!ScrubbingRemembers, Scrubbing!ScrubbingAgrees, Scrubbing!Calm, Scrubbing!Busy, Scrubbing!Tasks,
       TabTasks
=============================================================================
