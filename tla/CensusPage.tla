----------------------------- MODULE CensusPage -----------------------------
(***************************************************************************)
(* The Census page (ui/views/census_view.py): a corpus chip, the columns   *)
(* of that corpus as filtered, sorted and paged, and its summary.  A       *)
(* corpus is the number of its import.                                     *)
(***************************************************************************)
EXTENDS Tab

Corpora == 1..2

\* What the columns are asked by: filters and order, and the page.
Questions == [filter : 1..2, page : 1..2]

NoRows == [corpus |-> 0, asked |-> [filter |-> 1, page |-> 1]]

\* _render
Drawn(v) == [v EXCEPT !.drawn = [corpora |-> v.corpora, corpus |-> v.corpus,
                                 summary |-> v.summary, rows |-> v.rows]]

CensusInit ==
  /\ db \in [corpora : {{}, {1}, {1, 2}}]
  /\ client = [corpus |-> 0, asked |-> NoRows.asked]
  /\ view = [corpora |-> {}, corpus |-> 0, summary |-> 0, rows |-> NoRows,
             drawn |-> [corpora |-> {}, corpus |-> 0, summary |-> 0, rows |-> NoRows]]
  /\ Opens("lists")

\* Every handler stores what was picked and reloads.
Picks(t, now) ==
  /\ view.drawn.corpora # {}
  /\ Begins(t, "lists", {})
  /\ client' = now
  /\ UNCHANGED <<db, view>>

\* _pick_corpus
PickCorpus(t) == \E c \in view.drawn.corpora : Picks(t, [corpus |-> c, asked |-> [client.asked EXCEPT !.page = 1]])

\* _pick_threshold, _pick_table, _sort
Refilter(t) == \E f \in 1..2 : Picks(t, [client EXCEPT !.asked = [filter |-> f, page |-> 1]])

TurnPage(t) == \E p \in 1..2 : Picks(t, [client EXCEPT !.asked.page = p])

\* _toggle_menu redraws what the page holds, in the middle of a reload too.
ToggleMenu ==
  /\ view.drawn.corpora # {}
  /\ OneTurn
  /\ view' = Drawn(view) /\ Redraws({"page"})
  /\ UNCHANGED <<db, client, ended>>

Lists(t) == At(t, "lists") /\ Goes(t, "listed", db.corpora) /\ UNCHANGED <<db, client, view>>

Listed(t) ==
  LET corpora == doing[t].read
      corpus  == CurrentCorpus(corpora, client.corpus)
      held    == [view EXCEPT !.corpora = corpora, !.corpus = corpus] IN
  /\ At(t, "listed")
  /\ client' = [client EXCEPT !.corpus = corpus]
  /\ IF corpus = 0
       THEN view' = Drawn([held EXCEPT !.summary = 0, !.rows = NoRows]) /\ Ends(t, {"page"})
       ELSE view' = held /\ Goes(t, "summary", [corpus |-> corpus, asked |-> client.asked])
  /\ UNCHANGED db

\* Its element is gone: the list is assigned, the remembered corpus not found.
ListedTorn(t) ==
  /\ At(t, "listed") /\ doing[t].torn
  /\ view' = [view EXCEPT !.corpora = doing[t].read] /\ Breaks(t)
  /\ UNCHANGED <<db, client>>

\* The summary is of the corpus of then; the columns are asked of the page's
\* corpus of now, and of none if another reload found none meanwhile.
Summarised(t) ==
  LET asked == doing[t].read IN
  /\ At(t, "summary")
  /\ view' = [view EXCEPT !.summary = asked.corpus]
  /\ IF view.corpus = 0 THEN Breaks(t) ELSE Goes(t, "columns", [asked EXCEPT !.corpus = view.corpus])
  /\ UNCHANGED <<db, client>>

Columned(t) ==
  /\ At(t, "columns")
  /\ view' = Drawn([view EXCEPT !.rows = doing[t].read]) /\ Ends(t, {"page"})
  /\ UNCHANGED <<db, client>>

CensusStep(t) == Lists(t) \/ Listed(t) \/ ListedTorn(t) \/ Summarised(t) \/ Columned(t)

\* A corpus is frozen, or one that nothing cites is deleted, on another page.
CorporaChange == \E c \in Corpora :
  \/ c > Max(db.corpora \cup {0}) /\ Elsewhere([corpora |-> db.corpora \cup {c}])
  \/ c \in db.corpora /\ Elsewhere([corpora |-> db.corpora \ {c}])

CensusNext ==
  \/ \E t \in Turners : PickCorpus(t) \/ Refilter(t) \/ TurnPage(t)
  \/ \E t \in Tasks : CensusStep(t)
  \/ ToggleMenu \/ CorporaChange

CensusSpec == CensusInit /\ [][CensusNext]_tabVars
-----------------------------------------------------------------------------
CensusTypeOK ==
  /\ db.corpora \subseteq Corpora
  /\ client \in [corpus : Corpora \cup {0}, asked : Questions]
  /\ view.corpus \in Corpora \cup {0} /\ view.summary \in Corpora \cup {0}

\* Once no handler is under way and none broke off, the chip names the corpus
\* the client will find again, however the reloads overlapped (_current_corpus:
\* "remembered per client so a re-render cannot move the analyst").
CensusRemembers == Calm /\ ended # "broken" => view.drawn.corpus = client.corpus

\* After a reload that ran alone, all of the page is of the corpus in the chip
\* and of the filters, order and page in force (reload: "Re-read everything
\* this view shows").
CensusAgrees == Calm /\ ended = "lone" =>
  LET d == view.drawn IN
  /\ d.corpus = client.corpus /\ d.summary = d.corpus
  /\ d.corpus # 0 => d.rows = [corpus |-> d.corpus, asked |-> client.asked]

\* The export is of the table on screen (_export: "the file can never disagree
\* with the screen").
ExportIsTheTable == view.drawn.corpus # 0 =>
  [corpus |-> view.corpus, filter |-> client.asked.filter]
    = [corpus |-> view.drawn.rows.corpus, filter |-> view.drawn.rows.asked.filter]
=============================================================================
