--------------------------- MODULE CodelistsPage ---------------------------
(***************************************************************************)
(* The Codelists page (ui/views/codelists_view.py): a corpus chip, the     *)
(* enum columns of that corpus in one language, a filter by table, and     *)
(* what maps a column to a code list: a click, a set of proposals, an      *)
(* import.  A corpus is the number of its import; corpus c has enum        *)
(* columns in the tables 1..c.                                             *)
(***************************************************************************)
EXTENDS Tab

Corpora   == 1..2
Languages == 1..2

NoColumns == [corpus |-> 0, language |-> 1]

\* _tables: what the table chip offers.
TablesOf(columns) == 1..columns.corpus

CodelistsInit ==
  /\ db \in [corpora : {{}, {1}, {1, 2}}]
  /\ client = [corpus |-> 0, language |-> 1, table |-> 0, selected |-> FALSE]
  /\ view = [corpora |-> {}, corpus |-> 0, columns |-> NoColumns, proposals |-> 0,
             drawn |-> [corpora |-> {}, corpus |-> 0, columns |-> NoColumns]]
  /\ Opens("lists")

Drawn(v) == [v EXCEPT !.drawn = [corpora |-> v.corpora, corpus |-> v.corpus, columns |-> v.columns]]

\* A mapping names the corpus it is for and the one whose columns it was chosen from.
Mapping(into, of) == [into |-> into, of |-> of]
-----------------------------------------------------------------------------
(* What the user does.                                                     *)

\* _pick_corpus, _pick_language and _pick_status, _pick_table
Picks(t, now) ==
  /\ view.drawn.corpora # {}
  /\ Begins(t, "lists", {})
  /\ client' = now
  /\ UNCHANGED <<db, view>>

PickCorpus(t)   == \E c \in view.drawn.corpora : Picks(t, [client EXCEPT !.corpus = c, !.selected = FALSE])
PickLanguage(t) == \E l \in Languages : Picks(t, [client EXCEPT !.language = l])

\* Handlers without an await: a table, a column, a menu, the search field.
Shows(now) ==
  /\ OneTurn
  /\ client' = now
  /\ view' = Drawn(view) /\ Redraws({"page"})
  /\ UNCHANGED <<db, ended>>

PickTable    == \E k \in TablesOf(view.drawn.columns) \cup {0} : Shows([client EXCEPT !.table = k])
SelectColumn == view.drawn.columns.corpus # 0 /\ Shows([client EXCEPT !.selected = TRUE])

\* _pick_attribute: the selected column, looked up in the columns held, is
\* mapped, or unmapped, in the corpus held.
PickAttribute(t) ==
  /\ client.selected /\ view.columns.corpus # 0 /\ view.corpus # 0
  /\ Begins(t, "mapping", Mapping(view.corpus, view.columns.corpus))
  /\ UNCHANGED <<db, client, view>>

\* _open_automap; its dialog hangs off the root of the page.
OpenAutomap(t) ==
  /\ view.corpus # 0
  /\ Begins(t, "proposing", view.corpus)
  /\ UNCHANGED <<db, client, view>>

ApplyAutomap(t) ==
  /\ view.proposals # 0 /\ view.corpus # 0
  /\ BeginsIn("root", t, "applying", Mapping(view.corpus, view.proposals))
  /\ UNCHANGED <<db, client, view>>

Import(t) ==
  /\ ~At("build", "lists")
  /\ BeginsIn("root", t, "importing", {})
  /\ UNCHANGED <<db, client, view>>
-----------------------------------------------------------------------------
(* The handlers.                                                           *)

Proposed(t) ==
  /\ At(t, "proposing")
  /\ \/ view' = [view EXCEPT !.proposals = doing[t].read]
     \/ UNCHANGED view
  /\ Refused(t)
  /\ UNCHANGED <<db, client>>

\* The service writes one mapping, several or a generation of code lists, all
\* or nothing; what the columns then say of them is left out.
Writes(t) ==
  /\ doing[t].pc \in {"mapping", "applying", "importing"}
  /\ Goes(t, IF At(t, "mapping") THEN "mapped" ELSE "lists", {})
  /\ UNCHANGED <<db, client, view>>

WriteRefused(t) ==
  /\ doing[t].pc \in {"mapping", "applying", "importing"}
  /\ IF At(t, "mapping") THEN view' = Drawn(view) /\ Draws(t, {"page"}) ELSE Refused(t) /\ UNCHANGED view
  /\ UNCHANGED <<db, client>>

\* _select_only: the column may have moved between groups.
Mapped(t) ==
  /\ At(t, "mapped")
  /\ client' = [client EXCEPT !.selected = TRUE]
  /\ Goes(t, "lists", {})
  /\ UNCHANGED <<db, view>>
-----------------------------------------------------------------------------
(* reload                                                                  *)

Lists(t) == At(t, "lists") /\ Goes(t, "listed", db.corpora) /\ UNCHANGED <<db, client, view>>

Listed(t) ==
  LET corpus == CurrentCorpus(doing[t].read, client.corpus) IN
  /\ At(t, "listed")
  /\ client' = [client EXCEPT !.corpus = corpus]
  /\ view' = [view EXCEPT !.corpora = doing[t].read, !.corpus = corpus]
  /\ Goes(t, "attributes", {})
  /\ UNCHANGED db

\* Slip: the table stays whatever the columns are.
ShownUnchecked(t, columns) ==
  /\ view' = Drawn([view EXCEPT !.columns = columns])
  /\ Ends(t, {"page"})
  /\ UNCHANGED <<db, client>>

\* The columns are those of a corpus; a table they are not in is let go.
Shown(t, columns) ==
  /\ view' = Drawn([view EXCEPT !.columns = columns])
  /\ client' = [client EXCEPT !.table = IF @ \in TablesOf(columns) THEN @ ELSE 0]
  /\ Ends(t, {"page"})
  /\ UNCHANGED db

\* The code lists are there; the columns are asked for, of the corpus of now.
Attributed(t) ==
  /\ At(t, "attributes")
  /\ IF view.corpus = 0 THEN Shown(t, NoColumns)
     ELSE /\ Goes(t, "columns", [corpus |-> view.corpus, language |-> client.language])
          /\ UNCHANGED <<db, client, view>>

Columned(t) == At(t, "columns") /\ Shown(t, doing[t].read)

\* Each of these needs the client's storage; what it is given first it keeps.
StorageGone(t) ==
  /\ doing[t].pc \in {"mapped", "listed", "attributes", "columns"} /\ doing[t].torn
  /\ Breaks(t)
  /\ view' = CASE At(t, "listed")  -> [view EXCEPT !.corpora = doing[t].read]
               [] At(t, "columns") -> [view EXCEPT !.columns = doing[t].read]
               [] OTHER -> view
  /\ UNCHANGED <<db, client>>

CodelistsStep(t) ==
  \/ Proposed(t) \/ Writes(t) \/ WriteRefused(t) \/ Mapped(t)
  \/ Lists(t) \/ Listed(t) \/ Attributed(t) \/ Columned(t) \/ StorageGone(t)

\* A corpus is frozen, or one that nothing cites is deleted, on another page.
CorporaChange == \E c \in Corpora :
  \/ c > Max(db.corpora \cup {0}) /\ Elsewhere([corpora |-> db.corpora \cup {c}])
  \/ c \in db.corpora /\ Elsewhere([corpora |-> db.corpora \ {c}])

CodelistsNext ==
  \/ \E t \in Turners : PickCorpus(t) \/ PickLanguage(t) \/ PickAttribute(t)
                        \/ OpenAutomap(t) \/ ApplyAutomap(t) \/ Import(t)
  \/ \E t \in Tasks : CodelistsStep(t)
  \/ PickTable \/ SelectColumn \/ CorporaChange

CodelistsSpec == CodelistsInit /\ [][CodelistsNext]_tabVars
-----------------------------------------------------------------------------
CodelistsTypeOK ==
  /\ client \in [corpus : Corpora \cup {0}, language : Languages, table : 0..2, selected : BOOLEAN]
  /\ view.corpus \in Corpora \cup {0} /\ view.proposals \in Corpora \cup {0}

\* Once no handler is under way and none broke off, the corpus chip and the
\* table chip name what the client will find again and what the menu offers,
\* however the reloads overlapped (reload: "would leave a chip naming an option
\* its menu does not offer").
CodelistsRemember == Calm /\ ended # "broken" =>
  /\ view.drawn.corpus = client.corpus
  /\ client.table \in TablesOf(view.drawn.columns) \cup {0}

\* After a reload that ran alone, the columns are those of the corpus in the
\* chip, in the language in force (_pick_language: "every row's status can
\* change").
CodelistsAgree == Calm /\ ended = "lone" =>
  LET d == view.drawn IN
  /\ d.corpus = client.corpus
  /\ d.corpus # 0 => d.columns = [corpus |-> d.corpus, language |-> client.language]

\* A mapping goes into the corpus whose columns it was chosen from
\* (_pick_corpus: "A column name is only meaningful inside one corpus").
MappingsAreAsShown == \A t \in Tasks :
  doing[t].pc \in {"mapping", "applying"} => doing[t].read.into = doing[t].read.of
=============================================================================
