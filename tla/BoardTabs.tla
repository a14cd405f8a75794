----------------------------- MODULE BoardTabs -----------------------------
(***************************************************************************)
(* The boards as they leave the services (ra2/ui/views/results:            *)
(* extraction_tab, presence_tab, ranking_tab, chrome; ra2/api/v1: results, *)
(* presence, ranking): what a page paints of a view, and what a response   *)
(* carries.                                                                *)
(***************************************************************************)
EXTENDS Boards

\* Under every tab's name: what it was run on.
Descriptor(e, synthetic) == [models |-> Cardinality(Runs(e)), floor |-> Floor, synthetic |-> synthetic]
-----------------------------------------------------------------------------
CellResponse(cell) ==
  IF cell.kind = "suppressed" THEN [suppressed |-> TRUE, n |-> cell.n, floor |-> cell.floor]
  ELSE [suppressed |-> FALSE, n |-> cell.score.n, value |-> cell.score.point, mark |-> cell.mark]

FeatureResponse(row) ==
  [feature |-> row.feature, n |-> row.n, suppressed |-> row.suppressed,
   cells |-> [r \in DOMAIN row.cells |-> CellResponse(row.cells[r])]]

AnyScored(e) == \E r \in Runs(e) : IsScored(StatusOf(e, r))

ExtractionResponse(e, view) ==
  [scored |-> AnyScored(e), total |-> view.features.total,
   items |-> [k \in DOMAIN view.features.items |-> FeatureResponse(view.features.items[k])]]

RankingResponse(e, view, d) ==
  [scored |-> AnyScored(e), descriptor |-> d, rows |-> view.rows, separating |-> view.separating,
   verdict |-> view.verdict, counts |-> <<view.scored, view.unscored>>]
-----------------------------------------------------------------------------
(* The extraction table: one notice in place of a suppressed row's cells,  *)
(* a blank for a model without one, and a link to the mismatches of the    *)
(* leftmost model.                                                         *)

NoCell == [blank |-> TRUE]

PaintedCells(row, models) ==
  [r \in models |-> IF r \in DOMAIN row.cells THEN CellResponse(row.cells[r]) ELSE NoCell]

MismatchLink(row, models) == [run |-> Min(models), feature |-> row.feature]

PaintedRow(row, models) ==
  [feature |-> row.feature, n |-> row.n, link |-> MismatchLink(row, models)] @@
  IF row.suppressed THEN [notice |-> Floor] ELSE [cells |-> PaintedCells(row, models)]

PaintedExtraction(view) ==
  [k \in DOMAIN view.features.items |-> PaintedRow(view.features.items[k], view.models)]
-----------------------------------------------------------------------------
(* The ranking: the banner, the table, and where the leaders differ.  On   *)
(* invented data no row is tinted.                                         *)

Tinted(row, d) == ~d.synthetic /\ row.rank = 1

PaintedRanks(view, d) ==
  [k \in DOMAIN view.rows |->
     [run |-> view.rows[k].run, rank |-> view.rows[k].rank, pill |-> view.rows[k].verdict,
      marks |-> <<view.rows[k].best, view.rows[k].tied, view.rows[k].worse>>, tinted |-> Tinted(view.rows[k], d)]]

\* Without a feature on which they differ, the card says that neither leads.
Difference(view) ==
  IF view.separating = <<>> THEN [says |-> "neither leads"]
  ELSE [says |-> "these differ", count |-> Len(view.separating), of |-> view.scored,
        leads |-> [k \in DOMAIN view.separating |-> view.separating[k].leader]]

PaintedRanking(view, d) ==
  [banner |-> view.verdict] @@
  IF view.rows = <<>> THEN <<>>
  ELSE [rows |-> PaintedRanks(view, d), difference |-> Difference(view)]

RankingBoard(e, view, synthetic) ==
  LET d == Descriptor(e, synthetic)
  IN IF view = KeyError THEN KeyError
     ELSE [painted |-> PaintedRanking(view, d), sent |-> RankingResponse(e, view, d)]
-----------------------------------------------------------------------------
(* The presence tab of one feature: a column for all languages and one for *)
(* each, the numbers of goal 1 beside them, the cards and the records.     *)

RateColumns(tab) == <<AllLanguages>> \o SetToSeq(DOMAIN tab.rows.rates \ {AllLanguages})

PaintedRates(tab) ==
  LET columns == RateColumns(tab)
  IN [rates |-> [k \in DOMAIN columns |-> tab.rows.rates[columns[k]]], goal1 |-> tab.rows.goal1]

PaintedCards(tab) == [contradictions |-> tab.cross["hit"].no, flags |-> tab.flags]

PaintedRecords(tab) == [total |-> Cardinality(tab.unwritten), items |-> tab.unwritten]

PaintedPresence(tab) ==
  IF "rows" \in DOMAIN tab
    THEN [records |-> PaintedRecords(tab), table |-> PaintedRates(tab), cards |-> PaintedCards(tab)]
    ELSE [records |-> PaintedRecords(tab)]
=============================================================================
