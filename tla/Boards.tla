------------------------------- MODULE Boards -------------------------------
(***************************************************************************)
(* What the boards of an evaluation say of its scores (ra2/services:       *)
(* results_service, ranking_service; ra2/domain: stats, ranking): the      *)
(* extraction table, the presence tab, the ranking and its verdict.        *)
(*                                                                         *)
(* An evaluation has its features, in order, and its runs, by id; a run    *)
(* has a score for each feature its pass committed.  A score is a point    *)
(* and its interval on a grid, over n labelled cases.                      *)
(***************************************************************************)
EXTENDS ScoreRules, SequencesExt, FiniteSetsExt

CONSTANTS
  Floor,     \* evaluation.min_cell_count
  Top,       \* the grid of the scores: 0 .. Top
  Scale,     \* the macros lie on a finer grid, 0 .. Scale * Top
  PageSize   \* rows of a page

ASSUME BoardsAssumption == Floor \in Nat /\ Top \in Nat /\ Scale \in Nat \ {0} /\ PageSize \in Nat \ {0}

Suppressed(n) == n < Floor

\* f, each of its values worked out once.
Tabulated(f) == f @@ <<>>

\* A cell is a number and its interval, or the reason there is none.
SuppressedCell(n) == [kind |-> "suppressed", n |-> n, floor |-> Floor]
MetricCell(score, mark) == [kind |-> "metric", score |-> score, mark |-> mark]

Cell(score, mark) == IF Suppressed(score.n) THEN SuppressedCell(score.n) ELSE MetricCell(score, mark)
-----------------------------------------------------------------------------
(* Tab 1.                                                                  *)

Runs(e) == DOMAIN e.runs
Stored(e, r) == e.runs[r].scores
ScoredBy(e, f) == {r \in Runs(e) : f \in DOMAIN Stored(e, r)}

\* Marks are computed over the cells that are not suppressed.
Comparable(e, f) == {r \in ScoredBy(e, f) : ~Suppressed(Stored(e, r)[f].n)}

Marks(e, f) ==
  LET marked == Comparable(e, f)
      marks  == Tabulated(MarkTies([r \in marked |-> Stored(e, r)[f]]))
  IN Tabulated([r \in Runs(e) |-> IF r \in marked THEN marks[r] ELSE "none"])

FeatureRow(e, f) ==
  LET scored == ScoredBy(e, f)
      n == Max({0} \cup {Stored(e, r)[f].n : r \in scored})
      marks == Marks(e, f)
  IN [feature |-> f, name |-> e.features[f].name, n |-> n,
      suppressed |-> scored # {} /\ Suppressed(n),
      cells |-> Tabulated([r \in scored |-> Cell(Stored(e, r)[f], marks[r])])]

\* What a row is ordered by: its name, its n, or the point of one run, which a
\* suppressed or a missing cell has as 0.
Orders(e) == [by : {"name", "n"}] \cup [by : {"run"}, run : Runs(e)]

IsNumeric(rows, order) ==
  order.by = "n" \/ (order.by = "run" /\ \E k \in DOMAIN rows : order.run \in DOMAIN rows[k].cells)

SortValue(row, order) ==
  IF order.by = "n" THEN row.n
  ELSE IF order.run \notin DOMAIN row.cells THEN 0
  ELSE LET cell == row.cells[order.run] IN IF cell.kind = "metric" THEN cell.score.point ELSE 0

\* Slip: the whole list is reversed.
RowBeforeReversed(row, other, order, numeric, descending) ==
  LET Before(a, b) ==
        IF a.suppressed # b.suppressed THEN b.suppressed
        ELSE IF numeric /\ SortValue(a, order) # SortValue(b, order) THEN SortValue(a, order) < SortValue(b, order)
        ELSE a.name < b.name
  IN IF descending THEN Before(other, row) ELSE Before(row, other)

\* By value, then by name; the suppressed rows last, whichever way.
RowBefore(row, other, order, numeric, descending) ==
  IF row.suppressed # other.suppressed THEN other.suppressed
  ELSE IF numeric /\ SortValue(row, order) # SortValue(other, order)
    THEN (SortValue(row, order) < SortValue(other, order)) # descending
  ELSE IF numeric THEN row.name < other.name
  ELSE (row.name < other.name) # descending

Sorted(rows, order, descending) ==
  LET numeric == IsNumeric(rows, order)
  IN SortSeq(rows, LAMBDA row, other : RowBefore(row, other, order, numeric, descending))

PageOf(rows, page) ==
  [items |-> SubSeq(rows, (page - 1) * PageSize + 1, Min({page * PageSize, Len(rows)})),
   total |-> Len(rows), page |-> page]

\* A feature without a score was never scoreable and has no row.
ExtractionRows(e) ==
  SelectSeq([f \in DOMAIN e.features |-> FeatureRow(e, f)],
            LAMBDA row : e.features[row.feature].kind = "labelled" /\ row.n > 0)

ExtractionTab(e, rows, order, descending, page) ==
  [models |-> Runs(e), features |-> PageOf(Sorted(rows, order, descending), page)]
-----------------------------------------------------------------------------
(* Tab 3, rebuilt from the same scores.                                    *)

CellsByModel(e) ==
  LET marks == Tabulated([f \in DOMAIN e.features |-> Marks(e, f)])
  IN Tabulated([r \in {m \in Runs(e) : Stored(e, m) # <<>>} |->
                  Tabulated([f \in DOMAIN Stored(e, r) |->
                    [score |-> Stored(e, r)[f], suppressed |-> Suppressed(Stored(e, r)[f].n), mark |-> marks[f][r]]])])

Measured(cells) == {f \in DOMAIN cells : ~cells[f].suppressed}

SumOver(S, Value(_)) == FoldSet(LAMBDA x, sum : sum + Value(x), 0, S)

\* The root of a sum of squares, rounded down.
Root(n) == CHOOSE r \in 0 .. n : r * r <= n /\ n < (r + 1) * (r + 1)

\* stats.macro and macro_interval: equal weights, the half-widths combined as
\* independent contributions.
Macro(cells) ==
  LET fs == Measured(cells)
      k  == Cardinality(fs)
      centres == SumOver(fs, LAMBDA f : cells[f].score.low + cells[f].score.high)
      spread  == Root(SumOver(fs, LAMBDA f : (cells[f].score.high - cells[f].score.low) ^ 2))
      Clamped(x) == Max({0, Min({Scale * Top, x})})
  IN [point |-> (Scale * SumOver(fs, LAMBDA f : cells[f].score.point)) \div k,
      low   |-> Clamped((Scale * (centres - spread)) \div (2 * k)),
      high  |-> Clamped((Scale * (centres + spread)) \div (2 * k))]

\* Slip: the suppressed features count as worse.
SummariseAll(cells) ==
  LET Marked(mark) == Cardinality({f \in DOMAIN cells : cells[f].mark = mark})
  IN [macro |-> Macro(cells), best |-> Marked("best"), tied |-> Marked("tied"), worse |-> Marked("none")]

\* _summarise: the macro, and how many of each mark.
Summarise(cells) ==
  LET Marked(mark) == Cardinality({f \in Measured(cells) : cells[f].mark = mark})
  IN [macro |-> Macro(cells), best |-> Marked("best"), tied |-> Marked("tied"), worse |-> Marked("none")]

Summaries(cells) ==
  Tabulated([r \in {m \in DOMAIN cells : Measured(cells[m]) # {}} |-> Summarise(cells[r])])

ModelRanks(s) == Tabulated(RankModels(Tabulated([r \in DOMAIN s |-> s[r].macro])))

\* The models in order of macro, then id.
ByMacro(s) ==
  SetToSortSeq(DOMAIN s, LAMBDA a, b : s[a].macro.point > s[b].macro.point
                                       \/ (s[a].macro.point = s[b].macro.point /\ a < b))

Apart(c, d) == ~Overlaps(c.score, d.score)

\* The features on which the two models with the highest macros are apart, the
\* largest difference first.
SeparatingFeatures(cells, s) ==
  LET order == ByMacro(s)
      Abs(x) == IF x < 0 THEN -x ELSE x
      first == cells[order[1]]
      second == cells[order[2]]
      Delta(f) == Abs(first[f].score.point - second[f].score.point)
      apart == {f \in Measured(first) \cap Measured(second) : Apart(first[f], second[f])}
      Row(f) == [feature |-> f, delta |-> Delta(f),
                 leader |-> IF first[f].score.point >= second[f].score.point THEN order[1] ELSE order[2],
                 points |-> [r \in {m \in DOMAIN cells : f \in Measured(cells[m])} |-> cells[r][f].score.point]]
  IN IF Len(order) < 2 THEN <<>>
     ELSE LET sorted == SetToSortSeq(apart, LAMBDA f, g : Delta(f) > Delta(g) \/ (Delta(f) = Delta(g) /\ f < g))
          IN [k \in DOMAIN sorted |-> Row(sorted[k])]

RowVerdict(rank, worse, synthetic) ==
  IF synthetic THEN [says |-> "synthetic"]
  ELSE IF rank = 1 THEN [says |-> "tied for best"] ELSE [says |-> "behind", on |-> worse]

RankingRows(s, synthetic) ==
  LET ranks == ModelRanks(s)
      order == SetToSortSeq(DOMAIN s, LAMBDA a, b : ranks[a] < ranks[b] \/ (ranks[a] = ranks[b] /\ a < b))
  IN [k \in DOMAIN order |->
        s[order[k]] @@ [run |-> order[k], rank |-> ranks[order[k]],
                        verdict |-> RowVerdict(ranks[order[k]], s[order[k]].worse, synthetic)]]

\* The sentence over the table: who leads, or which two are tied on how many.
ComposeVerdict(rows, separating, scored) ==
  LET leaders == SelectSeq(rows, LAMBDA row : row.rank = 1)
  IN IF Len(leaders) < 2 THEN [says |-> "leads", first |-> leaders[1].run]
     ELSE [says |-> "tied", first |-> leaders[1].run, second |-> leaders[2].run,
           tied |-> scored - Len(separating), scored |-> scored]

NothingScoreable(e) ==
  [rows |-> <<>>, separating |-> <<>>, verdict |-> [says |-> "nothing", floor |-> Floor],
   scored |-> 0, unscored |-> Len(e.features)]

KeyError == [raises |-> "KeyError"]

\* A run without a cell to rank is not in the ranking, and is looked up there.
RankingTab(e, synthetic) ==
  LET cells  == CellsByModel(e)
      scored == Max({0} \cup {Cardinality(Measured(cells[r])) : r \in DOMAIN cells})
      s      == Summaries(cells)
      rows   == RankingRows(s, synthetic)
      separating == SeparatingFeatures(cells, s)
  IN IF scored = 0 THEN NothingScoreable(e)
     ELSE IF DOMAIN s # Runs(e) THEN KeyError
     ELSE [rows |-> rows, separating |-> separating,
           verdict |-> IF synthetic THEN [says |-> "synthetic"] ELSE ComposeVerdict(rows, separating, scored),
           scored |-> scored, unscored |-> Len(e.features) - scored]
-----------------------------------------------------------------------------
(* Whether there is a board: scoring_status, and the four cards.           *)

StatusOf(e, r) ==
  LET labelled == {f \in DOMAIN e.features : e.features[f].kind = "labelled"}
  IN [labelled |-> Cardinality(labelled), scored |-> Cardinality(DOMAIN Stored(e, r)),
      finished |-> e.runs[r].done, running |-> e.runs[r].scoring]

IsScored(status) == status.labelled > 0 /\ status.scored >= status.labelled

ShowsBoard(e) ==
  /\ \E r \in Runs(e) : StatusOf(e, r).labelled > 0
  /\ ~\E r \in Runs(e) : StatusOf(e, r).running
  /\ \E r \in Runs(e) : IsScored(StatusOf(e, r))
-----------------------------------------------------------------------------
(* Tab 2, and the panels of tab 1, of one feature and one run: rows as     *)
(* ScoreFeature gives them, by language.  A rate is how many of how many.  *)

Rate(k, n) == [k |-> k, n |-> n]
RateCell(rate, n, floor) == IF n < floor THEN [suppressed |-> TRUE, n |-> n] ELSE [suppressed |-> FALSE, rate |-> rate]

\* Precision is of what the model claimed, recall of the labelled cases.
Precision(row) == Rate(row.hit, row.hit + row.wrong)
Recall(row)    == Rate(row.hit, row.n)
F1(row)        == Rate(2 * row.hit, row.hit + row.wrong + row.n)

Breakdown(rows) ==
  [precision |-> Precision(rows[AllLanguages]), recall |-> Recall(rows[AllLanguages]), f1 |-> F1(rows[AllLanguages]),
   counts |-> [o \in {"hit", "wrong", "missing"} |-> rows[AllLanguages][o]]]

ByLanguage(rows, floor) ==
  [l \in DOMAIN rows \ {AllLanguages} |-> RateCell(F1(rows[l]), rows[l].n, floor)]

Goal1Companion(row) == [f1 |-> F1(row), precision |-> Precision(row), recall |-> Recall(row)]

\* The presence rates never come without the numbers of goal 1.
PresenceRow(rows, floor) ==
  [rates |-> [l \in DOMAIN rows |-> RateCell(Rate(rows[l].present, rows[l].n), rows[l].n, floor)],
   goal1 |-> Goal1Companion(rows[AllLanguages])]

CrossTab(rows) == rows[AllLanguages].cross

\* Only a case with a flag can contradict itself.
FlagInconsistency(rows, floor) ==
  LET row == rows[AllLanguages] IN RateCell(Rate(row.cross["hit"].no, row.flagged), row.flagged, floor)

\* Slip: an empty cell is not written either.
RecordsNotWrittenAny(records, native) == {i \in DOMAIN records : native /\ records[i].flag = "no"}

\* The records whose column is filled and which the model flags as not in the
\* text; a derived value was never written.
RecordsNotWritten(records, native) ==
  {i \in DOMAIN records : native /\ records[i].flag = "no" /\ ~IsEmpty(records[i].value)}

PresenceTab(rows, records, floor, native) ==
  LET unwritten == RecordsNotWritten(records, native) IN
  IF rows = <<>> THEN [unwritten |-> unwritten]
  ELSE [unwritten |-> unwritten, rows |-> PresenceRow(rows, floor), cross |-> CrossTab(rows),
        flags |-> FlagInconsistency(rows, floor), breakdown |-> Breakdown(rows), languages |-> ByLanguage(rows, floor)]
=============================================================================
