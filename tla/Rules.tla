------------------------------- MODULE Rules -------------------------------
(***************************************************************************)
(* One call of a pure rule: the program is asked, and answers.  The inputs *)
(* are every small one of its kind.                                        *)
(***************************************************************************)
EXTENDS BoardTabs, TextRules, AnswerRules, DeliveryRules

CONSTANTS
  NRecords,  \* records of a scored feature
  NModels,   \* models compared
  Grid,      \* the points a proportion and its bounds lie on: 0 .. Grid
  MaxRows,   \* rows of a file
  Width,     \* fields of a row
  MaxWords,  \* words of a narrative
  MaxCells,  \* rows a derivation reads in a record
  MaxTable   \* rows of a table of a delivery

ASSUME RulesAssumption ==
  /\ NRecords \in Nat \ {0} /\ NModels \in Nat \ {0} /\ Grid \in Nat
  /\ MaxRows \in Nat /\ Width \in Nat \ {0} /\ MaxWords \in Nat
  /\ MaxCells \in Nat /\ MaxTable \in Nat

VARIABLES question, answer

ruleVars == <<question, answer>>

NoAnswer == [of |-> "none"]
-----------------------------------------------------------------------------
(* The questions.                                                          *)

Values == {Null, Blank, Unparsed, Written(0, FALSE), Written(0, TRUE), Written(2, FALSE)}

\* The first record's language is the first of the languages.
ScoreQuestion ==
  [of : {"scores"}, type : {"enum", "time"},
   records : {r \in [1 .. NRecords -> [value : Values, answer : Values, flag : {"yes", "no", "none"},
                                       language : Languages]] :
                r[1].language = CHOOSE l \in Languages : TRUE}]

Cells == {c \in [point : 0 .. Grid, low : 0 .. Grid, high : 0 .. Grid] : c.low <= c.point /\ c.point <= c.high}

RankQuestion == [of : {"ranks"}, cells : [1 .. NModels -> Cells]]

\* Two labelled features, on either side of the floor, and one without ground
\* truth; a run is not done, or its pass committed some of the features, in
\* order, and is perhaps repeated (by one run: which one makes no difference).
Score(point, low, high) == [point |-> point, low |-> low, high |-> high]
Scored == <<{Score(8, 6, 9), Score(6, 4, 7), Score(2, 1, 4)}, {Score(8, 6, 10), Score(3, 1, 5)}>>

RunStates(ns) ==
  {[done |-> FALSE, scoring |-> FALSE, scores |-> <<>>]} \cup
  [done : {TRUE}, scoring : BOOLEAN,
   scores : {Tabulated([f \in DOMAIN s |-> s[f] @@ [n |-> ns[f]]]) : s \in {<<>>} \cup {<<a>> : a \in Scored[1]} \cup (Scored[1] \X Scored[2])}]

AsksForBoards ==
  \E ns \in {1, 3} \X {1, 3} : \E first \in RunStates(ns), others \in [2 .. NModels -> {s \in RunStates(ns) : ~s.scoring}] :
    question = [of |-> "boards",
                features |-> <<[name |-> 2, kind |-> "labelled"], [name |-> 1, kind |-> "labelled"],
                               [name |-> 3, kind |-> "exploratory"]>>,
                runs |-> [r \in 1 .. NModels |-> IF r = 1 THEN first ELSE others[r]]]

FileRows ==
  [opens : {"anchor"}, fields : 1 .. Width, span : {1, 2}]
    \cup [opens : {"more"}, fields : {1}, span : {1}]
    \cup [opens : {"error", "blank"}, fields : {0}, span : {1}]

FileQuestion ==
  [of : {"recovers"}, kind : {"text", "table", "unknown"}, expected : {0, 2},
   rows : UNION {[1 .. n -> FileRows] : n \in 0 .. MaxRows}]

\* Four words: a name on both lists, a last name written with an umlaut and
\* without, a first name that is whitelisted; two words together are a last
\* name too.
Martin  == [stripped |-> "martin", spelt |-> "martin"]
Mueller == [stripped |-> "muller", spelt |-> "mueller"]
Muller  == [stripped |-> "muller", spelt |-> "muller"]
Rose    == [stripped |-> "rose", spelt |-> "rose"]

Lists == [firstnames |-> NameIndex(<<<<Martin>>, <<Rose>>>>),
          lastnames  |-> NameIndex(<<<<Martin>>, <<Mueller>>, <<Rose, Muller>>>>),
          whitelist  |-> NameIndex(<<<<Rose>>>>)]

\* The spans two regex rules can find: the first pairs of words, the second any.
Spans == {c \in [first : 1 .. MaxWords, last : 1 .. MaxWords, order : {1, 2}] :
            c.first <= c.last /\ (c.order = 1 => c.last = c.first + 1)}

ScrubQuestion ==
  [of : {"scrubs"}, words : [1 .. MaxWords -> {Martin, Mueller, Muller, Rose}],
   joined : SUBSET (1 .. MaxWords - 1), honorific : {{}, {1}},
   found : {s \in SUBSET Spans : Cardinality(s) <= 2}]

Found(q) == {[first |-> c.first, last |-> c.last, order |-> c.order,
              tag |-> IF c.order = 1 THEN "Plate" ELSE "Phone",
              value |-> Forms(SubSeq(q.words, c.first, c.last), "spelt")] : c \in q.found}

\* A gate misses one of its conditions at most; a model is measured up to
\* twice, perhaps under another digest or another version of the server.
OneGate(n) == {{}} \cup {{g} : g \in {x \in [n : {n}, band : {0}, serial : {0, 1}, parallel : {0, 1}, fast : BOOLEAN] :
                                        x.serial + x.parallel < IF x.fast THEN 2 ELSE 1}}

Gates == {a \cup b : a \in OneGate(2), b \in OneGate(3)}

PinQuestion ==
  [of : {"pins"}, mapped : 1 .. 3, measuring : BOOLEAN, version : {"this", "other", NoVersion},
   table : LET rows == [digest : {"this", "other"}, version : {"this", NoVersion}, gates : Gates]
           IN UNION {[1 .. n -> rows] : n \in 0 .. 2}]

UpTo(n, S) == UNION {[1 .. m -> S] : m \in 0 .. n}

\* Three codes, which a feature may order in part.
Codes == {"a", "b", "c"}

DeriveQuestion ==
  [of : {"derives"}, rows : UpTo(MaxCells, Codes \cup {Absent, EmptyCell}), codes : SUBSET Codes,
   order : {o \in UpTo(3, Codes) : \A j, k \in DOMAIN o : o[j] = o[k] => j = k}]

\* A JSON value of each type; two of its texts are codes of the list.
JsonValues ==
  {Untold} \cup [json : {"number", "boolean"}, text : {"a"}, padded : {FALSE}]
    \cup [json : {"string"}, text : {"a", "b", "z"}, padded : BOOLEAN]
    \cup [json : {"string"}, text : {NoText}, padded : {FALSE}]

ModelAnswers == [valid : BOOLEAN, value : JsonValues, evidence : BOOLEAN, present : BOOLEAN]

Feature(key, type) == [key |-> key, type |-> type, codes |-> IF type = "enum" THEN {"a", "b"} ELSE {}]

\* Two features; the model may answer for a third.
ParseQuestion ==
  [of : {"parses"}, features : {<<Feature("k1", type), Feature("k2", "enum")>> :
                                  type \in {"number", "boolean", "text"}},
   response : [envelope : {"features", "unreadable"}, answers : UNION {[K -> ModelAnswers] : K \in
                 {{}, {"k1"}, {"k2"}, {"k1", "k2"}}}]
                \cup [envelope : {"features"}, answers : [{"k2", "k3"} -> ModelAnswers]]]

\* A column of this corpus, two attributes of the current import; another
\* corpus maps the column, and a third key may be gone from the import.
Keyed(keys, S) == UNION {[K -> S] : K \in SUBSET keys}

SuggestQuestion ==
  [of : {"suggests"}, columns : [{"c1"} -> [values : SUBSET {1, 2, 3}, offered : BOOLEAN]],
   lists : Keyed({"l1", "l2"}, SUBSET {1, 2, 3}),
   copied : Keyed({"c1", "c2"}, {"l1", "l3"}), current : Keyed({"c1"}, {"l1", "l2", "l3"})]

\* Accidents in two files, objects in two, persons in one, and no narratives;
\* then accidents and narratives alone.
Referring(keys, parents, files) == UpTo(MaxTable, [key : keys, parent : parents \cup {Unset}, file : files])

\* The first row of a table may as well have the first key and file.
FirstIsFirst(rows, key) == rows # <<>> => rows[1].key = key /\ rows[1].file = 1

Accidents(declared, stories) ==
  {rows \in UpTo(MaxTable, [key : {"u1", "u2"}, file : {1, 2}, declared : declared, anonymised : stories]) :
     /\ FirstIsFirst(rows, "u1")
     /\ \A j, k \in DOMAIN rows : rows[j].declared = rows[k].declared}

FreezeQuestion ==
  [of : {"freezes"}, unfall : Accidents([objekt : {{}, {1}}, person : {{1}}], {Unset}),
   objekt : {rows \in Referring({"o1", "o2"}, {"u1", "u2"}, {1, 2}) : FirstIsFirst(rows, "o1")},
   person : {rows \in Referring({"p1", "p2"}, {"o1", "o2"}, {1}) : FirstIsFirst(rows, "p1")},
   text : {<<>>}, hasText : {FALSE}]
  \cup
  [of : {"freezes"}, unfall : Accidents([objekt : {{}}, person : {{}}], {"c", Unset}),
   objekt : {<<>>}, person : {<<>>},
   text : UpTo(MaxTable, [key : {"u1", "u2"}, story : {"a", "b", Unset}]), hasText : {TRUE}]

Asked ==
  \/ question \in ScoreQuestion
  \/ question \in RankQuestion
  \/ AsksForBoards
  \/ question \in FileQuestion
  \/ question \in ScrubQuestion
  \/ question \in PinQuestion
  \/ question \in DeriveQuestion
  \/ question \in ParseQuestion
  \/ question \in SuggestQuestion
  \/ question \in FreezeQuestion

Init == answer = NoAnswer /\ Asked
-----------------------------------------------------------------------------
Answers(a) == answer = NoAnswer /\ answer' = a /\ UNCHANGED question

Scores ==
  /\ question.of = "scores"
  /\ LET scores == ScoreFeature(question.records, question.type)
     IN Answers([rows |-> scores.rows, mismatches |-> scores.mismatches,
                 tabs |-> [floor \in 0 .. NRecords |-> [native \in BOOLEAN |->
                             PresenceTab(scores.rows, question.records, floor, native)]],
                 painted |-> PaintedPresence(PresenceTab(scores.rows, question.records, 0, TRUE))])

Ranks ==
  /\ question.of = "ranks"
  /\ Answers([marks |-> MarkTies(question.cells), ranks |-> RankModels(question.cells)])

\* The table, under every order and on every page, and the ranking, on a corpus
\* that is synthetic and on one that is not.
Shows ==
  /\ question.of = "boards"
  /\ LET rows == ExtractionRows(question)
     IN Answers([tables |-> [order \in Orders(question), descending \in BOOLEAN |->
                               [page \in {1, 2} |-> ExtractionTab(question, rows, order, descending, page)]],
                 page |-> LET view == ExtractionTab(question, rows, [by |-> "name"], FALSE, 1)
                          IN [painted |-> PaintedExtraction(view), sent |-> ExtractionResponse(question, view)],
                 ranking |-> [synthetic \in BOOLEAN |-> RankingTab(question, synthetic)],
                 board |-> [synthetic \in BOOLEAN |-> RankingBoard(question, RankingTab(question, synthetic), synthetic)],
                 shows |-> ShowsBoard(question)])

Recovers ==
  /\ question.of = "recovers"
  /\ Answers(AnalyseFile(question.rows, question.kind, question.expected))

Scrubs ==
  /\ question.of = "scrubs"
  /\ Answers([hits |-> Scrub(question, Lists, Found(question))])

Pins ==
  /\ question.of = "pins"
  /\ Answers(ParallelDecision(question.mapped, question.table, "this", question.version, question.measuring))

\* The filters a derivation may have, over the codes asked about.
FilterOf(q) == {[op |-> op, codes |-> q.codes] : op \in {"any", "is_empty", "filled", "in", "not_in"}}

Derives ==
  /\ question.of = "derives"
  /\ Answers([counts |-> [f \in FilterOf(question) |-> Evaluate([shape |-> "count", filter |-> f], question.rows)],
              anys   |-> [f \in FilterOf(question) |-> Evaluate([shape |-> "any", filter |-> f], question.rows)],
              max    |-> Evaluate([shape |-> "max", order |-> question.order], question.rows),
              min    |-> Evaluate([shape |-> "min", order |-> question.order], question.rows),
              distinct |-> Evaluate([shape |-> "distinct"], question.rows)])

Parses ==
  /\ question.of = "parses"
  /\ Answers(ParseOutput(question.response, question.features))

Suggests ==
  /\ question.of = "suggests"
  /\ Answers(SuggestMappings(question.columns, question.lists, question.copied, question.current))

Freezes ==
  /\ question.of = "freezes"
  /\ Answers(FreezeDelivery(question))

Next == Scores \/ Ranks \/ Shows \/ Recovers \/ Scrubs \/ Pins \/ Derives \/ Parses \/ Suggests \/ Freezes

Spec == Init /\ [][Next]_ruleVars
-----------------------------------------------------------------------------
(* Properties.                                                             *)

Answered(of) == question.of = of /\ answer # NoAnswer

HasValue(r) == r.value.kind \notin {"null", "blank"}

\* Every record with a value is counted once: as a hit, wrong or missing, in
\* the row of its language and in that of all languages, in the cross-tab if
\* it carries a flag, and among the mismatches exactly if it is wrong; a
\* feature without such a record has no row (score_feature: "n is the labelled
\* cases").
EveryLabelledCaseCounts ==
  Answered("scores") =>
    LET rows    == answer.rows
        labelled == {i \in DOMAIN question.records : HasValue(question.records[i])}
        Of(l)   == {i \in labelled : l \in {AllLanguages, question.records[i].language}} IN
    /\ DOMAIN rows = IF labelled = {} THEN {}
                     ELSE {AllLanguages} \cup {question.records[i].language : i \in labelled}
    /\ \A l \in DOMAIN rows :
         /\ rows[l].n = Cardinality(Of(l))
         /\ rows[l].hit + rows[l].wrong + rows[l].missing = rows[l].n
         /\ rows[l].flagged = Cardinality({i \in Of(l) : question.records[i].flag # "none"})
         /\ LET cross == rows[l].cross IN
            /\ rows[l].present = cross["hit"].yes + cross["wrong"].yes + cross["missing"].yes
            /\ rows[l].flagged = rows[l].present + cross["hit"].no + cross["wrong"].no + cross["missing"].no
         /\ rows[l].wrong = Cardinality(answer.mismatches \cap Of(l))
    /\ answer.mismatches \subseteq labelled

\* One best model, apart from every other, or several tied that overlap the
\* leader; and the ranking tells apart the same models: a model's rank is one
\* more than the models ranked before it, and the first rank is held by the
\* best or by the tied (rank_models: "a group shares the rank of its best").
TiesAndRanksAgree ==
  Answered("ranks") =>
    LET marks == answer.marks  ranks == answer.ranks  models == DOMAIN question.cells
        Marked(m) == {i \in models : marks[i] = m} IN
    /\ \/ Cardinality(Marked("best")) = 1 /\ Marked("tied") = {}
       \/ Marked("best") = {} /\ Cardinality(Marked("tied")) >= 2
    /\ \A i \in Marked("best") : \A j \in models \ {i} : ~Overlaps(question.cells[i], question.cells[j])
    /\ \A i \in models : ranks[i] = 1 + Cardinality({j \in models : ranks[j] < ranks[i]})
    /\ \A i \in models : ranks[i] = 1 <=> marks[i] # "none"

\* A feature's presence rates and its records agree: the list of the unwritten
\* names as many records as the cross-tab counts as absent; a rate that is shown
\* counts the cases of its language, or of all of them, that the model flags as
\* present; and a number that is shown is of as many cases as the floor asks
\* for, of flagged ones where only a flag can be wrong (aggregate_goal2: "a case
\* with no flag cannot contradict itself").  The page shows each rate beside the
\* numbers of goal 1, and no more contradictions than hits.
PresenceAddsUp ==
  Answered("scores") =>
    LET rows       == answer.rows
        Present(l) == {i \in DOMAIN question.records :
                         /\ HasValue(question.records[i]) /\ question.records[i].flag = "yes"
                         /\ l \in {AllLanguages, question.records[i].language}} IN
    /\ LET painted == answer.painted IN
       DOMAIN rows # {} =>
         /\ Len(painted.table.rates) = Cardinality(DOMAIN rows)
         /\ painted.cards.contradictions <= painted.table.goal1.recall.k
         /\ painted.records.total <= painted.table.goal1.recall.n
    /\ \A floor \in 0 .. NRecords, native \in BOOLEAN :
      LET tab   == answer.tabs[floor][native]
          rates == tab.rows.rates
          languages == DOMAIN rates \ {AllLanguages} IN
      IF DOMAIN rows = {} THEN tab.unwritten = {}
      ELSE
        /\ DOMAIN rates = DOMAIN rows
        /\ Cardinality(tab.unwritten) =
             IF native THEN tab.cross["hit"].no + tab.cross["wrong"].no + tab.cross["missing"].no ELSE 0
        /\ \A l \in languages : rates[AllLanguages].suppressed => rates[l].suppressed
        /\ \A l \in DOMAIN rates : ~rates[l].suppressed => rates[l].rate.k = Cardinality(Present(l))
        /\ ~tab.flags.suppressed => tab.flags.rate.k <= tab.flags.rate.n /\ tab.flags.rate.n >= floor
        /\ \A l \in languages : tab.languages[l].suppressed <=> rates[l].suppressed

\* A model's place in a ranking, by its macro.
PlaceOf(tab, row) ==
  1 + Cardinality({x \in ToSet(tab.rows) : \/ x.macro.point > row.macro.point
                                          \/ (x.macro.point = row.macro.point /\ x.run < row.run)})

\* The models a painted ranking points at.
Tints(board) ==
  IF board.painted.banner.says = "nothing" THEN {}
  ELSE {x.run : x \in {y \in ToSet(board.painted.rows) : y.tinted}}

\* Whatever the table is ordered by and however it is paged, each feature with a
\* score is in it once, the suppressed ones last.  The ranking is of the same
\* cells: a model's best, tied and worse are the marks of its column; what
\* separates the leaders is apart in the table; one model leads exactly if one
\* has the first rank; and a synthetic corpus changes what is said, not the
\* ranks (ranking.py: "if the two disagree, Ranking is wrong by construction").
\* The page tints the one that leads or several that are tied, and paints and
\* sends the same cells, a notice in place of none that has a number.
BoardsAgree ==
  Answered("boards") =>
    LET tables == answer.tables
        Rows(of) == FlattenSeq([page \in DOMAIN tables[of] |-> tables[of][page].features.items])
        table == Rows(<<[by |-> "name"], FALSE>>)
        Marked(r, marks) == Cardinality({k \in DOMAIN table :
          r \in DOMAIN table[k].cells /\ table[k].cells[r].kind = "metric" /\ table[k].cells[r].mark \in marks}) IN
    /\ \A of \in DOMAIN tables :
         LET rows == Rows(of) IN
         /\ Len(rows) = Len(table) /\ ToSet(rows) = ToSet(table)
         /\ \A j, k \in DOMAIN rows : j < k /\ rows[j].suppressed => rows[k].suppressed
         /\ of[1].by = "n" => \A j, k \in DOMAIN rows :
              j < k /\ ~rows[k].suppressed => IF of[2] THEN rows[j].n >= rows[k].n ELSE rows[j].n <= rows[k].n
    /\ \A synthetic \in BOOLEAN :
         LET tab == answer.ranking[synthetic] IN
         tab # KeyError =>
           /\ \A row \in ToSet(tab.rows) :
                /\ row.best = Marked(row.run, {"best"}) /\ row.tied = Marked(row.run, {"tied"})
                /\ row.best + row.tied + row.worse = Marked(row.run, {"best", "tied", "none"})
                /\ Marked(row.run, {"best", "tied", "none"}) <= tab.scored
           /\ \A x, y \in ToSet(tab.rows) : PlaceOf(tab, x) = 1 /\ PlaceOf(tab, y) = 2 =>
                LET shared == {k \in DOMAIN table : ~table[k].suppressed /\ {x.run, y.run} \subseteq DOMAIN table[k].cells}
                    apart  == {k \in shared : Apart(table[k].cells[x.run], table[k].cells[y.run])} IN
                /\ {s.feature : s \in ToSet(tab.separating)} = {table[k].feature : k \in apart}
                /\ /\ tab.verdict.says = "tied" /\ {tab.verdict.first, tab.verdict.second} = {x.run, y.run}
                   /\ Cardinality(shared) = tab.scored
                   => tab.verdict.tied = Cardinality(shared \ apart)
           /\ tab.verdict.says = "leads" => Cardinality({k \in DOMAIN tab.rows : tab.rows[k].rank = 1}) = 1
           /\ [k \in DOMAIN tab.rows |-> tab.rows[k].rank] = [k \in DOMAIN tab.rows |-> answer.ranking[FALSE].rows[k].rank]
           /\ LET tints == Tints(answer.board[synthetic]) IN
              CASE tab.verdict.says = "leads" -> tints = {tab.verdict.first}
                [] tab.verdict.says = "tied"  -> {tab.verdict.first, tab.verdict.second} \subseteq tints
                [] OTHER -> tints = {}
    /\ \A k \in DOMAIN answer.page.painted :
         LET row == answer.page.painted[k]  sent == answer.page.sent.items[k] IN
         /\ row.feature = sent.feature /\ "notice" \in DOMAIN row => \A r \in DOMAIN sent.cells : sent.cells[r].suppressed
         /\ "cells" \in DOMAIN row => \A r \in DOMAIN row.cells :
              IF r \in DOMAIN sent.cells THEN row.cells[r] = sent.cells[r] ELSE row.cells[r] = NoCell
    /\ answer.shows => answer.page.sent.scored

\* A page that shows the board shows the ranking too, when it is asked for
\* (results/__init__.py: "one model's pass can fail while the others succeed -
\* and then the board draws a column of blanks for it").
RankingIsShown ==
  Answered("boards") /\ answer.shows => answer.ranking[FALSE] # KeyError

\* What the banner says of the leaders, the card below it does not take back
\* (ranking_tab.py: "An empty list is a result, not a gap").
BannerIsUpheld ==
  Answered("boards") /\ answer.board[FALSE] # KeyError =>
    LET painted == answer.board[FALSE].painted IN
    painted.banner.says = "leads" => painted.difference.says # "neither leads"

\* Each line of a file is in exactly one record, kept or rejected, or is
\* reported as blank; the records and their lines keep the file's order, no
\* record swallows the key of another, a kept one has the header's fields, and
\* the counts add up (recover_rows: nothing is dropped silently).
NoLineIsLost ==
  Answered("recovers") =>
    LET records == answer.records
        Anchor(i) == question.rows[i].opens = "anchor" IN
    /\ \A i \in DOMAIN question.rows :
         i \in answer.dropped <=> \A k \in DOMAIN records : \A l \in DOMAIN records[k].lines : records[k].lines[l] # i
    /\ \A j, k \in DOMAIN records : \A l \in DOMAIN records[j].lines, m \in DOMAIN records[k].lines :
         /\ records[k].lines[m] \in DOMAIN question.rows
         /\ j < k \/ (j = k /\ l < m) => records[j].lines[l] < records[k].lines[m]
    /\ \A k \in answer.kept :
         LET r == records[k] IN
         /\ question.expected > 0 => r.fields = question.expected
         /\ question.kind # "unknown" =>
              Anchor(r.lines[1]) /\ \A l \in 2 .. Len(r.lines) : ~Anchor(r.lines[l])
    /\ answer.counts.ok + answer.counts.recovered = Cardinality(answer.kept)
    /\ answer.counts.ok + answer.counts.recovered + answer.counts.rejected = Len(records)

\* The replaced spans are disjoint and in order; under a tag the same value has
\* the same number, different values have different ones, given in order
\* without a gap; and what a rule found was replaced, or overlaps a span that
\* was and that starts no later (scrub.py: "Numbered per record", "Earliest
\* start wins").
ScrubIsConsistent ==
  Answered("scrubs") =>
    LET hits == answer.hits  at == DOMAIN hits
        Tagged(k) == {j \in at : hits[j].hit.tag = hits[k].hit.tag} IN
    /\ \A k \in at : hits[k].hit.first = k /\ \A j \in at : j < k => hits[j].hit.last < k
    /\ \A k \in at : \A j \in Tagged(k) :
         hits[j].number = hits[k].number <=> hits[j].hit.value = hits[k].hit.value
    /\ \A k \in at : hits[k].number > 1 =>
         \E j \in Tagged(k) : j < k /\ hits[j].number = hits[k].number - 1
    /\ \A c \in Found(question) : \E k \in at :
         Overlap(c, hits[k].hit) /\ hits[k].hit.first <= c.first

\* A launch that measures nothing runs calls in parallel only for a model whose
\* newest measurement under this digest was made on the version the server says
\* it runs and met all three conditions at that many calls or more ("The entry
\* applies only with a matching passing gate", "None matches nothing").
ParallelIsGated ==
  Answered("pins") /\ answer.n > 1 /\ ~question.measuring =>
    \E i \in DOMAIN question.table :
      LET row == question.table[i] IN
      /\ row.digest = "this" /\ row.version = question.version /\ row.version # NoVersion
      /\ \E g \in row.gates : /\ g.n >= question.mapped /\ g.fast
                              /\ g.parallel <= g.band /\ g.serial <= g.band
      /\ \A j \in DOMAIN question.table :
           j > i /\ question.table[j].digest = "this" => question.table[j].gates = {}

\* Every row is empty or filled there, and compared if it has the column; a
\* count of none is a number, an extreme of none no value; the highest and the
\* lowest code are seen, no seen code lies outside them, and they are one
\* exactly if one code is seen; a code outside the order raises, on both ends
\* (evaluate: "A count over zero rows is "0", not None").
DerivationsAgree ==
  Answered("derives") =>
    LET rows == question.rows  order == question.order
        n(op)   == answer.counts[[op |-> op, codes |-> question.codes]].n
        seen    == {rows[i] : i \in DOMAIN rows} \cap Codes
        Place(c) == CHOOSE k \in DOMAIN order : order[k] = c IN
    /\ n("any") = Len(rows) /\ n("is_empty") + n("filled") = Len(rows)
    /\ n("in") + n("not_in") = Cardinality({i \in DOMAIN rows : rows[i] # Absent})
    /\ \A f \in DOMAIN answer.counts : answer.anys[f].holds <=> answer.counts[f].n > 0
    /\ answer.distinct.n = 0 <=> n("filled") = 0
    /\ \A extreme \in {answer.max, answer.min} :
         /\ extreme = Raised <=> \E c \in seen : \A k \in DOMAIN order : order[k] # c
         /\ extreme = NoValue <=> n("filled") = 0
    /\ answer.max.kind = "code" =>
         /\ {answer.max.code, answer.min.code} \subseteq seen
         /\ \A c \in seen : Place(answer.min.code) <= Place(c) /\ Place(c) <= Place(answer.max.code)
         /\ answer.max.code = answer.min.code <=> answer.distinct.n = 1

\* A readable response gives one value for each feature, in order, and keeps
\* what the model wrote; a feature without a usable answer has an issue and no
\* value; what is stored without an issue is null or has evidence, is of its
\* type and, for a listed feature, a code of its list; a key nobody asked for
\* is reported (parse_output: "Never raises, never repairs").
EveryFeatureIsAnswered ==
  Answered("parses") =>
    LET told == question.response.answers  features == question.features  values == answer.values
        Faults(key) == {i \in answer.issues : i[1] = key} IN
    /\ answer.ok <=> question.response.envelope = "features"
    /\ answer.ok => Len(values) = Len(features)
    /\ \A k \in DOMAIN values :
         LET f == features[k]  v == values[k] IN
         /\ v.key = f.key
         /\ IF f.key \in DOMAIN told /\ told[f.key].valid
              THEN v.raw = told[f.key].value /\ v.present = told[f.key].present
              ELSE v.raw = Untold /\ ~v.present /\ Faults(f.key) # {}
         /\ Faults(f.key) = {} /\ v.raw # Untold =>
              /\ v.evidence
              /\ v.raw.json \in CASE f.type = "boolean" -> {"boolean"}
                                 [] f.type = "number" -> {"number", "string"}
                                 [] OTHER -> {"string"}
              /\ f.type = "enum" => v.raw.text \in f.codes /\ v.normalised = v.raw
    /\ answer.ok => \A key \in DOMAIN told :
         (\E k \in DOMAIN features : features[k].key = key) \/ <<key, "unknown_feature">> \in Faults(key)

\* One suggestion at most for a column, of an attribute there is and that it is
\* not mapped to; a guess covers every value, with fewer codes than any other
\* attribute that does, and is made only where nothing is copied; only a copy
\* onto an unmapped column is ticked beforehand; and every copy for a column
\* of this corpus is suggested, in place, or reported (suggest_mappings:
\* "never replaced by a guess, never dropped without a word").
SuggestionsAreSafe ==
  Answered("suggests") =>
    LET columns == question.columns  lists == question.lists
        copied == question.copied  current == question.current
        Mapped(c, key) == c \in DOMAIN current /\ current[c] = key IN
    /\ \A s, u \in answer.suggestions : s.column = u.column => s = u
    /\ \A s \in answer.suggestions :
         /\ s.key \in DOMAIN lists /\ ~Mapped(s.column, s.key) /\ columns[s.column].offered
         /\ s.source = "overlap" =>
              /\ s.column \notin DOMAIN copied
              /\ Coverage(columns[s.column].values, lists[s.key], lists[s.key]) = "ok"
              /\ \A l \in DOMAIN lists \ {s.key} : columns[s.column].values \subseteq lists[l] =>
                   Cardinality(lists[s.key]) < Cardinality(lists[l])
         /\ s.preselected => s.column \notin DOMAIN current /\ copied[s.column] = s.key
    /\ \A c \in DOMAIN copied \cap DOMAIN columns :
         Cardinality({s \in answer.suggestions : s.column = c /\ s.key = copied[c]})
           + Cardinality({u \in answer.unresolved : u.column = c})
           = IF Mapped(c, copied[c]) THEN 0 ELSE 1

\* In a delivery that may be frozen every accident is one record, every object
\* that names a parent is in the record of that parent and nowhere else, every
\* person whose object is in a record is on that object and nowhere else; the
\* census counts each of them once; and a record that has not the objects or the
\* persons it declares, or no narrative was delivered for, is reported
\* (validate_delivery).
EveryRowIsAttached ==
  Answered("freezes") /\ answer.frozen =>
    LET records == answer.records  census == answer.census
        objects == {j \in DOMAIN question.objekt : question.objekt[j].parent # Unset}
        persons == {k \in DOMAIN question.person :
                      \E j \in objects : question.person[k].parent = question.objekt[j].key}
        Reported(code, key) == Finding(code, "unfall", key) \in answer.report IN
    /\ Len(records) = Len(question.unfall)
    /\ \A i \in DOMAIN records : records[i].key = question.unfall[i].key
    /\ \A j \in objects : \E i \in DOMAIN records :
         /\ records[i].key = question.objekt[j].parent
         /\ j \in DOMAIN records[i].objekt /\ records[i].objekt[j].key = question.objekt[j].key
    /\ \A k \in persons : \E i \in DOMAIN records : \E j \in DOMAIN records[i].objekt :
         LET o == records[i].objekt[j] IN
         o.key = question.person[k].parent /\ k \in DOMAIN o.persons /\ o.persons[k] = question.person[k].key
    /\ \A t \in DOMAIN census :
         /\ census[t].populated = census[t].distinct
         /\ census[t].populated = CASE t = "unfall" -> Len(question.unfall)
                                    [] t = "objekt" -> Cardinality(objects) [] t = "person" -> Cardinality(persons)
    /\ \A i \in DOMAIN records :
         LET r == records[i]  declared == question.unfall[i].declared IN
         /\ Reported("COUNT_MISMATCH_OBJ", r.key) <=> ~(declared.objekt \subseteq {Cardinality(DOMAIN r.objekt)})
         /\ Reported("COUNT_MISMATCH_PERS", r.key) <=>
              ~(declared.person \subseteq {Cardinality(UNION {DOMAIN r.objekt[j].persons : j \in DOMAIN r.objekt})})
         /\ question.hasText =>
              (Reported("UNFALL_WITHOUT_TEXT", r.key) <=> r.key \notin RowKeys(question.text))

\* Every kept row of a delivery that may be frozen is in its corpus, or in a
\* finding that carries its key (rules.md: "Nothing is repaired or dropped
\* silently").
NothingIsDropped ==
  Answered("freezes") /\ answer.frozen =>
    LET objects == UNION {Range(r.objekt) : r \in Range(answer.records)}
        persons == UNION {Range(o.persons) : o \in objects}
        Reported(key) == \E f \in answer.report : f.key = key IN
    /\ \A row \in Range(question.objekt) : (\E o \in objects : o.key = row.key) \/ Reported(row.key)
    /\ \A row \in Range(question.person) : row.key \in persons \/ Reported(row.key)

\* Every narrative of a delivery that may be frozen is that of a record, or in a
\* finding (_narratives: "uniqueness is checked across the whole delivery
\* before this map is built").
NarrativesAreKept ==
  Answered("freezes") /\ answer.frozen =>
    \A row \in Range(question.text) :
      \/ \E r \in Range(answer.records) : r.key = row.key /\ r.text.story = row.story
      \/ \E f \in answer.report : f.key = row.key

\* A comparison of an empty cell fails, whichever it is (RecordProjection:
\* "every comparison is false for both").
BlanksCompareFalse ==
  Answered("derives") =>
    LET n(op) == answer.counts[[op |-> op, codes |-> question.codes]].n
    IN n("in") + n("not_in") = n("filled")
=============================================================================
