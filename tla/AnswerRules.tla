---------------------------- MODULE AnswerRules ----------------------------
(***************************************************************************)
(* The pure rules around a feature: what a derived one is worth in a       *)
(* record (ra2/domain/derivation.py), what one response of a model says of *)
(* each (extraction.py), which code list its column is mapped to           *)
(* (codelist_suggest.py, called by codelist_service) and how much of the   *)
(* column that list covers (codelist_coverage.py).                         *)
(***************************************************************************)
EXTENDS Integers, Sequences, FiniteSets, SequencesExt

NoValue == [kind |-> "none"]
Raised  == [kind |-> "raised"]
-----------------------------------------------------------------------------
(* Derivations.  A row is what it holds in the column asked about: a code, *)
(* an empty cell, or no such column.                                       *)

Absent    == "absent"
EmptyCell == "empty"

IsBlank(cell) == cell \in {Absent, EmptyCell}

\* Slip: a row without the column differs from every code.
PassesAbsent(cell, f) ==
  CASE f.op = "any"      -> TRUE
    [] f.op = "is_empty" -> IsBlank(cell)
    [] f.op = "filled"   -> ~IsBlank(cell)
    [] f.op = "in"       -> cell \in f.codes
    [] f.op = "not_in"   -> cell \notin f.codes

\* _matches: "in" is EQ and IN, "not_in" NE and NOT_IN, "any" no filter.
Passes(cell, f) ==
  CASE f.op = "any"      -> TRUE
    [] f.op = "is_empty" -> IsBlank(cell)
    [] f.op = "filled"   -> ~IsBlank(cell)
    [] f.op = "in"       -> cell # Absent /\ cell \in f.codes
    [] f.op = "not_in"   -> cell # Absent /\ cell \notin f.codes

CountRows(rows, f) == Cardinality({i \in DOMAIN rows : Passes(rows[i], f)})

CodesIn(rows) == {rows[i] : i \in {j \in DOMAIN rows : ~IsBlank(rows[j])}}

\* The code that stands first in an order; one that the order lacks is a fault
\* of the configuration.
Extreme(rows, order) ==
  IF ~(CodesIn(rows) \subseteq Range(order)) THEN Raised
  ELSE IF CodesIn(rows) = {} THEN NoValue
  ELSE [kind |-> "code", code |-> order[Min({k \in DOMAIN order : order[k] \in CodesIn(rows)})]]

Counted(n) == [kind |-> "number", n |-> n]

Evaluate(spec, rows) ==
  CASE spec.shape = "count"    -> Counted(CountRows(rows, spec.filter))
    [] spec.shape = "any"      -> [kind |-> "truth", holds |-> CountRows(rows, spec.filter) > 0]
    [] spec.shape = "max"      -> Extreme(rows, Reverse(spec.order))
    [] spec.shape = "min"      -> Extreme(rows, spec.order)
    [] spec.shape = "distinct" -> Counted(Cardinality(CodesIn(rows)))
-----------------------------------------------------------------------------
(* parse_output.  A response is an envelope and, when that is readable, an *)
(* answer for some keys.  A JSON value is what type it has, its text, and  *)
(* whether that has blanks around it.                                      *)

NoText == "blank"

Untold == [json |-> "null", text |-> NoText, padded |-> FALSE]

\* _value_matches_type
OfType(value, type) ==
  \/ value.json = "null"
  \/ CASE type = "boolean" -> value.json = "boolean"
       [] type = "number"  -> value.json = "number" \/ (value.json = "string" /\ value.text # NoText)
       [] OTHER            -> value.json = "string"

Unanswered(f) == [key |-> f.key, raw |-> Untold, normalised |-> Untold, present |-> FALSE, evidence |-> FALSE]

\* Slip: a value outside its code list is not kept.
ReadAnswerCoerced(f, a) ==
  LET kept == IF f.type = "enum" /\ a.value.text \notin f.codes THEN Untold ELSE a.value IN
  [key |-> f.key, raw |-> kept, normalised |-> [kept EXCEPT !.padded = FALSE],
   present |-> a.present, evidence |-> a.evidence]

ReadAnswer(f, a) ==
  [key |-> f.key, raw |-> a.value, normalised |-> [a.value EXCEPT !.padded = FALSE],
   present |-> a.present, evidence |-> a.evidence]

\* A listed code is compared as it was written.
OutsideList(f, a) ==
  f.type = "enum" /\ a.value.json = "string" /\ (a.value.padded \/ a.value.text \notin f.codes)

AnswerIssues(f, a) ==
  (IF a.value.json # "null" /\ ~a.evidence THEN {"missing_evidence"} ELSE {})
    \cup (IF ~OfType(a.value, f.type) THEN {"value_type_mismatch"}
          ELSE IF OutsideList(f, a) THEN {"enum_code_not_in_codelist"} ELSE {})

\* The values, one for each feature in its order, and the issues.
ParseOutput(response, features) ==
  LET told == DOMAIN response.answers
      Usable(f) == f.key \in told /\ response.answers[f.key].valid
      Value(f)  == IF Usable(f) THEN ReadAnswer(f, response.answers[f.key]) ELSE Unanswered(f)
      Issues(f) == IF f.key \notin told THEN {"missing_feature"}
                   ELSE IF ~response.answers[f.key].valid THEN {"value_type_mismatch"}
                   ELSE AnswerIssues(f, response.answers[f.key])
      unknown == told \ {features[k].key : k \in DOMAIN features}
  IN IF response.envelope # "features"
       THEN [ok |-> FALSE, values |-> <<>>, issues |-> {}]
       ELSE [ok |-> TRUE, values |-> [k \in DOMAIN features |-> Value(features[k])],
             issues |-> (UNION {{<<features[k].key, i>> : i \in Issues(features[k])} : k \in DOMAIN features})
                          \cup {<<key, "unknown_feature">> : key \in unknown}]
-----------------------------------------------------------------------------
(* suggest_mappings, and what the service makes of it.  `values` are the   *)
(* distinct values of a column, `lists` the codes of each attribute of the *)
(* current import, `copied` the keys another corpus maps its columns to.   *)

MinOverlapDistinct == 2

\* |values \cap codes| / |values \cup codes| of p is below that of q.
Jaccard(values, codes) == [part |-> Cardinality(values \cap codes), whole |-> Cardinality(values \cup codes)]
Below(p, q) == p.part * q.whole < q.part * p.whole

\* Slip: of attributes that fit alike, one is taken.
ClearWinnerAny(values, lists) ==
  {k \in DOMAIN lists : values \subseteq lists[k] /\
     \A l \in DOMAIN lists : values \subseteq lists[l] => ~Below(Jaccard(values, lists[k]), Jaccard(values, lists[l]))}

\* The attribute that covers the column and is ahead of every other that does.
ClearWinner(values, lists) ==
  {k \in DOMAIN lists : values \subseteq lists[k] /\
     \A l \in DOMAIN lists \ {k} : values \subseteq lists[l] => Below(Jaccard(values, lists[l]), Jaccard(values, lists[k]))}

\* The attribute proposed for an offered column, and where it comes from.
Proposed(column, values, lists, copied) ==
  IF values = {} THEN {}
  ELSE IF column \in DOMAIN copied
    THEN {[key |-> k, source |-> "copied"] : k \in {copied[column]} \cap DOMAIN lists}
  ELSE IF Cardinality(values) < MinOverlapDistinct THEN {}
  ELSE {[key |-> k, source |-> "overlap"] : k \in ClearWinner(values, lists)}

\* `columns`: those of the corpus, each with its values and whether Automap can
\* speak of it (an enum, in one table); `current`: its mappings.
SuggestMappings(columns, lists, copied, current) ==
  LET Mapped(c, key) == c \in DOMAIN current /\ current[c] = key
      Found(c) == IF columns[c].offered THEN Proposed(c, columns[c].values, lists, copied) ELSE {} IN
  [suggestions |-> UNION {{[column |-> c, key |-> p.key, source |-> p.source,
                            preselected |-> p.source = "copied" /\ c \notin DOMAIN current] :
                              p \in {q \in Found(c) : ~Mapped(c, q.key)}} : c \in DOMAIN columns},
   unresolved  |-> {[column |-> c, reason |-> IF copied[c] \in DOMAIN lists THEN "column_not_offered"
                                             ELSE "key_not_in_import"] :
                      c \in {d \in DOMAIN copied \cap DOMAIN columns :
                               Found(d) = {} /\ ~Mapped(d, copied[d])}}]

\* compute_coverage, for a column mapped to `codes`, of which `labelled` have a
\* label in the language.
Coverage(values, codes, labelled) ==
  IF codes = {} THEN "missing" ELSE IF values \subseteq labelled THEN "ok" ELSE "partial"
=============================================================================
