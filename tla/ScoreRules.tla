----------------------------- MODULE ScoreRules -----------------------------
(***************************************************************************)
(* The pure rules of scoring (ra2/domain): whether a record's value and a  *)
(* model's agree, what that makes of the record, how a feature's records   *)
(* add up, which models are told apart, and how many parallel calls a      *)
(* launch pins.                                                            *)
(*                                                                         *)
(* A value is a number and the way it is written; proportions and their    *)
(* intervals are points of a small grid.                                   *)
(***************************************************************************)
EXTENDS Integers, Sequences, FiniteSets, TLC

CONSTANTS
  Tolerance,   \* the TIME rule's tolerance
  Languages    \* of the records

AllLanguages == "*"
-----------------------------------------------------------------------------
(* matching.py: normalise both sides, then equality.                       *)

Null     == [kind |-> "null",  num |-> 0, dressed |-> FALSE]
Blank    == [kind |-> "blank", num |-> 0, dressed |-> FALSE]
Unparsed == [kind |-> "text",  num |-> 0, dressed |-> FALSE]
Written(n, dressed) == [kind |-> "value", num |-> n, dressed |-> dressed]

IsEmpty(v) == v.kind \in {"null", "blank"}

\* Another way to write a value: a separator, a letter's case, a date without
\* its dashes.  A code of an enum is compared as it stands.
Normalise(v, type) == IF type = "enum" THEN v ELSE [v EXCEPT !.dressed = FALSE]

Matches(r, m, type) ==
  LET left == Normalise(r, type) right == Normalise(m, type) IN
  /\ ~IsEmpty(r) /\ ~IsEmpty(m)
  /\ IF type = "time" /\ left.kind = "value" /\ right.kind = "value"
       THEN left.num - right.num \in -Tolerance .. Tolerance
       ELSE left = right
-----------------------------------------------------------------------------
(* scoring.py, and the pass over one feature (scoring_service).            *)

\* Slip: a record with no value counts as one the model missed.
ClassifyEmptyAsMissing(r, m, type) ==
  IF IsEmpty(r) \/ IsEmpty(m) THEN "missing" ELSE IF Matches(r, m, type) THEN "hit" ELSE "wrong"

\* "none": not a labelled case.
Classify(r, m, type) ==
  IF IsEmpty(r) THEN "none"
  ELSE IF IsEmpty(m) THEN "missing"
  ELSE IF Matches(r, m, type) THEN "hit" ELSE "wrong"

\* The labelled cases of a feature.
Cases(records, type) ==
  {[id |-> i, language |-> records[i].language, flag |-> records[i].flag,
    outcome |-> Classify(records[i].value, records[i].answer, type)] :
     i \in {j \in DOMAIN records : Classify(records[j].value, records[j].answer, type) # "none"}}

Tally(cases, outcome, flag) == Cardinality({c \in cases : c.outcome = outcome /\ c.flag = flag})

Goal1(cases) ==
  LET Of(outcome) == Cardinality({c \in cases : c.outcome = outcome})
  IN [n |-> Cardinality(cases), hit |-> Of("hit"), wrong |-> Of("wrong"), missing |-> Of("missing")]

\* The cross-tab of outcome and presence flag; a case without a flag is in no cell.
Goal2(cases) ==
  [present |-> Cardinality({c \in cases : c.flag = "yes"}),
   flagged |-> Cardinality({c \in cases : c.flag # "none"}),
   cross   |-> [o \in {"hit", "wrong", "missing"} |->
                  [yes |-> Tally(cases, o, "yes"), no |-> Tally(cases, o, "no")]]]

\* _per_language: all of the cases, then those of each language that has some.
PerLanguage(cases) ==
  [l \in {AllLanguages} \cup {c.language : c \in cases} |->
     LET own   == {c \in cases : l \in {AllLanguages, c.language}}
         goal1 == Goal1(own)
         goal2 == Goal2(own) IN
     [n |-> goal1.n, hit |-> goal1.hit, wrong |-> goal1.wrong, missing |-> goal1.missing,
      present |-> goal2.present, flagged |-> goal2.flagged, cross |-> goal2.cross]]

\* No row is written for a feature without a labelled case; every wrong case
\* is a mismatch.
ScoreFeature(records, type) ==
  LET cases == Cases(records, type) IN
  [rows |-> IF cases = {} THEN <<>> ELSE PerLanguage(cases),
   mismatches |-> {c.id : c \in {d \in cases : d.outcome = "wrong"}}]
-----------------------------------------------------------------------------
(* stats.mark_ties and ranking.rank_models.  A cell is a model's point and *)
(* its interval; a ranking is over the models' macros, in order of macro.  *)

Overlaps(c, d) == c.low <= d.high /\ d.low <= c.high

\* max over the indices: the first of the highest.
Leader(cells) ==
  CHOOSE i \in DOMAIN cells :
    \A j \in DOMAIN cells : cells[j].point < cells[i].point \/ (cells[j].point = cells[i].point /\ i <= j)

\* Slip: whoever overlaps the leader ties, the leader stays the best.
MarkTiesLeaderBest(cells) ==
  [i \in DOMAIN cells |->
     IF i = Leader(cells) THEN "best"
     ELSE IF Overlaps(cells[i], cells[Leader(cells)]) THEN "tied" ELSE "none"]

MarkTies(cells) ==
  LET leader == Leader(cells)
      tied   == {i \in DOMAIN cells : Overlaps(cells[i], cells[leader])} IN
  [i \in DOMAIN cells |->
     IF i \notin tied \cup {leader} THEN "none" ELSE IF tied \subseteq {leader} THEN "best" ELSE "tied"]

\* The models still to be ranked give up the ones that overlap the best of
\* them; rank[k] holds the ranks given after k groups, 0 for none yet.
RankModels(cells) ==
  LET Unranked(rank) == {i \in DOMAIN cells : rank[i] = 0}
      Best(rank) == CHOOSE i \in Unranked(rank) : \A j \in Unranked(rank) :
                      cells[j].point < cells[i].point \/ (cells[j].point = cells[i].point /\ i <= j)
      Group(rank) == {i \in Unranked(rank) : Overlaps(cells[i], cells[Best(rank)])}
      ranks[k \in 0 .. Cardinality(DOMAIN cells)] ==
        IF k = 0 THEN [i \in DOMAIN cells |-> 0]
        ELSE IF Unranked(ranks[k - 1]) = {} THEN ranks[k - 1]
        ELSE [i \in DOMAIN cells |->
                IF i \in Group(ranks[k - 1]) \cup {Best(ranks[k - 1])}
                  THEN Cardinality(DOMAIN cells \ Unranked(ranks[k - 1])) + 1
                  ELSE ranks[k - 1][i]]
  IN ranks[Cardinality(DOMAIN cells)]
-----------------------------------------------------------------------------
(* qualification.py, and the launch that asks it.  A gate is what was      *)
(* measured at one N: how far two serial passes differ, how far the serial *)
(* pass on N slots and the parallel one differ from the first, and whether *)
(* the parallel one was fast enough.                                       *)

\* Slip: a slow gate passes.
GateVerdictSlow(g) ==
  CASE g.parallel <= g.band /\ g.serial <= g.band -> "passes"
    [] g.parallel > g.band /\ g.serial <= g.band  -> "fails_parallel"
    [] g.parallel <= g.band /\ g.serial > g.band  -> "fails_server"
    [] g.parallel > g.band /\ g.serial > g.band   -> "fails_both"

GateVerdict(g) ==
  LET parallelOk == g.parallel <= g.band /\ g.fast
      serverOk   == g.serial <= g.band IN
  CASE parallelOk /\ serverOk   -> "passes"
    [] ~parallelOk /\ serverOk  -> "fails_parallel"
    [] parallelOk /\ ~serverOk  -> "fails_server"
    [] ~parallelOk /\ ~serverOk -> "fails_both"

\* The largest N a gate passed at, or 1.
PassingN(gates) ==
  CHOOSE n \in {1} \cup {g.n : g \in gates} :
    /\ n = 1 \/ \E g \in gates : g.n = n /\ GateVerdict(g) = "passes"
    /\ \A g \in gates : GateVerdict(g) = "passes" => g.n <= n

\* The qualifications of one model, oldest first: the newest with gates for
\* this digest, else for any digest; 0 for none.
Newest(indices) == CHOOSE i \in indices \cup {0} : \A j \in indices : j <= i

Gated(table, digest) ==
  LET gated == {i \in DOMAIN table : table[i].gates # {}}
      own   == {i \in gated : table[i].digest = digest} IN
  Newest(IF own = {} THEN gated ELSE own)

\* An endpoint that did not say its version: it matches nothing.
NoVersion == "unknown"

\* The calls a launch pins.
ParallelDecision(mapped, table, digest, version, measuring) ==
  LET i == Gated(table, digest)
      Pin(n, reason) == [n |-> n, reason |-> reason] IN
  IF mapped <= 1 THEN Pin(1, "not_mapped")
  ELSE IF measuring THEN Pin(mapped, "measuring")
  ELSE IF i = 0 THEN Pin(1, "missing")
  ELSE IF table[i].digest # digest THEN Pin(1, "digest")
  ELSE IF version = NoVersion \/ table[i].version # version THEN Pin(1, "ollama_version")
  ELSE IF mapped > PassingN(table[i].gates) THEN Pin(1, "failed")
  ELSE Pin(mapped, "gated")
=============================================================================
