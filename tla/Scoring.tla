------------------------------ MODULE Scoring ------------------------------
(***************************************************************************)
(* The scoring of one run and the review of its mismatches                 *)
(* (ra2/services/scoring_service.py, mismatch_service.py): first passes    *)
(* chained off the run's end, re-scores, reviewers who tag and clear, the  *)
(* run being resumed or discarded meanwhile, and process death.            *)
(*                                                                         *)
(* A feature's score and mismatch rows are one transaction that holds      *)
(* SQLite's write lock from its first DELETE, so scoring a feature is one  *)
(* step.  A reviewer's request reads its row before any lock is taken and  *)
(* writes back only the columns it changed: two steps.                     *)
(***************************************************************************)
EXTENDS Naturals, FiniteSets

CONSTANTS
  NFeatures,  \* features of the evaluation's configuration, in order
  Labelled,   \* those with ground truth
  Records,    \* records of the corpus
  Versions,   \* the scorer's code, as deployed one after the other
  Passes,     \* scoring jobs that may be under way at once
  Reviewers,  \* tag requests that may be in progress at once
  Tags, NoTag

ASSUME ScoringAssumption ==
  /\ NFeatures \in Nat
  /\ Labelled \subseteq 1 .. NFeatures
  /\ Versions \in Nat \ {0}
  /\ NoTag \notin Tags

FeatureNos == 1 .. NFeatures
Codes      == 1 .. Versions
NoScore    == 0

VARIABLES
  outcome,   \* what each version of classify makes of each record
  code,      \* the version this process runs
  up,        \* the process is running
  status,    \* run.status; "partial" is interrupted or failed
  due,       \* the run worker is on its way to _chain_scoring
  score,     \* the version that wrote a feature's score rows, or NoScore
  mismatch,  \* the mismatch rows
  inflight,  \* ScoringService._in_flight[run_id]
  pass,      \* scoring jobs
  review     \* tag requests

scoringVars == <<outcome, code, up, status, due, score, mismatch, inflight, pass, review>>

\* A mismatch row: the version that derived it, and the three review columns.
Unreviewed == [tag |-> NoTag, at |-> FALSE, note |-> FALSE]
NoMismatch == [by |-> NoScore, review |-> Unreviewed]

IdlePass   == [pc |-> "idle", rescore |-> FALSE, todo |-> {}]
IdleReview == [pc |-> "idle", feature |-> 0, record |-> 0, seen |-> Unreviewed, new |-> Unreviewed]

\* The corpus, the configuration and the model's answers are fixed when
\* scoring starts; only the code that compares them can change.
Outcomes(f) == IF f \in Labelled THEN {"none", "agrees", "wrong"} ELSE {"none", "found"}

ScoringInit ==
  /\ outcome \in [Codes -> [FeatureNos -> [Records -> UNION {Outcomes(f) : f \in FeatureNos}]]]
  /\ \A v \in Codes, f \in FeatureNos, x \in Records : outcome[v][f][x] \in Outcomes(f)
  /\ code = 1
  /\ up = TRUE
  /\ status = "running"
  /\ due = FALSE
  /\ score = [f \in FeatureNos |-> NoScore]
  /\ mismatch = [f \in FeatureNos |-> [x \in Records |-> NoMismatch]]
  /\ inflight = 0
  /\ pass = [p \in Passes |-> IdlePass]
  /\ review = [a \in Reviewers |-> IdleReview]

HasCase(v, f)    == \E x \in Records : outcome[v][f][x] # "none"
Mismatched(v, f) == {x \in Records : outcome[v][f][x] = "wrong"}
Scored           == {f \in FeatureNos : score[f] # NoScore}

-----------------------------------------------------------------------------
(* The run (RunService): it ends, is resumed, is discarded.                *)

RunIsOver ==
  /\ up /\ status = "running"
  /\ \E s \in {"done", "partial"} : status' = s
  /\ due' = (due \/ status' = "done")
  /\ UNCHANGED <<outcome, code, up, score, mismatch, inflight, pass, review>>

\* resume starts whatever run it is given, a done one too.
RunResumed ==
  /\ up /\ status \in {"done", "partial"}
  /\ status' = "running"
  /\ UNCHANGED <<outcome, code, up, due, score, mismatch, inflight, pass, review>>

\* The cascade takes the run's score and mismatch rows with it.
RunDiscarded ==
  /\ up /\ status \in {"done", "partial"}
  /\ status' = "absent"
  /\ score' = [f \in FeatureNos |-> NoScore]
  /\ mismatch' = [f \in FeatureNos |-> [x \in Records |-> NoMismatch]]
  /\ UNCHANGED <<outcome, code, up, due, inflight, pass, review>>

-----------------------------------------------------------------------------
(* Submitting a pass.                                                      *)

Enter == inflight' = inflight + 1

\* Slip: the inner exit clears the mark the outer scope still owns.
ExitDropsKey(times) == inflight' = 0

\* Slip: one exit more than there were scopes.
ExitTooOften(times) == inflight' = inflight - times - 1

\* _exit, once for each scope that is left
Exit(times) == inflight' = inflight - times

\* _chain_scoring re-reads the status, then submits a first pass.
Chain(p) ==
  /\ due /\ due' = FALSE
  /\ \/ /\ status = "done"
        /\ pass[p].pc = "idle"
        /\ pass' = [pass EXCEPT ![p] = [IdlePass EXCEPT !.pc = "submitted"]]
        /\ Enter
     \/ /\ status # "done"
        /\ UNCHANGED <<pass, inflight>>
  /\ UNCHANGED <<outcome, code, up, status, score, mismatch, review>>

\* submit_rescore reads the status for the caller's sake...
RescoreAdmitted(p) ==
  /\ up /\ pass[p].pc = "idle"
  /\ status = "done"
  /\ pass' = [pass EXCEPT ![p] = [IdlePass EXCEPT !.pc = "admitted", !.rescore = TRUE]]
  /\ UNCHANGED <<outcome, code, up, status, due, score, mismatch, inflight, review>>

\* ...and submits.
RescoreSubmitted(p) ==
  /\ pass[p].pc = "admitted"
  /\ pass' = [pass EXCEPT ![p].pc = "submitted"]
  /\ Enter
  /\ UNCHANGED <<outcome, code, up, status, due, score, mismatch, review>>

-----------------------------------------------------------------------------
(* The pass: _score and _score_one_feature.                                *)

Drop(p) == pass' = [pass EXCEPT ![p] = IdlePass]

\* The guard that matters, and for a first pass what is left to do.
Begin(p) ==
  /\ pass[p].pc = "submitted"
  /\ status = "done" /\ Labelled # {}
  /\ pass' = [pass EXCEPT ![p].pc = "scoring",
                          ![p].todo = IF pass[p].rescore THEN FeatureNos ELSE FeatureNos \ Scored]
  /\ Enter
  /\ UNCHANGED <<outcome, code, up, status, due, score, mismatch, review>>

\* NotFoundError, RunNotScoreableError
PassRefused(p) ==
  /\ pass[p].pc = "submitted"
  /\ status # "done" \/ Labelled = {}
  /\ Drop(p)
  /\ Exit(1)
  /\ UNCHANGED <<outcome, code, up, status, due, score, mismatch, review>>

\* Features are scored in their order.
Current(p, f) ==
  /\ pass[p].pc = "scoring"
  /\ f \in pass[p].todo
  /\ \A g \in pass[p].todo : f <= g

Tick(p, f) == pass' = [pass EXCEPT ![p].todo = @ \ {f}]

\* Without a run there is no answer to find; a labelled case needs none.
Yields(f) == HasCase(code, f) /\ (status # "absent" \/ f \in Labelled)

\* Nothing to score: no rows are written, none are removed.
PassOver(p, f) ==
  /\ Current(p, f)
  /\ ~Yields(f)
  /\ Tick(p, f)
  /\ UNCHANGED <<outcome, code, up, status, due, score, mismatch, inflight, review>>

\* Slip: DELETE then INSERT.
UpsertAnew(f) ==
  mismatch' = [mismatch EXCEPT ![f] = [x \in Records |->
    IF x \in Mismatched(code, f) THEN [by |-> code, review |-> Unreviewed] ELSE NoMismatch]]

\* Slip: a row that no longer mismatches is left behind.
UpsertKeepsGone(f) ==
  mismatch' = [mismatch EXCEPT ![f] = [x \in Records |->
    IF x \in Mismatched(code, f) THEN [mismatch[f][x] EXCEPT !.by = code] ELSE mismatch[f][x]]]

\* upsert_feature: the derived columns are rewritten, the review stays; a row
\* that is new is not reviewed.
Upsert(f) ==
  mismatch' = [mismatch EXCEPT ![f] = [x \in Records |->
    IF x \in Mismatched(code, f) THEN [mismatch[f][x] EXCEPT !.by = code] ELSE NoMismatch]]

\* Slip: what is not labelled is not written.
ScoreLabelledOnly(p, f) ==
  /\ Current(p, f)
  /\ Yields(f) /\ status # "absent"
  /\ score' = IF f \in Labelled THEN [score EXCEPT ![f] = code] ELSE score
  /\ Upsert(f)
  /\ Tick(p, f)
  /\ UNCHANGED <<outcome, code, up, status, due, inflight, review>>

\* One (run, feature), one commit.
Score(p, f) ==
  /\ Current(p, f)
  /\ Yields(f) /\ status # "absent"
  /\ score' = [score EXCEPT ![f] = code]
  /\ Upsert(f)
  /\ Tick(p, f)
  /\ UNCHANGED <<outcome, code, up, status, due, inflight, review>>

\* The rows of a run that is gone are refused, or the feature fails some
\* other way: its transaction rolls back and the pass ends.
Broken(p, f) ==
  /\ Current(p, f)
  /\ Drop(p)
  /\ Exit(2)
  /\ UNCHANGED <<outcome, code, up, status, due, score, mismatch, review>>

Over(p) ==
  /\ pass[p].pc = "scoring" /\ pass[p].todo = {}
  /\ Drop(p)
  /\ Exit(2)
  /\ UNCHANGED <<outcome, code, up, status, due, score, mismatch, review>>

-----------------------------------------------------------------------------
(* Review: MismatchService._write over MismatchRepository.set_tag.         *)

\* The row is loaded; the values to write are decided from the request alone.
ReviewLoads(a, f, x) ==
  /\ up /\ review[a].pc = "idle"
  /\ mismatch[f][x] # NoMismatch
  /\ \E t \in Tags \cup {NoTag} : \E n \in BOOLEAN :
       review' = [review EXCEPT ![a] =
         [pc |-> "loaded", feature |-> f, record |-> x, seen |-> mismatch[f][x].review,
          new |-> IF t = NoTag THEN Unreviewed ELSE [tag |-> t, at |-> TRUE, note |-> n]]]
  /\ UNCHANGED <<outcome, code, up, status, due, score, mismatch, inflight, pass>>

\* A tag's timestamp is a new one; any other column may be what was loaded.
Changed(a) ==
  {c \in {"tag", "at", "note"} :
     review[a].new[c] # review[a].seen[c] \/ (c = "at" /\ review[a].new.at)}

\* Slip: clearing takes the tag only.
ReviewWritesTagOnly(a) ==
  LET f == review[a].feature
      x == review[a].record
  IN
  /\ review[a].pc = "loaded"
  /\ mismatch' = IF mismatch[f][x] = NoMismatch THEN mismatch
       ELSE [mismatch EXCEPT ![f][x].review =
               IF review[a].new.tag = NoTag THEN [@ EXCEPT !.tag = NoTag]
               ELSE [c \in DOMAIN @ |-> IF c \in Changed(a) THEN review[a].new[c] ELSE @[c]]]
  /\ review' = [review EXCEPT ![a] = IdleReview]
  /\ UNCHANGED <<outcome, code, up, status, due, score, inflight, pass>>

\* The UPDATE names the changed columns only.  A row removed meanwhile is a
\* StaleDataError to the caller.
ReviewWrites(a) ==
  LET f == review[a].feature
      x == review[a].record
  IN
  /\ review[a].pc = "loaded"
  /\ mismatch' = IF mismatch[f][x] = NoMismatch THEN mismatch
       ELSE [mismatch EXCEPT ![f][x].review =
               [c \in DOMAIN @ |-> IF c \in Changed(a) THEN review[a].new[c] ELSE @[c]]]
  /\ review' = [review EXCEPT ![a] = IdleReview]
  /\ UNCHANGED <<outcome, code, up, status, due, score, inflight, pass>>

-----------------------------------------------------------------------------
Crash ==
  /\ up /\ up' = FALSE
  /\ due' = FALSE
  /\ inflight' = 0
  /\ pass' = [p \in Passes |-> IdlePass]
  /\ review' = [a \in Reviewers |-> IdleReview]
  /\ UNCHANGED <<outcome, code, status, score, mismatch>>

\* The next start relabels a running run, may run newer code, and resubmits
\* no scoring.
Restart ==
  /\ ~up /\ up' = TRUE
  /\ \E v \in Codes : v >= code /\ code' = v
  /\ status' = IF status = "running" THEN "partial" ELSE status
  /\ UNCHANGED <<outcome, due, score, mismatch, inflight, pass, review>>

PassStep(p) ==
  \/ RescoreSubmitted(p) \/ Begin(p) \/ PassRefused(p) \/ Over(p)
  \/ \E f \in FeatureNos : PassOver(p, f) \/ Score(p, f) \/ Broken(p, f)

ScoringNext ==
  \/ RunIsOver \/ RunResumed \/ RunDiscarded
  \/ \E p \in Passes : Chain(p) \/ RescoreAdmitted(p) \/ PassStep(p)
  \/ \E a \in Reviewers : ReviewWrites(a) \/ \E f \in FeatureNos, x \in Records : ReviewLoads(a, f, x)
  \/ Crash \/ Restart

ScoringSpec == ScoringInit /\ [][ScoringNext]_scoringVars

-----------------------------------------------------------------------------
(* Properties.                                                             *)

ReviewType == [tag : Tags \cup {NoTag}, at : BOOLEAN, note : BOOLEAN]

\* The values the run's scoring, its passes and its reviews can hold.
ScoringTypes ==
  /\ code \in Codes /\ up \in BOOLEAN /\ due \in BOOLEAN
  /\ status \in {"running", "done", "partial", "absent"}
  /\ score \in [FeatureNos -> Codes \cup {NoScore}]
  /\ mismatch \in [FeatureNos -> [Records -> [by : Codes \cup {NoScore}, review : ReviewType]]]
  /\ inflight \in Nat
  /\ pass \in [Passes -> [pc : {"idle", "admitted", "submitted", "scoring"},
                         rescore : BOOLEAN, todo : SUBSET FeatureNos]]
  /\ review \in [Reviewers -> [pc : {"idle", "loaded"}, feature : FeatureNos \cup {0},
                              record : Records \cup {0}, seen : ReviewType, new : ReviewType]]

\* A feature's mismatches are those of the very computation that wrote its
\* scores, through re-scores by newer code, failures, crashes and discards
\* (_score: "never a feature half-scored from two different reads").
ScoresAndMismatchesAgree ==
  \A f \in FeatureNos, x \in Records :
    mismatch[f][x].by =
      IF score[f] # NoScore /\ x \in Mismatched(score[f], f) THEN score[f] ELSE NoScore

\* A reviewer's tag goes only when a reviewer clears it, when the scorer finds
\* the mismatch gone, or with the run (SD21: a re-score preserves tags).
TagsSurvive ==
  [][\A f \in FeatureNos, x \in Records :
       mismatch[f][x].review.tag # NoTag /\ mismatch'[f][x].review.tag = NoTag =>
         \/ status' = "absent"
         \/ score'[f] = code /\ x \notin Mismatched(code, f)
         \/ \E a \in Reviewers :
              /\ review[a].pc = "loaded" /\ review'[a].pc = "idle"
              /\ review[a].feature = f /\ review[a].record = x
              /\ review[a].new.tag = NoTag]_scoringVars

\* `running` is true of a run exactly while a pass of this process is queued or
\* executing for it, however first passes and re-scores overlap (_in_flight).
RunningIsTold ==
  inflight > 0 <=> \E p \in Passes : pass[p].pc \in {"submitted", "scoring"}

\* A pass leaves no feature behind: what it no longer has to do has rows, or
\* nothing that could be scored (score_run: "scores only the features with no
\* rows, because that is what the work left means").
PassLeavesNothingBehind ==
  \A p \in Passes, f \in FeatureNos :
    pass[p].pc = "scoring" /\ f \notin pass[p].todo =>
      score[f] # NoScore \/ ~HasCase(code, f) \/ status = "absent"

\* Both: what a run's boards are read from is whole, feature by feature and
\* over the features.
ScoringIsWhole == ScoresAndMismatchesAgree /\ PassLeavesNothingBehind

\* A row without a tag has no timestamp and no note (set_tag: it "would read
\* as reviewed ... while counting as untagged").
TagIsWhole ==
  \A f \in FeatureNos, x \in Records :
    LET r == mismatch[f][x].review IN
    IF r.tag = NoTag THEN r = Unreviewed ELSE r.at

\* What a re-score leaves was written by the code that ran it (rescore_run:
\* "Per feature it replaces the score rows").
RescoreReflectsCode ==
  \A p \in Passes :
    pass[p].pc = "scoring" /\ pass[p].rescore /\ pass[p].todo = {} =>
      \A f \in FeatureNos : score[f] \in {NoScore, code}

\* ScoringStatus.scored_features and labelled_features
ScoredCount   == Cardinality(Scored)
Scoreable     == {f \in Labelled : \E v \in Codes : HasCase(v, f)}
IsScored(n)   == Scoreable # {} /\ n >= Cardinality(Scoreable)

\* A run reported as scored, with no pass in flight, has scores for every
\* labelled feature (scoring_states.card_for: "the run is scored and the
\* screen should show its numbers").
ScoredMeansScored ==
  up /\ status = "done" /\ inflight = 0 /\ IsScored(ScoredCount) => Scoreable \subseteq Scored
=============================================================================
