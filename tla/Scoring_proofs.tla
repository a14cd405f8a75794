--------------------------- MODULE Scoring_proofs ---------------------------
(***************************************************************************)
(* What holds of a run's scoring and review for every number of features,  *)
(* records, passes, reviewers, tags and versions of the scorer.            *)
(***************************************************************************)
EXTENDS Library, FiniteSetTheorems, TLAPS

RowType    == [by : Codes \cup {NoScore}, review : ReviewType]
PassType   == [pc : {"idle", "admitted", "submitted", "scoring"},
               rescore : BOOLEAN, todo : SUBSET FeatureNos]
ReviewCall == [pc : {"idle", "loaded"}, feature : FeatureNos \cup {0},
               record : Records \cup {0}, seen : ReviewType, new : ReviewType]

\* The types, but for the count of scopes in flight.
Typed ==
  /\ code \in Codes /\ up \in BOOLEAN /\ due \in BOOLEAN
  /\ status \in {"running", "done", "partial", "absent"}
  /\ score \in [FeatureNos -> Codes \cup {NoScore}]
  /\ mismatch \in [FeatureNos -> [Records -> RowType]]
  /\ pass \in [Passes -> PassType]
  /\ review \in [Reviewers -> ReviewCall]

\* A request in progress names a feature and a record.
ReviewHasRow ==
  \A a \in Reviewers : review[a].pc = "loaded" =>
    review[a].feature \in FeatureNos /\ review[a].record \in Records

\* Nothing of a dead process is under way, or owed.
DownIsIdle == ~up => ~due /\ pass = [p \in Passes |-> IdlePass]

InFlight == {p \in Passes : pass[p].pc = "submitted"}
Working  == {p \in Passes : pass[p].pc = "scoring"}

\* A queued pass is in one scope, a working one in two.
ScopesAddUp ==
  /\ IsFiniteSet(InFlight) /\ IsFiniteSet(Working)
  /\ inflight = Cardinality(InFlight) + Cardinality(Working) + Cardinality(Working)

Inv ==
  /\ Typed
  /\ ReviewHasRow
  /\ DownIsIdle
  /\ ScopesAddUp
  /\ ScoresAndMismatchesAgree
  /\ PassLeavesNothingBehind

-----------------------------------------------------------------------------
(* Types.                                                                  *)

LEMMA BlankTypes ==
  /\ Unreviewed \in ReviewType /\ NoMismatch \in RowType
  /\ IdlePass \in PassType /\ IdleReview \in ReviewCall
BY DEF Unreviewed, NoMismatch, IdlePass, IdleReview, ReviewType, RowType, PassType, ReviewCall

\* The row of columns an UPDATE leaves is one of the table's.
LEMMA ColumnsType ==
  ASSUME NEW old \in ReviewType, NEW new \in ReviewType, NEW C
  PROVE  [c \in DOMAIN old |-> IF c \in C THEN new[c] ELSE old[c]] \in ReviewType
<1> DEFINE r == [c \in DOMAIN old |-> IF c \in C THEN new[c] ELSE old[c]]
<1>1. DOMAIN old = {"tag", "at", "note"}
  BY DEF ReviewType
<1>2. /\ r["tag"] \in Tags \cup {NoTag} /\ r["at"] \in BOOLEAN /\ r["note"] \in BOOLEAN
  BY <1>1 DEF ReviewType
<1>3. r = [tag |-> r["tag"], at |-> r["at"], note |-> r["note"]]
  BY <1>1
<1> QED
  BY <1>2, <1>3 DEF ReviewType

\* A row that is derived again.
LEMMA RowRederived ==
  ASSUME NEW r \in RowType, NEW v \in Codes
  PROVE  [r EXCEPT !.by = v] \in RowType
BY DEF RowType

LEMMA TypedNext == Inv /\ [ScoringNext]_scoringVars => Typed'
<1> SUFFICES ASSUME Inv, [ScoringNext]_scoringVars PROVE Typed'
  OBVIOUS
<1> USE BlankTypes DEF Inv, Typed
<1>1. ASSUME NEW p \in Passes, Chain(p) PROVE Typed'
  <2>1. pass' \in [Passes -> PassType]
    <3>1. [IdlePass EXCEPT !.pc = "submitted"] \in PassType
      BY DEF IdlePass, PassType
    <3> QED
      BY <1>1, <3>1 DEF Chain
  <2> QED
    BY <1>1, <2>1 DEF Chain
<1>2. ASSUME NEW p \in Passes, RescoreAdmitted(p) PROVE Typed'
  BY <1>2 DEF RescoreAdmitted, PassType, IdlePass
<1>3. ASSUME NEW p \in Passes, RescoreSubmitted(p) PROVE Typed'
  BY <1>3 DEF RescoreSubmitted, PassType
<1>4. ASSUME NEW p \in Passes, Begin(p) PROVE Typed'
  <2> DEFINE todo == IF pass[p].rescore THEN FeatureNos ELSE FeatureNos \ Scored
  <2>1. todo \in SUBSET FeatureNos
    OBVIOUS
  <2>2. pass' = [pass EXCEPT ![p].pc = "scoring", ![p].todo = todo]
    BY <1>4 DEF Begin
  <2>3. pass' \in [Passes -> PassType]
    <3> HIDE DEF todo
    <3> QED
      BY <2>1, <2>2 DEF PassType
  <2> QED
    BY <1>4, <2>3 DEF Begin
<1>5. ASSUME NEW p \in Passes, PassRefused(p) \/ Over(p) PROVE Typed'
  BY <1>5 DEF PassRefused, Over, Drop
<1>6. ASSUME NEW p \in Passes, NEW f \in FeatureNos, PassOver(p, f) PROVE Typed'
  BY <1>6 DEF PassOver, Tick, PassType
<1>7. ASSUME NEW p \in Passes, NEW f \in FeatureNos, Score(p, f) PROVE Typed'
  <2>1. mismatch' \in [FeatureNos -> [Records -> RowType]]
    <3>1. \A x \in Records : [mismatch[f][x] EXCEPT !.by = code] \in RowType
      BY RowRederived
    <3> DEFINE rows == [x \in Records |-> IF x \in Mismatched(code, f) THEN [mismatch[f][x] EXCEPT !.by = code]
                                                                   ELSE NoMismatch]
    <3>2. rows \in [Records -> RowType]
      BY <3>1
    <3>3. mismatch' = [mismatch EXCEPT ![f] = rows]
      BY <1>7 DEF Score, Upsert
    <3> HIDE DEF rows
    <3> QED
      BY <3>2, <3>3
  <2> QED
    BY <1>7, <2>1 DEF Score, Tick, PassType
<1>8. ASSUME NEW p \in Passes, NEW f \in FeatureNos, Broken(p, f) PROVE Typed'
  BY <1>8 DEF Broken, Drop
<1>9. ASSUME NEW a \in Reviewers, ReviewWrites(a) PROVE Typed'
  <2> DEFINE f == review[a].feature
             x == review[a].record
             old == mismatch[f][x].review
             new == review[a].new
             r == [c \in DOMAIN old |-> IF c \in Changed(a) THEN new[c] ELSE old[c]]
  <2>1. f \in FeatureNos /\ x \in Records /\ new \in ReviewType
    BY <1>9 DEF ReviewWrites, ReviewHasRow, ReviewCall
  <2>2. r \in ReviewType
    <3>1. old \in ReviewType
      BY <2>1 DEF RowType
    <3> HIDE DEF old, new
    <3> QED
      BY <2>1, <3>1, ColumnsType, Zenon
  <2>3. mismatch' = mismatch \/ mismatch' = [mismatch EXCEPT ![f][x].review = r]
    BY <1>9, Zenon DEF ReviewWrites
  <2>4. mismatch' \in [FeatureNos -> [Records -> RowType]]
    <3> HIDE DEF f, x, r
    <3> DEFINE v == [mismatch[f][x] EXCEPT !.review = r]
    <3>1. v \in RowType
      BY <2>1, <2>2 DEF RowType
    <3>2. mismatch' = mismatch \/ mismatch' = [mismatch EXCEPT ![f] = [mismatch[f] EXCEPT ![x] = v]]
      BY <2>3
    <3> HIDE DEF v
    <3>3. mismatch[f] \in [Records -> RowType]
      BY <2>1
    <3>4. [mismatch[f] EXCEPT ![x] = v] \in [Records -> RowType]
      BY <2>1, <3>1, <3>3
    <3> QED
      BY <2>1, <3>2, <3>4
  <2> QED
    BY <1>9, <2>4 DEF ReviewWrites
<1>10. ASSUME NEW a \in Reviewers, NEW f \in FeatureNos, NEW x \in Records, ReviewLoads(a, f, x)
       PROVE  Typed'
  BY <1>10 DEF ReviewLoads, ReviewCall, RowType, ReviewType
<1>11. CASE RunIsOver \/ RunResumed
  BY <1>11 DEF RunIsOver, RunResumed
<1>12. CASE RunDiscarded
  BY <1>12 DEF RunDiscarded
<1>13. CASE Crash
  BY <1>13 DEF Crash
<1>14. CASE Restart
  BY <1>14 DEF Restart
<1>15. CASE UNCHANGED scoringVars
  BY <1>15 DEF scoringVars
<1> QED
  BY <1>1, <1>2, <1>3, <1>4, <1>5, <1>6, <1>7, <1>8, <1>9, <1>10, <1>11, <1>12, <1>13, <1>14, <1>15
    DEF ScoringNext, PassStep
-----------------------------------------------------------------------------
(* The parts of the invariant.                                             *)

LEMMA ReviewHasRowNext == Inv /\ [ScoringNext]_scoringVars => ReviewHasRow'
<1> SUFFICES ASSUME Inv, [ScoringNext]_scoringVars PROVE ReviewHasRow'
  OBVIOUS
<1> USE DEF Inv, Typed, ReviewHasRow, IdleReview
<1>1. ASSUME NEW a \in Reviewers, ReviewWrites(a) PROVE ReviewHasRow'
  BY <1>1 DEF ReviewWrites
<1>2. ASSUME NEW a \in Reviewers, NEW f \in FeatureNos, NEW x \in Records, ReviewLoads(a, f, x)
      PROVE  ReviewHasRow'
  BY <1>2 DEF ReviewLoads
<1>3. CASE Crash
  BY <1>3 DEF Crash
<1>4. CASE UNCHANGED review
  BY <1>4
<1> QED
  BY <1>1, <1>2, <1>3, <1>4
    DEF ScoringNext, PassStep, Chain, RescoreAdmitted, RescoreSubmitted, Begin, PassRefused, Over, PassOver,
        Score, Broken, RunIsOver, RunResumed, RunDiscarded, Restart, scoringVars

LEMMA DownIsIdleNext == Inv /\ [ScoringNext]_scoringVars => DownIsIdle'
<1> SUFFICES ASSUME Inv, [ScoringNext]_scoringVars PROVE DownIsIdle'
  OBVIOUS
<1> USE DEF Inv, Typed, DownIsIdle
<1>1. ASSUME NEW p \in Passes, PassStep(p) PROVE up /\ UNCHANGED up
  BY <1>1 DEF PassStep, RescoreSubmitted, Begin, PassRefused, Over, PassOver, Score, Broken, Current,
              IdlePass
<1>2. CASE UNCHANGED <<up, due, pass>>
  BY <1>2
<1> QED
  BY <1>1, <1>2
    DEF ScoringNext, Chain, RescoreAdmitted, ReviewWrites, ReviewLoads,
        RunIsOver, RunResumed, RunDiscarded, Crash, Restart, scoringVars

LEMMA AgreeNext == Inv /\ [ScoringNext]_scoringVars => ScoresAndMismatchesAgree'
<1> SUFFICES ASSUME Inv, [ScoringNext]_scoringVars PROVE ScoresAndMismatchesAgree'
  OBVIOUS
<1> USE DEF Inv, Typed, ScoresAndMismatchesAgree
<1>1. ASSUME NEW p \in Passes, NEW f \in FeatureNos, Score(p, f)
      PROVE  ScoresAndMismatchesAgree'
  <2>1. score' = [score EXCEPT ![f] = code] /\ outcome' = outcome /\ code # NoScore
    BY <1>1, ScoringAssumption DEF Score, Codes, NoScore
  <2>2. \A x \in Records :
          mismatch'[f][x].by = IF x \in Mismatched(code, f) THEN code ELSE NoScore
    <3> SUFFICES ASSUME NEW x \in Records
                 PROVE  mismatch'[f][x].by = IF x \in Mismatched(code, f) THEN code ELSE NoScore
      OBVIOUS
    <3>1. mismatch'[f][x] = IF x \in Mismatched(code, f) THEN [mismatch[f][x] EXCEPT !.by = code] ELSE NoMismatch
      BY <1>1 DEF Score, Upsert
    <3>2. mismatch[f][x] \in RowType
      OBVIOUS
    <3>3. CASE x \notin Mismatched(code, f)
      BY <3>1, <3>3 DEF NoMismatch
    <3>4. CASE x \in Mismatched(code, f)
      BY <3>1, <3>2, <3>4 DEF RowType
    <3> QED
      BY <3>3, <3>4
  <2>3. \A g \in FeatureNos \ {f} : mismatch'[g] = mismatch[g]
    BY <1>1 DEF Score, Upsert
  <2> QED
    BY <2>1, <2>2, <2>3 DEF Mismatched
<1>2. CASE RunDiscarded
  BY <1>2 DEF RunDiscarded, NoMismatch
<1>3. ASSUME NEW a \in Reviewers, ReviewWrites(a) PROVE ScoresAndMismatchesAgree'
  <2>1. /\ \A f \in FeatureNos, x \in Records : mismatch'[f][x].by = mismatch[f][x].by
        /\ UNCHANGED <<score, outcome>>
    BY <1>3 DEF ReviewWrites, RowType
  <2> QED
    BY <2>1 DEF Mismatched
<1>4. CASE UNCHANGED <<score, mismatch, outcome>>
  BY <1>4 DEF Mismatched
<1> QED
  BY <1>1, <1>2, <1>3, <1>4
    DEF ScoringNext, PassStep, Chain, RescoreAdmitted, RescoreSubmitted, Begin, PassRefused, Over, PassOver,
        Broken, RunIsOver, RunResumed, ReviewLoads, Crash, Restart, scoringVars

LEMMA BehindNext == Inv /\ [ScoringNext]_scoringVars => PassLeavesNothingBehind'
<1> SUFFICES ASSUME Inv, [ScoringNext]_scoringVars PROVE PassLeavesNothingBehind'
  OBVIOUS
<1> USE DEF Inv, Typed, PassLeavesNothingBehind, HasCase
<1>1. ASSUME NEW p \in Passes, Chain(p) \/ RescoreAdmitted(p) \/ RescoreSubmitted(p)
      PROVE  PassLeavesNothingBehind'
  <2>1. /\ \A q \in Passes : pass'[q] = pass[q] \/ pass'[q].pc \in {"admitted", "submitted"}
        /\ UNCHANGED <<outcome, code, status, score>>
    <3>1. CASE Chain(p)
      BY <3>1 DEF Chain, PassType, IdlePass
    <3>2. CASE RescoreAdmitted(p)
      BY <3>2 DEF RescoreAdmitted, PassType, IdlePass
    <3>3. CASE RescoreSubmitted(p)
      BY <3>3 DEF RescoreSubmitted, PassType
    <3> QED
      BY <1>1, <3>1, <3>2, <3>3
  <2> QED
    BY <2>1
<1>2. ASSUME NEW p \in Passes, Begin(p) PROVE PassLeavesNothingBehind'
  BY <1>2 DEF Begin, PassType, Scored
<1>3. ASSUME NEW p \in Passes, Drop(p), UNCHANGED <<outcome, code, status, score>>
      PROVE  PassLeavesNothingBehind'
  BY <1>3 DEF Drop, IdlePass
<1>4. ASSUME NEW p \in Passes, NEW f \in FeatureNos, PassOver(p, f) PROVE PassLeavesNothingBehind'
  BY <1>4 DEF PassOver, Tick, Yields, PassType
<1>5. ASSUME NEW p \in Passes, NEW f \in FeatureNos, Score(p, f) PROVE PassLeavesNothingBehind'
  BY <1>5, ScoringAssumption DEF Score, Tick, PassType, Codes, NoScore
<1>6. CASE Restart
  BY <1>6 DEF Restart, DownIsIdle, IdlePass
<1>7. CASE Crash
  BY <1>7 DEF Crash, IdlePass
<1>8. CASE RunIsOver \/ RunResumed \/ RunDiscarded
  BY <1>8 DEF RunIsOver, RunResumed, RunDiscarded
<1>9. CASE UNCHANGED <<outcome, code, status, score, pass>>
  BY <1>9
<1> QED
  BY <1>1, <1>2, <1>3, <1>4, <1>5, <1>6, <1>7, <1>8, <1>9
    DEF ScoringNext, PassStep, PassRefused, Over, Broken, ReviewWrites, ReviewLoads, scoringVars

\* One more, one less.
LEMMA OneMore ==
  ASSUME NEW S, IsFiniteSet(S), NEW p, p \notin S
  PROVE  IsFiniteSet(S \cup {p}) /\ Cardinality(S \cup {p}) = Cardinality(S) + 1
BY FS_AddElement

LEMMA OneLess ==
  ASSUME NEW S, IsFiniteSet(S), NEW p \in S
  PROVE  /\ IsFiniteSet(S \ {p}) /\ Cardinality(S) \in Nat \ {0}
         /\ Cardinality(S \ {p}) = Cardinality(S) - 1
BY FS_RemoveElement, FS_CardinalityType, FS_EmptySet

LEMMA ScopesNext == Inv /\ [ScoringNext]_scoringVars => ScopesAddUp'
<1> SUFFICES ASSUME Inv, [ScoringNext]_scoringVars PROVE ScopesAddUp'
  OBVIOUS
<1>0. /\ pass \in [Passes -> PassType]
      /\ IsFiniteSet(InFlight) /\ IsFiniteSet(Working)
      /\ Cardinality(InFlight) \in Nat /\ Cardinality(Working) \in Nat
      /\ inflight = Cardinality(InFlight) + Cardinality(Working) + Cardinality(Working)
  BY FS_CardinalityType DEF Inv, Typed, ScopesAddUp
<1>1. ASSUME NEW p \in Passes, pass[p].pc \in {"idle", "admitted"}, Enter,
             InFlight' = InFlight \cup {p}, Working' = Working
      PROVE  ScopesAddUp'
  <2>1. p \notin InFlight
    BY <1>1 DEF InFlight
  <2> QED
    <3>1. IsFiniteSet(InFlight') /\ Cardinality(InFlight') = Cardinality(InFlight) + 1
      BY <1>0, <1>1, <2>1, OneMore
    <3>2. IsFiniteSet(Working') /\ Cardinality(Working') = Cardinality(Working)
      BY <1>0, <1>1
    <3> QED
      BY <1>0, <1>1, <3>1, <3>2 DEF ScopesAddUp, Enter
<1>2. ASSUME NEW p \in InFlight, Enter, InFlight' = InFlight \ {p}, Working' = Working \cup {p}
      PROVE  ScopesAddUp'
  <2>1. p \notin Working
    BY DEF InFlight, Working
  <2> QED
    BY <1>0, <1>2, <2>1, OneMore, OneLess DEF ScopesAddUp, Enter
<1>3. ASSUME NEW p \in InFlight, Exit(1), InFlight' = InFlight \ {p}, Working' = Working
      PROVE  ScopesAddUp'
  BY <1>0, <1>3, OneLess DEF ScopesAddUp, Exit
<1>4. ASSUME NEW p \in Working, Exit(2), InFlight' = InFlight, Working' = Working \ {p}
      PROVE  ScopesAddUp'
  BY <1>0, <1>4, OneLess DEF ScopesAddUp, Exit
<1>5. ASSUME InFlight' = InFlight, Working' = Working, UNCHANGED inflight
      PROVE  ScopesAddUp'
  BY <1>0, <1>5 DEF ScopesAddUp
<1>6. ASSUME NEW p \in Passes, Chain(p) PROVE ScopesAddUp'
  <2>1. CASE UNCHANGED <<pass, inflight>>
    BY <1>5, <2>1 DEF InFlight, Working
  <2>2. CASE /\ pass[p].pc = "idle" /\ Enter
             /\ pass' = [pass EXCEPT ![p] = [IdlePass EXCEPT !.pc = "submitted"]]
    <3>1. InFlight' = InFlight \cup {p} /\ Working' = Working
      BY <1>0, <2>2 DEF InFlight, Working, IdlePass
    <3> QED
      BY <1>1, <2>2, <3>1
  <2> QED
    BY <1>6, <2>1, <2>2 DEF Chain
<1>7. ASSUME NEW p \in Passes, RescoreAdmitted(p) PROVE ScopesAddUp'
  <2>1. InFlight' = InFlight /\ Working' = Working
    BY <1>0, <1>7 DEF RescoreAdmitted, InFlight, Working, IdlePass
  <2> QED
    BY <1>5, <1>7, <2>1 DEF RescoreAdmitted
<1>8. ASSUME NEW p \in Passes, RescoreSubmitted(p) PROVE ScopesAddUp'
  <2>1. InFlight' = InFlight \cup {p} /\ Working' = Working
    BY <1>0, <1>8 DEF RescoreSubmitted, InFlight, Working, PassType
  <2> QED
    BY <1>1, <1>8, <2>1 DEF RescoreSubmitted
<1>9. ASSUME NEW p \in Passes, Begin(p) PROVE ScopesAddUp'
  <2>1. p \in InFlight /\ pass'[p].pc = "scoring" /\ \A q \in Passes \ {p} : pass'[q] = pass[q]
    BY <1>0, <1>9 DEF Begin, InFlight, PassType
  <2>2. InFlight' = InFlight \ {p} /\ Working' = Working \cup {p}
    BY <2>1 DEF InFlight, Working
  <2> QED
    BY <1>2, <1>9, <2>1, <2>2 DEF Begin
<1>10. ASSUME NEW p \in Passes, PassRefused(p) PROVE ScopesAddUp'
  <2>1. p \in InFlight /\ InFlight' = InFlight \ {p} /\ Working' = Working
    BY <1>0, <1>10 DEF PassRefused, Drop, InFlight, Working, IdlePass
  <2> QED
    BY <1>3, <1>10, <2>1 DEF PassRefused
<1>11. ASSUME NEW p \in Passes, Over(p) \/ \E f \in FeatureNos : Broken(p, f) PROVE ScopesAddUp'
  <2>1. p \in Working /\ InFlight' = InFlight /\ Working' = Working \ {p}
    BY <1>0, <1>11 DEF Over, Broken, Current, Drop, InFlight, Working, IdlePass
  <2> QED
    BY <1>4, <1>11, <2>1 DEF Over, Broken
<1>12. ASSUME NEW p \in Passes, NEW f \in FeatureNos, PassOver(p, f) \/ Score(p, f)
       PROVE  ScopesAddUp'
  <2>1. InFlight' = InFlight /\ Working' = Working
    BY <1>0, <1>12 DEF PassOver, Score, Current, Tick, InFlight, Working, PassType
  <2> QED
    BY <1>5, <1>12, <2>1 DEF PassOver, Score
<1>13. CASE Crash
  <2>1. InFlight' = {} /\ Working' = {} /\ inflight' = 0
    BY <1>13 DEF Crash, InFlight, Working, IdlePass
  <2> QED
    BY <2>1, FS_EmptySet DEF ScopesAddUp
<1>14. CASE UNCHANGED <<pass, inflight>>
  BY <1>5, <1>14 DEF InFlight, Working
<1> QED
  BY <1>6, <1>7, <1>8, <1>9, <1>10, <1>11, <1>12, <1>13, <1>14
    DEF ScoringNext, PassStep, RunIsOver, RunResumed, RunDiscarded, ReviewWrites, ReviewLoads, Restart, scoringVars

-----------------------------------------------------------------------------
LEMMA InvInit == ScoringInit => Inv
<1> SUFFICES ASSUME ScoringInit PROVE Inv
  OBVIOUS
<1>1. Typed
  <2>1. code \in Codes
    BY ScoringAssumption DEF ScoringInit, Codes
  <2> QED
    BY <2>1, BlankTypes DEF ScoringInit, Typed
<1>2. ReviewHasRow /\ DownIsIdle
  BY DEF ScoringInit, ReviewHasRow, DownIsIdle, IdleReview
<1>3. ScopesAddUp
  <2>1. InFlight = {} /\ Working = {}
    BY DEF ScoringInit, InFlight, Working, IdlePass
  <2> QED
    BY <2>1, FS_EmptySet DEF ScoringInit, ScopesAddUp
<1>4. ScoresAndMismatchesAgree /\ PassLeavesNothingBehind
  BY DEF ScoringInit, ScoresAndMismatchesAgree, PassLeavesNothingBehind, NoMismatch, IdlePass
<1> QED
  BY <1>1, <1>2, <1>3, <1>4 DEF Inv

\* A step of the library is one of the scoring, or leaves the scores alone.
LEMMA ScoringMoves == [LibraryNext]_libraryVars => [ScoringNext]_scoringVars
BY DEF LibraryNext, libraryVars

\* Types, the review calls, the rows of scores and mismatches, and the counts of
\* passes agree in every reachable state.
THEOREM InvHolds == LibrarySpec => []Inv
<1>1. LibraryInit => Inv
  BY InvInit DEF LibraryInit
<1>2. Inv /\ [ScoringNext]_scoringVars => Inv'
  BY TypedNext, ReviewHasRowNext, DownIsIdleNext, ScopesNext, AgreeNext, BehindNext DEF Inv
<1> QED
  BY <1>1, <1>2, ScoringMoves, PTL DEF LibrarySpec

\* A feature's mismatches are those of the computation that wrote its scores,
\* through re-scores by newer code, failures, crashes and discards (_score:
\* "never a feature half-scored from two different reads"), and what a pass no
\* longer has to do has rows, or nothing that could be scored (score_run:
\* "scores only the features with no rows").
THEOREM ScoringStaysWhole == LibrarySpec => []ScoringIsWhole
<1>1. Inv => ScoringIsWhole
  BY DEF Inv, ScoringIsWhole
<1> QED
  BY <1>1, InvHolds, PTL

\* A run is reported as being scored exactly while a pass is queued or
\* executing for it, however first passes and re-scores overlap (_enter, _exit).
THEOREM RunningIsToldAlways == LibrarySpec => []RunningIsTold
<1>1. Inv => RunningIsTold
  <2> SUFFICES ASSUME Inv PROVE RunningIsTold
    OBVIOUS
  <2>1. /\ IsFiniteSet(InFlight) /\ IsFiniteSet(Working)
        /\ Cardinality(InFlight) \in Nat /\ Cardinality(Working) \in Nat
        /\ inflight = Cardinality(InFlight) + Cardinality(Working) + Cardinality(Working)
    BY FS_CardinalityType DEF Inv, ScopesAddUp
  <2>2. /\ Cardinality(InFlight) = 0 <=> InFlight = {}
        /\ Cardinality(Working) = 0 <=> Working = {}
    BY <2>1, FS_EmptySet
  <2>3. inflight > 0 <=> InFlight # {} \/ Working # {}
    BY <2>1, <2>2
  <2> QED
    BY <2>3 DEF RunningIsTold, InFlight, Working
<1> QED
  BY <1>1, InvHolds, PTL

\* A reviewer's tag goes only when a reviewer clears it, when the scorer finds
\* the mismatch gone, or with the run (SD21, upsert_feature, set_tag).
THEOREM TagsAreKept == LibrarySpec => TagsSurvive
<1> DEFINE Kept == \A f \in FeatureNos, x \in Records :
       mismatch[f][x].review.tag # NoTag /\ mismatch'[f][x].review.tag = NoTag =>
         \/ status' = "absent"
         \/ score'[f] = code /\ x \notin Mismatched(code, f)
         \/ \E a \in Reviewers :
              /\ review[a].pc = "loaded" /\ review'[a].pc = "idle"
              /\ review[a].feature = f /\ review[a].record = x
              /\ review[a].new.tag = NoTag
<1>1. Inv /\ [ScoringNext]_scoringVars => [Kept]_scoringVars
  <2> SUFFICES ASSUME Inv, [ScoringNext]_scoringVars PROVE Kept
    OBVIOUS
  <2> USE DEF Inv, Typed
  <2>1. ASSUME NEW p \in Passes, NEW f \in FeatureNos, Score(p, f) PROVE Kept
    <3>1. \A x \in Records :
            x \in Mismatched(code, f) => mismatch'[f][x].review = mismatch[f][x].review
      BY <2>1 DEF Score, Upsert, RowType
    <3>2. score'[f] = code /\ \A g \in FeatureNos \ {f} : mismatch'[g] = mismatch[g]
      BY <2>1 DEF Score, Upsert
    <3> QED
      BY <3>1, <3>2
  <2>2. ASSUME NEW a \in Reviewers, ReviewWrites(a) PROVE Kept
    <3> DEFINE f == review[a].feature
               x == review[a].record
               old == mismatch[f][x].review
               new == review[a].new
               r == [c \in DOMAIN old |-> IF c \in Changed(a) THEN new[c] ELSE old[c]]
    <3>1. f \in FeatureNos /\ x \in Records /\ review[a].pc = "loaded" /\ review'[a].pc = "idle"
      BY <2>2 DEF ReviewWrites, ReviewHasRow, ReviewCall, IdleReview
    <3>2. old \in ReviewType
      BY <3>1 DEF RowType
    <3>3. r.tag = new.tag \/ r.tag = old.tag
      BY <3>2 DEF ReviewType
    <3>4. mismatch' = mismatch \/ mismatch' = [mismatch EXCEPT ![f][x].review = r]
      BY <2>2, Zenon DEF ReviewWrites
    <3>5. /\ \A g \in FeatureNos, y \in Records :
               g # f \/ y # x => mismatch'[g][y] = mismatch[g][y]
          /\ mismatch'[f][x].review \in {old, r}
      <4> HIDE DEF f, x, r
      <4> QED
        BY <3>1, <3>4 DEF RowType
    <3> QED
      BY <3>1, <3>3, <3>5
  <2>3. CASE RunDiscarded
    BY <2>3 DEF RunDiscarded
  <2>4. CASE UNCHANGED mismatch
    BY <2>4
  <2> QED
    BY <2>1, <2>2, <2>3, <2>4
      DEF ScoringNext, PassStep, Chain, RescoreAdmitted, RescoreSubmitted, Begin, PassRefused, Over,
          PassOver, Broken, RunIsOver, RunResumed, ReviewLoads, Crash, Restart, scoringVars
<1> QED
  BY <1>1, InvHolds, ScoringMoves, PTL DEF LibrarySpec, TagsSurvive
=============================================================================
