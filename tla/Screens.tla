------------------------------ MODULE Screens ------------------------------
(***************************************************************************)
(* What is shown of the database: the Evaluation, Import, Mismatches and   *)
(* Results pages, which poll it, the pages without a timer, and the task   *)
(* entry a client of the API polls.                                        *)
(*                                                                         *)
(* None of them reads another's state: what one writes reaches the others  *)
(* through the database, which each sees change on its own.  A behaviour   *)
(* of all is checked as one of each, the others at rest.                   *)
(***************************************************************************)
EXTENDS EvaluationPage, JobProgress, ImportPage, MismatchesPage, Tabs

CONSTANTS NFeatures, Labelled, Records, Versions, Passes, NoTag   \* of the run scored

VARIABLES
  outcome, code, up, status, due, score, mismatch, inflight, pass, review,  \* its scoring
  results,  \* a Results page open beside it
  on        \* what is being watched

\* The page has no part in the review of mismatches.
Results == INSTANCE ResultsPage WITH page <- results, Reviewers <- {}, Tags <- {}

resultVars ==
  <<outcome, code, up, status, due, score, mismatch, inflight, pass, review, results>>
screenVars == <<pageVars, vars, importVars, mismatchVars, resultVars, tabVars, on>>

\* The least of its initial states, for a screen that is not watched.
AtRest ==
  /\ on # "evaluation" => work = "none"
  /\ on # "job" => rows = [r \in Runs |-> 0]
  /\ on # "import" => shelf = [d \in Deliveries |-> "none"]
  /\ on # "mismatches" => run.stage = "scored"
  /\ on # "results" =>
       \A v \in Results!Codes, f \in Results!FeatureNos : ~Results!HasCase(v, f)

ScreensInit ==
  /\ on \in {"evaluation", "job", "import", "mismatches", "results"} \cup TabPages
  /\ PageInit /\ Init /\ ImportInit /\ MismatchesInit /\ Results!PageInit /\ TabInit(on)
  /\ AtRest

OnPage(A) ==
  on = "evaluation" /\ A /\ UNCHANGED <<vars, importVars, mismatchVars, resultVars, tabVars, on>>
OnImport(A) ==
  on = "import" /\ A /\ UNCHANGED <<pageVars, vars, mismatchVars, resultVars, tabVars, on>>
OnMismatches(A) ==
  on = "mismatches" /\ A /\ UNCHANGED <<pageVars, vars, importVars, resultVars, tabVars, on>>
OnResults(A) ==
  on = "results" /\ A /\ UNCHANGED <<pageVars, vars, importVars, mismatchVars, tabVars, on>>

ScreensNext ==
  \/ OnPage(PageNext) \/ OnImport(ImportNext) \/ OnMismatches(MismatchesNext)
  \/ OnResults(Results!PageNext)
  \/ on = "job" /\ Next /\ UNCHANGED <<pageVars, importVars, mismatchVars, resultVars, tabVars, on>>
  \/ TabNext(on) /\ UNCHANGED <<pageVars, vars, importVars, mismatchVars, resultVars, on>>

\* The timer of the page and the tick it started.
TimerMoves ==
  \/ OnPage(TaskStep("tick") \/ Tick \/ Ticked)
  \/ OnImport(VisitStep("poll") \/ Polls)
  \/ OnMismatches(ReaderStep("ticking") \/ Ticks)
  \/ OnResults(Results!PageStep)

\* Everything else that has begun: it takes finitely many steps.
BegunMoves ==
  \/ \E t \in Handlers \cup {"build"} : OnPage(TaskStep(t))
  \/ OnImport(JobMoves) \/ \E v \in Hands \cup {"build"} : OnImport(VisitStep(v))
  \/ \E t \in Clickers \cup {"opening"} : OnMismatches(ReaderStep(t))

\* The event loop resumes every coroutine whose query or socket has answered,
\* and both answer: each has a timeout.  It runs the timers, and the jobs the
\* Import page waits for end.
ScreensFairness == WF_screenVars(TimerMoves) /\ WF_screenVars(BegunMoves)

ScreensSpec == ScreensInit /\ [][ScreensNext]_screenVars /\ ScreensFairness
-----------------------------------------------------------------------------
\* Once nothing is under way on a page, it shows what this client will find
\* again, however its handlers overlapped: the delivery, corpus, code list,
\* feature, template or rule set that was picked ("remembered per client so a
\* re-render cannot move the analyst", census_view.py _current_corpus).  And
\* after a reload that nothing ran beside, all that it shows is of one question:
\* the same corpus, and the filters, order and page in force (reload: "Re-read
\* everything this view shows").
PagesAgree == (on = "import" => ShownIsRemembered) /\ TabRemembers(on) /\ TabAgrees(on)

\* Whatever overtakes whatever, the Evaluation page stops saying that it is
\* loading (data-loading: "true from the frame until the newest endpoint ask
\* has been answered and painted").
LoadingEnds == []<>(on = "evaluation" => ~page.loading)

\* Once every delivery is analysed or failed, the Import page stops polling,
\* whatever older status a reload brought back (_analyse: "stops itself the
\* moment it is genuinely true").
ImportSettles ==
  <>[](\A d \in Known : shelf[d] \in {"analysed", "failed"}) => <>[](~held.timer)

\* The Import page does not poll for ever (_analyse: "keep redrawing until it
\* settles").
PollingIsOver == []<>(~held.timer)

\* Once its run is scored or gone and no pass is under way, the Mismatches page
\* stops polling, whatever it had read meanwhile (_start_polling: "then stop").
MismatchesSettle ==
  <>[](run.stage \in {"scored", "gone"} /\ run.passes = 0) => <>[](~sight.timer)

\* Once nothing moves any more, an open Results page stops polling: it does not
\* re-read the database for as long as the tab is open (_start_polling).
ResultsSettle == Results!PageSettles
=============================================================================
