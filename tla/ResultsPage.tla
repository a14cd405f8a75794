---------------------------- MODULE ResultsPage ----------------------------
(***************************************************************************)
(* A Results page open beside the scoring of its run                       *)
(* (ra2/ui/views/results/__init__.py over ScoringService.status): it reads *)
(* the run, its scored features and the in-flight mark one after the       *)
(* other, says in words what it saw, and polls until it takes what it saw  *)
(* for settled.  A reload the user asks for waits for the one in progress. *)
(***************************************************************************)
EXTENDS Scoring

VARIABLE page

pvars == <<scoringVars, page>>

Closed == [pc |-> "closed", ticked |-> FALSE, run |-> "absent", scored |-> 0, running |-> FALSE,
           timer |-> FALSE, rechecked |-> FALSE, stalledReads |-> 0]

PageInit == ScoringInit /\ page = Closed

\* What ScoringStatusView makes of one reading.
IsSettled  == page.run = "done" /\ Scoreable # {} /\ ~page.running
Stalled    == IsSettled /\ page.scored = 0
Incomplete == IsSettled /\ 0 < page.scored /\ ~IsScored(page.scored)

StartRead(ticked) ==
  page' = [page EXCEPT !.pc = "run", !.ticked = ticked]

Open ==
  /\ up /\ page.pc = "closed"
  /\ StartRead(FALSE)
  /\ UNCHANGED scoringVars

\* A tab switch or a Re-score reloads the page.
UserReload ==
  /\ page.pc = "shown"
  /\ StartRead(FALSE)
  /\ UNCHANGED scoringVars

Poll ==
  /\ page.pc = "shown" /\ page.timer
  /\ StartRead(TRUE)
  /\ UNCHANGED scoringVars

\* A run that is gone is no row of the page: the poll stops.
ReadRun ==
  /\ page.pc = "run"
  /\ page' = [page EXCEPT !.pc = "scored", !.run = status]
  /\ UNCHANGED scoringVars

\* scored_feature_ids: features with rows of any kind
ReadScored ==
  /\ page.pc = "scored"
  /\ page' = [page EXCEPT !.pc = "mark", !.scored = ScoredCount]
  /\ UNCHANGED scoringVars

\* _scoreable_count was awaited in between
ReadMark ==
  /\ page.pc = "mark"
  /\ page' = [page EXCEPT !.pc = "settling", !.running = inflight > 0]
  /\ UNCHANGED scoringVars

\* One evaluation of the _settled property, with its side effect.
Moving        == page.running \/ page.run \in {"running", "partial"}
SpendsRecheck == ~Moving /\ Stalled /\ ~page.rechecked

\* Readings in a row that found the run stalled, counted up to two.
StalledReads  == IF ~Stalled THEN 0 ELSE IF page.stalledReads = 0 THEN 1 ELSE 2

\* Slip: the extra read is never spent.
SettleForgets ==
  /\ page.pc = "settling"
  /\ page' = [page EXCEPT !.pc = "shown", !.timer = Moving \/ SpendsRecheck,
                          !.stalledReads = StalledReads]
  /\ UNCHANGED scoringVars

\* reload ends in _start_polling, which evaluates _settled; a tick then
\* evaluates it once more.
Settle ==
  LET keepsOn == IF page.ticked THEN Moving ELSE Moving \/ SpendsRecheck IN
  /\ page.pc = "settling"
  /\ page' = [page EXCEPT !.pc = "shown", !.timer = keepsOn,
                          !.rechecked = @ \/ SpendsRecheck,
                          !.stalledReads = StalledReads]
  /\ UNCHANGED scoringVars

PageStep == Poll \/ ReadRun \/ ReadScored \/ ReadMark \/ Settle

PageNext ==
  \/ ScoringNext /\ page' = IF up' THEN page ELSE Closed
  \/ Open \/ UserReload \/ PageStep

PageSpec == PageInit /\ [][PageNext]_pvars

-----------------------------------------------------------------------------
(* Properties.                                                             *)

\* Once nothing moves any more, an open page stops polling: it does not
\* re-read the database for as long as the tab is open (_start_polling).
PageSettles ==
  <>[](up /\ status \in {"done", "absent"} /\ ~due /\ inflight = 0) => []<>~page.timer

\* "Partly scored." is said of a run that was partly scored when the reading
\* ended (INCOMPLETE_BODY: "some features have scores and some have none").
PartlyScoredIsTrue ==
  [][page.pc = "mark" /\ Incomplete' => ~IsScored(ScoredCount)]_pvars

\* A page that gives up on a stalled run has seen it stalled in two readings
\* (_start_polling: the stalled state "gets one more tick").
StalledSeenTwice ==
  page.pc = "shown" /\ Stalled /\ ~page.timer => page.stalledReads >= 2
=============================================================================
