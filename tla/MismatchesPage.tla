--------------------------- MODULE MismatchesPage ---------------------------
(***************************************************************************)
(* The Mismatches page open in one tab (ui/views/mismatches_view.py) over  *)
(* one run of an evaluation.  A reload forgets what the page holds, reads  *)
(* the scoring status, then the list, then the open row's detail, draws    *)
(* and decides whether to poll; reloads overlap each other and the         *)
(* toggling of a row, and all of them write one page object.               *)
(***************************************************************************)
EXTENDS Naturals

CONSTANTS
  Clickers,    \* handlers that may overlap
  Wrong,       \* the mismatches of the run, once scored
  MaxGestures, \* bound on what the user does
  NoRow        \* no open row

ASSUME MismatchesAssumption == MaxGestures \in Nat /\ NoRow \notin Wrong

VARIABLES
  run,      \* the evaluation's run as committed, and its passes
  open,     \* MismatchesState.open_mismatch_id, kept by the client
  sight,    \* what the page object holds
  drawn,    \* what it held when it was last drawn
  reader,   \* the coroutines
  gestures  \* what the user did

mismatchVars == <<run, open, sight, drawn, reader, gestures>>

Readers == Clickers \cup {"opening", "ticking"}

\* A status row, and the empty tuple that stands for none.
Untold == [told |-> FALSE, finished |-> FALSE, running |-> FALSE, scored |-> FALSE]
Unread == [read |-> FALSE, rows |-> {}]

Resting == [pc |-> "idle", then |-> "reload", row |-> NoRow, status |-> Untold, list |-> Unread]

MismatchesInit ==
  /\ run \in [stage : {"running", "scored"}, passes : {0}, scored : {FALSE, TRUE}]
  /\ run.scored <=> run.stage = "scored"
  /\ open = NoRow /\ gestures = 0
  /\ sight = [status |-> Untold, list |-> Unread, detail |-> NoRow, timer |-> FALSE]
  /\ drawn = [status |-> Untold, list |-> Unread, open |-> NoRow]
  /\ reader = [t \in Readers |-> IF t = "opening" THEN [Resting EXCEPT !.pc = "status"] ELSE Resting]

Rests(t)      == reader' = [reader EXCEPT ![t] = Resting]
Continues(t, job) == reader' = [reader EXCEPT ![t] = job]

\* reload, up to its first await.
Forgets(t) ==
  /\ sight' = [sight EXCEPT !.status = Untold, !.list = Unread]
  /\ Continues(t, [Resting EXCEPT !.pc = "status"])

\* _settled
AllSettled(s) == ~(s.told /\ (s.running \/ ~s.finished))

\* _render
Drawing(s, o) == drawn' = [status |-> s.status, list |-> s.list, open |-> o]

\* Slip: a page that is settled keeps the timer it has.
FinishesPolling(t, s, o) ==
  LET ends == [s EXCEPT !.timer = @ \/ (reader[t].then = "reload" /\ ~AllSettled(s.status))] IN
  /\ sight' = ends /\ open' = o /\ Drawing(ends, o) /\ Rests(t)

\* The coroutine draws; a reload then starts the timer or stops it.
Finishes(t, s, o) ==
  LET ends == [s EXCEPT !.timer = IF reader[t].then = "reload" THEN ~AllSettled(s.status) ELSE @] IN
  /\ sight' = ends /\ open' = o /\ Drawing(ends, o) /\ Rests(t)

\* _read_detail, up to its await: a row that the page does not hold is closed.
SeeksDetail(t, job, s, o) ==
  IF o \in s.list.rows
    THEN /\ sight' = s /\ open' = o
         /\ Continues(t, [job EXCEPT !.pc = "detail", !.row = o])
         /\ UNCHANGED drawn
    ELSE Finishes(t, [s EXCEPT !.detail = NoRow], NoRow)
-----------------------------------------------------------------------------
(* What the user does.                                                     *)

Gesture(c) ==
  /\ reader[c].pc = "idle" /\ reader["opening"].pc = "idle"
  /\ gestures < MaxGestures /\ gestures' = gestures + 1

\* _sort, _page, _pick_run and their like close the detail and reload.
Refilter(c) ==
  /\ Gesture(c)
  /\ open' = NoRow
  /\ Forgets(c)
  /\ UNCHANGED <<run, drawn>>

\* _tag, _clear: the service writes, then a reload.
Tag(c) ==
  /\ Gesture(c) /\ drawn.list.rows # {}
  /\ Continues(c, [Resting EXCEPT !.pc = "writing"])
  /\ UNCHANGED <<run, open, sight, drawn>>

\* _rescore, offered by the card of a run whose pass left nothing.
Rescore(c) ==
  /\ Gesture(c) /\ drawn.list.read
  /\ drawn.status.finished /\ ~drawn.status.running /\ ~drawn.status.scored
  /\ Continues(c, [Resting EXCEPT !.pc = "submitting"])
  /\ UNCHANGED <<run, open, sight, drawn>>

\* _toggle of a row on screen: opened, or closed when it is the open one.
Toggles(c, m) ==
  /\ Gesture(c) /\ m \in drawn.list.rows
  /\ IF open = m
       THEN /\ sight' = [sight EXCEPT !.detail = NoRow] /\ open' = NoRow
            /\ Drawing(sight', NoRow) /\ UNCHANGED reader
       ELSE IF m \in sight.list.rows
         THEN /\ open' = m
              /\ Continues(c, [Resting EXCEPT !.pc = "detail", !.then = "toggle", !.row = m])
              /\ UNCHANGED <<sight, drawn>>
         ELSE /\ sight' = [sight EXCEPT !.detail = NoRow] /\ open' = NoRow
              /\ Drawing(sight', NoRow) /\ UNCHANGED reader
  /\ UNCHANGED run

\* The evaluation is discarded from another screen.
Discarded ==
  /\ gestures < MaxGestures /\ gestures' = gestures + 1
  /\ run.stage # "gone" /\ run.passes = 0 /\ run.stage # "running"
  /\ run' = [run EXCEPT !.stage = "gone", !.scored = FALSE]
  /\ UNCHANGED <<open, sight, drawn, reader>>
-----------------------------------------------------------------------------
(* The coroutines.                                                         *)

\* A tag of a mismatch that is gone raises.
Writes(c) ==
  /\ reader[c].pc = "writing"
  /\ IF run.stage = "gone" THEN Rests(c) /\ UNCHANGED sight ELSE Forgets(c)
  /\ UNCHANGED <<run, open, drawn, gestures>>

Submits(c) ==
  /\ reader[c].pc = "submitting"
  /\ run' = IF run.stage \in {"done", "scored"} THEN [run EXCEPT !.passes = @ + 1] ELSE run
  /\ Forgets(c)
  /\ UNCHANGED <<open, drawn, gestures>>

\* scoring_status answers as the table is; NotFoundError ends in the same draw,
\* with nothing told.
AsksStatus(t) ==
  /\ reader[t].pc = "status"
  /\ Continues(t, [reader[t] EXCEPT !.pc = "told", !.status =
       IF run.stage = "gone" THEN Untold
       ELSE [told |-> TRUE, finished |-> run.stage \in {"done", "scored"}, running |-> run.passes > 0,
             scored |-> run.scored]])
  /\ UNCHANGED <<run, open, sight, drawn, gestures>>

HearsStatus(t) ==
  LET s == [sight EXCEPT !.status = IF reader[t].status.told THEN reader[t].status ELSE @] IN
  /\ reader[t].pc = "told"
  /\ IF reader[t].status.told
       THEN sight' = s /\ Continues(t, [reader[t] EXCEPT !.pc = "list"]) /\ UNCHANGED <<open, drawn>>
       ELSE SeeksDetail(t, reader[t], [s EXCEPT !.list = Unread], open)
  /\ UNCHANGED <<run, gestures>>

\* list_mismatches: the rows of a scored run.
AsksList(t) ==
  /\ reader[t].pc = "list"
  /\ Continues(t, [reader[t] EXCEPT !.pc = "listed", !.list =
       [read |-> run.stage # "gone", rows |-> IF run.scored THEN Wrong ELSE {}]])
  /\ UNCHANGED <<run, open, sight, drawn, gestures>>

HearsList(t) ==
  /\ reader[t].pc = "listed"
  /\ SeeksDetail(t, reader[t], [sight EXCEPT !.list = reader[t].list], open)
  /\ UNCHANGED <<run, gestures>>

\* The detail asked for, whichever row is open by now; one that is gone closes
\* the open row.
HearsDetail(t) ==
  /\ reader[t].pc = "detail"
  /\ IF run.stage = "gone" THEN Finishes(t, [sight EXCEPT !.detail = NoRow], NoRow)
     ELSE Finishes(t, [sight EXCEPT !.detail = reader[t].row], open)
  /\ UNCHANGED <<run, gestures>>

Ticks ==
  /\ sight.timer /\ reader["ticking"].pc = "idle"
  /\ Forgets("ticking")
  /\ UNCHANGED <<run, open, drawn, gestures>>
-----------------------------------------------------------------------------
(* What is watched: the run ends, its pass is submitted a moment later, and*)
(* every pass ends, though one that breaks writes nothing.                  *)

RunMoves ==
  /\ \/ run.stage = "running" /\ run' = [run EXCEPT !.stage = "done"]
     \/ run.stage = "running" /\ run' = [run EXCEPT !.stage = "failed"]
     \/ run.stage = "done" /\ run' = [run EXCEPT !.stage = "scored", !.passes = @ + 1]
     \/ run.passes > 0 /\ \E wrote \in BOOLEAN :
          run' = [run EXCEPT !.passes = @ - 1, !.scored = @ \/ (wrote /\ run.stage # "gone")]
  /\ UNCHANGED <<open, sight, drawn, reader, gestures>>

Gestures(c) ==
  \/ Refilter(c) \/ Tag(c) \/ Rescore(c)
  \/ \E m \in Wrong : Toggles(c, m)

ReaderStep(t) ==
  \/ AsksStatus(t) \/ HearsStatus(t) \/ AsksList(t) \/ HearsList(t) \/ HearsDetail(t)
  \/ t \in Clickers /\ (Writes(t) \/ Submits(t))

MismatchesNext ==
  \/ \E c \in Clickers : Gestures(c)
  \/ \E t \in Readers : ReaderStep(t)
  \/ Discarded \/ Ticks \/ RunMoves

MismatchesSpec == MismatchesInit /\ [][MismatchesNext]_mismatchVars
-----------------------------------------------------------------------------
(* Properties.                                                             *)

Undisturbed == \A t \in Readers : reader[t].pc = "idle"

\* The values of the page's variables.
MismatchesTypeOK ==
  /\ open \in Wrong \cup {NoRow} /\ sight.detail \in Wrong \cup {NoRow}
  /\ run.stage \in {"running", "failed", "done", "scored", "gone"} /\ run.passes \in 0 .. MaxGestures + 1
  /\ {sight.list.rows, drawn.list.rows} \subseteq {{}, Wrong}
  /\ gestures \in 0 .. MaxGestures

\* However reloads overlap, a page left alone polls exactly if what it holds is
\* still expected to move: the last to write it decides (_start_polling: "then
\* stop").
PollsWhatItHolds == Undisturbed => (sight.timer <=> ~AllSettled(sight.status))

\* A page left alone shows what it holds, whichever coroutine drew it.
DrawnIsHeld ==
  Undisturbed => drawn = [status |-> sight.status, list |-> sight.list, open |-> open]

\* "No mismatches in this run." is said of a run that was scored (__init__:
\* "a false sentence, on the screen where a human decides").
CleanIsScored ==
  drawn.list.read /\ drawn.list.rows = {} /\ (drawn.status.told => drawn.status.scored) =>
    run.scored \/ run.stage = "gone"

\* The open row has its own detail under it (_toggle: "one at a time").
OpenRowHasItsDetail == Undisturbed /\ open # NoRow => sight.detail = open

\* A row the user opened is open or was closed by the user; a reload of a list
\* that has it does not close it.
OpenedStaysOpen ==
  [][open # NoRow /\ open' = NoRow /\ run.scored => gestures' # gestures]_mismatchVars

\* A page left alone with its timer off shows the end of the scoring
\* (_settled: "waiting for two things in sequence").
PassIsAwaited ==
  Undisturbed /\ ~sight.timer /\ sight.status.told /\ run.passes > 0 => sight.status.running
=============================================================================
