--------------------------- MODULE EvaluationPage ---------------------------
(***************************************************************************)
(* The Evaluation page open in one tab (ui/views/evaluation_view.py): the  *)
(* handlers of its controls, the progress timer and the endpoint asks run  *)
(* as coroutines of one event loop over one page, whose every database     *)
(* read ends in a paint.  A read that a later one overtook is dropped      *)
(* (_local_seq), an endpoint answer only when a newer ask is out           *)
(* (_endpoint_seq).                                                        *)
(*                                                                         *)
(* The evaluation is the number of clicks saved on it, the endpoint's      *)
(* answer the number of the ask it answers, and the runs of the            *)
(* evaluation one status.  An evaluation is open all along.                *)
(***************************************************************************)
EXTENDS Naturals

CONSTANTS
  Handlers,     \* handlers of the page's controls that may overlap
  MaxActions    \* bound on what the user does

ASSUME PageAssumption == Handlers \cap {"build", "tick"} = {} /\ MaxActions \in Nat

VARIABLES
  saved,      \* the evaluation, committed
  work,       \* the runs' status, committed
  page,       \* what the page object holds
  screen,     \* what is painted
  coroutine,  \* the handlers, the page's build and the timer's tick
  actions     \* what the user did

pageVars == <<saved, work, page, screen, coroutine, actions>>

Tasks  == Handlers \cup {"build", "tick"}
Kinds  == {"redraw", "reload", "launch", "refresh"}
Active == {"queued", "running"}

Idle == [pc |-> "idle", kind |-> "redraw", seq |-> 0, ask |-> 0, setupOnly |-> FALSE,
         polls |-> FALSE, edits |-> 0, conn |-> 0, runs |-> "none"]

\* The first step of build: the ask is numbered and the read begins.
PageInit ==
  /\ saved = 0
  /\ work \in {"none", "queued"}
  /\ page = [localSeq |-> 1, endpointSeq |-> 1, asking |-> TRUE, loading |-> TRUE,
             fullPending |-> TRUE, timer |-> FALSE, edits |-> 0, conn |-> 0, runs |-> "none"]
  /\ screen = [edits |-> 0, conn |-> 0, runs |-> "none"]
  /\ coroutine = [t \in Tasks |->
       IF t = "build" THEN [Idle EXCEPT !.pc = "read", !.kind = "reload", !.seq = 1, !.ask = 1] ELSE Idle]
  /\ actions = 0

\* Whether anything the page holds is still expected to move.
Settled(held) == held.runs \notin Active
-----------------------------------------------------------------------------
(* What the user does.                                                     *)

\* The frame is empty until the first read is painted.
Painted == coroutine["build"].pc = "read" \/ coroutine["build"].pc = "paint" => coroutine["build"].setupOnly

\* A control was used.
Act(h) ==
  /\ Painted
  /\ coroutine[h].pc = "idle" /\ actions < MaxActions
  /\ actions' = actions + 1
  /\ \E kind \in Kinds :
       coroutine' = [coroutine EXCEPT ![h] = [Idle EXCEPT !.pc = "write", !.kind = kind]]
  /\ UNCHANGED <<saved, work, page, screen>>

\* The service commits; a launch or a resume of what is queued or running is
\* refused, and only one that was accepted starts the polling.
Commits(h) ==
  LET launches == coroutine[h].kind = "launch" /\ work \notin Active IN
  /\ coroutine[h].pc = "write"
  /\ saved' = IF coroutine[h].kind \in {"redraw", "reload"} THEN saved + 1 ELSE saved
  /\ work' = IF launches THEN "queued" ELSE work
  /\ coroutine' = [coroutine EXCEPT ![h].pc = "wrote", ![h].polls = launches]
  /\ UNCHANGED <<page, screen, actions>>

\* redraw, or reload: the ask is numbered in the step that starts the read.
\* "refresh" (and Save of the settings) first forgets what the endpoint said.
Starts(h) ==
  LET asks == coroutine[h].kind # "redraw" IN
  /\ coroutine[h].pc = "wrote"
  /\ page' = [page EXCEPT !.localSeq = @ + 1, !.fullPending = TRUE,
                          !.conn = IF coroutine[h].kind = "refresh" THEN 0 ELSE @,
                          !.endpointSeq = IF asks THEN @ + 1 ELSE @,
                          !.asking = asks \/ @, !.loading = asks \/ @]
  /\ coroutine' = [coroutine EXCEPT ![h].pc = "read", ![h].seq = page'.localSeq,
                                    ![h].ask = IF asks THEN page'.endpointSeq ELSE 0]
  /\ UNCHANGED <<saved, work, screen, actions>>
-----------------------------------------------------------------------------
(* A read of the database and its paint.                                   *)

\* What a read sees of the evaluation and of its runs; the endpoint state it
\* hands to get() is the one held as it asks, a tick's the one held as it began.
Reads(t) ==
  /\ coroutine[t].pc = "read"
  /\ coroutine' = [coroutine EXCEPT ![t].pc = "paint", ![t].edits = saved, ![t].runs = work,
                                    ![t].conn = IF t = "tick" THEN @ ELSE page.conn]
  /\ UNCHANGED <<saved, work, page, screen, actions>>

\* Slip: the read is assigned and painted whoever owns the screen.
OvertakenNever(t) == FALSE

\* A later read of the database has begun.
Overtaken(t) == coroutine[t].seq # page.localSeq

\* Slip: what the endpoint decides is all a setup-only read ever paints.
SetupAlone(t) == coroutine[t].setupOnly

\* Whether a read paints the setup column and nothing else.
PaintsSetupOnly(t) == coroutine[t].setupOnly /\ ~page.fullPending

\* What the page holds, and shows, after a read of the database.
Held(t) ==
  IF Overtaken(t) THEN page
  ELSE [page EXCEPT !.edits = coroutine[t].edits, !.conn = coroutine[t].conn, !.runs = coroutine[t].runs,
                    !.loading = page.asking, !.fullPending = PaintsSetupOnly(t) /\ @]

Shown(t) ==
  IF Overtaken(t) THEN screen
  ELSE [edits |-> coroutine[t].edits, conn |-> coroutine[t].conn,
        runs |-> IF PaintsSetupOnly(t) THEN screen.runs ELSE coroutine[t].runs]

\* A reload now asks the endpoint, the page's build once a run in flight
\* ticks; otherwise the handler is over, and one that submitted work has
\* started the timer.
Paints(t) ==
  LET asks == coroutine[t].ask # 0 /\ ~coroutine[t].setupOnly
      polls == IF asks THEN t = "build" /\ ~Settled(Held(t)) ELSE coroutine[t].polls IN
  /\ coroutine[t].pc = "paint" /\ t # "tick"
  /\ page' = [Held(t) EXCEPT !.timer = @ \/ polls]
  /\ screen' = Shown(t)
  /\ coroutine' = [coroutine EXCEPT ![t] = IF asks THEN [@ EXCEPT !.pc = "socket"] ELSE Idle]
  /\ UNCHANGED <<saved, work, actions>>

\* Slip: whichever answer arrives is taken for the newest.
DroppedNever(t) == FALSE

\* Slip: an answer is also dropped when a read of the database began meanwhile.
DroppedIfOvertaken(t) == coroutine[t].ask # page.endpointSeq \/ Overtaken(t)

\* A newer ask is out.
Dropped(t) == coroutine[t].ask # page.endpointSeq

\* _read_endpoint: stored first, then painted by a read of the setup column.
Answered(t) ==
  /\ coroutine[t].pc = "socket"
  /\ IF Dropped(t)
       THEN /\ page' = [page EXCEPT !.timer = @ \/ coroutine[t].polls]
            /\ coroutine' = [coroutine EXCEPT ![t] = Idle]
       ELSE /\ page' = [page EXCEPT !.conn = coroutine[t].ask, !.asking = FALSE, !.localSeq = @ + 1]
            /\ coroutine' = [coroutine EXCEPT ![t].pc = "read", ![t].seq = page'.localSeq,
                                              ![t].setupOnly = TRUE]
  /\ UNCHANGED <<saved, work, screen, actions>>
-----------------------------------------------------------------------------
(* The timer: one tick at a time.                                          *)

Tick ==
  /\ page.timer /\ coroutine["tick"].pc = "idle"
  /\ coroutine' = [coroutine EXCEPT !["tick"] =
       [Idle EXCEPT !.pc = "read", !.seq = page.localSeq, !.conn = page.conn]]
  /\ UNCHANGED <<saved, work, page, screen, actions>>

\* refresh_progress paints the progress column; dropped or not, the timer
\* stops when nothing the page holds is expected to move.
Ticked ==
  LET read == coroutine["tick"]
      held == IF Overtaken("tick") THEN page
              ELSE [page EXCEPT !.edits = read.edits, !.runs = read.runs] IN
  /\ read.pc = "paint"
  /\ screen' = IF Overtaken("tick") THEN screen ELSE [screen EXCEPT !.runs = read.runs]
  /\ page' = [held EXCEPT !.timer = ~Settled(held)]
  /\ coroutine' = [coroutine EXCEPT !["tick"] = Idle]
  /\ UNCHANGED <<saved, work, actions>>

\* The worker: a run is queued, executed, and over.
WorkerMoves ==
  /\ work \in Active
  /\ work' = IF work = "queued" THEN "running" ELSE "done"
  /\ UNCHANGED <<saved, page, screen, coroutine, actions>>

TaskStep(t) ==
  \/ Reads(t) \/ Paints(t) \/ Answered(t)
  \/ t \in Handlers /\ (Commits(t) \/ Starts(t))

PageNext ==
  \/ \E h \in Handlers : Act(h)
  \/ \E t \in Tasks : TaskStep(t)
  \/ Tick \/ Ticked \/ WorkerMoves

PageSpec == PageInit /\ [][PageNext]_pageVars
-----------------------------------------------------------------------------
(* Properties.                                                             *)

Reading(t) == t # "tick" /\ coroutine[t].pc \in {"read", "paint"}
Quiet      == \A t \in Tasks : coroutine[t].pc = "idle"

\* The values of the page's variables.
PageTypeOK ==
  /\ saved \in 0 .. MaxActions /\ actions \in 0 .. MaxActions
  /\ work \in Active \cup {"none", "done"}
  /\ \A t \in Tasks : coroutine[t].seq <= page.localSeq /\ coroutine[t].ask <= page.endpointSeq

\* A click that was on screen is never painted over by an older read
\* (_local_seq: "an older answer can never be painted over a newer one").
SetupNeverGoesBack == [][screen'.edits >= screen.edits]_pageVars

\* The page says it is done loading only with the newest ask's answer on
\* screen (data-loading, SD55).
LoadingIsTold == ~page.loading => screen.conn = page.endpointSeq

\* Once no read of the database is under way, no full paint is owed: the
\* setup-only read that overtook a full one painted for it (_full_pending).
NoPaintIsLost == (\A t \in Tasks : ~Reading(t) /\ coroutine[t].pc # "wrote") => ~page.fullPending

\* A page that no longer polls does not show a run as still to come or under
\* way (_settled: a screen frozen on a stale row "is the one state this
\* property must never produce").
NeverFrozen == Quiet /\ ~page.timer => screen.runs \notin Active
=============================================================================
