----------------------------- MODULE ImportPage -----------------------------
(***************************************************************************)
(* The Import page open in one tab (ui/views/import_view.py): its          *)
(* handlers and the polling timer are coroutines over one page object.     *)
(* Every one ends in a reload, which lists the deliveries, picks the one   *)
(* this client remembers, reads its files, and draws what the object then  *)
(* holds.  Nothing orders two reloads: the one answered last stays.        *)
(*                                                                         *)
(* A delivery is the number of its registration.                           *)
(***************************************************************************)
EXTENDS Naturals

CONSTANTS
  Hands,          \* handlers that may overlap
  Sheets,         \* files with a row on the page
  MaxDeliveries,  \* bound: deliveries ever registered
  MaxClicks,      \* bound on what the user does
  Nobody          \* no file

ASSUME ImportAssumption ==
  /\ {MaxDeliveries, MaxClicks} \subseteq Nat /\ MaxDeliveries > 0
  /\ Nobody \notin Sheets

VARIABLES
  shelf,   \* the delivery table: a status, "none" before there is a row, or "gone"
  jobs,    \* analyses of each delivery, submitted and working
  key,     \* the delivery app.storage.client remembers; 0 is none
  held,    \* what the page object holds
  visit,   \* the coroutines
  clicks   \* what the user did

importVars == <<shelf, jobs, key, held, visit, clicks>>

Deliveries == 1 .. MaxDeliveries
Visitors   == Hands \cup {"build", "poll"}
Known      == {d \in Deliveries : shelf[d] \notin {"none", "gone"}}

Away    == [pc |-> "idle", does |-> "turn", on |-> 0, file |-> Nobody, seen |-> [d \in {} |-> "none"]]
NewPage == [delivery |-> 0, status |-> "none", files |-> 0, busy |-> Nobody, armed |-> Nobody,
            freezing |-> FALSE, timer |-> FALSE]

\* Nothing, or one delivery that an earlier visit brought to its end.
ImportInit ==
  /\ shelf \in [Deliveries -> {"none", "analysed", "failed"}]
  /\ \A d \in Deliveries : d > 1 => shelf[d] = "none"
  /\ jobs = [d \in Deliveries |-> [submitted |-> 0, working |-> 0]]
  /\ key = 0 /\ held = NewPage /\ clicks = 0
  /\ visit = [v \in Visitors |-> IF v = "build" THEN [Away EXCEPT !.pc = "list"] ELSE Away]

Goes(v, to) == visit' = [visit EXCEPT ![v] = to]

\* The coroutine awaits next.
Awaits(v, pc) == Goes(v, [visit[v] EXCEPT !.pc = pc])

\* reload, up to its first await: any action disarms a pending delete.
Reloads(v, page, job) ==
  /\ held' = [page EXCEPT !.armed = Nobody]
  /\ Goes(v, [job EXCEPT !.pc = "list"])

\* The coroutine is over; an exception no one catches ends it too.
Ends(v) == Goes(v, Away)
-----------------------------------------------------------------------------
(* What the user does.                                                     *)

Clicks(h) ==
  /\ visit[h].pc = "idle" /\ clicks < MaxClicks
  /\ visit["build"].pc = "idle"
  /\ clicks' = clicks + 1

\* _sort, _file_page, _corpora_page and their like: only a reload.
Turn(h) ==
  /\ Clicks(h)
  /\ Reloads(h, held, Away)
  /\ UNCHANGED <<shelf, jobs, key>>

\* _confirm_delete: the row is armed, and any other disarmed.
Arm(h, f) ==
  /\ Clicks(h) /\ held.delivery # 0 /\ held.busy # f
  /\ held' = [held EXCEPT !.armed = f]
  /\ UNCHANGED <<shelf, jobs, key, visit>>

\* _toggle and _select_all.
Toggle(h) ==
  /\ Clicks(h) /\ held.delivery # 0
  /\ Goes(h, [Away EXCEPT !.pc = "select", !.on = held.delivery])
  /\ UNCHANGED <<shelf, jobs, key, held>>

\* _reparse_file from an idle row, _delete_file from an armed one: the row is
\* shown busy before the service is called.
ActOnRow(h, f) ==
  /\ Clicks(h) /\ held.delivery # 0 /\ held.busy # f
  /\ held' = [held EXCEPT !.busy = f, !.armed = Nobody]
  /\ Goes(h, [Away EXCEPT !.pc = "row", !.does = "row", !.on = held.delivery, !.file = f])
  /\ UNCHANGED <<shelf, jobs, key>>

\* _create_corpus, from its button or from the dialog of the dry run, which
\* may have been opened before the button was pressed.
Create(h) ==
  /\ Clicks(h) /\ held.delivery # 0 /\ held.status = "analysed"
  /\ held' = [held EXCEPT !.freezing = TRUE]
  /\ Goes(h, [Away EXCEPT !.pc = "freeze", !.does = "create", !.on = held.delivery])
  /\ UNCHANGED <<shelf, jobs, key>>

\* _upload into the delivery on screen.
Upload(h) ==
  /\ Clicks(h) /\ held.delivery # 0
  /\ Goes(h, [Away EXCEPT !.pc = "add", !.does = "intake", !.on = held.delivery])
  /\ UNCHANGED <<shelf, jobs, key, held>>

\* _register_host_path, and an upload with no upload delivery on screen.
Register(h) ==
  /\ Clicks(h)
  /\ Goes(h, [Away EXCEPT !.pc = "register", !.does = "intake"])
  /\ UNCHANGED <<shelf, jobs, key, held>>

\* The delivery is discarded from another screen.
Discard(d) ==
  /\ clicks < MaxClicks /\ d \in Known
  /\ clicks' = clicks + 1
  /\ shelf' = [shelf EXCEPT ![d] = "gone"]
  /\ UNCHANGED <<jobs, key, held, visit>>
-----------------------------------------------------------------------------
(* The service calls of the handlers.                                      *)

\* set_selected answers with the delivery; without one it raises.
Selects(h) ==
  /\ visit[h].pc = "select"
  /\ IF visit[h].on \in Known
       THEN Reloads(h, [held EXCEPT !.delivery = visit[h].on, !.status = shelf[visit[h].on]], visit[h])
       ELSE Ends(h) /\ UNCHANGED held
  /\ UNCHANGED <<shelf, jobs, key, clicks>>

\* Done, refused by the service, or an error of the store, which is not a
\* ServiceError: reparse_file of missing bytes, remove_file likewise.
RowAnswered(h) ==
  /\ visit[h].pc = "row"
  /\ \/ visit[h].on \in Known /\ Reloads(h, [held EXCEPT !.busy = Nobody], visit[h])
     \/ Ends(h) /\ held' = [held EXCEPT !.busy = Nobody]
     \/ Ends(h) /\ UNCHANGED held
  /\ UNCHANGED <<shelf, jobs, key, clicks>>

\* freeze: frozen, refused, or the bytes are missing.
FreezeAnswered(h) ==
  /\ visit[h].pc = "freeze"
  /\ \/ visit[h].on \in Known /\ Reloads(h, [held EXCEPT !.freezing = FALSE], visit[h])
     \/ Ends(h) /\ held' = [held EXCEPT !.freezing = FALSE]
     \/ Ends(h) /\ UNCHANGED held
  /\ UNCHANGED <<shelf, jobs, key, clicks>>

\* register commits, or refuses the directory; the first file of an upload may
\* then be refused, and the delivery stays as it is.
Registers(h) ==
  /\ visit[h].pc = "register"
  /\ \/ Ends(h) /\ UNCHANGED shelf
     \/ \E d \in Deliveries :
          /\ shelf[d] = "none" /\ \A e \in Deliveries : e < d => shelf[e] # "none"
          /\ shelf' = [shelf EXCEPT ![d] = "registered"]
          /\ \/ Goes(h, [visit[h] EXCEPT !.pc = "remember", !.on = d])
             \/ Ends(h)
  /\ UNCHANGED <<jobs, key, held, clicks>>

\* add_file, or its refusal.
Adds(h) ==
  /\ visit[h].pc = "add"
  /\ (visit[h].on \in Known /\ Awaits(h, "remember")) \/ Ends(h)
  /\ UNCHANGED <<shelf, jobs, key, held, clicks>>

Remembers(h) ==
  /\ visit[h].pc = "remember"
  /\ key' = visit[h].on
  /\ Awaits(h, "analyse")
  /\ UNCHANGED <<shelf, jobs, held, clicks>>

\* DeliveryService.analyse submits the job and returns; then the page reloads.
Analyses(h) ==
  /\ visit[h].pc = "analyse"
  /\ IF visit[h].on \in Known
       THEN /\ jobs' = [jobs EXCEPT ![visit[h].on].submitted = @ + 1]
            /\ Reloads(h, held, visit[h])
       ELSE Ends(h) /\ UNCHANGED <<jobs, held>>
  /\ UNCHANGED <<shelf, key, clicks>>
-----------------------------------------------------------------------------
(* reload: what it reads, and what it makes of the answers.                *)

\* list_deliveries sees the table as it is; the coroutine resumes later.
Lists(v) ==
  /\ visit[v].pc = "list"
  /\ Goes(v, [visit[v] EXCEPT !.pc = "listed", !.seen = [d \in Known |-> shelf[d]]])
  /\ UNCHANGED <<shelf, jobs, key, held, clicks>>

Newest(seen) == CHOOSE d \in DOMAIN seen : \A e \in DOMAIN seen : e <= d

\* _current_delivery: the remembered one, else the newest; what is picked is
\* remembered, and forgotten when there is none.
Picked(seen) ==
  IF seen = <<>> THEN 0 ELSE IF key \in DOMAIN seen THEN key ELSE Newest(seen)

\* Slip: what is picked is remembered only by a client that remembers none.
PicksUnremembered(v) ==
  LET seen == visit[v].seen  now == Picked(seen) IN
  /\ visit[v].pc = "listed"
  /\ key' = IF key = 0 THEN now ELSE key
  /\ held' = [held EXCEPT !.delivery = now, !.status = IF now = 0 THEN "none" ELSE seen[now]]
  /\ Goes(v, [visit[v] EXCEPT !.pc = "files", !.on = now, !.seen = Away.seen])
  /\ UNCHANGED <<shelf, jobs, clicks>>

Picks(v) ==
  LET seen == visit[v].seen IN
  /\ visit[v].pc = "listed"
  /\ key' = Picked(seen)
  /\ held' = [held EXCEPT !.delivery = key', !.status = IF key' = 0 THEN "none" ELSE seen[key']]
  /\ Goes(v, [visit[v] EXCEPT !.pc = "files", !.on = key', !.seen = Away.seen])
  /\ UNCHANGED <<shelf, jobs, clicks>>

\* Slip: only a success ends the polling.
SettledOnSuccess(page) == page.delivery = 0 \/ page.status = "analysed"

\* _settled
DeliverySettled(page) == page.delivery = 0 \/ page.status \in {"analysed", "failed"}

\* files of the delivery picked, the corpora, and the redraw; files of one
\* that is gone raise.  _analyse then starts the timer unless it runs; a tick
\* stops it once what the page holds is settled.
Draws(v) ==
  LET drawn == [held EXCEPT !.files = visit[v].on] IN
  /\ visit[v].pc = "files"
  /\ held' = IF visit[v].on # 0 /\ visit[v].on \notin Known THEN held
             ELSE CASE v = "poll" -> [drawn EXCEPT !.timer = ~DeliverySettled(drawn)]
                    [] v # "poll" /\ visit[v].does = "intake" -> [drawn EXCEPT !.timer = TRUE]
                    [] OTHER -> drawn
  /\ Ends(v)
  /\ UNCHANGED <<shelf, jobs, key, clicks>>

\* One tick at a time.
Polls ==
  /\ held.timer /\ visit["poll"].pc = "idle"
  /\ Reloads("poll", held, Away)
  /\ UNCHANGED <<shelf, jobs, key, clicks>>
-----------------------------------------------------------------------------
(* The analysis of a delivery, as the page can tell it (see Delivery).     *)

JobStarts(d) ==
  /\ jobs[d].submitted > 0
  /\ jobs' = [jobs EXCEPT ![d].submitted = @ - 1, ![d].working = IF d \in Known THEN @ + 1 ELSE @]
  /\ shelf' = IF d \in Known THEN [shelf EXCEPT ![d] = "analysing"] ELSE shelf
  /\ UNCHANGED <<key, held, visit, clicks>>

JobEnds(d) ==
  /\ jobs[d].working > 0
  /\ jobs' = [jobs EXCEPT ![d].working = @ - 1]
  /\ \/ d \in Known /\ \E s \in {"analysed", "failed"} : shelf' = [shelf EXCEPT ![d] = s]
     \/ d \notin Known /\ UNCHANGED shelf
  /\ UNCHANGED <<key, held, visit, clicks>>

JobMoves == \E d \in Deliveries : JobStarts(d) \/ JobEnds(d)

Uses(h) ==
  \/ Turn(h) \/ Toggle(h) \/ Create(h) \/ Upload(h) \/ Register(h)
  \/ \E f \in Sheets : Arm(h, f) \/ ActOnRow(h, f)

VisitStep(v) ==
  \/ Lists(v) \/ Picks(v) \/ Draws(v)
  \/ v \in Hands /\ \/ Selects(v) \/ RowAnswered(v) \/ FreezeAnswered(v)
                    \/ Registers(v) \/ Adds(v) \/ Remembers(v) \/ Analyses(v)

ImportNext ==
  \/ \E h \in Hands : Uses(h)
  \/ \E d \in Deliveries : Discard(d)
  \/ \E v \in Visitors : VisitStep(v)
  \/ Polls \/ JobMoves

ImportSpec == ImportInit /\ [][ImportNext]_importVars
-----------------------------------------------------------------------------
(* Properties.                                                             *)

Calm == \A v \in Visitors : visit[v].pc = "idle"

\* The values of the page's variables; a coroutine is at one of its awaits.
ImportTypeOK ==
  /\ key \in 0 .. MaxDeliveries /\ clicks \in 0 .. MaxClicks
  /\ held.delivery \in 0 .. MaxDeliveries /\ held.files \in 0 .. MaxDeliveries
  /\ {held.busy, held.armed} \subseteq Sheets \cup {Nobody}
  /\ \A d \in Deliveries : jobs[d].submitted + jobs[d].working <= MaxClicks

\* A row spins, and the button says Creating, only while a handler works on it
\* (_render_row_actions: "a spinner while ... is in flight").
SpinnersAreUnderWay ==
  /\ held.busy # Nobody => \E h \in Hands : visit[h].pc = "row" /\ visit[h].file = held.busy
  /\ held.freezing => \E h \in Hands : visit[h].pc = "freeze"

\* However reloads overtake each other, the delivery on a calm page is the one
\* that the client will find again (_current_delivery: "remembering it per
\* client").
ShownIsRemembered == Calm /\ key \in Known => held.delivery = key

\* A row whose action is under way offers no other (_render_row_actions:
\* "keyed by file id so only this row loses its controls").
WorkedRowsSpin ==
  \A h \in Hands : visit[h].pc = "row" => held.busy = visit[h].file

\* The file cards are of the delivery the header names.
FilesAreOfTheDelivery == Calm /\ held.delivery \in Known => held.files = held.delivery

\* A delivery is not swapped for an older one while both are there
\* (_current_delivery: "a re-render cannot silently move the analyst to a
\* different one").
NeverMovedBack ==
  [][key' # 0 /\ key' < key => key \notin Known]_importVars

\* A calm page that no longer polls shows the status its delivery has
\* (_analyse: polls "until the delivery's own status is terminal").
AnalysisIsFollowed ==
  Calm /\ ~held.timer /\ held.delivery \in Known /\ (\A d \in Deliveries : jobs[d].submitted = 0) =>
    held.status = shelf[held.delivery]
=============================================================================
