---------------------------- MODULE JobProgress ----------------------------
(***************************************************************************)
(* What a poller of GET /tasks/{id} sees of one job: the task runner's     *)
(* progress table (infra/tasks.py) fed by the runs of one evaluation, each *)
(* reporting at an offset (run_service._execute_serially, _OffsetReporter).*)
(*                                                                         *)
(* What a run reports is any count it once read of its committed rows:     *)
(* RecordLoop shows that two of its workers may report in either order.    *)
(***************************************************************************)
EXTENDS Naturals, FiniteSets

CONSTANTS NRuns, NRecords

ASSUME JobAssumption == NRuns \in Nat \ {0} /\ NRecords \in Nat

Runs == 1 .. NRuns

VARIABLES
  rows,   \* committed extraction rows of each run
  at,     \* the run the job is executing; past the last when none is left
  pc,     \* where the job's coroutine is
  base,   \* rows of the runs already executed
  grand,  \* the job's total, summed once
  task    \* TaskProgress

vars == <<rows, at, pc, base, grand, task>>

\* Every committed row of every run, each by its place in its run.
Committed == Cardinality({cell \in Runs \X (1 .. NRecords) : cell[2] <= rows[cell[1]]})

Terminal == {"ok", "failed"}

\* submit: the table entry is there before the coroutine first runs.
Init ==
  /\ rows \in [Runs -> 0 .. NRecords]
  /\ at = 1
  /\ pc = "submitted"
  /\ base = 0
  /\ grand = 0
  /\ task = [status |-> "pending", done |-> 0, total |-> 0]

Bigger(m, n) == IF m >= n THEN m ELSE n

\* mark_running, up to the first await of the work.
MarkRunning ==
  /\ pc = "submitted" /\ pc' = "counting"
  /\ task' = [task EXCEPT !.status = "running"]
  /\ UNCHANGED <<rows, at, base, grand>>

\* done + pending of every run is the number of records in its scope.
CountTotals ==
  /\ pc = "counting" /\ pc' = "between"
  /\ grand' = NRuns * NRecords
  /\ UNCHANGED <<rows, at, base, task>>

\* Stopped while it was queued: the job passes over it.
SkipRun ==
  /\ pc = "between" /\ at \in Runs
  /\ at' = at + 1
  /\ UNCHANGED <<rows, pc, base, grand, task>>

BeginRun ==
  /\ pc = "between" /\ at \in Runs
  /\ pc' = "executing"
  /\ UNCHANGED <<rows, at, base, grand, task>>

CommitRow ==
  /\ pc = "executing"
  /\ rows[at] < NRecords
  /\ rows' = [rows EXCEPT ![at] = @ + 1]
  /\ UNCHANGED <<at, pc, base, grand, task>>

\* Slip: the table trusts the work to report in order.
UpdateAsReported(done, total) ==
  task' = [task EXCEPT !.status = "running", !.done = done, !.total = total]

\* Slip: the table adds the offset the reporter already added.
UpdateAtOffset(done, total) ==
  task' = [task EXCEPT !.status = "running", !.done = Bigger(done + base, @), !.total = total]

\* _ProgressTable.update
Update(done, total) ==
  IF task.status \in Terminal THEN UNCHANGED task
  ELSE task' = [task EXCEPT !.status = "running",
                            !.done = Bigger(done, @),
                            !.total = IF total = 0 THEN @ ELSE total]

\* A count read earlier may be reported after a later one.
ReportRow ==
  /\ pc = "executing"
  /\ \E count \in 0 .. rows[at] : Update(base + count, grand)
  /\ UNCHANGED <<rows, at, pc, base, grand>>

\* Slip: the base moves by what the run set out to do.
EndRunByScope ==
  /\ pc = "executing" /\ pc' = "between"
  /\ base' = base + NRecords
  /\ at' = at + 1
  /\ UNCHANGED <<rows, grand, task>>

\* The run ended, as done or interrupted; what it committed moves the base.
EndRun ==
  /\ pc = "executing" /\ pc' = "between"
  /\ base' = base + rows[at]
  /\ at' = at + 1
  /\ UNCHANGED <<rows, grand, task>>

MarkOk ==
  LET done == IF task.total # 0 THEN task.total ELSE task.done IN
  task' = [status |-> "ok", done |-> done, total |-> IF task.total # 0 THEN task.total ELSE done]

\* The work returned.
JobReturns ==
  /\ pc = "between" /\ at > NRuns
  /\ pc' = "over"
  /\ MarkOk
  /\ UNCHANGED <<rows, at, base, grand>>

\* The work raised: a run that failed, or one that is gone.
JobRaises ==
  /\ pc \in {"counting", "executing"}
  /\ pc' = "over"
  /\ task' = [task EXCEPT !.status = "failed"]
  /\ UNCHANGED <<rows, at, base, grand>>

\* CancelledError is no Exception: nothing is marked.
JobCancelled ==
  /\ pc \in {"counting", "executing"}
  /\ pc' = "over"
  /\ UNCHANGED <<rows, at, base, grand, task>>

Next ==
  \/ MarkRunning \/ CountTotals \/ SkipRun \/ BeginRun \/ CommitRow \/ ReportRow \/ EndRun
  \/ JobReturns \/ JobRaises \/ JobCancelled

Spec == Init /\ [][Next]_vars
-----------------------------------------------------------------------------
(* Properties.                                                             *)

\* The values of the task entry and of the job's counters.
TypeOK ==
  /\ rows \in [Runs -> 0 .. NRecords]
  /\ at \in 1 .. NRuns + 1
  /\ pc \in {"submitted", "counting", "between", "executing", "over"}
  /\ base \in 0 .. NRuns * NRecords
  /\ grand \in {0, NRuns * NRecords}
  /\ task \in [status : {"pending", "running"} \cup Terminal,
               done : 0 .. NRuns * NRecords, total : {0, NRuns * NRecords}]

\* A poller never sees the count step back, nor a finished task move
\* (_ProgressTable: "update() never lets done move backward and a terminal
\* task never moves again").
ShownNeverStepsBack ==
  [][/\ task'.done >= task.done
     /\ task.status \in Terminal => task' = task]_vars

\* While the job runs, the bar counts rows that were really committed.
BarIsCommitted == task.status = "running" => task.done <= Committed

\* A job some run of which ended with holes leaves its bar short of the total
\* (_execute_serially: "which is the honest picture of it").
BarStaysShort == task.status = "ok" => task.done <= Committed
=============================================================================
