----------------------------- MODULE RunService -----------------------------
(***************************************************************************)
(* The lifecycle of the runs of one launched evaluation                    *)
(* (ra2/services/run_service.py): the serial job that executes them, the   *)
(* asyncio task per run, Stop, Resume, discard, process death and the      *)
(* relabelling at the next start.                                          *)
(*                                                                         *)
(* A step is what happens between two awaits of one coroutine.  A database *)
(* transaction whose reads decide nothing about its writes is one step; a  *)
(* guard read before a write is a step of its own, because SQLite's driver *)
(* opens no transaction before the first write.  The endpoint-error budget *)
(* and the retries of one call belong to RecordLoop and OllamaCall: here   *)
(* any endpoint error may be the one that stops the pass.                  *)
(***************************************************************************)
EXTENDS Naturals, FiniteSets

CONSTANTS
  NRuns,      \* runs of the evaluation, one per selected model
  NRecords,   \* records in the scope of each run
  Parallel,   \* run.llm_parallel_calls, pinned at launch
  Jobs,       \* jobs the task runner may hold at once (an ended one is reused)
  NoJob,      \* not a job
  Stops,      \* cancel() calls that may be in progress at once
  Discards,   \* discard_run() calls that may be in progress at once
  MaxResumes  \* resume() calls in a behaviour

ASSUME ConstantsAssumption ==
  /\ NRuns \in Nat /\ NRecords \in Nat
  /\ Parallel \in Nat \ {0}
  /\ NoJob \notin Jobs
  /\ MaxResumes \in Nat

Runs    == 1 .. NRuns
Records == 1 .. NRecords
NoRun   == 0

Active  == {"queued", "running"}          \* _CANCELLABLE_STATUSES, ACTIVE_STATUSES
Status  == Active \cup {"interrupted", "done", "failed"}
Absent  == "none"                         \* no such row

VARIABLES
  row,       \* run.status
  stored,    \* the record ids with an extraction row of this run
  scoring,   \* runs whose scoring job was submitted
  launched,  \* where the launch request stands
  up,        \* the process is running
  job,       \* the jobs of the task runner and the run task each one awaits
  owner,     \* RunService._tasks
  intents,   \* RunService._cancel_requested
  stop,      \* cancel() calls in progress
  discard,   \* discard_run() calls in progress
  resumes,   \* resume() calls made, for their bound
  contested  \* history, which no step reads: runs resumed while they were held

rows   == <<row, stored>>
past   == <<resumes, contested>>
vars   == <<row, stored, scoring, launched, up, job, owner, intents, stop, discard, past>>

-----------------------------------------------------------------------------
(* What a coroutine is doing, and the values it holds across its awaits.   *)

\* The awaits of execute_run, in order.
TaskPc == {"starting", "planning", "extracting", "finishing", "chaining", "failing"}

JobPc  == TaskPc \cup {"idle", "counting", "next", "returned"}

IdleJob == [pc |-> "idle", kind |-> "launch", runs |-> {}, cur |-> NoRun,
            queue |-> {}, flight |-> {}, halted |-> FALSE, verdict |-> "interrupted", cancel |-> "no"]

NoCall == [pc |-> "idle", run |-> NoRun]

Init ==
  /\ row      = [r \in Runs |-> Absent]
  /\ stored   = [r \in Runs |-> {}]
  /\ scoring  = {}
  /\ launched = "draft"
  /\ up       = TRUE
  /\ job      = [j \in Jobs |-> IdleJob]
  /\ owner    = [r \in Runs |-> NoJob]
  /\ intents  = {}
  /\ stop     = [s \in Stops |-> NoCall]
  /\ discard  = [d \in Discards |-> NoCall]
  /\ resumes   = 0
  /\ contested = {}

-----------------------------------------------------------------------------
(* Submitting work.                                                        *)

\* EvaluationService.launch commits every queued row in one transaction.
LaunchCommit ==
  /\ up /\ launched = "draft"
  /\ row' = [r \in Runs |-> "queued"]
  /\ launched' = "committed"
  /\ UNCHANGED <<stored, scoring, up, job, owner, intents, stop, discard, past>>

Submit(j, kind, rs) ==
  /\ job[j].pc = "idle"
  /\ job' = [job EXCEPT ![j] = [IdleJob EXCEPT !.pc = "counting", !.kind = kind, !.runs = rs]]

\* The request goes on to launch_runs: one job over the runs still queued.
LaunchRuns(j) ==
  /\ up /\ launched = "committed"
  /\ Submit(j, "launch", {r \in Runs : row[r] = "queued"})
  /\ launched' = "over"
  /\ UNCHANGED <<row, stored, scoring, up, owner, intents, stop, discard, past>>

\* A job has r before it or in its task, a stop of r is in progress, or the
\* launch that committed r is about to submit it.
Held(r) ==
  \/ \E j \in Jobs : r \in job[j].runs \/ r = job[j].cur
  \/ \E s \in Stops : stop[s].run = r
  \/ launched = "committed" /\ row[r] = "queued"

\* The runner takes any number of jobs; the bound on them never holds up the
\* job a launch is about to submit.
SlotLeft(j) == launched = "over" \/ \E i \in Jobs \ {j} : job[i].pc = "idle"

\* resume checks that the run exists, and nothing else: two jobs may come to
\* execute one run.
Resume(j, r) ==
  /\ up /\ row[r] # Absent
  /\ SlotLeft(j)
  /\ resumes < MaxResumes
  /\ resumes' = resumes + 1
  /\ Submit(j, "resume", {r})
  /\ contested' = IF Held(r) THEN contested \cup {r} ELSE contested
  /\ UNCHANGED <<row, stored, scoring, launched, up, owner, intents, stop, discard>>

-----------------------------------------------------------------------------
(* The job: _execute_serially and _execute_cancellably.                    *)

\* Every way a job ends: its coroutine returns, raises or is torn down.
EndJob(j) == job' = [job EXCEPT ![j] = IdleJob]

\* The run task is over; the `for` goes on with the runs not reached yet.
BackToLoop(j) ==
  job' = [job EXCEPT ![j] = [IdleJob EXCEPT !.pc = "next", !.kind = job[j].kind,
                                            !.runs = job[j].runs]]

\* _tasks.pop(run_id): whoever registered last is forgotten.
Forget(r) == owner' = [owner EXCEPT ![r] = NoJob]

\* The totals: a run that is gone ends the job with NotFoundError.
Count(j) ==
  /\ job[j].pc = "counting"
  /\ \/ /\ \A r \in job[j].runs : row[r] # Absent
        /\ job' = [job EXCEPT ![j] = [@ EXCEPT !.pc = "next"]]
     \/ /\ \E r \in job[j].runs : row[r] = Absent
        /\ EndJob(j)
  /\ UNCHANGED <<rows, scoring, launched, up, owner, intents, stop, discard, past>>

\* Runs are reached in id order.
Reached(j, r) ==
  /\ job[j].pc = "next"
  /\ r \in job[j].runs
  /\ \A q \in job[j].runs : r <= q

\* A run somebody asked to stop is passed over, and the request is consumed.
Skip(j, r) ==
  /\ Reached(j, r)
  /\ r \in intents
  /\ intents' = intents \ {r}
  /\ job' = [job EXCEPT ![j] = [@ EXCEPT !.runs = job[j].runs \ {r}]]
  /\ UNCHANGED <<rows, scoring, launched, up, owner, stop, discard, past>>

\* Slip: the task is created and not registered.
SpawnUnregistered(j, r) ==
  /\ Reached(j, r)
  /\ r \notin intents
  /\ job' = [job EXCEPT ![j] = [@ EXCEPT !.runs = job[j].runs \ {r}, !.cur = r, !.pc = "starting"]]
  /\ UNCHANGED <<rows, scoring, launched, up, owner, intents, stop, discard, past>>

\* create_task(execute_run), registered under the run.
Spawn(j, r) ==
  /\ Reached(j, r)
  /\ r \notin intents
  /\ job' = [job EXCEPT ![j] = [@ EXCEPT !.runs = job[j].runs \ {r}, !.cur = r, !.pc = "starting"]]
  /\ owner' = [owner EXCEPT ![r] = j]
  /\ UNCHANGED <<rows, scoring, launched, up, intents, stop, discard, past>>

JobDone(j) ==
  /\ job[j].pc = "next" /\ job[j].runs = {}
  /\ EndJob(j)
  /\ UNCHANGED <<rows, scoring, launched, up, owner, intents, stop, discard, past>>

\* The run task returned: `finally` forgets it and the loop goes on.
Return(j) ==
  /\ job[j].pc = "returned"
  /\ Forget(job[j].cur)
  /\ BackToLoop(j)
  /\ UNCHANGED <<rows, scoring, launched, up, intents, stop, discard, past>>

\* Slip: every cancellation propagates, so stopping one run ends the job.
UnwindWholeJob(j) ==
  /\ job[j].pc \in TaskPc /\ job[j].cancel # "no"
  /\ Forget(job[j].cur)
  /\ EndJob(j)
  /\ intents' = intents \ {job[j].cur}
  /\ UNCHANGED <<rows, scoring, launched, up, stop, discard, past>>

\* The run task was cancelled.  The recorded intent says this run only was
\* meant; without it the cancellation propagates and ends the job.
Unwind(j) ==
  /\ job[j].pc \in TaskPc /\ job[j].cancel # "no"
  /\ Forget(job[j].cur)
  /\ \/ /\ job[j].cur \in intents
        /\ intents' = intents \ {job[j].cur}
        /\ BackToLoop(j)
     \/ /\ job[j].cur \notin intents
        /\ EndJob(j)
        /\ UNCHANGED intents
  /\ UNCHANGED <<rows, scoring, launched, up, stop, discard, past>>

-----------------------------------------------------------------------------
(* The run task: execute_run.  A cancelled task takes no further step of   *)
(* its own; one write it had already handed to the driver may still land.  *)

Proceeds(j, pc) == job[j].pc = pc /\ job[j].cancel = "no"
Lands(j, pc)    == job[j].pc = pc /\ job[j].cancel # "unwinding"
Spent(j)        == IF job[j].cancel = "no" THEN "no" ELSE "unwinding"

\* An exception inside the `try` of execute_run.
Raise(j) == job' = [job EXCEPT ![j] = [@ EXCEPT !.pc = "failing", !.queue = {}, !.flight = {},
                                            !.halted = FALSE]]

\* _start: running, whatever the row said before.
Start(j) ==
  /\ Lands(j, "starting")
  /\ row[job[j].cur] # Absent
  /\ row' = [row EXCEPT ![job[j].cur] = "running"]
  /\ job' = [job EXCEPT ![j] = [@ EXCEPT !.pc = "planning", !.cancel = Spent(j)]]
  /\ UNCHANGED <<stored, scoring, launched, up, owner, intents, stop, discard, past>>

\* _start is outside the `try`: a run that is gone ends the whole job.
StartNotFound(j) ==
  /\ Proceeds(j, "starting")
  /\ row[job[j].cur] = Absent
  /\ Forget(job[j].cur)
  /\ EndJob(j)
  /\ UNCHANGED <<rows, scoring, launched, up, intents, stop, discard, past>>

\* _load_plan, then the pending records: those with no extraction row.  There
\* is no plan for a run that is gone, or launched without a measured feature.
Plan(j) ==
  /\ Proceeds(j, "planning")
  /\ \/ /\ row[job[j].cur] # Absent
        /\ job' = [job EXCEPT ![j] = [@ EXCEPT !.pc = "extracting",
                                             !.queue = Records \ stored[job[j].cur]]]
     \/ Raise(j)
  /\ UNCHANGED <<rows, scoring, launched, up, owner, intents, stop, discard, past>>

\* A worker takes the next record in scope order and calls the model.
Take(j, x) ==
  /\ Proceeds(j, "extracting")
  /\ ~job[j].halted
  /\ Cardinality(job[j].flight) < Parallel
  /\ x \in job[j].queue
  /\ \A y \in job[j].queue : x <= y
  /\ job' = [job EXCEPT ![j] = [@ EXCEPT !.queue = job[j].queue \ {x},
                                            !.flight = job[j].flight \cup {x}]]
  /\ UNCHANGED <<rows, scoring, launched, up, owner, intents, stop, discard, past>>

\* The model answered: one extraction row, committed on its own.
Answer(j, x) ==
  /\ Lands(j, "extracting")
  /\ x \in job[j].flight
  /\ row[job[j].cur] # Absent
  /\ x \notin stored[job[j].cur]
  /\ stored' = [stored EXCEPT ![job[j].cur] = @ \cup {x}]
  /\ job' = [job EXCEPT ![j] = [@ EXCEPT !.flight = job[j].flight \ {x}, !.cancel = Spent(j)]]
  /\ UNCHANGED <<row, scoring, launched, up, owner, intents, stop, discard, past>>

\* UNIQUE (run_id, record_id) or the foreign key refuses the row.
AnswerRefused(j, x) ==
  /\ Proceeds(j, "extracting")
  /\ x \in job[j].flight
  /\ row[job[j].cur] = Absent \/ x \in stored[job[j].cur]
  /\ Raise(j)
  /\ UNCHANGED <<rows, scoring, launched, up, owner, intents, stop, discard, past>>

\* LlmEndpointError: no row, and perhaps the budget is spent.
Silence(j, x) ==
  /\ Proceeds(j, "extracting")
  /\ x \in job[j].flight
  /\ \E trips \in BOOLEAN :
       job' = [job EXCEPT ![j] = [@ EXCEPT !.flight = job[j].flight \ {x},
                                              !.halted = job[j].halted \/ trips]]
  /\ UNCHANGED <<rows, scoring, launched, up, owner, intents, stop, discard, past>>

\* Anything else a worker raises: the group is cancelled, the run fails.
Break(j) ==
  /\ Proceeds(j, "extracting")
  /\ job[j].flight # {}
  /\ Raise(j)
  /\ UNCHANGED <<rows, scoring, launched, up, owner, intents, stop, discard, past>>

\* Slip: the outcome is read off the loop's flag, not off the committed rows.
SettleByFlag(j) ==
  /\ Proceeds(j, "extracting")
  /\ job[j].flight = {}
  /\ job[j].queue = {} \/ job[j].halted
  /\ job' = [job EXCEPT ![j] = [@ EXCEPT !.pc = "finishing", !.halted = FALSE,
                        !.verdict = IF job[j].halted THEN "interrupted" ELSE "done"]]
  /\ UNCHANGED <<rows, scoring, launched, up, owner, intents, stop, discard, past>>

\* All workers returned; what is still pending decides the outcome.
Settle(j) ==
  /\ Proceeds(j, "extracting")
  /\ job[j].flight = {}
  /\ job[j].queue = {} \/ job[j].halted
  /\ job' = [job EXCEPT ![j] = [@ EXCEPT
       !.pc = "finishing",
       !.halted = FALSE,
       !.verdict = IF stored[job[j].cur] = Records THEN "done" ELSE "interrupted"]]
  /\ UNCHANGED <<rows, scoring, launched, up, owner, intents, stop, discard, past>>

\* _finish writes over whatever status it finds, unless the row is gone.
WriteStatus(r, s) == row' = [row EXCEPT ![r] = IF @ = Absent THEN @ ELSE s]

Finish(j) ==
  /\ Lands(j, "finishing")
  /\ WriteStatus(job[j].cur, job[j].verdict)
  /\ job' = [job EXCEPT ![j] = [@ EXCEPT !.pc = "chaining", !.cancel = Spent(j)]]
  /\ UNCHANGED <<stored, scoring, launched, up, owner, intents, stop, discard, past>>

\* Slip: any end of the pass is submitted to scoring.
ChainAnyEnd(j) ==
  /\ Proceeds(j, "chaining")
  /\ scoring' = scoring \cup {job[j].cur}
  /\ job' = [job EXCEPT ![j] = [@ EXCEPT !.pc = "returned"]]
  /\ UNCHANGED <<rows, launched, up, owner, intents, stop, discard, past>>

\* Slip: nothing submits the scoring job.
ChainNothing(j) ==
  /\ Proceeds(j, "chaining")
  /\ job' = [job EXCEPT ![j] = [@ EXCEPT !.pc = "returned"]]
  /\ UNCHANGED <<rows, scoring, launched, up, owner, intents, stop, discard, past>>

\* _chain_scoring re-reads the status; only `done` is submitted.
Chain(j) ==
  /\ Proceeds(j, "chaining")
  /\ scoring' = IF row[job[j].cur] = "done" THEN scoring \cup {job[j].cur} ELSE scoring
  /\ job' = [job EXCEPT ![j] = [@ EXCEPT !.pc = "returned"]]
  /\ UNCHANGED <<rows, launched, up, owner, intents, stop, discard, past>>

\* The except clause records the failure and re-raises: the job ends here,
\* with whatever runs it had not reached.
Fail(j) ==
  /\ Proceeds(j, "failing")
  /\ WriteStatus(job[j].cur, "failed")
  /\ Forget(job[j].cur)
  /\ EndJob(j)
  /\ UNCHANGED <<stored, scoring, launched, up, intents, stop, discard, past>>

\* The failure's write was already with the driver when the stop arrived.
FailLands(j) ==
  /\ job[j].pc = "failing" /\ job[j].cancel = "landing"
  /\ WriteStatus(job[j].cur, "failed")
  /\ job' = [job EXCEPT ![j] = [@ EXCEPT !.cancel = "unwinding"]]
  /\ UNCHANGED <<stored, scoring, launched, up, owner, intents, stop, discard, past>>

-----------------------------------------------------------------------------
(* cancel: check, record the intent and cancel the task, re-read, write.   *)

StopCheck(s, r) ==
  /\ up /\ stop[s].pc = "idle"
  /\ row[r] \in Active
  /\ stop' = [stop EXCEPT ![s] = [pc |-> "checked", run |-> r]]
  /\ UNCHANGED <<rows, scoring, launched, up, job, owner, intents, discard, past>>

\* Slip: only the flag is set; the task is left running.
StopIntendFlagOnly(s) ==
  /\ stop[s].pc = "checked"
  /\ intents' = intents \cup {stop[s].run}
  /\ stop' = [stop EXCEPT ![s].pc = "intended"]
  /\ UNCHANGED <<rows, scoring, launched, up, job, owner, discard, past>>

\* Task.cancel() on a task that has returned does nothing.
StopIntend(s) ==
  LET r == stop[s].run
      j == owner[r]
  IN
  /\ stop[s].pc = "checked"
  /\ intents' = intents \cup {r}
  /\ job' = IF j # NoJob /\ job[j].pc \in TaskPc /\ job[j].cancel = "no"
            THEN [job EXCEPT ![j] = [@ EXCEPT !.cancel = "landing"]]
            ELSE job
  /\ stop' = [stop EXCEPT ![s].pc = "intended"]
  /\ UNCHANGED <<rows, scoring, launched, up, owner, discard, past>>

\* _finish_cancelled re-reads the status; a run that ended first keeps its end.
StopRecheck(s) ==
  /\ stop[s].pc = "intended"
  /\ stop' = [stop EXCEPT ![s] =
                IF row[stop[s].run] \in Active THEN [@ EXCEPT !.pc = "writing"] ELSE NoCall]
  /\ UNCHANGED <<rows, scoring, launched, up, job, owner, intents, discard, past>>

\* The write itself.  A row deleted meanwhile is a StaleDataError to the
\* caller.  SQLite has one writer: what was landing has landed or rolls back.
StopWrite(s) ==
  LET r == stop[s].run
      j == owner[r]
  IN
  /\ stop[s].pc = "writing"
  /\ WriteStatus(r, "interrupted")
  /\ job' = IF j # NoJob /\ job[j].cancel = "landing"
            THEN [job EXCEPT ![j] = [@ EXCEPT !.cancel = "unwinding"]]
            ELSE job
  /\ stop' = [stop EXCEPT ![s] = NoCall]
  /\ UNCHANGED <<stored, scoring, launched, up, owner, intents, discard, past>>

-----------------------------------------------------------------------------
(* LifecycleService.discard_run: guards, then the cascading delete.        *)

DiscardCheck(d, r) ==
  /\ up /\ discard[d].pc = "idle"
  /\ row[r] \notin Active \cup {Absent}
  /\ discard' = [discard EXCEPT ![d] = [pc |-> "checked", run |-> r]]
  /\ UNCHANGED <<rows, scoring, launched, up, job, owner, intents, stop, past>>

DiscardDelete(d) ==
  LET r == discard[d].run IN
  /\ discard[d].pc = "checked"
  /\ row' = [row EXCEPT ![r] = Absent]
  /\ stored' = [stored EXCEPT ![r] = {}]
  /\ discard' = [discard EXCEPT ![d] = NoCall]
  /\ UNCHANGED <<scoring, launched, up, job, owner, intents, stop, past>>

-----------------------------------------------------------------------------
(* Process death, and the next start.                                      *)

Crash ==
  /\ up /\ up' = FALSE
  /\ job'       = [j \in Jobs |-> IdleJob]
  /\ owner'     = [r \in Runs |-> NoJob]
  /\ intents'   = {}
  /\ stop'      = [s \in Stops |-> NoCall]
  /\ discard'   = [d \in Discards |-> NoCall]
  /\ contested' = {}
  /\ launched'  = IF launched = "committed" THEN "over" ELSE launched
  /\ UNCHANGED <<rows, scoring, resumes>>

\* Slip: the next start looks at nothing.
RestartBlind ==
  /\ ~up /\ up' = TRUE
  /\ UNCHANGED <<rows, scoring, launched, job, owner, intents, stop, discard, past>>

\* reclaim_orphans: every row left running is stale.  Queued rows are not
\* looked at.
Restart ==
  /\ ~up /\ up' = TRUE
  /\ row' = [r \in Runs |-> IF row[r] = "running" THEN "interrupted" ELSE row[r]]
  /\ UNCHANGED <<stored, scoring, launched, job, owner, intents, stop, discard, past>>

-----------------------------------------------------------------------------
JobStep(j) ==
  \/ Count(j) \/ JobDone(j) \/ Return(j) \/ Unwind(j)
  \/ \E r \in Runs : Skip(j, r) \/ Spawn(j, r)
  \/ Start(j) \/ StartNotFound(j) \/ Plan(j)
  \/ \E x \in Records : Take(j, x) \/ Answer(j, x) \/ AnswerRefused(j, x) \/ Silence(j, x)
  \/ Break(j) \/ Settle(j) \/ Finish(j) \/ Chain(j) \/ Fail(j) \/ FailLands(j)

StopStep(s)    == StopIntend(s) \/ StopRecheck(s) \/ StopWrite(s)

Request ==
  \/ LaunchCommit
  \/ \E j \in Jobs : \E r \in Runs : Resume(j, r)
  \/ \E s \in Stops : \E r \in Runs : StopCheck(s, r)
  \/ \E d \in Discards : \E r \in Runs : DiscardCheck(d, r)

Next ==
  \/ Request
  \/ \E j \in Jobs : LaunchRuns(j) \/ JobStep(j)
  \/ \E s \in Stops : StopStep(s)
  \/ \E d \in Discards : DiscardDelete(d)
  \/ Crash \/ Restart

Spec == Init /\ [][Next]_vars

\* The event loop runs every ready coroutine and the adapter bounds every
\* call, so a coroutine that can step does; requests and deaths are not owed.
Fairness ==
  /\ \A j \in Jobs : WF_vars(JobStep(j))
  /\ WF_vars(\E j \in Jobs : LaunchRuns(j))
  /\ \A s \in Stops : WF_vars(StopStep(s))
  /\ \A d \in Discards : WF_vars(DiscardDelete(d))

FairSpec == Spec /\ Fairness
-----------------------------------------------------------------------------
(* Properties.                                                             *)

JobType == [pc : JobPc, kind : {"launch", "resume"}, runs : SUBSET Runs, cur : Runs \cup {NoRun},
            queue : SUBSET Records, flight : SUBSET Records, halted : BOOLEAN,
            verdict : {"done", "interrupted"}, cancel : {"no", "landing", "unwinding"}]

\* The values each part of the service's state can hold.
TypeOK ==
  /\ row \in [Runs -> Status \cup {Absent}]
  /\ stored \in [Runs -> SUBSET Records]
  /\ scoring \in SUBSET Runs
  /\ launched \in {"draft", "committed", "over"}
  /\ up \in BOOLEAN
  /\ job \in [Jobs -> JobType]
  /\ owner \in [Runs -> Jobs \cup {NoJob}]
  /\ intents \in SUBSET Runs
  /\ stop \in [Stops -> [pc : {"idle", "checked", "intended", "writing"},
                          run : Runs \cup {NoRun}]]
  /\ discard \in [Discards -> [pc : {"idle", "checked"}, run : Runs \cup {NoRun}]]
  /\ resumes \in Nat
  /\ contested \in SUBSET Runs

\* A run that says done has an extraction for every record of its scope,
\* whatever was stopped, resumed twice, discarded or killed on the way
\* (_extract_all decides from what committed, then writes much later).
DoneIsComplete == \A r \in Runs : row[r] = "done" => stored[r] = Records

\* No partial run is ever handed to scoring (_chain_scoring: "a partial
\* corpus is never scored"), and none becomes partial afterwards.
ScoredIsComplete == \A r \in scoring : row[r] = Absent \/ stored[r] = Records

\* While the process is up, a row that says running has a task executing it,
\* or a stop about to write over it (execute_run's docstring: "an honest
\* statement about this process").  It is so until a run that something holds
\* is resumed.
HasATask(r) ==
  \/ \E j \in Jobs : job[j].cur = r /\ job[j].pc \in TaskPc
  \/ \E s \in Stops : stop[s].run = r /\ stop[s].pc \in {"intended", "writing"}


UncontestedIsHonest ==
  \A r \in Runs \ contested : up /\ row[r] = "running" => HasATask(r)

\* The task that executes a run is the one cancel() would find under it.
StopFindsTheTask ==
  \A j \in Jobs : job[j].pc \in TaskPc => owner[job[j].cur] = j

\* Once a stop is recorded no worker of the run is left that could commit
\* (cancel's docstring: the worker "cannot commit anything after it").
StopLeavesNoWorker ==
  [][\A s \in Stops : StopWrite(s) =>
       \A j \in Jobs : job[j].cur = stop[s].run /\ job[j].pc \in TaskPc =>
         job'[j].cancel = "unwinding"]_vars

\* Nothing is committed for a run whose row does not say running: not after
\* a stop was recorded, not after an interruption, not after its end, whatever
\* lands late.  It is so until a run that something holds is resumed.
UncontestedIsQuiet ==
  [][\A r \in Runs \ contested : ~(stored'[r] \subseteq stored[r]) => row[r] = "running"]_vars

\* An interrupted run leaves that status only by being started again by a job
\* that holds it, or by being discarded: a stop that was recorded is not
\* overwritten by a late outcome of the stopped task.
InterruptedStays ==
  [][\A r \in Runs : row[r] = "interrupted" /\ row'[r] # row[r] =>
       \/ row'[r] = Absent
       \/ row'[r] = "running" /\ \E j \in Jobs : job[j].cur = r /\ job[j].pc = "starting"]_vars

\* A status some process holds as its last word is not rewritten into an
\* interruption (_finish_cancelled: a stop that lost the race did not happen).
DoneIsFinal ==
  [][\A r \in Runs : row[r] = "done" => row'[r] # "interrupted"]_vars

\* A discard never removes a run a worker may be writing (guard G1).
DiscardSparesActive ==
  [][\A r \in Runs : row'[r] = Absent => row[r] \notin Active]_vars

\* One model at a time (_execute_serially, README "Runs execute one model at
\* a time"): no two run tasks at once.
OneModelAtATime ==
  \A i, j \in Jobs : job[i].pc \in TaskPc /\ job[j].pc \in TaskPc => i = j

\* Once the process stays up, no run stays running for ever: whatever was
\* stopped, failed or killed on the way, unless two jobs came to hold the run.
RunningEnds ==
  <>[]up => \A r \in Runs : row[r] = "running" ~> row[r] # "running" \/ r \in contested

\* Every run launched is reached in its turn.
QueuedIsReached ==
  []up => \A r \in Runs : row[r] = "queued" ~> row[r] # "queued"

\* A queued run that a job has before it, or the launch is about to submit, is
\* reached.  Only the failure or the removal of another run, or two jobs at one
\* run, of which a stop may end the other runs' job too, keeps it from that.
QueuedIsReachedUnlessFailed ==
  []up => \A r \in Runs :
    row[r] = "queued" /\ (launched = "committed" \/ \E j \in Jobs : r \in job[j].runs)
      ~> row[r] # "queued" \/ \E q \in Runs : row[q] \in {"failed", Absent} \/ q \in contested

\* A run that finished is handed to scoring (SD17, _chain_scoring).
DoneIsScored ==
  []up => \A r \in Runs : row[r] = "done" ~> r \in scoring \/ row[r] # "done"

\* Only a stop that arrives too late to matter keeps a finished run from
\* being handed to scoring.
DoneIsScoredUnlessStopped ==
  []up => \A r \in Runs :
    (row[r] = "done" /\ \E j \in Jobs : job[j].cur = r /\ Proceeds(j, "chaining"))
      ~> r \in scoring \/ row[r] # "done" \/ r \in intents

\* A stopped run that is resumed is executed: the job of an explicit Resume
\* does not pass it over (cancel's docstring: "Resume picks it up").
ResumePicksUp ==
  []up => \A j \in Jobs, r \in Runs :
    (job[j].pc = "counting" /\ job[j].kind = "resume" /\ r \in job[j].runs)
      ~> row[r] # "interrupted"

\* The service keeps the contract a reader of the run table relies on.
Contract == INSTANCE RunContract WITH
  Runs <- Runs, Records <- Records, row <- row, stored <- stored, scoring <- scoring,
  contested <- contested

KeepsContract == Contract!Spec
=============================================================================
