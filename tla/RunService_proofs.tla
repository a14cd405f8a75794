-------------------------- MODULE RunService_proofs --------------------------
(***************************************************************************)
(* What holds of the runs for every number of runs, records, parallel      *)
(* calls, jobs, stops and discards: first of every run, then of the runs   *)
(* that were not resumed while something held them.                        *)
(***************************************************************************)
EXTENDS RunService, TLAPS

\* A job that runs a task, and a request in progress, are about a real run.
TaskHasRun ==
  /\ \A j \in Jobs : job[j].pc \in TaskPc \cup {"returned"} => job[j].cur \in Runs
  /\ \A s \in Stops : stop[s].pc # "idle" => stop[s].run \in Runs
  /\ \A d \in Discards : discard[d].pc # "idle" => discard[d].run \in Runs

\* Before the launch commits there is no row, and nothing is under way.
NothingBeforeLaunch ==
  launched = "draft" =>
    /\ \A r \in Runs : row[r] = Absent /\ stored[r] = {}
    /\ scoring = {}
    /\ \A j \in Jobs : job[j].pc = "idle"

\* The outcome a task carries to its write still holds when it writes.
VerdictHolds ==
  \A j \in Jobs :
    job[j].pc = "finishing" /\ job[j].verdict = "done" =>
      row[job[j].cur] = Absent \/ stored[job[j].cur] = Records

Inv ==
  /\ TypeOK
  /\ TaskHasRun
  /\ NothingBeforeLaunch
  /\ VerdictHolds
  /\ DoneIsComplete
  /\ ScoredIsComplete

-----------------------------------------------------------------------------
(* Types.                                                                  *)

JobsOK == job \in [Jobs -> JobType]

\* What a job may be replaced by.
LEMMA JobEdit ==
  ASSUME JobsOK, NEW j \in Jobs, NEW v \in JobType, job' = [job EXCEPT ![j] = v]
  PROVE  JobsOK'
BY DEF JobsOK

LEMMA IdleJobType == IdleJob \in JobType
BY DEF IdleJob, JobType, JobPc

LEMMA JobsNext == TypeOK /\ TaskHasRun /\ [Next]_vars => JobsOK'
<1> SUFFICES ASSUME TypeOK, TaskHasRun, [Next]_vars PROVE JobsOK'
  OBVIOUS
<1>0. JobsOK /\ \A j \in Jobs : job[j] \in JobType
  BY DEF TypeOK, JobsOK
<1>1. ASSUME NEW j \in Jobs, LaunchRuns(j) PROVE JobsOK'
  <2>1. [IdleJob EXCEPT !.pc = "counting", !.kind = "launch",
                       !.runs = {r \in Runs : row[r] = "queued"}] \in JobType
    BY <1>0 DEF JobType, JobPc, IdleJob
  <2> QED
    BY <1>0, <1>1, <2>1, JobEdit DEF LaunchRuns, Submit
<1>2. ASSUME NEW j \in Jobs, NEW r \in Runs, Resume(j, r) PROVE JobsOK'
  <2>1. [IdleJob EXCEPT !.pc = "counting", !.kind = "resume", !.runs = {r}] \in JobType
    BY <1>0 DEF JobType, JobPc, IdleJob
  <2> QED
    BY <1>0, <1>2, <2>1, JobEdit DEF Resume, Submit
<1>3. ASSUME NEW j \in Jobs, Count(j) PROVE JobsOK'
  <2>1. [job[j] EXCEPT !.pc = "next"] \in JobType
    BY <1>0 DEF JobType, JobPc
  <2> QED
    BY <1>0, <1>3, <2>1, IdleJobType, JobEdit DEF Count, EndJob
<1>4. ASSUME NEW j \in Jobs, JobDone(j) PROVE JobsOK'
  BY <1>0, <1>4, IdleJobType, JobEdit DEF JobDone, EndJob
<1>5. ASSUME NEW j \in Jobs, Return(j) PROVE JobsOK'
  <2>1. [IdleJob EXCEPT !.pc = "next", !.kind = job[j].kind, !.runs = job[j].runs] \in JobType
    BY <1>0 DEF JobType, JobPc, IdleJob
  <2> QED
    BY <1>0, <1>5, <2>1, JobEdit DEF Return, BackToLoop
<1>6. ASSUME NEW j \in Jobs, Unwind(j) PROVE JobsOK'
  <2>1. [IdleJob EXCEPT !.pc = "next", !.kind = job[j].kind, !.runs = job[j].runs] \in JobType
    BY <1>0 DEF JobType, JobPc, IdleJob
  <2> QED
    BY <1>0, <1>6, <2>1, IdleJobType, JobEdit DEF Unwind, BackToLoop, EndJob
<1>7. ASSUME NEW j \in Jobs, NEW r \in Runs, Skip(j, r) PROVE JobsOK'
  <2>1. [job[j] EXCEPT !.runs = job[j].runs \ {r}] \in JobType
    BY <1>0 DEF JobType
  <2> QED
    BY <1>0, <1>7, <2>1, JobEdit DEF Skip
<1>8. ASSUME NEW j \in Jobs, NEW r \in Runs, Spawn(j, r) PROVE JobsOK'
  <2>1. [job[j] EXCEPT !.runs = job[j].runs \ {r}, !.cur = r, !.pc = "starting"] \in JobType
    BY <1>0 DEF JobType, JobPc, TaskPc
  <2> QED
    BY <1>0, <1>8, <2>1, JobEdit DEF Spawn
<1>9. ASSUME NEW j \in Jobs, Start(j) PROVE JobsOK'
  <2>1. [job[j] EXCEPT !.pc = "planning", !.cancel = Spent(j)] \in JobType
    BY <1>0 DEF JobType, JobPc, TaskPc, Spent
  <2> QED
    BY <1>0, <1>9, <2>1, JobEdit DEF Start
<1>10. ASSUME NEW j \in Jobs, StartNotFound(j) PROVE JobsOK'
  BY <1>0, <1>10, IdleJobType, JobEdit DEF StartNotFound, EndJob
<1>11. ASSUME NEW j \in Jobs, Plan(j) PROVE JobsOK'
  <2>1. [job[j] EXCEPT !.pc = "extracting", !.queue = Records \ stored[job[j].cur]] \in JobType
    BY <1>0 DEF JobType, JobPc, TaskPc
  <2>2. [job[j] EXCEPT !.pc = "failing", !.queue = {}, !.flight = {}, !.halted = FALSE] \in JobType
    BY <1>0 DEF JobType, JobPc, TaskPc
  <2> QED
    BY <1>0, <1>11, <2>1, <2>2, JobEdit DEF Plan, Raise
<1>12. ASSUME NEW j \in Jobs, NEW x \in Records, Take(j, x) PROVE JobsOK'
  <2>1. [job[j] EXCEPT !.queue = job[j].queue \ {x}, !.flight = job[j].flight \cup {x}] \in JobType
    BY <1>0 DEF JobType
  <2> QED
    BY <1>0, <1>12, <2>1, JobEdit DEF Take
<1>13. ASSUME NEW j \in Jobs, NEW x \in Records, Answer(j, x) PROVE JobsOK'
  <2>1. [job[j] EXCEPT !.flight = job[j].flight \ {x}, !.cancel = Spent(j)] \in JobType
    BY <1>0 DEF JobType, Spent
  <2> QED
    BY <1>0, <1>13, <2>1, JobEdit DEF Answer
<1>14. ASSUME NEW j \in Jobs, NEW x \in Records, AnswerRefused(j, x) PROVE JobsOK'
  <2>1. [job[j] EXCEPT !.pc = "failing", !.queue = {}, !.flight = {}, !.halted = FALSE] \in JobType
    BY <1>0 DEF JobType, JobPc, TaskPc
  <2> QED
    BY <1>0, <1>14, <2>1, JobEdit DEF AnswerRefused, Raise
<1>15. ASSUME NEW j \in Jobs, NEW x \in Records, Silence(j, x) PROVE JobsOK'
  <2>1. \A trips \in BOOLEAN :
          [job[j] EXCEPT !.flight = job[j].flight \ {x},
                         !.halted = job[j].halted \/ trips] \in JobType
    BY <1>0 DEF JobType
  <2> QED
    BY <1>0, <1>15, <2>1, JobEdit DEF Silence
<1>16. ASSUME NEW j \in Jobs, Break(j) PROVE JobsOK'
  <2>1. [job[j] EXCEPT !.pc = "failing", !.queue = {}, !.flight = {}, !.halted = FALSE] \in JobType
    BY <1>0 DEF JobType, JobPc, TaskPc
  <2> QED
    BY <1>0, <1>16, <2>1, JobEdit DEF Break, Raise
<1>17. ASSUME NEW j \in Jobs, Settle(j) PROVE JobsOK'
  <2>1. [job[j] EXCEPT
          !.pc = "finishing",
          !.halted = FALSE,
          !.verdict = IF stored[job[j].cur] = Records THEN "done" ELSE "interrupted"] \in JobType
    BY <1>0 DEF JobType, JobPc, TaskPc
  <2> QED
    BY <1>0, <1>17, <2>1, JobEdit DEF Settle
<1>18. ASSUME NEW j \in Jobs, Finish(j) PROVE JobsOK'
  <2>1. [job[j] EXCEPT !.pc = "chaining", !.cancel = Spent(j)] \in JobType
    BY <1>0 DEF JobType, JobPc, TaskPc, Spent
  <2> QED
    BY <1>0, <1>18, <2>1, JobEdit DEF Finish
<1>19. ASSUME NEW j \in Jobs, Chain(j) PROVE JobsOK'
  <2>1. [job[j] EXCEPT !.pc = "returned"] \in JobType
    BY <1>0 DEF JobType, JobPc
  <2> QED
    BY <1>0, <1>19, <2>1, JobEdit DEF Chain
<1>20. ASSUME NEW j \in Jobs, Fail(j) PROVE JobsOK'
  BY <1>0, <1>20, IdleJobType, JobEdit DEF Fail, EndJob
<1>21. ASSUME NEW j \in Jobs, FailLands(j) PROVE JobsOK'
  <2>1. [job[j] EXCEPT !.cancel = "unwinding"] \in JobType
    BY <1>0 DEF JobType
  <2> QED
    BY <1>0, <1>21, <2>1, JobEdit DEF FailLands
<1>22. ASSUME NEW s \in Stops, StopIntend(s) PROVE JobsOK'
  <2>1. \A j \in Jobs : [job[j] EXCEPT !.cancel = "landing"] \in JobType
    BY <1>0 DEF JobType
  <2>2. owner[stop[s].run] # NoJob => owner[stop[s].run] \in Jobs
    BY <1>22 DEF TypeOK, TaskHasRun, StopIntend
  <2> QED
    BY <1>0, <1>22, <2>1, <2>2 DEF StopIntend, JobsOK
<1>23. ASSUME NEW s \in Stops, StopWrite(s) PROVE JobsOK'
  <2>1. \A j \in Jobs : [job[j] EXCEPT !.cancel = "unwinding"] \in JobType
    BY <1>0 DEF JobType
  <2>2. owner[stop[s].run] # NoJob => owner[stop[s].run] \in Jobs
    BY <1>23 DEF TypeOK, TaskHasRun, StopWrite
  <2> QED
    BY <1>0, <1>23, <2>1, <2>2 DEF StopWrite, JobsOK
<1>24. CASE Crash
  BY <1>24, IdleJobType DEF Crash, JobsOK
<1>25. CASE UNCHANGED job
  BY <1>0, <1>25 DEF JobsOK
<1> QED
  BY <1>1, <1>2, <1>3, <1>4, <1>5, <1>6, <1>7, <1>8, <1>9, <1>10, <1>11, <1>12, <1>13, <1>14,
     <1>15, <1>16, <1>17, <1>18, <1>19, <1>20, <1>21, <1>22, <1>23, <1>24, <1>25
    DEF Next, Request, JobStep, StopStep, vars, LaunchCommit, StopCheck, StopRecheck,
       DiscardCheck, DiscardDelete, Restart

LEMMA TypeNext == TypeOK /\ TaskHasRun /\ [Next]_vars => TypeOK'
<1> SUFFICES ASSUME TypeOK, TaskHasRun, [Next]_vars PROVE TypeOK'
  OBVIOUS
<1>0. JobsOK'
  BY JobsNext
<1> USE <1>0 DEF TypeOK, JobsOK, Status, Active, Absent, rows, past
<1>1. CASE LaunchCommit
  BY <1>1 DEF LaunchCommit
<1>2. ASSUME NEW j \in Jobs, LaunchRuns(j) PROVE TypeOK'
  BY <1>2 DEF LaunchRuns
<1>3. ASSUME NEW j \in Jobs, NEW r \in Runs, Resume(j, r) PROVE TypeOK'
  BY <1>3 DEF Resume
<1>4. ASSUME NEW j \in Jobs, Return(j) PROVE TypeOK'
  BY <1>4 DEF Return, Forget
<1>5. ASSUME NEW j \in Jobs, Unwind(j) PROVE TypeOK'
  BY <1>5 DEF Unwind, Forget
<1>6. ASSUME NEW j \in Jobs, NEW r \in Runs, Skip(j, r) PROVE TypeOK'
  BY <1>6 DEF Skip
<1>7. ASSUME NEW j \in Jobs, NEW r \in Runs, Spawn(j, r) PROVE TypeOK'
  BY <1>7 DEF Spawn
<1>8. ASSUME NEW j \in Jobs, Start(j) PROVE TypeOK'
  BY <1>8 DEF Start
<1>9. ASSUME NEW j \in Jobs, StartNotFound(j) PROVE TypeOK'
  BY <1>9 DEF StartNotFound, Forget
<1>10. ASSUME NEW j \in Jobs, NEW x \in Records, Answer(j, x) PROVE TypeOK'
  BY <1>10 DEF Answer
<1>11. ASSUME NEW j \in Jobs, Finish(j) PROVE TypeOK'
  <2>1. job[j].verdict \in {"done", "interrupted"}
    BY DEF JobType
  <2> QED
    BY <1>11, <2>1 DEF Finish, WriteStatus
<1>12. ASSUME NEW j \in Jobs, Chain(j) PROVE TypeOK'
  BY <1>12 DEF Chain, TaskHasRun, TaskPc, Proceeds
<1>13. ASSUME NEW j \in Jobs, Fail(j) PROVE TypeOK'
  BY <1>13 DEF Fail, WriteStatus, Forget
<1>14. ASSUME NEW j \in Jobs, FailLands(j) PROVE TypeOK'
  BY <1>14 DEF FailLands, WriteStatus
<1>15. ASSUME NEW s \in Stops, NEW r \in Runs, StopCheck(s, r) PROVE TypeOK'
  BY <1>15 DEF StopCheck
<1>16. ASSUME NEW s \in Stops, StopIntend(s) PROVE TypeOK'
  BY <1>16 DEF StopIntend, TaskHasRun
<1>17. ASSUME NEW s \in Stops, StopRecheck(s) PROVE TypeOK'
  BY <1>17 DEF StopRecheck, NoCall
<1>18. ASSUME NEW s \in Stops, StopWrite(s) PROVE TypeOK'
  BY <1>18 DEF StopWrite, WriteStatus, NoCall
<1>19. ASSUME NEW d \in Discards, NEW r \in Runs, DiscardCheck(d, r) PROVE TypeOK'
  BY <1>19 DEF DiscardCheck
<1>20. ASSUME NEW d \in Discards, DiscardDelete(d) PROVE TypeOK'
  BY <1>20 DEF DiscardDelete, NoCall
<1>21. CASE Crash
  BY <1>21 DEF Crash, NoCall
<1>22. CASE Restart
  BY <1>22 DEF Restart
<1>23. CASE UNCHANGED <<rows, scoring, launched, up, owner, intents, stop, discard, past>>
  BY <1>23
<1> QED
  BY <1>1, <1>2, <1>3, <1>4, <1>5, <1>6, <1>7, <1>8, <1>9, <1>10, <1>11, <1>12, <1>13, <1>14,
     <1>15, <1>16, <1>17, <1>18, <1>19, <1>20, <1>21, <1>22, <1>23
    DEF Next, Request, JobStep, StopStep, vars, Count, JobDone, Plan, Take, AnswerRefused,
       Silence, Break, Settle

LEMMA TaskHasRunNext == Inv /\ [Next]_vars => TaskHasRun'
<1> SUFFICES ASSUME Inv, [Next]_vars PROVE TaskHasRun'
  OBVIOUS
<1>0. /\ job \in [Jobs -> JobType]
     /\ row \in [Runs -> Status \cup {Absent}]
     /\ stored \in [Runs -> SUBSET Records]
     /\ scoring \in SUBSET Runs
     /\ stop \in [Stops -> [pc : {"idle", "checked", "intended", "writing"},
                             run : Runs \cup {NoRun}]]
     /\ discard \in [Discards -> [pc : {"idle", "checked"}, run : Runs \cup {NoRun}]]
  BY DEF Inv, TypeOK
<1> USE <1>0 DEF Inv, JobType
<1>1. ASSUME NEW j \in Jobs, LaunchRuns(j) PROVE TaskHasRun'
  BY <1>1 DEF LaunchRuns, Submit, TaskHasRun, TaskPc
<1>2. ASSUME NEW j \in Jobs, NEW r \in Runs, Resume(j, r) PROVE TaskHasRun'
  BY <1>2 DEF Resume, Submit, TaskHasRun, TaskPc
<1>3. ASSUME NEW j \in Jobs, Count(j) PROVE TaskHasRun'
  BY <1>3 DEF Count, EndJob, TaskHasRun, TaskPc, IdleJob
<1>4. ASSUME NEW j \in Jobs, JobDone(j) PROVE TaskHasRun'
  BY <1>4 DEF JobDone, EndJob, TaskHasRun, TaskPc, IdleJob
<1>5. ASSUME NEW j \in Jobs, Return(j) PROVE TaskHasRun'
  BY <1>5 DEF Return, BackToLoop, TaskHasRun, TaskPc
<1>6. ASSUME NEW j \in Jobs, Unwind(j) PROVE TaskHasRun'
  <2>1. /\ job'[j].pc \in {"next", "idle"}
        /\ \A i \in Jobs \ {j} : job'[i] = job[i]
    <3>1. CASE job[j].cur \in intents
      <4>1. job' = [job EXCEPT ![j] = [IdleJob EXCEPT !.pc = "next", !.kind = job[j].kind,
                                                       !.runs = job[j].runs]]
        BY <1>6, <3>1 DEF Unwind, BackToLoop
      <4> QED
        BY <4>1
    <3>2. CASE job[j].cur \notin intents
      <4>1. job' = [job EXCEPT ![j] = IdleJob]
        BY <1>6, <3>2 DEF Unwind, EndJob
      <4> QED
        BY <4>1 DEF IdleJob
    <3> QED
      BY <3>1, <3>2
  <2> QED
    BY <1>6, <2>1 DEF Unwind, TaskHasRun, TaskPc
<1>7. ASSUME NEW j \in Jobs, NEW r \in Runs, Skip(j, r) PROVE TaskHasRun'
  BY <1>7 DEF Skip, TaskHasRun
<1>8. ASSUME NEW j \in Jobs, NEW r \in Runs, Spawn(j, r) PROVE TaskHasRun'
  BY <1>8 DEF Spawn, TaskHasRun
<1>9. ASSUME NEW j \in Jobs, Start(j) PROVE TaskHasRun'
  BY <1>9 DEF Start, Lands, TaskHasRun, TaskPc
<1>10. ASSUME NEW j \in Jobs, StartNotFound(j) PROVE TaskHasRun'
  BY <1>10 DEF StartNotFound, EndJob, TaskHasRun, TaskPc, IdleJob
<1>11. ASSUME NEW j \in Jobs, Plan(j) PROVE TaskHasRun'
  <2>1. /\ job'[j].pc \in {"extracting", "failing"} /\ job'[j].cur = job[j].cur
        /\ \A i \in Jobs \ {j} : job'[i] = job[i]
    <3>1. CASE job' = [job EXCEPT ![j] = [@ EXCEPT !.pc = "extracting",
                                                     !.queue = Records \ stored[job[j].cur]]]
      BY <3>1
    <3>2. CASE Raise(j)
      BY <3>2 DEF Raise
    <3> QED
      BY <1>11, <3>1, <3>2 DEF Plan
  <2> QED
    BY <1>11, <2>1 DEF Plan, Proceeds, TaskHasRun, TaskPc
<1>12. ASSUME NEW j \in Jobs, NEW x \in Records, Take(j, x) PROVE TaskHasRun'
  BY <1>12 DEF Take, TaskHasRun
<1>13. ASSUME NEW j \in Jobs, NEW x \in Records, Answer(j, x) PROVE TaskHasRun'
  BY <1>13 DEF Answer, TaskHasRun
<1>14. ASSUME NEW j \in Jobs, NEW x \in Records, AnswerRefused(j, x) PROVE TaskHasRun'
  BY <1>14 DEF AnswerRefused, Proceeds, Raise, TaskHasRun, TaskPc
<1>15. ASSUME NEW j \in Jobs, NEW x \in Records, Silence(j, x) PROVE TaskHasRun'
  BY <1>15 DEF Silence, TaskHasRun
<1>16. ASSUME NEW j \in Jobs, Break(j) PROVE TaskHasRun'
  BY <1>16 DEF Break, Proceeds, Raise, TaskHasRun, TaskPc
<1>17. ASSUME NEW j \in Jobs, Settle(j) PROVE TaskHasRun'
  BY <1>17 DEF Settle, Proceeds, TaskHasRun, TaskPc
<1>18. ASSUME NEW j \in Jobs, Finish(j) PROVE TaskHasRun'
  BY <1>18 DEF Finish, Lands, TaskHasRun, TaskPc
<1>19. ASSUME NEW j \in Jobs, Chain(j) PROVE TaskHasRun'
  BY <1>19 DEF Chain, Proceeds, TaskHasRun, TaskPc
<1>20. ASSUME NEW j \in Jobs, Fail(j) PROVE TaskHasRun'
  BY <1>20 DEF Fail, EndJob, TaskHasRun, TaskPc, IdleJob
<1>21. ASSUME NEW j \in Jobs, FailLands(j) PROVE TaskHasRun'
  BY <1>21 DEF FailLands, TaskHasRun
<1>22. ASSUME NEW s \in Stops, NEW r \in Runs, StopCheck(s, r) PROVE TaskHasRun'
  BY <1>22 DEF StopCheck, TaskHasRun
<1>23. ASSUME NEW s \in Stops, StopIntend(s) PROVE TaskHasRun'
  BY <1>23 DEF StopIntend, TaskHasRun
<1>24. ASSUME NEW s \in Stops, StopRecheck(s) PROVE TaskHasRun'
  BY <1>24 DEF StopRecheck, TaskHasRun, NoCall
<1>25. ASSUME NEW s \in Stops, StopWrite(s) PROVE TaskHasRun'
  BY <1>25 DEF StopWrite, TaskHasRun, NoCall
<1>26. ASSUME NEW d \in Discards, NEW r \in Runs, DiscardCheck(d, r) PROVE TaskHasRun'
  BY <1>26 DEF DiscardCheck, TaskHasRun
<1>27. ASSUME NEW d \in Discards, DiscardDelete(d) PROVE TaskHasRun'
  BY <1>27 DEF DiscardDelete, TaskHasRun, NoCall
<1>28. CASE Crash
  BY <1>28 DEF Crash, TaskHasRun, TaskPc, IdleJob, NoCall
<1>29. CASE UNCHANGED <<job, stop, discard>>
  BY <1>29 DEF TaskHasRun
<1> QED
  BY <1>1, <1>2, <1>3, <1>4, <1>5, <1>6, <1>7, <1>8, <1>9, <1>10, <1>11, <1>12, <1>13, <1>14,
     <1>15, <1>16, <1>17, <1>18, <1>19, <1>20, <1>21, <1>22, <1>23, <1>24, <1>25, <1>26, <1>27,
     <1>28, <1>29
    DEF Next, Request, JobStep, StopStep, vars, LaunchCommit, Restart

LEMMA NothingBeforeLaunchNext == Inv /\ [Next]_vars => NothingBeforeLaunch'
<1> SUFFICES ASSUME Inv, [Next]_vars PROVE NothingBeforeLaunch'
  OBVIOUS
<1>0. /\ job \in [Jobs -> JobType]
     /\ row \in [Runs -> Status \cup {Absent}]
     /\ stored \in [Runs -> SUBSET Records]
     /\ scoring \in SUBSET Runs
     /\ stop \in [Stops -> [pc : {"idle", "checked", "intended", "writing"},
                             run : Runs \cup {NoRun}]]
     /\ discard \in [Discards -> [pc : {"idle", "checked"}, run : Runs \cup {NoRun}]]
  BY DEF Inv, TypeOK
<1> USE <1>0 DEF Inv, JobType
<1>1. CASE LaunchCommit
  BY <1>1 DEF LaunchCommit, NothingBeforeLaunch
<1>2. ASSUME NEW j \in Jobs, LaunchRuns(j) PROVE NothingBeforeLaunch'
  BY <1>2 DEF LaunchRuns, NothingBeforeLaunch
<1>3. ASSUME NEW j \in Jobs, NEW r \in Runs, Resume(j, r) PROVE NothingBeforeLaunch'
  BY <1>3 DEF Resume, NothingBeforeLaunch
<1>4. ASSUME NEW j \in Jobs, Count(j) PROVE NothingBeforeLaunch'
  BY <1>4 DEF Count, NothingBeforeLaunch
<1>5. ASSUME NEW j \in Jobs, JobDone(j) PROVE NothingBeforeLaunch'
  BY <1>5 DEF JobDone, NothingBeforeLaunch
<1>6. ASSUME NEW j \in Jobs, Return(j) PROVE NothingBeforeLaunch'
  BY <1>6 DEF Return, NothingBeforeLaunch
<1>7. ASSUME NEW j \in Jobs, Unwind(j) PROVE NothingBeforeLaunch'
  BY <1>7 DEF Unwind, NothingBeforeLaunch, TaskPc
<1>8. ASSUME NEW j \in Jobs, NEW r \in Runs, Skip(j, r) PROVE NothingBeforeLaunch'
  BY <1>8 DEF Skip, rows, NothingBeforeLaunch
<1>9. ASSUME NEW j \in Jobs, NEW r \in Runs, Spawn(j, r) PROVE NothingBeforeLaunch'
  BY <1>9 DEF Spawn, Reached, NothingBeforeLaunch
<1>10. ASSUME NEW j \in Jobs, Start(j) PROVE NothingBeforeLaunch'
  BY <1>10 DEF Start, Lands, NothingBeforeLaunch
<1>11. ASSUME NEW j \in Jobs, StartNotFound(j) PROVE NothingBeforeLaunch'
  BY <1>11 DEF StartNotFound, Proceeds, NothingBeforeLaunch
<1>12. ASSUME NEW j \in Jobs, Plan(j) PROVE NothingBeforeLaunch'
  BY <1>12 DEF Plan, Proceeds, NothingBeforeLaunch
<1>13. ASSUME NEW j \in Jobs, NEW x \in Records, Take(j, x) PROVE NothingBeforeLaunch'
  BY <1>13 DEF Take, rows, NothingBeforeLaunch
<1>14. ASSUME NEW j \in Jobs, NEW x \in Records, Answer(j, x) PROVE NothingBeforeLaunch'
  BY <1>14 DEF Answer, NothingBeforeLaunch
<1>15. ASSUME NEW j \in Jobs, NEW x \in Records, AnswerRefused(j, x) PROVE NothingBeforeLaunch'
  BY <1>15 DEF AnswerRefused, Proceeds, NothingBeforeLaunch
<1>16. ASSUME NEW j \in Jobs, NEW x \in Records, Silence(j, x) PROVE NothingBeforeLaunch'
  BY <1>16 DEF Silence, rows, NothingBeforeLaunch
<1>17. ASSUME NEW j \in Jobs, Break(j) PROVE NothingBeforeLaunch'
  BY <1>17 DEF Break, Proceeds, NothingBeforeLaunch
<1>18. ASSUME NEW j \in Jobs, Settle(j) PROVE NothingBeforeLaunch'
  BY <1>18 DEF Settle, Proceeds, NothingBeforeLaunch
<1>19. ASSUME NEW j \in Jobs, Finish(j) PROVE NothingBeforeLaunch'
  BY <1>19 DEF Finish, Lands, NothingBeforeLaunch
<1>20. ASSUME NEW j \in Jobs, Chain(j) PROVE NothingBeforeLaunch'
  BY <1>20 DEF Chain, Proceeds, NothingBeforeLaunch
<1>21. ASSUME NEW j \in Jobs, Fail(j) PROVE NothingBeforeLaunch'
  BY <1>21 DEF Fail, WriteStatus, EndJob, NothingBeforeLaunch, IdleJob
<1>22. ASSUME NEW j \in Jobs, FailLands(j) PROVE NothingBeforeLaunch'
  BY <1>22 DEF FailLands, NothingBeforeLaunch
<1>23. ASSUME NEW s \in Stops, StopIntend(s) PROVE NothingBeforeLaunch'
  BY <1>23 DEF StopIntend, rows, NothingBeforeLaunch
<1>24. ASSUME NEW s \in Stops, StopWrite(s) PROVE NothingBeforeLaunch'
  BY <1>24 DEF StopWrite, WriteStatus, NothingBeforeLaunch
<1>25. ASSUME NEW d \in Discards, DiscardDelete(d) PROVE NothingBeforeLaunch'
  BY <1>25 DEF DiscardDelete, NothingBeforeLaunch
<1>26. CASE Crash
  BY <1>26 DEF Crash, rows, NothingBeforeLaunch, IdleJob
<1>27. CASE Restart
  BY <1>27 DEF Restart, NothingBeforeLaunch, Absent
<1>28. CASE UNCHANGED <<row, stored, scoring, launched, job>>
  BY <1>28 DEF NothingBeforeLaunch
<1> QED
  BY <1>1, <1>2, <1>3, <1>4, <1>5, <1>6, <1>7, <1>8, <1>9, <1>10, <1>11, <1>12, <1>13, <1>14,
     <1>15, <1>16, <1>17, <1>18, <1>19, <1>20, <1>21, <1>22, <1>23, <1>24, <1>25, <1>26, <1>27,
     <1>28
    DEF Next, Request, JobStep, StopStep, vars, rows, StopCheck, StopRecheck, DiscardCheck

LEMMA VerdictHoldsNext == Inv /\ [Next]_vars => VerdictHolds'
<1> SUFFICES ASSUME Inv, [Next]_vars PROVE VerdictHolds'
  OBVIOUS
<1>0. /\ job \in [Jobs -> JobType]
     /\ row \in [Runs -> Status \cup {Absent}]
     /\ stored \in [Runs -> SUBSET Records]
     /\ scoring \in SUBSET Runs
     /\ stop \in [Stops -> [pc : {"idle", "checked", "intended", "writing"},
                             run : Runs \cup {NoRun}]]
     /\ discard \in [Discards -> [pc : {"idle", "checked"}, run : Runs \cup {NoRun}]]
  BY DEF Inv, TypeOK
<1> USE <1>0 DEF Inv, JobType
<1>1. CASE LaunchCommit
  BY <1>1 DEF LaunchCommit, VerdictHolds, NothingBeforeLaunch
<1>2. ASSUME NEW j \in Jobs, LaunchRuns(j) PROVE VerdictHolds'
  BY <1>2 DEF LaunchRuns, Submit, VerdictHolds
<1>3. ASSUME NEW j \in Jobs, NEW r \in Runs, Resume(j, r) PROVE VerdictHolds'
  BY <1>3 DEF Resume, Submit, VerdictHolds
<1>4. ASSUME NEW j \in Jobs, Count(j) PROVE VerdictHolds'
  <2>1. /\ job'[j].pc \in {"next", "idle"}
        /\ \A i \in Jobs \ {j} : job'[i] = job[i]
    <3>1. CASE \A r \in job[j].runs : row[r] # Absent
      <4>1. job' = [job EXCEPT ![j] = [@ EXCEPT !.pc = "next"]]
        BY <1>4, <3>1 DEF Count
      <4> QED
        BY <4>1
    <3>2. CASE \E r \in job[j].runs : row[r] = Absent
      <4>1. job' = [job EXCEPT ![j] = IdleJob]
        BY <1>4, <3>2 DEF Count, EndJob
      <4> QED
        BY <4>1 DEF IdleJob
    <3> QED
      BY <3>1, <3>2
  <2> QED
    BY <1>4, <2>1 DEF Count, rows, VerdictHolds
<1>5. ASSUME NEW j \in Jobs, JobDone(j) PROVE VerdictHolds'
  BY <1>5 DEF JobDone, EndJob, rows, VerdictHolds, IdleJob
<1>6. ASSUME NEW j \in Jobs, Return(j) PROVE VerdictHolds'
  BY <1>6 DEF Return, BackToLoop, rows, VerdictHolds
<1>7. ASSUME NEW j \in Jobs, Unwind(j) PROVE VerdictHolds'
  <2>1. /\ job'[j].pc \in {"next", "idle"}
        /\ \A i \in Jobs \ {j} : job'[i] = job[i]
    <3>1. CASE job[j].cur \in intents
      <4>1. job' = [job EXCEPT ![j] = [IdleJob EXCEPT !.pc = "next", !.kind = job[j].kind,
                                                       !.runs = job[j].runs]]
        BY <1>7, <3>1 DEF Unwind, BackToLoop
      <4> QED
        BY <4>1
    <3>2. CASE job[j].cur \notin intents
      <4>1. job' = [job EXCEPT ![j] = IdleJob]
        BY <1>7, <3>2 DEF Unwind, EndJob
      <4> QED
        BY <4>1 DEF IdleJob
    <3> QED
      BY <3>1, <3>2
  <2> QED
    BY <1>7, <2>1 DEF Unwind, rows, VerdictHolds
<1>8. ASSUME NEW j \in Jobs, NEW r \in Runs, Skip(j, r) PROVE VerdictHolds'
  BY <1>8 DEF Skip, rows, VerdictHolds
<1>9. ASSUME NEW j \in Jobs, NEW r \in Runs, Spawn(j, r) PROVE VerdictHolds'
  BY <1>9 DEF Spawn, rows, VerdictHolds
<1>10. ASSUME NEW j \in Jobs, Start(j) PROVE VerdictHolds'
  BY <1>10 DEF Start, VerdictHolds
<1>11. ASSUME NEW j \in Jobs, StartNotFound(j) PROVE VerdictHolds'
  BY <1>11 DEF StartNotFound, EndJob, rows, VerdictHolds, IdleJob
<1>12. ASSUME NEW j \in Jobs, Plan(j) PROVE VerdictHolds'
  <2>1. /\ job'[j].pc \in {"extracting", "failing"} /\ job'[j].cur = job[j].cur
        /\ \A i \in Jobs \ {j} : job'[i] = job[i]
    <3>1. CASE job' = [job EXCEPT ![j] = [@ EXCEPT !.pc = "extracting",
                                                     !.queue = Records \ stored[job[j].cur]]]
      BY <3>1
    <3>2. CASE Raise(j)
      BY <3>2 DEF Raise
    <3> QED
      BY <1>12, <3>1, <3>2 DEF Plan
  <2> QED
    BY <1>12, <2>1 DEF Plan, rows, VerdictHolds
<1>13. ASSUME NEW j \in Jobs, NEW x \in Records, Take(j, x) PROVE VerdictHolds'
  BY <1>13 DEF Take, rows, VerdictHolds
<1>14. ASSUME NEW j \in Jobs, NEW x \in Records, Answer(j, x) PROVE VerdictHolds'
  BY <1>14 DEF Answer, VerdictHolds
<1>15. ASSUME NEW j \in Jobs, NEW x \in Records, AnswerRefused(j, x) PROVE VerdictHolds'
  BY <1>15 DEF AnswerRefused, Raise, rows, VerdictHolds
<1>16. ASSUME NEW j \in Jobs, NEW x \in Records, Silence(j, x) PROVE VerdictHolds'
  BY <1>16 DEF Silence, rows, VerdictHolds
<1>17. ASSUME NEW j \in Jobs, Break(j) PROVE VerdictHolds'
  BY <1>17 DEF Break, Raise, rows, VerdictHolds
<1>18. ASSUME NEW j \in Jobs, Settle(j) PROVE VerdictHolds'
  BY <1>18 DEF Settle, rows, VerdictHolds
<1>19. ASSUME NEW j \in Jobs, Finish(j) PROVE VerdictHolds'
  BY <1>19 DEF Finish, WriteStatus, VerdictHolds
<1>20. ASSUME NEW j \in Jobs, Chain(j) PROVE VerdictHolds'
  BY <1>20 DEF Chain, rows, VerdictHolds
<1>21. ASSUME NEW j \in Jobs, Fail(j) PROVE VerdictHolds'
  BY <1>21 DEF Fail, WriteStatus, EndJob, VerdictHolds, IdleJob
<1>22. ASSUME NEW j \in Jobs, FailLands(j) PROVE VerdictHolds'
  BY <1>22 DEF FailLands, WriteStatus, VerdictHolds
<1>23. ASSUME NEW s \in Stops, StopIntend(s) PROVE VerdictHolds'
  BY <1>23 DEF StopIntend, rows, VerdictHolds
<1>24. ASSUME NEW s \in Stops, StopWrite(s) PROVE VerdictHolds'
  BY <1>24 DEF StopWrite, WriteStatus, VerdictHolds
<1>25. ASSUME NEW d \in Discards, DiscardDelete(d) PROVE VerdictHolds'
  BY <1>25 DEF DiscardDelete, VerdictHolds
<1>26. CASE Crash
  BY <1>26 DEF Crash, VerdictHolds, IdleJob
<1>27. CASE Restart
  BY <1>27 DEF Restart, VerdictHolds, TaskHasRun, TaskPc, Absent
<1>28. CASE UNCHANGED <<row, stored, job>>
  BY <1>28 DEF VerdictHolds
<1> QED
  BY <1>1, <1>2, <1>3, <1>4, <1>5, <1>6, <1>7, <1>8, <1>9, <1>10, <1>11, <1>12, <1>13, <1>14,
     <1>15, <1>16, <1>17, <1>18, <1>19, <1>20, <1>21, <1>22, <1>23, <1>24, <1>25, <1>26, <1>27,
     <1>28
    DEF Next, Request, JobStep, StopStep, vars, rows, StopCheck, StopRecheck, DiscardCheck

LEMMA DoneIsCompleteNext == Inv /\ [Next]_vars => DoneIsComplete'
<1> SUFFICES ASSUME Inv, [Next]_vars PROVE DoneIsComplete'
  OBVIOUS
<1>0. /\ job \in [Jobs -> JobType]
     /\ row \in [Runs -> Status \cup {Absent}]
     /\ stored \in [Runs -> SUBSET Records]
     /\ scoring \in SUBSET Runs
     /\ stop \in [Stops -> [pc : {"idle", "checked", "intended", "writing"},
                             run : Runs \cup {NoRun}]]
     /\ discard \in [Discards -> [pc : {"idle", "checked"}, run : Runs \cup {NoRun}]]
  BY DEF Inv, TypeOK
<1> USE <1>0 DEF Inv, JobType
<1>1. CASE LaunchCommit
  BY <1>1 DEF LaunchCommit, DoneIsComplete
<1>2. ASSUME NEW j \in Jobs, Start(j) PROVE DoneIsComplete'
  BY <1>2 DEF Start, DoneIsComplete
<1>3. ASSUME NEW j \in Jobs, NEW x \in Records, Answer(j, x) PROVE DoneIsComplete'
  BY <1>3 DEF Answer, DoneIsComplete
<1>4. ASSUME NEW j \in Jobs, Finish(j) PROVE DoneIsComplete'
  BY <1>4 DEF Finish, Lands, WriteStatus, DoneIsComplete, VerdictHolds
<1>5. ASSUME NEW j \in Jobs, Fail(j) PROVE DoneIsComplete'
  BY <1>5 DEF Fail, WriteStatus, DoneIsComplete
<1>6. ASSUME NEW j \in Jobs, FailLands(j) PROVE DoneIsComplete'
  BY <1>6 DEF FailLands, WriteStatus, DoneIsComplete
<1>7. ASSUME NEW s \in Stops, StopWrite(s) PROVE DoneIsComplete'
  BY <1>7 DEF StopWrite, WriteStatus, DoneIsComplete
<1>8. ASSUME NEW d \in Discards, DiscardDelete(d) PROVE DoneIsComplete'
  BY <1>8 DEF DiscardDelete, DoneIsComplete, Absent
<1>9. CASE Restart
  BY <1>9 DEF Restart, DoneIsComplete
<1>10. CASE UNCHANGED <<row, stored>>
  BY <1>10 DEF DoneIsComplete
<1> QED
  BY <1>1, <1>2, <1>3, <1>4, <1>5, <1>6, <1>7, <1>8, <1>9, <1>10
    DEF Next, Request, JobStep, StopStep, vars, rows, LaunchRuns, Resume, Count, JobDone,
       Return, Unwind, Skip, Spawn, StartNotFound, Plan, Take, AnswerRefused, Silence, Break,
       Settle, Chain, StopCheck, StopIntend, StopRecheck, DiscardCheck, Crash

LEMMA ScoredIsCompleteNext == Inv /\ [Next]_vars => ScoredIsComplete'
<1> SUFFICES ASSUME Inv, [Next]_vars PROVE ScoredIsComplete'
  OBVIOUS
<1>0. /\ job \in [Jobs -> JobType]
     /\ row \in [Runs -> Status \cup {Absent}]
     /\ stored \in [Runs -> SUBSET Records]
     /\ scoring \in SUBSET Runs
     /\ stop \in [Stops -> [pc : {"idle", "checked", "intended", "writing"},
                             run : Runs \cup {NoRun}]]
     /\ discard \in [Discards -> [pc : {"idle", "checked"}, run : Runs \cup {NoRun}]]
  BY DEF Inv, TypeOK
<1> USE <1>0 DEF Inv, JobType
<1>1. CASE LaunchCommit
  BY <1>1 DEF LaunchCommit, ScoredIsComplete, NothingBeforeLaunch
<1>2. ASSUME NEW j \in Jobs, Start(j) PROVE ScoredIsComplete'
  BY <1>2 DEF Start, ScoredIsComplete
<1>3. ASSUME NEW j \in Jobs, NEW x \in Records, Answer(j, x) PROVE ScoredIsComplete'
  BY <1>3 DEF Answer, ScoredIsComplete
<1>4. ASSUME NEW j \in Jobs, Finish(j) PROVE ScoredIsComplete'
  BY <1>4 DEF Finish, WriteStatus, ScoredIsComplete
<1>5. ASSUME NEW j \in Jobs, Chain(j) PROVE ScoredIsComplete'
  BY <1>5 DEF Chain, Proceeds, TaskHasRun, TaskPc, ScoredIsComplete, DoneIsComplete, rows
<1>6. ASSUME NEW j \in Jobs, Fail(j) PROVE ScoredIsComplete'
  BY <1>6 DEF Fail, WriteStatus, ScoredIsComplete
<1>7. ASSUME NEW j \in Jobs, FailLands(j) PROVE ScoredIsComplete'
  BY <1>7 DEF FailLands, WriteStatus, ScoredIsComplete
<1>8. ASSUME NEW s \in Stops, StopWrite(s) PROVE ScoredIsComplete'
  BY <1>8 DEF StopWrite, WriteStatus, ScoredIsComplete
<1>9. ASSUME NEW d \in Discards, DiscardDelete(d) PROVE ScoredIsComplete'
  BY <1>9 DEF DiscardDelete, ScoredIsComplete
<1>10. CASE Restart
  BY <1>10 DEF Restart, ScoredIsComplete, Absent
<1>11. CASE UNCHANGED <<row, stored, scoring>>
  BY <1>11 DEF ScoredIsComplete
<1> QED
  BY <1>1, <1>2, <1>3, <1>4, <1>5, <1>6, <1>7, <1>8, <1>9, <1>10, <1>11
    DEF Next, Request, JobStep, StopStep, vars, rows, LaunchRuns, Resume, Count, JobDone,
       Return, Unwind, Skip, Spawn, StartNotFound, Plan, Take, AnswerRefused, Silence, Break,
       Settle, StopCheck, StopIntend, StopRecheck, DiscardCheck, Crash

-----------------------------------------------------------------------------
LEMMA InvInit == Init => Inv
BY DEF Init, Inv, TypeOK, TaskHasRun, NothingBeforeLaunch, VerdictHolds, DoneIsComplete,
   ScoredIsComplete, IdleJob, NoCall, JobType, JobPc, TaskPc, Absent

\* The invariant is inductive, so it holds in every reachable state.
THEOREM InvHolds == Spec => []Inv
<1>1. Init => Inv
  BY InvInit
<1>2. Inv /\ [Next]_vars => Inv'
  BY TypeNext, TaskHasRunNext, NothingBeforeLaunchNext, VerdictHoldsNext, DoneIsCompleteNext,
     ScoredIsCompleteNext
    DEF Inv
<1> QED
  BY <1>1, <1>2, PTL DEF Spec

\* Every variable keeps its type, through crashes and restarts.
THEOREM TypeCorrect == Spec => []TypeOK
<1>1. Inv => TypeOK
  BY DEF Inv
<1> QED
  BY <1>1, InvHolds, PTL

\* Whatever is stopped, resumed twice, discarded or killed, a run row that says
\* done has an extraction for every record in scope (_extract_all, _finish).
THEOREM DoneImpliesComplete == Spec => []DoneIsComplete
<1>1. Inv => DoneIsComplete
  BY DEF Inv
<1> QED
  BY <1>1, InvHolds, PTL

\* Whatever is submitted to scoring is complete, and stays so (_chain_scoring).
THEOREM ScoredImpliesComplete == Spec => []ScoredIsComplete
<1>1. Inv => ScoredIsComplete
  BY DEF Inv
<1> QED
  BY <1>1, InvHolds, PTL
-----------------------------------------------------------------------------
(***************************************************************************)
(* The service keeps RunContract, and the row of a run that is not         *)
(* contested is honest, for every number of runs, records, jobs, stops and *)
(* discards, whatever is resumed and when.                                 *)
(***************************************************************************)

Holds(j, r) == r \in job[j].runs \/ r = job[j].cur

\* The stop has recorded its intent and has not written yet.
Stopping(s, r) == stop[s].run = r /\ stop[s].pc \in {"intended", "writing"}

\* A run is in the hands of one job, and there once.
Exclusive ==
  /\ \A j \in Jobs : job[j].cur \notin job[j].runs
  /\ \A i, j \in Jobs : i # j => \A r \in Runs \ contested : ~(Holds(i, r) /\ Holds(j, r))

\* A request at rest holds nothing, a job is cancelled in its task only, and
\* all are at rest when the process is down and before the launch.
AtRest ==
  /\ \A j \in Jobs : job[j].pc \notin TaskPc => job[j].cancel = "no"
  /\ \A j \in Jobs : job[j].pc \notin TaskPc \cup {"returned"} => job[j].cur = NoRun
  /\ \A s \in Stops : stop[s].pc = "idle" => stop[s].run = NoRun
  /\ ~up \/ launched = "draft" =>
            /\ \A j \in Jobs : job[j] = IdleJob
            /\ \A s \in Stops : stop[s].pc = "idle"

\* The task found under a run executes it.
OwnedIsHeld == \A r \in Runs : owner[r] # NoJob => job[owner[r]].cur = r

\* What the launch is about to submit is in nobody's hands.
QueuedIsUnheld ==
  launched = "committed" =>
    \A r \in Runs \ contested : row[r] = "queued" =>
      /\ \A j \in Jobs : ~Holds(j, r)
      /\ \A s \in Stops : Stopping(s, r) => r \in intents

\* The status a job finds for the runs it holds, unless it was stopped.
HeldRows ==
  \A j \in Jobs :
    /\ \A r \in job[j].runs \ contested : row[r] # "running"
    /\ job[j].cur \notin contested =>
         /\ job[j].pc = "starting" /\ job[j].cancel # "unwinding" => row[job[j].cur] # "running"
         /\ job[j].pc \in {"planning", "extracting", "finishing", "failing"}
              /\ job[j].cancel # "unwinding" => row[job[j].cur] \in {"running", Absent}
         /\ job[j].pc \in {"chaining", "returned"} => row[job[j].cur] # "running"

\* A stop reaches the job that holds its run: by its intent or in its task.
StopReaches ==
  \A j \in Jobs, s \in Stops :
    /\ \A r \in job[j].runs \ contested :
         Stopping(s, r) \/ (stop[s].run = r /\ row[r] \notin {"queued", Absent}) => r \in intents
    /\ job[j].cur \notin contested =>
         /\ job[j].pc \in TaskPc /\ Stopping(s, job[j].cur) => job[j].cancel # "no"
         /\ job[j].pc = "starting" /\ stop[s].run = job[j].cur
              /\ row[job[j].cur] \notin {"queued", Absent} => job[j].cancel = "unwinding"

\* The task that executes a run is the one cancel() would find under it.
StopFindsIt ==
  \A j \in Jobs : job[j].pc \in TaskPc /\ job[j].cur \notin contested => owner[job[j].cur] = j

\* A task that was cancelled has a stop still to write, if its run would be
\* left running.
CancelIsAStop ==
  \A j \in Jobs :
    job[j].pc \in TaskPc /\ job[j].cancel # "no" /\ job[j].cur \notin contested =>
      \/ \E s \in Stops : Stopping(s, job[j].cur)
      \/ /\ job[j].pc = "starting" => row[job[j].cur] = Absent \/ job[j].cancel = "unwinding"
         /\ row[job[j].cur] # "running"

\* Jobs and requests agree about every run that is not contested.
Orderly ==
  /\ Exclusive /\ AtRest /\ OwnedIsHeld /\ QueuedIsUnheld /\ HeldRows
  /\ StopFindsIt /\ StopReaches /\ CancelIsAStop /\ UncontestedIsHonest

-----------------------------------------------------------------------------
(* What the steps do to what Orderly is about.                             *)

Data == <<row, launched, up, owner, intents, stop, contested>>

\* Job j is replaced; of it, these fields matter.
Job(j, pc, runs, cur, cancel) ==
  /\ \A i \in Jobs \ {j} : job'[i] = job[i]
  /\ job'[j].pc = pc /\ job'[j].runs = runs /\ job'[j].cur = cur /\ job'[j].cancel = cancel

Launches(j) ==
  /\ job[j].pc = "idle" /\ up
  /\ launched = "committed" /\ launched' = "over"
  /\ Job(j, "counting", {r \in Runs : row[r] = "queued"}, NoRun, "no")
  /\ UNCHANGED <<row, up, owner, intents, stop, contested>>

Resumes(j, r) ==
  /\ job[j].pc = "idle" /\ up
  /\ row[r] # Absent
  /\ Job(j, "counting", {r}, NoRun, "no")
  /\ \/ ~Held(r) /\ contested' = contested
     \/ contested' = contested \cup {r}
  /\ UNCHANGED <<row, launched, up, owner, intents, stop>>

Counts(j) ==
  /\ job[j].pc = "counting"
  /\ Job(j, "next", job[j].runs, job[j].cur, job[j].cancel)
  /\ UNCHANGED Data

Skips(j, r) ==
  /\ r \in job[j].runs /\ job[j].pc = "next"
  /\ Job(j, "next", job[j].runs \ {r}, job[j].cur, job[j].cancel)
  /\ intents' = intents \ {r}
  /\ UNCHANGED <<row, launched, up, owner, stop, contested>>

Spawns(j, r) ==
  /\ r \in job[j].runs /\ r \notin intents /\ job[j].pc = "next"
  /\ Job(j, "starting", job[j].runs \ {r}, r, job[j].cancel)
  /\ owner' = [owner EXCEPT ![r] = j]
  /\ UNCHANGED <<row, launched, up, intents, stop, contested>>

\* The job ends with no task of its own.
Ends(j) ==
  /\ job[j].pc \in {"counting", "next"}
  /\ Job(j, "idle", {}, NoRun, "no")
  /\ UNCHANGED Data

\* The job is rid of its task, and goes on or ends.
Leaves(j) ==
  /\ job[j].cur \in Runs
  /\ \E rs \in {{}, job[j].runs}, pc \in {"idle", "next"} : Job(j, pc, rs, NoRun, "no")
  /\ owner' = [owner EXCEPT ![job[j].cur] = NoJob]
  /\ intents' = intents \/ intents' = intents \ {job[j].cur}
  /\ UNCHANGED <<launched, up, stop, contested>>
  /\ \/ row' = row /\ job[j].pc = "returned"
     \/ row' = row /\ job[j].pc \in TaskPc /\ job[j].cancel # "no"
     \/ row' = row /\ job[j].pc = "starting" /\ row[job[j].cur] = Absent
     \/ WriteStatus(job[j].cur, "failed") /\ job[j].pc = "failing" /\ job[j].cancel = "no"

Starts(j) ==
  /\ Lands(j, "starting") /\ job[j].cur \in Runs
  /\ row[job[j].cur] # Absent
  /\ row' = [row EXCEPT ![job[j].cur] = "running"]
  /\ Job(j, "planning", job[j].runs, job[j].cur, Spent(j))
  /\ UNCHANGED <<launched, up, owner, intents, stop, contested>>

\* A step inside the pass.
Works(j) ==
  /\ job[j].cur \in Runs
  /\ job[j].pc \in {"planning", "extracting"} /\ job[j].cancel # "unwinding"
  /\ \E pc \in {"extracting", "finishing", "failing"} : Job(j, pc, job[j].runs, job[j].cur, Spent(j))
  /\ UNCHANGED Data

Finishes(j) ==
  /\ Lands(j, "finishing") /\ job[j].cur \in Runs
  /\ \E verdict \in {"done", "interrupted"} : WriteStatus(job[j].cur, verdict)
  /\ Job(j, "chaining", job[j].runs, job[j].cur, Spent(j))
  /\ UNCHANGED <<launched, up, owner, intents, stop, contested>>

Returns(j) ==
  /\ Proceeds(j, "chaining") /\ job[j].cur \in Runs
  /\ Job(j, "returned", job[j].runs, job[j].cur, "no")
  /\ UNCHANGED Data

FailsLate(j) ==
  /\ job[j].pc = "failing" /\ job[j].cancel = "landing" /\ job[j].cur \in Runs
  /\ WriteStatus(job[j].cur, "failed")
  /\ Job(j, "failing", job[j].runs, job[j].cur, "unwinding")
  /\ UNCHANGED <<launched, up, owner, intents, stop, contested>>

\* A stop records its intent; its run's task is cancelled.
Intends(s) ==
  /\ stop[s].pc = "checked"
  /\ stop' = [stop EXCEPT ![s].pc = "intended"]
  /\ intents' = intents \cup {stop[s].run}
  /\ \A j \in Jobs :
       /\ job'[j].pc = job[j].pc /\ job'[j].runs = job[j].runs /\ job'[j].cur = job[j].cur
       /\ \/ job'[j] = job[j] /\ ~(job[j].pc \in TaskPc /\ owner[stop[s].run] = j /\ job[j].cancel = "no")
          \/ /\ job[j].pc \in TaskPc /\ owner[stop[s].run] = j
             /\ job[j].cancel = "no" /\ job'[j].cancel = "landing"
  /\ UNCHANGED <<row, launched, up, owner, contested>>

\* A stop writes its outcome; what its run's task was writing is over.
Writes(s) ==
  /\ stop[s].pc = "writing"
  /\ stop' = [stop EXCEPT ![s] = NoCall]
  /\ WriteStatus(stop[s].run, "interrupted")
  /\ \A j \in Jobs :
       /\ job'[j].pc = job[j].pc /\ job'[j].runs = job[j].runs /\ job'[j].cur = job[j].cur
       /\ \/ job'[j] = job[j] /\ ~(owner[stop[s].run] = j /\ job[j].cancel = "landing")
          \/ job'[j].cancel = "unwinding" /\ owner[stop[s].run] = j /\ job[j].cancel = "landing"
  /\ UNCHANGED <<launched, up, owner, intents, contested>>

Shape(j) ==
  \/ Launches(j) \/ Counts(j) \/ Ends(j) \/ Leaves(j) \/ Starts(j) \/ Works(j)
  \/ Finishes(j) \/ Returns(j) \/ FailsLate(j)
  \/ \E r \in Runs : Resumes(j, r) \/ Skips(j, r) \/ Spawns(j, r)

\* Every step of a job has one of these shapes.
LEMMA JobShape ==
  ASSUME Inv, AtRest, NEW j \in Jobs,
         LaunchRuns(j) \/ (\E r \in Runs : Resume(j, r)) \/ JobStep(j)
  PROVE  Shape(j)
<1>0. /\ job \in [Jobs -> JobType] /\ job[j] \in JobType
      /\ job[j].pc \in TaskPc \cup {"returned"} => job[j].cur \in Runs
      /\ job[j].pc \notin TaskPc => job[j].cancel = "no"
      /\ job[j].runs \subseteq Runs
  BY DEF Inv, TypeOK, TaskHasRun, JobType, AtRest
<1> USE <1>0 DEF JobType, TaskPc, past
<1>1. CASE LaunchRuns(j)
  BY <1>1 DEF LaunchRuns, Submit, Shape, Launches, Job, IdleJob
<1>2. ASSUME NEW r \in Runs, Resume(j, r) PROVE Resumes(j, r)
  BY <1>2 DEF Resume, Submit, Resumes, Job, IdleJob, rows
<1>3. CASE Count(j)
  <2>1. CASE job' = [job EXCEPT ![j] = [@ EXCEPT !.pc = "next"]]
    BY <1>3, <2>1 DEF Count, Counts, Job, rows, Data, Shape
  <2>2. CASE EndJob(j)
    BY <1>3, <2>2 DEF Count, EndJob, Ends, Job, rows, Data, Shape, IdleJob
  <2> QED
    BY <1>3, <2>1, <2>2 DEF Count
<1>4. CASE JobDone(j)
  BY <1>4 DEF JobDone, EndJob, Ends, Job, rows, Data, Shape, IdleJob
<1>5. CASE Return(j)
  BY <1>5 DEF Return, Forget, BackToLoop, Leaves, Job, rows, Shape, IdleJob
<1>6. CASE Unwind(j)
  <2>1. CASE BackToLoop(j) /\ intents' = intents \ {job[j].cur}
    BY <1>6, <2>1 DEF Unwind, Forget, BackToLoop, Leaves, Job, rows, Shape, IdleJob
  <2>2. CASE EndJob(j) /\ UNCHANGED intents
    BY <1>6, <2>2 DEF Unwind, Forget, EndJob, Leaves, Job, rows, Shape, IdleJob
  <2> QED
    BY <1>6, <2>1, <2>2 DEF Unwind
<1>7. ASSUME NEW r \in Runs, Skip(j, r) PROVE Skips(j, r)
  BY <1>7 DEF Skip, Skips, Reached, Job, rows
<1>8. ASSUME NEW r \in Runs, Spawn(j, r) PROVE Spawns(j, r)
  BY <1>8 DEF Spawn, Spawns, Reached, Job, rows
<1>9. CASE Start(j)
  BY <1>9 DEF Start, Lands, Spent, Starts, Job, Shape
<1>10. CASE StartNotFound(j)
  BY <1>10 DEF StartNotFound, Proceeds, Forget, EndJob, Leaves, Job, rows, Shape, IdleJob
<1>11. CASE Plan(j)
  <2>1. CASE job' = [job EXCEPT ![j] = [@ EXCEPT !.pc = "extracting",
                                                   !.queue = Records \ stored[job[j].cur]]]
    BY <1>11, <2>1 DEF Plan, Proceeds, Spent, Works, Job, rows, Data, Shape
  <2>2. CASE Raise(j)
    BY <1>11, <2>2 DEF Plan, Raise, Proceeds, Spent, Works, Job, rows, Data, Shape
  <2> QED
    BY <1>11, <2>1, <2>2 DEF Plan
<1>12. ASSUME NEW x \in Records, Take(j, x) PROVE Works(j)
  BY <1>12 DEF Take, Proceeds, Spent, Works, Job, rows, Data
<1>13. ASSUME NEW x \in Records, Answer(j, x) PROVE Works(j)
  BY <1>13 DEF Answer, Lands, Spent, Works, Job, Data
<1>14. ASSUME NEW x \in Records, AnswerRefused(j, x) PROVE Works(j)
  BY <1>14 DEF AnswerRefused, Raise, Proceeds, Spent, Works, Job, rows, Data
<1>15. ASSUME NEW x \in Records, Silence(j, x) PROVE Works(j)
  BY <1>15 DEF Silence, Proceeds, Spent, Works, Job, rows, Data
<1>16. CASE Break(j)
  BY <1>16 DEF Break, Raise, Proceeds, Spent, Works, Job, rows, Data, Shape
<1>17. CASE Settle(j)
  BY <1>17 DEF Settle, Proceeds, Spent, Works, Job, rows, Data, Shape
<1>18. CASE Finish(j)
  BY <1>18 DEF Finish, Lands, Spent, Finishes, Job, Shape
<1>19. CASE Chain(j)
  BY <1>19 DEF Chain, Proceeds, Returns, Job, rows, Data, Shape
<1>20. CASE Fail(j)
  BY <1>20 DEF Fail, Proceeds, Forget, EndJob, Leaves, Job, Shape, IdleJob
<1>21. CASE FailLands(j)
  BY <1>21 DEF FailLands, FailsLate, Job, Shape
<1> QED
  BY <1>1, <1>2, <1>3, <1>4, <1>5, <1>6, <1>7, <1>8, <1>9, <1>10, <1>11, <1>12, <1>13, <1>14,
     <1>15, <1>16, <1>17, <1>18, <1>19, <1>20, <1>21
    DEF JobStep, Shape
-----------------------------------------------------------------------------
(* Each part of the invariant is kept by every step.                       *)

\* What the cases below use of the types.
Typed ==
  /\ job \in [Jobs -> JobType]
  /\ row \in [Runs -> Status \cup {Absent}]
  /\ owner \in [Runs -> Jobs \cup {NoJob}]
  /\ intents \in SUBSET Runs
  /\ stop \in [Stops -> [pc : {"idle", "checked", "intended", "writing"},
                          run : Runs \cup {NoRun}]]
  /\ NoRun \notin Runs
  /\ NoJob \notin Jobs
  /\ \A j \in Jobs : /\ job[j].runs \subseteq Runs
                     /\ job[j].cancel \in {"no", "landing", "unwinding"}
                     /\ job[j].pc \in TaskPc \cup {"returned"} => job[j].cur \in Runs
  /\ \A s \in Stops : stop[s].pc # "idle" => stop[s].run \in Runs
  /\ launched = "draft" => \A r \in Runs : row[r] = Absent

LEMMA StopShape ==
  ASSUME Inv, NEW s \in Stops
  PROVE  (StopIntend(s) => Intends(s)) /\ (StopWrite(s) => Writes(s))
<1>0. /\ job \in [Jobs -> JobType] /\ NoJob \notin Jobs
      /\ stop[s].pc # "idle" => stop[s].run \in Runs
      /\ owner \in [Runs -> Jobs \cup {NoJob}]
  BY ConstantsAssumption DEF Inv, TypeOK, TaskHasRun
<1>1. ASSUME StopIntend(s) PROVE Intends(s)
  <2> DEFINE j == owner[stop[s].run]
  <2>1. CASE j # NoJob /\ job[j].pc \in TaskPc /\ job[j].cancel = "no"
    <3>1. job' = [job EXCEPT ![j] = [@ EXCEPT !.cancel = "landing"]]
      BY Zenon, <1>1, <2>1 DEF StopIntend
    <3> QED
      BY <1>0, <1>1, <2>1, <3>1 DEF StopIntend, Intends, JobType, rows, past
  <2>2. CASE ~(j # NoJob /\ job[j].pc \in TaskPc /\ job[j].cancel = "no")
    <3>1. job' = job
      BY <1>1, <2>2 DEF StopIntend
    <3> QED
      BY <1>0, <1>1, <2>2, <3>1 DEF StopIntend, Intends, rows, past
  <2> QED
    BY <2>1, <2>2
<1>2. ASSUME StopWrite(s) PROVE Writes(s)
  <2> DEFINE j == owner[stop[s].run]
  <2>1. CASE j # NoJob /\ job[j].cancel = "landing"
    <3>1. job' = [job EXCEPT ![j] = [@ EXCEPT !.cancel = "unwinding"]]
      BY Zenon, <1>2, <2>1 DEF StopWrite
    <3> QED
      BY <1>0, <1>2, <2>1, <3>1 DEF StopWrite, Writes, JobType, past
  <2>2. CASE ~(j # NoJob /\ job[j].cancel = "landing")
    <3>1. job' = job
      BY <1>2, <2>2 DEF StopWrite
    <3> QED
      BY <1>0, <1>2, <2>2, <3>1 DEF StopWrite, Writes, past
  <2> QED
    BY <2>1, <2>2
<1> QED
  BY <1>1, <1>2

LEMMA InvTyped == Inv => Typed
BY ConstantsAssumption DEF Inv, TypeOK, TaskHasRun, NothingBeforeLaunch, Typed, JobType, Runs, NoRun

LEMMA ExclusiveNext ==
  ASSUME Inv, Orderly, [Next]_vars PROVE Exclusive'
<1>0. Typed /\ Orderly
  BY InvTyped
<1> USE <1>0 DEF Typed, Orderly, Exclusive, Holds, QueuedIsUnheld, Absent, past
<1>1. ASSUME NEW j \in Jobs, Launches(j) PROVE Exclusive'
  BY <1>1 DEF Launches, Job
<1>1a. ASSUME NEW j \in Jobs, NEW r \in Runs, Resumes(j, r) PROVE Exclusive'
  BY SMTT(30), <1>1a DEF Resumes, Job, Held
<1>2. ASSUME NEW j \in Jobs, Counts(j) PROVE Exclusive'
  BY <1>2 DEF Counts, Job, Data
<1>3. ASSUME NEW j \in Jobs, Ends(j) PROVE Exclusive'
  BY <1>3 DEF Ends, Job, Data
<1>4. ASSUME NEW j \in Jobs, Leaves(j) PROVE Exclusive'
  BY <1>4 DEF Leaves, Job, WriteStatus
<1>5. ASSUME NEW j \in Jobs, Starts(j) PROVE Exclusive'
  <2>1. /\ \A i \in Jobs : job'[i].runs = job[i].runs /\ job'[i].cur = job[i].cur
        /\ contested' = contested
    BY <1>5 DEF Starts, Job
  <2> QED
    BY <2>1
<1>6. ASSUME NEW j \in Jobs, Works(j) PROVE Exclusive'
  <2>1. /\ \A i \in Jobs : job'[i].runs = job[i].runs /\ job'[i].cur = job[i].cur
        /\ contested' = contested
    BY <1>6 DEF Works, Job, Data
  <2> QED
    BY <2>1
<1>7. ASSUME NEW j \in Jobs, Finishes(j) PROVE Exclusive'
  <2>1. /\ \A i \in Jobs : job'[i].runs = job[i].runs /\ job'[i].cur = job[i].cur
        /\ contested' = contested
    BY <1>7 DEF Finishes, Job
  <2> QED
    BY <2>1
<1>8. ASSUME NEW j \in Jobs, Returns(j) PROVE Exclusive'
  <2>1. /\ \A i \in Jobs : job'[i].runs = job[i].runs /\ job'[i].cur = job[i].cur
        /\ contested' = contested
    BY <1>8 DEF Returns, Job, Data
  <2> QED
    BY <2>1
<1>9. ASSUME NEW j \in Jobs, FailsLate(j) PROVE Exclusive'
  <2>1. /\ \A i \in Jobs : job'[i].runs = job[i].runs /\ job'[i].cur = job[i].cur
        /\ contested' = contested
    BY <1>9 DEF FailsLate, Job
  <2> QED
    BY <2>1
<1>10. ASSUME NEW j \in Jobs, NEW r \in Runs, Skips(j, r) PROVE Exclusive'
  BY <1>10 DEF Skips, Job
<1>11. ASSUME NEW j \in Jobs, NEW r \in Runs, Spawns(j, r) PROVE Exclusive'
  BY <1>11 DEF Spawns, Job
<1>12. CASE LaunchCommit
  BY <1>12 DEF LaunchCommit
<1>13. ASSUME NEW s \in Stops, NEW r \in Runs, StopCheck(s, r) PROVE Exclusive'
  BY <1>13 DEF StopCheck, Active, rows
<1>14. ASSUME NEW s \in Stops, Intends(s) PROVE Exclusive'
  BY <1>14 DEF Intends
<1>15. ASSUME NEW s \in Stops, StopRecheck(s) PROVE Exclusive'
  BY <1>15 DEF StopRecheck, NoCall, Active, rows
<1>16. ASSUME NEW s \in Stops, Writes(s) PROVE Exclusive'
  BY <1>16 DEF Writes, WriteStatus, NoCall
<1>17. ASSUME NEW d \in Discards, DiscardDelete(d) PROVE Exclusive'
  BY <1>17 DEF DiscardDelete
<1>18. CASE Crash
  BY <1>18 DEF Crash, IdleJob, NoCall, rows
<1>19. CASE Restart
  BY <1>19 DEF Restart, IdleJob
<1>20. CASE UNCHANGED <<job, Data>>
  BY SMTT(30), <1>20 DEF Data
<1> QED
  BY <1>1, <1>1a, <1>2, <1>3, <1>4, <1>5, <1>6, <1>7, <1>8, <1>9, <1>10, <1>11, <1>12, <1>13,
     <1>14, <1>15, <1>16, <1>17, <1>18, <1>19, <1>20, JobShape, StopShape
    DEF Next, Request, StopStep, vars, rows, Shape, DiscardCheck, Data

LEMMA AtRestNext ==
  ASSUME Inv, Orderly, [Next]_vars PROVE AtRest'
<1>0. Typed /\ Orderly
  BY InvTyped
<1> USE <1>0 DEF Typed, Orderly, AtRest, TaskPc, IdleJob, Absent, past
<1>1. ASSUME NEW j \in Jobs, Launches(j) PROVE AtRest'
  BY <1>1 DEF Launches, Job
<1>1a. ASSUME NEW j \in Jobs, NEW r \in Runs, Resumes(j, r) PROVE AtRest'
  BY SMTT(30), <1>1a DEF Resumes, Job, Held
<1>2. ASSUME NEW j \in Jobs, Counts(j) PROVE AtRest'
  BY <1>2 DEF Counts, Job, Data
<1>3. ASSUME NEW j \in Jobs, Ends(j) PROVE AtRest'
  BY <1>3 DEF Ends, Job, Data
<1>4. ASSUME NEW j \in Jobs, Leaves(j) PROVE AtRest'
  <2>1. up /\ launched # "draft" /\ UNCHANGED <<up, launched, stop>>
    BY <1>4 DEF Leaves
  <2>2. /\ job'[j].cancel = "no" /\ job'[j].cur = NoRun
        /\ \A i \in Jobs \ {j} : job'[i] = job[i]
    BY <1>4 DEF Leaves, Job
  <2> QED
    BY <2>1, <2>2
<1>5. ASSUME NEW j \in Jobs, Starts(j) PROVE AtRest'
  BY <1>5 DEF Starts, Job, Lands, Spent
<1>6. ASSUME NEW j \in Jobs, Works(j) PROVE AtRest'
  BY <1>6 DEF Works, Job, Data, Spent
<1>7. ASSUME NEW j \in Jobs, Finishes(j) PROVE AtRest'
  BY <1>7 DEF Finishes, Job, Lands, Spent, WriteStatus
<1>8. ASSUME NEW j \in Jobs, Returns(j) PROVE AtRest'
  BY <1>8 DEF Returns, Job, Data, Proceeds
<1>9. ASSUME NEW j \in Jobs, FailsLate(j) PROVE AtRest'
  BY <1>9 DEF FailsLate, Job, WriteStatus
<1>10. ASSUME NEW j \in Jobs, NEW r \in Runs, Skips(j, r) PROVE AtRest'
  BY <1>10 DEF Skips, Job
<1>11. ASSUME NEW j \in Jobs, NEW r \in Runs, Spawns(j, r) PROVE AtRest'
  BY SMTT(30), <1>11 DEF Spawns, Job
<1>12. CASE LaunchCommit
  BY <1>12 DEF LaunchCommit
<1>13. ASSUME NEW s \in Stops, NEW r \in Runs, StopCheck(s, r) PROVE AtRest'
  BY <1>13 DEF StopCheck, Active, rows
<1>14. ASSUME NEW s \in Stops, Intends(s) PROVE AtRest'
  BY <1>14 DEF Intends
<1>15. ASSUME NEW s \in Stops, StopRecheck(s) PROVE AtRest'
  BY <1>15 DEF StopRecheck, NoCall, Active, rows
<1>16. ASSUME NEW s \in Stops, Writes(s) PROVE AtRest'
  BY <1>16 DEF Writes, WriteStatus, NoCall
<1>17. ASSUME NEW d \in Discards, DiscardDelete(d) PROVE AtRest'
  BY <1>17 DEF DiscardDelete
<1>18. CASE Crash
  BY <1>18 DEF Crash, IdleJob, NoCall, rows
<1>19. CASE Restart
  BY <1>19 DEF Restart, IdleJob
<1>20. CASE UNCHANGED <<job, Data>>
  BY <1>20 DEF Data
<1> QED
  BY <1>1, <1>1a, <1>2, <1>3, <1>4, <1>5, <1>6, <1>7, <1>8, <1>9, <1>10, <1>11, <1>12, <1>13,
     <1>14, <1>15, <1>16, <1>17, <1>18, <1>19, <1>20, JobShape, StopShape
    DEF Next, Request, StopStep, vars, rows, Shape, DiscardCheck, Data

LEMMA OwnedIsHeldNext ==
  ASSUME Inv, Orderly, [Next]_vars PROVE OwnedIsHeld'
<1>0. Typed /\ Orderly
  BY InvTyped
<1> USE <1>0 DEF Typed, Orderly, OwnedIsHeld, AtRest, TaskPc, Absent, past
<1>1. ASSUME NEW j \in Jobs, Launches(j) PROVE OwnedIsHeld'
  BY <1>1 DEF Launches, Job
<1>1a. ASSUME NEW j \in Jobs, NEW r \in Runs, Resumes(j, r) PROVE OwnedIsHeld'
  BY SMTT(30), <1>1a DEF Resumes, Job, Held
<1>2. ASSUME NEW j \in Jobs, Counts(j) PROVE OwnedIsHeld'
  BY <1>2 DEF Counts, Job, Data
<1>3. ASSUME NEW j \in Jobs, Ends(j) PROVE OwnedIsHeld'
  BY <1>3 DEF Ends, Job, Data
<1>4. ASSUME NEW j \in Jobs, Leaves(j) PROVE OwnedIsHeld'
  BY <1>4 DEF Leaves, Job, WriteStatus
<1>5. ASSUME NEW j \in Jobs, Starts(j) PROVE OwnedIsHeld'
  BY <1>5 DEF Starts, Job, Lands, Spent
<1>6. ASSUME NEW j \in Jobs, Works(j) PROVE OwnedIsHeld'
  BY <1>6 DEF Works, Job, Data, Spent
<1>7. ASSUME NEW j \in Jobs, Finishes(j) PROVE OwnedIsHeld'
  BY <1>7 DEF Finishes, Job, Lands, Spent, WriteStatus
<1>8. ASSUME NEW j \in Jobs, Returns(j) PROVE OwnedIsHeld'
  BY <1>8 DEF Returns, Job, Data, Proceeds
<1>9. ASSUME NEW j \in Jobs, FailsLate(j) PROVE OwnedIsHeld'
  BY <1>9 DEF FailsLate, Job, WriteStatus
<1>10. ASSUME NEW j \in Jobs, NEW r \in Runs, Skips(j, r) PROVE OwnedIsHeld'
  BY <1>10 DEF Skips, Job
<1>11. ASSUME NEW j \in Jobs, NEW r \in Runs, Spawns(j, r) PROVE OwnedIsHeld'
  BY <1>11 DEF Spawns, Job
<1>12. CASE LaunchCommit
  BY <1>12 DEF LaunchCommit
<1>13. ASSUME NEW s \in Stops, NEW r \in Runs, StopCheck(s, r) PROVE OwnedIsHeld'
  BY <1>13 DEF StopCheck, Active, rows
<1>14. ASSUME NEW s \in Stops, Intends(s) PROVE OwnedIsHeld'
  BY <1>14 DEF Intends
<1>15. ASSUME NEW s \in Stops, StopRecheck(s) PROVE OwnedIsHeld'
  BY <1>15 DEF StopRecheck, NoCall, Active, rows
<1>16. ASSUME NEW s \in Stops, Writes(s) PROVE OwnedIsHeld'
  BY <1>16 DEF Writes, WriteStatus, NoCall
<1>17. ASSUME NEW d \in Discards, DiscardDelete(d) PROVE OwnedIsHeld'
  BY <1>17 DEF DiscardDelete
<1>18. CASE Crash
  BY <1>18 DEF Crash, IdleJob, NoCall, rows
<1>19. CASE Restart
  BY <1>19 DEF Restart, IdleJob
<1>20. CASE UNCHANGED <<job, Data>>
  BY <1>20 DEF Data
<1> QED
  BY <1>1, <1>1a, <1>2, <1>3, <1>4, <1>5, <1>6, <1>7, <1>8, <1>9, <1>10, <1>11, <1>12, <1>13,
     <1>14, <1>15, <1>16, <1>17, <1>18, <1>19, <1>20, JobShape, StopShape
    DEF Next, Request, StopStep, vars, rows, Shape, DiscardCheck, Data

LEMMA QueuedIsUnheldNext ==
  ASSUME Inv, Orderly, [Next]_vars PROVE QueuedIsUnheld'
<1>0. Typed /\ Orderly
  BY InvTyped
<1> USE <1>0 DEF Typed, Orderly, IdleJob, QueuedIsUnheld, Exclusive, Holds, Stopping, AtRest, StopReaches, Absent, past
<1>1. ASSUME NEW j \in Jobs, Launches(j) PROVE QueuedIsUnheld'
  BY <1>1 DEF Launches, Job
<1>1a. ASSUME NEW j \in Jobs, NEW r \in Runs, Resumes(j, r) PROVE QueuedIsUnheld'
  BY SMTT(30), <1>1a DEF Resumes, Job, Held
<1>2. ASSUME NEW j \in Jobs, Counts(j) PROVE QueuedIsUnheld'
  BY <1>2 DEF Counts, Job, Data
<1>3. ASSUME NEW j \in Jobs, Ends(j) PROVE QueuedIsUnheld'
  BY <1>3 DEF Ends, Job, Data
<1>4. ASSUME NEW j \in Jobs, Leaves(j) PROVE QueuedIsUnheld'
  BY <1>4 DEF Leaves, Job, WriteStatus
<1>5. ASSUME NEW j \in Jobs, Starts(j) PROVE QueuedIsUnheld'
  BY <1>5 DEF Starts, Job, Lands, Spent
<1>6. ASSUME NEW j \in Jobs, Works(j) PROVE QueuedIsUnheld'
  BY <1>6 DEF Works, Job, Data, Spent
<1>7. ASSUME NEW j \in Jobs, Finishes(j) PROVE QueuedIsUnheld'
  BY <1>7 DEF Finishes, Job, Lands, Spent, WriteStatus
<1>8. ASSUME NEW j \in Jobs, Returns(j) PROVE QueuedIsUnheld'
  BY <1>8 DEF Returns, Job, Data, Proceeds
<1>9. ASSUME NEW j \in Jobs, FailsLate(j) PROVE QueuedIsUnheld'
  BY <1>9 DEF FailsLate, Job, WriteStatus
<1>10. ASSUME NEW j \in Jobs, NEW r \in Runs, Skips(j, r) PROVE QueuedIsUnheld'
  BY <1>10 DEF Skips, Job
<1>11. ASSUME NEW j \in Jobs, NEW r \in Runs, Spawns(j, r) PROVE QueuedIsUnheld'
  BY <1>11 DEF Spawns, Job
<1>12. CASE LaunchCommit
  BY <1>12 DEF LaunchCommit
<1>13. ASSUME NEW s \in Stops, NEW r \in Runs, StopCheck(s, r) PROVE QueuedIsUnheld'
  BY <1>13 DEF StopCheck, Active, rows
<1>14. ASSUME NEW s \in Stops, Intends(s) PROVE QueuedIsUnheld'
  <2>1. /\ \A j \in Jobs : job'[j].runs = job[j].runs /\ job'[j].cur = job[j].cur
        /\ UNCHANGED <<row, launched, contested>>
        /\ intents' = intents \cup {stop[s].run}
    BY <1>14 DEF Intends
  <2>2. \A r \in Runs, t \in Stops : Stopping(t, r)' => Stopping(t, r) \/ r = stop[s].run
    BY <1>14 DEF Intends
  <2> SUFFICES ASSUME launched' = "committed", NEW r \in Runs, r \notin contested', row'[r] = "queued"
               PROVE  /\ \A j \in Jobs : ~Holds(j, r)'
                      /\ \A t \in Stops : Stopping(t, r)' => r \in intents'
    BY DEF QueuedIsUnheld
  <2>3. launched = "committed" /\ r \notin contested /\ row[r] = "queued"
    BY <2>1
  <2>4. /\ \A j \in Jobs : ~Holds(j, r)
        /\ \A t \in Stops : Stopping(t, r) => r \in intents
    BY <2>3
  <2>5. \A j \in Jobs : ~Holds(j, r)'
    BY <2>1, <2>4
  <2> QED
    BY <2>1, <2>2, <2>4, <2>5
<1>15. ASSUME NEW s \in Stops, StopRecheck(s) PROVE QueuedIsUnheld'
  BY <1>15 DEF StopRecheck, NoCall, Active, rows
<1>16. ASSUME NEW s \in Stops, Writes(s) PROVE QueuedIsUnheld'
  BY SMTT(30), <1>16 DEF Writes, WriteStatus, NoCall
<1>17. ASSUME NEW d \in Discards, DiscardDelete(d) PROVE QueuedIsUnheld'
  BY <1>17 DEF DiscardDelete
<1>18. CASE Crash
  BY <1>18 DEF Crash, IdleJob, NoCall, rows
<1>19. CASE Restart
  BY <1>19 DEF Restart, IdleJob
<1>20. CASE UNCHANGED <<job, Data>>
  BY SMTT(30), <1>20 DEF Data
<1> QED
  BY <1>1, <1>1a, <1>2, <1>3, <1>4, <1>5, <1>6, <1>7, <1>8, <1>9, <1>10, <1>11, <1>12, <1>13,
     <1>14, <1>15, <1>16, <1>17, <1>18, <1>19, <1>20, JobShape, StopShape
    DEF Next, Request, StopStep, vars, rows, Shape, DiscardCheck, Data

LEMMA HeldRowsNext ==
  ASSUME Inv, Orderly, [Next]_vars PROVE HeldRows'
<1>0. Typed /\ Orderly
  BY InvTyped
<1> USE <1>0 DEF Typed, Orderly, TaskPc, IdleJob, OwnedIsHeld, HeldRows, StopFindsIt, StopReaches, Stopping, Exclusive, Holds, AtRest, Absent, past
<1>1. ASSUME NEW j \in Jobs, Launches(j) PROVE HeldRows'
  BY <1>1 DEF Launches, Job
<1>1a. ASSUME NEW j \in Jobs, NEW r \in Runs, Resumes(j, r) PROVE HeldRows'
  BY SMTT(30), <1>1a DEF Resumes, Job, Held, UncontestedIsHonest, HasATask
<1>2. ASSUME NEW j \in Jobs, Counts(j) PROVE HeldRows'
  BY <1>2 DEF Counts, Job, Data
<1>3. ASSUME NEW j \in Jobs, Ends(j) PROVE HeldRows'
  BY <1>3 DEF Ends, Job, Data
<1>4. ASSUME NEW j \in Jobs, Leaves(j) PROVE HeldRows'
  BY <1>4 DEF Leaves, Job, WriteStatus
<1>5. ASSUME NEW j \in Jobs, Starts(j) PROVE HeldRows'
  BY <1>5 DEF Starts, Job, Lands, Spent
<1>6. ASSUME NEW j \in Jobs, Works(j) PROVE HeldRows'
  BY <1>6 DEF Works, Job, Data, Spent
<1>7. ASSUME NEW j \in Jobs, Finishes(j) PROVE HeldRows'
  BY <1>7 DEF Finishes, Job, Lands, Spent, WriteStatus
<1>8. ASSUME NEW j \in Jobs, Returns(j) PROVE HeldRows'
  BY <1>8 DEF Returns, Job, Data, Proceeds
<1>9. ASSUME NEW j \in Jobs, FailsLate(j) PROVE HeldRows'
  BY <1>9 DEF FailsLate, Job, WriteStatus
<1>10. ASSUME NEW j \in Jobs, NEW r \in Runs, Skips(j, r) PROVE HeldRows'
  BY <1>10 DEF Skips, Job
<1>11. ASSUME NEW j \in Jobs, NEW r \in Runs, Spawns(j, r) PROVE HeldRows'
  BY <1>11 DEF Spawns, Job
<1>12. CASE LaunchCommit
  BY <1>12 DEF LaunchCommit
<1>13. ASSUME NEW s \in Stops, NEW r \in Runs, StopCheck(s, r) PROVE HeldRows'
  BY <1>13 DEF StopCheck, Active, rows
<1>14. ASSUME NEW s \in Stops, Intends(s) PROVE HeldRows'
  BY <1>14 DEF Intends
<1>15. ASSUME NEW s \in Stops, StopRecheck(s) PROVE HeldRows'
  BY <1>15 DEF StopRecheck, NoCall, Active, rows
<1>16. ASSUME NEW s \in Stops, Writes(s) PROVE HeldRows'
  BY <1>16 DEF Writes, WriteStatus, NoCall
<1>17. ASSUME NEW d \in Discards, DiscardDelete(d) PROVE HeldRows'
  BY <1>17 DEF DiscardDelete
<1>18. CASE Crash
  BY <1>18 DEF Crash, IdleJob, NoCall, rows
<1>19. CASE Restart
  BY <1>19 DEF Restart, IdleJob
<1>20. CASE UNCHANGED <<job, Data>>
  BY <1>20 DEF Data
<1> QED
  BY <1>1, <1>1a, <1>2, <1>3, <1>4, <1>5, <1>6, <1>7, <1>8, <1>9, <1>10, <1>11, <1>12, <1>13,
     <1>14, <1>15, <1>16, <1>17, <1>18, <1>19, <1>20, JobShape, StopShape
    DEF Next, Request, StopStep, vars, rows, Shape, DiscardCheck, Data

LEMMA StopFindsItNext ==
  ASSUME Inv, Orderly, [Next]_vars PROVE StopFindsIt'
<1>0. Typed /\ Orderly
  BY InvTyped
<1> USE <1>0 DEF Typed, Orderly, StopFindsIt, Exclusive, Holds, TaskPc, Absent, past
<1>1. ASSUME NEW j \in Jobs, Launches(j) PROVE StopFindsIt'
  BY <1>1 DEF Launches, Job
<1>1a. ASSUME NEW j \in Jobs, NEW r \in Runs, Resumes(j, r) PROVE StopFindsIt'
  BY SMTT(30), <1>1a DEF Resumes, Job, Held
<1>2. ASSUME NEW j \in Jobs, Counts(j) PROVE StopFindsIt'
  BY <1>2 DEF Counts, Job, Data
<1>3. ASSUME NEW j \in Jobs, Ends(j) PROVE StopFindsIt'
  BY <1>3 DEF Ends, Job, Data
<1>4. ASSUME NEW j \in Jobs, Leaves(j) PROVE StopFindsIt'
  BY <1>4 DEF Leaves, Job, WriteStatus
<1>5. ASSUME NEW j \in Jobs, Starts(j) PROVE StopFindsIt'
  BY <1>5 DEF Starts, Job, Lands, Spent
<1>6. ASSUME NEW j \in Jobs, Works(j) PROVE StopFindsIt'
  BY <1>6 DEF Works, Job, Data, Spent
<1>7. ASSUME NEW j \in Jobs, Finishes(j) PROVE StopFindsIt'
  BY <1>7 DEF Finishes, Job, Lands, Spent, WriteStatus
<1>8. ASSUME NEW j \in Jobs, Returns(j) PROVE StopFindsIt'
  BY <1>8 DEF Returns, Job, Data, Proceeds
<1>9. ASSUME NEW j \in Jobs, FailsLate(j) PROVE StopFindsIt'
  BY <1>9 DEF FailsLate, Job, WriteStatus
<1>10. ASSUME NEW j \in Jobs, NEW r \in Runs, Skips(j, r) PROVE StopFindsIt'
  BY <1>10 DEF Skips, Job
<1>11. ASSUME NEW j \in Jobs, NEW r \in Runs, Spawns(j, r) PROVE StopFindsIt'
  BY <1>11 DEF Spawns, Job
<1>12. CASE LaunchCommit
  BY <1>12 DEF LaunchCommit
<1>13. ASSUME NEW s \in Stops, NEW r \in Runs, StopCheck(s, r) PROVE StopFindsIt'
  BY <1>13 DEF StopCheck, Active, rows
<1>14. ASSUME NEW s \in Stops, Intends(s) PROVE StopFindsIt'
  BY <1>14 DEF Intends
<1>15. ASSUME NEW s \in Stops, StopRecheck(s) PROVE StopFindsIt'
  BY <1>15 DEF StopRecheck, NoCall, Active, rows
<1>16. ASSUME NEW s \in Stops, Writes(s) PROVE StopFindsIt'
  BY <1>16 DEF Writes, WriteStatus, NoCall
<1>17. ASSUME NEW d \in Discards, DiscardDelete(d) PROVE StopFindsIt'
  BY <1>17 DEF DiscardDelete
<1>18. CASE Crash
  BY <1>18 DEF Crash, IdleJob, NoCall, rows
<1>19. CASE Restart
  BY <1>19 DEF Restart, IdleJob
<1>20. CASE UNCHANGED <<job, Data>>
  BY SMTT(30), <1>20 DEF Data
<1> QED
  BY <1>1, <1>1a, <1>2, <1>3, <1>4, <1>5, <1>6, <1>7, <1>8, <1>9, <1>10, <1>11, <1>12, <1>13,
     <1>14, <1>15, <1>16, <1>17, <1>18, <1>19, <1>20, JobShape, StopShape
    DEF Next, Request, StopStep, vars, rows, Shape, DiscardCheck, Data

LEMMA StopReachesNext ==
  ASSUME Inv, Orderly, [Next]_vars PROVE StopReaches'
<1>0. Typed /\ Orderly
  BY InvTyped
<1> USE <1>0 DEF Typed, Orderly, TaskPc, OwnedIsHeld, StopReaches, Exclusive, Holds, Stopping, AtRest, StopFindsIt, QueuedIsUnheld, HeldRows, Absent, past
<1>1. ASSUME NEW j \in Jobs, Launches(j) PROVE StopReaches'
  BY <1>1 DEF Launches, Job
<1>1a. ASSUME NEW j \in Jobs, NEW r \in Runs, Resumes(j, r) PROVE StopReaches'
  BY SMTT(30), <1>1a DEF Resumes, Job, Held
<1>2. ASSUME NEW j \in Jobs, Counts(j) PROVE StopReaches'
  BY <1>2 DEF Counts, Job, Data
<1>3. ASSUME NEW j \in Jobs, Ends(j) PROVE StopReaches'
  BY <1>3 DEF Ends, Job, Data
<1>4. ASSUME NEW j \in Jobs, Leaves(j) PROVE StopReaches'
  BY <1>4 DEF Leaves, Job, WriteStatus
<1>5. ASSUME NEW j \in Jobs, Starts(j) PROVE StopReaches'
  BY <1>5 DEF Starts, Job, Lands, Spent
<1>6. ASSUME NEW j \in Jobs, Works(j) PROVE StopReaches'
  BY <1>6 DEF Works, Job, Data, Spent
<1>7. ASSUME NEW j \in Jobs, Finishes(j) PROVE StopReaches'
  BY <1>7 DEF Finishes, Job, Lands, Spent, WriteStatus
<1>8. ASSUME NEW j \in Jobs, Returns(j) PROVE StopReaches'
  BY <1>8 DEF Returns, Job, Data, Proceeds
<1>9. ASSUME NEW j \in Jobs, FailsLate(j) PROVE StopReaches'
  BY <1>9 DEF FailsLate, Job, WriteStatus
<1>10. ASSUME NEW j \in Jobs, NEW r \in Runs, Skips(j, r) PROVE StopReaches'
  BY <1>10 DEF Skips, Job
<1>11. ASSUME NEW j \in Jobs, NEW r \in Runs, Spawns(j, r) PROVE StopReaches'
  BY <1>11 DEF Spawns, Job
<1>12. CASE LaunchCommit
  BY <1>12 DEF LaunchCommit
<1>13. ASSUME NEW s \in Stops, NEW r \in Runs, StopCheck(s, r) PROVE StopReaches'
  BY <1>13 DEF StopCheck, Active, rows
<1>14. ASSUME NEW s \in Stops, Intends(s) PROVE StopReaches'
  BY <1>14 DEF Intends
<1>15. ASSUME NEW s \in Stops, StopRecheck(s) PROVE StopReaches'
  BY <1>15 DEF StopRecheck, NoCall, Active, rows
<1>16. ASSUME NEW s \in Stops, Writes(s) PROVE StopReaches'
  BY <1>16 DEF Writes, WriteStatus, NoCall
<1>17. ASSUME NEW d \in Discards, DiscardDelete(d) PROVE StopReaches'
  BY <1>17 DEF DiscardDelete
<1>18. CASE Crash
  BY <1>18 DEF Crash, IdleJob, NoCall, rows
<1>19. CASE Restart
  BY <1>19 DEF Restart, IdleJob
<1>20. CASE UNCHANGED <<job, Data>>
  BY SMTT(30), <1>20 DEF Data
<1> QED
  BY <1>1, <1>1a, <1>2, <1>3, <1>4, <1>5, <1>6, <1>7, <1>8, <1>9, <1>10, <1>11, <1>12, <1>13,
     <1>14, <1>15, <1>16, <1>17, <1>18, <1>19, <1>20, JobShape, StopShape
    DEF Next, Request, StopStep, vars, rows, Shape, DiscardCheck, Data

LEMMA CancelIsAStopNext ==
  ASSUME Inv, Orderly, [Next]_vars PROVE CancelIsAStop'
<1>0. Typed /\ Orderly
  BY InvTyped
<1> USE <1>0 DEF Typed, Orderly, TaskPc, IdleJob, OwnedIsHeld, CancelIsAStop, Exclusive, Holds, Stopping, AtRest, HeldRows, StopFindsIt, StopReaches, Absent, past
<1>1. ASSUME NEW j \in Jobs, Launches(j) PROVE CancelIsAStop'
  BY <1>1 DEF Launches, Job
<1>1a. ASSUME NEW j \in Jobs, NEW r \in Runs, Resumes(j, r) PROVE CancelIsAStop'
  BY SMTT(30), <1>1a DEF Resumes, Job, Held
<1>2. ASSUME NEW j \in Jobs, Counts(j) PROVE CancelIsAStop'
  BY <1>2 DEF Counts, Job, Data
<1>3. ASSUME NEW j \in Jobs, Ends(j) PROVE CancelIsAStop'
  BY <1>3 DEF Ends, Job, Data
<1>4. ASSUME NEW j \in Jobs, Leaves(j) PROVE CancelIsAStop'
  BY <1>4 DEF Leaves, Job, WriteStatus
<1>5. ASSUME NEW j \in Jobs, Starts(j) PROVE CancelIsAStop'
  BY <1>5 DEF Starts, Job, Lands, Spent
<1>6. ASSUME NEW j \in Jobs, Works(j) PROVE CancelIsAStop'
  BY <1>6 DEF Works, Job, Data, Spent
<1>7. ASSUME NEW j \in Jobs, Finishes(j) PROVE CancelIsAStop'
  BY <1>7 DEF Finishes, Job, Lands, Spent, WriteStatus
<1>8. ASSUME NEW j \in Jobs, Returns(j) PROVE CancelIsAStop'
  BY <1>8 DEF Returns, Job, Data, Proceeds
<1>9. ASSUME NEW j \in Jobs, FailsLate(j) PROVE CancelIsAStop'
  BY <1>9 DEF FailsLate, Job, WriteStatus
<1>10. ASSUME NEW j \in Jobs, NEW r \in Runs, Skips(j, r) PROVE CancelIsAStop'
  BY <1>10 DEF Skips, Job
<1>11. ASSUME NEW j \in Jobs, NEW r \in Runs, Spawns(j, r) PROVE CancelIsAStop'
  BY <1>11 DEF Spawns, Job
<1>12. CASE LaunchCommit
  BY <1>12 DEF LaunchCommit
<1>13. ASSUME NEW s \in Stops, NEW r \in Runs, StopCheck(s, r) PROVE CancelIsAStop'
  BY <1>13 DEF StopCheck, Active, rows
<1>14. ASSUME NEW s \in Stops, Intends(s) PROVE CancelIsAStop'
  BY <1>14 DEF Intends
<1>15. ASSUME NEW s \in Stops, StopRecheck(s) PROVE CancelIsAStop'
  BY SMTT(30), <1>15 DEF StopRecheck, NoCall, Active, rows
<1>16. ASSUME NEW s \in Stops, Writes(s) PROVE CancelIsAStop'
  <2> SUFFICES ASSUME NEW j \in Jobs,
                      (job[j].pc \in TaskPc /\ job[j].cancel # "no" /\ job[j].cur \notin contested)'
               PROVE  (\/ \E t \in Stops : Stopping(t, job[j].cur)
                       \/ /\ job[j].pc = "starting" => row[job[j].cur] = Absent \/ job[j].cancel = "unwinding"
                          /\ row[job[j].cur] # "running")'
    BY DEF CancelIsAStop
  <2>1. /\ job'[j].pc = job[j].pc /\ job[j].pc \in TaskPc /\ job'[j].cur = job[j].cur
        /\ job[j].cur \in Runs \ contested /\ owner[job[j].cur] = j /\ stop[s].run \in Runs
    BY <1>16 DEF Writes
  <2>2. CASE job[j].cur = stop[s].run
    <3>1. Stopping(s, job[j].cur) /\ job[j].cancel # "no"
      BY <1>16, <2>1, <2>2 DEF Writes
    <3>2. job'[j].cancel = "unwinding"
      BY <1>16, <2>1, <2>2, <3>1 DEF Writes
    <3>3. row'[job[j].cur] # "running"
      BY <1>16, <2>1, <2>2 DEF Writes, WriteStatus
    <3> QED
      BY <2>1, <3>2, <3>3
  <2>3. CASE job[j].cur # stop[s].run
    <3>1. job'[j] = job[j] /\ row'[job[j].cur] = row[job[j].cur]
      BY <1>16, <2>1, <2>3 DEF Writes, WriteStatus
    <3>2. \A t \in Stops : Stopping(t, job[j].cur) => Stopping(t, job[j].cur)'
      BY <1>16, <2>1, <2>3, <3>1 DEF Writes, NoCall
    <3> QED
      BY <2>1, <3>1, <3>2
  <2> QED
    BY <2>2, <2>3
<1>17. ASSUME NEW d \in Discards, DiscardDelete(d) PROVE CancelIsAStop'
  BY <1>17 DEF DiscardDelete
<1>18. CASE Crash
  BY <1>18 DEF Crash, IdleJob, NoCall, rows
<1>19. CASE Restart
  BY <1>19 DEF Restart, IdleJob
<1>20. CASE UNCHANGED <<job, Data>>
  BY <1>20 DEF Data
<1> QED
  BY <1>1, <1>1a, <1>2, <1>3, <1>4, <1>5, <1>6, <1>7, <1>8, <1>9, <1>10, <1>11, <1>12, <1>13,
     <1>14, <1>15, <1>16, <1>17, <1>18, <1>19, <1>20, JobShape, StopShape
    DEF Next, Request, StopStep, vars, rows, Shape, DiscardCheck, Data

LEMMA UncontestedIsHonestNext ==
  ASSUME Inv, Orderly, [Next]_vars PROVE UncontestedIsHonest'
<1>0. Typed /\ Orderly
  BY InvTyped
<1> USE <1>0 DEF Typed, Orderly, UncontestedIsHonest, HasATask, TaskPc, IdleJob, OwnedIsHeld, CancelIsAStop, Exclusive, Holds, Stopping, AtRest, HeldRows, StopFindsIt, StopReaches, Absent, past
<1>1. ASSUME NEW j \in Jobs, Launches(j) PROVE UncontestedIsHonest'
  BY <1>1 DEF Launches, Job
<1>1a. ASSUME NEW j \in Jobs, NEW r \in Runs, Resumes(j, r) PROVE UncontestedIsHonest'
  BY SMTT(30), <1>1a DEF Resumes, Job, Held
<1>2. ASSUME NEW j \in Jobs, Counts(j) PROVE UncontestedIsHonest'
  BY <1>2 DEF Counts, Job, Data
<1>3. ASSUME NEW j \in Jobs, Ends(j) PROVE UncontestedIsHonest'
  BY <1>3 DEF Ends, Job, Data
<1>4. ASSUME NEW j \in Jobs, Leaves(j) PROVE UncontestedIsHonest'
  BY SMTT(30), <1>4 DEF Leaves, Job, WriteStatus
<1>5. ASSUME NEW j \in Jobs, Starts(j) PROVE UncontestedIsHonest'
  BY <1>5 DEF Starts, Job, Lands, Spent
<1>6. ASSUME NEW j \in Jobs, Works(j) PROVE UncontestedIsHonest'
  BY <1>6 DEF Works, Job, Data, Spent
<1>7. ASSUME NEW j \in Jobs, Finishes(j) PROVE UncontestedIsHonest'
  BY <1>7 DEF Finishes, Job, Lands, Spent, WriteStatus
<1>8. ASSUME NEW j \in Jobs, Returns(j) PROVE UncontestedIsHonest'
  BY <1>8 DEF Returns, Job, Data, Proceeds
<1>9. ASSUME NEW j \in Jobs, FailsLate(j) PROVE UncontestedIsHonest'
  BY <1>9 DEF FailsLate, Job, WriteStatus
<1>10. ASSUME NEW j \in Jobs, NEW r \in Runs, Skips(j, r) PROVE UncontestedIsHonest'
  BY SMTT(30), <1>10 DEF Skips, Job
<1>11. ASSUME NEW j \in Jobs, NEW r \in Runs, Spawns(j, r) PROVE UncontestedIsHonest'
  <2> SUFFICES ASSUME NEW q \in Runs, q \notin contested', up', row'[q] = "running"
               PROVE  (\/ \E i \in Jobs : job[i].cur = q /\ job[i].pc \in TaskPc
                       \/ \E t \in Stops : Stopping(t, q))'
    BY DEF UncontestedIsHonest
  <2>1. q \notin contested /\ row[q] = "running" /\ up /\ stop' = stop
    BY <1>11 DEF Spawns
  <2>2. \A i \in Jobs : job[i].pc \in TaskPc => job'[i].cur = job[i].cur /\ job'[i].pc = job[i].pc
    BY <1>11 DEF Spawns, Job
  <2>3. \/ \E i \in Jobs : job[i].cur = q /\ job[i].pc \in TaskPc
        \/ \E t \in Stops : Stopping(t, q)
    BY <2>1
  <2> QED
    BY <2>1, <2>2, <2>3
<1>12. CASE LaunchCommit
  BY <1>12 DEF LaunchCommit
<1>13. ASSUME NEW s \in Stops, NEW r \in Runs, StopCheck(s, r) PROVE UncontestedIsHonest'
  BY <1>13 DEF StopCheck, Active, rows
<1>14. ASSUME NEW s \in Stops, Intends(s) PROVE UncontestedIsHonest'
  <2> SUFFICES ASSUME NEW r \in Runs, r \notin contested', up', row'[r] = "running"
               PROVE  (\/ \E j \in Jobs : job[j].cur = r /\ job[j].pc \in TaskPc
                       \/ \E t \in Stops : Stopping(t, r))'
    BY DEF UncontestedIsHonest
  <2>1. r \notin contested /\ row[r] = "running" /\ up /\ \A j \in Jobs : job'[j].cur = job[j].cur /\ job'[j].pc = job[j].pc
    BY <1>14 DEF Intends
  <2>2. \A t \in Stops : Stopping(t, r) => Stopping(t, r)'
    BY <1>14 DEF Intends
  <2> QED
    BY <2>1, <2>2
<1>15. ASSUME NEW s \in Stops, StopRecheck(s) PROVE UncontestedIsHonest'
  <2> SUFFICES ASSUME NEW r \in Runs, r \notin contested', up', row'[r] = "running"
               PROVE  (\/ \E j \in Jobs : job[j].cur = r /\ job[j].pc \in TaskPc
                       \/ \E t \in Stops : Stopping(t, r))'
    BY DEF UncontestedIsHonest
  <2>1. r \notin contested /\ row[r] = "running" /\ up /\ job' = job
    BY <1>15 DEF StopRecheck, rows
  <2>2. \A t \in Stops : Stopping(t, r) => Stopping(t, r)'
    <3> SUFFICES ASSUME NEW t \in Stops, Stopping(t, r) PROVE Stopping(t, r)'
      OBVIOUS
    <3>1. CASE t = s
      BY <1>15, <2>1, <3>1 DEF StopRecheck, Active
    <3>2. CASE t # s
      BY <1>15, <3>2 DEF StopRecheck
    <3> QED
      BY <3>1, <3>2
  <2> QED
    BY <2>1, <2>2
<1>16. ASSUME NEW s \in Stops, Writes(s) PROVE UncontestedIsHonest'
  <2> SUFFICES ASSUME NEW r \in Runs, r \notin contested', up', row'[r] = "running"
               PROVE  (\/ \E j \in Jobs : job[j].cur = r /\ job[j].pc \in TaskPc
                       \/ \E t \in Stops : Stopping(t, r))'
    BY DEF UncontestedIsHonest
  <2>1. r \notin contested /\ row[r] = "running" /\ up /\ r # stop[s].run
    BY <1>16 DEF Writes, WriteStatus
  <2>2. \A j \in Jobs : job'[j].cur = job[j].cur /\ job'[j].pc = job[j].pc
    BY <1>16 DEF Writes
  <2>3. \A t \in Stops : Stopping(t, r) => Stopping(t, r)'
    BY <1>16, <2>1 DEF Writes
  <2> QED
    BY <2>1, <2>2, <2>3
<1>17. ASSUME NEW d \in Discards, DiscardDelete(d) PROVE UncontestedIsHonest'
  BY <1>17 DEF DiscardDelete
<1>18. CASE Crash
  BY <1>18 DEF Crash, IdleJob, NoCall, rows
<1>19. CASE Restart
  BY <1>19 DEF Restart, IdleJob
<1>20. CASE UNCHANGED <<job, Data>>
  BY <1>20 DEF Data
<1> QED
  BY <1>1, <1>1a, <1>2, <1>3, <1>4, <1>5, <1>6, <1>7, <1>8, <1>9, <1>10, <1>11, <1>12, <1>13,
     <1>14, <1>15, <1>16, <1>17, <1>18, <1>19, <1>20, JobShape, StopShape
    DEF Next, Request, StopStep, vars, rows, Shape, DiscardCheck, Data

-----------------------------------------------------------------------------
LEMMA OrderlyInit == Init => Orderly
BY ConstantsAssumption
   DEF Init, Orderly, Exclusive, Holds, AtRest, OwnedIsHeld, QueuedIsUnheld, HeldRows,
       StopFindsIt, StopReaches, Stopping, CancelIsAStop, UncontestedIsHonest, IdleJob, NoCall,
       TaskPc, Absent, NoRun, Runs

\* Whatever is resumed and when, jobs and stops agree about every run that was
\* not resumed while something held it: one job has it, a stop reaches that
\* job, and the row says what the task left there.
THEOREM OrderlyHolds == Spec => []Orderly
<1>1. Init => Orderly
  BY OrderlyInit
<1>2. Inv /\ Orderly /\ [Next]_vars => Orderly'
  <2> SUFFICES ASSUME Inv, Orderly, [Next]_vars PROVE Orderly'
    OBVIOUS
  <2>1. Exclusive' /\ AtRest' /\ OwnedIsHeld' /\ QueuedIsUnheld' /\ HeldRows'
    BY ExclusiveNext, AtRestNext, OwnedIsHeldNext, QueuedIsUnheldNext, HeldRowsNext
  <2>2. StopFindsIt' /\ StopReaches' /\ CancelIsAStop' /\ UncontestedIsHonest'
    BY StopFindsItNext, StopReachesNext, CancelIsAStopNext, UncontestedIsHonestNext
  <2> QED
    BY <2>1, <2>2 DEF Orderly
<1> QED
  BY <1>1, <1>2, InvHolds, PTL DEF Spec

\* While the process is up a row that says running has a task executing it or
\* a stop about to write over it (execute_run, _finish_cancelled), unless the
\* run was resumed while something held it.
THEOREM RunningHonest == Spec => []UncontestedIsHonest
<1>1. Orderly => UncontestedIsHonest
  BY DEF Orderly
<1> QED
  BY <1>1, OrderlyHolds, PTL

-----------------------------------------------------------------------------
(* The contract, step by step.                                             *)

LEMMA ContractInit == Init => Contract!Init
BY DEF Init, Contract!Init, Absent

Untouched == UNCHANGED <<row, stored, scoring, contested>>

\* What a write of `s' does to a run, or to one that is gone.
LEMMA WriteMoves ==
  ASSUME Inv, NEW r \in Runs, NEW s, WriteStatus(r, s), UNCHANGED <<stored, scoring, contested>>
  PROVE  /\ row[r] = Absent => Untouched
         /\ row[r] # Absent => Contract!Become(r, s)
BY Zenon DEF Inv, TypeOK, WriteStatus, Untouched, Contract!Become, Absent

\* A step of a job is a step of the contract.
LEMMA JobKeepsContract ==
  ASSUME Inv, Orderly, NEW j \in Jobs, JobStep(j)
  PROVE  Contract!Next \/ Untouched
<1> DEFINE r == job[j].cur
<1>0. /\ job[j].pc \in TaskPc => r \in Runs
      /\ row \in [Runs -> Status \cup {Absent}]
      /\ stored \in [Runs -> SUBSET Records]
      /\ scoring \in SUBSET Runs
      /\ job[j].pc \notin TaskPc => job[j].cancel = "no"
      /\ job \in [Jobs -> JobType]
  BY DEF Inv, TypeOK, TaskHasRun, Orderly, AtRest
<1>1. CASE Start(j)
  <2>1. r \in Runs /\ (row[r] # "running" \/ r \in contested)
    BY <1>0, <1>1 DEF Start, Lands, TaskPc, Orderly, HeldRows
  <2>2. Contract!Begin(r)
    BY <1>1, <2>1 DEF Start, past, Contract!Begin, Contract!Become, Absent
  <2> QED
    BY <2>1, <2>2 DEF Contract!Next
<1>2. ASSUME NEW x \in Records, Answer(j, x) PROVE Contract!Next
  <2>1. r \in Runs /\ Contract!Working(r)
    BY <1>0, <1>2 DEF Answer, Lands, TaskPc, Orderly, HeldRows, Contract!Working
  <2>2. Contract!Extract(r, x)
    BY <1>2, <2>1 DEF Answer, past, Contract!Extract, Absent
  <2> QED
    BY <2>1, <2>2 DEF Contract!Next
<1>3. CASE Finish(j)
  <2>1. /\ r \in Runs /\ (row[r] = Absent \/ Contract!Working(r))
        /\ job[j].verdict \in {"done", "interrupted"}
        /\ UNCHANGED <<stored, scoring, contested>>
    BY <1>0, <1>3 DEF Finish, Lands, TaskPc, Orderly, HeldRows, JobType, past, Contract!Working
  <2>2. CASE row[r] = Absent
    BY <1>3, <2>1, <2>2, WriteMoves DEF Finish
  <2>3. CASE row[r] # Absent /\ job[j].verdict = "done"
    <3>1. stored[r] = Records
      BY <1>3, <2>3 DEF Finish, Lands, Inv, VerdictHolds
    <3>2. Contract!Complete(r)
      BY <1>3, <2>1, <2>3, <3>1, WriteMoves DEF Finish, Contract!Complete
    <3> QED
      BY <2>1, <3>2 DEF Contract!Next
  <2>4. CASE row[r] # Absent /\ job[j].verdict = "interrupted"
    <3>1. Contract!Interrupt(r)
      BY <1>3, <2>1, <2>4, WriteMoves DEF Finish, Contract!Interrupt
    <3> QED
      BY <2>1, <3>1 DEF Contract!Next
  <2> QED
    BY <2>1, <2>2, <2>3, <2>4
<1>4. CASE Chain(j)
  <2>1. r \in Runs
    BY <1>0, <1>4 DEF Chain, Proceeds, TaskPc
  <2>2. CASE row[r] = "done"
    BY <1>4, <2>1, <2>2 DEF Chain, rows, past, Contract!Next, Contract!SubmitScoring
  <2>3. CASE row[r] # "done"
    BY <1>4, <2>3 DEF Chain, rows, past, Untouched
  <2> QED
    BY <2>2, <2>3
<1>5. CASE Fail(j) \/ FailLands(j)
  <2>1. /\ r \in Runs /\ (row[r] = Absent \/ Contract!Working(r))
        /\ WriteStatus(r, "failed") /\ UNCHANGED <<stored, scoring, contested>>
    BY <1>0, <1>5
      DEF Fail, FailLands, Proceeds, TaskPc, Orderly, HeldRows, past, Contract!Working
  <2>2. CASE row[r] = Absent
    BY <2>1, <2>2, WriteMoves
  <2>3. CASE row[r] # Absent
    <3>1. Contract!FailRun(r)
      BY <2>1, <2>3, WriteMoves DEF Contract!FailRun
    <3> QED
      BY <2>1, <3>1 DEF Contract!Next
  <2> QED
    BY <2>1, <2>2, <2>3
<1>6. CASE Untouched
  BY <1>6
<1> QED
  BY <1>1, <1>2, <1>3, <1>4, <1>5, <1>6
    DEF JobStep, Count, JobDone, Return, Unwind, Skip, Spawn, StartNotFound, Plan, Take,
        AnswerRefused, Silence, Break, Settle, rows, past, Untouched

\* Every step of the service is a step of the contract, or none of its.
LEMMA ContractNext ==
  ASSUME Inv, Orderly, [Next]_vars
  PROVE  [Contract!Next]_Contract!cvars
<1>0. /\ row \in [Runs -> Status \cup {Absent}]
      /\ stored \in [Runs -> SUBSET Records]
  BY DEF Inv, TypeOK
<1>1. ASSUME LaunchCommit PROVE Contract!Next
  BY <1>1 DEF LaunchCommit, past, Inv, NothingBeforeLaunch, Absent, Contract!Next, Contract!Launch
<1>2. ASSUME NEW j \in Jobs, JobStep(j) PROVE Contract!Next \/ Untouched
  BY <1>2, JobKeepsContract
<1>3. ASSUME NEW s \in Stops, StopWrite(s) PROVE Contract!Next \/ Untouched
  <2> DEFINE r == stop[s].run
  <2>1. /\ r \in Runs /\ WriteStatus(r, "interrupted")
        /\ UNCHANGED <<stored, scoring, contested>>
    BY <1>3 DEF StopWrite, Inv, TaskHasRun, past
  <2>2. CASE row[r] = Absent
    BY <2>1, <2>2, WriteMoves
  <2>3. CASE row[r] # Absent
    <3>1. Contract!Interrupt(r)
      BY <2>1, <2>3, WriteMoves DEF Contract!Interrupt
    <3> QED
      BY <2>1, <3>1 DEF Contract!Next
  <2> QED
    BY <2>2, <2>3
<1>4. ASSUME NEW d \in Discards, DiscardDelete(d) PROVE Contract!Next
  BY <1>4 DEF DiscardDelete, past, Inv, TaskHasRun, Absent, Contract!Next, Contract!Remove
<1>5. ASSUME Restart PROVE Contract!Next
  BY <1>5 DEF Restart, past, Contract!Next, Contract!InterruptAll
<1>6. ASSUME NEW j \in Jobs, NEW r \in Runs, Resume(j, r) PROVE Contract!Next \/ Untouched
  <2>1. /\ row[r] # Absent /\ UNCHANGED <<row, stored, scoring>>
        /\ contested' = contested \cup {r} \/ contested' = contested
    BY <1>6 DEF Resume
  <2> QED
    BY <2>1 DEF Contract!Next, Contract!Contend, Untouched, Absent
<1>7. ASSUME Crash PROVE Contract!Next
  BY <1>7 DEF Crash, rows, Contract!Next, Contract!Die
<1>8. Contract!Next \/ Untouched
  BY <1>1, <1>2, <1>3, <1>4, <1>5, <1>6, <1>7
    DEF Next, Request, LaunchRuns, StopCheck, DiscardCheck, StopStep, StopIntend,
        StopRecheck, vars, rows, past, Untouched
<1> QED
  BY <1>8 DEF Untouched, Contract!cvars

\* The worker, its stops, discards, deaths and restarts together keep the
\* contract a reader of the run table relies on: this service implements
\* RunContract.
THEOREM ContractKept == Spec => KeepsContract
<1>1. Init => Contract!Init
  BY ContractInit
<1>2. Inv /\ Orderly /\ [Next]_vars => [Contract!Next]_Contract!cvars
  BY ContractNext
<1> QED
  BY <1>1, <1>2, InvHolds, OrderlyHolds, PTL DEF Spec, KeepsContract, Contract!Spec

\* Nothing is committed for a run whose row does not say running (cancel: the
\* worker "cannot commit anything after it"), unless the run was resumed while
\* something held it.
THEOREM QuietHolds == Spec => UncontestedIsQuiet
<1> DEFINE Quiet == \A r \in Runs \ contested : ~(stored'[r] \subseteq stored[r]) => row[r] = "running"
<1>1. Inv /\ Orderly /\ [Next]_vars => [Quiet]_vars
  <2> SUFFICES ASSUME Inv, Orderly, [Next]_vars PROVE Quiet
    OBVIOUS
  <2>1. [Contract!Next]_Contract!cvars /\ stored \in [Runs -> SUBSET Records]
    BY ContractNext DEF Inv, TypeOK
  <2>2. CASE UNCHANGED stored
    BY <2>2
  <2>3. ASSUME NEW r \in Runs, NEW x \in Records, Contract!Extract(r, x) PROVE Quiet
    BY <2>1, <2>3 DEF Contract!Extract, Contract!Working
  <2>4. ASSUME NEW r \in Runs, Contract!Remove(r) PROVE Quiet
    BY <2>1, <2>4 DEF Contract!Remove
  <2> QED
    BY <2>1, <2>2, <2>3, <2>4
      DEF Contract!Next, Contract!Launch, Contract!InterruptAll, Contract!Begin, Contract!Complete,
          Contract!FailRun, Contract!Interrupt, Contract!Become, Contract!Contend, Contract!Die, Contract!SubmitScoring, Contract!cvars
<1> QED
  BY <1>1, InvHolds, OrderlyHolds, PTL DEF Spec, UncontestedIsQuiet
=============================================================================
