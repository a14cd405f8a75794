----------------------------- MODULE RecordLoop -----------------------------
(***************************************************************************)
(* One pass over the pending records of a run (run_service._extract_all):  *)
(* parallel workers over one list, the endpoint-error budget, the totals   *)
(* that end up in run.error and the progress that is reported.             *)
(*                                                                         *)
(* The workers share one event loop, so a step is what one of them does    *)
(* between two awaits.  RunService has this loop in the abstract: there    *)
(* any endpoint error may be the one that stops the pass.                  *)
(***************************************************************************)
EXTENDS Naturals, FiniteSets

CONSTANTS
  NRecords,     \* records in scope
  Parallel,     \* plan.parallel_calls
  MaxAttempts,  \* the most calls one record can cost the adapter
  Unknown       \* LlmEndpointError.attempts is None

ASSUME LoopAssumption ==
  /\ NRecords \in Nat
  /\ Parallel \in Nat \ {0}
  /\ MaxAttempts \in Nat \ {0}
  /\ Unknown \notin Nat

Records == 1 .. NRecords
Workers == 1 .. Parallel
NoRecord == 0

MaxConsecutiveEndpointErrors    == 3
MaxEndpointErrorsBeforeFirstRow == 1

VARIABLES
  committed,  \* records with an extraction row of this run
  queue,      \* pending records no worker has taken
  worker,     \* where each worker is and what it holds
  loop,       \* _RecordLoop
  asked,      \* how often the model's loaded context was asked for
  pinned,     \* plan.context_pinned: an earlier pass recorded the context
  outcome     \* how the pass ended

vars == <<committed, queue, worker, loop, asked, pinned, outcome>>

Bigger(m, n) == IF m >= n THEN m ELSE n

\* pc "loop" is the `while`; "over" is a worker that returned.
AtLoop(w)  == worker[w].pc = "loop"
Holding    == {"calling", "committing"}
InHand     == {worker[w].rec : w \in {v \in Workers : worker[v].pc \in Holding}}

\* _extract_all reads what is pending and what is done, then starts a worker
\* per parallel call, but never more of them than records.
Init ==
  /\ committed \in SUBSET Records
  /\ queue = Records \ committed
  /\ worker = [w \in Workers |->
       [pc |-> IF w <= Cardinality(queue) THEN "loop" ELSE "over",
        rec |-> NoRecord, seen |-> 0, count |-> 0]]
  /\ loop = [done |-> Cardinality(committed), consecutive |-> 0, failures |-> 0,
             attempts |-> 0, stopped |-> FALSE, contextAsked |-> FALSE]
  /\ asked = 0
  /\ pinned \in BOOLEAN
  /\ outcome = "running"

Goto(w, pc) == worker' = [worker EXCEPT ![w].pc = pc]

\* Slip: the budget is looked at after the record was taken.
TakeUnchecked(w, x) ==
  /\ AtLoop(w)
  /\ x \in queue /\ \A y \in queue : x <= y
  /\ queue' = queue \ {x}
  /\ worker' = [worker EXCEPT ![w].pc = "calling", ![w].rec = x]
  /\ UNCHANGED <<committed, loop, asked, pinned, outcome>>

\* The next record in scope order; its prompt is resolved, the model is asked.
Take(w, x) ==
  /\ AtLoop(w)
  /\ ~loop.stopped
  /\ x \in queue /\ \A y \in queue : x <= y
  /\ queue' = queue \ {x}
  /\ worker' = [worker EXCEPT ![w].pc = "calling", ![w].rec = x]
  /\ UNCHANGED <<committed, loop, asked, pinned, outcome>>

\* Slip: a worker leaves only when the list is empty.
LeaveWhenEmpty(w) ==
  /\ AtLoop(w) /\ queue = {}
  /\ Goto(w, "over")
  /\ UNCHANGED <<committed, queue, loop, asked, pinned, outcome>>

Leave(w) ==
  /\ AtLoop(w)
  /\ loop.stopped \/ queue = {}
  /\ Goto(w, "over")
  /\ UNCHANGED <<committed, queue, loop, asked, pinned, outcome>>

\* _endpoint_error_budget(loop.done)
Budget(done) == IF done > 0 THEN MaxConsecutiveEndpointErrors
                            ELSE MaxEndpointErrorsBeforeFirstRow

\* Slip: an unknown cost is forgotten by the next known one.
FailForgets(w, cost) ==
  /\ worker[w].pc = "calling"
  /\ loop' = [loop EXCEPT
       !.consecutive = @ + 1,
       !.failures = @ + 1,
       !.attempts = IF cost = Unknown THEN Unknown ELSE IF @ = Unknown THEN cost ELSE @ + cost,
       !.stopped = @ \/ loop.consecutive + 1 >= Budget(loop.done)]
  /\ worker' = [worker EXCEPT ![w].pc = "loop", ![w].rec = NoRecord]
  /\ UNCHANGED <<committed, queue, asked, pinned, outcome>>

\* Slip: the record that failed goes back to the list.
FailRequeued(w, cost) ==
  /\ worker[w].pc = "calling"
  /\ loop' = [loop EXCEPT
       !.consecutive = @ + 1,
       !.failures = @ + 1,
       !.attempts = IF cost = Unknown \/ @ = Unknown THEN Unknown ELSE @ + cost,
       !.stopped = @ \/ loop.consecutive + 1 >= Budget(loop.done)]
  /\ queue' = queue \cup {worker[w].rec}
  /\ worker' = [worker EXCEPT ![w].pc = "loop", ![w].rec = NoRecord]
  /\ UNCHANGED <<committed, asked, pinned, outcome>>

\* LlmEndpointError: no row, one more failure, and perhaps the end of the pass.
Fail(w, cost) ==
  /\ worker[w].pc = "calling"
  /\ loop' = [loop EXCEPT
       !.consecutive = @ + 1,
       !.failures = @ + 1,
       !.attempts = IF cost = Unknown \/ @ = Unknown THEN Unknown ELSE @ + cost,
       !.stopped = @ \/ loop.consecutive + 1 >= Budget(loop.done)]
  /\ worker' = [worker EXCEPT ![w].pc = "loop", ![w].rec = NoRecord]
  /\ UNCHANGED <<committed, queue, asked, pinned, outcome>>

\* Slip: the count moves when the model answers, before anything committed.
AnsweredCounts(w) ==
  /\ worker[w].pc = "calling"
  /\ loop' = [loop EXCEPT !.consecutive = 0, !.done = @ + 1]
  /\ Goto(w, "committing")
  /\ UNCHANGED <<committed, queue, asked, pinned, outcome>>

\* Slip: an answer that comes after the budget tripped is dropped.
AnsweredDropped(w) ==
  /\ worker[w].pc = "calling"
  /\ loop' = [loop EXCEPT !.consecutive = 0]
  /\ Goto(w, IF loop.stopped THEN "over" ELSE "committing")
  /\ UNCHANGED <<committed, queue, asked, pinned, outcome>>

\* Any answer resets the count of failures in a row.
Answered(w) ==
  /\ worker[w].pc = "calling"
  /\ loop' = [loop EXCEPT !.consecutive = 0]
  /\ Goto(w, "committing")
  /\ UNCHANGED <<committed, queue, asked, pinned, outcome>>

\* _commit_record: one row, one transaction.
Commit(w) ==
  /\ worker[w].pc = "committing"
  /\ committed' = committed \cup {worker[w].rec}
  /\ Goto(w, "landed")
  /\ UNCHANGED <<queue, loop, asked, pinned, outcome>>

\* loop.done is read here, before the count is awaited.
StartCount(w) ==
  worker' = [worker EXCEPT ![w].pc = "counting", ![w].rec = NoRecord, ![w].seen = loop.done]

MustAsk == ~pinned /\ ~loop.contextAsked

\* Slip: contextAsked is set when the answer is in.
AskContextLate(w) ==
  /\ worker[w].pc = "landed" /\ MustAsk
  /\ asked' = asked + 1
  /\ Goto(w, "pinning")
  /\ UNCHANGED <<committed, queue, loop, pinned, outcome>>

\* The first worker to commit asks for the loaded context, and no other.
AskContext(w) ==
  /\ worker[w].pc = "landed" /\ MustAsk
  /\ loop' = [loop EXCEPT !.contextAsked = TRUE]
  /\ asked' = asked + 1
  /\ Goto(w, "pinning")
  /\ UNCHANGED <<committed, queue, pinned, outcome>>

NoContext(w) ==
  /\ worker[w].pc = "landed" /\ ~MustAsk
  /\ StartCount(w)
  /\ UNCHANGED <<committed, queue, loop, asked, pinned, outcome>>

\* The context was written, or the endpoint did not report one.
ContextKnown(w) ==
  /\ worker[w].pc = "pinning"
  /\ StartCount(w)
  /\ UNCHANGED <<committed, queue, loop, asked, pinned, outcome>>

\* count_done: what is committed at the moment the database answers.
Count(w) ==
  /\ worker[w].pc = "counting"
  /\ worker' = [worker EXCEPT ![w].pc = "counted", ![w].count = Cardinality(committed)]
  /\ UNCHANGED <<committed, queue, loop, asked, pinned, outcome>>

\* loop.done = max(loop.done, count), with the loop.done of before the await.
Report(w) ==
  /\ worker[w].pc = "counted"
  /\ loop' = [loop EXCEPT !.done = Bigger(worker[w].seen, worker[w].count)]
  /\ Goto(w, "loop")
  /\ UNCHANGED <<committed, queue, asked, pinned, outcome>>

\* A worker raised something else: the group cancels its siblings, and one
\* commit already handed to the driver may still land (SQLite has one writer).
Break(w) ==
  /\ worker[w].pc \notin {"loop", "over"}
  /\ outcome = "running" /\ outcome' = "raised"
  /\ \/ UNCHANGED committed
     \/ \E v \in Workers \ {w} : worker[v].pc = "committing"
                                 /\ committed' = committed \cup {worker[v].rec}
  /\ worker' = [v \in Workers |-> [worker[v] EXCEPT !.pc = "over"]]
  /\ UNCHANGED <<queue, loop, asked, pinned>>

\* All workers returned: what is still pending decides.
Settle ==
  /\ outcome = "running"
  /\ \A w \in Workers : worker[w].pc = "over"
  /\ outcome' = IF committed = Records THEN "done" ELSE "interrupted"
  /\ UNCHANGED <<committed, queue, worker, loop, asked, pinned>>

WorkerStep(w) ==
  \/ \E x \in Records : Take(w, x)
  \/ \E cost \in 1 .. MaxAttempts \cup {Unknown} : Fail(w, cost)
  \/ Leave(w) \/ Answered(w) \/ Commit(w) \/ AskContext(w) \/ NoContext(w)
  \/ ContextKnown(w) \/ Count(w) \/ Report(w)

Next == Settle \/ \E w \in Workers : WorkerStep(w) \/ Break(w)

Spec == Init /\ [][Next]_vars

\* The event loop runs whoever is ready and the adapter bounds every call.
FairSpec == Spec /\ WF_vars(Settle) /\ \A w \in Workers : WF_vars(WorkerStep(w))
-----------------------------------------------------------------------------
(* Properties.                                                             *)

WorkerType == [pc : Holding \cup {"loop", "over", "landed", "pinning", "counting", "counted"},
               rec : Records \cup {NoRecord}, seen : 0 .. NRecords, count : 0 .. NRecords]

\* The values each part of the loop can hold.
TypeOK ==
  /\ committed \in SUBSET Records
  /\ queue \in SUBSET Records
  /\ worker \in [Workers -> WorkerType]
  /\ loop \in [done : 0 .. NRecords, consecutive : 0 .. NRecords, failures : 0 .. NRecords,
               attempts : Nat \cup {Unknown}, stopped : BOOLEAN, contextAsked : BOOLEAN]
  /\ asked \in Nat
  /\ pinned \in BOOLEAN
  /\ outcome \in {"running", "done", "interrupted", "raised"}

\* Every record is committed, failed and counted, in some worker's hands, or
\* not taken, and no two of these: an answer that comes after the budget
\* tripped still commits, and what run.error counts as failed is exactly what
\* was tried and left no row (_extract_worker's and _endpoint_cost's docstrings).
AccountedFor ==
  outcome # "raised" =>
    NRecords = Cardinality(committed) + loop.failures + Cardinality(queue) + Cardinality(InHand)

\* The cost reported covers every failure it is reported for: a total that
\* omits one says so instead (_extract_worker).
CostCoversFailures == loop.attempts # Unknown => loop.attempts >= loop.failures

\* Once the budget tripped, at most N-1 calls are still to be spent.
FurtherCallsBounded == loop.stopped => Cardinality(InHand) <= Parallel - 1

\* Progress is derived from committed rows, and never ahead of them.
NeverAheadOfTheRows == loop.done <= Cardinality(committed)

\* The loaded context is asked for once, and not at all when it is known.
ContextAskedOnce == asked <= IF pinned THEN 0 ELSE 1

\* The pass ends, however the endpoint behaves.
LoopEnds == <>(outcome # "running")

\* The reported count never steps back (_RecordLoop: "kept here only so it can
\* be reported without going backwards").
DoneNeverStepsBack == [][loop'.done >= loop.done]_vars

\* A run with a committed row tolerates three failures in a row
\* (_MAX_CONSECUTIVE_ENDPOINT_ERRORS: "once this run has committed at least
\* one row").
RowsEarnTolerance ==
  [][~loop.stopped /\ loop'.stopped /\ committed # {} =>
       loop'.consecutive >= MaxConsecutiveEndpointErrors]_vars
=============================================================================
