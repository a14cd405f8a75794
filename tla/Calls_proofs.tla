---------------------------- MODULE Calls_proofs ----------------------------
(***************************************************************************)
(* What holds of one pass for every number of records, of parallel calls   *)
(* and of attempts; that it holds beside the adapter; and that the         *)
(* adapter's answers are of their time for any number of readers,          *)
(* requests, saves and endpoints.                                          *)
(***************************************************************************)
EXTENDS Calls, FunctionTheorems, FiniteSetTheorems, TLAPS

Pcs == Holding \cup {"loop", "over", "landed", "pinning", "counting", "counted"}

Held   == [pc : Pcs, rec : Records \cup {NoRecord}, seen : Nat, count : Nat]
Totals == [done : Nat, consecutive : Nat, failures : Nat,
           attempts : Nat \cup {Unknown}, stopped : BOOLEAN, contextAsked : BOOLEAN]

\* The types, of what the properties are about.
Typed ==
  /\ committed \in SUBSET Records
  /\ queue \in SUBSET Records
  /\ worker \in [Workers -> Held]
  /\ loop \in Totals
  /\ asked \in Nat
  /\ pinned \in BOOLEAN
  /\ outcome \in {"running", "done", "interrupted", "raised"}

Holders == {w \in Workers : worker[w].pc \in Holding}

\* A record is in one place: committed, not taken, or in one worker's hands.
OnePlace ==
  /\ queue \cap committed = {}
  /\ \A w \in Holders : worker[w].rec \in Records \ (queue \cup committed)
  /\ \A v, w \in Holders : worker[v].rec = worker[w].rec => v = w

\* Once the pass has an outcome nobody works.
OverIsOver == outcome # "running" => \A w \in Workers : worker[w].pc = "over"

\* What a worker is about to report was committed, and reported counts grow.
CountsAreOfRows ==
  \A w \in Workers : /\ worker[w].pc = "counted" => worker[w].count <= Cardinality(committed)
                     /\ worker[w].pc \in {"counting", "counted"} =>
                          worker[w].seen <= Cardinality(committed)

\* The context is asked for by the worker that says so.
AskedIsSaid ==
  /\ asked = IF loop.contextAsked THEN 1 ELSE 0
  /\ pinned => ~loop.contextAsked

Inv ==
  /\ Typed /\ OnePlace /\ OverIsOver /\ CountsAreOfRows /\ AskedIsSaid
  /\ AccountedFor /\ FurtherCallsBounded
  /\ NeverAheadOfTheRows /\ CostCoversFailures

-----------------------------------------------------------------------------
(* Counting.                                                               *)

LEMMA RecordsAreFinite ==
  /\ IsFiniteSet(Records) /\ Cardinality(Records) = NRecords
  /\ IsFiniteSet(Workers) /\ Cardinality(Workers) = Parallel
BY FS_Interval, LoopAssumption DEF Records, Workers

LEMMA OneMore ==
  ASSUME NEW S, IsFiniteSet(S), NEW x, x \notin S
  PROVE  IsFiniteSet(S \cup {x}) /\ Cardinality(S \cup {x}) = Cardinality(S) + 1
BY FS_AddElement

LEMMA OneLess ==
  ASSUME NEW S, IsFiniteSet(S), NEW x \in S
  PROVE  IsFiniteSet(S \ {x}) /\ Cardinality(S \ {x}) = Cardinality(S) - 1
BY FS_RemoveElement

\* The records in hand are no more than the workers that hold one.
LEMMA InHandBound ==
  Typed /\ OnePlace =>
    /\ IsFiniteSet(InHand) /\ IsFiniteSet(Holders)
    /\ InHand \subseteq Records
    /\ Cardinality(InHand) <= Cardinality(Holders)
<1> SUFFICES ASSUME Typed, OnePlace
             PROVE  /\ IsFiniteSet(InHand) /\ IsFiniteSet(Holders)
                    /\ InHand \subseteq Records
                    /\ Cardinality(InHand) <= Cardinality(Holders)
  OBVIOUS
<1> DEFINE f == [w \in Holders |-> worker[w].rec]
<1>1. IsFiniteSet(Holders)
  BY RecordsAreFinite, FS_Subset DEF Holders
<1>2. InHand = {worker[w].rec : w \in Holders}
  BY DEF InHand, Holders
<1>3. f \in Surjection(Holders, InHand)
  BY <1>2 DEF Surjection
<1>4. IsFiniteSet(InHand) /\ Cardinality(InHand) <= Cardinality(Holders)
  BY <1>1, <1>3, FS_Surjection
<1> QED
  BY <1>1, <1>2, <1>4 DEF OnePlace

\* What the counts are made of.
LEMMA Sizes ==
  Typed /\ OnePlace =>
    /\ IsFiniteSet(committed) /\ Cardinality(committed) \in Nat
    /\ IsFiniteSet(queue) /\ Cardinality(queue) \in Nat
    /\ IsFiniteSet(InHand) /\ Cardinality(InHand) \in Nat
BY RecordsAreFinite, InHandBound, FS_Subset, FS_CardinalityType DEF Typed

\* The same of the next state.
LEMMA SizesAfter ==
  Typed' /\ OnePlace' =>
    /\ IsFiniteSet(committed') /\ Cardinality(committed') \in Nat
    /\ IsFiniteSet(InHand') /\ Cardinality(InHand') \in Nat
    /\ IsFiniteSet(Holders') /\ Cardinality(InHand') <= Cardinality(Holders')
<1>1. (Typed /\ OnePlace =>
        /\ IsFiniteSet(committed) /\ Cardinality(committed) \in Nat
        /\ IsFiniteSet(queue) /\ Cardinality(queue) \in Nat
        /\ IsFiniteSet(InHand) /\ Cardinality(InHand) \in Nat)'
  BY Sizes, PTL
<1>2. (Typed /\ OnePlace =>
        /\ IsFiniteSet(InHand) /\ IsFiniteSet(Holders)
        /\ InHand \subseteq Records
        /\ Cardinality(InHand) <= Cardinality(Holders))'
  BY InHandBound, PTL
<1> QED
  BY <1>1, <1>2

-----------------------------------------------------------------------------
(* Every step keeps the invariant.                                         *)

\* The totals after a failure.
LEMMA TotalsAdded ==
  ASSUME NEW l \in Totals, NEW a \in Nat \cup {Unknown}, NEW b \in BOOLEAN
  PROVE  [l EXCEPT !.consecutive = @ + 1, !.failures = @ + 1, !.attempts = a, !.stopped = b]
           \in Totals
<1> DEFINE k == [l EXCEPT !.consecutive = @ + 1]
           m == [k EXCEPT !.failures = l.failures + 1]
           n == [m EXCEPT !.attempts = a]
<1>1. k \in Totals /\ l.failures + 1 \in Nat
  BY DEF Totals
<1>2. m \in Totals
  <2> HIDE DEF k
  <2> QED
    BY <1>1 DEF Totals
<1>3. n \in Totals
  <2> HIDE DEF m
  <2> QED
    BY <1>2 DEF Totals
<1>4. [n EXCEPT !.stopped = b] \in Totals
  <2> HIDE DEF n
  <2> QED
    BY <1>3 DEF Totals
<1> QED
  BY <1>4

LEMMA TypedNext == Inv /\ [Next]_vars => Typed'
<1> SUFFICES ASSUME Inv, [Next]_vars PROVE Typed'
  OBVIOUS
<1>0. Typed /\ Cardinality(committed) \in Nat
  BY Sizes DEF Inv
<1> USE <1>0 DEF Typed
<1>1. ASSUME NEW w \in Workers, NEW x \in Records, Take(w, x) PROVE Typed'
  <2>1. worker' \in [Workers -> Held]
    BY <1>1, ZenonT(40) DEF Take, Held, Pcs, Holding
  <2> QED
    BY <1>1, <2>1 DEF Take
<1>2. ASSUME NEW w \in Workers, NEW cost \in 1 .. MaxAttempts \cup {Unknown}, Fail(w, cost)
      PROVE  Typed'
  <2>1. worker' \in [Workers -> Held]
    BY <1>2, ZenonT(40) DEF Fail, Held, Pcs, Holding, NoRecord
  <2>2. loop' \in Totals
    <3> DEFINE attempts == IF cost = Unknown \/ loop.attempts = Unknown THEN Unknown
                           ELSE loop.attempts + cost
               stopped == loop.stopped \/ loop.consecutive + 1 >= Budget(loop.done)
    <3>1. attempts \in Nat \cup {Unknown}
      BY LoopAssumption DEF Totals
    <3>2. stopped \in BOOLEAN
      OBVIOUS
    <3>3. loop' = [loop EXCEPT !.consecutive = @ + 1, !.failures = @ + 1,
                                !.attempts = attempts, !.stopped = stopped]
      BY <1>2, Zenon DEF Fail
    <3> HIDE DEF attempts, stopped
    <3> QED
      BY <3>1, <3>2, <3>3, TotalsAdded
  <2> QED
    BY <1>2, <2>1, <2>2 DEF Fail
<1>3. ASSUME NEW w \in Workers, Leave(w) PROVE Typed'
  BY <1>3 DEF Leave, Goto, Held, Pcs
<1>4. ASSUME NEW w \in Workers, Answered(w) PROVE Typed'
  <2>1. worker' \in [Workers -> Held]
    BY <1>4 DEF Answered, Goto, Held, Pcs, Holding
  <2>2. loop' \in Totals
    BY <1>4 DEF Answered, Totals
  <2> QED
    BY <1>4, <2>1, <2>2 DEF Answered
<1>5. ASSUME NEW w \in Workers, Commit(w) PROVE Typed'
  <2>1. worker' \in [Workers -> Held] /\ worker[w].rec \in Records
    BY <1>5 DEF Commit, Goto, Held, Pcs, Inv, OnePlace, Holders, Holding
  <2> QED
    BY <1>5, <2>1 DEF Commit
<1>6. ASSUME NEW w \in Workers, AskContext(w) PROVE Typed'
  <2>1. worker' \in [Workers -> Held]
    BY <1>6 DEF AskContext, Goto, Held, Pcs
  <2>2. loop' \in Totals
    BY <1>6 DEF AskContext, Totals
  <2> QED
    BY <1>6, <2>1, <2>2 DEF AskContext
<1>7. ASSUME NEW w \in Workers, NoContext(w) \/ ContextKnown(w) PROVE Typed'
  <2>1. loop.done \in Nat
    BY DEF Totals
  <2>2. worker' \in [Workers -> Held]
    BY <1>7, <2>1 DEF NoContext, ContextKnown, StartCount, NoRecord, Held, Pcs
  <2> QED
    BY <1>7, <2>2 DEF NoContext, ContextKnown
<1>8. ASSUME NEW w \in Workers, Count(w) PROVE Typed'
  <2>1. worker' \in [Workers -> Held]
    BY <1>8, ZenonT(40) DEF Count, Held, Pcs
  <2> QED
    BY <1>8, <2>1 DEF Count
<1>9. ASSUME NEW w \in Workers, Report(w) PROVE Typed'
  <2>1. worker' \in [Workers -> Held]
    BY <1>9 DEF Report, Goto, Held, Pcs
  <2>2. Bigger(worker[w].seen, worker[w].count) \in Nat
    BY DEF Bigger, Held
  <2>3. loop' \in Totals
    BY <1>9, <2>2 DEF Report, Totals
  <2> QED
    BY <1>9, <2>1, <2>3 DEF Report
<1>10. ASSUME NEW w \in Workers, Break(w) PROVE Typed'
  <2>1. worker' \in [Workers -> Held]
    BY <1>10 DEF Break, Held, Pcs
  <2>2. committed' \in SUBSET Records
    BY <1>10 DEF Break, Inv, OnePlace, Holders, Holding
  <2> QED
    BY <1>10, <2>1, <2>2 DEF Break
<1>11. CASE Settle
  BY <1>11 DEF Settle
<1>12. CASE UNCHANGED vars
  BY <1>12 DEF vars
<1> QED
  BY <1>1, <1>2, <1>3, <1>4, <1>5, <1>6, <1>7, <1>8, <1>9, <1>10, <1>11, <1>12
    DEF Next, WorkerStep
\* What a step of one worker does to where the records are.
Moves(w, pc, rec) ==
  /\ worker'[w].pc = pc /\ worker'[w].rec = rec
  /\ \A v \in Workers \ {w} : worker'[v] = worker[v]

\* A step that moves no record.
Stays(w) ==
  /\ worker[w].pc \notin Holding \/ worker'[w].pc \in Holding
  /\ worker'[w].pc \in Holding => worker[w].pc \in Holding /\ worker'[w].rec = worker[w].rec
  /\ \A v \in Workers \ {w} : worker'[v] = worker[v]
  /\ UNCHANGED <<committed, queue, outcome>>
  /\ loop'.failures = loop.failures /\ loop'.stopped = loop.stopped

LEMMA WorkerShape ==
  ASSUME Inv, NEW w \in Workers
  PROVE  /\ \A x \in Records : Take(w, x) =>
              Moves(w, "calling", x) /\ loop' = loop
         /\ \A cost \in 1 .. MaxAttempts \cup {Unknown} : Fail(w, cost) =>
              /\ Moves(w, "loop", NoRecord)
              /\ loop'.failures = loop.failures + 1 /\ (loop.stopped => loop'.stopped)
         /\ Commit(w) => Moves(w, "landed", worker[w].rec) /\ loop' = loop
         /\ (\/ Leave(w) \/ Answered(w) \/ AskContext(w) \/ NoContext(w) \/ ContextKnown(w)
             \/ Count(w) \/ Report(w)) => Stays(w)
<1>0. Typed
  BY DEF Inv
<1>1. ASSUME NEW x \in Records, Take(w, x) PROVE Moves(w, "calling", x) /\ loop' = loop
  BY <1>0, <1>1 DEF Take, Moves, Typed, Held
<1>2. ASSUME NEW cost \in 1 .. MaxAttempts \cup {Unknown}, Fail(w, cost)
      PROVE  /\ Moves(w, "loop", NoRecord)
             /\ loop'.failures = loop.failures + 1 /\ (loop.stopped => loop'.stopped)
  <2>1. Moves(w, "loop", NoRecord)
    BY <1>0, <1>2 DEF Fail, Moves, Typed, Held
  <2>2. loop'.failures = loop.failures + 1 /\ (loop.stopped => loop'.stopped)
    BY <1>0, <1>2 DEF Fail, Typed, Totals
  <2> QED
    BY <2>1, <2>2
<1>3. ASSUME Commit(w) PROVE Moves(w, "landed", worker[w].rec) /\ loop' = loop
  BY <1>0, <1>3 DEF Commit, Goto, Moves, Typed, Held
<1>4. ASSUME Leave(w) PROVE Stays(w)
  BY <1>0, <1>4 DEF Leave, AtLoop, Goto, Stays, Holding, Typed, Held
<1>5. ASSUME Answered(w) PROVE Stays(w)
  BY <1>0, <1>5 DEF Answered, Goto, Stays, Holding, Typed, Held, Totals
<1>6. ASSUME AskContext(w) PROVE Stays(w)
  BY <1>0, <1>6 DEF AskContext, Goto, Stays, Holding, Typed, Held, Totals
<1>7. ASSUME NoContext(w) \/ ContextKnown(w) PROVE Stays(w)
  BY <1>0, <1>7 DEF NoContext, ContextKnown, StartCount, Stays, Holding, Typed, Held
<1>8. ASSUME Count(w) PROVE Stays(w)
  BY <1>0, <1>8 DEF Count, Stays, Holding, Typed, Held
<1>9. ASSUME Report(w) PROVE Stays(w)
  BY <1>0, <1>9 DEF Report, Goto, Stays, Holding, Typed, Held, Totals
<1> QED
  BY <1>1, <1>2, <1>3, <1>4, <1>5, <1>6, <1>7, <1>8, <1>9
LEMMA OnePlaceNext == Inv /\ [Next]_vars => OnePlace'
<1> SUFFICES ASSUME Inv, [Next]_vars PROVE OnePlace'
  OBVIOUS
<1>0. Typed /\ OnePlace
  BY DEF Inv
<1> USE <1>0 DEF Typed, OnePlace, Holders
<1>1. ASSUME NEW w \in Workers, NEW x \in Records, Take(w, x) PROVE OnePlace'
  <2>1. Moves(w, "calling", x) /\ AtLoop(w) /\ x \in queue /\ queue' = queue \ {x} /\ committed' = committed
    BY <1>1, WorkerShape DEF Take
  <2> QED
    BY <2>1 DEF Moves, AtLoop, Holding
<1>2. ASSUME NEW w \in Workers, NEW cost \in 1 .. MaxAttempts \cup {Unknown}, Fail(w, cost)
      PROVE  OnePlace'
  <2>1. Moves(w, "loop", NoRecord) /\ queue' = queue /\ committed' = committed
    BY <1>2, WorkerShape DEF Fail
  <2> QED
    BY <2>1 DEF Moves, Holding
<1>3. ASSUME NEW w \in Workers, Commit(w) PROVE OnePlace'
  <2>1. /\ Moves(w, "landed", worker[w].rec) /\ worker[w].pc \in Holding
        /\ queue' = queue /\ committed' = committed \cup {worker[w].rec}
    BY <1>3, WorkerShape DEF Commit, Holding
  <2> QED
    BY <2>1 DEF Moves, Holding
<1>4. ASSUME NEW w \in Workers, Stays(w) PROVE OnePlace'
  BY <1>4 DEF Stays
<1>5. ASSUME NEW w \in Workers, Break(w) PROVE OnePlace'
  <2>1. Holders' = {} /\ queue' = queue
    BY <1>5 DEF Break, Holding
  <2>2. queue' \cap committed' = {}
    BY <1>5 DEF Break, Holding
  <2> QED
    BY <2>1, <2>2
<1>6. CASE UNCHANGED <<committed, queue, worker>>
  BY <1>6
<1> QED
  BY <1>1, <1>2, <1>3, <1>4, <1>5, <1>6, WorkerShape DEF Next, WorkerStep, Settle, vars

LEMMA OverNext == Inv /\ [Next]_vars => OverIsOver'
<1> SUFFICES ASSUME Inv, [Next]_vars PROVE OverIsOver'
  OBVIOUS
<1> USE DEF Inv, Typed, OverIsOver
<1>1. ASSUME NEW w \in Workers, WorkerStep(w) PROVE outcome' = "running"
  BY <1>1 DEF WorkerStep, Take, Fail, Leave, Answered, Commit, AskContext, NoContext, ContextKnown,
              Count, Report, AtLoop
<1>2. ASSUME NEW w \in Workers, Break(w) PROVE OverIsOver'
  BY <1>2 DEF Break, Held
<1> QED
  BY <1>1, <1>2 DEF Next, Settle, vars

\* Where the records in hand go.
LEMMA HandNext ==
  ASSUME Inv, NEW w \in Workers
  PROVE  /\ \A x \in Records : Take(w, x) => InHand' = InHand \cup {x} /\ x \notin InHand
         /\ \A cost \in 1 .. MaxAttempts \cup {Unknown} : Fail(w, cost) =>
              worker[w].rec \in InHand /\ InHand' = InHand \ {worker[w].rec}
         /\ Commit(w) => /\ worker[w].rec \in InHand \ committed
                         /\ InHand' = InHand \ {worker[w].rec}
         /\ Stays(w) => InHand' = InHand
         /\ Break(w) => InHand' = {}
<1>0. Typed /\ OnePlace
  BY DEF Inv
<1> USE <1>0 DEF OnePlace, Holders, InHand
<1>1. ASSUME NEW x \in Records, Take(w, x) PROVE InHand' = InHand \cup {x} /\ x \notin InHand
  <2>1. Moves(w, "calling", x) /\ AtLoop(w) /\ x \in queue
    BY <1>1, WorkerShape DEF Take
  <2> QED
    BY <2>1 DEF Moves, AtLoop, Holding
<1>2. ASSUME NEW cost \in 1 .. MaxAttempts \cup {Unknown}, Fail(w, cost)
      PROVE  worker[w].rec \in InHand /\ InHand' = InHand \ {worker[w].rec}
  <2>1. Moves(w, "loop", NoRecord) /\ worker[w].pc \in Holding
    BY <1>2, WorkerShape DEF Fail, Holding
  <2> QED
    BY <2>1 DEF Moves, Holding
<1>3. ASSUME Commit(w)
      PROVE  worker[w].rec \in InHand \ committed /\ InHand' = InHand \ {worker[w].rec}
  <2>1. Moves(w, "landed", worker[w].rec) /\ worker[w].pc \in Holding
    BY <1>3, WorkerShape DEF Commit, Holding
  <2> QED
    BY <2>1 DEF Moves, Holding
<1>4. ASSUME Stays(w) PROVE InHand' = InHand
  BY <1>4 DEF Stays
<1>5. ASSUME Break(w) PROVE InHand' = {}
  BY <1>5 DEF Break, Holding, Typed, Held
<1> QED
  BY <1>1, <1>2, <1>3, <1>4, <1>5
LEMMA AccountedNext == Inv /\ [Next]_vars => AccountedFor'
<1> SUFFICES ASSUME Inv, [Next]_vars, outcome' # "raised"
             PROVE  (NRecords = Cardinality(committed) + loop.failures + Cardinality(queue)
                                + Cardinality(InHand))'
  BY DEF AccountedFor
<1> DEFINE Sum == Cardinality(committed) + loop.failures + Cardinality(queue) + Cardinality(InHand)
<1>0. /\ IsFiniteSet(committed) /\ Cardinality(committed) \in Nat
      /\ IsFiniteSet(queue) /\ Cardinality(queue) \in Nat
      /\ IsFiniteSet(InHand) /\ Cardinality(InHand) \in Nat
      /\ loop.failures \in Nat
      /\ outcome # "raised" => NRecords = Sum
  BY Sizes DEF Inv, Typed, Totals, AccountedFor
<1>1. ASSUME NEW w \in Workers, NEW x \in Records, Take(w, x) PROVE NRecords = Sum'
  <2>1. /\ x \in queue /\ queue' = queue \ {x} /\ outcome' = outcome
        /\ x \notin InHand /\ InHand' = InHand \cup {x}
        /\ UNCHANGED <<committed, loop>>
    BY <1>1, HandNext DEF Take
  <2>2. Cardinality(queue') = Cardinality(queue) - 1
    BY <1>0, <2>1, OneLess
  <2>3. Cardinality(InHand') = Cardinality(InHand) + 1
    BY <1>0, <2>1, OneMore
  <2> QED
    BY <1>0, <2>1, <2>2, <2>3
<1>2. ASSUME NEW w \in Workers, NEW cost \in 1 .. MaxAttempts \cup {Unknown}, Fail(w, cost)
      PROVE  NRecords = Sum'
  <2>1. /\ worker[w].rec \in InHand /\ InHand' = InHand \ {worker[w].rec}
        /\ loop'.failures = loop.failures + 1
        /\ UNCHANGED <<committed, queue, outcome>>
    BY <1>2, HandNext, WorkerShape DEF Fail
  <2>2. Cardinality(InHand') = Cardinality(InHand) - 1
    BY <1>0, <2>1, OneLess
  <2> QED
    BY <1>0, <2>1, <2>2
<1>3. ASSUME NEW w \in Workers, Commit(w) PROVE NRecords = Sum'
  <2> DEFINE r == worker[w].rec
  <2>1. /\ r \in InHand /\ r \notin committed
        /\ InHand' = InHand \ {r} /\ committed' = committed \cup {r}
        /\ UNCHANGED <<queue, loop, outcome>>
    BY <1>3, HandNext DEF Commit
  <2>2. Cardinality(InHand') = Cardinality(InHand) - 1
    BY <1>0, <2>1, OneLess
  <2>3. Cardinality(committed') = Cardinality(committed) + 1
    BY <1>0, <2>1, OneMore
  <2> QED
    BY <1>0, <2>1, <2>2, <2>3
<1>4. ASSUME NEW w \in Workers, Stays(w) PROVE NRecords = Sum'
  <2>1. InHand' = InHand /\ UNCHANGED <<committed, queue, outcome>> /\ loop'.failures = loop.failures
    BY <1>4, HandNext DEF Stays
  <2> QED
    BY <1>0, <2>1
<1>5. CASE outcome # "raised" /\ UNCHANGED <<committed, queue, worker, loop>>
  <2>1. InHand' = InHand
    BY <1>5 DEF InHand
  <2> QED
    BY <1>0, <1>5, <2>1
<1>6. \A w \in Workers : ~Break(w)
  BY SMTT(30) DEF Break
<1>7. outcome # "raised"
  BY DEF Next, WorkerStep, Take, Fail, Leave, Answered, Commit, AskContext, NoContext, ContextKnown,
         Count, Report, Break, Settle, vars
<1> QED
  BY <1>1, <1>2, <1>3, <1>4, <1>5, <1>6, <1>7, WorkerShape DEF Next, WorkerStep, Settle, vars

\* Once the budget tripped no hand is filled; when it trips, one is empty.
LEMMA BoundNext == Inv /\ [Next]_vars => FurtherCallsBounded'
<1> SUFFICES ASSUME Inv, [Next]_vars, loop'.stopped
             PROVE  Cardinality(InHand') <= Parallel - 1
  BY DEF FurtherCallsBounded
<1>0. /\ Typed /\ OnePlace /\ Typed' /\ OnePlace' /\ Parallel \in Nat \ {0}
      /\ IsFiniteSet(InHand) /\ Cardinality(InHand) \in Nat
      /\ IsFiniteSet(InHand') /\ Cardinality(InHand') \in Nat
      /\ loop.stopped => Cardinality(InHand) <= Parallel - 1
  <2>1. Typed /\ OnePlace /\ Typed' /\ OnePlace'
    BY TypedNext, OnePlaceNext DEF Inv
  <2>2. IsFiniteSet(InHand) /\ Cardinality(InHand) \in Nat
    BY <2>1, Sizes
  <2>3. IsFiniteSet(InHand') /\ Cardinality(InHand') \in Nat
    BY <2>1, SizesAfter
  <2> QED
    BY <2>1, <2>2, <2>3, LoopAssumption DEF Inv, FurtherCallsBounded
<1>1. ASSUME loop.stopped, InHand' \subseteq InHand PROVE Cardinality(InHand') <= Parallel - 1
  BY <1>0, <1>1, FS_Subset
<1>2. ASSUME NEW w \in Workers, NEW cost \in 1 .. MaxAttempts \cup {Unknown}, Fail(w, cost)
      PROVE  Cardinality(InHand') <= Parallel - 1
  <2>1. Holders' \subseteq Workers \ {w}
    <3>1. Moves(w, "loop", NoRecord)
      BY <1>2, WorkerShape
    <3> QED
      BY <3>1 DEF Moves, Holders, Holding
  <2>2. IsFiniteSet(Workers \ {w}) /\ Cardinality(Workers \ {w}) = Parallel - 1
    BY RecordsAreFinite, OneLess
  <2>3. Cardinality(Holders') <= Parallel - 1
    BY <2>1, <2>2, FS_Subset
  <2>4. Cardinality(InHand') <= Cardinality(Holders') /\ Cardinality(Holders') \in Nat
    BY <1>0, SizesAfter, FS_CardinalityType
  <2> QED
    BY <1>0, <2>3, <2>4
<1>3. ASSUME NEW w \in Workers, NEW x \in Records, Take(w, x) PROVE FALSE
  BY <1>3 DEF Take
<1>4. ASSUME NEW w \in Workers, Commit(w) PROVE loop.stopped /\ InHand' \subseteq InHand
  BY <1>4, HandNext DEF Commit
<1>5. ASSUME NEW w \in Workers, Stays(w) PROVE loop.stopped /\ InHand' \subseteq InHand
  BY <1>5, HandNext DEF Stays
<1>6. ASSUME NEW w \in Workers, Break(w) PROVE loop.stopped /\ InHand' \subseteq InHand
  BY <1>6, HandNext DEF Break
<1>7. CASE UNCHANGED <<worker, loop>>
  BY <1>1, <1>7 DEF InHand
<1> QED
  BY <1>1, <1>2, <1>3, <1>4, <1>5, <1>6, <1>7, WorkerShape DEF Next, WorkerStep, Settle, vars

\* No row is taken back, and what a worker read of them stays true.
LEMMA RowsStay ==
  Inv /\ [Next]_vars => /\ committed \subseteq committed'
                        /\ Cardinality(committed) <= Cardinality(committed')
<1> SUFFICES ASSUME Inv, [Next]_vars
             PROVE  committed \subseteq committed' /\ Cardinality(committed) <= Cardinality(committed')
  OBVIOUS
<1>1. committed \subseteq committed'
  BY DEF Next, WorkerStep, Take, Fail, Leave, Answered, Commit, AskContext, NoContext, ContextKnown,
         StartCount, Count, Report, Break, Settle, vars
<1>2. IsFiniteSet(committed')
  BY TypedNext, OnePlaceNext, SizesAfter
<1> QED
  BY <1>1, <1>2, FS_Subset

\* A worker's reading of the rows, and the count that is reported.
Reading(w) == /\ worker[w].pc = "counted" => worker[w].count <= Cardinality(committed)
              /\ worker[w].pc \in {"counting", "counted"} => worker[w].seen <= Cardinality(committed)

LEMMA ReadingNext ==
  ASSUME Inv, [Next]_vars, NEW w \in Workers
  PROVE  /\ WorkerStep(w) => Reading(w)'
         /\ worker'[w] = worker[w] => Reading(w)'
<1>0. /\ Typed /\ Reading(w) /\ worker[w].seen \in Nat /\ worker[w].count \in Nat
      /\ loop.done <= Cardinality(committed) /\ loop.done \in Nat
      /\ Cardinality(committed) \in Nat /\ Cardinality(committed') \in Nat
      /\ Cardinality(committed) <= Cardinality(committed')
  BY RowsStay, Sizes, SizesAfter, TypedNext, OnePlaceNext
     DEF Inv, Typed, Held, Totals, CountsAreOfRows, Reading, NeverAheadOfTheRows
<1>1. ASSUME worker'[w] = worker[w] PROVE Reading(w)'
  BY <1>0, <1>1 DEF Reading
<1>2. ASSUME \/ \E x \in Records : Take(w, x)
             \/ \E cost \in 1 .. MaxAttempts \cup {Unknown} : Fail(w, cost)
             \/ Leave(w) \/ Answered(w) \/ Commit(w) \/ AskContext(w) \/ Report(w)
      PROVE  worker'[w].pc \notin {"counting", "counted"}
  <2>1. ASSUME NEW x \in Records, Take(w, x) PROVE worker'[w].pc = "calling"
    BY <1>0, <2>1 DEF Take, Typed, Held
  <2>2. ASSUME NEW cost \in 1 .. MaxAttempts \cup {Unknown}, Fail(w, cost)
        PROVE  worker'[w].pc = "loop"
    BY <1>0, <2>2 DEF Fail, Typed, Held
  <2>3. ASSUME Leave(w) \/ Answered(w) \/ Commit(w)
        PROVE  worker'[w].pc \in {"over", "committing", "landed"}
    BY <1>0, <2>3 DEF Leave, Answered, Commit, Goto, Typed, Held
  <2>4. ASSUME AskContext(w) \/ Report(w) PROVE worker'[w].pc \in {"pinning", "loop"}
    BY <1>0, <2>4 DEF AskContext, Report, Goto, Typed, Held
  <2> QED
    BY <1>2, <2>1, <2>2, <2>3, <2>4
<1>3. ASSUME NoContext(w) \/ ContextKnown(w)
      PROVE  worker'[w].pc = "counting" /\ worker'[w].seen = loop.done
  BY <1>0, <1>3 DEF NoContext, ContextKnown, StartCount, Typed, Held
<1>4. ASSUME Count(w)
      PROVE  /\ worker[w].pc = "counting" /\ worker'[w].pc = "counted"
             /\ worker'[w].seen = worker[w].seen /\ worker'[w].count = Cardinality(committed)
  BY <1>0, <1>4 DEF Count, Typed, Held
<1> QED
  BY <1>0, <1>1, <1>2, <1>3, <1>4 DEF Reading, WorkerStep

LEMMA CountsNext == Inv /\ [Next]_vars => CountsAreOfRows' /\ NeverAheadOfTheRows'
<1> SUFFICES ASSUME Inv, [Next]_vars PROVE CountsAreOfRows' /\ NeverAheadOfTheRows'
  OBVIOUS
<1>0. /\ Typed /\ CountsAreOfRows /\ loop.done \in Nat /\ loop.done <= Cardinality(committed)
      /\ Cardinality(committed) \in Nat /\ Cardinality(committed') \in Nat
      /\ Cardinality(committed) <= Cardinality(committed')
  BY RowsStay, Sizes, SizesAfter, TypedNext, OnePlaceNext
     DEF Inv, Typed, Totals, NeverAheadOfTheRows
<1>1. ASSUME NEW v \in Workers, WorkerStep(v), NEW w \in Workers \ {v} PROVE worker'[w] = worker[w]
  BY <1>0, <1>1 DEF WorkerStep, Take, Fail, Leave, Answered, Commit, AskContext, NoContext,
                    ContextKnown, StartCount, Count, Report, Goto, Typed
<1>2. ASSUME NEW v \in Workers, Break(v) PROVE CountsAreOfRows'
  BY <1>0, <1>2 DEF Break, CountsAreOfRows, Typed, Held
<1>3. ASSUME NEW v \in Workers, WorkerStep(v) PROVE CountsAreOfRows'
  BY <1>1, <1>3, ReadingNext DEF CountsAreOfRows, Reading
<1>4. ASSUME UNCHANGED worker PROVE CountsAreOfRows'
  BY <1>4, ReadingNext DEF CountsAreOfRows, Reading
<1>5. CountsAreOfRows'
  BY <1>2, <1>3, <1>4 DEF Next, Settle, vars
<1>6. ASSUME NEW w \in Workers, Report(w) PROVE loop'.done <= Cardinality(committed)
  <2>1. worker[w].seen <= Cardinality(committed) /\ worker[w].count <= Cardinality(committed)
    BY <1>0, <1>6 DEF Report, CountsAreOfRows
  <2>2. loop'.done = Bigger(worker[w].seen, worker[w].count)
    BY <1>0, <1>6 DEF Report, Typed, Totals
  <2> QED
    BY <2>1, <2>2 DEF Bigger
<1>7. ASSUME NEW w \in Workers, NEW cost \in 1 .. MaxAttempts \cup {Unknown}, Fail(w, cost)
      PROVE  loop'.done = loop.done
  BY <1>0, <1>7 DEF Fail, Typed, Totals
<1>8. ASSUME NEW w \in Workers, Answered(w) \/ AskContext(w) PROVE loop'.done = loop.done
  BY <1>0, <1>8 DEF Answered, AskContext, Typed, Totals
<1>9. \/ \E w \in Workers : Report(w) \/ Answered(w) \/ AskContext(w)
      \/ \E w \in Workers, cost \in 1 .. MaxAttempts \cup {Unknown} : Fail(w, cost)
      \/ UNCHANGED loop
  BY DEF Next, WorkerStep, Take, Leave, Commit, NoContext, ContextKnown, Count, Break, Settle, vars
<1>10. loop'.done <= Cardinality(committed) /\ loop'.done \in Nat
  BY <1>0, <1>6, <1>7, <1>8, <1>9, TypedNext DEF Typed, Totals
<1> QED
  BY <1>0, <1>5, <1>10 DEF NeverAheadOfTheRows

\* What the failures cost is at least one call each.
LEMMA CostNext == Inv /\ [Next]_vars => CostCoversFailures'
<1> SUFFICES ASSUME Inv, [Next]_vars PROVE CostCoversFailures'
  OBVIOUS
<1>0. /\ loop \in Totals /\ loop.failures \in Nat /\ loop.attempts \in Nat \cup {Unknown}
      /\ Unknown \notin Nat /\ MaxAttempts \in Nat /\ CostCoversFailures
  BY LoopAssumption DEF Inv, Typed, Totals
<1>1. ASSUME NEW w \in Workers, NEW cost \in 1 .. MaxAttempts \cup {Unknown}, Fail(w, cost)
      PROVE  CostCoversFailures'
  <2>1. /\ loop'.failures = loop.failures + 1
        /\ loop'.attempts = IF cost = Unknown \/ loop.attempts = Unknown THEN Unknown
                            ELSE loop.attempts + cost
    BY <1>0, <1>1 DEF Fail, Totals
  <2>2. cost # Unknown => cost \in Nat /\ cost >= 1
    BY <1>0
  <2>3. CASE cost = Unknown \/ loop.attempts = Unknown
    BY <2>1, <2>3 DEF CostCoversFailures
  <2>4. CASE cost # Unknown /\ loop.attempts # Unknown
    BY <1>0, <2>1, <2>2, <2>4 DEF CostCoversFailures
  <2> QED
    BY <2>3, <2>4
<1>2. ASSUME NEW w \in Workers, Answered(w) \/ AskContext(w) \/ Report(w)
      PROVE  loop'.failures = loop.failures /\ loop'.attempts = loop.attempts
  BY <1>0, <1>2 DEF Answered, AskContext, Report, Totals
<1>3. \/ \E w \in Workers : Report(w) \/ Answered(w) \/ AskContext(w)
      \/ \E w \in Workers, cost \in 1 .. MaxAttempts \cup {Unknown} : Fail(w, cost)
      \/ UNCHANGED loop
  BY DEF Next, WorkerStep, Take, Leave, Commit, NoContext, ContextKnown, Count, Break, Settle, vars
<1> QED
  BY <1>0, <1>1, <1>2, <1>3 DEF CostCoversFailures

LEMMA AskedNext == Inv /\ [Next]_vars => AskedIsSaid'
<1> SUFFICES ASSUME Inv, [Next]_vars PROVE AskedIsSaid'
  OBVIOUS
<1>0. loop \in Totals /\ AskedIsSaid /\ loop.contextAsked \in BOOLEAN
  BY DEF Inv, Typed, Totals
<1>1. ASSUME NEW w \in Workers, AskContext(w) PROVE AskedIsSaid'
  <2>1. loop'.contextAsked = TRUE
    BY <1>0, <1>1 DEF AskContext, Totals
  <2>2. asked' = 1 /\ ~pinned'
    BY <1>0, <1>1 DEF AskContext, MustAsk, AskedIsSaid
  <2> QED
    BY <2>1, <2>2 DEF AskedIsSaid
<1>2. ASSUME NEW w \in Workers, NEW cost \in 1 .. MaxAttempts \cup {Unknown}, Fail(w, cost)
      PROVE  loop'.contextAsked = loop.contextAsked /\ UNCHANGED <<asked, pinned>>
  BY <1>0, <1>2 DEF Fail, Totals
<1>3. ASSUME NEW w \in Workers, Answered(w) \/ Report(w)
      PROVE  loop'.contextAsked = loop.contextAsked /\ UNCHANGED <<asked, pinned>>
  BY <1>0, <1>3 DEF Answered, Report, Totals
<1>4. \/ \E w \in Workers : Report(w) \/ Answered(w) \/ AskContext(w)
      \/ \E w \in Workers, cost \in 1 .. MaxAttempts \cup {Unknown} : Fail(w, cost)
      \/ UNCHANGED <<loop, asked, pinned>>
  BY DEF Next, WorkerStep, Take, Leave, Commit, NoContext, ContextKnown, Count, Break, Settle, vars
<1> QED
  BY <1>0, <1>1, <1>2, <1>3, <1>4 DEF AskedIsSaid

-----------------------------------------------------------------------------
(* The theorems.                                                           *)

LEMMA InvInit == Init => Inv
<1> SUFFICES ASSUME Init PROVE Inv
  OBVIOUS
<1> USE DEF Init
<1>1. IsFiniteSet(committed) /\ IsFiniteSet(queue)
      /\ Cardinality(committed) \in Nat /\ Cardinality(queue) \in Nat
  BY RecordsAreFinite, FS_Subset, FS_CardinalityType
<1>2. Typed
  <2>1. worker \in [Workers -> Held]
    BY DEF Held, Pcs, Holding, NoRecord
  <2>2. loop \in Totals
    BY <1>1 DEF Totals
  <2> QED
    BY <2>1, <2>2 DEF Typed
<1>3. Holders = {} /\ InHand = {}
  BY DEF Holders, InHand, Holding
<1>4. OnePlace
  BY <1>3 DEF OnePlace
<1>5. Cardinality(InHand) = 0
  BY <1>3, FS_EmptySet
<1>6. NRecords = Cardinality(committed) + Cardinality(queue)
  <2>1. committed \cap queue = {} /\ committed \cup queue = Records
    OBVIOUS
  <2>2. Cardinality(committed \cup queue)
          = Cardinality(committed) + Cardinality(queue) - Cardinality(committed \cap queue)
    BY <1>1, FS_Union, Zenon
  <2>3. Cardinality(committed \cap queue) = 0
    BY <2>1, FS_EmptySet
  <2> QED
    <3> HIDE DEF Init
    <3>1. Cardinality(Records) = Cardinality(committed) + Cardinality(queue)
      BY <1>1, <2>1, <2>2, <2>3
    <3> QED
      BY <3>1, RecordsAreFinite
<1>7. loop.failures = 0 /\ loop.attempts = 0 /\ loop.stopped = FALSE /\ loop.contextAsked = FALSE
      /\ loop.done = Cardinality(committed)
  OBVIOUS
<1>8. AccountedFor
  BY <1>1, <1>5, <1>6, <1>7 DEF AccountedFor
<1>9. OverIsOver /\ CountsAreOfRows /\ AskedIsSaid /\ FurtherCallsBounded
  BY <1>7 DEF OverIsOver, CountsAreOfRows, AskedIsSaid, FurtherCallsBounded
<1>10. NeverAheadOfTheRows /\ CostCoversFailures
  BY <1>1, <1>7 DEF NeverAheadOfTheRows, CostCoversFailures
<1> QED
  BY <1>2, <1>4, <1>8, <1>9, <1>10 DEF Inv

LEMMA InvNext == Inv /\ [Next]_vars => Inv'
BY TypedNext, OnePlaceNext, OverNext, CountsNext, AskedNext, AccountedNext, BoundNext, CostNext
   DEF Inv

\* A pass keeps its books: every record is in one place, and every count is
\* of rows that were committed.
THEOREM InvHolds == Spec => []Inv
BY InvInit, InvNext, PTL DEF Spec

\* Every record in scope is committed, failed and counted, in hand or not
\* taken, whatever the number of records and of workers.
THEOREM EveryRecordIsAccounted == Spec => []AccountedFor
<1>1. Inv => AccountedFor
  BY DEF Inv
<1> QED
  BY <1>1, InvHolds, PTL

\* After the budget tripped at most Parallel - 1 calls are spent.
THEOREM BudgetBoundsCalls == Spec => []FurtherCallsBounded
<1>1. Inv => FurtherCallsBounded
  BY DEF Inv
<1> QED
  BY <1>1, InvHolds, PTL

\* The reported progress is of committed rows, the reported cost covers every
\* failure, and the context is asked for at most once.
THEOREM TotalsAreHonest ==
  Spec => [](NeverAheadOfTheRows /\ CostCoversFailures /\ ContextAskedOnce)
<1>1. Inv => NeverAheadOfTheRows /\ CostCoversFailures /\ ContextAskedOnce
  BY DEF Inv, AskedIsSaid, ContextAskedOnce
<1> QED
  BY <1>1, InvHolds, PTL

-----------------------------------------------------------------------------
(* The adapter.                                                            *)

Saving  == [pc : {"idle", "checked", "overtaken", "committed"}, to : Endpoints,
            older : SUBSET Savers, met : SUBSET Savers]
Request == [pc : {"unused", "flying", "settled"}, at : Endpoints]

ReaderState == [pc : {"idle", "waiting"}, req : Requests \cup {NoRequest},
                asked : Endpoints, fresh : BOOLEAN]

\* The types, of what the properties are about.
AdapterTyped ==
  /\ up \in BOOLEAN
  /\ live \in Endpoints
  /\ stored \in Endpoints \cup {NoRow}
  /\ saver \in [Savers -> Saving]
  /\ overlapped \in BOOLEAN
  /\ tags \in [Requests -> Request]
  /\ shared \in Requests \cup {NoRequest}
  /\ reader \in [Readers -> ReaderState]

\* A request others may still join is to the endpoint bound now; a dead
\* process has none.
SharedIsCurrent ==
  /\ shared # NoRequest /\ tags[shared].pc = "flying" => tags[shared].at = live
  /\ ~up => shared = NoRequest

\* A reader waits on a request of its own time, and an idle one on none.
ReadersAreServed ==
  \A p \in Readers :
    /\ reader[p].pc = "idle" => reader[p].req = NoRequest
    /\ reader[p].pc = "waiting" =>
         /\ reader[p].req \in Requests
         /\ reader[p].fresh
         /\ tags[reader[p].req].at = reader[p].asked

AdapterInv == AdapterTyped /\ SharedIsCurrent /\ ReadersAreServed

\* A save that met no other is the only one in progress, and its rows will be
\* the newest; what such a save stored is what it will bind.
SavesAreBound ==
  /\ \A s \in Savers : saver[s].pc # "idle" /\ saver[s].met = {} =>
       /\ saver[s].pc # "overtaken"
       /\ \A t \in Savers : saver[t].pc # "idle" => t = s
  /\ \A s \in Savers : saver[s].pc = "committed" /\ ~overlapped =>
       /\ stored = saver[s].to
       /\ \A t \in Savers : saver[t].pc = "committed" => t = s
  /\ ~up => \A s \in Savers : saver[s].pc = "idle"
  /\ Adapter!StoredIsCurrent

-----------------------------------------------------------------------------
(* The adapter's steps.                                                    *)

LEMMA AdapterTypedNext == AdapterInv /\ Adapter!AdapterNext => AdapterTyped'
<1> SUFFICES ASSUME AdapterInv, Adapter!AdapterNext PROVE AdapterTyped'
  OBVIOUS
<1>0. AdapterTyped /\ Seed \in Endpoints
  BY CallsAssumption DEF AdapterInv
<1> USE <1>0 DEF AdapterTyped
<1>1. ASSUME NEW s \in Savers, Adapter!SaveCommits(s) \/ Adapter!SaveFails(s),
             UNCHANGED <<tags, shared, reader>>
      PROVE  AdapterTyped'
  <2>1. saver' \in [Savers -> Saving] /\ overlapped' \in BOOLEAN
    <3>1. CASE Adapter!SaveFails(s)
      <4>1. Adapter!NoSave \in Saving
        BY DEF Adapter!NoSave, Saving
      <4> QED
        BY <3>1, <4>1 DEF Adapter!SaveFails
    <3>2. CASE Adapter!SaveCommits(s)
      <4>1. \A t \in Savers : Adapter!Passed(t, s) \in Saving
        BY DEF Adapter!Passed, Saving
      <4>2. [saver[s] EXCEPT !.pc = "committed"] \in Saving
        BY DEF Saving
      <4>3. /\ saver' = [t \in Savers |-> IF t = s THEN [saver[t] EXCEPT !.pc = "committed"]
                                       ELSE Adapter!Passed(t, s)]
            /\ overlapped' = (saver[s].met # {})
        BY <3>2 DEF Adapter!SaveCommits, Adapter!Written
      <4> QED
        BY <4>1, <4>2, <4>3
    <3> QED
      BY <1>1, <3>1, <3>2
  <2>2. saver[s].to \in Endpoints
    BY DEF Saving
  <2> QED
    BY <1>1, <2>1, <2>2 DEF Adapter!SaveCommits, Adapter!Written, Adapter!SaveFails
<1>2. ASSUME NEW s \in Savers, NEW e \in Endpoints, Adapter!SaveChecks(s, e),
             UNCHANGED <<tags, shared, reader>>
      PROVE  AdapterTyped'
  <2>1. saver' \in [Savers -> Saving]
    <3>1. Adapter!Stamped(e) \in Saving
      BY DEF Adapter!Stamped, Adapter!Uncommitted, Adapter!InProgress, Adapter!SaversAt, Saving
    <3>2. \A t \in Savers : Adapter!Joined(t, s) \in Saving
      <4> SUFFICES ASSUME NEW t \in Savers PROVE Adapter!Joined(t, s) \in Saving
        OBVIOUS
      <4>1. saver[t] \in Saving
        OBVIOUS
      <4>2. saver[t].older \ {s} \in SUBSET Savers /\ saver[t].met \cup {s} \in SUBSET Savers
        BY <4>1 DEF Saving
      <4> QED
        BY <4>1, <4>2 DEF Adapter!Joined, Saving
    <3> QED
      BY <1>2, <3>1, <3>2 DEF Adapter!SaveChecks, Adapter!Stamps
  <2> QED
    BY <1>2, <2>1 DEF Adapter!SaveChecks
<1>3. ASSUME NEW s \in Savers, Adapter!Rebinds(s) PROVE AdapterTyped'
  <2>1. saver' \in [Savers -> Saving] /\ saver[s].to \in Endpoints
    BY <1>3 DEF Adapter!Rebinds, Adapter!Rebind, Adapter!NoSave, Saving
  <2> QED
    BY <1>3, <2>1 DEF Adapter!Rebinds, Adapter!Rebind
<1>4. CASE Adapter!Dies
  <2>1. saver' \in [Savers -> Saving] /\ tags' \in [Requests -> Request]
        /\ reader' \in [Readers -> ReaderState]
    BY <1>4 DEF Adapter!Dies, Adapter!Crash, Adapter!NoSave, Adapter!Unused, Adapter!NoReading,
                Saving, Request, ReaderState
  <2> QED
    BY <1>4, <2>1 DEF Adapter!Dies, Adapter!Crash
<1>5. ASSUME NEW q \in Requests, Adapter!TagsSettle(q) PROVE AdapterTyped'
  <2>1. tags' \in [Requests -> Request]
    BY <1>5 DEF Adapter!TagsSettle, Request
  <2> QED
    BY <1>5, <2>1 DEF Adapter!TagsSettle, Adapter!vars
<1>6. ASSUME NEW p \in Readers, Adapter!ReaderAsks(p) PROVE AdapterTyped'
  <2>1. ASSUME NEW q \in Requests \cup {NoRequest}, Adapter!Waits(p, q, TRUE)
        PROVE  reader' \in [Readers -> ReaderState]
    BY <2>1 DEF Adapter!Waits, ReaderState
  <2>2. ASSUME NEW q \in Requests, tags' = [tags EXCEPT ![q] = [pc |-> "flying", at |-> live]]
        PROVE  tags' \in [Requests -> Request]
    BY <2>2 DEF Request
  <2> QED
    BY <1>6, <2>1, <2>2 DEF Adapter!ReaderAsks, Adapter!AsksAnew, Adapter!vars
<1>7. ASSUME NEW p \in Readers, Adapter!ReaderIsTold(p) \/ Adapter!ReaderCancelled(p)
      PROVE  AdapterTyped'
  <2>1. reader' \in [Readers -> ReaderState]
    <3>1. Adapter!NoReading \in ReaderState
      BY DEF Adapter!NoReading, ReaderState
    <3>2. reader' = [reader EXCEPT ![p] = Adapter!NoReading]
      BY <1>7 DEF Adapter!ReaderIsTold, Adapter!ReaderCancelled
    <3> QED
      BY <3>1, <3>2
  <2> QED
    BY <1>7, <2>1 DEF Adapter!ReaderIsTold, Adapter!ReaderCancelled, Adapter!vars
<1>8. ASSUME NEW r \in Runs,
             \/ Adapter!LaunchAsks(r) \/ Adapter!LaunchCommits(r) \/ Adapter!LaunchRefused(r)
             \/ Adapter!Start(r) \/ Adapter!Call(r) \/ Adapter!End(r) \/ UNCHANGED Adapter!vars
      PROVE  UNCHANGED <<up, live, stored, saver, overlapped>>
  BY <1>8 DEF Adapter!LaunchAsks, Adapter!LaunchCommits, Adapter!LaunchRefused, Adapter!Start,
              Adapter!Call, Adapter!End, Adapter!Become, Adapter!vars
<1>9. ASSUME NEW r \in Runs,
             Adapter!CallStarts(r) \/ Adapter!CallRetries(r) \/ Adapter!Ends(r) \/ Adapter!RunEnds(r)
      PROVE  UNCHANGED <<up, live, stored, saver, overlapped, tags, shared, reader>>
  BY <1>8, <1>9 DEF Adapter!CallStarts, Adapter!CallRetries, Adapter!Ends, Adapter!RunEnds,
                    Adapter!CallAnswered, Adapter!CallGivesUp, Adapter!Calls
<1>10. CASE Adapter!Restart /\ UNCHANGED <<tags, shared, reader>>
  BY <1>10 DEF Adapter!Restart
<1> QED
  BY <1>1, <1>2, <1>3, <1>4, <1>5, <1>6, <1>7, <1>8, <1>9, <1>10
     DEF Adapter!AdapterNext, Adapter!Elsewhere, Adapter!adapter

\* What each step does to the requests and to those who wait on them.
LEMMA AdapterShape ==
  AdapterInv /\ Adapter!AdapterNext =>
    \/ UNCHANGED <<up, live, tags, shared, reader>>
    \/ UNCHANGED <<up, tags, reader>> /\ shared' = NoRequest
    \/ ~up /\ up' /\ UNCHANGED <<tags, shared, reader>>
    \/ /\ tags' = [q \in Requests |-> Adapter!Unused] /\ shared' = NoRequest
       /\ reader' = [p \in Readers |-> Adapter!NoReading]
    \/ \E q \in Requests : Adapter!TagsSettle(q) /\ UNCHANGED <<up, live>>
    \/ \E p \in Readers : /\ Adapter!ReaderAsks(p)
                          /\ UNCHANGED <<up, live>>
    \/ \E p \in Readers : /\ reader' = [reader EXCEPT ![p] = Adapter!NoReading]
                          /\ UNCHANGED <<up, live, tags, shared>>
<1> SUFFICES ASSUME AdapterInv, Adapter!AdapterNext PROVE
    \/ UNCHANGED <<up, live, tags, shared, reader>>
    \/ UNCHANGED <<up, tags, reader>> /\ shared' = NoRequest
    \/ ~up /\ up' /\ UNCHANGED <<tags, shared, reader>>
    \/ /\ tags' = [q \in Requests |-> Adapter!Unused] /\ shared' = NoRequest
       /\ reader' = [p \in Readers |-> Adapter!NoReading]
    \/ \E q \in Requests : Adapter!TagsSettle(q) /\ UNCHANGED <<up, live>>
    \/ \E p \in Readers : /\ Adapter!ReaderAsks(p)
                          /\ UNCHANGED <<up, live>>
    \/ \E p \in Readers : /\ reader' = [reader EXCEPT ![p] = Adapter!NoReading]
                          /\ UNCHANGED <<up, live, tags, shared>>
  OBVIOUS
<1>1. ASSUME NEW s \in Savers,
             \/ Adapter!SaveCommits(s) \/ Adapter!SaveFails(s)
             \/ \E e \in Endpoints : Adapter!SaveChecks(s, e)
      PROVE  UNCHANGED <<up, live>>
  BY <1>1 DEF Adapter!SaveCommits, Adapter!Written, Adapter!SaveFails, Adapter!SaveChecks
<1>2. ASSUME NEW r \in Runs,
             \/ Adapter!LaunchAsks(r) \/ Adapter!LaunchCommits(r) \/ Adapter!LaunchRefused(r)
             \/ Adapter!Start(r)
      PROVE  UNCHANGED <<up, live>>
  BY <1>2 DEF Adapter!LaunchAsks, Adapter!LaunchCommits, Adapter!LaunchRefused, Adapter!Start,
              Adapter!Become
<1>3. ASSUME NEW r \in Runs,
             Adapter!CallStarts(r) \/ Adapter!CallRetries(r) \/ Adapter!Ends(r) \/ Adapter!RunEnds(r)
      PROVE  UNCHANGED <<up, live, tags, shared, reader>>
  BY <1>3 DEF Adapter!CallStarts, Adapter!CallRetries, Adapter!Ends, Adapter!RunEnds,
              Adapter!CallAnswered, Adapter!CallGivesUp, Adapter!Calls, Adapter!Call, Adapter!End,
              Adapter!vars
<1>4. ASSUME NEW s \in Savers, Adapter!Rebinds(s)
      PROVE  UNCHANGED <<up, tags, reader>> /\ shared' = NoRequest
  BY <1>4 DEF Adapter!Rebinds, Adapter!Rebind
<1>5. Adapter!Restart => ~up /\ up'
  BY DEF Adapter!Restart
<1>6. Adapter!Elsewhere => \/ UNCHANGED <<up, live, tags, shared, reader>>
                           \/ ~up /\ up' /\ UNCHANGED <<tags, shared, reader>>
  BY <1>1, <1>2, <1>5 DEF Adapter!Elsewhere, Adapter!adapter
<1>7. Adapter!Dies => /\ tags' = [q \in Requests |-> Adapter!Unused] /\ shared' = NoRequest
                      /\ reader' = [p \in Readers |-> Adapter!NoReading]
  BY DEF Adapter!Dies
<1>8. ASSUME NEW q \in Requests, Adapter!TagsSettle(q) PROVE UNCHANGED <<up, live>>
  BY <1>8 DEF Adapter!TagsSettle, Adapter!vars
<1>9. ASSUME NEW p \in Readers, Adapter!ReaderAsks(p) PROVE UNCHANGED <<up, live>>
  BY <1>9 DEF Adapter!ReaderAsks, Adapter!vars
<1>10. ASSUME NEW p \in Readers, Adapter!ReaderIsTold(p) \/ Adapter!ReaderCancelled(p)
       PROVE  /\ reader' = [reader EXCEPT ![p] = Adapter!NoReading]
              /\ UNCHANGED <<up, live, tags, shared>>
  BY <1>10 DEF Adapter!ReaderIsTold, Adapter!ReaderCancelled, Adapter!vars
<1> QED
  BY <1>3, <1>4, <1>6, <1>7, <1>8, <1>9, <1>10 DEF Adapter!AdapterNext

LEMMA AdapterInvNext == AdapterInv /\ Adapter!AdapterNext => AdapterInv'
<1> SUFFICES ASSUME AdapterInv, Adapter!AdapterNext PROVE AdapterInv'
  OBVIOUS
<1>0. /\ AdapterTyped /\ SharedIsCurrent /\ ReadersAreServed /\ AdapterTyped'
      /\ NoRequest \notin Requests
  BY AdapterTypedNext, CallsAssumption DEF AdapterInv
<1>1. CASE UNCHANGED <<up, live, tags, shared, reader>>
  BY <1>0, <1>1 DEF AdapterInv, SharedIsCurrent, ReadersAreServed
<1>2. CASE UNCHANGED <<up, tags, reader>> /\ shared' = NoRequest
  BY <1>0, <1>2 DEF AdapterInv, SharedIsCurrent, ReadersAreServed
<1>3. CASE ~up /\ up' /\ UNCHANGED <<tags, shared, reader>>
  BY <1>0, <1>3 DEF AdapterInv, SharedIsCurrent, ReadersAreServed
<1>4. CASE /\ tags' = [q \in Requests |-> Adapter!Unused] /\ shared' = NoRequest
           /\ reader' = [p \in Readers |-> Adapter!NoReading]
  BY <1>0, <1>4 DEF AdapterInv, SharedIsCurrent, ReadersAreServed, Adapter!NoReading
<1>5. ASSUME NEW q \in Requests, Adapter!TagsSettle(q), UNCHANGED <<up, live>> PROVE AdapterInv'
  <2>1. /\ tags[q].pc = "flying" /\ UNCHANGED <<shared, reader>>
        /\ tags' = [tags EXCEPT ![q].pc = "settled"]
    BY <1>5 DEF Adapter!TagsSettle, Adapter!Flying
  <2>2. \A x \in Requests : /\ tags'[x].at = tags[x].at
                            /\ tags'[x].pc = "flying" => tags[x].pc = "flying"
    BY <1>0, <2>1 DEF AdapterTyped, Request
  <2>3. SharedIsCurrent' /\ ReadersAreServed'
    BY <1>0, <1>5, <2>1, <2>2 DEF SharedIsCurrent, ReadersAreServed, AdapterTyped
  <2> QED
    BY <1>0, <2>3 DEF AdapterInv
<1>6. ASSUME NEW p \in Readers, Adapter!ReaderAsks(p), UNCHANGED <<up, live>> PROVE AdapterInv'
  <2>0. up /\ reader[p].pc = "idle"
    BY <1>6 DEF Adapter!ReaderAsks
  <2>1. CASE Adapter!Flying(shared)
    <3>1. UNCHANGED <<tags, shared>> /\ shared \in Requests /\ tags[shared].at = live
      BY <1>0, <1>6, <2>1 DEF Adapter!ReaderAsks, Adapter!Flying, AdapterTyped, SharedIsCurrent
    <3>2. reader' = [reader EXCEPT ![p] =
                       [pc |-> "waiting", req |-> shared, asked |-> live, fresh |-> TRUE]]
      BY <1>6, <2>1 DEF Adapter!ReaderAsks, Adapter!Waits
    <3>3. ReadersAreServed'
      BY <1>0, <3>1, <3>2 DEF ReadersAreServed, AdapterTyped
    <3>4. SharedIsCurrent'
      BY <1>0, <1>6, <3>1 DEF SharedIsCurrent
    <3> QED
      BY <1>0, <3>3, <3>4 DEF AdapterInv
  <2>2. CASE ~Adapter!Flying(shared)
    <3>1. PICK q \in Requests :
            /\ Adapter!Free(q) /\ shared' = q
            /\ tags' = [tags EXCEPT ![q] = [pc |-> "flying", at |-> live]]
            /\ Adapter!Waits(p, q, TRUE)
      BY <1>6, <2>2 DEF Adapter!ReaderAsks, Adapter!AsksAnew
    <3>2. reader' = [reader EXCEPT ![p] =
                       [pc |-> "waiting", req |-> q, asked |-> live, fresh |-> TRUE]]
      BY <3>1 DEF Adapter!Waits
    <3>3. /\ tags'[q].at = live
          /\ \A x \in Requests \ {q} : tags'[x] = tags[x]
      BY <1>0, <3>1 DEF AdapterTyped
    <3>4. \A x \in Readers : reader[x].req # q
      BY <3>1 DEF Adapter!Free
    <3>5. ReadersAreServed'
      BY <1>0, <3>2, <3>3, <3>4 DEF ReadersAreServed, AdapterTyped
    <3>6. SharedIsCurrent'
      BY <1>0, <1>6, <2>0, <3>1, <3>3 DEF SharedIsCurrent
    <3> QED
      BY <1>0, <3>5, <3>6 DEF AdapterInv
  <2> QED
    BY <2>1, <2>2
<1>7. ASSUME NEW p \in Readers, reader' = [reader EXCEPT ![p] = Adapter!NoReading],
             UNCHANGED <<up, live, tags, shared>>
      PROVE  AdapterInv'
  BY <1>0, <1>7 DEF AdapterInv, SharedIsCurrent, ReadersAreServed, Adapter!NoReading, AdapterTyped
<1> QED
  BY <1>1, <1>2, <1>3, <1>4, <1>5, <1>6, <1>7, AdapterShape

\* A save that starts or commits leaves the others what they bind.
LEMMA OthersKeep ==
  ASSUME AdapterInv, NEW s \in Savers, NEW t \in Savers
  PROVE  /\ /\ Adapter!Joined(t, s).pc = saver[t].pc /\ Adapter!Joined(t, s).to = saver[t].to
            /\ s \in Adapter!Joined(t, s).met
         /\ /\ Adapter!Passed(t, s).to = saver[t].to /\ Adapter!Passed(t, s).met = saver[t].met
            /\ \/ Adapter!Passed(t, s).pc = saver[t].pc
               \/ saver[t].pc = "checked" /\ Adapter!Passed(t, s).pc = "overtaken"
<1>1. saver[t] \in Saving
  BY DEF AdapterInv, AdapterTyped
<1>2. /\ Adapter!Joined(t, s).pc = saver[t].pc /\ Adapter!Joined(t, s).to = saver[t].to
      /\ Adapter!Joined(t, s).met = saver[t].met \cup {s}
  BY <1>1 DEF Adapter!Joined, Saving
<1> QED
  BY <1>1, <1>2 DEF Adapter!Passed, Saving

\* However many saves there are, what one that met no other stored is bound.
LEMMA SavesNext == AdapterInv /\ SavesAreBound /\ Adapter!AdapterNext => SavesAreBound'
<1> SUFFICES ASSUME AdapterInv, SavesAreBound, Adapter!AdapterNext PROVE SavesAreBound'
  OBVIOUS
<1>0. /\ saver \in [Savers -> Saving] /\ NoRow \notin Endpoints /\ up \in BOOLEAN
      /\ overlapped \in BOOLEAN
      /\ Adapter!NoSave.pc = "idle"
  BY CallsAssumption DEF AdapterInv, AdapterTyped, Adapter!NoSave
<1> DEFINE Alone   == \A s \in Savers : saver[s].pc # "idle" /\ saver[s].met = {} =>
                       /\ saver[s].pc # "overtaken"
                       /\ \A t \in Savers : saver[t].pc # "idle" => t = s
           Bound   == \A s \in Savers : saver[s].pc = "committed" /\ ~overlapped =>
                       /\ stored = saver[s].to
                       /\ \A t \in Savers : saver[t].pc = "committed" => t = s
           Current == ~overlapped /\ up /\ (\A s \in Savers : saver[s].pc # "committed") =>
                       live = IF stored = NoRow THEN Seed ELSE stored
           Down    == ~up => \A s \in Savers : saver[s].pc = "idle"
<1>a. /\ SavesAreBound <=> Alone /\ Bound /\ Down /\ Current
      /\ SavesAreBound' <=> (Alone /\ Bound /\ Down /\ Current)'
  BY DEF SavesAreBound, Adapter!StoredIsCurrent, Adapter!NewestIsCurrent, Adapter!Newest,
         Adapter!SaversAt
<1>b. Alone /\ Bound /\ Down /\ Current
  BY <1>a
<1> USE <1>0, <1>b
<1>1. ASSUME UNCHANGED <<up, live, stored, saver, overlapped>>
      PROVE  (Alone /\ Bound /\ Down /\ Current)'
  BY <1>1
<1>2. ASSUME NEW s \in Savers, NEW e \in Endpoints, Adapter!SaveChecks(s, e)
      PROVE  (Alone /\ Bound /\ Down /\ Current)'
  <2>1. /\ saver[s].pc = "idle" /\ up /\ UNCHANGED <<up, live, stored, overlapped>>
        /\ saver'[s] = Adapter!Stamped(e)
        /\ \A t \in Savers \ {s} : saver'[t] = Adapter!Joined(t, s)
    BY <1>2 DEF Adapter!SaveChecks, Adapter!Stamps
  <2>2. \A t \in Savers \ {s} : /\ saver'[t].pc = saver[t].pc /\ saver'[t].to = saver[t].to
                               /\ saver'[t].met # {}
    BY <2>1, OthersKeep
  <2>3. saver'[s].pc = "checked" /\ saver'[s].met = Adapter!InProgress
    BY <2>1 DEF Adapter!Stamped
  <2>4. Adapter!InProgress = {} => \A t \in Savers : saver[t].pc = "idle"
    BY DEF Adapter!InProgress, Adapter!SaversAt, Saving
  <2>5. Alone' /\ Bound'
    BY <2>1, <2>2, <2>3, <2>4
  <2>6. Down' /\ Current'
    BY <2>1, <2>2, <2>3
  <2> QED
    BY <2>5, <2>6
<1>3. ASSUME NEW s \in Savers, Adapter!SaveCommits(s)
      PROVE  (Alone /\ Bound /\ Down /\ Current)'
  <2>1. /\ saver[s].pc \in {"checked", "overtaken"} /\ UNCHANGED <<up, live>>
        /\ stored' = IF saver[s].pc = "overtaken" THEN stored ELSE saver[s].to
        /\ overlapped' = (saver[s].met # {})
        /\ saver'[s] = [saver[s] EXCEPT !.pc = "committed"]
        /\ \A t \in Savers \ {s} : saver'[t] = Adapter!Passed(t, s)
    BY <1>3 DEF Adapter!SaveCommits, Adapter!Written, Adapter!Uncommitted, Adapter!SaversAt
  <2>2. \A t \in Savers \ {s} :
          /\ saver'[t].to = saver[t].to /\ saver'[t].met = saver[t].met
          /\ \/ saver'[t].pc = saver[t].pc
             \/ saver[t].pc = "checked" /\ saver'[t].pc = "overtaken"
    BY <2>1, OthersKeep
  <2>3. /\ saver'[s].pc = "committed" /\ saver'[s].met = saver[s].met
        /\ saver'[s].to = saver[s].to
    BY <2>1 DEF Saving
  <2>4. saver[s].met = {} =>
          saver[s].pc = "checked" /\ \A t \in Savers \ {s} : saver[t].pc = "idle"
    BY <2>1
  <2>5. Alone'
    <3> SUFFICES ASSUME NEW t \in Savers, saver'[t].pc # "idle", saver'[t].met = {}
                 PROVE  /\ saver'[t].pc # "overtaken"
                        /\ \A u \in Savers : saver'[u].pc # "idle" => u = t
      OBVIOUS
    <3>1. t = s
      <4>1. t # s => saver[t].pc # "idle" /\ saver[t].met = {}
        BY <2>2
      <4> QED
        BY <2>1, <4>1
    <3> QED
      BY <2>2, <2>3, <2>4, <3>1
  <2>6. Bound'
    <3>1. ~overlapped' => /\ stored' = saver'[s].to
                          /\ \A t \in Savers : saver'[t].pc = "committed" => t = s
      <4> HIDE <1>b
      <4> QED
        BY <2>1, <2>2, <2>3, <2>4
    <3> QED
      BY <3>1
  <2>7. Down' /\ Current'
    BY <2>1, <2>2, <2>3
  <2> QED
    BY <2>5, <2>6, <2>7
<1>4. ASSUME NEW s \in Savers, Adapter!SaveFails(s)
      PROVE  (Alone /\ Bound /\ Down /\ Current)'
  <2>1. /\ saver[s].pc # "committed" /\ UNCHANGED <<up, live, stored, overlapped>>
        /\ saver'[s].pc = "idle" /\ \A t \in Savers \ {s} : saver'[t] = saver[t]
    BY <1>4 DEF Adapter!SaveFails, Adapter!Uncommitted, Adapter!SaversAt
  <2> QED
    BY <2>1
<1>5. ASSUME NEW s \in Savers, Adapter!Rebinds(s)
      PROVE  (Alone /\ Bound /\ Down /\ Current)'
  <2>1. /\ saver[s].pc = "committed" /\ live' = saver[s].to /\ UNCHANGED <<up, stored, overlapped>>
        /\ saver'[s].pc = "idle" /\ saver[s].to \in Endpoints
        /\ \A t \in Savers \ {s} : saver'[t] = saver[t]
    BY <1>5 DEF Adapter!Rebinds, Adapter!Rebind, Saving
  <2> QED
    BY <2>1
<1>6. ASSUME Adapter!Dies PROVE (Alone /\ Bound /\ Down /\ Current)'
  <2>1. up' = FALSE /\ overlapped' = FALSE /\ \A s \in Savers : saver'[s].pc = "idle"
    BY <1>6 DEF Adapter!Dies, Adapter!Crash
  <2> QED
    BY <2>1
<1>7. ASSUME Adapter!Restart PROVE (Alone /\ Bound /\ Down /\ Current)'
  <2>1. /\ ~up /\ up' /\ live' = IF stored = NoRow THEN Seed ELSE stored
        /\ UNCHANGED <<stored, saver, overlapped>>
    BY <1>7 DEF Adapter!Restart
  <2> QED
    BY <2>1
<1>8. ASSUME NEW r \in Runs,
             \/ Adapter!LaunchAsks(r) \/ Adapter!LaunchCommits(r) \/ Adapter!LaunchRefused(r)
             \/ Adapter!Start(r) \/ Adapter!CallStarts(r) \/ Adapter!CallRetries(r)
             \/ Adapter!Ends(r) \/ Adapter!RunEnds(r)
      PROVE  UNCHANGED <<up, live, stored, saver, overlapped>>
  <2>1. CASE Adapter!LaunchAsks(r) \/ Adapter!LaunchCommits(r) \/ Adapter!LaunchRefused(r)
             \/ Adapter!Start(r)
    BY <2>1 DEF Adapter!LaunchAsks, Adapter!LaunchCommits, Adapter!LaunchRefused, Adapter!Start,
                Adapter!Become
  <2>2. CASE Adapter!CallStarts(r) \/ Adapter!CallRetries(r) \/ Adapter!Ends(r) \/ Adapter!RunEnds(r)
    BY <2>2 DEF Adapter!CallStarts, Adapter!CallRetries, Adapter!Ends, Adapter!RunEnds,
                Adapter!CallAnswered, Adapter!CallGivesUp, Adapter!Calls, Adapter!Call,
                Adapter!End, Adapter!vars
  <2> QED
    BY <1>8, <2>1, <2>2
<1>9. ASSUME \/ \E q \in Requests : Adapter!TagsSettle(q)
             \/ \E p \in Readers : \/ Adapter!ReaderAsks(p) \/ Adapter!ReaderIsTold(p)
                                   \/ Adapter!ReaderCancelled(p)
      PROVE  UNCHANGED <<up, live, stored, saver, overlapped>>
  BY <1>9 DEF Adapter!TagsSettle, Adapter!ReaderAsks, Adapter!ReaderIsTold,
              Adapter!ReaderCancelled, Adapter!vars
<1> HIDE DEF Alone, Bound, Down, Current
<1>10. (Alone /\ Bound /\ Down /\ Current)'
  BY <1>1, <1>2, <1>3, <1>4, <1>5, <1>6, <1>7, <1>8, <1>9
     DEF Adapter!AdapterNext, Adapter!Elsewhere
<1> QED
  BY <1>a, <1>10

-----------------------------------------------------------------------------
(* The theorems.                                                           *)

LEMMA CallsInitHolds == CallsInit => Inv /\ AdapterInv /\ SavesAreBound
<1> SUFFICES ASSUME CallsInit PROVE Inv /\ AdapterInv /\ SavesAreBound
  OBVIOUS
<1>1. Inv
  BY InvInit DEF CallsInit
<1>2. Adapter!AdapterInit /\ Seed \in Endpoints
  BY CallsAssumption DEF CallsInit
<1>3. AdapterTyped
  BY <1>2 DEF AdapterTyped, Saving, Request, ReaderState, Adapter!AdapterInit, Adapter!Init,
              Adapter!NoSave, Adapter!Unused, Adapter!NoReading
<1>4. SharedIsCurrent /\ ReadersAreServed
  BY <1>2 DEF SharedIsCurrent, ReadersAreServed, Adapter!AdapterInit, Adapter!Init,
              Adapter!NoReading
<1>5. SavesAreBound
  BY <1>2 DEF SavesAreBound, Adapter!StoredIsCurrent, Adapter!NewestIsCurrent, Adapter!Newest,
              Adapter!AdapterInit, Adapter!Init, Adapter!NoSave
<1> QED
  BY <1>1, <1>3, <1>4, <1>5 DEF AdapterInv

\* A step of the two is a step of one, and the other rests.
LEMMA OneMoves ==
  [CallsNext]_callsVars =>
    /\ [Next]_vars
    /\ Adapter!AdapterNext \/ UNCHANGED adapterVars
BY DEF CallsNext, callsVars, InPass, InAdapter

LEMMA AdapterRests ==
  UNCHANGED adapterVars => /\ AdapterInv => AdapterInv'
                           /\ SavesAreBound => SavesAreBound'
<1> SUFFICES ASSUME UNCHANGED adapterVars
             PROVE  /\ AdapterInv => AdapterInv'
                    /\ SavesAreBound => SavesAreBound'
  OBVIOUS
<1>1. AdapterInv => AdapterInv'
  BY DEF adapterVars, AdapterInv, AdapterTyped, SharedIsCurrent, ReadersAreServed
<1>2. SavesAreBound => SavesAreBound'
  BY DEF adapterVars, SavesAreBound, Adapter!StoredIsCurrent, Adapter!NewestIsCurrent,
         Adapter!Newest, Adapter!SaversAt
<1> QED
  BY <1>1, <1>2

LEMMA PassHolds == CallsSpec => []Inv
<1>1. CallsInit => Inv
  BY CallsInitHolds
<1>2. Inv /\ [CallsNext]_callsVars => Inv'
  BY OneMoves, InvNext
<1> QED
  BY <1>1, <1>2, PTL DEF CallsSpec

\* Every record in scope is committed, failed and counted, in hand or not taken,
\* beside an adapter that is rebound, dies and is asked by others.
THEOREM RecordsStayAccounted == CallsSpec => []AccountedFor
<1>1. Inv => AccountedFor
  BY DEF Inv
<1> QED
  BY <1>1, PassHolds, PTL

\* After the budget tripped at most Parallel - 1 calls are spent, whatever the
\* endpoint answers.
THEOREM BudgetStaysBound == CallsSpec => []FurtherCallsBounded
<1>1. Inv => FurtherCallsBounded
  BY DEF Inv
<1> QED
  BY <1>1, PassHolds, PTL

\* A reader of the catalogue waits on a request that was in flight when it
\* asked, to the endpoint bound then, for any readers, requests and saves.
THEOREM AnswersHold == CallsSpec => []Adapter!AnswersAreOfTheirTime
<1>1. CallsInit => AdapterInv
  BY CallsInitHolds
<1>2. AdapterInv /\ [CallsNext]_callsVars => AdapterInv'
  BY OneMoves, AdapterInvNext, AdapterRests
<1>3. AdapterInv => Adapter!AnswersAreOfTheirTime
  BY DEF AdapterInv, ReadersAreServed, Adapter!AnswersAreOfTheirTime
<1> QED
  BY <1>1, <1>2, <1>3, PTL DEF CallsSpec

\* For any number of saves in any order, the app calls what it would call
\* after a restart, whatever failed and whenever it died, since a restart or
\* since a save that met no other, until one that does.
THEOREM EndpointStaysCurrent == CallsSpec => []EndpointIsCurrent
<1>1. CallsInit => AdapterInv /\ SavesAreBound
  BY CallsInitHolds
<1>2. AdapterInv /\ SavesAreBound /\ [CallsNext]_callsVars => AdapterInv' /\ SavesAreBound'
  BY OneMoves, AdapterInvNext, SavesNext, AdapterRests
<1>3. AdapterInv /\ SavesAreBound => EndpointIsCurrent
  BY DEF AdapterInv, ReadersAreServed, SavesAreBound, EndpointIsCurrent,
         Adapter!AnswersAreOfTheirTime
<1> QED
  BY <1>1, <1>2, <1>3, PTL DEF CallsSpec
=============================================================================
