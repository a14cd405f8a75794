---------------------------- MODULE RunContract ----------------------------
(***************************************************************************)
(* What a reader of the run table may rely on, whatever the worker, the    *)
(* stops, the discards and the restarts do: how a status follows another,  *)
(* when an extraction appears, and when a run is handed to scoring.        *)
(*                                                                         *)
(* A run that was resumed while something held it is contested until the   *)
(* process dies, and less is promised of it: a commit or an outcome may    *)
(* follow any status.  Of no run is an outcome written that its records    *)
(* do not bear out, or an extraction twice.                                *)
(***************************************************************************)
EXTENDS Naturals

CONSTANTS Runs, Records

VARIABLES row, stored, scoring, contested

cvars == <<row, stored, scoring, contested>>

Init ==
  /\ row = [r \in Runs |-> "none"]
  /\ stored = [r \in Runs |-> {}]
  /\ scoring = {}
  /\ contested = {}

Become(r, to) ==
  /\ row[r] # "none"
  /\ row' = [row EXCEPT ![r] = to]
  /\ UNCHANGED <<stored, scoring, contested>>

\* What a task does to its run.
Working(r) == row[r] = "running" \/ r \in contested

\* All runs of a launch appear together.
Launch ==
  /\ \A r \in Runs : row[r] = "none"
  /\ row' = [r \in Runs |-> "queued"]
  /\ UNCHANGED <<stored, scoring, contested>>

\* A second begin, of a run that is being worked on.
Contend(r) ==
  /\ row[r] # "none"
  /\ contested' = contested \cup {r}
  /\ UNCHANGED <<row, stored, scoring>>

Begin(r) ==
  /\ row[r] # "running" \/ r \in contested
  /\ Become(r, "running")

\* One record at a time, each once.
Extract(r, x) ==
  /\ row[r] # "none" /\ Working(r)
  /\ x \notin stored[r]
  /\ stored' = [stored EXCEPT ![r] = @ \cup {x}]
  /\ UNCHANGED <<row, scoring, contested>>

Complete(r) ==
  /\ Working(r) /\ stored[r] = Records
  /\ Become(r, "done")

FailRun(r) ==
  /\ Working(r)
  /\ Become(r, "failed")

\* A stop can land on a run that ended while it was on its way.
Interrupt(r) == Become(r, "interrupted")

SubmitScoring(r) ==
  /\ row[r] = "done"
  /\ scoring' = scoring \cup {r}
  /\ UNCHANGED <<row, stored, contested>>

Remove(r) ==
  /\ row' = [row EXCEPT ![r] = "none"]
  /\ stored' = [stored EXCEPT ![r] = {}]
  /\ UNCHANGED <<scoring, contested>>

\* With the process all its tasks are gone.
Die ==
  /\ contested' = {}
  /\ UNCHANGED <<row, stored, scoring>>

\* A restart interrupts every run the dead process was executing.
InterruptAll ==
  /\ row' = [r \in Runs |-> IF row[r] = "running" THEN "interrupted" ELSE row[r]]
  /\ UNCHANGED <<stored, scoring, contested>>

Next ==
  \/ Launch \/ Die \/ InterruptAll
  \/ \E r \in Runs : Contend(r) \/ Begin(r) \/ Complete(r) \/ FailRun(r) \/ Interrupt(r)
                     \/ SubmitScoring(r) \/ Remove(r)
  \/ \E r \in Runs, x \in Records : Extract(r, x)

Spec == Init /\ [][Next]_cvars
=============================================================================
