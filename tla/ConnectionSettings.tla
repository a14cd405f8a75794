------------------------- MODULE ConnectionSettings -------------------------
(***************************************************************************)
(* The endpoint an analyst may change while the app runs                   *)
(* (ra2/services/settings_service.py, infra/connection.py), beside the     *)
(* runs that pin it at launch and call it while they execute.              *)
(*                                                                         *)
(* The guard of a save, its commit and the rebind are steps of their own:  *)
(* awaits lie between them.  What a job does to a run is RunService's; here *)
(* a run is queued, running, or at rest.                                   *)
(***************************************************************************)
EXTENDS Naturals

CONSTANTS
  Endpoints,  \* loopback endpoints
  Seed,       \* RA2_LLM_BASE_URL
  NoRow,      \* no app_setting row stored yet
  Runs,       \* runs that may be launched
  Savers      \* saves that may be in progress at once

VARIABLES
  up,      \* the process is running
  live,    \* what OllamaConnection is bound to, and SettingsService answers
  stored,  \* the newest app_setting row
  saver,   \* save_connection calls in progress
  run,     \* status, run.llm_endpoint and the endpoints actually called
  overlapped  \* history: the save that committed last was not alone

vars == <<up, live, stored, saver, run, overlapped>>

\* older: the saves stamped before it and not committed then; a save is
\* overtaken when one stamped after it has committed.  met: history, the saves
\* that were in progress beside it.
NoSave == [pc |-> "idle", to |-> Seed, older |-> {}, met |-> {}]
NoRun  == [status |-> "none", pinned |-> Seed, called |-> {}]

Init ==
  /\ up = TRUE
  /\ live = Seed
  /\ stored = NoRow
  /\ saver = [s \in Savers |-> NoSave]
  /\ run = [r \in Runs |-> NoRun]
  /\ overlapped = FALSE

Active(r) == run[r].status \in {"queued", "running"}

-----------------------------------------------------------------------------
(* save_connection                                                         *)

SaversAt(pcs) == {s \in Savers : saver[s].pc \in pcs}
Uncommitted   == SaversAt({"checked", "overtaken"})
InProgress    == SaversAt({"checked", "overtaken", "committed"})

\* Its rows are stamped with the time, and written by the commit.
Stamped(e) == [pc |-> "checked", to |-> e, older |-> Uncommitted, met |-> InProgress]
Joined(t, s) == [saver[t] EXCEPT !.older = @ \ {s}, !.met = @ \cup {s}]

Stamps(s, e) ==
  saver' = [t \in Savers |-> IF t = s THEN Stamped(e) ELSE Joined(t, s)]

\* Slip: the save asks nothing about runs.
SaveChecksNothing(s, e) ==
  /\ up /\ saver[s].pc = "idle"
  /\ Stamps(s, e)
  /\ UNCHANGED <<up, live, stored, run, overlapped>>

\* first_with_status(ACTIVE_STATUSES): refused under a queued or running run.
SaveChecks(s, e) ==
  /\ up /\ saver[s].pc = "idle"
  /\ ~\E r \in Runs : Active(r)
  /\ Stamps(s, e)
  /\ UNCHANGED <<up, live, stored, run, overlapped>>

Passed(t, s) ==
  IF t \in saver[s].older /\ saver[t].pc = "checked"
  THEN [saver[t] EXCEPT !.pc = "overtaken"] ELSE saver[t]

Written(s) ==
  /\ s \in Uncommitted
  /\ saver' = [t \in Savers |->
       IF t = s THEN [saver[t] EXCEPT !.pc = "committed"] ELSE Passed(t, s)]
  /\ overlapped' = (saver[s].met # {})
  /\ UNCHANGED <<up, live, run>>

\* Slip: the client is rebound and nothing is stored.
SaveForgets(s) == Written(s) /\ UNCHANGED stored

\* Both rows, one transaction.  The newest row is the one stamped last, not
\* the one committed last.
SaveCommits(s) ==
  /\ Written(s)
  /\ stored' = IF saver[s].pc = "overtaken" THEN stored ELSE saver[s].to

\* Slip: the client is rebound whether the commit held or not.
SaveFailsBound(s) ==
  /\ s \in Uncommitted
  /\ live' = saver[s].to
  /\ saver' = [saver EXCEPT ![s] = NoSave]
  /\ UNCHANGED <<up, stored, run, overlapped>>

\* The commit raised: nothing was stored.
SaveFails(s) ==
  /\ s \in Uncommitted
  /\ saver' = [saver EXCEPT ![s] = NoSave]
  /\ UNCHANGED <<up, live, stored, run, overlapped>>

\* rebind: both adapters built, then both swapped, then the held values.
Rebind(s) ==
  /\ saver[s].pc = "committed"
  /\ live' = saver[s].to
  /\ saver' = [saver EXCEPT ![s] = NoSave]
  /\ UNCHANGED <<up, stored, run, overlapped>>

-----------------------------------------------------------------------------
(* Runs.                                                                   *)

Become(r, status) == run' = [run EXCEPT ![r].status = status]

\* launch asks the endpoint before its transaction, and pins the answer.
LaunchAsks(r) ==
  /\ up /\ run[r].status = "none"
  /\ run' = [run EXCEPT ![r] = [NoRun EXCEPT !.status = "asked", !.pinned = live]]
  /\ UNCHANGED <<up, live, stored, saver, overlapped>>

LaunchCommits(r) ==
  /\ run[r].status = "asked"
  /\ Become(r, "queued")
  /\ UNCHANGED <<up, live, stored, saver, overlapped>>

\* Any refusal of the launch: nothing was written.
LaunchRefused(r) ==
  /\ run[r].status = "asked"
  /\ run' = [run EXCEPT ![r] = NoRun]
  /\ UNCHANGED <<up, live, stored, saver, overlapped>>

\* _start pins an endpoint only where there is none.
Start(r) ==
  /\ up /\ run[r].status \in {"queued", "interrupted"}
  /\ Become(r, "running")
  /\ UNCHANGED <<up, live, stored, saver, overlapped>>

\* extract reads the current adapter once, at the start of the call.
Call(r) ==
  /\ up /\ run[r].status = "running"
  /\ run' = [run EXCEPT ![r].called = @ \cup {live}]
  /\ UNCHANGED <<up, live, stored, saver, overlapped>>

End(r) ==
  /\ up /\ run[r].status = "running"
  /\ \E s \in {"done", "interrupted"} : Become(r, s)
  /\ UNCHANGED <<up, live, stored, saver, overlapped>>

-----------------------------------------------------------------------------
\* A launch that had not committed is forgotten with its request.
Crash ==
  /\ up /\ up' = FALSE
  /\ saver' = [s \in Savers |-> NoSave] /\ overlapped' = FALSE
  /\ run' = [r \in Runs |-> IF run[r].status = "asked" THEN NoRun ELSE run[r]]
  /\ UNCHANGED <<live, stored>>

Reclaimed ==
  [r \in Runs |-> IF run[r].status = "running" THEN [run[r] EXCEPT !.status = "interrupted"]
                  ELSE run[r]]

\* Slip: no stored row means no endpoint.
RestartSeedless ==
  /\ ~up /\ up' = TRUE
  /\ live' = stored
  /\ run' = Reclaimed
  /\ UNCHANGED <<stored, saver, overlapped>>

\* load: the stored row over the seed, before anything can launch.
Restart ==
  /\ ~up /\ up' = TRUE
  /\ live' = IF stored = NoRow THEN Seed ELSE stored
  /\ run' = Reclaimed
  /\ UNCHANGED <<stored, saver, overlapped>>

Next ==
  \/ \E s \in Savers : SaveCommits(s) \/ SaveFails(s) \/ Rebind(s)
                       \/ \E e \in Endpoints : SaveChecks(s, e)
  \/ \E r \in Runs : \/ LaunchAsks(r) \/ LaunchCommits(r) \/ LaunchRefused(r)
                     \/ Start(r) \/ Call(r) \/ End(r)
  \/ Crash \/ Restart

Spec == Init /\ [][Next]_vars
-----------------------------------------------------------------------------
(* Properties.                                                             *)

\* The values of the settings and of the runs.
TypeOK ==
  /\ up \in BOOLEAN
  /\ live \in Endpoints
  /\ stored \in Endpoints \cup {NoRow}
  /\ saver \in [Savers -> [pc : {"idle", "checked", "overtaken", "committed"}, to : Endpoints,
                          older : SUBSET Savers, met : SUBSET Savers]]
  /\ overlapped \in BOOLEAN
  /\ run \in [Runs -> [status : {"none", "asked", "queued", "running", "interrupted", "done"},
                       pinned : Endpoints, called : SUBSET Endpoints]]

Newest == IF stored = NoRow THEN Seed ELSE stored

\* What the app calls is what it would call after a restart (save_connection:
\* "Store both values and make them current").
NewestIsCurrent == up /\ SaversAt({"committed"}) = {} => live = Newest

\* It is, whatever failed and whenever it died, since a restart or since a
\* save that met no other, until one that does.
StoredIsCurrent == ~overlapped => NewestIsCurrent

\* The endpoint does not move under a run that is queued or running (SD43,
\* RunActiveError).
RebindSparesRuns ==
  [][up /\ up' /\ live' # live => \A r \in Runs : ~Active(r)]_vars

\* A run calls the endpoint it pins, and no other (settings_service: "the one a
\* run pins, and the one it actually calls are always the same one").
CallsThePinned == \A r \in Runs : run[r].called \subseteq {run[r].pinned}
=============================================================================
