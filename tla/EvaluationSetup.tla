-------------------------- MODULE EvaluationSetup --------------------------
(***************************************************************************)
(* One evaluation from draft to launch                                     *)
(* (ra2/services/evaluation_service.py): edits under the draft lock, ticks *)
(* of single models, the launch transaction, the keep mark, and            *)
(* LifecycleService.discard_evaluation.                                    *)
(*                                                                         *)
(* Every request reads in one step and commits in a later one: SQLite's    *)
(* driver opens no transaction before the first write, and the ORM writes  *)
(* the columns whose loaded value changed.                                 *)
(***************************************************************************)
EXTENDS Naturals, FiniteSets

CONSTANTS
  Models,       \* tags the endpoint offers
  Setups,       \* what a launch pins: corpus, feature set, prompt, decoding
  Editors,      \* edits that may be in progress at once
  Launches,    \* launches that may be in progress at once
  Discarders,   \* discards that may be in progress at once
  NoOne,        \* nobody holds the lock
  HasFeatures   \* the frozen feature set has a feature

ASSUME SetupAssumption ==
  /\ Setups # {}
  /\ NoOne \notin Editors
  /\ HasFeatures \in BOOLEAN

VARIABLES
  exists,     \* the evaluation row is there
  eval,       \* its columns
  snapshot,   \* setups its evaluation_feature rows were written for
  runs,       \* its run rows
  lock,       \* EvaluationService._draft_lock
  editor,     \* edits in progress
  launching,   \* launches in progress
  discarder   \* discards in progress

setupVars == <<exists, eval, snapshot, runs, lock, editor, launching, discarder>>

Columns == [selected : SUBSET Models, setup : Setups, kept : BOOLEAN, launched : BOOLEAN]

\* An edit: which of its service methods, and what it was asked for.
Click(m, on)  == [kind |-> "click", models |-> IF on THEN {m} ELSE {}, named |-> {m}]
List(ms)      == [kind |-> "list",  models |-> ms, named |-> Models]
Setup(s)      == [kind |-> "setup", setup |-> s]
Keep(on)      == [kind |-> "keep",  kept |-> on]

SetupRequests ==
  {Click(m, on) : m \in Models, on \in BOOLEAN} \cup {List(ms) : ms \in SUBSET Models}
    \cup {Setup(s) : s \in Setups} \cup {Keep(on) : on \in BOOLEAN}

AnyColumns == CHOOSE c \in Columns : c.selected = {} /\ ~c.kept /\ ~c.launched
NoEdit       == [pc |-> "idle", req |-> Keep(FALSE), seen |-> AnyColumns]
NoCall   == [pc |-> "idle", seen |-> AnyColumns]

\* save_draft, with one setup or another.
SetupInit ==
  /\ exists = TRUE
  /\ eval = AnyColumns
  /\ snapshot = {}
  /\ runs = {}
  /\ lock = NoOne
  /\ editor = [e \in Editors |-> NoEdit]
  /\ launching = [l \in Launches |-> NoCall]
  /\ discarder = [d \in Discarders |-> NoCall]

-----------------------------------------------------------------------------
(* Edits: update_draft, select_model, set_kept.                            *)

\* Slip: the lock is not taken.
DraftLoadsUnlocked(e, req) ==
  /\ editor[e].pc = "idle"
  /\ exists
  /\ req.kind # "keep" => ~eval.launched
  /\ editor' = [editor EXCEPT ![e] = [pc |-> "loaded", req |-> req, seen |-> eval]]
  /\ UNCHANGED <<exists, eval, snapshot, runs, lock, launching, discarder>>

\* Under the lock: _editable, or for the keep mark _require.
DraftLoads(e, req) ==
  /\ editor[e].pc = "idle"
  /\ lock = NoOne /\ lock' = e
  /\ exists
  /\ req.kind # "keep" => ~eval.launched
  /\ editor' = [editor EXCEPT ![e] = [pc |-> "loaded", req |-> req, seen |-> eval]]
  /\ UNCHANGED <<exists, eval, snapshot, runs, launching, discarder>>

\* What the edit makes of the row it loaded.
Edited(req, seen) ==
  CASE req.kind \in {"click", "list"} ->
         [seen EXCEPT !.selected = (@ \ req.named) \cup req.models]
    [] req.kind = "setup" -> [seen EXCEPT !.setup = req.setup]
    [] req.kind = "keep"  -> [seen EXCEPT !.kept = req.kept]

\* Only the columns that changed are written.
Written(seen, new) == [c \in DOMAIN eval |-> IF new[c] # seen[c] THEN new[c] ELSE eval[c]]

\* A row deleted meanwhile takes no UPDATE.
DraftCommits(e) ==
  /\ editor[e].pc = "loaded"
  /\ eval' = IF exists THEN Written(editor[e].seen, Edited(editor[e].req, editor[e].seen)) ELSE eval
  /\ lock' = NoOne
  /\ editor' = [editor EXCEPT ![e] = NoEdit]
  /\ UNCHANGED <<exists, snapshot, runs, launching, discarder>>

-----------------------------------------------------------------------------
(* launch: the endpoint is asked first, then one session to the end.       *)

\* _editable, and at least one model selected.
LaunchReads(l) ==
  /\ launching[l].pc = "idle"
  /\ exists /\ ~eval.launched
  /\ eval.selected # {}
  /\ launching' = [launching EXCEPT ![l] = [pc |-> "loaded", seen |-> eval]]
  /\ UNCHANGED <<exists, eval, snapshot, runs, lock, editor, discarder>>

\* Slip: one run for the whole selection.
QueuedOnce(l, seen) == {[by |-> l, model |-> seen.selected, setup |-> seen.setup, active |-> TRUE]}

\* One queued run per selected model, pinned from the row as it was loaded.
Queued(l, seen) ==
  {[by |-> l, model |-> m, setup |-> seen.setup, active |-> TRUE] : m \in seen.selected}

\* Slip: nothing refuses the rows of a second launch.
LaunchFlushesAgain(l) ==
  /\ launching[l].pc = "loaded"
  /\ exists
  /\ eval' = [eval EXCEPT !.launched = TRUE]
  /\ snapshot' = snapshot \cup {launching[l].seen.setup}
  /\ runs' = runs \cup Queued(l, launching[l].seen)
  /\ launching' = [launching EXCEPT ![l] = NoCall]
  /\ UNCHANGED <<exists, lock, editor, discarder>>

\* One flush: launched_at, an evaluation_feature per feature, a queued run
\* per model, all from the row as it was loaded.  The primary key of
\* evaluation_feature refuses a second launch's rows.
LaunchFlushes(l) ==
  /\ launching[l].pc = "loaded"
  /\ exists
  /\ HasFeatures => snapshot = {}
  /\ eval' = [eval EXCEPT !.launched = TRUE]
  /\ snapshot' = IF HasFeatures THEN {launching[l].seen.setup} ELSE {}
  /\ runs' = runs \cup Queued(l, launching[l].seen)
  /\ launching' = [launching EXCEPT ![l] = NoCall]
  /\ UNCHANGED <<exists, lock, editor, discarder>>

\* Every other refusal, and the rollback of what was refused by a key.
LaunchDeclined(l) ==
  /\ launching[l].pc = "loaded"
  /\ launching' = [launching EXCEPT ![l] = NoCall]
  /\ UNCHANGED <<exists, eval, snapshot, runs, lock, editor, discarder>>

\* A run of the evaluation ends (RunService).
RunEnds(r) ==
  /\ r \in runs /\ r.active
  /\ runs' = (runs \ {r}) \cup {[r EXCEPT !.active = FALSE]}
  /\ UNCHANGED <<exists, eval, snapshot, lock, editor, launching, discarder>>

-----------------------------------------------------------------------------
(* discard_evaluation: no run active (G1), not kept (G3), then the cascade. *)

SomeActive == \E r \in runs : r.active

DiscardChecks(d) ==
  /\ discarder[d].pc = "idle"
  /\ exists /\ ~SomeActive /\ ~eval.kept
  /\ discarder' = [discarder EXCEPT ![d].pc = "checked"]
  /\ UNCHANGED <<exists, eval, snapshot, runs, lock, editor, launching>>

DiscardDeletes(d) ==
  /\ discarder[d].pc = "checked"
  /\ exists' = FALSE
  /\ snapshot' = {}
  /\ runs' = {}
  /\ discarder' = [discarder EXCEPT ![d].pc = "idle"]
  /\ UNCHANGED <<eval, lock, editor, launching>>

SetupNext ==
  \/ \E e \in Editors : DraftCommits(e) \/ \E req \in SetupRequests : DraftLoads(e, req)
  \/ \E l \in Launches : LaunchReads(l) \/ LaunchFlushes(l) \/ LaunchDeclined(l)
  \/ \E r \in runs : RunEnds(r)
  \/ \E d \in Discarders : DiscardChecks(d) \/ DiscardDeletes(d)

SetupSpec == SetupInit /\ [][SetupNext]_setupVars
-----------------------------------------------------------------------------
(* Properties.                                                             *)

RunType == [by : Launches, model : Models, setup : Setups, active : BOOLEAN]

\* The values the evaluation and the requests about it can hold.
SetupTypeOK ==
  /\ exists \in BOOLEAN
  /\ eval \in Columns
  /\ snapshot \in SUBSET Setups
  /\ runs \in SUBSET RunType
  /\ lock \in Editors \cup {NoOne}
  /\ \A e \in Editors : editor[e].pc \in {"idle", "loaded"} /\ editor[e].seen \in Columns
  /\ \A l \in Launches : launching[l].pc \in {"idle", "loaded"} /\ launching[l].seen \in Columns
  /\ \A d \in Discarders : discarder[d].pc \in {"idle", "checked"}

\* A model's tick changes only in a commit that names the model: of two clicks
\* in flight neither drops the other's model (SD56, _draft_lock).
NoClickLost ==
  [][\A m \in Models : (m \in eval.selected) # (m \in eval'.selected) =>
       \E e \in Editors :
         /\ editor[e].pc = "loaded" /\ editor'[e].pc = "idle"
         /\ editor[e].req.kind \in {"click", "list"} /\ m \in editor[e].req.named]_setupVars

\* However many launches were under way, the rows are those of one: one run
\* per model, all pinned alike (launch: "EvaluationLockedError: already launched").
LaunchedOnce == \A q, r \in runs : q.by = r.by /\ q.setup = r.setup

\* After the launch no pinned column changes (launch: "After it, every edit
\* path raises"; EvaluationLockedError).
LaunchedIsFrozen ==
  [][eval.launched => eval'.setup = eval.setup /\ eval'.selected = eval.selected]_setupVars

\* What the launched evaluation says it asked is what its runs asked
\* (models.Evaluation, sw-design.md 15.2 "An evaluation pins").
RunsPinTheSetup == \A r \in runs : r.setup = eval.setup

\* A discard takes neither a kept evaluation nor one with a run queued or
\* running (G1, G3).
DiscardIsGuarded == [][exists /\ ~exists' => ~eval.kept /\ ~SomeActive]_setupVars
=============================================================================
