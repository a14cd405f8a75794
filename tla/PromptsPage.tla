---------------------------- MODULE PromptsPage ----------------------------
(***************************************************************************)
(* The Prompts page (ui/views/prompts_view.py): the versions, the one that *)
(* is selected, the source being edited and the resolved preview.  A       *)
(* version is its number; the source is the number of its last keystroke.  *)
(***************************************************************************)
EXTENDS Tab

Nothing == 0   \* no version selected, no source being edited, no preview

PromptsInit ==
  /\ db \in {[versions |-> {}, active |-> Nothing], [versions |-> {1, 2}, active |-> 1]}
  /\ client = [selected |-> Nothing]
  /\ view = [versions |-> {}, active |-> Nothing, draft |-> Nothing, preview |-> Nothing, drawn |-> FALSE]
  /\ Opens("lists")

NextVersion == Max(db.versions \cup {0}) + 1

\* The selected version, if the page holds it.
Selected == IF client.selected \in view.versions THEN client.selected ELSE Nothing

\* A handler without an await redraws and is over.
Redrawn(v) == view.drawn /\ OneTurn /\ view' = v /\ Redraws({"page"}) /\ UNCHANGED <<db, ended>>
-----------------------------------------------------------------------------
(* What the user does.                                                     *)

Select ==
  /\ \E v \in view.versions : client' = [selected |-> v]
  /\ Redrawn([view EXCEPT !.draft = Nothing, !.preview = Nothing])

\* _start_editing, _start_new_version
StartEditing == Redrawn([view EXCEPT !.draft = 1]) /\ UNCHANGED client

\* _on_source_input: nothing is redrawn.
Types ==
  /\ view.draft # Nothing /\ OneTurn
  /\ view' = [view EXCEPT !.draft = @ + 1]
  /\ UNCHANGED <<db, client, doing, ended>>

Uses(t, pc, read) == view.drawn /\ Begins(t, pc, read) /\ UNCHANGED <<db, client, view>>

\* _save_as_next_version, _delete, _preview_with_record_1
Save(t)    == (Selected # Nothing \/ view.draft # Nothing) /\ Uses(t, "saving", view.draft)
Delete(t)  == \E v \in view.versions \ {view.active} : Uses(t, "deleting", v)
Preview(t) == Selected # Nothing /\ Uses(t, "previewing", Selected)
-----------------------------------------------------------------------------
(* The handlers.                                                           *)

\* The source is saved as the next version, or refused with its errors.
Saved(t) ==
  /\ At(t, "saving")
  /\ \/ db' = [db EXCEPT !.versions = @ \cup {NextVersion}]
        /\ Goes(t, "activating", [source |-> doing[t].read, version |-> NextVersion])
     \/ Draws(t, {"page"}) /\ UNCHANGED db
  /\ UNCHANGED <<client, view>>

\* It is active; or it is gone again, and only that is told.
Activates(t) ==
  LET saved == doing[t].read.version IN
  /\ At(t, "activating")
  /\ db' = [db EXCEPT !.active = IF saved \in db.versions THEN saved ELSE @]
  /\ Goes(t, "activated", doing[t].read)
  /\ UNCHANGED <<client, view>>

Activated(t) ==
  /\ At(t, "activated")
  /\ client' = [selected |-> doing[t].read.version]
  /\ view' = [view EXCEPT !.draft = Nothing, !.preview = Nothing]
  /\ Goes(t, "lists", {})
  /\ UNCHANGED db

\* Deleted, or refused: a run cites it, or it is not there.
Deletes(t) ==
  /\ At(t, "deleting")
  /\ \/ /\ doing[t].read \in db.versions
        /\ db' = [versions |-> db.versions \ {doing[t].read},
                  active |-> IF db.active = doing[t].read THEN Nothing ELSE db.active]
        /\ Goes(t, "deleted", doing[t].read)
     \/ Refused(t) /\ UNCHANGED db
  /\ UNCHANGED <<client, view>>

Deleted(t) ==
  /\ At(t, "deleted")
  /\ IF client.selected = doing[t].read
       THEN client' = [selected |-> Nothing] /\ view' = [view EXCEPT !.draft = Nothing]
       ELSE UNCHANGED <<client, view>>
  /\ Goes(t, "lists", {})
  /\ UNCHANGED db

\* There is no record to resolve against, or the service resolves the version
\* it was asked for, or refuses one that is gone.
Previewed(t) ==
  /\ At(t, "previewing")
  /\ \/ view' = [view EXCEPT !.preview = Nothing] /\ Draws(t, {"page"})
     \/ doing[t].read \in db.versions /\ view' = [view EXCEPT !.preview = doing[t].read] /\ Draws(t, {"page"})
     \/ doing[t].read \notin db.versions /\ Refused(t) /\ UNCHANGED view
  /\ UNCHANGED <<db, client>>
-----------------------------------------------------------------------------
(* reload                                                                  *)

Lists(t) == At(t, "lists") /\ Goes(t, "listed", db) /\ UNCHANGED <<db, client, view>>

Listed(t) ==
  /\ At(t, "listed")
  /\ view' = [view EXCEPT !.versions = doing[t].read.versions, !.active = doing[t].read.active]
  /\ Goes(t, "slots", {})
  /\ UNCHANGED <<db, client>>

\* _default_version
Default == IF view.active \in view.versions THEN view.active ELSE Max(view.versions)

\* Slip: a version that is gone stays selected.
SlottedBlind(t) ==
  /\ At(t, "slots")
  /\ client' = [selected |-> IF client.selected # Nothing \/ view.versions = {} THEN client.selected
                             ELSE Default]
  /\ view' = [view EXCEPT !.drawn = TRUE]
  /\ Ends(t, {"page"})
  /\ UNCHANGED db

\* _sync_selection, and the redraw: the version held is selected, or the default.
Slotted(t) ==
  /\ At(t, "slots")
  /\ client' = [selected |-> IF view.versions = {} THEN Nothing
                             ELSE IF Selected # Nothing THEN Selected
                             ELSE Default]
  /\ view' = [view EXCEPT !.drawn = TRUE]
  /\ Ends(t, {"page"})
  /\ UNCHANGED db

\* Each of these needs the client's storage.
StorageGone(t) ==
  /\ doing[t].pc \in {"activated", "deleted", "slots"} /\ doing[t].torn
  /\ Breaks(t)
  /\ UNCHANGED <<db, client, view>>

PromptsStep(t) ==
  \/ Saved(t) \/ Activates(t) \/ Activated(t) \/ Deletes(t) \/ Deleted(t) \/ Previewed(t)
  \/ Lists(t) \/ Listed(t) \/ Slotted(t) \/ StorageGone(t)

\* Another tab saves a version and makes it active, or deletes one.
VersionsChange ==
  \/ Elsewhere([versions |-> db.versions \cup {NextVersion}, active |-> NextVersion])
  \/ \E v \in db.versions : Elsewhere([versions |-> db.versions \ {v},
                                       active |-> IF db.active = v THEN Nothing ELSE db.active])

PromptsNext ==
  \/ Select \/ StartEditing \/ Types \/ VersionsChange
  \/ \E t \in Turners : Save(t) \/ Delete(t) \/ Preview(t)
  \/ \E t \in Tasks : PromptsStep(t)

PromptsSpec == PromptsInit /\ [][PromptsNext]_tabVars
-----------------------------------------------------------------------------
PromptsTypeOK ==
  /\ db.active \in db.versions \cup {Nothing}
  /\ client.selected \in Nat /\ view.draft \in Nat /\ view.preview \in Nat

\* Once no handler is under way and none broke off, what is selected is one of
\* the versions on screen, and nothing is when there are none, however saves,
\* deletions and reloads overlapped (_sync_selection: "Drop a selection that no
\* longer exists").
PromptsRemember == Calm /\ ended # "broken" =>
  IF view.versions = {} THEN client.selected = Nothing ELSE client.selected \in view.versions

\* The resolved text on screen is that of the selected version (_select
\* forgets it).
PreviewIsOfTheSelected == Calm => view.preview \in {Nothing, client.selected}

\* A save drops the source it has saved, and nothing typed since (_save_as_next_version).
NothingTypedIsLost ==
  [][\A t \in Tasks : At(t, "activated") /\ doing'[t].pc = "lists" =>
       view.draft \in {Nothing, doing[t].read.source}]_tabVars
=============================================================================
