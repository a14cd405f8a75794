---------------------------- MODULE FeaturesPage ----------------------------
(***************************************************************************)
(* The Features page (ui/views/features_view.py): the feature sets, the    *)
(* one that is shown, the draft of the feature being edited, and the       *)
(* columns of the corpus it is validated against.  A reload reads the      *)
(* sets, then the selected one, the corpora, and two lists of columns.     *)
(***************************************************************************)
EXTENDS Tab

None == [set |-> 0, key |-> 0]   \* no feature
New  == [set |-> 0, key |-> 1]   \* NEW_FEATURE_SENTINEL

\* What columns are asked by: corpus and language; 0 is no corpus.
Scopes == 0..2

\* A link from the Census page: a corpus, and a column to open a draft on.
Links == [corpus : {0, 1}, column : BOOLEAN]
NoLink == [corpus |-> 0, column |-> FALSE]

FeaturesInit ==
  /\ db \in {[sets |-> {}, features |-> {}],
             [sets |-> {1, 2}, features |-> {[set |-> 1, key |-> 1], [set |-> 2, key |-> 1]}]}
  /\ client = [set |-> 0, feature |-> None, validate |-> 0]
  /\ \E link \in Links :
       view = [sets |-> {}, config |-> 0, features |-> {}, draft |-> None, typed |-> 0,
               enums |-> 0, columns |-> 0, link |-> link, drawn |-> FALSE]
  /\ Opens("sets")

FeaturesOf(set) == {f \in db.features : f.set = set}
NewSet          == Max(db.sets \cup {0}) + 1
NewFeature(set) == [set |-> set, key |-> Max({f.key : f \in FeaturesOf(set)} \cup {0}) + 1]

\* FEATURE_KEY and the draft change together.
Opened(v, f)   == [v EXCEPT !.draft = f, !.typed = 0]
Keeps(c, f)    == [c EXCEPT !.feature = f]
-----------------------------------------------------------------------------
(* What the user does.                                                     *)

\* Handlers without an await: a filter, the order, a page; a feature, a new one.
Shows(f) ==
  /\ view.drawn /\ OneTurn
  /\ client' = Keeps(client, f) /\ view' = Opened(view, f)
  /\ Redraws({"page"}) /\ UNCHANGED <<db, ended>>

Refilter ==
  /\ view.drawn /\ OneTurn
  /\ Redraws({"page"}) /\ UNCHANGED <<db, client, view, ended>>

SelectFeature   == \E f \in view.features : Shows(f)
StartNewFeature == view.config # 0 /\ Shows(New)

\* A field of the draft.
Types ==
  /\ view.draft # None /\ OneTurn
  /\ view' = [view EXCEPT !.typed = @ + 1]
  /\ UNCHANGED <<db, client, doing, ended>>

Uses(t, pc, read) == view.drawn /\ Begins(t, pc, read) /\ UNCHANGED <<db, client, view>>

PickSet(t) == \E s \in view.sets :
  /\ Begins(t, "sets", {})
  /\ client' = [Keeps(client, None) EXCEPT !.set = s] /\ view' = Opened(view, None)
  /\ UNCHANGED db

\* _pick_validate_corpus, _pick_language
PickScope(t) == \E q \in Scopes :
  /\ view.drawn
  /\ client' = [client EXCEPT !.validate = q]
  /\ IF q = 0
       THEN OneTurn /\ view' = [view EXCEPT !.enums = 0, !.columns = 0] /\ Interrupts({"page"}) /\ UNCHANGED ended
       ELSE Begins(t, "enums only", q) /\ UNCHANGED view
  /\ UNCHANGED db

SaveDraft(t) == view.config # 0 /\ view.draft # None
  /\ Uses(t, "saving", [set |-> view.config, feature |-> view.draft, typed |-> view.typed])
DeleteFeature(t) == \E f \in view.features : Uses(t, "deleting", f)
Freeze(t)        == view.config # 0 /\ Uses(t, "freezing", {})   \* _freeze, _rename_set
Clone(t)         == Uses(t, "creating", {})                      \* _clone, _new_set
DeleteSet(t)     == \E s \in view.sets : Uses(t, "dropping", s)
-----------------------------------------------------------------------------
(* The service calls.                                                      *)

Writes(t, pc, now, next, read) == At(t, pc) /\ db' = now /\ Goes(t, next, read) /\ UNCHANGED <<client, view>>

Saves(t) ==
  LET draft == doing[t].read
      saved == IF draft.feature = New THEN NewFeature(draft.set) ELSE draft.feature IN
  /\ At(t, "saving")
  /\ draft.set \in db.sets
  /\ draft.feature \in db.features \cup {New}
  /\ Writes(t, "saving", [db EXCEPT !.features = @ \cup {saved}], "saved", [draft EXCEPT !.feature = saved])

Deletes(t) ==
  /\ At(t, "deleting") /\ doing[t].read \in db.features
  /\ Writes(t, "deleting", [db EXCEPT !.features = @ \ {doing[t].read}], "deleted", {})

Creates(t) == Writes(t, "creating", [db EXCEPT !.sets = @ \cup {NewSet}], "created", NewSet)

Drops(t) ==
  /\ At(t, "dropping") /\ doing[t].read \in db.sets
  /\ Writes(t, "dropping", [sets |-> db.sets \ {doing[t].read},
                           features |-> db.features \ FeaturesOf(doing[t].read)], "dropped", doing[t].read)

Freezes(t) == Writes(t, "freezing", db, "sets", {})

\* Refused: the set is frozen or cited, something is gone or does not validate.
WriteRefused(t) ==
  /\ doing[t].pc \in {"saving", "deleting", "creating", "dropping", "freezing"}
  /\ Refused(t)
  /\ UNCHANGED <<db, client, view>>
-----------------------------------------------------------------------------
(* What the handlers keep of the answers.                                  *)

Kept(t, pc, now, v) == At(t, pc) /\ client' = now /\ view' = v /\ Goes(t, "sets", {}) /\ UNCHANGED db

\* _save_draft: the draft is what was saved, unless its key was typed over.
Saved(t) ==
  \/ Kept(t, "saved", Keeps(client, doing[t].read.feature), Opened(view, doing[t].read.feature))
  \/ Kept(t, "saved", client, view) /\ view.typed # doing[t].read.typed

Deleted(t) == Kept(t, "deleted", Keeps(client, None), Opened(view, None))

\* Slip: the draft of the set before stays open in the new one.
CreatedDraftStays(t) == Kept(t, "created", [Keeps(client, None) EXCEPT !.set = doing[t].read], view)

Created(t) == Kept(t, "created", [Keeps(client, None) EXCEPT !.set = doing[t].read], Opened(view, None))

Dropped(t) ==
  Kept(t, "dropped", [client EXCEPT !.set = IF @ = doing[t].read THEN 0 ELSE @], view)
-----------------------------------------------------------------------------
(* reload                                                                  *)

Lists(t) == At(t, "sets") /\ Goes(t, "listed", db.sets) /\ UNCHANGED <<db, client, view>>

\* _load_selected_config: the set the client remembers, or the newest.
Listed(t) ==
  LET sets == doing[t].read
      set  == IF client.set \in sets THEN client.set ELSE Max(sets \cup {0}) IN
  /\ At(t, "listed")
  /\ IF set # 0
       THEN /\ view' = [view EXCEPT !.sets = sets]
            /\ Goes(t, "getting", set) /\ UNCHANGED client
       ELSE /\ view' = [view EXCEPT !.sets = sets, !.config = 0, !.features = {}]
            /\ client' = [client EXCEPT !.set = 0]
            /\ Goes(t, "corpora", {})
  /\ UNCHANGED db

\* The set is read; one that is gone by now raises.
Gets(t) ==
  /\ At(t, "getting")
  /\ IF doing[t].read \in db.sets
       THEN Goes(t, "got", [set |-> doing[t].read, features |-> FeaturesOf(doing[t].read)])
       ELSE Breaks(t)
  /\ UNCHANGED <<db, client, view>>

Got(t) ==
  /\ At(t, "got")
  /\ view' = [view EXCEPT !.config = doing[t].read.set, !.features = doing[t].read.features]
  /\ client' = [client EXCEPT !.set = doing[t].read.set]
  /\ Goes(t, "corpora", {})
  /\ UNCHANGED db

\* _sync_selection, then _apply_prefill, once; then the redraw.
Synced(t, c, v) ==
  LET f    == IF v.config = 0 THEN None
              ELSE IF c.feature \in v.features \cup {New} THEN c.feature ELSE None
      kept == IF f = v.draft THEN v ELSE Opened(v, f)
      once == [kept EXCEPT !.link = NoLink, !.drawn = TRUE] IN
  /\ \/ client' = Keeps(c, f) /\ view' = once
     \/ v.link.column /\ v.config # 0 /\ client' = Keeps(c, New) /\ view' = Opened(once, New)
  /\ Ends(t, {"page"})
  /\ UNCHANGED db

\* The corpora are there: the link's is adopted, and its columns are asked for.
Corpora(t) ==
  LET q    == IF view.link.corpus # 0 THEN view.link.corpus ELSE client.validate
      asks == [client EXCEPT !.validate = q] IN
  /\ At(t, "corpora")
  /\ IF q = 0 THEN Synced(t, asks, [view EXCEPT !.enums = 0, !.columns = 0])
     ELSE client' = asks /\ Goes(t, "enums", q) /\ UNCHANGED <<db, view>>

\* Slip: a scope that is picked reloads the columns of code lists only.
EnumsAlone(t) ==
  /\ doing[t].pc \in {"enums", "enums only"}
  /\ view' = [view EXCEPT !.enums = doing[t].read]
  /\ IF At(t, "enums") THEN Goes(t, "columns", doing[t].read) ELSE Draws(t, {"page"})
  /\ UNCHANGED <<db, client>>

Enums(t) ==
  /\ doing[t].pc \in {"enums", "enums only"}
  /\ view' = [view EXCEPT !.enums = doing[t].read]
  /\ Goes(t, IF At(t, "enums") THEN "columns" ELSE "columns only", doing[t].read)
  /\ UNCHANGED <<db, client>>

Columned(t) ==
  LET v == [view EXCEPT !.columns = doing[t].read] IN
  \/ At(t, "columns") /\ Synced(t, client, v)
  \/ At(t, "columns only") /\ view' = v /\ Draws(t, {"page"}) /\ UNCHANGED <<db, client>>

\* Each of these needs the client's storage; what it is given first it keeps.
StorageGone(t) ==
  /\ doing[t].pc \in {"saved", "deleted", "created", "dropped", "listed", "got", "corpora", "columns"}
  /\ doing[t].torn
  /\ Breaks(t)
  /\ view' = CASE At(t, "listed")  -> [view EXCEPT !.sets = doing[t].read]
               [] At(t, "got")     -> [view EXCEPT !.config = doing[t].read.set, !.features = doing[t].read.features]
               [] At(t, "columns") -> [view EXCEPT !.columns = doing[t].read]
               [] OTHER -> view
  /\ UNCHANGED <<db, client>>

FeaturesStep(t) ==
  \/ Saves(t) \/ Deletes(t) \/ Creates(t) \/ Drops(t) \/ Freezes(t) \/ WriteRefused(t)
  \/ Saved(t) \/ Deleted(t) \/ Created(t) \/ Dropped(t)
  \/ Lists(t) \/ Listed(t) \/ Gets(t) \/ Got(t) \/ Corpora(t) \/ Enums(t) \/ Columned(t)
  \/ StorageGone(t)

\* Another tab deletes a set.
SetsChange == \E s \in db.sets :
  Elsewhere([sets |-> db.sets \ {s}, features |-> db.features \ FeaturesOf(s)])

FeaturesNext ==
  \/ Refilter \/ SelectFeature \/ StartNewFeature \/ Types \/ SetsChange
  \/ \E t \in Turners : PickSet(t) \/ PickScope(t) \/ SaveDraft(t) \/ DeleteFeature(t)
                        \/ Freeze(t) \/ Clone(t) \/ DeleteSet(t)
  \/ \E t \in Tasks : FeaturesStep(t)

FeaturesSpec == FeaturesInit /\ [][FeaturesNext]_tabVars
-----------------------------------------------------------------------------
FeaturesTypeOK ==
  /\ \A f \in db.features : f.set \in db.sets
  /\ client.validate \in Scopes /\ view.enums \in Scopes /\ view.columns \in Scopes
  /\ view.link \in Links

\* The draft is that of the selected feature, at every moment; and once no
\* handler is under way and none broke off, the set on screen is the one the
\* client will find again and the selected feature is one of its own, however
\* the handlers overlapped (_sync_selection: "Drop a selected feature that no
\* longer exists (deleted, or the set changed under it)").
FeaturesRemember ==
  /\ view.draft = client.feature
  /\ Calm /\ ended # "broken" =>
       client.set = view.config /\ client.feature \in view.features \cup {None, New}

\* After a reload that ran alone, both lists of columns are those of the corpus
\* that is validated against.
FeaturesAgree == Calm /\ ended = "lone" =>
  view.enums = client.validate /\ view.columns = client.validate

\* What is typed while a save is under way is still there after it (reload: "an
\* in-progress edit survives"; _save_draft replaces the draft).
EditsOutliveASave ==
  [][\A t \in Turners : At(t, "saved") /\ view.typed > doing[t].read.typed => view'.typed >= view.typed]_tabVars
=============================================================================
