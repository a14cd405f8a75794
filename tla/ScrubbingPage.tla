--------------------------- MODULE ScrubbingPage ---------------------------
(***************************************************************************)
(* The Scrubbing page (ui/views/scrubbing_view.py): the active rule set,   *)
(* the versions, and the entries of one list as switched, searched and     *)
(* paged.  The frame is drawn first and can be used while the first reload *)
(* is under way.  A rule set is its version; the version is also the       *)
(* number of versions there are.  The trial sentence is left out.          *)
(***************************************************************************)
EXTENDS Tab

Kinds   == 1..2
Asks    == 1..2   \* what is searched for, and the page
Unread  == [kind |-> 0, asked |-> 1]

ScrubbingInit ==
  /\ db = 1
  /\ client = [kind |-> 1, asked |-> 1]
  /\ view = [active |-> 0, versions |-> 0, entries |-> Unread, switch |-> 1]
  /\ Opens("active")

\* The entries are asked for at once, by what is now stored.
Picks(t, slot, pc, now) ==
  /\ BeginsIn(slot, t, pc, now)
  /\ client' = now
  /\ UNCHANGED <<db, view>>

\* _pick_kind, _search (its box is never redrawn) and _turn
PickKind(t) == \E k \in Kinds : Picks(t, "kind", "switching", [kind |-> k, asked |-> 1])
Search(t)   == \E q \in Asks : Picks(t, "root", "entries", [client EXCEPT !.asked = q])
TurnPage(t) == \E q \in Asks :
  view.entries # Unread /\ Picks(t, "entries", "entries", [client EXCEPT !.asked = q])

\* _import, from a dialog, and _remove
Import(t) == BeginsIn("root", t, "writing", {}) /\ UNCHANGED <<db, client, view>>
Remove(t) == view.active # 0 /\ BeginsIn("upper", t, "writing", {}) /\ UNCHANGED <<db, client, view>>

Writes(t) ==
  /\ At(t, "writing")
  /\ \/ db' = db + 1 /\ Goes(t, "active", {})
     \/ UNCHANGED db /\ Refused(t)
     \/ UNCHANGED db /\ Goes(t, "active", {})   \* already the active file
  /\ UNCHANGED <<client, view>>
-----------------------------------------------------------------------------
(* reload: the active rule set, the versions, then the entries.            *)

ReadsActive(t) == At(t, "active") /\ Goes(t, "activated", db) /\ UNCHANGED <<db, client, view>>

Activated(t) ==
  /\ At(t, "activated")
  /\ view' = [view EXCEPT !.active = doing[t].read]
  /\ Goes(t, "versions", {})
  /\ UNCHANGED <<db, client>>

ReadsVersions(t) == At(t, "versions") /\ Goes(t, "versioned", db) /\ UNCHANGED <<db, client, view>>

Versioned(t) ==
  /\ At(t, "versioned")
  /\ view' = [view EXCEPT !.versions = doing[t].read]
  /\ Goes(t, "reloading", client)
  /\ UNCHANGED <<db, client>>

\* _reload_entries after its await: the entries are held and drawn.
Entered(t) ==
  /\ doing[t].pc \in {"entries", "reloading"}
  /\ view' = [view EXCEPT !.entries = doing[t].read]
  /\ IF At(t, "reloading") THEN Ends(t, {"entries", "upper"}) ELSE Draws(t, {"entries"})
  /\ UNCHANGED <<db, client>>

\* Slip: the switch is redrawn with what was picked when the handler began.
SwitchedAsPicked(t) ==
  /\ At(t, "switching")
  /\ view' = [view EXCEPT !.entries = doing[t].read, !.switch = doing[t].read.kind]
  /\ Draws(t, {"entries", "kind"})
  /\ UNCHANGED <<db, client>>

\* _pick_kind: then the switch is redrawn, from the client's state.
Switched(t) ==
  /\ At(t, "switching")
  /\ view' = [view EXCEPT !.entries = doing[t].read, !.switch = client.kind]
  /\ Draws(t, {"entries", "kind"})
  /\ UNCHANGED <<db, client>>

\* Each of these needs the client's storage; the entries are held by then.
StorageGone(t) ==
  /\ doing[t].pc \in {"versioned", "entries", "reloading", "switching"} /\ doing[t].torn
  /\ Breaks(t)
  /\ view' = IF At(t, "versioned") THEN [view EXCEPT !.versions = doing[t].read]
             ELSE [view EXCEPT !.entries = doing[t].read]
  /\ UNCHANGED <<db, client>>

ScrubbingStep(t) ==
  \/ Writes(t) \/ ReadsActive(t) \/ Activated(t) \/ ReadsVersions(t) \/ Versioned(t)
  \/ Entered(t) \/ Switched(t) \/ StorageGone(t)

\* Another tab imports or removes a list.
RulesChange == Elsewhere(db + 1)

ScrubbingNext ==
  \/ \E t \in Turners : PickKind(t) \/ Search(t) \/ TurnPage(t) \/ Import(t) \/ Remove(t)
  \/ \E t \in Tasks : ScrubbingStep(t)
  \/ RulesChange

ScrubbingSpec == ScrubbingInit /\ [][ScrubbingNext]_tabVars
-----------------------------------------------------------------------------
ScrubbingTypeOK ==
  /\ client \in [kind : Kinds, asked : Asks]
  /\ view.active \in 0..db /\ view.versions \in 0..db

\* Once no handler is under way and none broke off, the switch shows the list
\* the client picked last, however the picks overlapped (_render_kind: "a pick
\* must redraw it").
ScrubbingRemembers == Calm /\ ended # "broken" => view.switch = client.kind

\* After a reload that ran alone, the active rule set is among the versions and
\* the entries are those of the switch and the search (reload: "Re-read
\* everything").
ScrubbingAgrees == Calm /\ ended = "lone" =>
  view.active <= view.versions /\ view.entries = client

\* The entries on screen answer the search box and the switch, not an older
\* keystroke or the list before (_search).
EntriesAreAsAsked == Calm => view.entries = client
=============================================================================
