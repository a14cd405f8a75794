-------------------------------- MODULE Tab --------------------------------
(***************************************************************************)
(* What the pages without a timer have in common: one page open in one     *)
(* browser tab (ui/views/census_view.py, codelists_view.py,                *)
(* features_view.py, prompts_view.py, scrubbing_view.py).                  *)
(*                                                                         *)
(* A handler is a coroutine; it and the others write one page object and   *)
(* the storage of one client (app.storage.client), and what happens        *)
(* between two awaits is one step.  Every page re-reads what it shows in   *)
(* one reload, the last part of most handlers.                             *)
(*                                                                         *)
(* NiceGUI finds the client of a handler through the element that called   *)
(* it, so a handler whose element was redrawn while it waited may find it  *)
(* deleted when it next needs the client's storage (features_view.py:1453, *)
(* prompts_view.py:859, scrubbing_view.py:578), and ends there.            *)
(***************************************************************************)
EXTENDS Naturals, FiniteSets, FiniteSetsExt

CONSTANTS
  Turners,   \* handlers that may overlap
  MaxTurns   \* bound on what the user, and other tabs, do

VARIABLES
  db,      \* what the page's services would answer now
  client,  \* app.storage.client
  view,    \* what the page object holds, and what it last drew
  doing,   \* the coroutines
  turns,   \* what was done
  ended    \* how the reloads ended so far: "lone", "shared" or "broken"

tabVars == <<db, client, view, doing, turns, ended>>

Tasks == Turners \cup {"build"}

\* read is what it was answered or asked; slot the part of the page its element
\* is in ("root" is never redrawn), torn that it was redrawn; alone that nothing
\* ran beside it so far.
Resting == [pc |-> "rest", read |-> {}, slot |-> "root", torn |-> FALSE, alone |-> FALSE]

Busy == {t \in Tasks : doing[t].pc # "rest"}
Calm == Busy = {}

\* The page opens: build draws the frame and starts the first reload.
Opens(pc) ==
  /\ doing = [t \in Tasks |->
       IF t = "build" THEN [Resting EXCEPT !.pc = pc, !.alone = TRUE] ELSE Resting]
  /\ turns = 0 /\ ended = "shared"

OneTurn == turns < MaxTurns /\ turns' = turns + 1

\* A handler runs to its first await.
BeginsIn(slot, t, pc, read) ==
  /\ doing[t].pc = "rest" /\ t # "build" /\ OneTurn
  /\ doing' = [s \in Tasks |->
       IF s = t THEN [Resting EXCEPT !.pc = pc, !.read = read, !.slot = slot, !.alone = Calm]
       ELSE [doing[s] EXCEPT !.alone = FALSE]]
  /\ UNCHANGED ended

\* One of the part that every draw redraws.
Begins(t, pc, read) == BeginsIn("page", t, pc, read)

At(t, pc) == doing[t].pc = pc

Goes(t, pc, read) ==
  /\ doing' = [doing EXCEPT ![t].pc = pc, ![t].read = read]
  /\ UNCHANGED <<turns, ended>>

\* A redraw of some parts deletes the elements of the handlers that wait there.
Torn(s, slots) == [doing[s] EXCEPT !.torn = @ \/ (doing[s].pc # "rest" /\ doing[s].slot \in slots)]

Redraws(slots) == doing' = [s \in Tasks |-> Torn(s, slots)]

\* One that also changes what the others go by.
Interrupts(slots) == doing' = [s \in Tasks |-> [Torn(s, slots) EXCEPT !.alone = FALSE]]

Rests(t, slots) ==
  /\ doing' = [s \in Tasks |-> IF s = t THEN Resting ELSE Torn(s, slots)]
  /\ UNCHANGED turns

\* A reload ends with a redraw of all of the page.
Ends(t, slots) ==
  /\ Rests(t, slots)
  /\ ended' = IF doing[t].alone THEN "lone" ELSE IF ended = "broken" THEN "broken" ELSE "shared"

\* A handler without a reload ends with a redraw.
Draws(t, slots) ==
  /\ Rests(t, slots)
  /\ ended' = IF ended = "lone" /\ ~doing[t].alone THEN "shared" ELSE ended

\* It ends with nothing redrawn: it was refused, or it raised.
Refused(t) == doing' = [doing EXCEPT ![t] = Resting] /\ UNCHANGED <<turns, ended>>
Breaks(t)  == doing' = [doing EXCEPT ![t] = Resting] /\ ended' = "broken" /\ UNCHANGED turns

\* What the database says before any handler looks again.
Elsewhere(now) == OneTurn /\ db' = now /\ UNCHANGED <<client, view, doing, ended>>

\* _current_corpus: the remembered corpus, or the newest, or none (0).
CurrentCorpus(corpora, remembered) ==
  IF remembered \in corpora THEN remembered ELSE Max(corpora \cup {0})
=============================================================================
