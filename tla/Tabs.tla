-------------------------------- MODULE Tabs --------------------------------
(***************************************************************************)
(* One browser tab on one of the five pages without a timer.  They share   *)
(* nothing but the way they work (Tab), and a tab shows one of them.       *)
(***************************************************************************)
EXTENDS Naturals

CONSTANTS
  Turners,   \* handlers that may overlap
  MaxTurns,  \* bound on what the user, and other tabs, do
  MaxEdits   \* the same on the pages with the most handlers

ASSUME TabsAssumption == MaxTurns \in Nat /\ MaxEdits \in Nat

VARIABLES db, client, view, doing, turns, ended

tabVars == <<db, client, view, doing, turns, ended>>

Census    == INSTANCE CensusPage
Codelists == INSTANCE CodelistsPage
Features  == INSTANCE FeaturesPage WITH MaxTurns <- MaxEdits
Prompts   == INSTANCE PromptsPage
Scrubbing == INSTANCE ScrubbingPage WITH MaxTurns <- MaxEdits

TabPages == {"census", "codelists", "features", "prompts", "scrubbing"}

\* on is the page the tab shows; of none of them, the least initial state.
TabInit(on) ==
  \/ on = "census" /\ Census!CensusInit
  \/ on = "codelists" /\ Codelists!CodelistsInit
  \/ on = "features" /\ Features!FeaturesInit
  \/ on = "prompts" /\ Prompts!PromptsInit
  \/ on = "scrubbing" /\ Scrubbing!ScrubbingInit
  \/ on \notin TabPages /\ Census!CensusInit /\ db.corpora = {}

TabNext(on) ==
  \/ on = "census" /\ Census!CensusNext
  \/ on = "codelists" /\ Codelists!CodelistsNext
  \/ on = "features" /\ Features!FeaturesNext
  \/ on = "prompts" /\ Prompts!PromptsNext
  \/ on = "scrubbing" /\ Scrubbing!ScrubbingNext

\* What the client remembers is what the page goes by.
TabRemembers(on) ==
  /\ on = "census" => Census!CensusRemembers
  /\ on = "codelists" => Codelists!CodelistsRemember
  /\ on = "features" => Features!FeaturesRemember
  /\ on = "prompts" => Prompts!PromptsRemember
  /\ on = "scrubbing" => Scrubbing!ScrubbingRemembers

\* What is shown after a reload that ran alone belongs together.
TabAgrees(on) ==
  /\ on = "census" => Census!CensusAgrees
  /\ on = "codelists" => Codelists!CodelistsAgree
  /\ on = "features" => Features!FeaturesAgree
  /\ on = "scrubbing" => Scrubbing!ScrubbingAgrees
=============================================================================
