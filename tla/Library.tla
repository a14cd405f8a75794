------------------------------- MODULE Library -------------------------------
(***************************************************************************)
(* What an analyst keeps between evaluations and a launch or a freeze then *)
(* cites: prompt templates, scrub rule sets, feature sets with the column  *)
(* mappings they are read through; the evaluation itself while it is       *)
(* edited, launched and discarded; the scores of a run of it, with the     *)
(* review of its mismatches; and the endpoint the runs call.               *)
(*                                                                         *)
(* What one reads of another is in its own module as an environment (a     *)
(* launch pins a template in PromptTemplates, a frozen set in FeatureSets, *)
(* its own columns in EvaluationSetup, an endpoint in ConnectionSettings;  *)
(* the run ends in Scoring), and no property relates two: a behaviour of   *)
(* all is checked as one of each, the others at rest.                      *)
(***************************************************************************)
EXTENDS PromptTemplates, ScrubRules, FeatureSets, EvaluationSetup, Scoring

CONSTANTS Endpoints, Seed, NoRow, Callers, Savers   \* of the connection

ASSUME EndpointAssumption == Seed \in Endpoints /\ NoRow \notin Endpoints

VARIABLES
  serving, live, newest, saver, run, overlapped,  \* of the connection
  at   \* whose requests are made

Connection == INSTANCE ConnectionSettings WITH
  up <- serving, stored <- newest, Runs <- Callers

connectionVars == <<serving, live, newest, saver, run, overlapped>>
libraryVars    ==
  <<promptVars, scrubVars, featureVars, setupVars, scoringVars, connectionVars, at>>

LibraryInit ==
  /\ PromptInit /\ ScrubInit /\ FeatureInit /\ SetupInit /\ ScoringInit /\ Connection!Init
  /\ at \in {"templates", "rules", "features", "evaluation", "scores", "connection"}
  /\ at # "scores" => \A v \in Codes, f \in FeatureNos : ~HasCase(v, f)

LibraryNext ==
  \/ /\ at = "templates" /\ PromptNext
     /\ UNCHANGED <<scrubVars, featureVars, setupVars, scoringVars, connectionVars, at>>
  \/ /\ at = "rules" /\ ScrubNext
     /\ UNCHANGED <<promptVars, featureVars, setupVars, scoringVars, connectionVars, at>>
  \/ /\ at = "features" /\ FeatureNext
     /\ UNCHANGED <<promptVars, scrubVars, setupVars, scoringVars, connectionVars, at>>
  \/ /\ at = "evaluation" /\ SetupNext
     /\ UNCHANGED <<promptVars, scrubVars, featureVars, scoringVars, connectionVars, at>>
  \/ /\ at = "scores" /\ ScoringNext
     /\ UNCHANGED <<promptVars, scrubVars, featureVars, setupVars, connectionVars, at>>
  \/ /\ at = "connection" /\ Connection!Next
     /\ UNCHANGED <<promptVars, scrubVars, featureVars, setupVars, scoringVars, at>>

LibrarySpec == LibraryInit /\ [][LibraryNext]_libraryVars
-----------------------------------------------------------------------------
\* What the app calls is what it would call after a restart, whatever failed and
\* whenever it died, since a restart or since a save that met no other, until
\* one that does (save_connection: "Store both values and make them current").
StoredIsCurrent == Connection!StoredIsCurrent
=============================================================================
