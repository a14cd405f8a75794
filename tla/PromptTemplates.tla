--------------------------- MODULE PromptTemplates ---------------------------
(***************************************************************************)
(* Prompt template versions (ra2/services/prompt_service.py), and the      *)
(* evaluations and runs that cite them: a draft pins a template by its id, *)
(* a launch copies its version and its fingerprint onto every run.         *)
(*                                                                         *)
(* A request reads in one step and commits in a later one: SQLite's driver *)
(* opens no transaction before the first write.  What a commit can still   *)
(* be refused by is a key: version is unique, and a cited row is           *)
(* RESTRICTed by the evaluation and by the run.                            *)
(***************************************************************************)
EXTENDS Naturals, FiniteSets

CONSTANTS
  TemplateIds,  \* names for template rows; one nobody refers to may be used again
  NoTemplate,   \* prompt_template_id is NULL
  Sources,      \* texts that validate_template accepts
  MaxVersion,   \* version numbers given, at most
  Authors,      \* requests to the prompt service that may be under way at once
  Launchers     \* evaluations, each with one launch under way at most

ASSUME TemplateAssumption == NoTemplate \notin TemplateIds /\ MaxVersion \in Nat

VARIABLES
  templates,  \* prompt_template: id -> row
  author,     \* requests to the prompt service
  cites,      \* evaluation: its prompt_template_id and launched_at
  launcher,   \* launches under way
  asked       \* run rows: the template they were pinned to

promptVars == <<templates, author, cites, launcher, asked>>

Template  == [version : Nat, source : Sources, active : BOOLEAN]
Ids       == DOMAIN templates
Resting   == [pc |-> "idle"]
Draft     == [pins |-> NoTemplate, launched |-> FALSE]

PromptInit ==
  /\ templates = [t \in {} |-> {}]
  /\ author = [c \in Authors |-> Resting]
  /\ cites = [e \in Launchers |-> Draft]
  /\ launcher = [e \in Launchers |-> Resting]
  /\ asked = {}

\* citation_count: runs only.
RunsOf(t) == {r \in asked : r.template = t}

\* What the foreign keys refuse to orphan.
Restricted(t) == RunsOf(t) # {} \/ \E e \in Launchers : cites[e].pins = t

\* A name no row, citation or request holds.
Fresh(t) ==
  /\ t \notin Ids
  /\ \A c \in Authors : author[c].pc # "idle" =>
       t \notin (IF author[c].pc = "activating" THEN author[c].clears ELSE {}) \cup {author[c].target}
  /\ \A e \in Launchers : launcher[e].pc # "idle" => launcher[e].run.template # t

-----------------------------------------------------------------------------
(* The prompt service.                                                     *)

NextTemplateVersion ==
  CHOOSE n \in 1..MaxVersion + 1 :
    /\ \A t \in Ids : templates[t].version < n
    /\ n = 1 \/ \E t \in Ids : templates[t].version + 1 = n

Begins(c, request) == /\ author[c].pc = "idle"
                      /\ author' = [author EXCEPT ![c] = request]
                      /\ UNCHANGED <<templates, cites, launcher, asked>>

Finishes(c, rows) == /\ templates' = rows
                     /\ author' = [author EXCEPT ![c] = Resting]
                     /\ UNCHANGED <<cites, launcher, asked>>

\* save_as_next_version
SaveReads(c, s) ==
  /\ NextTemplateVersion <= MaxVersion
  /\ Begins(c, [pc |-> "saving", source |-> s, version |-> NextTemplateVersion, target |-> NoTemplate])

Saved(c) == [version |-> author[c].version, source |-> author[c].source, active |-> FALSE]

\* Slip: version is not unique.
SaveCommitsTwice(c) ==
  /\ author[c].pc = "saving"
  /\ \E t \in TemplateIds : /\ Fresh(t)
                            /\ Finishes(c, [u \in Ids \cup {t} |-> IF u = t THEN Saved(c) ELSE templates[u]])

SaveCommits(c) ==
  /\ author[c].pc = "saving"
  /\ \A t \in Ids : templates[t].version # author[c].version
  /\ \E t \in TemplateIds : /\ Fresh(t)
                            /\ Finishes(c, [u \in Ids \cup {t} |-> IF u = t THEN Saved(c) ELSE templates[u]])

\* activate: the target, and whoever is active as it is read.
ActivateReads(c, t) ==
  /\ t \in Ids
  /\ Begins(c, [pc |-> "activating", target |-> t,
                clears |-> {u \in Ids : templates[u].active}])

\* An UPDATE of a row that has gone rolls the request back.
ActivateCommits(c) ==
  /\ author[c].pc = "activating"
  /\ author[c].clears \cup {author[c].target} \subseteq Ids
  /\ Finishes(c, [u \in Ids |->
       IF u = author[c].target THEN [templates[u] EXCEPT !.active = TRUE]
       ELSE IF u \in author[c].clears THEN [templates[u] EXCEPT !.active = FALSE]
       ELSE templates[u]])

DeleteReads(c, t) ==
  /\ t \in Ids /\ RunsOf(t) = {}
  /\ Begins(c, [pc |-> "deleting", target |-> t])

\* Slip: the count was enough.
DeleteTrustsCount(c) ==
  /\ author[c].pc = "deleting"
  /\ Finishes(c, [u \in Ids \ {author[c].target} |-> templates[u]])

DeleteCommits(c) ==
  /\ author[c].pc = "deleting"
  /\ ~Restricted(author[c].target)
  /\ Finishes(c, [u \in Ids \ {author[c].target} |-> templates[u]])

\* A key refuses the commit, or the request ends before it.
AuthorRefused(c) == author[c].pc # "idle" /\ Finishes(c, templates)

-----------------------------------------------------------------------------
(* The evaluations that cite.                                              *)

Pins(e, t) == /\ cites' = [cites EXCEPT ![e].pins = t]
              /\ UNCHANGED <<templates, author, launcher, asked>>

\* save_draft defaults to an active version, update_draft names one.
DraftPins(e, t) == t \in Ids /\ ~cites[e].launched /\ Pins(e, t)

PinReads(e) ==
  /\ launcher[e].pc = "idle" /\ ~cites[e].launched
  /\ cites[e].pins \in Ids
  /\ launcher' = [launcher EXCEPT ![e] =
       [pc |-> "read", run |-> [of |-> e, template |-> cites[e].pins,
                                version |-> templates[cites[e].pins].version,
                                source |-> templates[cites[e].pins].source]]]
  /\ UNCHANGED <<templates, author, cites, asked>>

\* The runs' foreign key is checked here.
PinCommits(e) ==
  /\ launcher[e].pc = "read" /\ launcher[e].run.template \in Ids
  /\ cites' = [cites EXCEPT ![e].launched = TRUE]
  /\ asked' = asked \cup {launcher[e].run}
  /\ launcher' = [launcher EXCEPT ![e] = Resting]
  /\ UNCHANGED <<templates, author>>

PinRefused(e) == /\ launcher[e].pc = "read"
                    /\ launcher' = [launcher EXCEPT ![e] = Resting]
                    /\ UNCHANGED <<templates, author, cites, asked>>

\* discard_evaluation, and another takes its name.
Discarded(e) ==
  /\ cites[e] # Draft /\ launcher[e].pc = "idle"
  /\ cites' = [cites EXCEPT ![e] = Draft]
  /\ asked' = {r \in asked : r.of # e}
  /\ UNCHANGED <<templates, author, launcher>>

PromptNext ==
  \/ \E c \in Authors :
       \/ SaveCommits(c) \/ ActivateCommits(c) \/ DeleteCommits(c) \/ AuthorRefused(c)
       \/ \E s \in Sources : SaveReads(c, s)
       \/ \E t \in TemplateIds : ActivateReads(c, t) \/ DeleteReads(c, t)
  \/ \E e \in Launchers :
       \/ PinReads(e) \/ PinCommits(e) \/ PinRefused(e) \/ Discarded(e)
       \/ \E t \in TemplateIds : DraftPins(e, t)
-----------------------------------------------------------------------------
(* Properties.                                                             *)

\* The values the library of templates can hold.
PromptTypeOK ==
  /\ Ids \subseteq TemplateIds /\ \A t \in Ids : templates[t] \in Template
  /\ cites \in [Launchers -> [pins : TemplateIds \cup {NoTemplate}, launched : BOOLEAN]]
  /\ \A r \in asked : r.of \in Launchers /\ r.template \in TemplateIds

\* A version an evaluation or a run cites is there, whatever was counted
\* before it was cited (delete: "only when no run cites it").
CitedVersionIsThere == \A t \in TemplateIds : Restricted(t) => t \in Ids

\* A version number on a run names one text, that of every other run and of
\* the library, even though deleting the newest version frees its number
\* (save_as_next_version: "the runs citing it must keep resolving to the
\* exact text they used").
VersionNamesOneText ==
  \A r \in asked :
    /\ \A q \in asked : q.version = r.version => q.source = r.source
    /\ \A t \in Ids : templates[t].version = r.version => templates[t].source = r.source

\* Exactly one version is active once one is (activate: "so exactly one row
\* is active").
OneActive == \A t, u \in Ids : templates[t].active /\ templates[u].active => t = u
=============================================================================
