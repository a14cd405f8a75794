------------------------------ MODULE ScrubRules ------------------------------
(***************************************************************************)
(* Scrub rule sets (ra2/services/scrub_service.py).  A version names one   *)
(* file per kind; importing or removing a file makes the next version, and *)
(* the highest version is the active one.  No version is ever deleted or   *)
(* rewritten.  A corpus is scrubbed by the version it then cites.          *)
(***************************************************************************)
EXTENDS Naturals, Sequences

CONSTANTS
  Kinds,        \* kinds of list
  Files,        \* contents of a list
  NoFile,       \* the version has no list of a kind
  Refused,      \* compositions that check_rules refuses
  Importers,    \* imports and removals that may be under way at once
  Freezers,     \* freezes, each of one corpus
  MaxVersions   \* versions made, at most

Composition == [Kinds -> Files \cup {NoFile}]
Mandatory   == [k \in Kinds |-> NoFile]

ASSUME ScrubAssumption ==
  /\ NoFile \notin Files
  /\ Refused \subseteq Composition \ {Mandatory}
  /\ MaxVersions \in Nat

VARIABLES
  rulesets,   \* scrub_ruleset: the composition of each version
  stored,     \* scrub_list: a row per kind and sha256
  importer,   \* imports and removals under way
  freezer     \* freezes, and the corpora they wrote

scrubVars == <<rulesets, stored, importer, freezer>>

NoImport == [pc |-> "idle"]

ScrubInit ==
  /\ rulesets = <<>>
  /\ stored = {}
  /\ importer = [c \in Importers |-> NoImport]
  /\ freezer = [f \in Freezers |-> NoImport]

\* Version 0: nothing was imported, the mandatory rules alone.
Composed(v) == IF v = 0 THEN Mandatory ELSE rulesets[v]
Active      == Composed(Len(rulesets))

-----------------------------------------------------------------------------
(* import_list, remove_list: compose over the active set, check in a       *)
(* thread, then number and insert.                                         *)

Composes(c, k, f) ==
  LET candidate == [Active EXCEPT ![k] = f] IN
  /\ importer[c].pc = "idle" /\ Active[k] # f
  /\ candidate \notin Refused
  /\ importer' = [importer EXCEPT ![c] = [pc |-> "checked", kind |-> k, file |-> f, set |-> candidate]]
  /\ UNCHANGED <<rulesets, stored, freezer>>

ImportReads(c, k, f) == f \in Files /\ Composes(c, k, f)
RemoveReads(c, k)    == Composes(c, k, NoFile)

ListRow(c) == <<importer[c].kind, importer[c].file>>

\* Slip: the other kinds are read again as the version is written.
AddsOverActive(c) ==
  /\ rulesets' = Append(rulesets, [Active EXCEPT ![importer[c].kind] = importer[c].file])
  /\ importer' = [importer EXCEPT ![c] = NoImport]
  /\ UNCHANGED freezer

\* The version the candidate becomes.
Adds(c) == /\ rulesets' = Append(rulesets, importer[c].set)
           /\ importer' = [importer EXCEPT ![c] = NoImport]
           /\ UNCHANGED freezer

\* A list nobody uploaded before: its INSERT opens the transaction, and the
\* number is read inside it.
CommitsNew(c) ==
  /\ importer[c].pc = "checked" /\ importer[c].file # NoFile
  /\ ListRow(c) \notin stored
  /\ Len(rulesets) < MaxVersions
  /\ stored' = stored \cup {ListRow(c)}
  /\ Adds(c)

\* Nothing is written yet: the number is read, the fingerprint computed in a
\* thread.
Numbers(c) ==
  /\ importer[c].pc = "checked"
  /\ importer[c].file = NoFile \/ ListRow(c) \in stored
  /\ importer' = [importer EXCEPT ![c] = [pc |-> "numbered", version |-> Len(rulesets) + 1,
                                           kind |-> @.kind, file |-> @.file, set |-> @.set]]
  /\ UNCHANGED <<rulesets, stored, freezer>>

CommitsNumbered(c) ==
  /\ importer[c].pc = "numbered"
  /\ importer[c].version = Len(rulesets) + 1
  /\ Len(rulesets) < MaxVersions
  /\ Adds(c) /\ UNCHANGED stored

\* version is unique, and so is a list's kind and sha256.
ImportRefused(c) ==
  /\ importer[c].pc # "idle"
  /\ importer' = [importer EXCEPT ![c] = NoImport]
  /\ UNCHANGED <<rulesets, stored, freezer>>

-----------------------------------------------------------------------------
(* CorpusService.freeze: the rules are loaded, seconds pass, the corpus is *)
(* written with the version it was scrubbed by.                            *)

ScrubLoads(f) ==
  /\ freezer[f].pc = "idle"
  /\ \E v \in 0..Len(rulesets) :
       freezer' = [freezer EXCEPT ![f] = [pc |-> "scrubbing", version |-> v, by |-> Composed(v)]]
  /\ UNCHANGED <<rulesets, stored, importer>>

CorpusWritten(f, version) ==
  /\ freezer[f].pc = "scrubbing"
  /\ freezer' = [freezer EXCEPT ![f] = [@ EXCEPT !.pc = "frozen", !.version = version]]
  /\ UNCHANGED <<rulesets, stored, importer>>

\* Slip: the corpus cites the set that is active when it is written.
ScrubCommitsActive(f) == CorpusWritten(f, Len(rulesets))

ScrubCommits(f) == CorpusWritten(f, freezer[f].version)

ScrubNext ==
  \/ \E c \in Importers :
       \/ CommitsNew(c) \/ Numbers(c) \/ CommitsNumbered(c) \/ ImportRefused(c)
       \/ \E k \in Kinds : RemoveReads(c, k) \/ \E f \in Files : ImportReads(c, k, f)
  \/ \E f \in Freezers : ScrubLoads(f) \/ ScrubCommits(f)
-----------------------------------------------------------------------------
(* Properties.                                                             *)

\* The values the rule sets can hold.
ScrubTypeOK ==
  /\ rulesets \in Seq(Composition) /\ stored \subseteq Kinds \X Files
  /\ \A f \in Freezers : freezer[f].pc # "idle" => freezer[f].version \in 0..Len(rulesets)

\* Every version passed check_rules as a whole, however many imports were
\* under way (remove_list: "Checked like an import: removing the whitelist
\* can turn a protected string into a placeholder").
EveryVersionWasChecked == \A v \in DOMAIN rulesets : rulesets[v] \notin Refused

\* A version cites lists that are stored.
CitedListsAreStored ==
  \A v \in DOMAIN rulesets, k \in Kinds :
    rulesets[v][k] = NoFile \/ <<k, rulesets[v][k]>> \in stored

\* A corpus was scrubbed by the version it cites, though others became
\* active meanwhile (SD63, scrub_ruleset_id).
CorpusCitesItsRules ==
  \A f \in Freezers : freezer[f].pc = "frozen" => Composed(freezer[f].version) = freezer[f].by

\* A kind's list leaves the active set only by a request that names the kind
\* (import_list: "add version n+1 with this kind swapped").
ImportsAreKept ==
  [][\A k \in Kinds : Active'[k] # Active[k] =>
       \E c \in Importers : importer[c].pc # "idle" /\ importer[c].kind = k
                            /\ importer'[c].pc = "idle"]_scrubVars
=============================================================================
