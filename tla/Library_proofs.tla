--------------------------- MODULE Library_proofs ---------------------------
(***************************************************************************)
(* What the library promises a freeze, a launch and an edit, for every     *)
(* number of requests under way and of things kept.                        *)
(***************************************************************************)
EXTENDS Library, SequenceTheorems, TLAPS

-----------------------------------------------------------------------------
(* Scrub rule sets.                                                        *)

\* An import under way carries the set that was checked, and a corpus the
\* composition of the version it was scrubbed by.
Checked  == [pc : {"checked"}, kind : Kinds, file : Files \cup {NoFile},
             set : Composition \ Refused]
Numbered == [pc : {"numbered"}, version : Nat, kind : Kinds, file : Files \cup {NoFile},
             set : Composition \ Refused]
Scrubbed == [pc : {"scrubbing", "frozen"}, version : Nat, by : Composition]

ScrubTyped ==
  /\ rulesets \in Seq(Composition)
  /\ importer \in [Importers -> {NoImport} \cup Checked \cup Numbered]
  /\ freezer \in [Freezers -> {NoImport} \cup Scrubbed]

CorpusKnowsItsRules ==
  \A f \in Freezers : freezer[f] # NoImport =>
    /\ freezer[f].version <= Len(rulesets)
    /\ freezer[f].by = Composed(freezer[f].version)

ScrubInv == ScrubTyped /\ CorpusKnowsItsRules /\ EveryVersionWasChecked

\* A composition with the list of one kind swapped is one.
LEMMA SwapComposes ==
  ASSUME ScrubTyped, NEW k \in Kinds, NEW f \in Files \cup {NoFile}
  PROVE  Active \in Composition /\ [Active EXCEPT ![k] = f] \in Composition
<1>1. Active \in Composition
  BY DEF ScrubTyped, Active, Composed, Mandatory, Composition
<1> QED
  BY <1>1 DEF Composition

\* A new version leaves those before it as they are.
LEMMA AppendKeeps ==
  ASSUME rulesets \in Seq(Composition), NEW s \in Composition, rulesets' = Append(rulesets, s)
  PROVE  /\ rulesets' \in Seq(Composition) /\ Len(rulesets') = Len(rulesets) + 1
         /\ \A v \in 0 .. Len(rulesets) : Composed(v)' = Composed(v)
         /\ rulesets'[Len(rulesets) + 1] = s
         /\ DOMAIN rulesets = 1 .. Len(rulesets) /\ DOMAIN rulesets' = 1 .. Len(rulesets) + 1
<1>1. /\ rulesets' \in Seq(Composition) /\ Len(rulesets') = Len(rulesets) + 1
      /\ \A v \in 1 .. Len(rulesets) : rulesets'[v] = rulesets[v]
      /\ rulesets'[Len(rulesets) + 1] = s
      /\ DOMAIN rulesets = 1 .. Len(rulesets) /\ DOMAIN rulesets' = 1 .. Len(rulesets) + 1
  OBVIOUS
<1> QED
  BY <1>1 DEF Composed

\* A version is added: it is the checked set of an import.
LEMMA AddKeepsScrubInv ==
  ASSUME ScrubInv, NEW c \in Importers, importer[c] \in Checked \cup Numbered, Adds(c)
  PROVE  ScrubInv'
<1>0. ScrubTyped /\ importer[c].set \in Composition /\ importer[c].set \notin Refused
      /\ rulesets \in Seq(Composition)
  BY DEF ScrubInv, Checked, Numbered, ScrubTyped
<1>1. /\ rulesets' = Append(rulesets, importer[c].set) /\ freezer' = freezer
      /\ importer' = [importer EXCEPT ![c] = NoImport]
  BY DEF Adds
<1>2. /\ rulesets' \in Seq(Composition) /\ Len(rulesets') = Len(rulesets) + 1
      /\ \A v \in 0 .. Len(rulesets) : Composed(v)' = Composed(v)
      /\ rulesets'[Len(rulesets) + 1] = importer[c].set
      /\ DOMAIN rulesets = 1 .. Len(rulesets) /\ DOMAIN rulesets' = 1 .. Len(rulesets) + 1
      /\ Len(rulesets) \in Nat
  BY <1>0, <1>1, AppendKeeps
<1>3. ScrubTyped'
  BY <1>0, <1>1, <1>2 DEF ScrubTyped
<1>4. EveryVersionWasChecked'
  <2> SUFFICES ASSUME NEW v \in 1 .. Len(rulesets) + 1 PROVE rulesets'[v] \notin Refused
    BY <1>2 DEF EveryVersionWasChecked
  <2>1. CASE v = Len(rulesets) + 1
    BY <1>0, <1>2, <2>1
  <2>2. CASE v \in 1 .. Len(rulesets)
    BY <1>2, <2>2 DEF Composed, ScrubInv, EveryVersionWasChecked
  <2> QED
    BY <1>2, <2>1, <2>2
<1>5. CorpusKnowsItsRules'
  <2> SUFFICES ASSUME NEW f \in Freezers, freezer[f] # NoImport
               PROVE  /\ freezer[f].version <= Len(rulesets')
                      /\ freezer[f].by = Composed(freezer[f].version)'
    BY <1>1 DEF CorpusKnowsItsRules, Composed
  <2>1. freezer[f].version \in 0 .. Len(rulesets) /\ freezer[f].by = Composed(freezer[f].version)
    BY <1>0, <1>2 DEF ScrubTyped, Scrubbed, ScrubInv, CorpusKnowsItsRules
  <2>2. \A v \in 0 .. Len(rulesets) :
          v <= Len(rulesets') /\ (IF v = 0 THEN Mandatory ELSE rulesets'[v]) = Composed(v)
    BY <1>2 DEF Composed
  <2> QED
    BY <1>1, <2>1, <2>2 DEF Composed
<1> QED
  BY <1>3, <1>4, <1>5 DEF ScrubInv

LEMMA ScrubInvNext == ScrubInv /\ [ScrubNext]_scrubVars => ScrubInv'
<1> SUFFICES ASSUME ScrubInv, [ScrubNext]_scrubVars PROVE ScrubInv'
  OBVIOUS
<1>0. ScrubTyped /\ CorpusKnowsItsRules /\ EveryVersionWasChecked
  BY DEF ScrubInv
<1>1. ASSUME NEW c \in Importers, NEW k \in Kinds, NEW f \in Files \cup {NoFile}, Composes(c, k, f)
      PROVE  ScrubInv'
  <2> DEFINE new == [pc |-> "checked", kind |-> k, file |-> f, set |-> [Active EXCEPT ![k] = f]]
  <2>1. new \in Checked
    BY <1>0, <1>1, SwapComposes DEF Composes, Checked
  <2>2. importer' = [importer EXCEPT ![c] = new] /\ UNCHANGED <<rulesets, freezer>>
    BY <1>1 DEF Composes
  <2>3. ScrubTyped'
    <3> HIDE DEF new
    <3> QED
      BY <1>0, <2>1, <2>2 DEF ScrubTyped
  <2> QED
    BY <1>0, <2>2, <2>3 DEF ScrubInv, CorpusKnowsItsRules, EveryVersionWasChecked, Composed
<1>2. ASSUME NEW c \in Importers, CommitsNew(c) \/ CommitsNumbered(c) PROVE ScrubInv'
  <2>1. Adds(c) /\ importer[c].pc \in {"checked", "numbered"}
    BY <1>2 DEF CommitsNew, CommitsNumbered
  <2>2. importer[c] \in Checked \cup Numbered
    BY <1>0, <2>1 DEF ScrubTyped, NoImport
  <2> QED
    BY <2>1, <2>2, AddKeepsScrubInv
<1>3. ASSUME NEW c \in Importers, Numbers(c) PROVE ScrubInv'
  <2> DEFINE new == [pc |-> "numbered", version |-> Len(rulesets) + 1, kind |-> importer[c].kind,
                     file |-> importer[c].file, set |-> importer[c].set]
  <2>1. importer[c] \in Checked
    BY <1>0, <1>3 DEF Numbers, ScrubTyped, NoImport, Numbered
  <2>3. new \in Numbered
    BY <1>0, <2>1 DEF Checked, Numbered, ScrubTyped
  <2>4. importer' = [importer EXCEPT ![c] = new] /\ UNCHANGED <<rulesets, freezer>>
    BY <1>3 DEF Numbers
  <2>5. ScrubTyped'
    <3> HIDE DEF new
    <3> QED
      BY <1>0, <2>3, <2>4 DEF ScrubTyped
  <2> QED
    BY <1>0, <2>4, <2>5 DEF ScrubInv, CorpusKnowsItsRules, EveryVersionWasChecked, Composed
<1>4. ASSUME NEW c \in Importers, ImportRefused(c) PROVE ScrubInv'
  BY <1>0, <1>4 DEF ImportRefused, ScrubInv, ScrubTyped, CorpusKnowsItsRules,
                    EveryVersionWasChecked, Composed
<1>5. ASSUME NEW f \in Freezers, ScrubLoads(f) PROVE ScrubInv'
  <2>1. PICK v \in 0 .. Len(rulesets) :
          freezer' = [freezer EXCEPT ![f] = [pc |-> "scrubbing", version |-> v, by |-> Composed(v)]]
    BY <1>5 DEF ScrubLoads
  <2>2. Composed(v) \in Composition /\ v \in Nat
    BY <1>0, <2>1 DEF ScrubTyped, Composed, Mandatory, Composition
  <2>3. [pc |-> "scrubbing", version |-> v, by |-> Composed(v)] \in Scrubbed
    BY <2>2 DEF Scrubbed
  <2>4. UNCHANGED <<rulesets, importer>>
    BY <1>5 DEF ScrubLoads
  <2>5. ScrubTyped'
    BY <1>0, <2>1, <2>3, <2>4 DEF ScrubTyped
  <2>6. CorpusKnowsItsRules'
    BY <1>0, <2>1, <2>4 DEF CorpusKnowsItsRules, ScrubTyped, Composed
  <2> QED
    BY <1>0, <2>4, <2>5, <2>6 DEF ScrubInv, EveryVersionWasChecked
<1>6. ASSUME NEW f \in Freezers, ScrubCommits(f) PROVE ScrubInv'
  <2> DEFINE new == [freezer[f] EXCEPT !.pc = "frozen", !.version = freezer[f].version]
  <2>1. freezer[f] \in Scrubbed
    BY <1>0, <1>6 DEF ScrubCommits, CorpusWritten, ScrubTyped, NoImport
  <2>2. new \in Scrubbed /\ new.version = freezer[f].version /\ new.by = freezer[f].by
    BY <2>1 DEF Scrubbed
  <2>3. freezer' = [freezer EXCEPT ![f] = new] /\ UNCHANGED <<rulesets, importer>>
    BY <1>6 DEF ScrubCommits, CorpusWritten
  <2>4. freezer[f] # NoImport
    BY <2>1 DEF Scrubbed, NoImport
  <2> HIDE DEF new
  <2>5. ScrubTyped'
    BY <1>0, <2>2, <2>3 DEF ScrubTyped
  <2>6. CorpusKnowsItsRules'
    BY <1>0, <2>2, <2>3, <2>4 DEF CorpusKnowsItsRules, ScrubTyped, Composed
  <2> QED
    BY <1>0, <2>3, <2>5, <2>6 DEF ScrubInv, EveryVersionWasChecked
<1>7. CASE UNCHANGED scrubVars
  BY <1>0, <1>7 DEF scrubVars, ScrubInv, ScrubTyped, CorpusKnowsItsRules, EveryVersionWasChecked,
                    Composed
<1> QED
  BY <1>1, <1>2, <1>3, <1>4, <1>5, <1>6, <1>7 DEF ScrubNext, ImportReads, RemoveReads

-----------------------------------------------------------------------------
(* The evaluation while it is edited.                                      *)

Editing == [pc : {"idle", "loaded"}, req : SetupRequests, seen : Columns]

SetupTyped ==
  /\ eval \in Columns
  /\ editor \in [Editors -> Editing]

\* An edit in progress holds the lock, and the models it loaded are still
\* those selected: whoever else writes the row leaves them alone.
LockCovers ==
  \A e \in Editors : editor[e].pc = "loaded" =>
    /\ lock = e
    /\ editor[e].seen.selected = eval.selected

SetupInv == SetupTyped /\ LockCovers

\* What a request may do to the selection.
LEMMA RequestShape ==
  ASSUME NEW req \in SetupRequests
  PROVE  /\ req.kind \in {"click", "list", "setup", "keep"}
         /\ req.kind \in {"click", "list"} => req.models \subseteq req.named /\ req.models \subseteq Models
         /\ req.kind = "setup" => req.setup \in Setups
         /\ req.kind = "keep" => req.kept \in BOOLEAN
BY DEF SetupRequests, Click, List, Setup, Keep

\* A request the initial state names.
LEMMA KeepIsARequest == Keep(FALSE) \in SetupRequests
<1>1. \A on \in BOOLEAN : Keep(on) \in {Keep(b) : b \in BOOLEAN}
  BY Zenon
<1>2. Keep(FALSE) \in {Keep(on) : on \in BOOLEAN}
  BY <1>1
<1> DEFINE keeps  == {Keep(on) : on \in BOOLEAN}
           others == {Click(m, on) : m \in Models, on \in BOOLEAN}
                       \cup {List(ms) : ms \in SUBSET Models} \cup {Setup(s) : s \in Setups}
<1>3. SetupRequests = others \cup keeps
  BY DEF SetupRequests
<1>4. Keep(FALSE) \in keeps
  BY <1>2
<1> HIDE DEF keeps, others
<1> QED
  BY <1>3, <1>4

\* The row an edit makes: a model's tick changes only if the edit names it.
LEMMA EditedShape ==
  ASSUME NEW req \in SetupRequests, NEW seen \in Columns
  PROVE  /\ Edited(req, seen) \in Columns
         /\ req.kind \notin {"click", "list"} => Edited(req, seen).selected = seen.selected
         /\ req.kind \in {"click", "list"} => \A m \in Models \ req.named :
              m \in Edited(req, seen).selected <=> m \in seen.selected
<1>1. CASE req.kind \in {"click", "list"}
  <2>1. Edited(req, seen) = [seen EXCEPT !.selected = (seen.selected \ req.named) \cup req.models]
    BY <1>1 DEF Edited
  <2>2. req.models \subseteq req.named /\ req.models \subseteq Models
    BY <1>1, RequestShape
  <2> QED
    BY <1>1, <2>1, <2>2 DEF Columns
<1>2. CASE req.kind = "setup"
  <2>1. Edited(req, seen) = [seen EXCEPT !.setup = req.setup] /\ req.setup \in Setups
    BY <1>2, RequestShape DEF Edited
  <2> QED
    BY <1>2, <2>1 DEF Columns
<1>3. CASE req.kind = "keep"
  <2>1. Edited(req, seen) = [seen EXCEPT !.kept = req.kept] /\ req.kept \in BOOLEAN
    BY <1>3, RequestShape DEF Edited
  <2> QED
    BY <1>3, <2>1, Zenon DEF Columns
<1> QED
  BY <1>1, <1>2, <1>3, RequestShape

\* What a commit leaves in the row.
LEMMA WrittenShape ==
  ASSUME eval \in Columns, NEW seen \in Columns, NEW new \in Columns
  PROVE  /\ Written(seen, new) \in Columns
         /\ Written(seen, new).selected = IF new.selected # seen.selected THEN new.selected
                                          ELSE eval.selected
<1>1. DOMAIN eval = {"selected", "setup", "kept", "launched"}
  BY DEF Columns
<1>2. Written(seen, new) =
        [c \in {"selected", "setup", "kept", "launched"} |->
           IF new[c] # seen[c] THEN new[c] ELSE eval[c]]
  BY <1>1 DEF Written
<1>3. Written(seen, new) =
        [selected |-> IF new.selected # seen.selected THEN new.selected ELSE eval.selected,
         setup    |-> IF new.setup # seen.setup THEN new.setup ELSE eval.setup,
         kept     |-> IF new.kept # seen.kept THEN new.kept ELSE eval.kept,
         launched |-> IF new.launched # seen.launched THEN new.launched ELSE eval.launched]
  BY <1>2
<1>4. /\ (IF new.selected # seen.selected THEN new.selected ELSE eval.selected) \in SUBSET Models
      /\ (IF new.setup # seen.setup THEN new.setup ELSE eval.setup) \in Setups
      /\ (IF new.kept # seen.kept THEN new.kept ELSE eval.kept) \in BOOLEAN
      /\ (IF new.launched # seen.launched THEN new.launched ELSE eval.launched) \in BOOLEAN
  BY Zenon DEF Columns
<1> QED
  BY <1>3, <1>4 DEF Columns

\* An edit that loads, and one that commits.
LEMMA LoadKeepsSetupInv ==
  ASSUME SetupInv, NEW e \in Editors, NEW req \in SetupRequests, DraftLoads(e, req)
  PROVE  SetupInv'
<1> DEFINE new == [pc |-> "loaded", req |-> req, seen |-> eval]
<1>0. SetupTyped /\ LockCovers /\ NoOne \notin Editors
  BY SetupAssumption DEF SetupInv
<1>1. editor' = [editor EXCEPT ![e] = new] /\ lock = NoOne /\ lock' = e /\ eval' = eval
  BY DEF DraftLoads
<1>2. new \in Editing
  BY <1>0 DEF Editing, SetupTyped
<1>3. \A d \in Editors : editor[d].pc # "loaded"
  BY <1>0, <1>1 DEF LockCovers
<1>4. new.seen.selected = eval.selected
  OBVIOUS
<1> HIDE DEF new
<1> QED
  BY <1>0, <1>1, <1>2, <1>3, <1>4 DEF SetupInv, SetupTyped, LockCovers

LEMMA CommitKeepsSetupInv ==
  ASSUME SetupInv, NEW e \in Editors, DraftCommits(e)
  PROVE  /\ SetupInv'
         /\ editor[e].pc = "loaded" /\ editor'[e].pc = "idle"
         /\ \A m \in Models : (m \in eval.selected) # (m \in eval'.selected) =>
              editor[e].req.kind \in {"click", "list"} /\ m \in editor[e].req.named
<1> DEFINE req  == editor[e].req
           seen == editor[e].seen
           new  == Edited(req, seen)
<1>0. /\ SetupTyped /\ LockCovers /\ eval \in Columns /\ editor \in [Editors -> Editing]
      /\ editor[e].pc = "loaded" /\ req \in SetupRequests /\ seen \in Columns
      /\ seen.selected = eval.selected /\ lock = e
  BY DEF SetupInv, SetupTyped, LockCovers, DraftCommits, Editing
<1>1. /\ eval' = IF exists THEN Written(seen, new) ELSE eval
      /\ editor' = [editor EXCEPT ![e] = NoEdit]
  BY DEF DraftCommits
<1>2. NoEdit \in Editing /\ NoEdit.pc = "idle"
  <2>1. AnyColumns \in Columns
    <3>1. PICK s \in Setups : TRUE
      BY SetupAssumption
    <3>2. [selected |-> {}, setup |-> s, kept |-> FALSE, launched |-> FALSE] \in Columns
      BY DEF Columns
    <3>3. \E c \in Columns : c.selected = {} /\ ~c.kept /\ ~c.launched
      BY <3>2
    <3> QED
      BY <3>3 DEF AnyColumns
  <2> QED
    BY <2>1, KeepIsARequest DEF NoEdit, Editing
<1>3. \A d \in Editors \ {e} : editor[d].pc # "loaded"
  BY <1>0 DEF LockCovers
<1>4. new \in Columns
  BY <1>0, EditedShape
<1>5. eval' \in Columns /\ eval'.selected \in {eval.selected, new.selected}
  <2>1. Written(seen, new) \in Columns
        /\ Written(seen, new).selected \in {eval.selected, new.selected}
    <3> HIDE DEF new
    <3> QED
      BY <1>0, <1>4, WrittenShape
  <2> QED
    BY <1>0, <1>1, <2>1
<1>6. SetupInv'
  BY <1>0, <1>1, <1>2, <1>3, <1>5 DEF SetupInv, SetupTyped, LockCovers
<1>7. \A m \in Models : (m \in eval.selected) # (m \in eval'.selected) =>
        req.kind \in {"click", "list"} /\ m \in req.named
  <2> SUFFICES ASSUME NEW m \in Models, (m \in eval.selected) # (m \in eval'.selected)
               PROVE  req.kind \in {"click", "list"} /\ m \in req.named
    OBVIOUS
  <2>1. (m \in seen.selected) # (m \in new.selected)
    BY <1>0, <1>5
  <2> QED
    BY <1>0, <2>1, EditedShape
<1> QED
  BY <1>0, <1>1, <1>2, <1>6, <1>7

\* Every other step leaves the selection and the edits alone.
LEMMA OthersKeepSetupInv ==
  ASSUME SetupInv,
         \/ \E l \in Launches : LaunchReads(l) \/ LaunchFlushes(l) \/ LaunchDeclined(l)
         \/ \E r \in runs : RunEnds(r)
         \/ \E d \in Discarders : DiscardChecks(d) \/ DiscardDeletes(d)
         \/ UNCHANGED setupVars
  PROVE  SetupInv' /\ eval'.selected = eval.selected
<1>0. SetupTyped /\ LockCovers /\ eval \in Columns
  BY DEF SetupInv, SetupTyped
<1>1. UNCHANGED <<lock, editor>> /\ (UNCHANGED eval \/ eval' = [eval EXCEPT !.launched = TRUE])
  BY DEF LaunchReads, LaunchFlushes, LaunchDeclined, RunEnds, DiscardChecks, DiscardDeletes, setupVars
<1>2. eval' \in Columns /\ eval'.selected = eval.selected
  BY <1>0, <1>1, Zenon DEF Columns
<1> QED
  BY <1>0, <1>1, <1>2 DEF SetupInv, SetupTyped, LockCovers

-----------------------------------------------------------------------------
(* Feature sets, and the launches that pin them.                           *)

RowFields    == {"set", "def", "ordinal", "print"}
LaunchFields == {"pc", "set", "rows", "todo"}
EvalFields   == {"set", "launched", "rows"}

FeatureTyped ==
  /\ DOMAIN client = Clients /\ DOMAIN launch = Evaluations /\ DOMAIN evaluation = Evaluations
  /\ \A s \in Sets : frozen[s] \in BOOLEAN
  /\ \A f \in Features : DOMAIN feature[f] = RowFields
  /\ \A c \in Clients : client[c].pc = "adding" => DOMAIN client[c].row = RowFields
  /\ \A e \in Evaluations :
       /\ DOMAIN evaluation[e] = EvalFields
       /\ launch[e].pc \in {"idle", "reading"}
       /\ launch[e].pc = "reading" => DOMAIN launch[e] = LaunchFields

\* The features of a launch under way.
Taken(e) == DOMAIN launch[e].todo \cup DOMAIN launch[e].rows

\* What a launch read as frozen is frozen or gone, and its features are of
\* that set or gone: an id is given once.
LaunchesReadFrozen ==
  \A e \in Evaluations : launch[e].pc = "reading" =>
    /\ launch[e].set \in Sets => frozen[launch[e].set]
    /\ \A f \in Taken(e) \cap Features : feature[f].set = launch[e].set

\* What a launch pinned is there, in a frozen set.
PinnedIsFrozen ==
  \A e \in Evaluations : \A f \in DOMAIN evaluation[e].rows :
    f \in Features /\ feature[f].set \in Sets /\ frozen[feature[f].set]

FeatureInv == FeatureTyped /\ LaunchesReadFrozen /\ PinnedIsFrozen

\* What a request about feature sets may do to them.
SetsMove ==
  /\ \A s \in Sets' : frozen'[s] \in BOOLEAN
  /\ \A s \in Sets' \cap Sets : frozen[s] => frozen'[s]
  /\ \A s \in Sets' \ Sets : NewSet(s)
  /\ \A f \in Features' : DOMAIN feature'[f] = RowFields
  /\ \A f \in Features' \cap Features : feature'[f].set = feature[f].set
  /\ \A f \in Features' \ Features : NewFeature(f)
  /\ \A f \in Features : Pinned(f) => /\ f \in Features'
                                      /\ feature[f].set \in Sets => feature[f].set \in Sets'
  /\ UNCHANGED useVars
  /\ DOMAIN client' = Clients
  /\ \A c \in Clients : client'[c].pc = "adding" => DOMAIN client'[c].row = RowFields

LEMMA SetsMoveKeeps == FeatureInv /\ SetsMove => FeatureInv'
<1> SUFFICES ASSUME FeatureInv, SetsMove PROVE FeatureInv'
  OBVIOUS
<1>0. FeatureTyped /\ LaunchesReadFrozen /\ PinnedIsFrozen /\ launch' = launch /\ evaluation' = evaluation
  BY DEF FeatureInv, SetsMove, useVars
<1>1. FeatureTyped'
  BY <1>0 DEF FeatureTyped, SetsMove
<1>2. LaunchesReadFrozen'
  <2> SUFFICES ASSUME NEW e \in Evaluations, launch[e].pc = "reading"
               PROVE  /\ launch[e].set \in Sets' => frozen'[launch[e].set]
                      /\ \A f \in Taken(e) \cap Features' : feature'[f].set = launch[e].set
    BY <1>0 DEF LaunchesReadFrozen, Taken
  <2>1. launch[e].set \in Sets' => frozen'[launch[e].set]
    <3>1. launch[e].set \in Sets' => launch[e].set \in Sets
      BY DEF SetsMove, NewSet
    <3> QED
      BY <1>0, <3>1 DEF LaunchesReadFrozen, SetsMove
  <2>2. ASSUME NEW f \in Taken(e) \cap Features' PROVE feature'[f].set = launch[e].set
    <3>1. f \in Features
      BY <2>2 DEF SetsMove, NewFeature, Taken
    <3> QED
      BY <1>0, <2>2, <3>1 DEF LaunchesReadFrozen, SetsMove
  <2> QED
    BY <2>1, <2>2
<1>3. PinnedIsFrozen'
  <2> SUFFICES ASSUME NEW e \in Evaluations, NEW f \in DOMAIN evaluation[e].rows
               PROVE  f \in Features' /\ feature'[f].set \in Sets' /\ frozen'[feature'[f].set]
    BY <1>0 DEF PinnedIsFrozen
  <2>1. Pinned(f) /\ f \in Features /\ feature[f].set \in Sets /\ frozen[feature[f].set]
    BY <1>0 DEF Pinned, PinnedIsFrozen
  <2> QED
    BY <2>1 DEF SetsMove
<1> QED
  BY <1>1, <1>2, <1>3 DEF FeatureInv

\* Requests that only load.
LEMMA LoadsMove ==
  ASSUME FeatureInv, NEW c \in Clients,
         \/ \E s \in SetIds : \/ DeleteLoads(c, s) \/ CloneLoads(c, s)
                              \/ \E d \in Defs : AddLoads(c, s, d)
                              \/ \E against \in BOOLEAN : FreezeLoads(c, s, against)
         \/ \E f \in FeatureIds : DropLoads(c, f) \/ \E d \in Defs : EditLoads(c, f, d)
  PROVE  SetsMove
<1>0. FeatureTyped
  BY DEF FeatureInv
<1>1. ASSUME NEW request, Loads(c, request), request.pc = "adding" => DOMAIN request.row = RowFields
      PROVE  SetsMove
  <2>1. UNCHANGED <<frozen, feature, evaluation, launch>> /\ client' = [client EXCEPT ![c] = request]
    BY <1>1 DEF Loads, useVars
  <2>2. /\ DOMAIN client' = Clients
        /\ \A b \in Clients : client'[b].pc = "adding" => DOMAIN client'[b].row = RowFields
    BY <1>0, <1>1, <2>1 DEF FeatureTyped
  <2> QED
    BY <1>0, <2>1, <2>2 DEF SetsMove, FeatureTyped, useVars, Sets, Features
<1>2. ASSUME NEW s \in SetIds, NEW d \in Defs, AddLoads(c, s, d) PROVE SetsMove
  <2> DEFINE r == Row(s, d, Cardinality(Of(s)))
  <2>1. DOMAIN r = RowFields
    BY DEF Row, RowFields
  <2> HIDE DEF r
  <2>2. Loads(c, [pc |-> "adding", set |-> s, row |-> r])
    BY <1>2 DEF AddLoads, r
  <2> QED
    BY <1>1, <2>1, <2>2
<1>3. ASSUME NEW f \in FeatureIds, NEW d \in Defs, EditLoads(c, f, d) PROVE SetsMove
  BY <1>1, <1>3 DEF EditLoads
<1>4. ASSUME NEW f \in FeatureIds, DropLoads(c, f) PROVE SetsMove
  BY <1>1, <1>4 DEF DropLoads
<1>5. ASSUME NEW s \in SetIds, DeleteLoads(c, s) PROVE SetsMove
  BY <1>1, <1>5 DEF DeleteLoads
<1>6. ASSUME NEW s \in SetIds, CloneLoads(c, s) PROVE SetsMove
  <2> DEFINE copied == {<<feature[f].def, feature[f].ordinal>> : f \in Of(s)}
  <2>1. Loads(c, [pc |-> "cloning", set |-> s, rows |-> copied])
    BY <1>6 DEF CloneLoads
  <2> HIDE DEF copied
  <2> QED
    BY <1>1, <2>1
<1>7. ASSUME NEW s \in SetIds, NEW against \in BOOLEAN, FreezeLoads(c, s, against) PROVE SetsMove
  <2> DEFINE read == [f \in Of(s) |-> feature[f].def]
  <2>1. Loads(c, [pc |-> "freezing", set |-> s, seen |-> read])
    BY <1>7 DEF FreezeLoads
  <2> HIDE DEF read
  <2> QED
    BY <1>1, <2>1
<1> QED
  BY <1>2, <1>3, <1>4, <1>5, <1>6, <1>7

\* A commit leaves its client idle.
LEMMA WritesMove ==
  ASSUME FeatureInv, NEW c \in Clients, NEW sets, NEW rows, Writes(c, sets, rows)
  PROVE  /\ UNCHANGED useVars /\ DOMAIN client' = Clients
         /\ \A b \in Clients : client'[b].pc = "adding" => DOMAIN client'[b].row = RowFields
         /\ frozen' = sets /\ feature' = rows
         /\ \A s \in Sets : frozen[s] \in BOOLEAN
         /\ \A f \in Features : DOMAIN feature[f] = RowFields
BY DEF Writes, FeatureInv, FeatureTyped, Idle

\* The commits of requests about feature sets.
LEMMA AddMoves == ASSUME FeatureInv, NEW c \in Clients, AddCommits(c) PROVE SetsMove
<1>1. PICK f \in FeatureIds :
        /\ NewFeature(f)
        /\ Writes(c, frozen, [g \in Features \cup {f} |-> IF g = f THEN client[c].row ELSE feature[g]])
  BY DEF AddCommits
<1>2. DOMAIN client[c].row = RowFields /\ client[c].pc = "adding"
  BY DEF AddCommits, Doing, FeatureInv, FeatureTyped
<1> DEFINE rows == [g \in Features \cup {f} |-> IF g = f THEN client[c].row ELSE feature[g]]
<1>3. Writes(c, frozen, rows)
  BY <1>1
<1>4. /\ UNCHANGED useVars /\ DOMAIN client' = Clients
      /\ \A b \in Clients : client'[b].pc = "adding" => DOMAIN client'[b].row = RowFields
      /\ frozen' = frozen /\ feature' = rows
      /\ \A s \in Sets : frozen[s] \in BOOLEAN
      /\ \A g \in Features : DOMAIN feature[g] = RowFields
  <2> HIDE DEF rows
  <2> QED
    BY <1>3, WritesMove
<1>5. Features' = Features \cup {f} /\ Sets' = Sets
  BY <1>4 DEF Features, Sets
<1>6. f \notin Features /\ NewFeature(f)
  BY <1>1 DEF NewFeature
<1> QED
  BY <1>2, <1>4, <1>5, <1>6 DEF SetsMove

LEMMA EditMoves == ASSUME FeatureInv, NEW c \in Clients, EditCommits(c) PROVE SetsMove
<1> DEFINE t == client[c].target
           rows == [feature EXCEPT ![t].def = client[c].def]
<1>1. Writes(c, frozen, rows)
  BY DEF EditCommits
<1>2. /\ UNCHANGED useVars /\ DOMAIN client' = Clients
      /\ \A b \in Clients : client'[b].pc = "adding" => DOMAIN client'[b].row = RowFields
      /\ frozen' = frozen /\ feature' = rows
      /\ \A s \in Sets : frozen[s] \in BOOLEAN
      /\ \A g \in Features : DOMAIN feature[g] = RowFields
  <2> HIDE DEF rows
  <2> QED
    BY <1>1, WritesMove
<1>3. Features' = Features /\ Sets' = Sets
  BY <1>2 DEF Features, Sets
<1>4. \A g \in Features : DOMAIN feature'[g] = RowFields /\ feature'[g].set = feature[g].set
  BY <1>2 DEF Features, RowFields
<1> QED
  BY <1>2, <1>3, <1>4 DEF SetsMove

LEMMA DropMoves == ASSUME FeatureInv, NEW c \in Clients, DropCommits(c) PROVE SetsMove
<1> DEFINE t    == client[c].target
           kept == Restrict(feature, Features \ {t})
           rows == Renumbered(kept, client[c].set)
<1>1. Writes(c, frozen, rows) /\ ~Pinned(t)
  BY DEF DropCommits
<1>2. /\ UNCHANGED useVars /\ DOMAIN client' = Clients
      /\ \A b \in Clients : client'[b].pc = "adding" => DOMAIN client'[b].row = RowFields
      /\ frozen' = frozen /\ feature' = rows
      /\ \A s \in Sets : frozen[s] \in BOOLEAN
      /\ \A g \in Features : DOMAIN feature[g] = RowFields
  <2> HIDE DEF rows
  <2> QED
    BY <1>1, WritesMove
<1>3. DOMAIN kept = Features \ {t} /\ \A g \in Features \ {t} : kept[g] = feature[g]
  BY DEF Restrict
<1>4. /\ DOMAIN rows = DOMAIN kept
      /\ \A g \in DOMAIN kept : \/ rows[g] = kept[g]
                                \/ \E n : rows[g] = [kept[g] EXCEPT !.ordinal = n]
  <2> HIDE DEF kept
  <2> QED
    BY DEF Renumbered
<1> HIDE DEF t, kept, rows
<1>5. Features' = Features \ {t} /\ Sets' = Sets
  BY <1>2, <1>3, <1>4 DEF Features, Sets
<1>6. \A g \in Features \ {t} : DOMAIN feature'[g] = RowFields /\ feature'[g].set = feature[g].set
  <2> SUFFICES ASSUME NEW g \in Features \ {t}
               PROVE  DOMAIN rows[g] = RowFields /\ rows[g].set = feature[g].set
    BY <1>2
  <2>1. DOMAIN feature[g] = RowFields /\ kept[g] = feature[g]
    BY <1>2, <1>3
  <2>2. CASE rows[g] = kept[g]
    BY <2>1, <2>2
  <2>3. ASSUME NEW n, rows[g] = [kept[g] EXCEPT !.ordinal = n]
        PROVE  DOMAIN rows[g] = RowFields /\ rows[g].set = feature[g].set
    BY <2>1, <2>3 DEF RowFields
  <2> QED
    BY <1>3, <1>4, <2>2, <2>3
<1> QED
  BY <1>1, <1>2, <1>5, <1>6 DEF SetsMove

LEMMA SetDeleteMoves == ASSUME FeatureInv, NEW c \in Clients, SetDeleteCommits(c) PROVE SetsMove
<1> DEFINE s    == client[c].set
           sets == Restrict(frozen, Sets \ {s})
           rows == Without(s)
<1>1. Writes(c, sets, rows) /\ \A f \in Of(s) : ~Pinned(f)
  BY DEF SetDeleteCommits
<1>2. /\ UNCHANGED useVars /\ DOMAIN client' = Clients
      /\ \A b \in Clients : client'[b].pc = "adding" => DOMAIN client'[b].row = RowFields
      /\ frozen' = sets /\ feature' = rows
      /\ \A x \in Sets : frozen[x] \in BOOLEAN
      /\ \A g \in Features : DOMAIN feature[g] = RowFields
  <2> HIDE DEF rows, sets
  <2> QED
    BY <1>1, WritesMove
<1>3. Sets' = Sets \ {s} /\ \A x \in Sets \ {s} : frozen'[x] = frozen[x]
  BY <1>2 DEF Sets, Restrict
<1>4. Features' = Features \ Of(s) /\ \A g \in Features \ Of(s) : feature'[g] = feature[g]
  BY <1>2 DEF Features, Restrict, Without
<1>5. \A f \in Features : Pinned(f) => f \notin Of(s) /\ feature[f].set # s
  BY <1>1 DEF Of
<1> HIDE DEF s
<1> QED
  BY <1>2, <1>3, <1>4, <1>5 DEF SetsMove

LEMMA FreezeMoves == ASSUME FeatureInv, NEW c \in Clients, FreezeCommits(c) PROVE SetsMove
<1> DEFINE seen == client[c].seen
           sets == [frozen EXCEPT ![client[c].set] = TRUE]
           rows == [f \in Features |-> IF f \in DOMAIN seen THEN [feature[f] EXCEPT !.print = seen[f]]
                                       ELSE feature[f]]
<1>1. Writes(c, sets, rows)
  BY DEF FreezeCommits
<1>2. /\ UNCHANGED useVars /\ DOMAIN client' = Clients
      /\ \A b \in Clients : client'[b].pc = "adding" => DOMAIN client'[b].row = RowFields
      /\ frozen' = sets /\ feature' = rows
      /\ \A x \in Sets : frozen[x] \in BOOLEAN
      /\ \A g \in Features : DOMAIN feature[g] = RowFields
  <2> HIDE DEF rows, sets
  <2> QED
    BY <1>1, WritesMove
<1>3. Sets' = Sets /\ \A x \in Sets : frozen'[x] = TRUE \/ frozen'[x] = frozen[x]
  BY <1>2 DEF Sets
<1>4. Features' = Features
  BY <1>2 DEF Features
<1>5. \A g \in Features : DOMAIN feature'[g] = RowFields /\ feature'[g].set = feature[g].set
  BY <1>2 DEF RowFields
<1> QED
  BY <1>2, <1>3, <1>4, <1>5 DEF SetsMove

\* A new draft beside the sets there are.
Drafted(s) == [t \in Sets \cup {s} |-> t \in Sets /\ frozen[t]]

LEMMA DraftMoves ==
  ASSUME FeatureInv, NEW s, NewSet(s), frozen' = Drafted(s)
  PROVE  /\ Sets' = Sets \cup {s}
         /\ \A x \in Sets' : frozen'[x] \in BOOLEAN
         /\ \A x \in Sets' \cap Sets : frozen[x] => frozen'[x]
         /\ \A x \in Sets' \ Sets : NewSet(x)
<1>1. \A x \in Sets : frozen[x] \in BOOLEAN
  BY DEF FeatureInv, FeatureTyped
<1>2. Sets' = Sets \cup {s}
  BY DEF Drafted, Sets
<1>3. \A x \in Sets \cup {s} : frozen'[x] = (x \in Sets /\ frozen[x])
  BY Zenon DEF Drafted
<1>4. \A x \in Sets \cup {s} : (x \in Sets /\ frozen[x]) \in BOOLEAN
  OBVIOUS
<1>5. \A x \in Sets : (x \in Sets /\ frozen[x]) = frozen[x]
  BY <1>1
<1> QED
  BY <1>1, <1>2, <1>3, <1>4, <1>5

LEMMA CreateMoves == ASSUME FeatureInv, NEW s \in SetIds, CreateDraft(s) PROVE SetsMove
<1>1. NewSet(s) /\ frozen' = Drafted(s) /\ UNCHANGED <<feature, client, useVars>>
  BY DEF CreateDraft, Drafted
<1>2. FeatureTyped
  BY DEF FeatureInv
<1> QED
  BY <1>1, <1>2, DraftMoves DEF SetsMove, FeatureTyped, Features

LEMMA CloneMakes == ASSUME FeatureInv, NEW c \in Clients, CloneCommits(c) PROVE SetsMove
<1>1. PICK s \in SetIds, new \in SUBSET {f \in FeatureIds : NewFeature(f)} :
        /\ NewSet(s)
        /\ \E copy \in Bijection(new, client[c].rows) :
             Writes(c, Drafted(s), [f \in Features \cup new |->
                         IF f \in new THEN Row(s, copy[f][1], copy[f][2]) ELSE feature[f]])
  BY DEF CloneCommits, Drafted
<1>2. PICK copy \in Bijection(new, client[c].rows) :
        Writes(c, Drafted(s), [f \in Features \cup new |->
                    IF f \in new THEN Row(s, copy[f][1], copy[f][2]) ELSE feature[f]])
  BY <1>1
<1> DEFINE rows == [f \in Features \cup new |->
                      IF f \in new THEN Row(s, copy[f][1], copy[f][2]) ELSE feature[f]]
<1>3. Writes(c, Drafted(s), rows)
  BY <1>2
<1>4. /\ UNCHANGED useVars /\ DOMAIN client' = Clients
      /\ \A b \in Clients : client'[b].pc = "adding" => DOMAIN client'[b].row = RowFields
      /\ frozen' = Drafted(s) /\ feature' = rows
      /\ \A g \in Features : DOMAIN feature[g] = RowFields
  <2> HIDE DEF rows
  <2> QED
    BY <1>3, WritesMove
<1>5. Features' = Features \cup new
  BY <1>4 DEF Features
<1>6. \A f \in new : f \notin Features /\ NewFeature(f)
  BY DEF NewFeature
<1>7. \A d, n : DOMAIN Row(s, d, n) = RowFields
  BY DEF Row, RowFields
<1>8. \A f \in Features \cup new : /\ DOMAIN feature'[f] = RowFields
                                   /\ f \in Features => feature'[f] = feature[f]
  BY <1>4, <1>6, <1>7
<1> HIDE DEF rows
<1>9. /\ Sets' = Sets \cup {s}
      /\ \A x \in Sets' : frozen'[x] \in BOOLEAN
      /\ \A x \in Sets' \cap Sets : frozen[x] => frozen'[x]
      /\ \A x \in Sets' \ Sets : NewSet(x)
  BY <1>1, <1>4, DraftMoves
<1> QED
  BY <1>4, <1>5, <1>6, <1>8, <1>9 DEF SetsMove

LEMMA RefusedMoves == ASSUME FeatureInv, NEW c \in Clients, RequestRefused(c) PROVE SetsMove
<1>1. Writes(c, frozen, feature)
  BY DEF RequestRefused
<1> QED
  BY <1>1, WritesMove DEF SetsMove, Sets, Features

\* A launch under way: it starts from a frozen set, and only loses and keeps
\* what it took.
LEMMA LaunchKeeps ==
  ASSUME FeatureInv, NEW e \in Evaluations, NEW new, Launching(e, new),
         new.pc \in {"idle", "reading"},
         new.pc = "reading" =>
           /\ DOMAIN new = LaunchFields
           /\ new.set \in Sets => frozen[new.set]
           /\ \A f \in (DOMAIN new.todo \cup DOMAIN new.rows) \cap Features :
                feature[f].set = new.set
  PROVE  FeatureInv'
<1>0. FeatureTyped /\ LaunchesReadFrozen /\ PinnedIsFrozen
  BY DEF FeatureInv
<1>1. /\ UNCHANGED <<evaluation, frozen, feature, client>>
      /\ launch' = [launch EXCEPT ![e] = new]
  BY DEF Launching, setVars, mapVars
<1>2. /\ DOMAIN launch' = Evaluations /\ launch'[e] = new
      /\ \A d \in Evaluations \ {e} : launch'[d] = launch[d]
  BY <1>0, <1>1 DEF FeatureTyped
<1>3. Sets' = Sets /\ Features' = Features
  BY <1>1 DEF Sets, Features
<1>4. FeatureTyped'
  BY <1>0, <1>1, <1>2, <1>3 DEF FeatureTyped
<1>5. LaunchesReadFrozen'
  <2> SUFFICES ASSUME NEW d \in Evaluations, launch'[d].pc = "reading"
               PROVE  /\ launch'[d].set \in Sets => frozen[launch'[d].set]
                      /\ \A f \in Taken(d)' \cap Features : feature[f].set = launch'[d].set
    BY <1>1, <1>3 DEF LaunchesReadFrozen
  <2>1. CASE d = e
    BY <1>2, <2>1 DEF Taken
  <2>2. CASE d # e
    <3>1. launch'[d] = launch[d]
      BY <1>2, <2>2
    <3> QED
      BY <1>0, <3>1 DEF LaunchesReadFrozen, Taken
  <2> QED
    BY <2>1, <2>2
<1>6. PinnedIsFrozen'
  BY <1>0, <1>1, <1>3 DEF PinnedIsFrozen
<1> QED
  BY <1>4, <1>5, <1>6 DEF FeatureInv

LEMMA LaunchStepKeeps ==
  ASSUME FeatureInv, NEW e \in Evaluations,
         LaunchLoads(e) \/ LaunchSnapshots(e) \/ LaunchRefused(e)
  PROVE  FeatureInv'
<1>0. FeatureTyped /\ LaunchesReadFrozen
  BY DEF FeatureInv
<1>1. CASE LaunchLoads(e)
  <2> DEFINE new == Begun(e)
             s   == evaluation[e].set
  <2>1. Launching(e, new) /\ s \in Sets /\ frozen[s]
    BY <1>1 DEF LaunchLoads
  <2>2. /\ new.pc = "reading" /\ new.set = s /\ DOMAIN new = LaunchFields
        /\ DOMAIN new.todo = Of(s) /\ DOMAIN new.rows = {}
    BY DEF Begun, LaunchFields, NoSnapshot
  <2>3. \A f \in Of(s) : feature[f].set = s
    BY DEF Of
  <2> HIDE DEF new, s
  <2> QED
    BY <2>1, <2>2, <2>3, LaunchKeeps
<1>2. CASE LaunchSnapshots(e)
  <2> DEFINE l == launch[e]
  <2>1. PICK f \in DOMAIN l.todo :
          Launching(e, [l EXCEPT
            !.todo = Restrict(l.todo, DOMAIN l.todo \ {f}),
            !.rows = [g \in DOMAIN l.rows \cup {f} |->
                        IF g = f THEN [def |-> l.todo[f].def,
                                       codes |-> IF l.todo[f].def \in Enums
                                                 THEN mapping[l.todo[f].def] ELSE Nothing]
                        ELSE l.rows[g]]])
    BY <1>2 DEF LaunchSnapshots
  <2> DEFINE todo == Restrict(l.todo, DOMAIN l.todo \ {f})
             rows == [g \in DOMAIN l.rows \cup {f} |->
                        IF g = f THEN [def |-> l.todo[f].def,
                                       codes |-> IF l.todo[f].def \in Enums
                                                 THEN mapping[l.todo[f].def] ELSE Nothing]
                        ELSE l.rows[g]]
             new  == [l EXCEPT !.todo = todo, !.rows = rows]
  <2>2. DOMAIN todo \subseteq DOMAIN l.todo /\ DOMAIN rows = DOMAIN l.rows \cup {f}
    BY Zenon DEF Restrict
  <2>3. l.pc = "reading" /\ DOMAIN l = LaunchFields
    BY <1>0, <1>2 DEF LaunchSnapshots, FeatureTyped
  <2>4. Launching(e, new)
    BY <2>1
  <2> HIDE DEF todo, rows
  <2>5. /\ new.pc = "reading" /\ new.set = l.set /\ DOMAIN new = LaunchFields
        /\ new.todo = todo /\ new.rows = rows
    <3> HIDE DEF l
    <3> QED
      BY <2>3 DEF LaunchFields
  <2> HIDE DEF new
  <2>6. DOMAIN new.todo \cup DOMAIN new.rows \subseteq Taken(e)
    BY <2>2, <2>5 DEF Taken
  <2>7. /\ new.set \in Sets => frozen[new.set]
        /\ \A g \in (DOMAIN new.todo \cup DOMAIN new.rows) \cap Features :
             feature[g].set = new.set
    BY <1>0, <2>3, <2>5, <2>6 DEF LaunchesReadFrozen
  <2> QED
    BY <2>4, <2>5, <2>7, LaunchKeeps, Zenon
<1>3. CASE LaunchRefused(e)
  <2>1. Launching(e, Idle) /\ Idle.pc = "idle"
    BY <1>3 DEF LaunchRefused, Idle
  <2> QED
    BY <2>1, LaunchKeeps
<1> QED
  BY <1>1, <1>2, <1>3

\* The launch transaction: what it pins is there, of the set it read.
LEMMA LaunchCommitKeeps ==
  ASSUME FeatureInv, NEW e \in Evaluations, LaunchCommits(e)
  PROVE  FeatureInv'
<1>0. FeatureTyped /\ LaunchesReadFrozen /\ PinnedIsFrozen
  BY DEF FeatureInv
<1> DEFINE l == launch[e]
<1>1. /\ UNCHANGED <<frozen, feature, client>>
      /\ launch' = [launch EXCEPT ![e] = Idle]
      /\ evaluation' = [evaluation EXCEPT ![e] = [evaluation[e] EXCEPT !.launched = TRUE, !.rows = l.rows]]
      /\ l.pc = "reading" /\ l.set \in Sets /\ DOMAIN l.rows \subseteq Features
  BY DEF LaunchCommits, setVars, mapVars
<1>2. Sets' = Sets /\ Features' = Features
  BY <1>1 DEF Sets, Features
<1>3. /\ DOMAIN launch' = Evaluations /\ launch'[e].pc = "idle"
      /\ \A d \in Evaluations \ {e} : launch'[d] = launch[d]
  BY <1>0, <1>1 DEF FeatureTyped, Idle
<1>4. /\ DOMAIN evaluation' = Evaluations
      /\ DOMAIN evaluation'[e] = EvalFields /\ evaluation'[e].rows = l.rows
      /\ \A d \in Evaluations \ {e} : evaluation'[d] = evaluation[d]
  <2> HIDE DEF l
  <2> QED
    BY <1>0, <1>1 DEF FeatureTyped, EvalFields
<1>5. FeatureTyped'
  BY <1>0, <1>1, <1>2, <1>3, <1>4 DEF FeatureTyped
<1>6. LaunchesReadFrozen'
  BY <1>0, <1>1, <1>2, <1>3 DEF LaunchesReadFrozen, Taken
<1>7. \A f \in DOMAIN l.rows : f \in Features /\ feature[f].set = l.set /\ frozen[l.set]
  BY <1>0, <1>1 DEF LaunchesReadFrozen, Taken
<1>8. PinnedIsFrozen'
  <2> SUFFICES ASSUME NEW d \in Evaluations, NEW f \in DOMAIN evaluation'[d].rows
               PROVE  f \in Features /\ feature[f].set \in Sets /\ frozen[feature[f].set]
    BY <1>1, <1>2 DEF PinnedIsFrozen
  <2>1. CASE d = e
    BY <1>1, <1>4, <1>7, <2>1
  <2>2. CASE d # e
    BY <1>0, <1>4, <2>2 DEF PinnedIsFrozen
  <2> QED
    BY <2>1, <2>2
<1> QED
  BY <1>5, <1>6, <1>8 DEF FeatureInv

LEMMA CiteKeeps ==
  ASSUME FeatureInv, NEW e \in Evaluations, NEW s, DraftCites(e, s)
  PROVE  FeatureInv'
<1>0. FeatureTyped /\ LaunchesReadFrozen /\ PinnedIsFrozen
  BY DEF FeatureInv
<1>1. /\ UNCHANGED <<frozen, feature, client, launch>>
      /\ evaluation' = [evaluation EXCEPT ![e].set = s]
  BY DEF DraftCites, setVars, mapVars
<1>2. Sets' = Sets /\ Features' = Features
  BY <1>1 DEF Sets, Features
<1>3. /\ DOMAIN evaluation' = Evaluations
      /\ \A d \in Evaluations : /\ DOMAIN evaluation'[d] = EvalFields
                                /\ evaluation'[d].rows = evaluation[d].rows
  BY <1>0, <1>1 DEF FeatureTyped, EvalFields
<1>4. FeatureTyped'
  BY <1>0, <1>1, <1>2, <1>3 DEF FeatureTyped
<1>5. LaunchesReadFrozen'
  BY <1>0, <1>1, <1>2 DEF LaunchesReadFrozen, Taken
<1>6. PinnedIsFrozen'
  BY <1>0, <1>1, <1>2, <1>3 DEF PinnedIsFrozen
<1> QED
  BY <1>4, <1>5, <1>6 DEF FeatureInv

LEMMA FeatureInvNext == FeatureInv /\ [FeatureNext]_featureVars => FeatureInv'
<1> SUFFICES ASSUME FeatureInv, [FeatureNext]_featureVars PROVE FeatureInv'
  OBVIOUS
<1>1. CASE UNCHANGED <<frozen, feature, client, evaluation, launch>>
  BY <1>1 DEF FeatureInv, FeatureTyped, LaunchesReadFrozen, PinnedIsFrozen, Taken, Sets, Features
<1>2. CASE \E s \in SetIds : CreateDraft(s)
  BY <1>2, CreateMoves, SetsMoveKeeps
<1>3. ASSUME NEW c \in Clients,
             \/ AddCommits(c) \/ EditCommits(c) \/ DropCommits(c) \/ SetDeleteCommits(c)
             \/ FreezeCommits(c) \/ CloneCommits(c) \/ RequestRefused(c)
      PROVE  FeatureInv'
  BY <1>3, AddMoves, EditMoves, DropMoves, SetDeleteMoves, FreezeMoves, CloneMakes, RefusedMoves,
     SetsMoveKeeps
<1>4. ASSUME NEW c \in Clients,
             \/ \E s \in SetIds : \/ DeleteLoads(c, s) \/ CloneLoads(c, s)
                                  \/ \E d \in Defs : AddLoads(c, s, d)
                                  \/ \E against \in BOOLEAN : FreezeLoads(c, s, against)
             \/ \E f \in FeatureIds : DropLoads(c, f) \/ \E d \in Defs : EditLoads(c, f, d)
      PROVE  FeatureInv'
  BY <1>4, LoadsMove, SetsMoveKeeps
<1>5. ImportFile => UNCHANGED <<frozen, feature, client, evaluation, launch>>
  BY DEF ImportFile, setVars, useVars
<1>6. ASSUME NEW ds, NEW g, MapColumns(ds, g)
      PROVE  UNCHANGED <<frozen, feature, client, evaluation, launch>>
  BY <1>6 DEF MapColumns, Maps, setVars, useVars
<1>7. ASSUME NEW d, UnmapColumn(d) PROVE UNCHANGED <<frozen, feature, client, evaluation, launch>>
  BY <1>7 DEF UnmapColumn, Maps, setVars, useVars
<1>8. ASSUME NEW e \in Evaluations,
             \/ LaunchLoads(e) \/ LaunchSnapshots(e) \/ LaunchCommits(e) \/ LaunchRefused(e)
             \/ \E s \in SetIds : DraftCites(e, s)
      PROVE  FeatureInv'
  BY <1>8, LaunchStepKeeps, LaunchCommitKeeps, CiteKeeps
<1>9. CASE UNCHANGED featureVars
  BY <1>1, <1>9 DEF featureVars
<1> QED
  BY <1>1, <1>2, <1>3, <1>4, <1>5, <1>6, <1>7, <1>8, <1>9 DEF FeatureNext

-----------------------------------------------------------------------------
(* The theorems.                                                           *)

LEMMA LibraryInitHolds == LibraryInit => ScrubInv /\ SetupInv /\ FeatureInv
<1> SUFFICES ASSUME LibraryInit PROVE ScrubInv /\ SetupInv /\ FeatureInv
  OBVIOUS
<1>1. ScrubInv
  <2>1. rulesets = <<>> /\ DOMAIN rulesets = {} /\ rulesets \in Seq(Composition)
    BY DEF LibraryInit, ScrubInit
  <2>2. /\ importer \in [Importers -> {NoImport}]
        /\ freezer \in [Freezers -> {NoImport}]
    BY DEF LibraryInit, ScrubInit
  <2> QED
    BY <2>1, <2>2 DEF ScrubInv, ScrubTyped, CorpusKnowsItsRules, EveryVersionWasChecked
<1>2. SetupInv
  <2>1. AnyColumns \in Columns
    <3>1. PICK s \in Setups : TRUE
      BY SetupAssumption
    <3>2. [selected |-> {}, setup |-> s, kept |-> FALSE, launched |-> FALSE] \in Columns
      BY DEF Columns
    <3>3. \E c \in Columns : c.selected = {} /\ ~c.kept /\ ~c.launched
      BY <3>2
    <3> QED
      BY <3>3 DEF AnyColumns
  <2>2. eval = AnyColumns /\ editor = [e \in Editors |-> NoEdit]
    BY DEF LibraryInit, SetupInit
  <2>3. NoEdit \in Editing /\ NoEdit.pc = "idle"
    BY <2>1, KeepIsARequest DEF NoEdit, Editing
  <2> QED
    BY <2>1, <2>2, <2>3 DEF SetupInv, SetupTyped, LockCovers
<1>3. FeatureInv
  <2>1. /\ Sets = {} /\ Features = {}
        /\ client = [c \in Clients |-> Idle]
        /\ evaluation = [e \in Evaluations |-> Unlaunched]
        /\ launch = [e \in Evaluations |-> Idle]
    BY DEF LibraryInit, FeatureInit, Sets, Features, NoSnapshot
  <2>2. /\ Idle.pc = "idle" /\ DOMAIN Unlaunched = EvalFields /\ DOMAIN Unlaunched.rows = {}
    BY DEF Idle, Unlaunched, EvalFields, NoSnapshot
  <2> QED
    BY <2>1, <2>2 DEF FeatureInv, FeatureTyped, LaunchesReadFrozen, PinnedIsFrozen
<1> QED
  BY <1>1, <1>2, <1>3

\* A step of the library is a step of one part, and the others rest.
LEMMA OnePartMoves ==
  [LibraryNext]_libraryVars =>
    [ScrubNext]_scrubVars /\ [FeatureNext]_featureVars /\ [SetupNext]_setupVars
BY DEF LibraryNext, libraryVars

LEMMA SetupInvNext ==
  SetupInv /\ [SetupNext]_setupVars =>
    /\ SetupInv'
    /\ \A m \in Models : (m \in eval.selected) # (m \in eval'.selected) =>
         \E e \in Editors :
           /\ editor[e].pc = "loaded" /\ editor'[e].pc = "idle"
           /\ editor[e].req.kind \in {"click", "list"} /\ m \in editor[e].req.named
<1> SUFFICES ASSUME SetupInv, [SetupNext]_setupVars
             PROVE  /\ SetupInv'
                    /\ \A m \in Models : (m \in eval.selected) # (m \in eval'.selected) =>
                         \E e \in Editors :
                           /\ editor[e].pc = "loaded" /\ editor'[e].pc = "idle"
                           /\ editor[e].req.kind \in {"click", "list"}
                           /\ m \in editor[e].req.named
  OBVIOUS
<1>1. CASE \E e \in Editors : DraftCommits(e)
  BY <1>1, CommitKeepsSetupInv
<1>2. CASE \E e \in Editors, req \in SetupRequests : DraftLoads(e, req)
  BY <1>2, LoadKeepsSetupInv DEF DraftLoads
<1>3. CASE \/ \E l \in Launches : LaunchReads(l) \/ LaunchFlushes(l) \/ LaunchDeclined(l)
           \/ \E r \in runs : RunEnds(r)
           \/ \E d \in Discarders : DiscardChecks(d) \/ DiscardDeletes(d)
           \/ UNCHANGED setupVars
  BY <1>3, OthersKeepSetupInv
<1> QED
  BY <1>1, <1>2, <1>3 DEF SetupNext

LEMMA ScrubHolds == LibrarySpec => []ScrubInv
<1>1. LibraryInit => ScrubInv
  BY LibraryInitHolds
<1>2. ScrubInv /\ [LibraryNext]_libraryVars => ScrubInv'
  BY OnePartMoves, ScrubInvNext
<1> QED
  BY <1>1, <1>2, PTL DEF LibrarySpec

\* Every version of the rules passed the check as a whole, however many imports
\* and removals were under way.
THEOREM VersionsAreChecked == LibrarySpec => []EveryVersionWasChecked
<1>1. ScrubInv => EveryVersionWasChecked
  BY DEF ScrubInv
<1> QED
  BY <1>1, ScrubHolds, PTL

\* A corpus was scrubbed by the version it cites, whatever became active
\* between the loading of the rules and the writing of the corpus.
THEOREM CorporaCiteTheirRules == LibrarySpec => []CorpusCitesItsRules
<1>1. ScrubInv => CorpusCitesItsRules
  BY DEF ScrubInv, CorpusKnowsItsRules, CorpusCitesItsRules, NoImport
<1> QED
  BY <1>1, ScrubHolds, PTL

\* What an evaluation was launched with is there and belongs to a frozen set,
\* whatever other requests saw the set as a draft or the evaluation cites by
\* then.
THEOREM LaunchesAreFrozen == LibrarySpec => []LaunchedFromFrozen
<1>1. LibraryInit => FeatureInv
  BY LibraryInitHolds
<1>2. FeatureInv /\ [LibraryNext]_libraryVars => FeatureInv'
  BY OnePartMoves, FeatureInvNext
<1>3. FeatureInv => LaunchedFromFrozen
  BY DEF FeatureInv, PinnedIsFrozen, LaunchedFromFrozen
<1> QED
  BY <1>1, <1>2, <1>3, PTL DEF LibrarySpec

\* A model's tick changes only in a commit that names the model, for any number
\* of edits, launches and discards under way.
THEOREM ClicksAreKept == LibrarySpec => NoClickLost
<1> DEFINE Kept == \A m \in Models : (m \in eval.selected) # (m \in eval'.selected) =>
                     \E e \in Editors :
                       /\ editor[e].pc = "loaded" /\ editor'[e].pc = "idle"
                       /\ editor[e].req.kind \in {"click", "list"} /\ m \in editor[e].req.named
<1>1. LibraryInit => SetupInv
  BY LibraryInitHolds
<1>2. SetupInv /\ [LibraryNext]_libraryVars => SetupInv' /\ [Kept]_setupVars
  BY OnePartMoves, SetupInvNext
<1> QED
  BY <1>1, <1>2, PTL DEF LibrarySpec, NoClickLost
=============================================================================
