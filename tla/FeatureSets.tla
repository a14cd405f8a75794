------------------------------ MODULE FeatureSets ------------------------------
(***************************************************************************)
(* Feature sets from draft to frozen (ra2/services/feature_service.py),    *)
(* the column mappings their enum features are read through                *)
(* (ra2/services/codelist_service.py), and the snapshot a launch takes of  *)
(* both (EvaluationService.launch, _snapshots).                            *)
(*                                                                         *)
(* A request reads in one step and commits in a later one: SQLite's driver *)
(* opens no transaction before the first write.  An UPDATE of a row that   *)
(* has gone, and a foreign key, refuse the commit.                         *)
(***************************************************************************)
EXTENDS Naturals, FiniteSets, Functions

CONSTANTS
  SetIds,       \* names for feature_config rows
  FeatureIds,   \* names for feature rows
  Defs,         \* what a feature's fingerprint is computed from
  Enums,        \* definitions that need the codes of their column
  Faulty,       \* definitions with a blocking error
  Nothing,      \* a NULL: no fingerprint, no mapping, no codes, no set
  MaxImports,   \* generations of the code table, at most
  Clients,      \* feature-set requests under way at once
  Evaluations,  \* evaluations, each with one launch under way at most
  MaxRequests   \* feature-set requests made, at most

ASSUME FeatureAssumption ==
  /\ Enums \subseteq Defs /\ Faulty \subseteq Defs
  /\ MaxImports \in Nat /\ MaxRequests \in Nat

VARIABLES
  frozen,      \* feature_config: id -> frozen_at is set
  feature,     \* feature: id -> row
  imports,     \* generations imported
  mapping,     \* column_mapping, by the definition that names the column
  client,      \* feature-set requests under way
  requests,    \* feature-set requests made
  evaluation,  \* the set each evaluation cites, and its evaluation_feature rows
  launch       \* launches under way

featureVars    == <<frozen, feature, imports, mapping, client, requests, evaluation, launch>>
setVars == <<frozen, feature, client, requests>>
mapVars == <<imports, mapping>>
useVars == <<evaluation, launch>>

Sets       == DOMAIN frozen
Features   == DOMAIN feature
Of(s)      == {f \in Features : feature[f].set = s}
Idle       == [pc |-> "idle"]
NoSnapshot == [f \in {} |-> Nothing]
Unlaunched == [set |-> Nothing, launched |-> FALSE, rows |-> NoSnapshot]

FeatureInit ==
  /\ frozen = [s \in {} |-> FALSE]
  /\ feature = NoSnapshot
  /\ imports = 0
  /\ mapping = [d \in Enums |-> Nothing]
  /\ client = [c \in Clients |-> Idle]
  /\ requests = 0
  /\ evaluation = [e \in Evaluations |-> Unlaunched]
  /\ launch = [e \in Evaluations |-> Idle]

\* What the RESTRICT keys of the evaluation and of its rows protect.
Cited(s)  == \E e \in Evaluations : evaluation[e].set = s
Pinned(f) == \E e \in Evaluations : f \in DOMAIN evaluation[e].rows

-----------------------------------------------------------------------------
(* Feature-set requests: what they load, and what they write.              *)

Loads(c, request) ==
  /\ client[c].pc = "idle" /\ requests < MaxRequests
  /\ requests' = requests + 1
  /\ client' = [client EXCEPT ![c] = request]
  /\ UNCHANGED <<frozen, feature, mapVars, useVars>>

Writes(c, sets, rows) ==
  /\ frozen' = sets
  /\ feature' = rows
  /\ client' = [client EXCEPT ![c] = Idle]
  /\ UNCHANGED <<requests, mapVars, useVars>>

Doing(c, pc) == client[c].pc = pc

\* Names nobody holds: an id is given once.
NewSet(s) == /\ s \notin Sets /\ ~Cited(s)
             /\ \A e \in Evaluations : launch[e].pc = "reading" => launch[e].set # s
             /\ \A c \in Clients : client[c].pc # "idle" => client[c].set # s
NewFeature(f) ==
  /\ f \notin Features
  /\ \A c \in Clients : /\ client[c].pc \in {"editing", "dropping"} => client[c].target # f
                        /\ Doing(c, "freezing") => f \notin DOMAIN client[c].seen
  /\ \A e \in Evaluations : launch[e].pc = "reading" =>
       f \notin DOMAIN launch[e].todo \cup DOMAIN launch[e].rows

\* _editable: the set exists and is a draft.
Editable(s) == s \in Sets /\ ~frozen[s]

CreateDraft(s) ==
  /\ NewSet(s) /\ requests < MaxRequests
  /\ requests' = requests + 1
  /\ frozen' = [t \in Sets \cup {s} |-> t \in Sets /\ frozen[t]]
  /\ UNCHANGED <<feature, client, mapVars, useVars>>

Row(s, d, n) == [set |-> s, def |-> d, ordinal |-> n, print |-> Nothing]

AddLoads(c, s, d) ==
  Editable(s) /\ Loads(c, [pc |-> "adding", set |-> s, row |-> Row(s, d, Cardinality(Of(s)))])

AddCommits(c) ==
  /\ Doing(c, "adding") /\ client[c].set \in Sets
  /\ \E f \in FeatureIds :
       /\ NewFeature(f)
       /\ Writes(c, frozen, [g \in Features \cup {f} |-> IF g = f THEN client[c].row ELSE feature[g]])

EditLoads(c, f, d) ==
  /\ f \in Features /\ Editable(feature[f].set) /\ feature[f].def # d
  /\ Loads(c, [pc |-> "editing", set |-> feature[f].set, target |-> f, def |-> d])

EditCommits(c) ==
  /\ Doing(c, "editing") /\ client[c].target \in Features
  /\ Writes(c, frozen, [feature EXCEPT ![client[c].target].def = client[c].def])

\* delete_feature: the rest of the set is numbered again.
Renumbered(rows, s) ==
  [f \in DOMAIN rows |->
     IF rows[f].set # s THEN rows[f]
     ELSE [rows[f] EXCEPT !.ordinal =
             Cardinality({g \in DOMAIN rows : rows[g].set = s /\ rows[g].ordinal < rows[f].ordinal})]]

DropLoads(c, f) ==
  /\ f \in Features /\ Editable(feature[f].set)
  /\ Loads(c, [pc |-> "dropping", set |-> feature[f].set, target |-> f])

DropCommits(c) ==
  /\ Doing(c, "dropping") /\ ~Pinned(client[c].target)
  /\ Writes(c, frozen, Renumbered(Restrict(feature, Features \ {client[c].target}), client[c].set))

\* delete
DeleteLoads(c, s) == Editable(s) /\ Loads(c, [pc |-> "deleting", set |-> s])

Without(s) == Restrict(feature, Features \ Of(s))

\* Slip: the draft check was enough.
DeleteTrusts(c) ==
  /\ Doing(c, "deleting")
  /\ Writes(c, Restrict(frozen, Sets \ {client[c].set}), Without(client[c].set))

SetDeleteCommits(c) ==
  /\ Doing(c, "deleting") /\ ~Cited(client[c].set) /\ \A f \in Of(client[c].set) : ~Pinned(f)
  /\ Writes(c, Restrict(frozen, Sets \ {client[c].set}), Without(client[c].set))

\* freeze: no blocking error, the codelist tier only against a corpus.
Blocking(d, against) == d \in Faulty \/ (against /\ d \in Enums /\ mapping[d] = Nothing)

FreezeLoads(c, s, against) ==
  /\ Editable(s) /\ \A f \in Of(s) : ~Blocking(feature[f].def, against)
  /\ Loads(c, [pc |-> "freezing", set |-> s, seen |-> [f \in Of(s) |-> feature[f].def]])

FreezeCommits(c) ==
  LET seen == client[c].seen IN
  /\ Doing(c, "freezing") /\ client[c].set \in Sets /\ DOMAIN seen \subseteq Features
  /\ Writes(c, [frozen EXCEPT ![client[c].set] = TRUE],
               [f \in Features |-> IF f \in DOMAIN seen THEN [feature[f] EXCEPT !.print = seen[f]]
                                   ELSE feature[f]])

\* clone: a frozen set, into a draft with rows of its own.
CloneLoads(c, s) ==
  /\ s \in Sets /\ frozen[s]
  /\ Loads(c, [pc |-> "cloning", set |-> s, rows |-> {<<feature[f].def, feature[f].ordinal>> : f \in Of(s)}])

\* Slip: the clone takes the rows along.
CloneMoves(c) ==
  /\ Doing(c, "cloning")
  /\ \E s \in SetIds :
       /\ NewSet(s)
       /\ Writes(c, [t \in Sets \cup {s} |-> t \in Sets /\ frozen[t]],
                    [f \in Features |-> IF feature[f].set = client[c].set
                                        THEN [feature[f] EXCEPT !.set = s] ELSE feature[f]])

CloneCommits(c) ==
  /\ Doing(c, "cloning")
  /\ \E s \in SetIds, new \in SUBSET {f \in FeatureIds : NewFeature(f)} :
       /\ NewSet(s) /\ Cardinality(new) = Cardinality(client[c].rows)
       /\ \E copy \in Bijection(new, client[c].rows) :
            Writes(c, [t \in Sets \cup {s} |-> t \in Sets /\ frozen[t]],
                      [f \in Features \cup new |->
                         IF f \in new THEN Row(s, copy[f][1], copy[f][2]) ELSE feature[f]])

\* A key, a row that has gone, or the request ends before its commit.
RequestRefused(c) == client[c].pc # "idle" /\ Writes(c, frozen, feature)

-----------------------------------------------------------------------------
(* CodelistService: a new generation of the code table; mappings set or    *)
(* dropped, several at once by Automap.                                    *)

ImportFile == /\ imports < MaxImports
              /\ imports' = imports + 1
              /\ UNCHANGED <<mapping, setVars, useVars>>

Maps(ds, to) == /\ mapping' = [d \in Enums |-> IF d \in ds THEN to ELSE mapping[d]]
                /\ UNCHANGED <<imports, setVars, useVars>>

MapColumns(ds, g) == ds # {} /\ g \in 1..imports /\ Maps(ds, g)
UnmapColumn(d)    == mapping[d] # Nothing /\ Maps({d}, Nothing)

-----------------------------------------------------------------------------
(* The evaluation: it cites a set as a draft, a launch takes its snapshot. *)

DraftCites(e, s) ==
  /\ s \in Sets /\ ~evaluation[e].launched
  /\ evaluation' = [evaluation EXCEPT ![e].set = s]
  /\ UNCHANGED <<launch, setVars, mapVars>>

Begun(e) == [pc |-> "reading", set |-> evaluation[e].set, rows |-> NoSnapshot,
             todo |-> [f \in Of(evaluation[e].set) |-> [def |-> feature[f].def, ordinal |-> feature[f].ordinal]]]

Launching(e, new) == launch' = [launch EXCEPT ![e] = new] /\ UNCHANGED <<evaluation, setVars, mapVars>>

\* Slip: any set can be launched.
LaunchLoadsAny(e) ==
  /\ launch[e].pc = "idle" /\ ~evaluation[e].launched /\ evaluation[e].set \in Sets
  /\ Launching(e, Begun(e))

LaunchLoads(e) ==
  /\ launch[e].pc = "idle" /\ ~evaluation[e].launched /\ evaluation[e].set \in Sets
  /\ frozen[evaluation[e].set]
  /\ Launching(e, Begun(e))

\* Slip: what the freeze found is trusted.
SnapshotTrusts(d) == TRUE

\* An enum feature needs codes now.
SnapshotAllows(d) == d \in Enums => mapping[d] # Nothing

\* One feature after the other, in order, each mapping as it is now.
LaunchSnapshots(e) ==
  /\ launch[e].pc = "reading"
  /\ \E f \in DOMAIN launch[e].todo :
       LET todo == launch[e].todo
           d    == todo[f].def IN
       /\ \A g \in DOMAIN todo : todo[f].ordinal <= todo[g].ordinal
       /\ SnapshotAllows(d)
       /\ Launching(e, [launch[e] EXCEPT
            !.todo = Restrict(todo, DOMAIN todo \ {f}),
            !.rows = [g \in DOMAIN @ \cup {f} |->
                        IF g = f THEN [def |-> d, codes |-> IF d \in Enums THEN mapping[d] ELSE Nothing]
                        ELSE @[g]]])

\* One transaction: launched_at and a row per feature.
LaunchCommits(e) ==
  /\ launch[e].pc = "reading" /\ DOMAIN launch[e].todo = {}
  /\ launch[e].set \in Sets /\ DOMAIN launch[e].rows \subseteq Features
  /\ evaluation' = [evaluation EXCEPT ![e] = [@ EXCEPT !.launched = TRUE, !.rows = launch[e].rows]]
  /\ launch' = [launch EXCEPT ![e] = Idle]
  /\ UNCHANGED <<setVars, mapVars>>

LaunchRefused(e) == launch[e].pc = "reading" /\ Launching(e, Idle)

FeatureNext ==
  \/ \E s \in SetIds : CreateDraft(s)
  \/ \E c \in Clients :
       \/ AddCommits(c) \/ EditCommits(c) \/ DropCommits(c) \/ SetDeleteCommits(c)
       \/ FreezeCommits(c) \/ CloneCommits(c) \/ RequestRefused(c)
       \/ \E s \in SetIds :
            \/ DeleteLoads(c, s) \/ CloneLoads(c, s)
            \/ \E d \in Defs : AddLoads(c, s, d)
            \/ \E against \in BOOLEAN : FreezeLoads(c, s, against)
       \/ \E f \in FeatureIds : DropLoads(c, f) \/ \E d \in Defs : EditLoads(c, f, d)
  \/ ImportFile
  \/ \E ds \in SUBSET Enums, g \in 1..MaxImports : MapColumns(ds, g)
  \/ \E d \in Enums : UnmapColumn(d)
  \/ \E e \in Evaluations :
       \/ LaunchLoads(e) \/ LaunchSnapshots(e) \/ LaunchCommits(e) \/ LaunchRefused(e)
       \/ \E s \in SetIds : DraftCites(e, s)

FeatureSpec == FeatureInit /\ [][FeatureNext]_featureVars
-----------------------------------------------------------------------------
(* Properties.                                                             *)

\* The values the sets, the mappings and the evaluations can hold.
FeatureTypeOK ==
  /\ Sets \subseteq SetIds /\ frozen \in [Sets -> BOOLEAN]
  /\ Features \subseteq FeatureIds
  /\ feature \in [Features -> [set : Sets, def : Defs, ordinal : Nat, print : Defs \cup {Nothing}]]
  /\ mapping \in [Enums -> 1..imports \cup {Nothing}]
  /\ \A e \in Evaluations : evaluation[e].set \in SetIds \cup {Nothing}

\* What a launched evaluation pinned is there and frozen, and no request that
\* saw the set as a draft takes it or one of its features away (delete: "The
\* FK's RESTRICT protects a cited frozen config").
PinnedIsThere ==
  \A e \in Evaluations :
    /\ evaluation[e].set # Nothing => evaluation[e].set \in Sets
    /\ DOMAIN evaluation[e].rows \subseteq Features

\* What an evaluation was launched with belongs to a frozen set, though the
\* set it cites may be another by then (launch: "an unfrozen one is refused
\* and nothing is created").
LaunchedFromFrozen ==
  \A e \in Evaluations : \A f \in DOMAIN evaluation[e].rows : frozen[feature[f].set]

\* No enum feature is asked without codes, whatever became of the mapping
\* after the freeze (_snapshots, mvp-spec.md 7).
EnumsHaveCodes ==
  \A e \in Evaluations : \A f \in DOMAIN evaluation[e].rows :
    evaluation[e].rows[f].def \in Enums => evaluation[e].rows[f].codes # Nothing

\* A frozen set's rows change only by the commit of a request that loaded
\* that set, never by what is done to its clones (clone: "no shared mutable
\* state with the frozen original").
ClonesAreApart ==
  [][\A s \in Sets \cap DOMAIN frozen' :
       frozen[s] /\ {feature[f] : f \in Of(s)} # {feature'[f] : f \in {g \in DOMAIN feature' : feature'[g].set = s}} =>
         \E c \in Clients : client[c].pc \in {"adding", "editing", "dropping", "freezing"}
                            /\ client[c].set = s /\ client'[c].pc = "idle"]_featureVars

\* The fingerprints of a frozen set are those of its features (freeze:
\* "Immutable from this point on").
FrozenIsFingerprinted == \A f \in Features : frozen[feature[f].set] => feature[f].print = feature[f].def

\* The codes a launch pins are those mapped as it commits (launch: "In one
\* transaction", "snapshotted from the corpus's current column_mapping
\* generation").
SnapshotIsCurrent ==
  [][\A e \in Evaluations : ~evaluation[e].launched /\ evaluation'[e].launched =>
       \A f \in DOMAIN evaluation'[e].rows :
         evaluation'[e].rows[f].codes = IF evaluation'[e].rows[f].def \in Enums
                                        THEN mapping[evaluation'[e].rows[f].def] ELSE Nothing]_featureVars

\* A draft's ordinals have no gap and no repeat (add_feature: "Ordinals stay
\* dense").
OrdinalsAreDense ==
  \A s \in Sets : {feature[f].ordinal : f \in Of(s)} = 0..Cardinality(Of(s)) - 1
=============================================================================
