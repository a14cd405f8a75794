------------------------------ MODULE Delivery ------------------------------
(***************************************************************************)
(* One delivery from registration to its corpora                           *)
(* (ra2/services/delivery_service.py, corpus_service.py, the discard of    *)
(* lifecycle_service.py, infra/filestore.py).                              *)
(*                                                                         *)
(* A request is a client between its awaits: it reads its rows in one      *)
(* step, works on the stored bytes in another (a file store never gives    *)
(* up the event loop) and commits in a last one.  The ORM writes the       *)
(* columns whose loaded value changed; an UPDATE of a row that is gone     *)
(* raises, and so does an INSERT a key refuses.                            *)
(***************************************************************************)
EXTENDS Naturals, Functions

CONSTANTS
  Paths,       \* relative paths of the delivery's files
  Contents,    \* what a file may hold
  Settings,    \* encoding and dialect together
  Detected,    \* [Contents -> Settings], what detection says
  Right,       \* [Contents -> Settings], under which no finding is blocking
  Undecodable, \* pairs of contents and settings that fail the file
  FileIds,     \* delivery_file keys
  Clients,     \* requests and jobs in progress at once
  Names,       \* corpus names
  MaxVersion,  \* bound: freezes of one name
  MaxRequests, \* bound: requests and host edits
  MaxCrashes,  \* bound: deaths of the process
  None         \* a NULL column, a missing file or row

ASSUME DeliveryAssumption ==
  /\ Detected \in [Contents -> Settings]
  /\ Right \in [Contents -> Settings]
  /\ Undecodable \subseteq Contents \X Settings
  /\ None \notin Contents \cup Settings \cup FileIds
  /\ None \notin {"registered", "analysing", "analysed", "failed"}
  /\ {MaxVersion, MaxRequests, MaxCrashes} \subseteq Nat

VARIABLES
  delivery,  \* source_kind and status; status None is no row
  rows,      \* the delivery_file table
  bytes,     \* what the file store holds
  corpora,   \* the corpus table, and whether an evaluation cites a row
  client,    \* requests in progress
  crashes,
  requests   \* made so far

vars == <<delivery, rows, bytes, corpora, client, crashes, requests>>

Idle == [pc |-> "idle"]
Statuses == {"registered", "analysing", "analysed", "failed"}

Exists     == delivery.status # None
Present    == {id \in FileIds : rows[id] # None}
Upload     == delivery.source = "upload"
Registered(p, c) ==
  [path |-> p, sha |-> c, eff |-> None, det |-> None, report |-> None,
   analysed |-> FALSE, selected |-> TRUE]

(* Parsing, which is pure: the settings that hold and what they make.      *)

\* effective_overrides: an override is an effective setting that is not the
\* detected one.
Override(row) == IF row.eff # None /\ row.eff # row.det THEN row.eff ELSE None

\* analyse_file: the override or detection; None where the file fails.
Effective(override, content) ==
  LET s == IF override = None THEN Detected[content] ELSE override
  IN IF <<content, s>> \in Undecodable THEN None ELSE s

\* _apply_analysis of analyse_file on the bytes.
Analysed(row, content, override) ==
  LET eff == Effective(override, content)
  IN [row EXCEPT !.eff = eff, !.det = Detected[content],
                 !.report = <<content, eff>>, !.analysed = TRUE]

\* Not registered yet, or analysed in peace.  A host path's files are
\* already there.
Init ==
  /\ \E kind \in {"upload", "host_path"} :
       \/ /\ delivery = [source |-> kind, status |-> None]
          /\ rows = [id \in FileIds |-> None]
          /\ bytes \in IF kind = "upload" THEN {[p \in Paths |-> None]} ELSE [Paths -> Contents]
       \/ /\ delivery = [source |-> kind, status |-> "analysed"]
          /\ bytes \in [Paths -> Contents]
          /\ \E f \in Injection(Paths, FileIds) :
               rows = [id \in FileIds |->
                 IF id \notin Range(f) THEN None
                 ELSE LET p == AntiFunction(f)[id]
                      IN Analysed(Registered(p, bytes[p]), bytes[p], None)]
  /\ corpora = {}
  /\ client = [c \in Clients |-> Idle]
  /\ crashes = 0
  /\ requests = 0

At(c, pc)   == client[c].pc = pc
Go(c, next) == client' = [client EXCEPT ![c] = next]
End(c)      == Go(c, Idle)

\* A new request, or a file edited on the host.
Counted   == requests < MaxRequests /\ requests' = requests + 1
Begins(c) == At(c, "idle") /\ Counted

\* An id no row has and no request remembers.
Fresh(id) == /\ id \notin Present
             /\ \A c \in Clients : ~At(c, "idle") => id \notin DOMAIN client[c].seen

\* A request that has read the rows in ids, or the delivery's status.
Seen(pc, ids, more) == [pc |-> pc, seen |-> [id \in ids |-> rows[id]], more |-> more]
Asks(pc)            == Seen(pc, {}, None)

\* The UPDATE of a flush: the columns that differ from what was loaded.
Written(now, seen, new) ==
  [col \in DOMAIN now |-> IF new[col] # seen[col] THEN new[col] ELSE now[col]]

Readable(seen) == \A id \in DOMAIN seen : bytes[seen[id].path] # None

\* analysed_at is a new time and always written.
AnalysisWritten(now, seen, new) == [Written(now, seen, new) EXCEPT !.analysed = TRUE]

-----------------------------------------------------------------------------
(* register: the row, and for a host path one row per file of the walk.    *)

Register ==
  /\ ~Exists
  /\ \A c \in Clients : At(c, "idle")
  /\ delivery' = [delivery EXCEPT !.status = "registered"]
  /\ \E f \in Injection({p \in Paths : ~Upload /\ bytes[p] # None}, FileIds) :
       LET pathOf == AntiFunction(f)
       IN rows' = [id \in FileIds |->
                     IF id \in Range(f) THEN Registered(pathOf[id], bytes[pathOf[id]]) ELSE None]
  /\ UNCHANGED <<bytes, corpora, client, crashes, requests>>

\* The analyst's own files change on their own.
HostEdits(p, b) ==
  /\ ~Upload
  /\ Counted
  /\ bytes' = [bytes EXCEPT ![p] = b]
  /\ UNCHANGED <<delivery, rows, corpora, client, crashes>>

-----------------------------------------------------------------------------
(* add_file                                                                *)

AddLoads(c, p, b) ==
  /\ Begins(c) /\ Exists /\ Upload
  /\ Go(c, Seen("add", Present, [path |-> p, content |-> b]))
  /\ UNCHANGED <<delivery, rows, bytes, corpora, crashes>>

\* The bytes replace those of the same name at once.
AddAccepts(c) ==
  /\ At(c, "add")
  /\ bytes' = [bytes EXCEPT ![client[c].more.path] = client[c].more.content]
  /\ Go(c, [client[c] EXCEPT !.pc = "accepted"])
  /\ UNCHANGED <<delivery, rows, corpora, crashes, requests>>

\* Past RA2_MAX_UPLOAD_MB: the destination is unlinked, whatever it held.
AddTooLarge(c) ==
  /\ At(c, "add")
  /\ bytes' = [bytes EXCEPT ![client[c].more.path] = None]
  /\ End(c)
  /\ UNCHANGED <<delivery, rows, corpora, crashes, requests>>


\* _clear_analysis: the bytes changed, the analysis is not about them.
Cleared(row, b) ==
  [row EXCEPT !.sha = b, !.eff = None, !.det = None, !.report = None, !.analysed = FALSE]

\* The row of that path as loaded is updated, else one is inserted; a row
\* or a delivery gone, or a path taken meanwhile, rolls back.
AddCommits(c) ==
  /\ At(c, "accepted")
  /\ LET seen == client[c].seen
         p    == client[c].more.path
         b    == client[c].more.content
         old  == {id \in DOMAIN seen : seen[id].path = p}
     IN \/ \E id \in old \cap Present :
             rows' = [rows EXCEPT ![id] = Written(@, seen[id], Cleared(seen[id], b))]
        \/ /\ old = {} /\ Exists /\ \A id \in Present : rows[id].path # p
           /\ \E id \in FileIds : Fresh(id) /\ rows' = [rows EXCEPT ![id] = Registered(p, b)]
        \/ /\ \/ old # {} /\ old \cap Present = {}
              \/ old = {} /\ (~Exists \/ \E id \in Present : rows[id].path = p)
           /\ rows' = rows
  /\ End(c)
  /\ UNCHANGED <<delivery, bytes, corpora, crashes, requests>>

-----------------------------------------------------------------------------
(* remove_file: an upload's bytes go first, the row with the commit.       *)

RemoveLoads(c, id) ==
  /\ Begins(c) /\ id \in Present
  /\ Go(c, Seen("remove", {id}, id))
  /\ UNCHANGED <<delivery, rows, bytes, corpora, crashes>>

RemoveUnlinks(c) ==
  /\ At(c, "remove")
  /\ LET p == client[c].seen[client[c].more].path
     IN IF ~Upload THEN bytes' = bytes /\ Go(c, [client[c] EXCEPT !.pc = "unlinked"])
        ELSE IF bytes[p] = None THEN bytes' = bytes /\ End(c)
        ELSE bytes' = [bytes EXCEPT ![p] = None] /\ Go(c, [client[c] EXCEPT !.pc = "unlinked"])
  /\ UNCHANGED <<delivery, rows, corpora, crashes, requests>>

RemoveCommits(c) ==
  /\ At(c, "unlinked")
  /\ rows' = [rows EXCEPT ![client[c].more] = None]
  /\ End(c)
  /\ UNCHANGED <<delivery, bytes, corpora, crashes, requests>>

-----------------------------------------------------------------------------
(* analyse: a job that marks the delivery, then one session over its files. *)

Analyse(c) ==
  /\ Begins(c) /\ Exists
  /\ Go(c, Asks("mark"))
  /\ UNCHANGED <<delivery, rows, bytes, corpora, crashes>>

\* _set_status's read; a delivery that is gone fails the job, and marking
\* that fails it too.
StatusLoads(c) ==
  /\ client[c].pc \in {"mark", "fail"}
  /\ IF Exists THEN Go(c, Seen(IF At(c, "mark") THEN "marking" ELSE "failing", {}, delivery.status))
     ELSE End(c)
  /\ UNCHANGED <<delivery, rows, bytes, corpora, crashes, requests>>

SetStatus(c, status, next) ==
  /\ delivery' = IF Exists /\ client[c].more # status THEN [delivery EXCEPT !.status = status]
                 ELSE delivery
  /\ IF Exists \/ client[c].more = status THEN Go(c, next) ELSE End(c)
  /\ UNCHANGED <<rows, bytes, corpora, crashes, requests>>

\* Slip: the failed analysis is logged and not recorded.
FailForgotten(c) ==
  /\ At(c, "failing") /\ End(c) /\ UNCHANGED <<delivery, rows, bytes, corpora, crashes, requests>>

MarkCommits(c) == At(c, "marking") /\ SetStatus(c, "analysing", Asks("list"))
FailCommits(c) == At(c, "failing") /\ SetStatus(c, "failed", Idle)

AnalysisFails(c) == Go(c, Asks("fail"))

AnalysisLoads(c) ==
  /\ At(c, "list")
  /\ IF Exists THEN Go(c, Seen("read", Present, delivery.status)) ELSE AnalysisFails(c)
  /\ UNCHANGED <<delivery, rows, bytes, corpora, crashes, requests>>

\* Slip: a re-run starts from detection.
AnalysisReadsAfresh(c) ==
  /\ At(c, "read")
  /\ LET seen == client[c].seen
     IN IF ~Readable(seen) THEN AnalysisFails(c)
        ELSE Go(c, [client[c] EXCEPT !.pc = "parsed", !.more = [status |-> @, new |->
               [id \in DOMAIN seen |-> Analysed(seen[id], bytes[seen[id].path], None)]]])
  /\ UNCHANGED <<delivery, rows, bytes, corpora, crashes, requests>>

\* Every file's bytes, parsed under the overrides its row shows.
AnalysisReads(c) ==
  /\ At(c, "read")
  /\ LET seen == client[c].seen
     IN IF ~Readable(seen) THEN AnalysisFails(c)
        ELSE Go(c, [client[c] EXCEPT !.pc = "parsed", !.more = [status |-> @, new |->
               [id \in DOMAIN seen |->
                  Analysed(seen[id], bytes[seen[id].path], Override(seen[id]))]]])
  /\ UNCHANGED <<delivery, rows, bytes, corpora, crashes, requests>>

\* All rows and the status in one transaction, or none.
AnalysisCommits(c) ==
  /\ At(c, "parsed")
  /\ LET seen == client[c].seen
         new  == client[c].more.new
     IN IF ~Exists \/ ~(DOMAIN seen \subseteq Present)
        THEN AnalysisFails(c) /\ UNCHANGED <<delivery, rows>>
        ELSE /\ rows' = [id \in FileIds |-> IF id \in DOMAIN seen
                           THEN AnalysisWritten(rows[id], seen[id], new[id]) ELSE rows[id]]
             /\ delivery' = IF client[c].more.status # "analysed"
                            THEN [delivery EXCEPT !.status = "analysed"] ELSE delivery
             /\ End(c)
  /\ UNCHANGED <<bytes, corpora, crashes, requests>>

-----------------------------------------------------------------------------
(* reparse_file and set_selected: one row.                                 *)

ReparseLoads(c, id, s) ==
  /\ Begins(c) /\ id \in Present
  /\ Go(c, Seen("reparse", {id}, [id |-> id, to |-> s]))
  /\ UNCHANGED <<delivery, rows, bytes, corpora, crashes>>

\* s = None keeps what is effective now.
ReparseReads(c) ==
  /\ At(c, "reparse")
  /\ LET row == client[c].seen[client[c].more.id]
         s   == IF client[c].more.to = None THEN Override(row) ELSE client[c].more.to
     IN IF bytes[row.path] = None THEN End(c)
        ELSE Go(c, [client[c] EXCEPT !.pc = "reparsed",
                                     !.more = [id |-> @.id, new |-> Analysed(row, bytes[row.path], s)]])
  /\ UNCHANGED <<delivery, rows, bytes, corpora, crashes, requests>>

SelectLoads(c, id, on) ==
  /\ Begins(c) /\ id \in Present
  /\ Go(c, Seen("selecting", {id}, [id |-> id, new |-> [rows[id] EXCEPT !.selected = on]]))
  /\ UNCHANGED <<delivery, rows, bytes, corpora, crashes>>

\* A row that is gone takes no UPDATE.
RowCommits(c) ==
  /\ client[c].pc \in {"reparsed", "selecting"}
  /\ LET id   == client[c].more.id
         new  == client[c].more.new
         seen == client[c].seen[id]
     IN rows' = IF id \notin Present THEN rows
                ELSE [rows EXCEPT ![id] = IF At(c, "reparsed") THEN AnalysisWritten(@, seen, new)
                                          ELSE Written(@, seen, new)]
  /\ End(c)
  /\ UNCHANGED <<delivery, bytes, corpora, crashes, requests>>

-----------------------------------------------------------------------------
(* freeze: read, validate and build, number, then one commit.              *)

\* _selected: an analysed delivery, and every selected file analysed.
Freezable == {id \in Present : rows[id].selected}

FreezeLoads(c, n) ==
  /\ Begins(c) /\ delivery.status = "analysed"
  /\ Freezable # {} /\ \A id \in Freezable : rows[id].analysed
  /\ Go(c, Seen("freeze", Freezable, n))
  /\ UNCHANGED <<delivery, rows, bytes, corpora, crashes>>

\* What one file contributes, and validate_delivery over all of them.
Parsed(row)      == [path |-> row.path, content |-> bytes[row.path],
                     eff |-> Effective(Override(row), bytes[row.path])]
Blocking(parsed) == \E f \in parsed : f.eff # Right[f.content]

\* Slip: the reports on the rows are validated, the files are built from.
FreezeReadsReports(c) ==
  /\ At(c, "freeze")
  /\ LET seen   == client[c].seen
         parsed == {Parsed(seen[id]) : id \in DOMAIN seen}
     IN IF ~Readable(seen) \/ \E id \in DOMAIN seen : seen[id].report[2] # Right[seen[id].report[1]]
        THEN End(c)
        ELSE Go(c, [client[c] EXCEPT !.pc = "built",
                      !.more = [name |-> client[c].more, version |-> 0, parsed |-> parsed]])
  /\ UNCHANGED <<delivery, rows, bytes, corpora, crashes, requests>>

\* A missing file or a blocking finding: nothing is written.  What is built
\* off the loop is built from this parse.
FreezeReads(c) ==
  /\ At(c, "freeze")
  /\ LET seen   == client[c].seen
         parsed == {Parsed(seen[id]) : id \in DOMAIN seen}
     IN IF ~Readable(seen) \/ Blocking(parsed) THEN End(c)
        ELSE Go(c, [client[c] EXCEPT !.pc = "built", !.more = [name |-> @, version |-> 0, parsed |-> parsed]])
  /\ UNCHANGED <<delivery, rows, bytes, corpora, crashes, requests>>

Versions(n)    == {k.version : k \in {q \in corpora : q.name = n}}
NextVersion(n) == IF Versions(n) = {} THEN 1
                  ELSE 1 + CHOOSE v \in Versions(n) : \A w \in Versions(n) : w <= v

FreezeNumbers(c) ==
  /\ At(c, "built")
  /\ NextVersion(client[c].more.name) <= MaxVersion
  /\ Go(c, [client[c] EXCEPT !.pc = "numbered", !.more.version = NextVersion(client[c].more.name)])
  /\ UNCHANGED <<delivery, rows, bytes, corpora, crashes, requests>>

\* The manifest comes from the rows as loaded.
Corpus(c) ==
  [name |-> client[c].more.name, version |-> client[c].more.version, from |-> "delivery",
   parsed |-> client[c].more.parsed, cited |-> FALSE,
   manifest |-> {[path |-> client[c].seen[id].path, sha |-> client[c].seen[id].sha] :
                   id \in DOMAIN client[c].seen}]

\* Slip: nothing refuses a number that was taken meanwhile.
FreezeCommitsAnyway(c) ==
  /\ At(c, "numbered")
  /\ corpora' = IF Exists THEN corpora \cup {Corpus(c)} ELSE corpora
  /\ End(c)
  /\ UNCHANGED <<delivery, rows, bytes, crashes, requests>>

\* uq_corpus_name_version and the reference to the delivery refuse.
FreezeCommits(c) ==
  /\ At(c, "numbered")
  /\ corpora' = IF Exists /\ Corpus(c).version \notin Versions(Corpus(c).name)
                THEN corpora \cup {Corpus(c)} ELSE corpora
  /\ End(c)
  /\ UNCHANGED <<delivery, rows, bytes, crashes, requests>>

-----------------------------------------------------------------------------
(* CorpusService.delete, and the evaluations that cite a corpus.           *)

DeleteChecks(c, k) ==
  /\ Begins(c) /\ k \in corpora /\ ~k.cited
  /\ Go(c, Seen("delete", {}, [name |-> k.name, version |-> k.version]))
  /\ UNCHANGED <<delivery, rows, bytes, corpora, crashes>>

Named(m) == {k \in corpora : k.name = m.name /\ k.version = m.version}

\* Slip: the guard's answer is trusted.
DeleteTrusts(c) ==
  /\ At(c, "delete")
  /\ corpora' = corpora \ Named(client[c].more)
  /\ End(c)
  /\ UNCHANGED <<delivery, rows, bytes, crashes, requests>>

\* evaluation.corpus_id is RESTRICT: a citation that committed since refuses.
DeleteCommits(c) ==
  /\ At(c, "delete")
  /\ corpora' = corpora \ {k \in Named(client[c].more) : ~k.cited}
  /\ End(c)
  /\ UNCHANGED <<delivery, rows, bytes, crashes, requests>>

\* An evaluation is saved for the corpus.
Cite(k) ==
  /\ k \in corpora
  /\ corpora' = (corpora \ {k}) \cup {[k EXCEPT !.cited = TRUE]}
  /\ UNCHANGED <<delivery, rows, bytes, client, crashes, requests>>

-----------------------------------------------------------------------------
(* discard_delivery: the guard, the cascade, then an upload's bytes.       *)

DiscardChecks(c) ==
  /\ Begins(c) /\ Exists
  /\ ~\E k \in corpora : k.from = "delivery"
  /\ Go(c, Seen("discard", Present, None))
  /\ UNCHANGED <<delivery, rows, bytes, corpora, crashes>>

\* Rows and delivery cascade; corpus.delivery_id is SET NULL.
DiscardCommits(c) ==
  /\ At(c, "discard")
  /\ delivery' = [delivery EXCEPT !.status = None]
  /\ rows' = [id \in FileIds |-> None]
  /\ corpora' = {[k EXCEPT !.from = None] : k \in corpora}
  /\ IF Upload THEN Go(c, [client[c] EXCEPT !.pc = "discarded"]) ELSE End(c)
  /\ UNCHANGED <<bytes, crashes, requests>>

\* _remove_stored_files: a file already gone is no error.
DiscardUnlinks(c) ==
  /\ At(c, "discarded")
  /\ bytes' = [p \in Paths |-> IF \E id \in DOMAIN client[c].seen : client[c].seen[id].path = p
                               THEN None ELSE bytes[p]]
  /\ End(c)
  /\ UNCHANGED <<delivery, rows, corpora, crashes, requests>>

-----------------------------------------------------------------------------
\* Nothing of a delivery is repaired at startup.
Crash ==
  /\ crashes < MaxCrashes
  /\ crashes' = crashes + 1
  /\ client' = [c \in Clients |-> Idle]
  /\ UNCHANGED <<delivery, rows, bytes, corpora, requests>>

\* A request that has begun goes on.
Step(c) ==
  \/ AddAccepts(c) \/ AddTooLarge(c) \/ AddCommits(c)
  \/ RemoveUnlinks(c) \/ RemoveCommits(c)
  \/ StatusLoads(c) \/ MarkCommits(c) \/ FailCommits(c)
  \/ AnalysisLoads(c) \/ AnalysisReads(c) \/ AnalysisCommits(c)
  \/ ReparseReads(c) \/ RowCommits(c)
  \/ FreezeReads(c) \/ FreezeNumbers(c) \/ FreezeCommits(c)
  \/ DeleteCommits(c) \/ DiscardCommits(c) \/ DiscardUnlinks(c)

Request(c) ==
  \/ \E p \in Paths, b \in Contents : AddLoads(c, p, b)
  \/ \E id \in FileIds : \/ RemoveLoads(c, id)
                         \/ \E s \in Settings \cup {None} : ReparseLoads(c, id, s)
                         \/ \E on \in BOOLEAN : SelectLoads(c, id, on)
  \/ Analyse(c) \/ DiscardChecks(c)
  \/ \E n \in Names : FreezeLoads(c, n)
  \/ \E k \in corpora : DeleteChecks(c, k)

Next ==
  \/ Register \/ Crash
  \/ \E p \in Paths, b \in Contents \cup {None} : HostEdits(p, b)
  \/ \E c \in Clients : Request(c) \/ Step(c)
  \/ \E k \in corpora : Cite(k)

Spec == Init /\ [][Next]_vars
-----------------------------------------------------------------------------
(* Properties.                                                             *)

\* The values of the tables; a request is at one of its awaits.
TypeOK ==
  /\ delivery.status \in Statuses \cup {None}
  /\ bytes \in [Paths -> Contents \cup {None}]
  /\ \A id \in Present : /\ rows[id].path \in Paths /\ rows[id].sha \in Contents
                         /\ {rows[id].eff, rows[id].det} \subseteq Settings \cup {None}
                         /\ {rows[id].analysed, rows[id].selected} \subseteq BOOLEAN

\* However a freeze overlaps uploads, overrides, discards and other freezes,
\* a corpus holds what one validation accepted (freeze: "blocking validation,
\* before anything is written").
CorpusIsValidated == \A k \in corpora : k.parsed # {} /\ ~Blocking(k.parsed)

\* Two freezes read the same next version; one corpus gets it
\* (next_version: "monotonic per corpus name").
OneCorpusPerVersion ==
  \A j, k \in corpora : j.name = k.name /\ j.version = k.version => j = k

\* A corpus an evaluation cites outlives every delete that was under way when
\* it was cited (CorpusService.delete: "refused when any evaluation cites").
CitedCorpusStays ==
  [][\A k \in corpora : k.cited => \E j \in corpora' : j.name = k.name /\ j.version = k.version]_vars

\* An override that the analysis found on a row is the setting it commits,
\* whatever else changed the row and the file meanwhile, unless the file it
\* read does not decode under it (effective_overrides: "never silently
\* discards an override the analyst already applied").
AnalysisKeepsOverrides ==
  [][\A c \in Clients : At(c, "parsed") /\ client'[c].pc = "idle" =>
       \A id \in DOMAIN client[c].seen \cap Present :
         LET override == Override(client[c].seen[id])
         IN override # None =>
              \/ rows'[id].eff = rows[id].eff
              \/ /\ rows'[id].eff = None
                 /\ <<client[c].more.new[id].report[1], override>> \in Undecodable]_vars

\* Analyses in flight together, failing, or losing their files: a delivery
\* marked analysing is one that a live job will mark again, unless the process
\* died (analyse: "idempotent and re-runnable").
AnalysingIsWorkedOn ==
  delivery.status = "analysing" /\ crashes = 0 =>
    \E c \in Clients : client[c].pc \in {"list", "read", "parsed", "fail", "failing"}

-----------------------------------------------------------------------------
\* An analysed row's report is about the bytes it names (add_file: "the row's
\* analysis is no longer about the file that is there now").
AnalysisIsOfTheBytes ==
  \A id \in Present : rows[id].analysed => rows[id].report = <<rows[id].sha, rows[id].eff>>

\* What a corpus takes from a file is what the file's row showed when it was
\* frozen (_selected: "honouring that file's effective ... encoding and dialect").
FrozenAsShown ==
  \A c \in Clients : At(c, "built") =>
    \A id \in DOMAIN client[c].seen :
      \E f \in client[c].more.parsed : /\ f.path = client[c].seen[id].path
                                      /\ <<f.content, f.eff>> = client[c].seen[id].report

\* A row of an upload names a file that is there (_remove_stored_files:
\* "leaves a delivery pointing at files that are not there").
RowsHaveBytes == Upload /\ (\A c \in Clients : At(c, "idle")) =>
                   \A id \in Present : bytes[rows[id].path] # None

\* The manifest names the bytes the corpus was built from
\* (models.Corpus: "the files that went in").
ManifestIsWhatWentIn ==
  \A k \in corpora : k.manifest = {[path |-> f.path, sha |-> f.content] : f \in k.parsed}

\* A delivery some corpus was frozen from is not discarded (18.2).
CitedDeliveryStays ==
  [][Exists /\ delivery'.status = None => \A k \in corpora : k.from # "delivery"]_vars
=============================================================================
