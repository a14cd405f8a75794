-------------------------- MODULE Delivery_proofs --------------------------
(***************************************************************************)
(* What a delivery promises its corpora and its analysts, for every number *)
(* of files, requests, freezes and deaths of the process.                  *)
(***************************************************************************)
EXTENDS Delivery, TLAPS

-----------------------------------------------------------------------------
(* The invariant.                                                          *)

Row == [path : Paths, sha : Contents, eff : Settings \cup {None}, det : Settings \cup {None},
        report : (Contents \X (Settings \cup {None})) \cup {None},
        analysed : BOOLEAN, selected : BOOLEAN]

TablesTyped ==
  /\ delivery \in [source : {"upload", "host_path"}, status : Statuses \cup {None}]
  /\ rows \in [FileIds -> Row \cup {None}]
  /\ bytes \in [Paths -> Contents \cup {None}]
  /\ crashes \in Nat

\* The rows a request has read.
Snapshot(seen) == DOMAIN seen \subseteq FileIds /\ \A id \in DOMAIN seen : seen[id] \in Row

\* What a request carries from one await to the next: an analysis is each
\* row's own, under the override that row showed, and what is frozen has
\* passed validation.
Carries(r) ==
  /\ r.pc \in {"add", "accepted"} => r.more.path \in Paths /\ r.more.content \in Contents
  /\ r.pc = "reparse" => r.more.id \in DOMAIN r.seen /\ r.more.to \in Settings \cup {None}
  /\ r.pc \in {"reparsed", "selecting"} => r.more.new \in Row
  /\ r.pc = "parsed" => \A id \in DOMAIN r.seen : \E b \in Contents :
                          r.more.new[id] = Analysed(r.seen[id], b, Override(r.seen[id]))
  /\ r.pc = "freeze" => DOMAIN r.seen # {}
  /\ r.pc \in {"built", "numbered"} => /\ DOMAIN r.more = {"name", "version", "parsed"}
                                       /\ r.more.parsed # {} /\ ~Blocking(r.more.parsed)

Awaiting(r) ==
  DOMAIN r = {"pc", "seen", "more"} /\ r.pc # "idle" /\ Snapshot(r.seen) /\ Carries(r)

ClientsTyped == DOMAIN client = Clients /\ \A c \in Clients : client[c] = Idle \/ Awaiting(client[c])

CorpusColumns == {"name", "version", "from", "parsed", "cited", "manifest"}

CorporaTyped == \A k \in corpora : DOMAIN k = CorpusColumns

\* A request that will write the status: one about to read it, or one whose
\* loaded value is not the value it is going to set.
WillMark(r) ==
  \/ r.pc \in {"list", "fail"}
  \/ r.pc = "read" /\ r.more # "analysed"
  \/ r.pc = "parsed" /\ r.more.status # "analysed"
  \/ r.pc = "failing" /\ r.more # "failed"

AnalysingWillBeMarked ==
  delivery.status = "analysing" /\ crashes = 0 => \E c \in Clients : WillMark(client[c])

DeliveryInv ==
  /\ TablesTyped /\ ClientsTyped /\ CorporaTyped
  /\ CorpusIsValidated /\ OneCorpusPerVersion /\ AnalysingWillBeMarked

-----------------------------------------------------------------------------
(* What the pure operators return.                                         *)

LEMMA EffectiveIsASetting ==
  ASSUME NEW o \in Settings \cup {None}, NEW b \in Contents
  PROVE  /\ Effective(o, b) \in Settings \cup {None}
         /\ o # None => \/ Effective(o, b) = o
                        \/ Effective(o, b) = None /\ <<b, o>> \in Undecodable
BY DeliveryAssumption DEF Effective

LEMMA OverrideIsASetting ==
  ASSUME NEW row \in Row
  PROVE  /\ Override(row) \in Settings \cup {None}
         /\ Override(row) # None => row.eff = Override(row)
BY DEF Row, Override

LEMMA AnalysedIsARow ==
  ASSUME NEW row \in Row, NEW b \in Contents, NEW o \in Settings \cup {None}
  PROVE  Analysed(row, b, o) \in Row
<1>1. Effective(o, b) \in Settings \cup {None} /\ Detected[b] \in Settings
  BY EffectiveIsASetting, DeliveryAssumption
<1>2. <<b, Effective(o, b)>> \in (Contents \X (Settings \cup {None})) \cup {None}
  BY <1>1
<1>3. ASSUME NEW e \in Settings \cup {None}, NEW d \in Settings,
             NEW report \in (Contents \X (Settings \cup {None})) \cup {None}
      PROVE  [row EXCEPT !.eff = e, !.det = d, !.report = report, !.analysed = TRUE] \in Row
  <2>1. [row EXCEPT !.eff = e] \in Row
    BY DEF Row
  <2>2. ASSUME NEW r \in Row PROVE [r EXCEPT !.det = d] \in Row
    BY DEF Row
  <2>3. ASSUME NEW r \in Row PROVE [r EXCEPT !.report = report] \in Row
    BY DEF Row
  <2>4. ASSUME NEW r \in Row PROVE [r EXCEPT !.analysed = TRUE] \in Row
    BY DEF Row
  <2> QED
    BY <2>1, <2>2, <2>3, <2>4
<1> QED
  BY <1>1, <1>2, <1>3 DEF Analysed

\* A flush merges two rows column by column.
LEMMA WrittenIsARow ==
  ASSUME NEW now \in Row, NEW seen, NEW new \in Row
  PROVE  Written(now, seen, new) \in Row /\ AnalysisWritten(now, seen, new) \in Row
<1>1. Written(now, seen, new) \in Row
  BY DEF Written, Row
<1> QED
  BY <1>1 DEF AnalysisWritten, Row

LEMMA RegisteredIsARow ==
  ASSUME NEW p \in Paths, NEW b \in Contents
  PROVE  Registered(p, b) \in Row
BY DEF Registered, Row

\* The file an id is given is the one whose number it is.
LEMMA NumberedBack ==
  ASSUME NEW S, NEW T, NEW f \in Injection(S, T), NEW id \in Range(f)
  PROVE  AntiFunction(f)[id] \in S
<1>1. f \in [S -> T] /\ \E s \in S : f[s] = id
  BY DEF Injection, Range
<1>2. AntiFunction(f)[id] = CHOOSE s \in S : id \in Range(f) => f[s] = id
  BY <1>1 DEF AntiFunction, Inverse
<1> QED
  BY <1>1, <1>2

LEMMA PresentIsTyped ==
  ASSUME TablesTyped
  PROVE  /\ Present \subseteq FileIds /\ \A id \in Present : rows[id] \in Row
         /\ \A id \in FileIds : rows[id] \in Row \cup {None}
BY DEF TablesTyped, Present

-----------------------------------------------------------------------------
(* The initial states.                                                     *)

LEMMA DeliveryInvInit == Init => DeliveryInv
<1> SUFFICES ASSUME Init PROVE DeliveryInv
  OBVIOUS
<1>1. ClientsTyped /\ CorporaTyped /\ CorpusIsValidated /\ OneCorpusPerVersion
  BY DEF Init, ClientsTyped, Idle, CorporaTyped, CorpusIsValidated, OneCorpusPerVersion
<1>2. AnalysingWillBeMarked
  BY DeliveryAssumption DEF Init, AnalysingWillBeMarked
<1>3. TablesTyped
  <2>1. PICK kind \in {"upload", "host_path"} :
       \/ /\ delivery = [source |-> kind, status |-> None]
          /\ rows = [id \in FileIds |-> None]
          /\ bytes \in IF kind = "upload" THEN {[p \in Paths |-> None]} ELSE [Paths -> Contents]
       \/ /\ delivery = [source |-> kind, status |-> "analysed"]
          /\ bytes \in [Paths -> Contents]
          /\ \E f \in Injection(Paths, FileIds) :
               rows = [id \in FileIds |->
                 IF id \notin Range(f) THEN None
                 ELSE LET p == AntiFunction(f)[id]
                      IN Analysed(Registered(p, bytes[p]), bytes[p], None)]
    BY DEF Init
  <2>2. delivery \in [source : {"upload", "host_path"}, status : Statuses \cup {None}]
    BY <2>1 DEF Statuses
  <2>3. bytes \in [Paths -> Contents \cup {None}] /\ crashes \in Nat
    BY <2>1 DEF Init
  <2>4. rows \in [FileIds -> Row \cup {None}]
    <3>1. CASE rows = [id \in FileIds |-> None]
      BY <3>1
    <3>2. ASSUME bytes \in [Paths -> Contents], NEW f \in Injection(Paths, FileIds),
                 rows = [id \in FileIds |->
                   IF id \notin Range(f) THEN None
                   ELSE LET p == AntiFunction(f)[id]
                        IN Analysed(Registered(p, bytes[p]), bytes[p], None)]
          PROVE  rows \in [FileIds -> Row \cup {None}]
      <4>1. ASSUME NEW id \in Range(f)
            PROVE  Analysed(Registered(AntiFunction(f)[id], bytes[AntiFunction(f)[id]]),
                            bytes[AntiFunction(f)[id]], None) \in Row
        <5>1. AntiFunction(f)[id] \in Paths
          BY <4>1, NumberedBack
        <5>2. bytes[AntiFunction(f)[id]] \in Contents
          BY <3>2, <5>1
        <5> QED
          BY <5>1, <5>2, RegisteredIsARow, AnalysedIsARow
      <4> QED
        BY <3>2, <4>1
    <3> QED
      BY <2>1, <3>1, <3>2
  <2> QED
    BY <2>2, <2>3, <2>4 DEF TablesTyped
<1> QED
  BY <1>1, <1>2, <1>3 DEF DeliveryInv

-----------------------------------------------------------------------------
(* What a request carries.                                                 *)

\* A request that reads rows that are there.
LEMMA ReadersAwait ==
  ASSUME TablesTyped, NEW ids \in SUBSET Present, NEW pc, pc # "idle", NEW more,
         Carries(Seen(pc, ids, more))
  PROVE  Awaiting(Seen(pc, ids, more))
<1>1. Snapshot([id \in ids |-> rows[id]])
  BY PresentIsTyped DEF Snapshot
<1> QED
  BY <1>1 DEF Awaiting, Seen

\* A request that asks for no row.
LEMMA AskersAwait ==
  ASSUME NEW pc \in {"mark", "marking", "fail", "failing", "list", "delete"}, NEW more
  PROVE  Awaiting(Seen(pc, {}, more))
BY DEF Awaiting, Seen, Snapshot, Carries

\* The bytes a request reads are those of a stored file.
LEMMA ReadBytes ==
  ASSUME TablesTyped, NEW row \in Row, bytes[row.path] # None
  PROVE  bytes[row.path] \in Contents
BY DEF TablesTyped, Row

LEMMA ReadIsARow ==
  ASSUME TablesTyped, NEW row \in Row, NEW o \in Settings \cup {None}, bytes[row.path] # None
  PROVE  Analysed(row, bytes[row.path], o) \in Row
BY ReadBytes, AnalysedIsARow

LEMMA RequestCarries ==
  ASSUME TablesTyped, ClientsTyped, NEW c \in Clients, Request(c)
  PROVE  \E r : (r = Idle \/ Awaiting(r)) /\ Go(c, r)
<1>0. Present \subseteq FileIds /\ \A id \in Present : rows[id] \in Row
  BY PresentIsTyped
<1>1. ASSUME NEW p \in Paths, NEW b \in Contents, AddLoads(c, p, b)
      PROVE  \E r : (r = Idle \/ Awaiting(r)) /\ Go(c, r)
  <2>1. Carries(Seen("add", Present, [path |-> p, content |-> b]))
    BY DEF Carries, Seen
  <2> QED
    BY <1>1, <2>1, ReadersAwait DEF AddLoads
<1>2. ASSUME NEW id \in FileIds, RemoveLoads(c, id)
      PROVE  \E r : (r = Idle \/ Awaiting(r)) /\ Go(c, r)
  <2>1. Carries(Seen("remove", {id}, id))
    BY DEF Carries, Seen
  <2> QED
    BY <1>2, <2>1, ReadersAwait DEF RemoveLoads
<1>3. ASSUME NEW id \in FileIds, NEW s \in Settings \cup {None}, ReparseLoads(c, id, s)
      PROVE  \E r : (r = Idle \/ Awaiting(r)) /\ Go(c, r)
  <2>1. Carries(Seen("reparse", {id}, [id |-> id, to |-> s]))
    BY DEF Carries, Seen
  <2> QED
    BY <1>3, <2>1, ReadersAwait DEF ReparseLoads
<1>4. ASSUME NEW id \in FileIds, NEW on \in BOOLEAN, SelectLoads(c, id, on)
      PROVE  \E r : (r = Idle \/ Awaiting(r)) /\ Go(c, r)
  <2>1. id \in Present /\ [rows[id] EXCEPT !.selected = on] \in Row
    BY <1>0, <1>4 DEF SelectLoads, Row
  <2> DEFINE more == [id |-> id, new |-> [rows[id] EXCEPT !.selected = on]]
  <2>2. more.new \in Row
    BY <2>1
  <2>3. Go(c, Seen("selecting", {id}, more))
    BY <1>4 DEF SelectLoads
  <2> HIDE DEF more
  <2>4. Carries(Seen("selecting", {id}, more))
    BY <2>2 DEF Carries, Seen
  <2> QED
    BY <2>1, <2>3, <2>4, ReadersAwait
<1>5. CASE Analyse(c)
  BY <1>5, AskersAwait, ReadersAwait DEF Analyse, Asks, Carries, Seen
<1>6. CASE DiscardChecks(c)
  <2>1. Carries(Seen("discard", Present, None))
    BY DEF Carries, Seen
  <2> QED
    BY <1>6, <2>1, ReadersAwait DEF DiscardChecks
<1>7. ASSUME NEW n \in Names, FreezeLoads(c, n)
      PROVE  \E r : (r = Idle \/ Awaiting(r)) /\ Go(c, r)
  <2>1. Freezable \in SUBSET Present /\ Freezable # {}
    BY <1>7 DEF FreezeLoads, Freezable
  <2>2. Carries(Seen("freeze", Freezable, n))
    BY <2>1 DEF Carries, Seen
  <2> QED
    BY <1>7, <2>1, <2>2, ReadersAwait DEF FreezeLoads
<1>8. ASSUME NEW k \in corpora, DeleteChecks(c, k)
      PROVE  \E r : (r = Idle \/ Awaiting(r)) /\ Go(c, r)
  BY <1>8, AskersAwait DEF DeleteChecks
<1> QED
  BY <1>1, <1>2, <1>3, <1>4, <1>5, <1>6, <1>7, <1>8 DEF Request

LEMMA StepCarries ==
  ASSUME TablesTyped, ClientsTyped, NEW c \in Clients, Step(c)
  PROVE  \E r : (r = Idle \/ Awaiting(r)) /\ Go(c, r)
<1> DEFINE Goal == \E r : (r = Idle \/ Awaiting(r)) /\ Go(c, r)
           seen == client[c].seen
           more == client[c].more
<1>0. Present \subseteq FileIds /\ \A id \in Present : rows[id] \in Row
  BY PresentIsTyped
<1>a. ASSUME client[c].pc # "idle"
      PROVE  Awaiting(client[c]) /\ Snapshot(seen) /\ Carries(client[c])
  BY <1>a DEF ClientsTyped, Idle, Awaiting
<1>b. End(c) => Goal
  BY DEF End
<1>c. ASSUME NEW pc \in {"accepted", "unlinked", "discarded"}, client[c].pc # "idle",
             pc = "accepted" => client[c].pc = "add", Go(c, [client[c] EXCEPT !.pc = pc])
      PROVE  Goal
  <2>1. Awaiting([client[c] EXCEPT !.pc = pc])
    BY <1>a, <1>c DEF Awaiting, Carries
  <2> QED
    BY <1>c, <2>1
<1>1. CASE AddAccepts(c)
  BY <1>1, <1>c DEF AddAccepts, At
<1>2. CASE AddTooLarge(c) \/ AddCommits(c)
  BY <1>2, <1>b DEF AddTooLarge, AddCommits
<1>3. CASE RemoveUnlinks(c)
  BY <1>3, <1>b, <1>c DEF RemoveUnlinks, At
<1>4. CASE RemoveCommits(c) \/ RowCommits(c) \/ FreezeCommits(c) \/ DeleteCommits(c) \/ DiscardUnlinks(c)
  BY <1>4, <1>b DEF RemoveCommits, RowCommits, FreezeCommits, DeleteCommits, DiscardUnlinks
<1>5. CASE DiscardCommits(c)
  BY <1>5, <1>b, <1>c DEF DiscardCommits, At
<1>6. CASE StatusLoads(c)
  BY <1>6, <1>b, AskersAwait DEF StatusLoads
<1>f. AnalysisFails(c) => Goal
  BY AskersAwait DEF AnalysisFails, Asks
<1>7. CASE MarkCommits(c) \/ FailCommits(c)
  <2>1. ASSUME Go(c, Asks("list")) PROVE Goal
    BY <2>1, AskersAwait DEF Asks
  <2>2. ASSUME Go(c, Idle) PROVE Goal
    BY <2>2
  <2> QED
    BY <1>7, <1>b, <2>1, <2>2 DEF MarkCommits, FailCommits, SetStatus
<1>8. CASE AnalysisLoads(c)
  <2>1. Carries(Seen("read", Present, delivery.status))
    BY DEF Carries, Seen
  <2> QED
    BY <1>8, <1>f, <2>1, ReadersAwait DEF AnalysisLoads
<1>9. CASE AnalysisReads(c)
  <2> SUFFICES ASSUME Readable(seen), At(c, "read") PROVE Goal
    BY <1>9, <1>f DEF AnalysisReads
  <2> DEFINE new == [id \in DOMAIN seen |->
                       Analysed(seen[id], bytes[seen[id].path], Override(seen[id]))]
             r == [client[c] EXCEPT !.pc = "parsed", !.more = [status |-> @, new |-> new]]
  <2>1. Go(c, r)
    BY <1>9 DEF AnalysisReads
  <2>2. Awaiting(client[c]) /\ Snapshot(seen)
    BY <1>a DEF At
  <2>3. \A id \in DOMAIN seen : \E b \in Contents : new[id] = Analysed(seen[id], b, Override(seen[id]))
    BY <2>2, ReadBytes DEF Readable, Snapshot
  <2> HIDE DEF new
  <2>4. r.pc = "parsed" /\ r.seen = seen /\ r.more.new = new /\ DOMAIN r = {"pc", "seen", "more"}
    BY <2>2 DEF Awaiting
  <2>5. Awaiting(r)
    <3> HIDE DEF r
    <3> QED
      BY <2>2, <2>3, <2>4 DEF Awaiting, Carries
  <2> QED
    BY <2>1, <2>5
<1>10. CASE AnalysisCommits(c)
  BY <1>10, <1>b, <1>f DEF AnalysisCommits
<1>11. CASE ReparseReads(c)
  <2> DEFINE row == seen[more.id]
             s   == IF more.to = None THEN Override(row) ELSE more.to
             new == Analysed(row, bytes[row.path], s)
             r   == [client[c] EXCEPT !.pc = "reparsed", !.more = [id |-> @.id, new |-> new]]
  <2>1. At(c, "reparse") /\ Awaiting(client[c]) /\ Snapshot(seen) /\ Carries(client[c])
    BY <1>11, <1>a DEF ReparseReads, At
  <2>2. row \in Row /\ s \in Settings \cup {None}
    BY <2>1, OverrideIsASetting DEF At, Carries, Snapshot
  <2> SUFFICES ASSUME bytes[row.path] # None, Go(c, r) PROVE Goal
    BY <1>11, <1>b DEF ReparseReads
  <2>3. new \in Row
    <3> HIDE DEF row, s
    <3> QED
      BY <2>2, ReadIsARow
  <2> HIDE DEF new
  <2>4. r.pc = "reparsed" /\ r.seen = seen /\ r.more.new = new /\ DOMAIN r = {"pc", "seen", "more"}
    BY <2>1 DEF Awaiting
  <2>5. Awaiting(r)
    <3> HIDE DEF r
    <3> QED
      BY <2>1, <2>3, <2>4 DEF Awaiting, Carries
  <2> QED
    BY <2>5
<1>12. CASE FreezeReads(c)
  <2> DEFINE parsed == {Parsed(seen[id]) : id \in DOMAIN seen}
             r == [client[c] EXCEPT !.pc = "built",
                     !.more = [name |-> @, version |-> 0, parsed |-> parsed]]
  <2>1. At(c, "freeze") /\ Awaiting(client[c]) /\ Snapshot(seen) /\ DOMAIN seen # {}
    BY <1>12, <1>a DEF FreezeReads, At, Carries
  <2>2. parsed # {}
    BY <2>1
  <2> SUFFICES ASSUME ~Blocking(parsed), Go(c, r) PROVE Goal
    BY <1>12, <1>b DEF FreezeReads
  <2> HIDE DEF parsed
  <2>4. /\ r.pc = "built" /\ r.seen = seen /\ r.more.parsed = parsed
        /\ DOMAIN r = {"pc", "seen", "more"} /\ DOMAIN r.more = {"name", "version", "parsed"}
    BY <2>1 DEF Awaiting
  <2>5. Awaiting(r)
    <3> HIDE DEF r
    <3> QED
      BY <2>1, <2>2, <2>4 DEF Awaiting, Carries
  <2> QED
    BY <2>5
<1>13. CASE FreezeNumbers(c)
  <2> DEFINE v == NextVersion(more.name)
             r == [client[c] EXCEPT !.pc = "numbered", !.more.version = v]
  <2>1. At(c, "built") /\ Go(c, r)
    BY <1>13 DEF FreezeNumbers
  <2>2. /\ Awaiting(client[c]) /\ Snapshot(seen) /\ DOMAIN more = {"name", "version", "parsed"}
        /\ more.parsed # {} /\ ~Blocking(more.parsed)
    BY <1>a, <2>1 DEF At, Carries
  <2> HIDE DEF v
  <2>3. /\ r.pc = "numbered" /\ r.seen = seen /\ r.more.parsed = more.parsed
        /\ DOMAIN r = {"pc", "seen", "more"} /\ DOMAIN r.more = {"name", "version", "parsed"}
    BY <2>2 DEF Awaiting
  <2>4. Awaiting(r)
    <3> HIDE DEF r
    <3> QED
      BY <2>2, <2>3 DEF Awaiting, Carries
  <2> QED
    BY <2>1, <2>4
<1> QED
  BY <1>1, <1>2, <1>3, <1>4, <1>5, <1>6, <1>7, <1>8, <1>9, <1>10, <1>11, <1>12, <1>13 DEF Step

LEMMA ClientsTypedNext == TablesTyped /\ ClientsTyped /\ [Next]_vars => ClientsTyped'
<1> SUFFICES ASSUME TablesTyped, ClientsTyped, [Next]_vars PROVE ClientsTyped'
  OBVIOUS
<1>1. ASSUME NEW c \in Clients, Request(c) \/ Step(c) PROVE ClientsTyped'
  <2>1. PICK r : (r = Idle \/ Awaiting(r)) /\ Go(c, r)
    BY <1>1, RequestCarries, StepCarries
  <2> QED
    BY <2>1 DEF Go, ClientsTyped
<1>2. CASE Crash
  BY <1>2 DEF Crash, ClientsTyped
<1>3. CASE \/ Register \/ UNCHANGED vars
           \/ \E p \in Paths, b \in Contents \cup {None} : HostEdits(p, b)
           \/ \E k \in corpora : Cite(k)
  BY <1>3 DEF Register, HostEdits, Cite, vars, ClientsTyped
<1> QED
  BY <1>1, <1>2, <1>3 DEF Next

-----------------------------------------------------------------------------
(* The tables.                                                             *)

\* One row is replaced by a row or leaves.
LEMMA OneRowKeepsTables ==
  ASSUME TablesTyped, NEW id, NEW new \in Row \cup {None}, rows' = [rows EXCEPT ![id] = new],
         UNCHANGED <<delivery, bytes, crashes>>
  PROVE  TablesTyped'
BY DEF TablesTyped

\* One file is replaced by another or leaves.
LEMMA OneFileKeepsTables ==
  ASSUME TablesTyped, NEW p, NEW b \in Contents \cup {None}, bytes' = [bytes EXCEPT ![p] = b],
         UNCHANGED <<delivery, rows, crashes>>
  PROVE  TablesTyped'
BY DEF TablesTyped

LEMMA UntouchedTables ==
  ASSUME TablesTyped, UNCHANGED <<delivery, rows, bytes, crashes>>
  PROVE  TablesTyped'
BY DEF TablesTyped

LEMMA TablesTypedNext == TablesTyped /\ ClientsTyped /\ [Next]_vars => TablesTyped'
<1> SUFFICES ASSUME TablesTyped, ClientsTyped, [Next]_vars PROVE TablesTyped'
  OBVIOUS
<1>0. /\ Present \subseteq FileIds /\ \A id \in Present : rows[id] \in Row
      /\ \A id \in FileIds : rows[id] \in Row \cup {None}
  BY PresentIsTyped
<1>a. ASSUME NEW c \in Clients, client[c].pc # "idle"
      PROVE  Snapshot(client[c].seen) /\ Carries(client[c])
  BY <1>a DEF ClientsTyped, Idle, Awaiting
<1>1. CASE Register
  <2> DEFINE There == {p \in Paths : ~Upload /\ bytes[p] # None}
  <2>1. PICK f \in Injection(There, FileIds) :
          rows' = [id \in FileIds |->
                     IF id \in Range(f)
                     THEN Registered(AntiFunction(f)[id], bytes[AntiFunction(f)[id]]) ELSE None]
    BY <1>1 DEF Register
  <2>2. ASSUME NEW id \in Range(f)
        PROVE  Registered(AntiFunction(f)[id], bytes[AntiFunction(f)[id]]) \in Row
    <3>1. AntiFunction(f)[id] \in There
      BY <2>2, NumberedBack
    <3>2. AntiFunction(f)[id] \in Paths /\ bytes[AntiFunction(f)[id]] \in Contents
      BY <3>1 DEF TablesTyped
    <3> QED
      BY <3>2, RegisteredIsARow
  <2>3. rows' \in [FileIds -> Row \cup {None}]
    BY <2>1, <2>2
  <2> QED
    BY <1>1, <2>3 DEF Register, TablesTyped, Statuses
<1>2. CASE Crash
  BY <1>2 DEF Crash, TablesTyped
<1>3. ASSUME NEW p \in Paths, NEW b \in Contents \cup {None}, HostEdits(p, b) PROVE TablesTyped'
  BY <1>3, OneFileKeepsTables DEF HostEdits
<1>4. ASSUME NEW k \in corpora, Cite(k) PROVE TablesTyped'
  BY <1>4, UntouchedTables DEF Cite
<1>5. ASSUME NEW c \in Clients, Request(c) PROVE TablesTyped'
  BY <1>5, UntouchedTables DEF Request, AddLoads, RemoveLoads, ReparseLoads, SelectLoads, Analyse,
       DiscardChecks, FreezeLoads, DeleteChecks
<1>6. ASSUME NEW c \in Clients, Step(c) PROVE TablesTyped'
  <2> DEFINE seen == client[c].seen
             more == client[c].more
  <2>1. CASE AddAccepts(c)
    <3>1. more.content \in Contents
      BY <1>a, <2>1 DEF AddAccepts, At, Carries
    <3> QED
      BY <2>1, <3>1, OneFileKeepsTables DEF AddAccepts
  <2>2. CASE AddTooLarge(c)
    BY <2>2, OneFileKeepsTables DEF AddTooLarge
  <2>3. CASE AddCommits(c)
    <3> DEFINE p == more.path
               b == more.content
               old == {id \in DOMAIN seen : seen[id].path = p}
    <3>1. Snapshot(seen) /\ p \in Paths /\ b \in Contents
      BY <1>a, <2>3 DEF AddCommits, At, Carries
    <3>2. ASSUME NEW id \in old \cap Present,
                 rows' = [rows EXCEPT ![id] = Written(rows[id], seen[id], Cleared(seen[id], b))]
          PROVE  TablesTyped'
      <4>1. seen[id] \in Row /\ rows[id] \in Row
        BY <1>0, <3>1 DEF Snapshot
      <4>2. ASSUME NEW row \in Row PROVE Cleared(row, b) \in Row
        BY <3>1 DEF Cleared, Row
      <4>3. Written(rows[id], seen[id], Cleared(seen[id], b)) \in Row
        BY <4>1, <4>2, WrittenIsARow
      <4> QED
        BY <2>3, <3>2, <4>3, OneRowKeepsTables DEF AddCommits
    <3>3. ASSUME NEW id \in FileIds, rows' = [rows EXCEPT ![id] = Registered(p, b)]
          PROVE  TablesTyped'
      BY <2>3, <3>1, <3>3, RegisteredIsARow, OneRowKeepsTables DEF AddCommits
    <3>4. ASSUME rows' = rows PROVE TablesTyped'
      BY <2>3, <3>4, UntouchedTables DEF AddCommits
    <3> QED
      BY <2>3, <3>2, <3>3, <3>4 DEF AddCommits
  <2>4. CASE RemoveUnlinks(c)
    BY <2>4, OneFileKeepsTables, UntouchedTables DEF RemoveUnlinks
  <2>5. CASE RemoveCommits(c)
    BY <2>5, OneRowKeepsTables DEF RemoveCommits
  <2>6. CASE MarkCommits(c) \/ FailCommits(c)
    BY <2>6 DEF MarkCommits, FailCommits, SetStatus, TablesTyped, Statuses
  <2>7. CASE AnalysisCommits(c)
    <3>1. CASE ~Exists \/ ~(DOMAIN seen \subseteq Present)
      BY <2>7, <3>1, UntouchedTables DEF AnalysisCommits
    <3>2. CASE Exists /\ DOMAIN seen \subseteq Present
      <4>1. Snapshot(seen) /\ \A id \in DOMAIN seen : \E b \in Contents :
                                more.new[id] = Analysed(seen[id], b, Override(seen[id]))
        BY <1>a, <2>7 DEF AnalysisCommits, At, Carries
      <4>2. \A id \in DOMAIN seen : more.new[id] \in Row
        BY <4>1, OverrideIsASetting, AnalysedIsARow DEF Snapshot
      <4>3. \A id \in DOMAIN seen : AnalysisWritten(rows[id], seen[id], more.new[id]) \in Row
        BY <1>0, <3>2, <4>2, WrittenIsARow
      <4>4. rows' = [id \in FileIds |-> IF id \in DOMAIN seen
                       THEN AnalysisWritten(rows[id], seen[id], more.new[id]) ELSE rows[id]]
        BY <2>7, <3>2 DEF AnalysisCommits
      <4>5. rows' \in [FileIds -> Row \cup {None}]
        BY <1>0, <4>3, <4>4
      <4> QED
        BY <2>7, <3>2, <4>5 DEF AnalysisCommits, TablesTyped, Statuses
    <3> QED
      BY <3>1, <3>2
  <2>8. CASE RowCommits(c)
    <3> DEFINE id == more.id
    <3>1. more.new \in Row
      BY <1>a, <2>8 DEF RowCommits, Carries
    <3>2. CASE id \notin Present
      BY <2>8, <3>2, UntouchedTables DEF RowCommits
    <3>3. CASE id \in Present
      <4>1. Written(rows[id], seen[id], more.new) \in Row /\ AnalysisWritten(rows[id], seen[id], more.new) \in Row
        BY <1>0, <3>1, <3>3, WrittenIsARow
      <4> QED
        BY <2>8, <3>3, <4>1, OneRowKeepsTables DEF RowCommits
    <3> QED
      BY <3>2, <3>3
  <2>9. CASE DiscardCommits(c)
    BY <2>9 DEF DiscardCommits, TablesTyped
  <2>10. CASE DiscardUnlinks(c)
    <3>1. bytes' = [p \in Paths |-> IF \E id \in DOMAIN seen : seen[id].path = p THEN None ELSE bytes[p]]
      BY <2>10 DEF DiscardUnlinks
    <3>2. \A p \in Paths : bytes[p] \in Contents \cup {None}
      BY DEF TablesTyped
    <3>3. bytes' \in [Paths -> Contents \cup {None}]
      <4> HIDE DEF seen
      <4> QED
        BY <3>1, <3>2
    <3>4. UNCHANGED <<delivery, rows, crashes>>
      BY <2>10 DEF DiscardUnlinks
    <3> QED
      BY <3>3, <3>4 DEF TablesTyped
  <2>11. CASE \/ StatusLoads(c) \/ AnalysisLoads(c) \/ AnalysisReads(c) \/ ReparseReads(c)
              \/ FreezeReads(c) \/ FreezeNumbers(c) \/ FreezeCommits(c) \/ DeleteCommits(c)
    BY <2>11, UntouchedTables DEF StatusLoads, AnalysisLoads, AnalysisReads, ReparseReads,
         FreezeReads, FreezeNumbers, FreezeCommits, DeleteCommits
  <2> QED
    BY <1>6, <2>1, <2>2, <2>3, <2>4, <2>5, <2>6, <2>7, <2>8, <2>9, <2>10, <2>11 DEF Step
<1>7. CASE UNCHANGED vars
  BY <1>7, UntouchedTables DEF vars
<1> QED
  BY <1>1, <1>2, <1>3, <1>4, <1>5, <1>6, <1>7 DEF Next

-----------------------------------------------------------------------------
(* The corpora.                                                            *)

\* A freeze adds the corpus it built, under a number its name has not got.
LEMMA FreezeAddsItsCorpus ==
  ASSUME ClientsTyped, NEW c \in Clients, FreezeCommits(c)
  PROVE  \/ corpora' = corpora
         \/ /\ corpora' = corpora \cup {Corpus(c)} /\ DOMAIN Corpus(c) = CorpusColumns
            /\ Corpus(c).parsed # {} /\ ~Blocking(Corpus(c).parsed)
            /\ \A k \in corpora : ~(k.name = Corpus(c).name /\ k.version = Corpus(c).version)
<1>1. client[c].more.parsed # {} /\ ~Blocking(client[c].more.parsed)
  BY DEF FreezeCommits, At, ClientsTyped, Idle, Awaiting, Carries
<1>2. DOMAIN Corpus(c) = CorpusColumns /\ Corpus(c).parsed = client[c].more.parsed
  BY DEF Corpus, CorpusColumns
<1>3. Corpus(c).version \notin Versions(Corpus(c).name) =>
        \A k \in corpora : ~(k.name = Corpus(c).name /\ k.version = Corpus(c).version)
  BY DEF Versions
<1> QED
  BY <1>1, <1>2, <1>3 DEF FreezeCommits

\* Of every step: a corpus is taken out, is changed beside what it was built
\* from, or is added by a freeze; one that is cited is not taken out.
LEMMA CorporaStep ==
  ASSUME TablesTyped, ClientsTyped, CorporaTyped, CorpusIsValidated, OneCorpusPerVersion, [Next]_vars
  PROVE  /\ CorporaTyped' /\ CorpusIsValidated' /\ OneCorpusPerVersion'
         /\ \A k \in corpora : k.cited =>
              \E j \in corpora' : j.name = k.name /\ j.version = k.version
<1> DEFINE Goal == /\ CorporaTyped' /\ CorpusIsValidated' /\ OneCorpusPerVersion'
                   /\ \A k \in corpora : k.cited =>
                        \E j \in corpora' : j.name = k.name /\ j.version = k.version
<1>0. corpora' \subseteq corpora /\ (\A k \in corpora : k.cited => k \in corpora') => Goal
  BY DEF CorporaTyped, CorpusIsValidated, OneCorpusPerVersion, Blocking
<1>1. ASSUME NEW c \in Clients, FreezeCommits(c) PROVE Goal
  <2> SUFFICES ASSUME /\ corpora' = corpora \cup {Corpus(c)} /\ DOMAIN Corpus(c) = CorpusColumns
                      /\ Corpus(c).parsed # {} /\ ~Blocking(Corpus(c).parsed)
                      /\ \A k \in corpora : ~(k.name = Corpus(c).name /\ k.version = Corpus(c).version)
               PROVE  Goal
    BY <1>0, <1>1, FreezeAddsItsCorpus
  <2>1. CorporaTyped'
    BY DEF CorporaTyped
  <2>2. CorpusIsValidated'
    BY DEF CorpusIsValidated, Blocking
  <2>3. OneCorpusPerVersion'
    BY DEF OneCorpusPerVersion
  <2> QED
    BY <2>1, <2>2, <2>3
<1>2. ASSUME NEW c \in Clients, DeleteCommits(c) PROVE Goal
  BY <1>0, <1>2 DEF DeleteCommits
<1>3. ASSUME NEW k \in corpora, Cite(k) PROVE Goal
  <2> DEFINE new == [k EXCEPT !.cited = TRUE]
  <2>1. /\ DOMAIN new = CorpusColumns /\ new.name = k.name /\ new.version = k.version
        /\ new.parsed = k.parsed
    BY DEF CorporaTyped, CorpusColumns
  <2>2. corpora' = (corpora \ {k}) \cup {new}
    BY <1>3 DEF Cite
  <2> HIDE DEF new
  <2>3. CorporaTyped'
    BY <2>1, <2>2 DEF CorporaTyped
  <2>4. CorpusIsValidated'
    BY <2>1, <2>2 DEF CorpusIsValidated, Blocking
  <2>5. OneCorpusPerVersion'
    BY <2>1, <2>2 DEF OneCorpusPerVersion
  <2> QED
    BY <2>1, <2>2, <2>3, <2>4, <2>5
<1>4. ASSUME NEW c \in Clients, DiscardCommits(c) PROVE Goal
  <2> DEFINE Kept(k) == [k EXCEPT !.from = None]
  <2>1. \A k \in corpora : /\ DOMAIN Kept(k) = CorpusColumns /\ Kept(k).name = k.name
                           /\ Kept(k).version = k.version /\ Kept(k).parsed = k.parsed
    BY DEF CorporaTyped, CorpusColumns
  <2>2. corpora' = {Kept(k) : k \in corpora}
    BY <1>4 DEF DiscardCommits
  <2> HIDE DEF Kept
  <2>3. CorporaTyped'
    BY <2>1, <2>2 DEF CorporaTyped
  <2>4. CorpusIsValidated'
    BY <2>1, <2>2 DEF CorpusIsValidated, Blocking
  <2>5. OneCorpusPerVersion'
    BY <2>1, <2>2 DEF OneCorpusPerVersion
  <2> QED
    BY <2>1, <2>2, <2>3, <2>4, <2>5
<1>5. CASE \/ Register \/ Crash \/ UNCHANGED vars
           \/ \E p \in Paths, b \in Contents \cup {None} : HostEdits(p, b)
  BY <1>0, <1>5 DEF Register, Crash, HostEdits, vars
<1>6. ASSUME NEW c \in Clients, Request(c) PROVE Goal
  BY <1>0, <1>6 DEF Request, AddLoads, RemoveLoads, ReparseLoads, SelectLoads, Analyse, DiscardChecks,
       FreezeLoads, DeleteChecks
<1>7. ASSUME NEW c \in Clients, Step(c) PROVE Goal
  BY <1>0, <1>1, <1>2, <1>4, <1>7 DEF Step, AddAccepts, AddTooLarge, AddCommits, RemoveUnlinks,
       RemoveCommits, StatusLoads, MarkCommits, FailCommits, SetStatus, AnalysisLoads, AnalysisReads,
       AnalysisCommits, ReparseReads, RowCommits, FreezeReads, FreezeNumbers, DiscardUnlinks
<1> QED
  BY <1>3, <1>5, <1>6, <1>7 DEF Next

-----------------------------------------------------------------------------
(* The analyses under way.                                                 *)

\* A request other than the one that moves stays where it is.
LEMMA OthersStay ==
  ASSUME ClientsTyped, NEW c \in Clients, NEW r, Go(c, r)
  PROVE  client'[c] = r /\ \A d \in Clients \ {c} : client'[d] = client[d]
BY DEF Go, ClientsTyped

\* Where the status does not become analysing, it is enough that the request
\* that moves was not the one to write it, or still is.
LEMMA MarkersRemain ==
  ASSUME ClientsTyped, AnalysingWillBeMarked, NEW c \in Clients, NEW r, Go(c, r), crashes' = crashes,
         delivery'.status = "analysing" => /\ delivery.status = "analysing"
                                           /\ WillMark(client[c]) => WillMark(r)
  PROVE  AnalysingWillBeMarked'
<1>1. client'[c] = r /\ \A d \in Clients \ {c} : client'[d] = client[d]
  BY OthersStay
<1> SUFFICES ASSUME delivery'.status = "analysing", crashes' = 0
             PROVE  \E d \in Clients : WillMark(client'[d])
  BY DEF AnalysingWillBeMarked, WillMark
<1>2. PICK d \in Clients : WillMark(client[d])
  BY DEF AnalysingWillBeMarked
<1> QED
  BY <1>1, <1>2

LEMMA MarkersNext ==
  TablesTyped /\ ClientsTyped /\ AnalysingWillBeMarked /\ [Next]_vars => AnalysingWillBeMarked'
<1> SUFFICES ASSUME TablesTyped, ClientsTyped, AnalysingWillBeMarked, [Next]_vars
             PROVE  AnalysingWillBeMarked'
  OBVIOUS
<1>0. None \notin Statuses
  BY DeliveryAssumption DEF Statuses
<1>1. CASE UNCHANGED vars \/ (\E p \in Paths, b \in Contents \cup {None} : HostEdits(p, b))
           \/ (\E k \in corpora : Cite(k))
  BY <1>1 DEF HostEdits, Cite, vars, AnalysingWillBeMarked
<1>2. CASE Register
  BY <1>2 DEF Register, TablesTyped, AnalysingWillBeMarked
<1>3. CASE Crash
  <2>1. crashes' # 0
    BY <1>3 DEF Crash, TablesTyped
  <2> QED
    BY <2>1 DEF AnalysingWillBeMarked
<1>4. ASSUME NEW c \in Clients, Request(c) PROVE AnalysingWillBeMarked'
  <2>1. PICK r : Go(c, r)
    BY <1>4, RequestCarries
  <2>2. At(c, "idle") /\ UNCHANGED <<delivery, crashes>>
    BY <1>4 DEF Request, AddLoads, RemoveLoads, ReparseLoads, SelectLoads, Analyse, DiscardChecks,
         FreezeLoads, DeleteChecks, Begins
  <2> QED
    BY <2>1, <2>2, MarkersRemain DEF At, WillMark
<1>5. ASSUME NEW c \in Clients, Step(c) PROVE AnalysingWillBeMarked'
  <2> DEFINE more == client[c].more
  <2>1. CASE \/ AddAccepts(c) \/ AddTooLarge(c) \/ AddCommits(c) \/ RemoveUnlinks(c) \/ RemoveCommits(c)
             \/ ReparseReads(c) \/ RowCommits(c) \/ FreezeReads(c) \/ FreezeNumbers(c)
             \/ FreezeCommits(c) \/ DeleteCommits(c) \/ DiscardUnlinks(c)
    <3>1. PICK r : Go(c, r)
      BY <1>5, StepCarries
    <3>2. UNCHANGED <<delivery, crashes>> /\ ~WillMark(client[c])
      BY <2>1 DEF AddAccepts, AddTooLarge, AddCommits, RemoveUnlinks, RemoveCommits, ReparseReads,
           RowCommits, FreezeReads, FreezeNumbers, FreezeCommits, DeleteCommits, DiscardUnlinks,
           At, WillMark
    <3> QED
      BY <3>1, <3>2, MarkersRemain
  <2>2. CASE DiscardCommits(c)
    <3>1. delivery'.status # "analysing"
      BY <1>0, <2>2 DEF DiscardCommits, TablesTyped, Statuses
    <3> QED
      BY <3>1 DEF AnalysingWillBeMarked
  <2>3. CASE StatusLoads(c)
    <3> DEFINE r == IF Exists THEN Seen(IF At(c, "mark") THEN "marking" ELSE "failing", {}, delivery.status)
                    ELSE Idle
    <3>1. Go(c, r) /\ UNCHANGED <<delivery, crashes>> /\ client[c].pc \in {"mark", "fail"}
      BY <2>3 DEF StatusLoads, End
    <3>2. delivery.status = "analysing" /\ WillMark(client[c]) => WillMark(r)
      BY <1>0, <3>1 DEF WillMark, At, Seen, Exists, Statuses
    <3> HIDE DEF r
    <3> QED
      BY <3>1, <3>2, MarkersRemain
  <2>4. CASE MarkCommits(c)
    <3>1. CASE Exists \/ more = "analysing"
      <4>1. Go(c, Asks("list"))
        BY <2>4, <3>1 DEF MarkCommits, SetStatus
      <4>2. client'[c] = Asks("list")
        BY <4>1, OthersStay
      <4> QED
        BY <4>2 DEF AnalysingWillBeMarked, WillMark, Asks, Seen
    <3>2. CASE ~Exists /\ more # "analysing"
      <4>1. delivery' = delivery /\ delivery.status = None
        BY <2>4, <3>2 DEF MarkCommits, SetStatus, Exists
      <4> QED
        BY <1>0, <4>1 DEF AnalysingWillBeMarked, Statuses
    <3> QED
      BY <3>1, <3>2
  <2>5. CASE FailCommits(c)
    <3>1. At(c, "failing") /\ Go(c, Idle) /\ crashes' = crashes
      BY <2>5 DEF FailCommits, SetStatus, End
    <3>2. CASE more = "failed"
      <4>1. delivery' = delivery /\ ~WillMark(client[c])
        BY <2>5, <3>1, <3>2 DEF FailCommits, SetStatus, WillMark, At
      <4> QED
        BY <3>1, <4>1, MarkersRemain
    <3>3. CASE more # "failed"
      <4>1. delivery'.status # "analysing"
        BY <1>0, <2>5, <3>3 DEF FailCommits, SetStatus, Exists, TablesTyped, Statuses
      <4> QED
        BY <4>1 DEF AnalysingWillBeMarked
    <3> QED
      BY <3>2, <3>3
  <2>6. CASE AnalysisLoads(c)
    <3> DEFINE r == IF Exists THEN Seen("read", Present, delivery.status) ELSE Asks("fail")
    <3>1. Go(c, r) /\ UNCHANGED <<delivery, crashes>>
      BY <2>6 DEF AnalysisLoads, AnalysisFails
    <3>2. delivery.status = "analysing" => WillMark(r)
      BY <1>0 DEF WillMark, Seen, Asks
    <3> HIDE DEF r
    <3> QED
      BY <3>1, <3>2, MarkersRemain
  <2>f. ASSUME AnalysisFails(c), UNCHANGED <<delivery, crashes>> PROVE AnalysingWillBeMarked'
    <3>1. WillMark(Asks("fail"))
      BY DEF WillMark, Asks, Seen
    <3> QED
      BY <2>f, <3>1, MarkersRemain DEF AnalysisFails
  <2>7. CASE AnalysisReads(c)
    <3> DEFINE new == [id \in DOMAIN client[c].seen |-> Analysed(client[c].seen[id],
                         bytes[client[c].seen[id].path], Override(client[c].seen[id]))]
               r == [client[c] EXCEPT !.pc = "parsed", !.more = [status |-> @, new |-> new]]
    <3>1. AnalysisFails(c) \/ Go(c, r)
      BY <2>7 DEF AnalysisReads
    <3>2. At(c, "read") /\ UNCHANGED <<delivery, crashes>>
      BY <2>7 DEF AnalysisReads
    <3>3. DOMAIN client[c] = {"pc", "seen", "more"}
      BY <3>2 DEF At, ClientsTyped, Idle, Awaiting
    <3> HIDE DEF new
    <3>4. r.pc = "parsed" /\ r.more.status = more
      BY <3>3
    <3> HIDE DEF r
    <3>5. WillMark(client[c]) => WillMark(r)
      BY <3>2, <3>4 DEF WillMark, At
    <3> QED
      BY <2>f, <3>1, <3>2, <3>5, MarkersRemain
  <2>8. CASE AnalysisCommits(c)
    <3>1. CASE ~Exists \/ ~(DOMAIN client[c].seen \subseteq Present)
      BY <2>8, <2>f, <3>1 DEF AnalysisCommits
    <3>2. CASE Exists /\ DOMAIN client[c].seen \subseteq Present
      <4>1. /\ At(c, "parsed") /\ Go(c, Idle) /\ crashes' = crashes
            /\ delivery' = IF more.status # "analysed"
                           THEN [delivery EXCEPT !.status = "analysed"] ELSE delivery
        BY <2>8, <3>2 DEF AnalysisCommits, End
      <4>2. CASE more.status = "analysed"
        <5>1. ~WillMark(client[c])
          BY <4>1, <4>2 DEF WillMark, At
        <5> QED
          BY <4>1, <4>2, <5>1, MarkersRemain
      <4>3. CASE more.status # "analysed"
        <5>1. delivery'.status = "analysed"
          BY <4>1, <4>3 DEF TablesTyped
        <5> QED
          BY <5>1 DEF AnalysingWillBeMarked
      <4> QED
        BY <4>2, <4>3
    <3> QED
      BY <3>1, <3>2
  <2> QED
    BY <1>5, <2>1, <2>2, <2>3, <2>4, <2>5, <2>6, <2>7, <2>8 DEF Step
<1> QED
  BY <1>1, <1>2, <1>3, <1>4, <1>5 DEF Next

-----------------------------------------------------------------------------
(* The theorems.                                                           *)

LEMMA DeliveryInvNext == DeliveryInv /\ [Next]_vars => DeliveryInv'
BY TablesTypedNext, ClientsTypedNext, CorporaStep, MarkersNext DEF DeliveryInv

LEMMA DeliveryInvHolds == Spec => []DeliveryInv
BY DeliveryInvInit, DeliveryInvNext, PTL DEF Spec

\* However freezes overlap uploads, overrides, discards and one another, a
\* corpus holds what one validation accepted (corpus_service.py, freeze).
THEOREM CorporaAreValidated == Spec => []CorpusIsValidated
<1>1. DeliveryInv => CorpusIsValidated
  BY DEF DeliveryInv
<1> QED
  BY <1>1, DeliveryInvHolds, PTL

\* Two freezes that read the same next version make one corpus of it
\* (corpus_service.py, next_version and uq_corpus_name_version).
THEOREM VersionsAreOneEach == Spec => []OneCorpusPerVersion
<1>1. DeliveryInv => OneCorpusPerVersion
  BY DEF DeliveryInv
<1> QED
  BY <1>1, DeliveryInvHolds, PTL

\* While the process lives, a delivery that says analysing has a request that
\* will write its status again (delivery_service.py, analyse).
THEOREM AnalysesAreWorkedOn == Spec => []AnalysingIsWorkedOn
<1>1. DeliveryInv => AnalysingIsWorkedOn
  BY DEF DeliveryInv, AnalysingWillBeMarked, WillMark, AnalysingIsWorkedOn
<1> QED
  BY <1>1, DeliveryInvHolds, PTL

\* A corpus an evaluation cites outlives the deletes that were checked before
\* it was cited (CorpusService.delete, evaluation.corpus_id).
THEOREM CitedCorporaStay == Spec => CitedCorpusStays
<1>1. DeliveryInv /\ [Next]_vars =>
        [\A k \in corpora : k.cited => \E j \in corpora' : j.name = k.name /\ j.version = k.version]_vars
  BY CorporaStep DEF DeliveryInv
<1> QED
  BY <1>1, DeliveryInvHolds, PTL DEF Spec, CitedCorpusStays

\* The analysis of one row commits the override that row showed, or nothing
\* where the file does not decode under it.
LEMMA CommitKeepsOverride ==
  ASSUME TablesTyped, ClientsTyped, NEW c \in Clients, AnalysisCommits(c), client'[c].pc = "idle",
         NEW id \in DOMAIN client[c].seen \cap Present, Override(client[c].seen[id]) # None
  PROVE  \/ rows'[id].eff = rows[id].eff
         \/ /\ rows'[id].eff = None
            /\ <<client[c].more.new[id].report[1], Override(client[c].seen[id])>> \in Undecodable
<1> DEFINE seen == client[c].seen
           new  == client[c].more.new[id]
           o    == Override(seen[id])
<1>1. Awaiting(client[c]) /\ At(c, "parsed")
  BY DEF AnalysisCommits, At, ClientsTyped, Idle
<1>2. seen[id] \in Row /\ rows[id] \in Row /\ id \in FileIds
  BY <1>1, PresentIsTyped DEF Awaiting, Snapshot
<1>3. PICK b \in Contents : new = Analysed(seen[id], b, o)
  BY <1>1 DEF Awaiting, Carries, At
<1>4. o \in Settings \cup {None} /\ o # None /\ seen[id].eff = o
  BY <1>2, OverrideIsASetting
<1>5. new.eff = Effective(o, b) /\ new.report[1] = b
  BY <1>2, <1>3 DEF Analysed, Row
<1>6. new.eff = o \/ (new.eff = None /\ <<new.report[1], o>> \in Undecodable)
  <2> HIDE DEF new, o
  <2> QED
    BY <1>4, <1>5, EffectiveIsASetting
<1>7. rows'[id] = AnalysisWritten(rows[id], seen[id], new)
  <2>1. ~AnalysisFails(c)
    <3>1. AnalysisFails(c) => client'[c].pc = "fail"
      BY OthersStay DEF AnalysisFails, Asks, Seen
    <3> QED
      BY <3>1
  <2> QED
    BY <1>2, <2>1 DEF AnalysisCommits
<1>8. rows'[id].eff = IF new.eff # seen[id].eff THEN new.eff ELSE rows[id].eff
  BY <1>2, <1>7 DEF AnalysisWritten, Written, Row
<1> QED
  BY <1>4, <1>6, <1>8

\* A step that takes a request from "parsed" to its end commits its analysis,
\* or is the death of the process.
LEMMA ParsedEnds ==
  ASSUME ClientsTyped, [Next]_vars, NEW c \in Clients, At(c, "parsed"), client'[c].pc = "idle"
  PROVE  AnalysisCommits(c) \/ rows' = rows
<1>1. ASSUME NEW d \in Clients, Request(d) \/ Step(d) PROVE AnalysisCommits(c) \/ rows' = rows
  <2>1. CASE d = c
    <3>1. Step(c) => AnalysisCommits(c)
      <4>1. /\ ~AddAccepts(c) /\ ~AddTooLarge(c) /\ ~AddCommits(c) /\ ~RemoveUnlinks(c)
            /\ ~RemoveCommits(c) /\ ~StatusLoads(c) /\ ~MarkCommits(c)
        BY DEF AddAccepts, AddTooLarge, AddCommits, RemoveUnlinks, RemoveCommits, StatusLoads,
             MarkCommits, At
      <4>2. /\ ~FailCommits(c) /\ ~AnalysisLoads(c) /\ ~AnalysisReads(c) /\ ~ReparseReads(c)
            /\ ~RowCommits(c) /\ ~FreezeReads(c)
        BY DEF FailCommits, AnalysisLoads, AnalysisReads, ReparseReads, RowCommits, FreezeReads, At
      <4>3. /\ ~FreezeNumbers(c) /\ ~FreezeCommits(c) /\ ~DeleteCommits(c) /\ ~DiscardCommits(c)
            /\ ~DiscardUnlinks(c)
        BY DEF FreezeNumbers, FreezeCommits, DeleteCommits, DiscardCommits, DiscardUnlinks, At
      <4> QED
        BY <4>1, <4>2, <4>3 DEF Step
    <3>2. ~Request(c)
      BY DEF Request, AddLoads, RemoveLoads, ReparseLoads, SelectLoads, Analyse, DiscardChecks,
           FreezeLoads, DeleteChecks, Begins, At
    <3> QED
      BY <1>1, <2>1, <3>1, <3>2
  <2>2. CASE d # c
    <3>1. PICK r : Go(d, r)
      BY <1>1 DEF Request, Step, AddLoads, RemoveLoads, ReparseLoads, SelectLoads, Analyse,
           DiscardChecks, FreezeLoads, DeleteChecks, AddAccepts, AddTooLarge, AddCommits,
           RemoveUnlinks, RemoveCommits, StatusLoads, MarkCommits, FailCommits, SetStatus,
           AnalysisLoads, AnalysisFails, AnalysisReads, AnalysisCommits, ReparseReads, RowCommits,
           FreezeReads, FreezeNumbers, FreezeCommits, DeleteCommits, DiscardCommits,
           DiscardUnlinks, End
    <3>2. client'[c] = client[c]
      BY <2>2, <3>1, OthersStay
    <3>3. client[c].pc = "parsed"
      BY DEF At
    <3>4. client'[c].pc = "parsed"
      BY <3>2, <3>3
    <3> QED
      BY <3>4
  <2> QED
    BY <2>1, <2>2
<1>2. CASE \/ Crash \/ UNCHANGED vars \/ (\E p \in Paths, b \in Contents \cup {None} : HostEdits(p, b))
           \/ (\E k \in corpora : Cite(k))
  BY <1>2 DEF Crash, vars, HostEdits, Cite
<1>3. CASE Register
  BY <1>3 DEF Register, At
<1> QED
  BY <1>1, <1>2, <1>3 DEF Next

\* An override an analysis found on a row is the setting it commits, whatever
\* else changed the row and the file meanwhile, unless the file does not
\* decode under it (delivery_service.py, effective_overrides).
THEOREM OverridesAreKept == Spec => AnalysisKeepsOverrides
<1>1. ASSUME TablesTyped, ClientsTyped, [Next]_vars, NEW c \in Clients, At(c, "parsed"),
             client'[c].pc = "idle", NEW id \in DOMAIN client[c].seen \cap Present,
             Override(client[c].seen[id]) # None
      PROVE  \/ rows'[id].eff = rows[id].eff
             \/ /\ rows'[id].eff = None
                /\ <<client[c].more.new[id].report[1], Override(client[c].seen[id])>> \in Undecodable
  BY <1>1, ParsedEnds, CommitKeepsOverride
<1>2. DeliveryInv /\ [Next]_vars =>
        [\A c \in Clients : At(c, "parsed") /\ client'[c].pc = "idle" =>
           \A id \in DOMAIN client[c].seen \cap Present :
             LET override == Override(client[c].seen[id])
             IN override # None =>
                  \/ rows'[id].eff = rows[id].eff
                  \/ /\ rows'[id].eff = None
                     /\ <<client[c].more.new[id].report[1], override>> \in Undecodable]_vars
  BY <1>1 DEF DeliveryInv
<1> QED
  BY <1>2, DeliveryInvHolds, PTL DEF Spec, AnalysisKeepsOverrides
=============================================================================
