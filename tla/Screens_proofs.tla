--------------------------- MODULE Screens_proofs ---------------------------
(***************************************************************************)
(* What the screens promise whoever looks at them, for every number of     *)
(* overlapping handlers.                                                   *)
(***************************************************************************)
EXTENDS Screens, Tabs_proofs, FiniteSetTheorems, TLAPS

-----------------------------------------------------------------------------
(* The Evaluation page: the newest read of the database owns the screen.   *)

\* A read of the database that no later one overtook.
Owner(t) == Reading(t) /\ coroutine[t].seq = page.localSeq

Coroutine == [pc : {"idle", "write", "wrote", "read", "paint", "socket"}, kind : Kinds, seq : Nat,
              ask : Nat, setupOnly : BOOLEAN, polls : BOOLEAN, edits : Nat, conn : Nat,
              runs : Active \cup {"none", "done"}]

PageObject == [localSeq : Nat, endpointSeq : Nat, asking : BOOLEAN, loading : BOOLEAN,
               fullPending : BOOLEAN, timer : BOOLEAN, edits : Nat, conn : Nat,
               runs : Active \cup {"none", "done"}]

ScreenObject == [edits : Nat, conn : Nat, runs : Active \cup {"none", "done"}]

PageTyped ==
  /\ saved \in Nat
  /\ work \in Active \cup {"none", "done"}
  /\ page \in PageObject
  /\ screen \in ScreenObject
  /\ coroutine \in [Tasks -> Coroutine] /\ coroutine["tick"].pc \in {"idle", "read", "paint"}

\* Reads are numbered in the order they begin, each by its own number.
ReadsAreNumbered ==
  /\ \A t \in Tasks : coroutine[t].seq <= page.localSeq
  /\ \A s, t \in Tasks : Owner(s) /\ Owner(t) => s = t

\* Nothing shows, and the owner of the screen paints, more than is committed;
\* the owner has read no less than what is painted.
ScreenIsBehind ==
  /\ screen.edits <= saved
  /\ \A t \in Tasks : coroutine[t].edits <= saved
  /\ \A t \in Tasks : Owner(t) /\ coroutine[t].pc = "paint" => screen.edits <= coroutine[t].edits

\* A full paint that is owed has an owner, who pays whatever else it paints.
DebtHasAnOwner == page.fullPending => \E t \in Tasks : Owner(t)

PageInv == PageTyped /\ ReadsAreNumbered /\ ScreenIsBehind /\ DebtHasAnOwner

LEMMA PageInvInit == PageInit => PageInv
<1> SUFFICES ASSUME PageInit PROVE PageInv
  OBVIOUS
<1> DEFINE first == [Idle EXCEPT !.pc = "read", !.kind = "reload", !.seq = 1, !.ask = 1]
<1>1. Idle \in Coroutine /\ first \in Coroutine
  BY DEF Idle, Coroutine, Kinds, Active
<1>2. coroutine = [t \in Tasks |-> IF t = "build" THEN first ELSE Idle] /\ page.localSeq = 1
  BY DEF PageInit
<1>3. PageTyped
  <2>1. coroutine \in [Tasks -> Coroutine] /\ coroutine["tick"].pc = "idle"
    <3>1. coroutine["tick"] = Idle
      BY <1>2 DEF Tasks
    <3>2. Idle.pc = "idle"
      BY DEF Idle
    <3> HIDE DEF first
    <3> QED
      BY <1>1, <1>2, <3>1, <3>2
  <2> QED
    BY <2>1 DEF PageInit, PageTyped, PageObject, ScreenObject, Active
<1>4. first.pc = "read" /\ first.seq = 1 /\ first.edits = 0 /\ Idle.pc = "idle" /\ Idle.seq = 0 /\ Idle.edits = 0
  BY DEF Idle
<1>5. "build" \in Tasks /\ Owner("build") /\ \A t \in Tasks : Owner(t) => t = "build"
  <2> HIDE DEF first
  <2> QED
    BY <1>2, <1>4 DEF Owner, Reading, Tasks
<1>6. ReadsAreNumbered /\ DebtHasAnOwner
  <2> HIDE DEF first
  <2> QED
    BY <1>2, <1>4, <1>5 DEF ReadsAreNumbered, DebtHasAnOwner
<1>7. ScreenIsBehind
  <2>1. saved = 0 /\ screen.edits = 0
    BY DEF PageInit
  <2> HIDE DEF first
  <2> QED
    BY <1>2, <1>4, <2>1 DEF ScreenIsBehind
<1> QED
  BY <1>3, <1>6, <1>7 DEF PageInv

\* One coroutine moves and reads nothing of the screen: it neither becomes nor
\* stops being the owner.
LEMMA OneMoves ==
  ASSUME PageInv, NEW t \in Tasks, NEW r \in Coroutine, coroutine' = [coroutine EXCEPT ![t] = r],
         page' \in PageObject,
         t = "tick" => r.pc \in {"idle", "read", "paint"}, saved' \in Nat, saved' >= saved, work' \in Active \cup {"none", "done"},
         screen' \in ScreenObject,
         screen'.edits = screen.edits, page'.localSeq = page.localSeq,
         page'.fullPending => page.fullPending, r.seq <= page.localSeq, r.edits <= saved,
         t # "tick" /\ r.pc \in {"read", "paint"} =>
            /\ coroutine[t].pc \in {"read", "paint"} /\ r.seq = coroutine[t].seq
            /\ r.pc = "paint" => screen.edits <= r.edits,
         page'.fullPending /\ Owner(t) => t # "tick" /\ r.pc \in {"read", "paint"} /\ r.seq = page.localSeq
  PROVE  PageInv'
<1>0. coroutine \in [Tasks -> Coroutine] /\ ReadsAreNumbered /\ ScreenIsBehind /\ DebtHasAnOwner
  BY DEF PageInv, PageTyped, PageObject, ScreenObject
<1>1. /\ coroutine' \in [Tasks -> Coroutine] /\ coroutine'[t] = r
      /\ \A s \in Tasks \ {t} : coroutine'[s] = coroutine[s]
  BY <1>0
<1>2. PageTyped'
  BY <1>1 DEF PageTyped, PageObject, ScreenObject, PageInv
<1>3. \A s \in Tasks : Owner(s)' => Owner(s)
  BY <1>1 DEF Owner, Reading
<1>4. \A s \in Tasks \ {t} : Owner(s) => Owner(s)'
  BY <1>1 DEF Owner, Reading
<1>5. ReadsAreNumbered'
  BY <1>0, <1>1, <1>3 DEF ReadsAreNumbered
<1>6. ScreenIsBehind'
  <2>1. screen'.edits <= saved'
    BY <1>0 DEF ScreenIsBehind, PageInv, PageTyped, PageObject, ScreenObject
  <2>2. \A s \in Tasks : coroutine'[s].edits <= saved'
    BY <1>0, <1>1 DEF ScreenIsBehind, PageInv, PageTyped, PageObject, ScreenObject, Coroutine
  <2>3. ASSUME NEW s \in Tasks, Owner(s)', coroutine'[s].pc = "paint"
        PROVE  screen'.edits <= coroutine'[s].edits
    BY <1>0, <1>1, <1>3, <2>3 DEF ScreenIsBehind, Owner, Reading
  <2> QED
    BY <2>1, <2>2, <2>3 DEF ScreenIsBehind
<1>7. DebtHasAnOwner'
  <2> SUFFICES ASSUME page'.fullPending PROVE \E s \in Tasks : Owner(s)'
    BY DEF DebtHasAnOwner
  <2>1. PICK s \in Tasks : Owner(s)
    BY <1>0 DEF DebtHasAnOwner
  <2>2. CASE s = t
    <3>1. Owner(t)'
      BY <1>1, <2>1, <2>2 DEF Owner, Reading
    <3> QED
      BY <3>1
  <2> QED
    BY <1>4, <2>1, <2>2
<1> QED
  BY <1>2, <1>5, <1>6, <1>7 DEF PageInv

\* A read of the database begins: its number is the next, and it owns the
\* screen, whoever did before.
LEMMA OneStartsReading ==
  ASSUME PageInv, NEW t \in Tasks, t # "tick", NEW r \in Coroutine,
         coroutine' = [coroutine EXCEPT ![t] = r], UNCHANGED <<saved, work, screen>>,
         page' \in PageObject,
         page'.localSeq = page.localSeq + 1, r.pc = "read", r.seq = page.localSeq + 1, r.edits <= saved
  PROVE  PageInv' /\ screen'.edits = screen.edits
<1>0. coroutine \in [Tasks -> Coroutine] /\ ReadsAreNumbered /\ ScreenIsBehind /\ page.localSeq \in Nat
  BY DEF PageInv, PageTyped, PageObject, ScreenObject
<1>1. /\ coroutine' \in [Tasks -> Coroutine] /\ coroutine'[t] = r
      /\ \A s \in Tasks \ {t} : coroutine'[s] = coroutine[s]
  BY <1>0
<1>2. PageTyped'
  <2>1. coroutine'["tick"] = coroutine["tick"]
    BY <1>0 DEF Tasks
  <2> QED
    BY <1>1, <2>1 DEF PageInv, PageTyped, PageObject, ScreenObject
<1>3. \A s \in Tasks \ {t} : coroutine[s].seq \in Nat /\ coroutine[s].seq <= page.localSeq
  BY <1>0 DEF ReadsAreNumbered, Coroutine
<1>4. Owner(t)' /\ \A s \in Tasks : Owner(s)' => s = t
  BY <1>0, <1>1, <1>3 DEF Owner, Reading
<1>5. ReadsAreNumbered'
  BY <1>0, <1>1, <1>3, <1>4 DEF ReadsAreNumbered
<1>6. ScreenIsBehind'
  BY <1>0, <1>1, <1>4 DEF ScreenIsBehind
<1>7. DebtHasAnOwner'
  BY <1>4 DEF DebtHasAnOwner
<1> QED
  BY <1>2, <1>5, <1>6, <1>7 DEF PageInv

\* The owner paints, and pays what is owed; there is no owner then.
LEMMA OwnerPaints ==
  ASSUME PageInv, NEW t \in Tasks, Paints(t), ~Overtaken(t)
  PROVE  PageInv' /\ screen'.edits >= screen.edits
<1> DEFINE r == IF coroutine[t].ask # 0 /\ ~coroutine[t].setupOnly
                THEN [coroutine[t] EXCEPT !.pc = "socket"] ELSE Idle
<1>0. /\ coroutine \in [Tasks -> Coroutine] /\ ReadsAreNumbered /\ ScreenIsBehind /\ PageTyped
      /\ t # "tick" /\ coroutine[t] \in Coroutine
  BY DEF PageInv, PageTyped, PageObject, ScreenObject, Paints
<1>1. Owner(t) /\ coroutine[t].pc = "paint"
  BY DEF Owner, Reading, Paints, Overtaken
<1>2. coroutine' = [coroutine EXCEPT ![t] = r]
  BY DEF Paints
<1>3. r \in Coroutine /\ r.pc \in {"socket", "idle"} /\ r.seq <= page.localSeq /\ r.edits <= saved
  <2>1. /\ Idle \in Coroutine /\ Idle.pc = "idle" /\ Idle.seq <= page.localSeq /\ Idle.edits <= saved
    BY <1>0 DEF Idle, Coroutine, Kinds, Active, PageTyped, PageObject, ScreenObject
  <2>2. /\ [coroutine[t] EXCEPT !.pc = "socket"] \in Coroutine
        /\ [coroutine[t] EXCEPT !.pc = "socket"].pc = "socket"
        /\ [coroutine[t] EXCEPT !.pc = "socket"].seq = coroutine[t].seq
        /\ [coroutine[t] EXCEPT !.pc = "socket"].edits = coroutine[t].edits
    BY <1>0 DEF Coroutine
  <2> QED
    BY <1>0, <2>1, <2>2 DEF ReadsAreNumbered, ScreenIsBehind
<1> HIDE DEF r
<1>4. /\ coroutine' \in [Tasks -> Coroutine] /\ coroutine'[t] = r
      /\ \A s \in Tasks \ {t} : coroutine'[s] = coroutine[s]
  BY <1>0, <1>2, <1>3
<1>5. /\ page' \in PageObject
      /\ page'.localSeq = page.localSeq /\ ~page'.fullPending
  <2> DEFINE polls == IF coroutine[t].ask # 0 /\ ~coroutine[t].setupOnly
                      THEN t = "build" /\ ~Settled(Held(t)) ELSE coroutine[t].polls
  <2>1. polls \in BOOLEAN
    BY <1>0 DEF Coroutine
  <2>2. page' = [Held(t) EXCEPT !.timer = @ \/ polls]
    BY DEF Paints
  <2>3. /\ Held(t) \in PageObject
        /\ Held(t).localSeq = page.localSeq /\ Held(t).fullPending = FALSE
    <3>1. Held(t) = [page EXCEPT !.edits = coroutine[t].edits, !.conn = coroutine[t].conn,
                       !.runs = coroutine[t].runs, !.loading = page.asking,
                       !.fullPending = PaintsSetupOnly(t) /\ @]
      BY DEF Held
    <3>2. (PaintsSetupOnly(t) /\ page.fullPending) = FALSE
      BY DEF PaintsSetupOnly
    <3> QED
      BY <1>0, <3>1, <3>2 DEF PageTyped, PageObject, ScreenObject, Coroutine
  <2> HIDE DEF polls
  <2> QED
    BY <2>1, <2>2, <2>3 DEF PageObject
<1>6. /\ screen' \in ScreenObject
      /\ screen'.edits = coroutine[t].edits
  BY <1>0 DEF Paints, Shown, PageTyped, PageObject, ScreenObject, Coroutine
<1>7. UNCHANGED <<saved, work>>
  BY DEF Paints
<1>8. PageTyped'
  <2>1. coroutine'["tick"] = coroutine["tick"]
    BY <1>0, <1>4 DEF Tasks
  <2> QED
    BY <1>0, <1>4, <1>5, <1>6, <1>7, <2>1 DEF PageTyped, PageObject, ScreenObject
<1>9. \A s \in Tasks : ~Owner(s)'
  BY <1>0, <1>1, <1>3, <1>4, <1>5 DEF ReadsAreNumbered, Owner, Reading
<1>10. ReadsAreNumbered'
  BY <1>0, <1>3, <1>4, <1>5, <1>9 DEF ReadsAreNumbered
<1>11. ScreenIsBehind'
  BY <1>0, <1>3, <1>4, <1>6, <1>7, <1>9 DEF ScreenIsBehind
<1>12. DebtHasAnOwner'
  BY <1>5 DEF DebtHasAnOwner
<1>13. screen'.edits >= screen.edits
  <2>1. screen.edits \in Nat /\ coroutine[t].edits \in Nat
    BY <1>0 DEF PageTyped, PageObject, ScreenObject, Coroutine
  <2> QED
    BY <1>0, <1>1, <1>6, <2>1 DEF ScreenIsBehind
<1> QED
  BY <1>8, <1>10, <1>11, <1>12, <1>13 DEF PageInv

LEMMA IdleIsTyped ==
  Idle \in Coroutine /\ Idle.pc = "idle" /\ Idle.seq = 0 /\ Idle.edits = 0
BY DEF Idle, Coroutine, Kinds, Active

\* One coroutine moves and leaves the page as it is.
LEMMA OneMovesOffPage ==
  ASSUME PageInv, NEW t \in Tasks, NEW r \in Coroutine, coroutine' = [coroutine EXCEPT ![t] = r],
         UNCHANGED <<page, screen>>, t = "tick" => r.pc \in {"idle", "read", "paint"},
         saved' \in Nat, saved' >= saved, work' \in Active \cup {"none", "done"},
         r.seq <= page.localSeq, r.edits <= saved,
         \/ t = "tick"
         \/ coroutine[t].pc \notin {"read", "paint"} /\ r.pc \notin {"read", "paint"}
         \/ coroutine[t].pc = "read" /\ r.pc = "paint" /\ r.seq = coroutine[t].seq /\ screen.edits <= r.edits
  PROVE  PageInv' /\ screen'.edits >= screen.edits
<1>1. PageTyped /\ screen.edits \in Nat
  BY DEF PageInv, PageTyped, PageObject, ScreenObject
<1>2. t # "tick" /\ r.pc \in {"read", "paint"} =>
            /\ coroutine[t].pc \in {"read", "paint"} /\ r.seq = coroutine[t].seq
            /\ r.pc = "paint" => screen.edits <= r.edits
  OBVIOUS
<1>3. page'.fullPending /\ Owner(t) => t # "tick" /\ r.pc \in {"read", "paint"} /\ r.seq = page.localSeq
  BY DEF Owner, Reading
<1>4. /\ page' \in PageObject
      /\ screen' \in ScreenObject
      /\ screen'.edits = screen.edits /\ page'.localSeq = page.localSeq
      /\ page'.fullPending => page.fullPending
  BY <1>1 DEF PageTyped, PageObject, ScreenObject
<1>5. PageInv'
  BY <1>2, <1>3, <1>4, OneMoves
<1> QED
  BY <1>1, <1>4, <1>5

\* One that does not own the screen, or is the timer's, ends.
LEMMA OneEnds ==
  ASSUME PageInv, NEW t \in Tasks, ~Owner(t), NEW r \in Coroutine,
         coroutine' = [coroutine EXCEPT ![t] = r], UNCHANGED <<saved, work>>,
         r.pc \in {"idle", "socket"}, t = "tick" => r.pc = "idle", r.seq <= page.localSeq, r.edits <= saved,
         page' \in PageObject,
         page'.localSeq = page.localSeq, page'.fullPending = page.fullPending,
         screen' \in ScreenObject,
         screen'.edits = screen.edits
  PROVE  PageInv' /\ screen'.edits >= screen.edits
<1>1. screen.edits \in Nat /\ saved' \in Nat /\ saved' >= saved /\ work' \in Active \cup {"none", "done"}
  BY DEF PageInv, PageTyped, PageObject, ScreenObject
<1>2. r.pc \notin {"read", "paint"} /\ (t = "tick" => r.pc \in {"idle", "read", "paint"})
  OBVIOUS
<1>3. PageInv'
  BY <1>1, <1>2, OneMoves
<1> QED
  BY <1>1, <1>3

LEMMA PageStep ==
  ASSUME PageInv, [PageNext]_pageVars
  PROVE  PageInv' /\ screen'.edits >= screen.edits
<1> DEFINE Goal == PageInv' /\ screen'.edits >= screen.edits
<1>0. /\ PageTyped /\ ReadsAreNumbered /\ ScreenIsBehind /\ DebtHasAnOwner
      /\ coroutine \in [Tasks -> Coroutine] /\ page.localSeq \in Nat /\ screen.edits \in Nat
      /\ saved \in Nat /\ work \in Active \cup {"none", "done"} /\ page.conn \in Nat
      /\ saved >= saved /\ screen.edits <= saved
  BY DEF PageInv, PageTyped, PageObject, ScreenObject, ScreenIsBehind
<1>a. \A t \in Tasks : coroutine[t].seq <= page.localSeq /\ coroutine[t].edits <= saved
  BY <1>0 DEF ReadsAreNumbered, ScreenIsBehind
<1>b. "tick" \in Tasks /\ \A h \in Handlers : h \in Tasks /\ h # "tick"
  BY PageAssumption DEF Tasks
<1>1. ASSUME NEW h \in Handlers, Act(h) PROVE Goal
  <2>1. PICK kind \in Kinds : coroutine' = [coroutine EXCEPT ![h] = [Idle EXCEPT !.pc = "write", !.kind = kind]]
    BY <1>1 DEF Act
  <2> DEFINE r == [Idle EXCEPT !.pc = "write", !.kind = kind]
  <2>2. r \in Coroutine /\ r.pc = "write" /\ r.seq = 0 /\ r.edits = 0 /\ coroutine' = [coroutine EXCEPT ![h] = r]
    BY <2>1 DEF Idle, Coroutine, Active
  <2>3. coroutine[h].pc = "idle" /\ UNCHANGED <<saved, work, page, screen>>
    BY <1>1 DEF Act
  <2> HIDE DEF r
  <2>4. /\ UNCHANGED <<page, screen>> /\ saved' \in Nat /\ saved' >= saved
        /\ work' \in Active \cup {"none", "done"} /\ r.seq <= page.localSeq /\ r.edits <= saved
        /\ h # "tick" /\ coroutine[h].pc \notin {"read", "paint"} /\ r.pc \notin {"read", "paint"}
    BY <1>0, <1>b, <2>2, <2>3
  <2> QED
    BY <1>b, <2>2, <2>3, <2>4, OneMovesOffPage
<1>2. ASSUME NEW h \in Handlers, Commits(h) PROVE Goal
  <2> DEFINE launches == coroutine[h].kind = "launch" /\ work \notin Active
             r == [coroutine[h] EXCEPT !.pc = "wrote", !.polls = launches]
  <2>1. coroutine' = [coroutine EXCEPT ![h] = r]
    BY <1>0, <1>2, <1>b DEF Commits
  <2>2. r \in Coroutine /\ r.pc = "wrote" /\ r.seq = coroutine[h].seq /\ r.edits = coroutine[h].edits
    BY <1>0, <1>b DEF Coroutine
  <2>3. /\ coroutine[h].pc = "write" /\ UNCHANGED <<page, screen>>
        /\ saved' \in Nat /\ saved' >= saved /\ work' \in Active \cup {"none", "done"}
    BY <1>0, <1>2 DEF Commits, Active
  <2> HIDE DEF r
  <2> QED
    BY <1>0, <1>a, <1>b, <2>1, <2>2, <2>3, OneMovesOffPage
<1>3. ASSUME NEW h \in Handlers, Starts(h) PROVE Goal
  <2> DEFINE asks == coroutine[h].kind # "redraw"
             ask == IF asks THEN page'.endpointSeq ELSE 0
             r == [coroutine[h] EXCEPT !.pc = "read", !.seq = page'.localSeq, !.ask = ask]
  <2>1. /\ page' \in PageObject
        /\ page'.localSeq = page.localSeq + 1
    <3>1. page' = [page EXCEPT !.localSeq = @ + 1, !.fullPending = TRUE,
                          !.conn = IF coroutine[h].kind = "refresh" THEN 0 ELSE @,
                          !.endpointSeq = IF asks THEN @ + 1 ELSE @,
                          !.asking = asks \/ @, !.loading = asks \/ @]
      BY <1>3 DEF Starts
    <3> DEFINE conn == IF coroutine[h].kind = "refresh" THEN 0 ELSE page.conn
               seq == IF asks THEN page.endpointSeq + 1 ELSE page.endpointSeq
               asking == asks \/ page.asking
               loading == asks \/ page.loading
    <3>2. /\ page \in PageObject /\ conn \in Nat /\ seq \in Nat /\ asking \in BOOLEAN
          /\ loading \in BOOLEAN /\ page.localSeq + 1 \in Nat
      BY <1>0 DEF PageTyped, PageObject
    <3>3. page' = [page EXCEPT !.localSeq = page.localSeq + 1, !.fullPending = TRUE, !.conn = conn,
                               !.endpointSeq = seq, !.asking = asking, !.loading = loading]
      BY <3>1, <3>2 DEF PageObject
    <3> HIDE DEF conn, seq, asking, loading
    <3> QED
      BY <3>2, <3>3 DEF PageObject
  <2>2. coroutine' = [coroutine EXCEPT ![h] = r]
    <3>1. coroutine' = [coroutine EXCEPT ![h].pc = "read", ![h].seq = page'.localSeq, ![h].ask = ask]
      BY <1>3 DEF Starts
    <3> HIDE DEF ask
    <3> QED
      BY <1>0, <1>b, <3>1
  <2>3. ask \in Nat /\ page'.localSeq \in Nat
    BY <2>1 DEF PageObject
  <2> HIDE DEF ask
  <2>4. /\ r \in Coroutine /\ r.pc = "read" /\ r.seq = page.localSeq + 1
        /\ r.edits = coroutine[h].edits
    BY <1>0, <1>b, <2>1, <2>3 DEF Coroutine
  <2>5. UNCHANGED <<saved, work, screen>>
    BY <1>3 DEF Starts
  <2> HIDE DEF r
  <2>6. r.edits <= saved /\ h # "tick" /\ h \in Tasks
    BY <1>a, <1>b, <2>4
  <2>7. PageInv' /\ screen'.edits = screen.edits
    BY <2>1, <2>2, <2>4, <2>5, <2>6, OneStartsReading
  <2> QED
    BY <1>0, <2>7
<1>4. ASSUME NEW t \in Tasks, Reads(t) PROVE Goal
  <2> DEFINE conn == IF t = "tick" THEN coroutine[t].conn ELSE page.conn
             r == [coroutine[t] EXCEPT !.pc = "paint", !.edits = saved, !.runs = work, !.conn = conn]
  <2>1. coroutine[t].pc = "read" /\ UNCHANGED <<saved, work, page, screen>>
    BY <1>4 DEF Reads
  <2>2. coroutine' = [coroutine EXCEPT ![t] = r]
    BY <1>0, <1>4 DEF Reads
  <2>3. conn \in Nat
    BY <1>0 DEF Coroutine
  <2> HIDE DEF conn
  <2>4. r \in Coroutine /\ r.pc = "paint" /\ r.seq = coroutine[t].seq /\ r.edits = saved
    BY <1>0, <2>3 DEF Coroutine
  <2> HIDE DEF r
  <2> QED
    BY <1>0, <1>a, <2>1, <2>2, <2>4, OneMovesOffPage
<1>5. ASSUME NEW t \in Tasks, Paints(t), Overtaken(t) PROVE Goal
  <2> DEFINE asks == coroutine[t].ask # 0 /\ ~coroutine[t].setupOnly
             polls == IF asks THEN t = "build" /\ ~Settled(Held(t)) ELSE coroutine[t].polls
             r == IF asks THEN [coroutine[t] EXCEPT !.pc = "socket"] ELSE Idle
  <2>1. ~Owner(t) /\ t # "tick" /\ UNCHANGED <<saved, work>> /\ screen' = screen
    BY <1>5 DEF Paints, Overtaken, Owner, Shown
  <2>2. coroutine' = [coroutine EXCEPT ![t] = r]
    BY <1>5 DEF Paints
  <2>3. r \in Coroutine /\ r.pc \in {"idle", "socket"} /\ r.seq <= page.localSeq /\ r.edits <= saved
    <3>1. /\ [coroutine[t] EXCEPT !.pc = "socket"] \in Coroutine
          /\ [coroutine[t] EXCEPT !.pc = "socket"].pc = "socket"
          /\ [coroutine[t] EXCEPT !.pc = "socket"].seq = coroutine[t].seq
          /\ [coroutine[t] EXCEPT !.pc = "socket"].edits = coroutine[t].edits
      BY <1>0 DEF Coroutine
    <3> QED
      BY <1>0, <1>a, <3>1, IdleIsTyped
  <2>4. /\ page' \in PageObject
        /\ page'.localSeq = page.localSeq /\ page'.fullPending = page.fullPending
    <3>1. page' = [page EXCEPT !.timer = @ \/ polls]
      BY <1>5 DEF Paints, Held
    <3>2. polls \in BOOLEAN
      BY <1>0 DEF Coroutine
    <3> HIDE DEF polls
    <3> QED
      BY <1>0, <3>1, <3>2 DEF PageTyped, PageObject, ScreenObject
  <2>5. screen' \in ScreenObject
    BY <1>0, <2>1 DEF PageTyped, PageObject, ScreenObject
  <2> HIDE DEF r
  <2> QED
    BY <2>1, <2>2, <2>3, <2>4, <2>5, OneEnds
<1>6. ASSUME NEW t \in Tasks, Answered(t) PROVE Goal
  <2>1. /\ coroutine[t].pc = "socket" /\ UNCHANGED <<saved, work, screen>> /\ ~Owner(t)
        /\ screen' \in ScreenObject
    BY <1>0, <1>6 DEF Answered, Owner, Reading, PageTyped, PageObject, ScreenObject
  <2>2. t # "tick"
    BY <1>0, <2>1 DEF PageTyped, PageObject, ScreenObject
  <2>3. CASE Dropped(t)
    <3>1. /\ page' = [page EXCEPT !.timer = @ \/ coroutine[t].polls]
          /\ coroutine' = [coroutine EXCEPT ![t] = Idle]
      BY <1>6, <2>3 DEF Answered
    <3>2. coroutine[t].polls \in BOOLEAN
      BY <1>0 DEF Coroutine
    <3>3. /\ page' \in PageObject
          /\ page'.localSeq = page.localSeq /\ page'.fullPending = page.fullPending
      BY <1>0, <3>1, <3>2 DEF PageTyped, PageObject, ScreenObject
    <3>4. /\ Idle \in Coroutine /\ Idle.pc \in {"idle", "socket"} /\ screen'.edits = screen.edits
          /\ Idle.seq <= page.localSeq /\ Idle.edits <= saved
      BY <1>0, <2>1, IdleIsTyped
    <3> QED
      BY <2>1, <2>2, <3>1, <3>3, <3>4, OneEnds
  <2>4. CASE ~Dropped(t)
    <3> DEFINE r == [coroutine[t] EXCEPT !.pc = "read", !.seq = page'.localSeq, !.setupOnly = TRUE]
    <3>1. page' = [page EXCEPT !.conn = coroutine[t].ask, !.asking = FALSE, !.localSeq = @ + 1]
      BY <1>6, <2>4 DEF Answered
    <3>2. coroutine' = [coroutine EXCEPT ![t] = r]
      BY <1>0, <1>6, <2>4 DEF Answered
    <3>a. page \in PageObject /\ coroutine[t].ask \in Nat /\ page.localSeq + 1 \in Nat
      BY <1>0 DEF PageTyped, Coroutine
    <3>3. /\ page' \in PageObject
          /\ page'.localSeq = page.localSeq + 1
      BY <3>1, <3>a DEF PageObject
    <3>4. coroutine[t] \in Coroutine /\ page'.localSeq \in Nat
      BY <1>0, <3>3
    <3>5. /\ r \in Coroutine /\ r.pc = "read" /\ r.seq = page.localSeq + 1
          /\ r.edits = coroutine[t].edits
      BY <3>3, <3>4 DEF Coroutine
    <3> HIDE DEF r
    <3>6. r.edits <= saved
      BY <1>a, <3>5
    <3>7. PageInv' /\ screen'.edits = screen.edits
      BY <2>1, <2>2, <3>2, <3>3, <3>5, <3>6, OneStartsReading
    <3> QED
      BY <1>0, <3>7
  <2> QED
    BY <2>3, <2>4
<1>7. ASSUME Tick PROVE Goal
  <2> DEFINE r == [Idle EXCEPT !.pc = "read", !.seq = page.localSeq, !.conn = page.conn]
  <2>1. coroutine' = [coroutine EXCEPT !["tick"] = r] /\ UNCHANGED <<saved, work, page, screen>>
    BY <1>7 DEF Tick
  <2>2. r \in Coroutine /\ r.pc = "read" /\ r.seq = page.localSeq /\ r.edits = 0
    BY <1>0 DEF Idle, Coroutine, Active, Kinds
  <2> HIDE DEF r
  <2>3. /\ UNCHANGED <<page, screen>> /\ saved' \in Nat /\ saved' >= saved
        /\ work' \in Active \cup {"none", "done"} /\ r.seq <= page.localSeq /\ r.edits <= saved
        /\ r.pc \in {"idle", "read", "paint"}
    BY <1>0, <2>1, <2>2
  <2> QED
    BY <1>b, <2>1, <2>2, <2>3, OneMovesOffPage
<1>8. ASSUME Ticked PROVE Goal
  <2> DEFINE read == coroutine["tick"]
             after == IF Overtaken("tick") THEN page
                     ELSE [page EXCEPT !.edits = read.edits, !.runs = read.runs]
             still == ~Settled(after)
  <2>1. /\ page' = [after EXCEPT !.timer = still] /\ UNCHANGED <<saved, work>>
        /\ coroutine' = [coroutine EXCEPT !["tick"] = Idle]
        /\ screen' = IF Overtaken("tick") THEN screen ELSE [screen EXCEPT !.runs = read.runs]
    BY <1>8 DEF Ticked
  <2>2. read \in Coroutine
    BY <1>0, <1>b
  <2>3. after \in PageObject
        /\ after.localSeq = page.localSeq /\ after.fullPending = page.fullPending
    BY <1>0, <2>2 DEF PageTyped, PageObject, ScreenObject, Coroutine
  <2>4. still \in BOOLEAN
    BY DEF Settled
  <2>5. screen' \in ScreenObject
        /\ screen'.edits = screen.edits
    BY <1>0, <2>1, <2>2 DEF PageTyped, PageObject, ScreenObject, Coroutine
  <2> HIDE DEF after, still
  <2>6. /\ page' \in PageObject
        /\ page'.localSeq = page.localSeq /\ page'.fullPending = page.fullPending
    BY <2>1, <2>3, <2>4 DEF PageObject
  <2>7. ~Owner("tick")
    BY DEF Owner, Reading
  <2>8. /\ Idle \in Coroutine /\ Idle.pc \in {"idle", "socket"} /\ ("tick" = "tick" => Idle.pc = "idle")
        /\ Idle.seq <= page.localSeq /\ Idle.edits <= saved
    BY <1>0, IdleIsTyped
  <2> QED
    BY <1>b, <2>1, <2>5, <2>6, <2>7, <2>8, OneEnds
<1>9. ASSUME WorkerMoves PROVE Goal
  <2>1. PageTyped' /\ UNCHANGED <<saved, page, screen, coroutine>>
    BY <1>0, <1>9 DEF WorkerMoves, PageTyped, PageObject, ScreenObject, Active
  <2> QED
    BY <1>0, <2>1 DEF PageInv, ReadsAreNumbered, ScreenIsBehind, DebtHasAnOwner, Owner, Reading
<1>10. CASE UNCHANGED pageVars
  BY <1>0, <1>10 DEF pageVars, PageInv, PageTyped, PageObject, ScreenObject, ReadsAreNumbered, ScreenIsBehind, DebtHasAnOwner,
                     Owner, Reading
<1>11. ASSUME NEW t \in Tasks, Paints(t), ~Overtaken(t) PROVE Goal
  BY <1>11, OwnerPaints
<1> QED
  BY <1>1, <1>2, <1>3, <1>4, <1>5, <1>6, <1>7, <1>8, <1>9, <1>10, <1>11 DEF PageNext, TaskStep

-----------------------------------------------------------------------------
(* The task entry: what is reported stays within the job's total.          *)

\* The base moves by at most one run's records at a time, and the total is
\* there before anything is reported.
JobInv ==
  /\ TypeOK
  /\ base <= (at - 1) * NRecords
  /\ pc = "executing" => at \in Runs
  /\ pc \in {"between", "executing"} => grand = NRuns * NRecords
  /\ task.status \in Terminal => pc = "over"
  /\ task.total = 0 => task.done = 0

\* Runs before the current one and the current one are within the total.
LEMMA OffsetsAreWithinTotal ==
  ASSUME NEW r \in Runs
  PROVE  /\ (r - 1) * NRecords \in Nat /\ NRuns * NRecords \in Nat
         /\ (r - 1) * NRecords + NRecords = ((r + 1) - 1) * NRecords
         /\ ((r + 1) - 1) * NRecords <= NRuns * NRecords
<1>1. NRuns \in Nat /\ NRecords \in Nat /\ r \in Nat /\ r >= 1 /\ r <= NRuns
  BY JobAssumption DEF Runs
<1>2. \A m, n, k \in Nat : m <= n => m * k <= n * k
  OBVIOUS
<1>3. \A m, k \in Nat : m * k \in Nat /\ m * k + k = (m + 1) * k
  OBVIOUS
<1>4. r - 1 \in Nat /\ (r + 1) - 1 = r /\ (r - 1) + 1 = r
  BY <1>1
<1>5. r * NRecords <= NRuns * NRecords /\ NRuns * NRecords \in Nat
  BY <1>1, <1>2, <1>3
<1>6. (r - 1) * NRecords \in Nat /\ (r - 1) * NRecords + NRecords = r * NRecords
  BY <1>1, <1>3, <1>4
<1> QED
  BY <1>4, <1>5, <1>6

LEMMA JobInvInit == Init => JobInv
<1> SUFFICES ASSUME Init PROVE JobInv
  OBVIOUS
<1>1. NRuns * NRecords \in Nat /\ (1 - 1) * NRecords = 0 /\ NRuns \in Nat /\ NRuns >= 1
  BY JobAssumption
<1> QED
  BY <1>1 DEF Init, JobInv, TypeOK, Runs, Terminal

LEMMA JobStep ==
  ASSUME JobInv, [Next]_vars
  PROVE  /\ JobInv'
         /\ task'.done >= task.done
         /\ task.status \in Terminal => task' = task
<1> DEFINE Total == NRuns * NRecords
           Goal == /\ JobInv' /\ task'.done >= task.done
                   /\ task.status \in Terminal => task' = task
<1>a. Total \in Nat /\ NRuns \in Nat /\ NRecords \in Nat
  BY JobAssumption
<1>b. \A r \in Runs : /\ (r - 1) * NRecords \in Nat
                      /\ (r - 1) * NRecords + NRecords = ((r + 1) - 1) * NRecords
                      /\ ((r + 1) - 1) * NRecords <= Total
  BY OffsetsAreWithinTotal
<1> DEFINE Before(r) == (r - 1) * NRecords
<1>c. \A r \in Runs : /\ Before(r) \in Nat /\ Before(r) + NRecords = Before(r + 1)
                      /\ Before(r + 1) <= Total
  BY <1>b
<1>d. /\ rows \in [Runs -> 0 .. NRecords] /\ at \in 1 .. NRuns + 1
      /\ pc \in {"submitted", "counting", "between", "executing", "over"}
      /\ base \in 0 .. Total /\ grand \in {0, Total}
      /\ task \in [status : {"pending", "running"} \cup Terminal, done : 0 .. Total, total : {0, Total}]
      /\ base <= Before(at) /\ (pc = "executing" => at \in Runs)
      /\ (pc \in {"between", "executing"} => grand = Total)
      /\ (task.status \in Terminal => pc = "over") /\ (task.total = 0 => task.done = 0)
  BY DEF JobInv, TypeOK
<1>e. ASSUME /\ rows' \in [Runs -> 0 .. NRecords] /\ at' \in 1 .. NRuns + 1
             /\ pc' \in {"submitted", "counting", "between", "executing", "over"}
             /\ base' \in 0 .. Total /\ grand' \in {0, Total}
             /\ task' \in [status : {"pending", "running"} \cup Terminal, done : 0 .. Total, total : {0, Total}]
             /\ base' <= Before(at') /\ (pc' = "executing" => at' \in Runs)
             /\ (pc' \in {"between", "executing"} => grand' = Total)
             /\ (task'.status \in Terminal => pc' = "over") /\ (task'.total = 0 => task'.done = 0)
      PROVE  JobInv'
  BY <1>e DEF JobInv, TypeOK
<1> HIDE DEF Total, Before
<1>1. ASSUME MarkRunning PROVE Goal
  <2>1. task' \in [status : {"pending", "running"} \cup Terminal, done : 0 .. Total, total : {0, Total}]
        /\ task'.done = task.done /\ task'.status = "running" /\ task.done \in Nat
        /\ task'.total = task.total
    BY <1>1, <1>a, <1>d DEF MarkRunning
  <2> QED
    BY <1>1, <1>a, <1>d, <1>e, <2>1 DEF MarkRunning, Terminal
<1>2. ASSUME CountTotals PROVE Goal
  <2>1. grand' = Total
    BY <1>2 DEF CountTotals, Total
  <2> QED
    BY <1>2, <1>a, <1>d, <1>e, <2>1 DEF CountTotals
<1>3. ASSUME SkipRun PROVE Goal
  <2>1. at + 1 \in 1 .. NRuns + 1 /\ base <= Before(at + 1)
    BY <1>3, <1>a, <1>c, <1>d DEF SkipRun, Runs
  <2> QED
    BY <1>3, <1>a, <1>d, <1>e, <2>1 DEF SkipRun
<1>4. ASSUME BeginRun PROVE Goal
  BY <1>4, <1>a, <1>d, <1>e DEF BeginRun
<1>5. ASSUME CommitRow PROVE Goal
  <2>1. rows' \in [Runs -> 0 .. NRecords]
    BY <1>5, <1>a, <1>d DEF CommitRow
  <2> QED
    BY <1>5, <1>a, <1>d, <1>e, <2>1 DEF CommitRow
<1>6. ASSUME ReportRow PROVE Goal
  <2>1. PICK count \in 0 .. rows[at] : Update(base + count, grand)
    BY <1>6 DEF ReportRow
  <2>2. base + count \in 0 .. Total /\ task.done \in 0 .. Total /\ task.status \notin Terminal
    BY <1>6, <1>a, <1>c, <1>d, <2>1 DEF ReportRow
  <2>3. Bigger(base + count, task.done) \in 0 .. Total /\ Bigger(base + count, task.done) >= task.done
    BY <1>a, <2>2 DEF Bigger
  <2> DEFINE total == IF grand = 0 THEN task.total ELSE grand
             done == Bigger(base + count, task.done)
  <2>4. task' = [task EXCEPT !.status = "running", !.done = done, !.total = total]
    BY <1>d, <2>1, <2>2 DEF Update
  <2>5. total \in {0, Total} /\ (total = 0 => done = 0)
    <3>1. grand = Total
      BY <1>6, <1>d DEF ReportRow
    <3> QED
      BY <1>a, <1>d, <2>3, <3>1
  <2> HIDE DEF total, done
  <2>6. /\ task' \in [status : {"pending", "running"} \cup Terminal, done : 0 .. Total, total : {0, Total}]
        /\ task'.done = done /\ task'.status = "running" /\ task'.total = total
    BY <1>d, <2>3, <2>4, <2>5 DEF done
  <2> QED
    BY <1>6, <1>d, <1>e, <2>2, <2>3, <2>5, <2>6 DEF ReportRow, Terminal, done
<1>7. ASSUME EndRun PROVE Goal
  <2>1. at \in Runs /\ at \in 1 .. NRuns /\ base \in Nat
    BY <1>7, <1>a, <1>d DEF EndRun, Runs
  <2>2. rows[at] \in Nat /\ rows[at] <= NRecords
    BY <1>a, <1>d, <2>1
  <2>3. /\ Before(at) \in Nat /\ Before(at) + NRecords = Before(at + 1)
        /\ Before(at + 1) <= Total
    BY <1>c, <2>1
  <2>4. base + rows[at] <= Before(at + 1) /\ base + rows[at] \in 0 .. Total
    <3>1. base <= Before(at)
      BY <1>d
    <3>2. ASSUME NEW b \in Nat, NEW k \in Nat, NEW n \in Nat, NEW before \in Nat,
                 b <= before, k <= n, before + n <= Total
          PROVE  b + k <= before + n /\ b + k \in 0 .. Total
      BY <1>a, <3>2
    <3> QED
      BY <1>a, <2>1, <2>2, <2>3, <3>1, <3>2
  <2>5. at + 1 \in 1 .. NRuns + 1
    BY <1>a, <2>1
  <2> QED
    BY <1>7, <1>a, <1>d, <1>e, <2>4, <2>5 DEF EndRun
<1>8. ASSUME JobReturns PROVE Goal
  <2> DEFINE done == IF task.total # 0 THEN task.total ELSE task.done
             total == IF task.total # 0 THEN task.total ELSE done
  <2>1. task' = [status |-> "ok", done |-> done, total |-> total]
    BY <1>8 DEF JobReturns, MarkOk
  <2>2. done \in 0 .. Total /\ done >= task.done /\ total \in {0, Total}
    BY <1>a, <1>d
  <2>3. task.status \notin Terminal /\ task.done \in Nat
    BY <1>8, <1>a, <1>d DEF JobReturns
  <2>4. total = 0 => done = 0
    BY <1>d
  <2> HIDE DEF done, total
  <2>5. /\ task' \in [status : {"pending", "running"} \cup Terminal, done : 0 .. Total, total : {0, Total}]
        /\ task'.done = done /\ task'.total = total
    BY <2>1, <2>2 DEF Terminal
  <2> QED
    BY <1>8, <1>d, <1>e, <2>2, <2>3, <2>4, <2>5 DEF JobReturns
<1>9. ASSUME JobRaises PROVE Goal
  <2>1. /\ task' \in [status : {"pending", "running"} \cup Terminal, done : 0 .. Total, total : {0, Total}]
        /\ task'.done = task.done /\ task'.total = task.total /\ task.done \in Nat
    BY <1>9, <1>a, <1>d DEF JobRaises, Terminal
  <2> QED
    BY <1>9, <1>d, <1>e, <2>1 DEF JobRaises
<1>10. ASSUME JobCancelled PROVE Goal
  BY <1>10, <1>a, <1>d, <1>e DEF JobCancelled
<1>11. CASE UNCHANGED vars
  BY <1>11, <1>a, <1>d, <1>e DEF vars
<1> QED
  BY <1>1, <1>2, <1>3, <1>4, <1>5, <1>6, <1>7, <1>8, <1>9, <1>10, <1>11 DEF Next

-----------------------------------------------------------------------------
(* The task entry: what is reported is committed.                          *)

\* The rows committed by the runs before run k.
RowsBefore(k) == {cell \in Runs \X (1 .. NRecords) : cell[1] < k /\ cell[2] <= rows[cell[1]]}

\* The base is of rows of the runs before, and so is what is reported of the
\* one at hand.
BarInv ==
  /\ base <= Cardinality(RowsBefore(at))
  /\ task.status # "ok" => task.done <= Committed

LEMMA CellsAreFinite ==
  /\ IsFiniteSet(Runs \X (1 .. NRecords))
  /\ \A n \in Nat : IsFiniteSet(1 .. n) /\ Cardinality(1 .. n) = n
<1>1. ASSUME NEW n \in Nat PROVE IsFiniteSet(1 .. n) /\ Cardinality(1 .. n) = n
  <2>1. 1 \in Int /\ n \in Int /\ (IF 1 > n THEN 0 ELSE n - 1 + 1) = n
    OBVIOUS
  <2> QED
    BY <2>1, FS_Interval, Zenon
<1>2. IsFiniteSet(Runs) /\ IsFiniteSet(1 .. NRecords)
  BY <1>1, JobAssumption DEF Runs
<1> QED
  BY <1>1, <1>2, FS_Product

LEMMA RowsAreCounted ==
  ASSUME TypeOK
  PROVE  /\ Committed \in Nat
         /\ \A k \in Nat : /\ IsFiniteSet(RowsBefore(k)) /\ Cardinality(RowsBefore(k)) \in Nat
                           /\ Cardinality(RowsBefore(k)) <= Cardinality(RowsBefore(k + 1))
         /\ \A r \in Runs :
              /\ Cardinality(RowsBefore(r + 1)) = Cardinality(RowsBefore(r)) + rows[r]
              /\ Cardinality(RowsBefore(r)) + rows[r] <= Committed
<1> DEFINE Cells == Runs \X (1 .. NRecords)
           All   == {cell \in Cells : cell[2] <= rows[cell[1]]}
<1>1. NRuns \in Nat /\ NRecords \in Nat /\ rows \in [Runs -> 0 .. NRecords]
  BY JobAssumption DEF TypeOK
<1>2. IsFiniteSet(Cells)
  BY CellsAreFinite
<1>3. IsFiniteSet(All) /\ Cardinality(All) \in Nat /\ Committed = Cardinality(All)
  BY <1>2, FS_Subset, FS_CardinalityType DEF Committed
<1>4. ASSUME NEW k \in Nat
      PROVE  /\ IsFiniteSet(RowsBefore(k)) /\ Cardinality(RowsBefore(k)) \in Nat
             /\ Cardinality(RowsBefore(k)) <= Cardinality(RowsBefore(k + 1))
             /\ Cardinality(RowsBefore(k)) <= Cardinality(All)
  <2>1. RowsBefore(k) \subseteq All /\ RowsBefore(k + 1) \subseteq All
    BY DEF RowsBefore
  <2>2. RowsBefore(k) \subseteq RowsBefore(k + 1)
    BY DEF RowsBefore, Runs
  <2>3. IsFiniteSet(RowsBefore(k)) /\ IsFiniteSet(RowsBefore(k + 1)) /\ Cardinality(RowsBefore(k)) <= Cardinality(All)
    BY <1>3, <2>1, FS_Subset
  <2> QED
    BY <2>2, <2>3, FS_Subset, FS_CardinalityType
<1>5. ASSUME NEW r \in Runs
      PROVE  /\ Cardinality(RowsBefore(r + 1)) = Cardinality(RowsBefore(r)) + rows[r]
             /\ Cardinality(RowsBefore(r)) + rows[r] <= Committed
  <2> DEFINE Row == {r} \X (1 .. rows[r])
  <2>1. r \in Nat /\ r + 1 \in Nat /\ rows[r] \in Nat /\ rows[r] <= NRecords
    BY <1>1 DEF Runs
  <2>2. IsFiniteSet(Row) /\ Cardinality(Row) = rows[r]
    <3>1. IsFiniteSet(1 .. rows[r]) /\ Cardinality(1 .. rows[r]) = rows[r]
      BY <2>1, CellsAreFinite
    <3>2. IsFiniteSet({r}) /\ Cardinality({r}) = 1
      BY FS_Singleton
    <3>3. IsFiniteSet(Row) /\ Cardinality(Row) = 1 * rows[r]
      BY ONLY <3>1, <3>2, FS_Product
    <3> QED
      BY ONLY <2>1, <3>3
  <2>3. RowsBefore(r + 1) = RowsBefore(r) \cup Row
    <3>1. ASSUME NEW cell \in RowsBefore(r + 1) PROVE cell \in RowsBefore(r) \cup Row
      <4>1. PICK q \in Runs, x \in 1 .. NRecords : cell = <<q, x>> /\ q < r + 1 /\ x <= rows[q]
        BY <3>1 DEF RowsBefore
      <4>2. CASE q = r
        BY <2>1, <4>1, <4>2
      <4>3. CASE q < r
        BY <4>1, <4>3 DEF RowsBefore
      <4> QED
        BY <2>1, <4>1, <4>2, <4>3 DEF Runs
    <3>2. ASSUME NEW cell \in Row PROVE cell \in RowsBefore(r + 1)
      <4>1. PICK x \in 1 .. rows[r] : cell = <<r, x>>
        BY <3>2
      <4>2. x \in 1 .. NRecords /\ x <= rows[r] /\ r < r + 1
        BY <1>1, <2>1, <4>1
      <4> QED
        BY <4>1, <4>2 DEF RowsBefore
    <3>3. RowsBefore(r) \subseteq RowsBefore(r + 1)
      BY <2>1 DEF RowsBefore, Runs
    <3> QED
      BY <3>1, <3>2, <3>3
  <2>4. RowsBefore(r) \cap Row = {}
    BY <2>1 DEF RowsBefore
  <2>5. Cardinality(RowsBefore(r + 1)) = Cardinality(RowsBefore(r)) + rows[r]
    <3>1. Cardinality(RowsBefore(r) \cap Row) = 0
      BY <2>4, FS_EmptySet
    <3> HIDE DEF Row
    <3> QED
      <4> DEFINE B == RowsBefore(r)
      <4>1. IsFiniteSet(B) /\ Cardinality(B) \in Nat
        BY <1>4, <2>1
      <4>2. Cardinality(B \cup Row) = Cardinality(B) + Cardinality(Row) - Cardinality(B \cap Row)
        BY <2>2, <4>1, FS_Union, Zenon
      <4>3. Cardinality(RowsBefore(r + 1)) = Cardinality(B) + rows[r] - 0
        BY <2>2, <2>3, <3>1, <4>2, Zenon
      <4>4. \A m, n \in Nat : m + n - 0 = m + n
        OBVIOUS
      <4> QED
        BY <2>1, <4>1, <4>3, <4>4, Zenon
  <2> QED
    BY <1>3, <1>4, <2>1, <2>5
<1> QED
  BY <1>3, <1>4, <1>5

LEMMA BarStep ==
  ASSUME JobInv, JobInv', BarInv, [Next]_vars
  PROVE  BarInv'
<1>0. /\ TypeOK /\ TypeOK' /\ base \in Nat /\ task.done \in Nat /\ at \in Nat
      /\ rows \in [Runs -> 0 .. NRecords] /\ NRecords \in Nat
  <2>1. NRuns * NRecords \in Nat /\ NRecords \in Nat /\ NRuns \in Nat
    BY JobAssumption
  <2> QED
    BY <2>1 DEF JobInv, TypeOK
<1>1. /\ Committed \in Nat
      /\ \A k \in Nat : /\ Cardinality(RowsBefore(k)) \in Nat
                        /\ Cardinality(RowsBefore(k)) <= Cardinality(RowsBefore(k + 1))
      /\ \A r \in Runs :
           /\ Cardinality(RowsBefore(r + 1)) = Cardinality(RowsBefore(r)) + rows[r]
           /\ Cardinality(RowsBefore(r)) + rows[r] <= Committed
  BY <1>0, RowsAreCounted
<1> DEFINE Before(k) == Cardinality(RowsBefore(k))
<1>2. ASSUME UNCHANGED rows PROVE Committed' = Committed /\ \A k : Before(k)' = Before(k)
  BY <1>2 DEF Committed, RowsBefore
<1> HIDE DEF Before
<1>3. ASSUME UNCHANGED rows, base' <= Before(at'), task'.status # "ok" => task'.done <= Committed
      PROVE  BarInv'
  BY <1>2, <1>3 DEF BarInv, Before
<1>4. base <= Before(at) /\ (task.status # "ok" => task.done <= Committed)
  BY DEF BarInv, Before
<1>5. ASSUME MarkRunning PROVE BarInv'
  <2>1. task'.done = task.done /\ task'.status = "running" /\ task.status # "ok" /\ UNCHANGED <<rows, at, base>>
    BY <1>5, <1>0 DEF MarkRunning, JobInv, TypeOK, Terminal
  <2> QED
    BY <1>3, <1>4, <2>1
<1>6. ASSUME SkipRun PROVE BarInv'
  <2>1. at \in Nat /\ Before(at) \in Nat /\ Before(at) <= Before(at + 1)
    BY <1>0, <1>1 DEF Before
  <2>2. base \in Nat /\ base <= Before(at + 1) /\ at' = at + 1
    <3>1. Before(at + 1) \in Nat
      BY <1>0, <1>1 DEF Before
    <3> QED
      BY <1>0, <1>4, <1>6, <2>1, <3>1 DEF SkipRun
  <2> QED
    BY <1>3, <1>4, <1>6, <2>2 DEF SkipRun
<1>7. ASSUME CommitRow PROVE BarInv'
  <2>1. /\ rows' = [rows EXCEPT ![at] = @ + 1] /\ at \in Runs /\ UNCHANGED <<at, base, task>>
        /\ \A r \in Runs : rows[r] \in Nat /\ rows'[r] >= rows[r]
    BY <1>0, <1>7 DEF CommitRow, JobInv
  <2>2. RowsBefore(at)' = RowsBefore(at)
    BY <2>1 DEF RowsBefore, Runs
  <2>3. Committed <= Committed' /\ Committed' \in Nat
    <3> DEFINE All == {cell \in Runs \X (1 .. NRecords) : cell[2] <= rows[cell[1]]}
    <3>1. rows' \in [Runs -> 0 .. NRecords]
      BY <1>0 DEF TypeOK
    <3>2. All \subseteq All'
      BY <1>0, <2>1, <3>1
    <3>3. IsFiniteSet(Runs \X (1 .. NRecords))
      BY CellsAreFinite
    <3>4. IsFiniteSet(All')
      BY <3>3, FS_Subset
    <3>5. Cardinality(All) <= Cardinality(All')
      BY <3>2, <3>4, FS_Subset
    <3> QED
      BY <3>4, <3>5, FS_CardinalityType DEF Committed
  <2>4. base' <= Cardinality(RowsBefore(at)')
    BY <1>4, <2>1, <2>2 DEF Before
  <2>5. task'.status # "ok" => task'.done <= Committed'
    BY <1>0, <1>1, <1>4, <2>1, <2>3
  <2> QED
    BY <2>4, <2>5 DEF BarInv
<1>8. ASSUME ReportRow PROVE BarInv'
  <2>1. PICK count \in 0 .. rows[at] : Update(base + count, grand)
    BY <1>8 DEF ReportRow
  <2>2. at \in Runs /\ rows[at] \in Nat /\ task.status # "ok" /\ UNCHANGED <<rows, at, base>>
    BY <1>0, <1>8 DEF ReportRow, JobInv, Terminal
  <2>3. base + count <= Committed /\ base + count \in Nat
    BY <1>0, <1>1, <1>4, <2>2 DEF Before
  <2>4. task'.done \in {task.done, base + count}
    BY <1>0, <2>1 DEF Update, Bigger, JobInv, TypeOK
  <2> QED
    BY <1>3, <1>4, <2>2, <2>3, <2>4
<1>9. ASSUME EndRun PROVE BarInv'
  <2>1. at \in Runs /\ rows[at] \in Nat /\ UNCHANGED <<rows, task>> /\ base' = base + rows[at] /\ at' = at + 1
    BY <1>0, <1>9 DEF EndRun, JobInv
  <2>2. Before(at + 1) = Before(at) + rows[at] /\ Before(at) \in Nat
    BY <1>0, <1>1, <2>1 DEF Before
  <2> QED
    BY <1>0, <1>3, <1>4, <2>1, <2>2
<1>10. ASSUME JobReturns PROVE BarInv'
  BY <1>3, <1>4, <1>10 DEF JobReturns, MarkOk
<1>11. ASSUME JobRaises PROVE BarInv'
  <2>1. task'.done = task.done /\ task.status # "ok" /\ UNCHANGED <<rows, at, base>>
    BY <1>0, <1>11 DEF JobRaises, JobInv, TypeOK, Terminal
  <2> QED
    BY <1>3, <1>4, <2>1
<1>12. ASSUME CountTotals \/ BeginRun \/ JobCancelled \/ UNCHANGED vars PROVE BarInv'
  BY <1>3, <1>4, <1>12 DEF CountTotals, BeginRun, JobCancelled, vars
<1> QED
  BY <1>5, <1>6, <1>7, <1>8, <1>9, <1>10, <1>11, <1>12 DEF Next

LEMMA BarInit == Init => BarInv
<1> SUFFICES ASSUME Init PROVE BarInv
  OBVIOUS
<1>1. TypeOK
  BY JobInvInit DEF JobInv
<1>2. Committed \in Nat /\ Cardinality(RowsBefore(1)) \in Nat
  BY <1>1, RowsAreCounted
<1> QED
  BY <1>2 DEF Init, BarInv

-----------------------------------------------------------------------------
(* The Import page: what is remembered is what is shown, or will be.       *)

VisitFields == {"pc", "does", "on", "file", "seen"}
HeldFields  == {"delivery", "status", "files", "busy", "armed", "freezing", "timer"}

ImportShape ==
  /\ DOMAIN shelf = Deliveries
  /\ DOMAIN held = HeldFields
  /\ DOMAIN visit = Visitors /\ \A v \in Visitors : DOMAIN visit[v] = VisitFields

\* What a handler is about to remember or analyse was registered once.
NamedIsShelved ==
  \A v \in Visitors : visit[v].pc \in {"remember", "analyse"} =>
    visit[v].on \in Deliveries /\ shelf[visit[v].on] # "none"

\* A delivery that is remembered and not held is gone, or a reload will pick
\* again, or the handler that remembered it has yet to reload.
Looks(v) == visit[v].pc \in {"list", "listed"}
Renews(v) == visit[v].pc = "analyse" /\ visit[v].on = key

HeldIsRenewed ==
  held.delivery # key =>
    \/ key \in Deliveries /\ shelf[key] = "gone"
    \/ \E v \in Visitors : Looks(v) \/ Renews(v)

ImportInv == ImportShape /\ NamedIsShelved /\ HeldIsRenewed

LEMMA ImportInvInit == ImportInit => ImportInv
<1> SUFFICES ASSUME ImportInit PROVE ImportInv
  OBVIOUS
<1>1. \A v \in Visitors : DOMAIN visit[v] = VisitFields /\ visit[v].pc \in {"list", "idle"}
  BY DEF ImportInit, Away, VisitFields
<1>2. DOMAIN visit = Visitors /\ DOMAIN shelf = Deliveries /\ DOMAIN held = HeldFields /\ held.delivery = key
  BY DEF ImportInit, NewPage, HeldFields
<1> QED
  BY <1>1, <1>2 DEF ImportInv, ImportShape, NamedIsShelved, HeldIsRenewed

\* Only coroutine v moves.
Moves(v) ==
  /\ DOMAIN visit' = Visitors /\ DOMAIN visit'[v] = VisitFields
  /\ \A u \in Visitors : u # v => visit'[u] = visit[u]

\* The rows that were registered stay so, and what is gone stays gone.
ShelfGrows ==
  /\ DOMAIN shelf' = Deliveries
  /\ \A d \in Deliveries : /\ shelf[d] # "none" => shelf'[d] # "none"
                           /\ shelf[d] = "gone" => shelf'[d] = "gone"

LEMMA OneVisitMoves ==
  ASSUME ImportInv, NEW v \in Visitors, Moves(v), ShelfGrows, DOMAIN held' = HeldFields,
         visit'[v].pc \in {"remember", "analyse"} =>
           visit'[v].on \in Deliveries /\ shelf'[visit'[v].on] # "none",
         held'.delivery # key' =>
           \/ UNCHANGED key /\ held'.delivery = held.delivery /\ ~Looks(v) /\ ~Renews(v)
           \/ visit'[v].pc \in {"list", "listed"}
           \/ visit'[v].pc = "analyse" /\ visit'[v].on = key'
           \/ key' \in Deliveries /\ shelf'[key'] = "gone"
  PROVE  ImportInv'
<1>1. /\ \A u \in Visitors : u # v => visit'[u] = visit[u]
      /\ DOMAIN visit' = Visitors /\ \A u \in Visitors : DOMAIN visit'[u] = VisitFields
  BY DEF Moves, ImportInv, ImportShape
<1>2. NamedIsShelved'
  BY <1>1 DEF ImportInv, NamedIsShelved, ShelfGrows
<1>3. HeldIsRenewed'
  <2> SUFFICES ASSUME held'.delivery # key'
               PROVE  \/ key' \in Deliveries /\ shelf'[key'] = "gone"
                      \/ \E u \in Visitors : Looks(u)' \/ Renews(u)'
    BY DEF HeldIsRenewed
  <2>1. CASE UNCHANGED key /\ held'.delivery = held.delivery /\ ~Looks(v) /\ ~Renews(v)
    <3>1. CASE key \in Deliveries /\ shelf[key] = "gone"
      BY <2>1, <3>1 DEF ShelfGrows
    <3>2. CASE \E u \in Visitors : Looks(u) \/ Renews(u)
      BY <1>1, <2>1, <3>2 DEF Looks, Renews
    <3> QED
      BY <2>1, <3>1, <3>2 DEF ImportInv, HeldIsRenewed
  <2>2. CASE visit'[v].pc \in {"list", "listed"} \/ (visit'[v].pc = "analyse" /\ visit'[v].on = key')
    BY <1>1, <2>2 DEF Looks, Renews
  <2> QED
    BY <2>1, <2>2
<1> QED
  BY <1>1, <1>2, <1>3 DEF ImportInv, ImportShape, ShelfGrows

\* Nobody moves.
LEMMA NoVisitMoves ==
  ASSUME ImportInv, UNCHANGED <<visit, key>>, ShelfGrows, DOMAIN held' = HeldFields,
         held'.delivery = held.delivery
  PROVE  ImportInv'
BY DEF ImportInv, ImportShape, NamedIsShelved, HeldIsRenewed, ShelfGrows, Looks, Renews

LEMMA ImportStep ==
  ASSUME ImportInv, [ImportNext]_importVars
  PROVE  ImportInv'
<1>0. /\ DOMAIN shelf = Deliveries /\ DOMAIN held = HeldFields /\ DOMAIN visit = Visitors
      /\ \A v \in Visitors : DOMAIN visit[v] = VisitFields
      /\ DOMAIN Away = VisitFields /\ Away.pc = "idle" /\ Hands \subseteq Visitors
      /\ \A d \in Known : d \in Deliveries /\ shelf[d] \notin {"none", "gone"}
  BY DEF ImportInv, ImportShape, Away, VisitFields, Visitors, Known
<1>a. UNCHANGED shelf => ShelfGrows
  BY <1>0 DEF ShelfGrows
<1>b. \A v \in Visitors : \A r : Goes(v, r) /\ DOMAIN r = VisitFields => Moves(v) /\ visit'[v] = r
  BY <1>0 DEF Goes, Moves
<1>1. ASSUME NEW h \in Hands, Uses(h) PROVE ImportInv'
  <2>1. UNCHANGED <<shelf, key>> /\ visit[h].pc = "idle" /\ h \in Visitors
    BY <1>0, <1>1 DEF Uses, Turn, Toggle, Create, Upload, Register, Arm, ActOnRow, Clicks
  <2>2. CASE \E f \in Sheets : Arm(h, f)
    BY <1>0, <1>a, <2>1, <2>2, NoVisitMoves DEF Arm, HeldFields
  <2>3. CASE ~\E f \in Sheets : Arm(h, f)
    <3>1. Moves(h) /\ visit'[h].pc \notin {"remember", "analyse"}
      <4>1. CASE Turn(h)
        BY <1>0, <2>1, <4>1 DEF Goes, Moves, Turn, Reloads, VisitFields
      <4>2. CASE Toggle(h) \/ Upload(h) \/ Register(h)
        BY <1>0, <2>1, <4>2 DEF Goes, Moves, Toggle, Upload, Register, VisitFields
      <4>3. CASE Create(h)
        BY <1>0, <2>1, <4>3 DEF Goes, Moves, Create, VisitFields
      <4>4. CASE \E f \in Sheets : ActOnRow(h, f)
        BY <1>0, <2>1, <4>4 DEF Goes, Moves, ActOnRow, VisitFields
      <4> QED
        BY <1>1, <2>3, <4>1, <4>2, <4>3, <4>4 DEF Uses
    <3>2. DOMAIN held' = HeldFields /\ held'.delivery = held.delivery
      BY <1>0, <1>1, <2>3 DEF Uses, Turn, Toggle, Create, Upload, Register, ActOnRow, Reloads, HeldFields
    <3> QED
      BY <1>a, <2>1, <3>1, <3>2, OneVisitMoves DEF Looks, Renews
  <2> QED
    BY <2>2, <2>3
<1>2. ASSUME NEW d \in Deliveries, Discard(d) PROVE ImportInv'
  <2>1. ShelfGrows
    BY <1>0, <1>2 DEF Discard, ShelfGrows
  <2> QED
    BY <1>0, <1>2, <2>1, NoVisitMoves DEF Discard
<1>3. ASSUME NEW h \in Hands, Selects(h) \/ RowAnswered(h) \/ FreezeAnswered(h) \/ Adds(h)
      PROVE  ImportInv'
  <2>1. /\ Moves(h) /\ visit'[h].pc \in {"idle", "list", "remember"}
        /\ visit'[h].pc = "remember" => visit'[h].on \in Known
        /\ held'.delivery = held.delivery \/ visit'[h].pc = "list"
    BY <1>0, <1>3, <1>b DEF Selects, RowAnswered, FreezeAnswered, Adds, Reloads, Ends, Awaits, VisitFields, HeldFields
  <2>2. /\ UNCHANGED <<shelf, key>> /\ DOMAIN held' = HeldFields
        /\ visit[h].pc \in {"select", "row", "freeze", "add"}
    BY <1>0, <1>3 DEF Selects, RowAnswered, FreezeAnswered, Adds, Reloads, HeldFields
  <2> QED
    BY <1>0, <1>a, <2>1, <2>2, OneVisitMoves DEF Looks, Renews
<1>4. ASSUME NEW h \in Hands, Registers(h) PROVE ImportInv'
  <2>1. UNCHANGED <<key, held>> /\ visit[h].pc = "register"
    BY <1>4 DEF Registers
  <2>2. ShelfGrows
    BY <1>0, <1>a, <1>4 DEF Registers, ShelfGrows
  <2>3. /\ Moves(h) /\ visit'[h].pc \in {"idle", "remember"}
        /\ visit'[h].pc = "remember" => visit'[h].on \in Deliveries /\ shelf'[visit'[h].on] # "none"
    <3>1. CASE Goes(h, Away)
      BY <1>0, <1>b, <3>1
    <3>2. CASE ~Goes(h, Away)
      <4>1. PICK d \in Deliveries : /\ shelf' = [shelf EXCEPT ![d] = "registered"]
                                    /\ Goes(h, [visit[h] EXCEPT !.pc = "remember", !.on = d])
        BY <1>4, <3>2 DEF Registers, Ends
      <4> QED
        BY <1>0, <4>1 DEF Goes, Moves, VisitFields
    <3> QED
      BY <3>1, <3>2
  <2> QED
    BY <1>0, <2>1, <2>2, <2>3, OneVisitMoves DEF Looks, Renews
<1>5. ASSUME NEW h \in Hands, Remembers(h) PROVE ImportInv'
  <2>1. Moves(h) /\ visit'[h].pc = "analyse" /\ visit'[h].on = key' /\ UNCHANGED <<shelf, held>>
    BY <1>0, <1>5, <1>b DEF Remembers, Awaits, VisitFields
  <2>2. visit'[h].on \in Deliveries /\ shelf[visit'[h].on] # "none"
    BY <1>0, <1>5, <2>1 DEF Remembers, ImportInv, NamedIsShelved, VisitFields
  <2> QED
    BY <1>0, <1>a, <2>1, <2>2, OneVisitMoves
<1>6. ASSUME NEW h \in Hands, Analyses(h) PROVE ImportInv'
  <2>1. UNCHANGED <<shelf, key>> /\ visit[h].pc = "analyse"
    BY <1>6 DEF Analyses
  <2>2. CASE visit[h].on \in Known
    <3>1. Moves(h) /\ visit'[h].pc = "list"
      BY <1>0, <1>b, <1>6, <2>2 DEF Analyses, Reloads, VisitFields
    <3>2. DOMAIN held' = HeldFields
      BY <1>0, <1>6, <2>2 DEF Analyses, Reloads
    <3> QED
      BY <1>0, <1>a, <2>1, <3>1, <3>2, OneVisitMoves
  <2>3. CASE visit[h].on \notin Known
    <3>1. Moves(h) /\ visit'[h].pc = "idle" /\ UNCHANGED held
      BY <1>0, <1>6, <1>b, <2>3 DEF Analyses, Ends
    <3>2. visit[h].on \in Deliveries /\ shelf[visit[h].on] = "gone"
      BY <1>0, <2>1, <2>3 DEF ImportInv, NamedIsShelved, Known
    <3>3. Renews(h) => key \in Deliveries /\ shelf[key] = "gone"
      BY <3>2 DEF Renews
    <3> QED
      BY <1>0, <1>a, <2>1, <3>1, <3>3, OneVisitMoves DEF Looks
  <2> QED
    BY <2>2, <2>3
<1>7. ASSUME NEW v \in Visitors, Lists(v) \/ Picks(v) \/ Draws(v) PROVE ImportInv'
  <2>1. CASE Lists(v)
    <3> DEFINE listed == [visit[v] EXCEPT !.pc = "listed", !.seen = [d \in Known |-> shelf[d]]]
    <3>0. Goes(v, listed) /\ DOMAIN listed = VisitFields /\ listed.pc = "listed"
      BY <1>0, <2>1 DEF Lists, VisitFields
    <3> HIDE DEF listed
    <3>1. Moves(v) /\ visit'[v].pc = "listed"
      BY <1>b, <3>0
    <3> QED
      BY <1>0, <1>a, <2>1, <3>1, OneVisitMoves DEF Lists
  <2>2. CASE Picks(v)
    <3>1. Moves(v) /\ visit'[v].pc = "files"
      BY <1>0, <1>b, <2>2 DEF Goes, Moves, Picks, VisitFields
    <3>2. held'.delivery = key' /\ DOMAIN held' = HeldFields /\ UNCHANGED shelf
      BY <1>0, <2>2 DEF Picks, HeldFields
    <3> QED
      BY <1>0, <1>a, <3>1, <3>2, OneVisitMoves
  <2>3. CASE Draws(v)
    <3>1. Moves(v) /\ visit'[v].pc = "idle" /\ UNCHANGED <<shelf, key>> /\ visit[v].pc = "files"
      BY <1>0, <1>b, <2>3 DEF Draws, Ends
    <3>2. held'.delivery = held.delivery /\ DOMAIN held' = HeldFields
      BY <1>0, <2>3 DEF Draws, HeldFields
    <3> QED
      BY <1>0, <1>a, <3>1, <3>2, OneVisitMoves DEF Looks, Renews
  <2> QED
    BY <1>7, <2>1, <2>2, <2>3
<1>8. CASE Polls
  <2>1. Moves("poll") /\ visit'["poll"].pc = "list"
    BY <1>0, <1>b, <1>8 DEF Goes, Moves, Polls, Reloads, VisitFields, Visitors
  <2>2. UNCHANGED <<shelf, key>> /\ DOMAIN held' = HeldFields /\ "poll" \in Visitors
    BY <1>0, <1>8 DEF Polls, Reloads, Visitors
  <2> QED
    BY <1>0, <1>a, <2>1, <2>2, OneVisitMoves
<1>9. ASSUME JobMoves PROVE ImportInv'
  <2>1. ShelfGrows
    BY <1>0, <1>a, <1>9 DEF JobMoves, JobStarts, JobEnds, ShelfGrows
  <2> QED
    BY <1>0, <1>9, <2>1, NoVisitMoves DEF JobMoves, JobStarts, JobEnds
<1>10. CASE UNCHANGED importVars
  BY <1>0, <1>a, <1>10, NoVisitMoves DEF importVars
<1> QED
  BY <1>1, <1>2, <1>3, <1>4, <1>5, <1>6, <1>7, <1>8, <1>9, <1>10 DEF ImportNext, VisitStep

LEMMA ImportRemembers == ImportInv => ShownIsRemembered
BY DEF ImportInv, HeldIsRenewed, ShownIsRemembered, Calm, Looks, Renews, Known

-----------------------------------------------------------------------------
(* The theorems.                                                           *)

\* Whatever is watched, the Evaluation page and the job take their own steps
\* or none.
LEMMA ScreensTakePageSteps ==
  /\ ScreensInit => PageInit /\ Init
  /\ [ScreensNext]_screenVars => [PageNext]_pageVars /\ [Next]_vars
BY DEF ScreensInit, ScreensNext, screenVars, OnPage, OnImport, OnMismatches, OnResults

LEMMA PageInvHolds == ScreensSpec => []PageInv
<1>1. PageInv /\ [ScreensNext]_screenVars => PageInv'
  BY ScreensTakePageSteps, PageStep
<1> QED
  BY <1>1, ScreensTakePageSteps, PageInvInit, PTL DEF ScreensSpec

LEMMA JobInvHolds == ScreensSpec => []JobInv
<1>1. JobInv /\ [ScreensNext]_screenVars => JobInv'
  BY ScreensTakePageSteps, JobStep
<1> QED
  BY <1>1, ScreensTakePageSteps, JobInvInit, PTL DEF ScreensSpec

\* Once no read of the database is under way no full paint is owed, however
\* many handlers overlap (evaluation_view.py, _full_pending).
THEOREM PaintsArePaid == ScreensSpec => []NoPaintIsLost
<1>1. PageInv => NoPaintIsLost
  BY DEF PageInv, DebtHasAnOwner, Owner, NoPaintIsLost
<1> QED
  BY <1>1, PageInvHolds, PTL

\* An older read of the evaluation never paints over a newer one
\* (evaluation_view.py, _local_seq).
THEOREM SetupStays == ScreensSpec => SetupNeverGoesBack
<1>1. PageInv /\ [ScreensNext]_screenVars => [screen'.edits >= screen.edits]_pageVars
  BY ScreensTakePageSteps, PageStep
<1> QED
  BY <1>1, PageInvHolds, PTL DEF ScreensSpec, SetupNeverGoesBack

\* A poller of the task never sees the count step back, nor a task that is
\* over move (infra/tasks.py, _ProgressTable).
THEOREM CountStays == ScreensSpec => ShownNeverStepsBack
<1>1. JobInv /\ [ScreensNext]_screenVars =>
        [/\ task'.done >= task.done
         /\ task.status \in Terminal => task' = task]_vars
  BY ScreensTakePageSteps, JobStep
<1> QED
  BY <1>1, JobInvHolds, PTL DEF ScreensSpec, ShownNeverStepsBack
\* While the job runs, the bar counts no row that is not committed, for any
\* number of runs and records (run_service.py, _OffsetReporter).
THEOREM BarCounts == ScreensSpec => []BarIsCommitted
<1>1. JobInv /\ JobInv' /\ BarInv /\ [ScreensNext]_screenVars => BarInv'
  BY ScreensTakePageSteps, BarStep
<1>2. BarInv => BarIsCommitted
  BY DEF BarInv, BarIsCommitted
<1> QED
  BY <1>1, <1>2, JobInvHolds, ScreensTakePageSteps, BarInit, PTL DEF ScreensSpec

\* The page that is watched keeps its invariant; the others are not looked at.
WatchedTab ==
  /\ on = "census" => CensusInv
  /\ on = "codelists" => CodelistsInv
  /\ on = "features" => FeaturesInv
  /\ on = "prompts" => PromptsInv
  /\ on = "scrubbing" => ScrubbingInv

LEMMA WatchedTabStays ==
  /\ ScreensInit => ImportInv /\ WatchedTab
  /\ ImportInv /\ WatchedTab /\ [ScreensNext]_screenVars => ImportInv' /\ WatchedTab'
<1>1. ASSUME ScreensInit PROVE ImportInv /\ WatchedTab
  <2>1. ImportInit /\ TabInit(on)
    BY <1>1 DEF ScreensInit
  <2>2. /\ on = "census" => Census!CensusInit
        /\ on = "codelists" => Codelists!CodelistsInit
        /\ on = "features" => Features!FeaturesInit
        /\ on = "prompts" => Prompts!PromptsInit
        /\ on = "scrubbing" => Scrubbing!ScrubbingInit
    BY <2>1 DEF TabInit, TabPages
  <2> QED
    BY <2>1, <2>2, ImportInvInit, CensusInvInit, CodelistsInvInit, FeaturesInvInit, PromptsInvInit,
       ScrubbingInvInit DEF WatchedTab
<1>2. ASSUME ImportInv, WatchedTab, [ScreensNext]_screenVars PROVE ImportInv' /\ WatchedTab'
  <2>1. UNCHANGED on /\ [ImportNext]_importVars /\ (TabNext(on) \/ UNCHANGED tabVars)
    BY <1>2 DEF ScreensNext, screenVars, OnPage, OnImport, OnMismatches, OnResults
  <2>2. ImportInv'
    BY <1>2, <2>1, ImportStep
  <2>3. /\ on = "census" => [Census!CensusNext]_tabVars
        /\ on = "codelists" => [Codelists!CodelistsNext]_tabVars
        /\ on = "features" => [Features!FeaturesNext]_tabVars
        /\ on = "prompts" => [Prompts!PromptsNext]_tabVars
        /\ on = "scrubbing" => [Scrubbing!ScrubbingNext]_tabVars
    BY <2>1 DEF TabNext
  <2>4. /\ on = "census" => CensusInv'
        /\ on = "codelists" => CodelistsInv'
        /\ on = "features" => FeaturesInv'
        /\ on = "prompts" => PromptsInv'
        /\ on = "scrubbing" => ScrubbingInv'
    BY <1>2, <2>3, CensusMoves, CodelistsMove, FeaturesMove, PromptsMove, ScrubbingMoves DEF WatchedTab
  <2> QED
    BY <2>1, <2>2, <2>4 DEF WatchedTab
<1> QED
  BY <1>1, <1>2

\* Once nothing is under way on a page, it shows what this client will find
\* again, and after a reload that nothing ran beside all of it is of one
\* question, however many handlers overlap (_sync_selection, _current_corpus,
\* reload).
THEOREM PagesAgreeAlways == ScreensSpec => []PagesAgree
<1>1. ImportInv /\ WatchedTab => PagesAgree
  BY ImportRemembers, CensusHolds, CodelistsHold, FeaturesHold, PromptsHold, ScrubbingHolds
     DEF WatchedTab, PagesAgree, TabRemembers, TabAgrees
<1>2. ScreensSpec => [](ImportInv /\ WatchedTab)
  BY WatchedTabStays, PTL DEF ScreensSpec
<1> QED
  BY <1>1, <1>2, PTL
=============================================================================
