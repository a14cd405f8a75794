---------------------------- MODULE Rules_proofs ----------------------------
(***************************************************************************)
(* What the pure rules answer, for every size of the inputs they are asked *)
(* about.                                                                  *)
(***************************************************************************)
EXTENDS Rules, FiniteSetTheorems, SequenceTheorems, WellFoundedInduction, TLAPS

-----------------------------------------------------------------------------
(* A question has the kind of the set it is from, and only the rule of its *)
(* kind answers it.                                                        *)

LEMMA KindOfQuestion ==
  ASSUME Asked
  PROVE  /\ question.of = "scores" => question \in ScoreQuestion
         /\ question.of = "ranks" => question \in RankQuestion
         /\ question.of = "recovers" => question \in FileQuestion
         /\ question.of = "scrubs" => question \in ScrubQuestion
         /\ question.of = "pins" => question \in PinQuestion
         /\ question.of = "derives" => question \in DeriveQuestion
         /\ question.of = "parses" => question \in ParseQuestion
         /\ question.of = "suggests" => question \in SuggestQuestion
         /\ question.of = "freezes" => question \in FreezeQuestion
<1>1. question \in ScoreQuestion => question.of = "scores"
  BY DEF ScoreQuestion
<1>2. question \in RankQuestion => question.of = "ranks"
  BY DEF RankQuestion
<1>3. AsksForBoards => question.of = "boards"
  BY DEF AsksForBoards
<1>4. question \in FileQuestion => question.of = "recovers"
  BY DEF FileQuestion
<1>5. question \in ScrubQuestion => question.of = "scrubs"
  BY DEF ScrubQuestion
<1>6. question \in PinQuestion => question.of = "pins"
  BY DEF PinQuestion
<1>7. question \in DeriveQuestion => question.of = "derives"
  BY DEF DeriveQuestion
<1>8. question \in ParseQuestion => question.of = "parses"
  BY DEF ParseQuestion
<1>9. question \in SuggestQuestion => question.of = "suggests"
  BY DEF SuggestQuestion
<1>10. question \in FreezeQuestion => question.of = "freezes"
  BY DEF FreezeQuestion
<1> QED
  BY <1>1, <1>2, <1>3, <1>4, <1>5, <1>6, <1>7, <1>8, <1>9, <1>10 DEF Asked

LEMMA OneRuleAnswers ==
  ASSUME [Next]_ruleVars
  PROVE  /\ question' = question
         /\ answer' = answer
              \/ /\ question.of = "scores" => Scores
                 /\ question.of = "ranks" => Ranks
                 /\ question.of = "recovers" => Recovers
                 /\ question.of = "scrubs" => Scrubs
                 /\ question.of = "pins" => Pins
                 /\ question.of = "derives" => Derives
                 /\ question.of = "parses" => Parses
                 /\ question.of = "suggests" => Suggests
                 /\ question.of = "freezes" => Freezes
<1>1. CASE UNCHANGED ruleVars
  BY <1>1 DEF ruleVars
<1>2. CASE Scores
  BY <1>2 DEF Scores, Answers
<1>3. CASE Ranks
  BY <1>3 DEF Ranks, Answers
<1>4. CASE Shows
  BY <1>4 DEF Shows, Answers
<1>5. CASE Recovers
  BY <1>5 DEF Recovers, Answers
<1>6. CASE Scrubs
  BY <1>6 DEF Scrubs, Answers
<1>7. CASE Pins
  BY <1>7 DEF Pins, Answers
<1>8. CASE Derives
  BY <1>8 DEF Derives, Answers
<1>9. CASE Parses
  BY <1>9 DEF Parses, Answers
<1>10. CASE Suggests
  BY <1>10 DEF Suggests, Answers
<1>11. CASE Freezes
  BY <1>11 DEF Freezes, Answers
<1> QED
  BY <1>1, <1>2, <1>3, <1>4, <1>5, <1>6, <1>7, <1>8, <1>9, <1>10, <1>11 DEF Next

\* The program is asked something it can be asked, throughout.
THEOREM QuestionStands == Spec => []Asked
<1>1. Init => Asked
  BY DEF Init
<1>2. Asked /\ [Next]_ruleVars => Asked'
  BY OneRuleAnswers DEF Asked, AsksForBoards
<1> QED
  BY <1>1, <1>2, PTL DEF Spec
-----------------------------------------------------------------------------
(* Numbers.                                                                *)

\* Induction, for a property given as the set of what has it.
LEMMA SetInduction ==
  ASSUME NEW S, 0 \in S, \A n \in Nat : n \in S => n + 1 \in S
  PROVE  Nat \subseteq S
<1> SUFFICES ASSUME Nat \ S # {} PROVE FALSE
  OBVIOUS
<1> DEFINE rest == Nat \ S
<1>1. PICK n \in rest : \A m \in rest : <<m, n>> \notin OpToRel(<, Nat)
  <2>1. rest \subseteq Nat /\ rest # {}
    OBVIOUS
  <2> HIDE DEF rest
  <2> QED
    BY <2>1, NatLessThanWellFounded, WFMin
<1>2. n \in Nat /\ n # 0 /\ \A m \in rest : ~(m < n)
  BY <1>1 DEF OpToRel
<1>3. n - 1 \in Nat /\ n - 1 < n
  BY <1>2
<1>4. n - 1 \in S
  BY <1>2, <1>3
<1>5. (n - 1) + 1 \in S
  BY <1>3, <1>4
<1>6. (n - 1) + 1 = n
  BY <1>2
<1> QED
  BY <1>1, <1>5, <1>6

\* The induction of a range: what the steps below a number preserve.
LEMMA RangeInduction ==
  ASSUME NEW n \in Nat, NEW S, 0 \in S,
         \A k \in 0 .. n - 1 : k \in S => k + 1 \in S
  PROVE  0 .. n \subseteq S
<1> DEFINE T == {k \in Nat : k <= n => k \in S}
<1>1. 0 \in T
  OBVIOUS
<1>2. \A k \in Nat : k \in T => k + 1 \in T
  OBVIOUS
<1>3. Nat \subseteq T
  <2> HIDE DEF T
  <2> QED
    BY <1>1, <1>2, SetInduction
<1> QED
  BY <1>3

\* Among numbers with a bound there is a greatest one.
LEMMA GreatestIsOne ==
  ASSUME NEW S, S \subseteq Nat, S # {}, NEW n \in Nat, \A x \in S : x <= n
  PROVE  \E m \in S : \A x \in S : x <= m
<1> DEFINE T == {k \in Nat : (\A x \in S : x <= k) => \E m \in S : \A x \in S : x <= m}
<1>1. 0 \in T
  <2>1. PICK m \in S : m \in Nat
    OBVIOUS
  <2> QED
    BY <2>1
<1>2. \A k \in Nat : k \in T => k + 1 \in T
  <2> SUFFICES ASSUME NEW k \in Nat, k \in T, \A x \in S : x <= k + 1
               PROVE  \E m \in S : \A x \in S : x <= m
    OBVIOUS
  <2>1. CASE k + 1 \in S
    BY <2>1
  <2>2. CASE k + 1 \notin S
    <3>1. \A x \in S : x <= k
      BY <2>2
    <3> QED
      BY <3>1
  <2> QED
    BY <2>1, <2>2
<1>3. Nat \subseteq T
  <2> HIDE DEF T
  <2> QED
    BY <1>1, <1>2, SetInduction
<1> QED
  BY <1>3
-----------------------------------------------------------------------------
(* The calls a launch pins.                                                *)

\* The newest of some indices is one of them, and none is newer; of none it is 0.
LEMMA NewestIsLast ==
  ASSUME NEW n \in Nat, NEW S, S \subseteq 1 .. n
  PROVE  /\ Newest(S) \in S \cup {0}
         /\ \A j \in S : j <= Newest(S)
<1>1. \E i \in S \cup {0} : \A j \in S : j <= i
  <2> DEFINE T == S \cup {0}
  <2>1. T \subseteq Nat /\ T # {} /\ \A x \in T : x <= n
    OBVIOUS
  <2>2. \E m \in T : \A x \in T : x <= m
    <3> HIDE DEF T
    <3> QED
      BY <2>1, GreatestIsOne
  <2> QED
    BY <2>2
<1> QED
  BY <1>1 DEF Newest

\* The highest N passed is 1, or that of a gate that passed.
LEMMA PassingNPassed ==
  ASSUME NEW gates, NEW n \in Nat, \A g \in gates : g.n \in 1 .. n
  PROVE  /\ PassingN(gates) = 1 \/ \E g \in gates : g.n = PassingN(gates) /\ GateVerdict(g) = "passes"
         /\ PassingN(gates) \in Nat
<1> DEFINE passed == {1} \cup {g.n : g \in {h \in gates : GateVerdict(h) = "passes"}}
<1>1. \E m \in passed : \A x \in passed : x <= m
  <2>1. passed \subseteq Nat /\ passed # {} /\ n + 1 \in Nat /\ \A x \in passed : x <= n + 1
    OBVIOUS
  <2> HIDE DEF passed
  <2> QED
    BY <2>1, GreatestIsOne
<1>2. PICK m \in passed : \A x \in passed : x <= m
  BY <1>1
<1>3. /\ m \in {1} \cup {g.n : g \in gates}
      /\ m = 1 \/ \E g \in gates : g.n = m /\ GateVerdict(g) = "passes"
      /\ \A g \in gates : GateVerdict(g) = "passes" => g.n <= m
  BY <1>2
<1> QED
  BY <1>3 DEF PassingN

\* A gate that passed met all three conditions.
LEMMA PassesIsAll ==
  ASSUME NEW g, g.fast \in BOOLEAN, g.band \in Int, g.serial \in Int, g.parallel \in Int,
         GateVerdict(g) = "passes"
  PROVE  g.fast /\ g.parallel <= g.band /\ g.serial <= g.band
BY DEF GateVerdict

\* What a question about pins is made of.
LEMMA GateShape ==
  ASSUME NEW g, g \in UNION Gates
  PROVE  g.n \in {2, 3} /\ g.band = 0 /\ g.serial \in {0, 1} /\ g.parallel \in {0, 1} /\ g.fast \in BOOLEAN
<1>1. PICK a \in OneGate(2), b \in OneGate(3) : g \in a \cup b
  BY DEF Gates
<1> QED
  BY <1>1 DEF OneGate

LEMMA PinShape ==
  ASSUME question \in PinQuestion
  PROVE  /\ question.mapped \in 1 .. 3
         /\ \E n \in Nat : DOMAIN question.table = 1 .. n
         /\ \A i \in DOMAIN question.table : question.table[i].gates \in Gates
<1>1. question.mapped \in 1 .. 3
  BY DEF PinQuestion
<1>2. PICK n \in 0 .. 2 :
        question.table \in [1 .. n -> [digest : {"this", "other"}, version : {"this", NoVersion}, gates : Gates]]
  BY DEF PinQuestion
<1> QED
  BY <1>1, <1>2

LEMMA GatedIsNewest ==
  ASSUME NEW n \in Nat, NEW table, DOMAIN table = 1 .. n, NEW digest
  PROVE  LET i == Gated(table, digest) IN
         i # 0 =>
           /\ i \in DOMAIN table
           /\ table[i].digest = digest =>
                \A j \in DOMAIN table : j > i /\ table[j].digest = digest => table[j].gates = {}
<1> DEFINE gated == {i \in DOMAIN table : table[i].gates # {}}
           own   == {i \in gated : table[i].digest = digest}
           S     == IF own = {} THEN gated ELSE own
           i     == Newest(S)
<1>1. S \subseteq 1 .. n
  OBVIOUS
<1>2. i \in S \cup {0} /\ \A j \in S : j <= i
  <2> HIDE DEF S
  <2> QED
    BY <1>1, NewestIsLast
<1>3. i = Gated(table, digest)
  BY DEF Gated
<1> HIDE DEF i
<1>4. ASSUME i # 0, table[i].digest = digest, NEW j \in DOMAIN table, j > i, table[j].digest = digest
      PROVE  table[j].gates = {}
  <2>1. i \in own
    BY <1>2, <1>4
  <2>2. j \in own => j <= i
    BY <1>2, <2>1
  <2>3. i \in Nat /\ j \in Nat
    BY <2>1
  <2> QED
    BY <1>4, <2>2, <2>3
<1> QED
  BY <1>1, <1>2, <1>3, <1>4

LEMMA PinIsGated ==
  ASSUME question \in PinQuestion, question' = question, Pins
  PROVE  ParallelIsGated'
<1> DEFINE table == question.table
           i     == Gated(table, "this")
<1>1. SUFFICES ASSUME answer'.n > 1, ~question.measuring
               PROVE  /\ i \in DOMAIN table
                      /\ table[i].digest = "this"
                      /\ table[i].version = question.version /\ table[i].version # NoVersion
                      /\ \E g \in table[i].gates : /\ g.n >= question.mapped /\ g.fast
                                                   /\ g.parallel <= g.band /\ g.serial <= g.band
                      /\ \A j \in DOMAIN table : j > i /\ table[j].digest = "this" => table[j].gates = {}
  BY DEF ParallelIsGated, Answered
<1>2. PICK n \in Nat : DOMAIN table = 1 .. n
  BY PinShape
<1>3. answer' = ParallelDecision(question.mapped, table, "this", question.version, question.measuring)
  BY DEF Pins, Answers
<1> HIDE DEF i
<1>4. /\ i # 0 /\ table[i].digest = "this"
      /\ table[i].version = question.version /\ table[i].version # NoVersion
      /\ ~(question.mapped > PassingN(table[i].gates)) /\ ~(question.mapped <= 1)
  BY <1>1, <1>3 DEF ParallelDecision, i
<1>5. /\ i \in DOMAIN table
      /\ \A j \in DOMAIN table : j > i /\ table[j].digest = "this" => table[j].gates = {}
  BY <1>2, <1>4, GatedIsNewest DEF i
<1>6. \A g \in table[i].gates : g \in UNION Gates
  BY <1>5, PinShape
<1>7. \A g \in table[i].gates : g.n \in 1 .. 3
  BY <1>6, GateShape
<1>8. PICK g \in table[i].gates : g.n = PassingN(table[i].gates) /\ GateVerdict(g) = "passes"
  <2>1. question.mapped \in Nat /\ PassingN(table[i].gates) # 1
    BY <1>4, PinShape
  <2> QED
    BY <1>7, <2>1, PassingNPassed
<1>9. g.fast /\ g.parallel <= g.band /\ g.serial <= g.band
  BY <1>6, <1>8, GateShape, PassesIsAll
<1>10. g.n >= question.mapped
  BY <1>4, <1>7, <1>8, PinShape
<1> QED
  BY <1>4, <1>5, <1>8, <1>9, <1>10

\* A launch runs calls in parallel only for a model whose newest measurement
\* under this digest passed at that many calls or more, on the version the
\* server says it runs.
THEOREM ParallelHolds == Spec => []ParallelIsGated
<1>1. Init => ParallelIsGated
  BY DEF Init, ParallelIsGated, Answered
<1>2. Asked /\ ParallelIsGated /\ [Next]_ruleVars => ParallelIsGated'
  BY OneRuleAnswers, KindOfQuestion, PinIsGated DEF ParallelIsGated, Answered
<1> QED
  BY <1>1, <1>2, QuestionStands, PTL DEF Spec
-----------------------------------------------------------------------------
(* What is read in a model's response.                                     *)

LEMMA ParseShape ==
  ASSUME question \in ParseQuestion
  PROVE  LET told == question.response.answers  features == question.features IN
         /\ question.response.envelope \in {"features", "unreadable"}
         /\ \A key \in DOMAIN told : told[key] \in ModelAnswers
         /\ DOMAIN features = 1 .. 2 /\ Len(features) = 2
         /\ \A k \in 1 .. 2 : features[k].type \in {"number", "boolean", "text", "enum"}
<1>1. PICK type \in {"number", "boolean", "text"} :
        question.features = <<Feature("k1", type), Feature("k2", "enum")>>
  BY DEF ParseQuestion
<1>2. /\ DOMAIN question.features = 1 .. 2 /\ Len(question.features) = 2
      /\ \A k \in 1 .. 2 : question.features[k].type \in {"number", "boolean", "text", "enum"}
  BY <1>1 DEF Feature
<1>3. /\ question.response.envelope \in {"features", "unreadable"}
      /\ \A key \in DOMAIN question.response.answers : question.response.answers[key] \in ModelAnswers
  BY DEF ParseQuestion
<1> QED
  BY <1>2, <1>3

\* A value is no answer exactly if it is null.
LEMMA UntoldIsNull ==
  ASSUME NEW v \in JsonValues
  PROVE  /\ v.json \in {"null", "number", "boolean", "string"}
         /\ v.json = "null" <=> v = Untold
         /\ v.padded \in BOOLEAN
         /\ v.padded = FALSE => [v EXCEPT !.padded = FALSE] = v
<1>1. v # Untold => v.json \in {"number", "boolean", "string"}
  BY DEF JsonValues
<1>2. Untold.json = "null" /\ Untold.padded = FALSE
  BY DEF Untold
<1>3. v.padded = FALSE => [v EXCEPT !.padded = FALSE] = v
  BY DEF JsonValues, Untold, NoText
<1>4. v # Untold => v.padded \in BOOLEAN
  BY DEF JsonValues
<1> QED
  BY <1>1, <1>2, <1>3, <1>4

\* The types of JSON value a feature may have.
JsonOf(type) == CASE type = "boolean" -> {"boolean"}
                  [] type = "number" -> {"number", "string"}
                  [] OTHER -> {"string"}

FeatureTypes == {"number", "boolean", "text", "enum"}

\* What is said of a feature, and what is found wrong with it.
ValueOf(f, told) ==
  IF f.key \in DOMAIN told /\ told[f.key].valid THEN ReadAnswer(f, told[f.key]) ELSE Unanswered(f)

IssuesOf(f, told) ==
  IF f.key \notin DOMAIN told THEN {"missing_feature"}
  ELSE IF ~told[f.key].valid THEN {"value_type_mismatch"}
  ELSE AnswerIssues(f, told[f.key])

\* An answer without an issue is null, or has evidence and a value of its type.
LEMMA NoIssueIsClean ==
  ASSUME NEW f, f.type \in FeatureTypes,
         NEW a, a.value \in JsonValues, a.evidence \in BOOLEAN, AnswerIssues(f, a) = {}, a.value # Untold
  PROVE  /\ a.evidence = TRUE
         /\ a.value.json \in JsonOf(f.type)
         /\ f.type = "enum" => a.value.text \in f.codes /\ a.value.padded = FALSE
<1>1. a.value.json # "null" /\ a.value.json \in {"number", "boolean", "string"} /\ a.value.padded \in BOOLEAN
  BY UntoldIsNull
<1>2. a.evidence = TRUE /\ OfType(a.value, f.type) /\ ~OutsideList(f, a)
  BY <1>1 DEF AnswerIssues
<1>3. a.value.json \in JsonOf(f.type)
  BY <1>1, <1>2 DEF OfType, JsonOf, FeatureTypes
<1>4. f.type = "enum" => a.value.json = "string"
  BY <1>1, <1>2 DEF OfType
<1> QED
  BY <1>1, <1>2, <1>3, <1>4 DEF OutsideList

\* What parse_output returns of a readable response.
IsParsed(out, features, told) ==
  /\ out.ok = TRUE
  /\ DOMAIN out.values = 1 .. 2 /\ Len(out.values) = 2
  /\ \A k \in 1 .. 2 : out.values[k] = ValueOf(features[k], told)
  /\ \A k \in 1 .. 2 : \A i \in IssuesOf(features[k], told) : <<features[k].key, i>> \in out.issues
  /\ \A key \in DOMAIN told : (\A k \in 1 .. 2 : features[k].key # key) =>
       <<key, "unknown_feature">> \in out.issues

\* A readable response, feature by feature.
LEMMA ParseOutputIs ==
  ASSUME NEW response, NEW features, DOMAIN features = 1 .. 2, response.envelope = "features"
  PROVE  IsParsed(ParseOutput(response, features), features, response.answers)
<1> DEFINE told   == response.answers
           values == [k \in DOMAIN features |-> ValueOf(features[k], told)]
           found  == UNION {{<<features[k].key, i>> : i \in IssuesOf(features[k], told)} : k \in DOMAIN features}
           others == {<<key, "unknown_feature">> : key \in DOMAIN told \ {features[k].key : k \in DOMAIN features}}
           out    == [ok |-> TRUE, values |-> values, issues |-> found \cup others]
<1>1. ParseOutput(response, features) = out
  BY Zenon DEF ParseOutput, ValueOf, IssuesOf
<1>2. DOMAIN values = 1 .. 2 /\ Len(values) = 2 /\ \A k \in 1 .. 2 : values[k] = ValueOf(features[k], told)
  OBVIOUS
<1>3. \A k \in 1 .. 2 : \A i \in IssuesOf(features[k], told) : <<features[k].key, i>> \in found
  OBVIOUS
<1>4. ASSUME NEW key \in DOMAIN told, \A k \in 1 .. 2 : features[k].key # key
      PROVE  <<key, "unknown_feature">> \in others
  BY <1>4
<1>5. out.ok = TRUE /\ out.values = values /\ out.issues = found \cup others
  <2> HIDE DEF found, others, values
  <2> QED
    OBVIOUS
<1>6. /\ \A k \in 1 .. 2 : out.values[k] = ValueOf(features[k], told)
      /\ DOMAIN out.values = 1 .. 2 /\ Len(out.values) = 2
  <2> HIDE DEF values, out
  <2> QED
    BY <1>2, <1>5
<1>7. \A k \in 1 .. 2 : \A i \in IssuesOf(features[k], told) : <<features[k].key, i>> \in out.issues
  <2> HIDE DEF found, others, out
  <2> QED
    BY <1>3, <1>5
<1>8. \A key \in DOMAIN told : (\A k \in 1 .. 2 : features[k].key # key) =>
        <<key, "unknown_feature">> \in out.issues
  <2> HIDE DEF found, others, out
  <2> QED
    BY <1>4, <1>5
<1>9. IsParsed(out, features, told)
  <2> HIDE DEF out, told
  <2> QED
    BY <1>5, <1>6, <1>7, <1>8 DEF IsParsed
<1> HIDE DEF out
<1> QED
  BY <1>1, <1>9

\* What is said of one feature, given the faults it was stored with.
SaidOf(f, told, v, faults) ==
  /\ v.key = f.key
  /\ IF f.key \in DOMAIN told /\ told[f.key].valid
       THEN v.raw = told[f.key].value /\ v.present = told[f.key].present
       ELSE v.raw = Untold /\ ~v.present /\ faults # {}
  /\ faults = {} /\ v.raw # Untold =>
       /\ v.evidence
       /\ v.raw.json \in JsonOf(f.type)
       /\ f.type = "enum" => v.raw.text \in f.codes /\ v.normalised = v.raw

LEMMA FeatureIsAnswered ==
  ASSUME NEW f, f.type \in FeatureTypes,
         NEW told, \A key \in DOMAIN told : told[key] \in ModelAnswers,
         NEW v, v = ValueOf(f, told)
  PROVE  SaidOf(f, told, v, IssuesOf(f, told))
<1>1. CASE ~(f.key \in DOMAIN told /\ told[f.key].valid)
  <2>1. v.key = f.key /\ v.raw = Untold /\ v.present = FALSE
    BY <1>1 DEF ValueOf, Unanswered
  <2>2. IssuesOf(f, told) # {}
    BY <1>1 DEF IssuesOf
  <2> QED
    BY <1>1, <2>1, <2>2 DEF SaidOf
<1>2. CASE f.key \in DOMAIN told /\ told[f.key].valid
  <2>1. PICK a : a = told[f.key]
    OBVIOUS
  <2>2. v = ReadAnswer(f, a)
    BY <1>2, <2>1 DEF ValueOf
  <2>3. IssuesOf(f, told) = AnswerIssues(f, a)
    BY <1>2, <2>1 DEF IssuesOf
  <2>4. v.key = f.key /\ v.raw = a.value /\ v.present = a.present /\ v.evidence = a.evidence
    BY <2>2 DEF ReadAnswer
  <2>5. v.normalised = [a.value EXCEPT !.padded = FALSE]
    BY <2>2 DEF ReadAnswer
  <2>6. a.value \in JsonValues /\ a.evidence \in BOOLEAN
    BY <1>2, <2>1 DEF ModelAnswers
  <2>7. ASSUME IssuesOf(f, told) = {}, v.raw # Untold
        PROVE  /\ v.evidence
               /\ v.raw.json \in JsonOf(f.type)
               /\ f.type = "enum" => v.raw.text \in f.codes /\ v.normalised = v.raw
    <3>1. AnswerIssues(f, a) = {} /\ a.value # Untold
      BY <2>3, <2>4, <2>7
    <3>2. /\ a.evidence = TRUE
          /\ a.value.json \in JsonOf(f.type)
          /\ f.type = "enum" => a.value.text \in f.codes /\ a.value.padded = FALSE
      BY <2>6, <3>1, NoIssueIsClean
    <3>3. f.type = "enum" => v.normalised = v.raw
      BY <2>4, <2>5, <2>6, <3>2, UntoldIsNull
    <3> QED
      BY <2>4, <3>2, <3>3
  <2> QED
    BY <1>2, <2>1, <2>4, <2>7 DEF SaidOf
<1> QED
  BY <1>1, <1>2

\* More faults than were found of the feature change nothing that is said.
LEMMA SaidOfMore ==
  ASSUME NEW f, NEW told, NEW v, NEW faults, NEW others,
         SaidOf(f, told, v, faults), others = {} => faults = {}
  PROVE  SaidOf(f, told, v, others)
BY DEF SaidOf

\* What the property says of an answer.
Faults(a, key) == {i \in a.issues : i[1] = key}

FeaturesAnswered(asked, a) ==
  LET told == asked.response.answers  features == asked.features IN
  /\ a.ok <=> asked.response.envelope = "features"
  /\ a.ok => Len(a.values) = Len(features)
  /\ \A k \in DOMAIN a.values : SaidOf(features[k], told, a.values[k], Faults(a, features[k].key))
  /\ a.ok => \A key \in DOMAIN told :
       (\E k \in DOMAIN features : features[k].key = key) \/ <<key, "unknown_feature">> \in Faults(a, key)

LEMMA AnswersSay ==
  EveryFeatureIsAnswered <=> (Answered("parses") => FeaturesAnswered(question, answer))
BY Zenon DEF EveryFeatureIsAnswered, FeaturesAnswered, SaidOf, Faults, JsonOf

LEMMA ParsedIsAnswered ==
  ASSUME question \in ParseQuestion, question' = question, Parses
  PROVE  FeaturesAnswered(question', answer')
<1>1. PICK asked, a : asked = question /\ a = answer'
  OBVIOUS
<1>2. PICK response, told, features :
        response = asked.response /\ told = response.answers /\ features = asked.features
  OBVIOUS
<1>3. /\ response.envelope \in {"features", "unreadable"}
      /\ \A key \in DOMAIN told : told[key] \in ModelAnswers
      /\ DOMAIN features = 1 .. 2 /\ Len(features) = 2
      /\ \A k \in 1 .. 2 : features[k].type \in FeatureTypes
  BY <1>1, <1>2, ParseShape DEF FeatureTypes
<1>4. a = ParseOutput(response, features)
  BY <1>1, <1>2 DEF Parses, Answers
<1>5. SUFFICES
        /\ a.ok <=> response.envelope = "features"
        /\ a.ok => Len(a.values) = Len(features)
        /\ \A k \in DOMAIN a.values : SaidOf(features[k], told, a.values[k], Faults(a, features[k].key))
        /\ a.ok => \A key \in DOMAIN told :
             (\E k \in DOMAIN features : features[k].key = key) \/ <<key, "unknown_feature">> \in Faults(a, key)
  <2>1. FeaturesAnswered(asked, a)
    BY <1>2, <1>5, Zenon DEF FeaturesAnswered
  <2> QED
    BY <1>1, <2>1
<1>6. CASE response.envelope # "features"
  <2>1. a.ok = FALSE /\ DOMAIN a.values = {}
    BY <1>4, <1>6 DEF ParseOutput
  <2> QED
    BY <1>6, <2>1
<1>7. CASE response.envelope = "features"
  <2>1. IsParsed(a, features, told)
    BY <1>2, <1>3, <1>4, <1>7, ParseOutputIs
  <2>2. /\ a.ok = TRUE
        /\ DOMAIN a.values = 1 .. 2 /\ Len(a.values) = 2
    BY <2>1 DEF IsParsed
  <2>3. ASSUME NEW k \in 1 .. 2
        PROVE  SaidOf(features[k], told, a.values[k], Faults(a, features[k].key))
    <3>1. PICK f, v : f = features[k] /\ v = a.values[k]
      OBVIOUS
    <3>2. v = ValueOf(f, told) /\ f.type \in FeatureTypes
      BY <1>3, <2>1, <3>1 DEF IsParsed
    <3>3. SaidOf(f, told, v, IssuesOf(f, told))
      BY <1>3, <3>2, FeatureIsAnswered
    <3>4. ASSUME NEW i \in IssuesOf(f, told)
          PROVE  <<f.key, i>> \in Faults(a, f.key)
      <4>1. <<f.key, i>> \in a.issues
        BY <2>1, <3>1 DEF IsParsed
      <4> QED
        BY <4>1 DEF Faults
    <3>5. Faults(a, f.key) = {} => IssuesOf(f, told) = {}
      BY <3>4
    <3>6. SaidOf(f, told, v, Faults(a, f.key))
      BY <3>3, <3>5, SaidOfMore
    <3> QED
      BY <3>1, <3>6
  <2>4. ASSUME NEW key \in DOMAIN told, \A k \in 1 .. 2 : features[k].key # key
        PROVE  <<key, "unknown_feature">> \in Faults(a, key)
    <3>1. <<key, "unknown_feature">> \in a.issues
      BY <2>1, <2>4 DEF IsParsed
    <3> QED
      BY <3>1 DEF Faults
  <2>5. \A k \in DOMAIN a.values : SaidOf(features[k], told, a.values[k], Faults(a, features[k].key))
    BY <2>2, <2>3
  <2>6. \A key \in DOMAIN told :
          (\E k \in DOMAIN features : features[k].key = key) \/ <<key, "unknown_feature">> \in Faults(a, key)
    BY <1>3, <2>4
  <2> QED
    BY <1>3, <1>7, <2>2, <2>5, <2>6
<1> QED
  BY <1>3, <1>6, <1>7

\* A readable response gives each feature one value, what the model wrote, and
\* what is stored without an issue is null or is of its type, with evidence.
THEOREM ParseHolds == Spec => []EveryFeatureIsAnswered
<1> DEFINE Read == Answered("parses") => FeaturesAnswered(question, answer)
<1>1. Init => Read
  BY DEF Init, Answered
<1>2. Asked /\ Read /\ [Next]_ruleVars => Read'
  BY OneRuleAnswers, KindOfQuestion, ParsedIsAnswered DEF Answered
<1>3. Read <=> EveryFeatureIsAnswered
  BY AnswersSay
<1> QED
  BY <1>1, <1>2, <1>3, QuestionStands, PTL DEF Spec
-----------------------------------------------------------------------------
(* Which code list a column is mapped to.                                  *)

LEMMA SuggestShape ==
  ASSUME question \in SuggestQuestion
  PROVE  /\ \A c \in DOMAIN question.columns : IsFiniteSet(question.columns[c].values)
         /\ \A k \in DOMAIN question.lists : IsFiniteSet(question.lists[k])
<1>1. \A S \in SUBSET {1, 2, 3} : IsFiniteSet(S)
  <2> SUFFICES ASSUME NEW S \in SUBSET {1, 2, 3} PROVE IsFiniteSet(S)
    OBVIOUS
  <2>1. PICK n \in Nat : n = 3
    OBVIOUS
  <2>2. S \in SUBSET Nat /\ \A s \in S : s <= n
    BY <2>1
  <2> QED
    BY <2>2, FS_BoundedSetOfNaturals
<1>2. \A c \in DOMAIN question.columns : question.columns[c].values \in SUBSET {1, 2, 3}
  BY DEF SuggestQuestion
<1>3. question.lists \in Keyed({"l1", "l2"}, SUBSET {1, 2, 3})
  BY DEF SuggestQuestion
<1>4. \A k \in DOMAIN question.lists : question.lists[k] \in SUBSET {1, 2, 3}
  <2>1. PICK K \in SUBSET {"l1", "l2"} : question.lists \in [K -> SUBSET {1, 2, 3}]
    BY <1>3 DEF Keyed
  <2> QED
    BY <2>1
<1> QED
  BY <1>1, <1>2, <1>4

\* Of lists that cover a column, the one of the better fit is the shorter.
LEMMA BetterIsShorter ==
  ASSUME NEW values, NEW codes, NEW others, IsFiniteSet(values), values # {},
         IsFiniteSet(codes), IsFiniteSet(others), values \subseteq codes, values \subseteq others
  PROVE  Below(Jaccard(values, others), Jaccard(values, codes)) <=> Cardinality(codes) < Cardinality(others)
<1>1. PICK v \in Nat, n \in Nat, m \in Nat :
        v = Cardinality(values) /\ n = Cardinality(codes) /\ m = Cardinality(others) /\ v # 0
  BY FS_CardinalityType, FS_EmptySet
<1>2. values \cap codes = values /\ values \cup codes = codes /\ values \cap others = values /\ values \cup others = others
  OBVIOUS
<1>3. Below(Jaccard(values, others), Jaccard(values, codes)) <=> v * n < v * m
  BY <1>1, <1>2 DEF Below, Jaccard
<1>4. v * n < v * m <=> n < m
  BY <1>1
<1> QED
  BY <1>1, <1>3, <1>4

\* What is found for a column, and whether it has that attribute already.
FoundFor(c, columns, lists, copied) ==
  IF columns[c].offered THEN Proposed(c, columns[c].values, lists, copied) ELSE {}

MappedTo(c, key, current) == c \in DOMAIN current /\ current[c] = key

Suggestion(c, p, current) ==
  [column |-> c, key |-> p.key, source |-> p.source,
   preselected |-> p.source = "copied" /\ c \notin DOMAIN current]

LEMMA ProposedIs ==
  ASSUME NEW c, NEW values, NEW lists, NEW copied, IsFiniteSet(values),
         \A k \in DOMAIN lists : IsFiniteSet(lists[k]),
         NEW p \in Proposed(c, values, lists, copied)
  PROVE  /\ DOMAIN p = {"key", "source"} /\ p.key \in DOMAIN lists /\ values # {}
         /\ c \in DOMAIN copied => p.source = "copied" /\ p.key = copied[c]
         /\ c \notin DOMAIN copied => p.source = "overlap"
         /\ p.source = "overlap" =>
              /\ c \notin DOMAIN copied
              /\ values \subseteq lists[p.key]
              /\ \A l \in DOMAIN lists \ {p.key} : values \subseteq lists[l] =>
                   Cardinality(lists[p.key]) < Cardinality(lists[l])
<1>1. values # {}
  BY DEF Proposed
<1>2. CASE c \in DOMAIN copied
  <2>1. PICK k \in {copied[c]} \cap DOMAIN lists : p = [key |-> k, source |-> "copied"]
    BY <1>1, <1>2 DEF Proposed
  <2> QED
    BY <1>1, <1>2, <2>1
<1>3. CASE c \notin DOMAIN copied
  <2>1. PICK k \in ClearWinner(values, lists) : p = [key |-> k, source |-> "overlap"]
    BY <1>1, <1>3 DEF Proposed
  <2>2. /\ k \in DOMAIN lists /\ values \subseteq lists[k]
        /\ \A l \in DOMAIN lists \ {k} : values \subseteq lists[l] =>
             Below(Jaccard(values, lists[l]), Jaccard(values, lists[k]))
    BY DEF ClearWinner
  <2>3. \A l \in DOMAIN lists \ {k} : values \subseteq lists[l] => Cardinality(lists[k]) < Cardinality(lists[l])
    BY <1>1, <2>2, BetterIsShorter
  <2> QED
    BY <1>1, <1>3, <2>1, <2>2, <2>3
<1> QED
  BY <1>2, <1>3

\* One attribute at most.
LEMMA ProposedIsOne ==
  ASSUME NEW c, NEW values, NEW lists, NEW copied, IsFiniteSet(values),
         \A k \in DOMAIN lists : IsFiniteSet(lists[k]),
         NEW p \in Proposed(c, values, lists, copied), NEW q \in Proposed(c, values, lists, copied)
  PROVE  p.key = q.key /\ p.source = q.source
<1>1. CASE c \in DOMAIN copied
  BY <1>1, ProposedIs
<1>2. CASE c \notin DOMAIN copied
  <2>1. /\ p.source = "overlap" /\ q.source = "overlap" /\ p.key \in DOMAIN lists /\ q.key \in DOMAIN lists
        /\ values \subseteq lists[p.key] /\ values \subseteq lists[q.key]
    BY <1>2, ProposedIs
  <2>2. p.key # q.key => Cardinality(lists[p.key]) < Cardinality(lists[q.key])
    BY <2>1, ProposedIs
  <2>3. p.key # q.key => Cardinality(lists[q.key]) < Cardinality(lists[p.key])
    BY <2>1, ProposedIs
  <2>4. Cardinality(lists[p.key]) \in Nat /\ Cardinality(lists[q.key]) \in Nat
    BY <2>1, FS_CardinalityType
  <2> QED
    BY <2>1, <2>2, <2>3, <2>4
<1> QED
  BY <1>1, <1>2

LEMMA SuggestIs ==
  ASSUME NEW columns, NEW lists, NEW copied, NEW current,
         NEW out, out = SuggestMappings(columns, lists, copied, current)
  PROVE  /\ \A s : s \in out.suggestions <=>
              \E c \in DOMAIN columns : \E p \in FoundFor(c, columns, lists, copied) :
                ~MappedTo(c, p.key, current) /\ s = Suggestion(c, p, current)
         /\ \A u \in out.unresolved : DOMAIN u = {"column", "reason"}
         /\ \A c : (\E u \in out.unresolved : u.column = c) <=>
              /\ c \in DOMAIN copied \cap DOMAIN columns
              /\ FoundFor(c, columns, lists, copied) = {} /\ ~MappedTo(c, copied[c], current)
         /\ \A u, w \in out.unresolved : u.column = w.column => u = w
<1> DEFINE reason(c) == IF copied[c] \in DOMAIN lists THEN "column_not_offered" ELSE "key_not_in_import"
           suggestions == UNION {{Suggestion(c, p, current) :
                                    p \in {q \in FoundFor(c, columns, lists, copied) : ~MappedTo(c, q.key, current)}} :
                                   c \in DOMAIN columns}
           missed == {d \in DOMAIN copied \cap DOMAIN columns :
                        FoundFor(d, columns, lists, copied) = {} /\ ~MappedTo(d, copied[d], current)}
           unresolved == {[column |-> c, reason |-> reason(c)] : c \in missed}
<1>1. out = [suggestions |-> suggestions, unresolved |-> unresolved]
  BY Zenon DEF SuggestMappings, FoundFor, MappedTo, Suggestion
<1>2. out.suggestions = suggestions /\ out.unresolved = unresolved
  <2> HIDE DEF suggestions, unresolved
  <2> QED
    BY <1>1
<1>3. \A s : s \in suggestions <=>
        \E c \in DOMAIN columns : \E p \in FoundFor(c, columns, lists, copied) :
          ~MappedTo(c, p.key, current) /\ s = Suggestion(c, p, current)
  OBVIOUS
<1>4. /\ \A u \in unresolved : DOMAIN u = {"column", "reason"}
      /\ \A c : (\E u \in unresolved : u.column = c) <=> c \in missed
      /\ \A u, w \in unresolved : u.column = w.column => u = w
  <2> HIDE DEF missed, reason
  <2>1. \A u \in unresolved : \E c \in missed : u = [column |-> c, reason |-> reason(c)]
    OBVIOUS
  <2>2. \A c : [column |-> c, reason |-> reason(c)].column = c
    OBVIOUS
  <2>3. \A c \in missed : [column |-> c, reason |-> reason(c)] \in unresolved
    OBVIOUS
  <2>4. \A u \in unresolved : DOMAIN u = {"column", "reason"}
    BY <2>1
  <2> HIDE DEF unresolved
  <2>5. \A c : (\E u \in unresolved : u.column = c) <=> c \in missed
    BY <2>1, <2>2, <2>3
  <2>6. \A u, w \in unresolved : u.column = w.column => u = w
    BY <2>1, <2>2
  <2> QED
    BY <2>4, <2>5, <2>6
<1> HIDE DEF suggestions, unresolved
<1> QED
  BY <1>2, <1>3, <1>4

LEMMA SuggestedIsSafe ==
  ASSUME question \in SuggestQuestion, question' = question, Suggests
  PROVE  SuggestionsAreSafe'
<1>1. PICK columns, lists, copied, current :
        /\ columns = question.columns /\ lists = question.lists
        /\ copied = question.copied /\ current = question.current
  OBVIOUS
<1>2. PICK out : out = answer' /\ out = SuggestMappings(columns, lists, copied, current)
  BY <1>1 DEF Suggests, Answers
<1>3. /\ \A c \in DOMAIN columns : IsFiniteSet(columns[c].values)
      /\ \A k \in DOMAIN lists : IsFiniteSet(lists[k])
  BY <1>1, SuggestShape
<1>4. \A s : s \in out.suggestions <=>
        \E c \in DOMAIN columns : \E p \in FoundFor(c, columns, lists, copied) :
          ~MappedTo(c, p.key, current) /\ s = Suggestion(c, p, current)
  BY <1>2, SuggestIs
<1>5. /\ \A u \in out.unresolved : DOMAIN u = {"column", "reason"}
      /\ \A c : (\E u \in out.unresolved : u.column = c) <=>
           /\ c \in DOMAIN copied \cap DOMAIN columns
           /\ FoundFor(c, columns, lists, copied) = {} /\ ~MappedTo(c, copied[c], current)
      /\ \A u, w \in out.unresolved : u.column = w.column => u = w
  BY <1>2, SuggestIs
<1>6. \A c \in DOMAIN columns : \A p, q \in FoundFor(c, columns, lists, copied) :
        p.key = q.key /\ p.source = q.source
  BY <1>3, ProposedIsOne DEF FoundFor
<1>7. \A c, p : Suggestion(c, p, current).column = c /\ Suggestion(c, p, current).key = p.key
                  /\ Suggestion(c, p, current).source = p.source
                  /\ Suggestion(c, p, current).preselected = (p.source = "copied" /\ c \notin DOMAIN current)
  BY DEF Suggestion
<1>8. ASSUME NEW s \in out.suggestions, NEW u \in out.suggestions, s.column = u.column
      PROVE  s = u
  <2>1. PICK c \in DOMAIN columns : \E p \in FoundFor(c, columns, lists, copied) : s = Suggestion(c, p, current)
    BY <1>4
  <2>2. PICK d \in DOMAIN columns : \E q \in FoundFor(d, columns, lists, copied) : u = Suggestion(d, q, current)
    BY <1>4
  <2>3. c = d
    BY <1>7, <1>8, <2>1, <2>2
  <2>4. PICK p \in FoundFor(c, columns, lists, copied) : s = Suggestion(c, p, current)
    BY <2>1
  <2>5. PICK q \in FoundFor(c, columns, lists, copied) : u = Suggestion(c, q, current)
    BY <2>2, <2>3
  <2>6. p.key = q.key /\ p.source = q.source
    BY <1>6
  <2> QED
    BY <2>4, <2>5, <2>6 DEF Suggestion
<1>9. ASSUME NEW s \in out.suggestions
      PROVE  /\ s.key \in DOMAIN lists /\ ~MappedTo(s.column, s.key, current) /\ columns[s.column].offered
             /\ s.source = "overlap" =>
                  /\ s.column \notin DOMAIN copied
                  /\ Coverage(columns[s.column].values, lists[s.key], lists[s.key]) = "ok"
                  /\ \A l \in DOMAIN lists \ {s.key} : columns[s.column].values \subseteq lists[l] =>
                       Cardinality(lists[s.key]) < Cardinality(lists[l])
             /\ s.preselected => s.column \notin DOMAIN current /\ copied[s.column] = s.key
  <2>1. PICK c \in DOMAIN columns : \E p \in FoundFor(c, columns, lists, copied) :
          ~MappedTo(c, p.key, current) /\ s = Suggestion(c, p, current)
    BY <1>4
  <2>2. PICK p \in FoundFor(c, columns, lists, copied) :
          ~MappedTo(c, p.key, current) /\ s = Suggestion(c, p, current)
    BY <2>1
  <2>3. columns[c].offered /\ p \in Proposed(c, columns[c].values, lists, copied)
    BY DEF FoundFor
  <2>4. IsFiniteSet(columns[c].values)
    BY <1>3
  <2>5. /\ p.key \in DOMAIN lists /\ columns[c].values # {}
        /\ c \in DOMAIN copied => p.source = "copied" /\ p.key = copied[c]
        /\ c \notin DOMAIN copied => p.source = "overlap"
        /\ p.source = "overlap" =>
             /\ c \notin DOMAIN copied
             /\ columns[c].values \subseteq lists[p.key]
             /\ \A l \in DOMAIN lists \ {p.key} : columns[c].values \subseteq lists[l] =>
                  Cardinality(lists[p.key]) < Cardinality(lists[l])
    BY <1>3, <2>3, <2>4, ProposedIs
  <2>6. p.source = "overlap" => Coverage(columns[c].values, lists[p.key], lists[p.key]) = "ok"
    BY <2>5 DEF Coverage
  <2>7. s.column = c /\ s.key = p.key /\ s.source = p.source
          /\ s.preselected = (p.source = "copied" /\ c \notin DOMAIN current)
    BY <1>7, <2>2
  <2> QED
    BY <2>2, <2>3, <2>5, <2>6, <2>7
<1>10. ASSUME NEW c \in DOMAIN copied \cap DOMAIN columns
       PROVE  Cardinality({s \in out.suggestions : s.column = c /\ s.key = copied[c]})
                + Cardinality({u \in out.unresolved : u.column = c})
                = IF MappedTo(c, copied[c], current) THEN 0 ELSE 1
  <2> DEFINE made == {s \in out.suggestions : s.column = c /\ s.key = copied[c]}
             told == {u \in out.unresolved : u.column = c}
  <2> SUFFICES Cardinality(made) + Cardinality(told) = IF MappedTo(c, copied[c], current) THEN 0 ELSE 1
    OBVIOUS
  <2>1. \A p \in FoundFor(c, columns, lists, copied) : p.key = copied[c]
    <3>1. IsFiniteSet(columns[c].values)
      BY <1>3
    <3>2. \A p \in FoundFor(c, columns, lists, copied) : p \in Proposed(c, columns[c].values, lists, copied)
      BY DEF FoundFor
    <3> QED
      BY <1>3, <3>1, <3>2, ProposedIs
  <2>2. CASE MappedTo(c, copied[c], current)
    <3>1. made = {}
      <4>1. ASSUME NEW s \in made PROVE FALSE
        BY <1>9, <2>2, <4>1
      <4> QED
        BY <4>1
    <3>2. told = {}
      BY <1>5, <2>2
    <3> HIDE DEF made, told
    <3>3. Cardinality(made) = 0 /\ Cardinality(told) = 0
      BY <3>1, <3>2, FS_EmptySet, Zenon
    <3> QED
      BY <2>2, <3>3
  <2>3. CASE ~MappedTo(c, copied[c], current) /\ FoundFor(c, columns, lists, copied) = {}
    <3>1. made = {}
      <4>1. ASSUME NEW s \in made PROVE FALSE
        BY <1>4, <1>7, <2>3
      <4> QED
        BY <4>1
    <3>2. PICK u \in out.unresolved : u.column = c
      BY <1>5, <2>3
    <3>3. told = {u}
      BY <1>5, <3>2
    <3> HIDE DEF made, told
    <3>4. Cardinality(told) = 1 /\ Cardinality(made) = 0
      BY <3>1, <3>3, FS_EmptySet, FS_Singleton, Zenon
    <3> QED
      BY <2>3, <3>4
  <2>4. CASE ~MappedTo(c, copied[c], current) /\ FoundFor(c, columns, lists, copied) # {}
    <3>1. told = {}
      BY <1>5, <2>4
    <3>2. PICK p \in FoundFor(c, columns, lists, copied) : p.key = copied[c]
      BY <2>1, <2>4
    <3>3. Suggestion(c, p, current) \in made
      BY <1>4, <1>7, <2>4, <3>2
    <3>4. made = {Suggestion(c, p, current)}
      BY <1>8, <3>3
    <3> HIDE DEF made, told
    <3>5. Cardinality(made) = 1 /\ Cardinality(told) = 0
      BY <3>1, <3>4, FS_EmptySet, FS_Singleton, Zenon
    <3> QED
      BY <2>4, <3>5
  <2> QED
    BY <2>2, <2>3, <2>4
<1> QED
  BY <1>1, <1>2, <1>8, <1>9, <1>10 DEF SuggestionsAreSafe, Answered, MappedTo

\* One suggestion at most for a column, of an attribute that covers it and is
\* shorter than any other that does, or of what was copied, and each copy is
\* suggested, in place or reported.
THEOREM SuggestHolds == Spec => []SuggestionsAreSafe
<1>1. Init => SuggestionsAreSafe
  BY DEF Init, SuggestionsAreSafe, Answered
<1>2. Asked /\ SuggestionsAreSafe /\ [Next]_ruleVars => SuggestionsAreSafe'
  BY OneRuleAnswers, KindOfQuestion, SuggestedIsSafe DEF SuggestionsAreSafe, Answered
<1> QED
  BY <1>1, <1>2, QuestionStands, PTL DEF Spec
-----------------------------------------------------------------------------
(* Functions defined along a range.                                        *)

\* What is computed step by step along a range can be computed to its end.
Steps(f, n, a, step) == f[0] = a /\ \A k \in 1 .. n : f[k] = step[<<k, f[k - 1]>>]

LEMMA StepsExist ==
  ASSUME NEW n \in Nat, NEW A, NEW a \in A, NEW step \in [(1 .. n) \X A -> A]
  PROVE  \E f \in [0 .. n -> A] : Steps(f, n, a, step)
<1> DEFINE Reaches(m) == \E f \in [0 .. m -> A] : f[0] = a /\ \A k \in 1 .. m : f[k] = step[<<k, f[k - 1]>>]
           T == {m \in 0 .. n : Reaches(m)}
<1>1. 0 \in T
  <2> DEFINE g == [k \in 0 .. 0 |-> a]
  <2>1. g \in [0 .. 0 -> A] /\ g[0] = a /\ 1 .. 0 = {}
    OBVIOUS
  <2>2. Reaches(0)
    <3> HIDE DEF g
    <3> QED
      BY <2>1
  <2> QED
    BY <2>2
<1>2. ASSUME NEW m \in 0 .. n - 1, m \in T
      PROVE  m + 1 \in T
  <2>1. PICK f \in [0 .. m -> A] : f[0] = a /\ \A k \in 1 .. m : f[k] = step[<<k, f[k - 1]>>]
    BY <1>2
  <2> DEFINE g == [k \in 0 .. m + 1 |-> IF k = m + 1 THEN step[<<m + 1, f[m]>>] ELSE f[k]]
  <2>2. step[<<m + 1, f[m]>>] \in A
    BY <2>1
  <2>3. g \in [0 .. m + 1 -> A] /\ g[0] = a
    BY <2>1, <2>2
  <2>4. ASSUME NEW k \in 1 .. m + 1
        PROVE  g[k] = step[<<k, g[k - 1]>>]
    <3>1. CASE k = m + 1
      <4>1. k - 1 = m /\ m \in 0 .. m + 1 /\ m # m + 1
        BY <3>1
      <4>2. g[m] = f[m] /\ g[m + 1] = step[<<m + 1, f[m]>>]
        BY <4>1
      <4> QED
        BY <3>1, <4>1, <4>2
    <3>2. CASE k # m + 1
      <4>1. k \in 1 .. m /\ k - 1 \in 0 .. m /\ k - 1 # m + 1
        BY <3>2
      <4> QED
        BY <2>1, <4>1
    <3> QED
      BY <3>1, <3>2
  <2>5. Reaches(m + 1)
    <3> HIDE DEF g
    <3> QED
      BY <2>3, <2>4
  <2> QED
    BY <2>5
<1>3. 0 .. n \subseteq T
  <2> HIDE DEF T
  <2> QED
    BY <1>1, <1>2, RangeInduction
<1> QED
  BY <1>3 DEF Steps
-----------------------------------------------------------------------------
(* Which models are told apart.                                            *)

\* A cell is a point inside an interval.
CellShape(c) == c.point \in Nat /\ c.low \in Nat /\ c.high \in Nat /\ c.low <= c.point /\ c.point <= c.high

\* The first of the highest among some cells.
IsBest(cells, S, i) ==
  \A j \in S : cells[j].point < cells[i].point \/ (cells[j].point = cells[i].point /\ i <= j)

LEMMA LeastIsOne ==
  ASSUME NEW S, S \subseteq Nat, S # {}
  PROVE  \E m \in S : \A x \in S : m <= x
<1>1. PICK m \in S : \A x \in S : <<x, m>> \notin OpToRel(<, Nat)
  BY NatLessThanWellFounded, WFMin
<1>2. \A x \in S : ~(x < m)
  BY <1>1 DEF OpToRel
<1> QED
  BY <1>2

LEMMA BestExists ==
  ASSUME NEW n \in Nat, NEW cells, NEW top \in Nat,
         \A i \in 1 .. n : CellShape(cells[i]) /\ cells[i].point <= top,
         NEW S, S \subseteq 1 .. n, S # {}
  PROVE  \E i \in S : IsBest(cells, S, i)
<1> DEFINE points == {cells[i].point : i \in S}
<1>1. \E p \in points : \A q \in points : q <= p
  <2>1. points \subseteq Nat /\ points # {} /\ \A q \in points : q <= top
    BY DEF CellShape
  <2> HIDE DEF points
  <2> QED
    BY <2>1, GreatestIsOne
<1>2. PICK h \in S : \A j \in S : cells[j].point <= cells[h].point
  BY <1>1
<1> DEFINE highest == {i \in S : cells[i].point = cells[h].point}
<1>3. \E m \in highest : \A x \in highest : m <= x
  <2>1. highest \subseteq S
    OBVIOUS
  <2>2. h \in highest
    OBVIOUS
  <2>3. S \subseteq Nat
    OBVIOUS
  <2> HIDE DEF highest
  <2> QED
    BY <2>1, <2>2, <2>3, LeastIsOne
<1>4. PICK i \in highest : \A x \in highest : i <= x
  BY <1>3
<1>5. ASSUME NEW j \in S
      PROVE  cells[j].point < cells[i].point \/ (cells[j].point = cells[i].point /\ i <= j)
  <2>1. cells[j].point \in Nat /\ cells[i].point \in Nat /\ cells[j].point <= cells[i].point
    BY <1>2, <1>4 DEF CellShape
  <2> QED
    BY <1>4, <2>1
<1> QED
  BY <1>4, <1>5 DEF IsBest

\* The leader and the best of the unranked are the first of the highest.
LEMMA LeaderIsBest ==
  ASSUME NEW n \in Nat, n # 0, NEW cells, DOMAIN cells = 1 .. n, NEW top \in Nat,
         \A i \in 1 .. n : CellShape(cells[i]) /\ cells[i].point <= top
  PROVE  Leader(cells) \in 1 .. n /\ IsBest(cells, 1 .. n, Leader(cells))
<1> DEFINE S == 1 .. n
<1>1. S \subseteq 1 .. n /\ 1 \in S
  OBVIOUS
<1>2. \E i \in S : IsBest(cells, S, i)
  <2> HIDE DEF S
  <2> QED
    BY <1>1, BestExists
<1> QED
  BY <1>2 DEF Leader, IsBest

LEMMA BestIsOne ==
  ASSUME NEW n \in Nat, NEW cells, \A i \in 1 .. n : CellShape(cells[i]),
         NEW S, S \subseteq 1 .. n, NEW i \in S, NEW j \in S,
         IsBest(cells, S, i), IsBest(cells, S, j)
  PROVE  i = j
<1>1. cells[i].point \in Nat /\ cells[j].point \in Nat /\ i \in Nat /\ j \in Nat
  BY DEF CellShape
<1> QED
  BY <1>1 DEF IsBest

LEMMA TwoAreTwo ==
  ASSUME NEW S, IsFiniteSet(S), NEW x \in S, NEW y \in S, x # y
  PROVE  Cardinality(S) >= 2
<1>1. PICK T : T = S \ {x}
  OBVIOUS
<1>2. IsFiniteSet(T) /\ Cardinality(T) = Cardinality(S) - 1
  BY <1>1, FS_RemoveElement
<1>3. T # {}
  BY <1>1
<1>4. Cardinality(T) # 0 /\ Cardinality(T) \in Nat /\ Cardinality(S) \in Nat
  BY <1>2, <1>3, FS_EmptySet, FS_CardinalityType
<1> QED
  BY <1>2, <1>4

\* One best, apart from every other, or several that overlap the leader.
MarksTell(cells, marks) ==
  LET Marked(m) == {i \in DOMAIN cells : marks[i] = m} IN
  /\ \/ Cardinality(Marked("best")) = 1 /\ Marked("tied") = {}
     \/ Marked("best") = {} /\ Cardinality(Marked("tied")) >= 2
  /\ \A i \in Marked("best") : \A j \in DOMAIN cells \ {i} : ~Overlaps(cells[i], cells[j])
  /\ \A i \in DOMAIN cells : marks[i] # "none" <=> Overlaps(cells[i], cells[Leader(cells)])

LEMMA MarksSplit ==
  ASSUME NEW n \in Nat, n # 0, NEW cells, DOMAIN cells = 1 .. n, NEW top \in Nat,
         \A i \in 1 .. n : CellShape(cells[i]) /\ cells[i].point <= top,
         NEW marks, marks = MarkTies(cells)
  PROVE  MarksTell(cells, marks)
<1> DEFINE Marked(m) == {i \in 1 .. n : marks[i] = m}
           tied == {i \in 1 .. n : Overlaps(cells[i], cells[Leader(cells)])}
<1> SUFFICES /\ \/ Cardinality(Marked("best")) = 1 /\ Marked("tied") = {}
                \/ Marked("best") = {} /\ Cardinality(Marked("tied")) >= 2
             /\ \A i \in Marked("best") : \A j \in 1 .. n \ {i} : ~Overlaps(cells[i], cells[j])
             /\ \A i \in 1 .. n : marks[i] # "none" <=> Overlaps(cells[i], cells[Leader(cells)])
  BY DEF MarksTell
<1>1. Leader(cells) \in 1 .. n
  BY LeaderIsBest
<1>2. Leader(cells) \in tied
  BY <1>1 DEF CellShape, Overlaps
<1>3. \A i \in 1 .. n : marks[i] = IF i \notin tied THEN "none" ELSE IF tied \subseteq {Leader(cells)} THEN "best" ELSE "tied"
  BY <1>2 DEF MarkTies
<1>4. \A i \in 1 .. n : marks[i] # "none" <=> i \in tied
  BY <1>3
<1>5. IsFiniteSet(tied)
  <2>1. tied \subseteq 1 .. n /\ IsFiniteSet(1 .. n)
    BY FS_Interval
  <2> HIDE DEF tied
  <2> QED
    BY <2>1, FS_Subset
<1> HIDE DEF tied
<1>6. CASE tied \subseteq {Leader(cells)}
  <2>1. tied = {Leader(cells)}
    BY <1>2, <1>6
  <2>2. Marked("best") = tied /\ Marked("tied") = {}
    BY <1>1, <1>3, <1>6, <2>1
  <2>3. Cardinality(Marked("best")) = 1
    BY <2>1, <2>2, FS_Singleton, Zenon
  <2>4. ASSUME NEW i \in Marked("best"), NEW j \in 1 .. n \ {i}
        PROVE  ~Overlaps(cells[i], cells[j])
    <3>1. i = Leader(cells) /\ j \notin tied
      BY <2>1, <2>2
    <3>2. ~Overlaps(cells[j], cells[i])
      BY <3>1 DEF tied
    <3> QED
      BY <3>2 DEF Overlaps
  <2> QED
    BY <1>4, <2>2, <2>3, <2>4 DEF tied
<1>7. CASE ~(tied \subseteq {Leader(cells)})
  <2>1. Marked("best") = {}
    BY <1>3, <1>7
  <2>2. Marked("tied") = tied
    BY <1>3, <1>7 DEF tied
  <2>3. PICK x \in tied : x # Leader(cells)
    BY <1>7
  <2>4. Cardinality(tied) >= 2
    BY <1>2, <1>5, <2>3, TwoAreTwo
  <2> QED
    BY <1>4, <2>1, <2>2, <2>4 DEF tied
<1> QED
  BY <1>6, <1>7

\* The models without a rank, the best of them and those it is not told apart
\* from; and the ranks once these have theirs.
Unranked(cells, rank) == {i \in DOMAIN cells : rank[i] = 0}

BestOf(cells, rank) ==
  CHOOSE i \in Unranked(cells, rank) : \A j \in Unranked(cells, rank) :
    cells[j].point < cells[i].point \/ (cells[j].point = cells[i].point /\ i <= j)

GroupOf(cells, rank) == {i \in Unranked(cells, rank) : Overlaps(cells[i], cells[BestOf(cells, rank)])}

RankedNext(cells, rank) ==
  IF Unranked(cells, rank) = {} THEN rank
  ELSE [i \in DOMAIN cells |->
          IF i \in GroupOf(cells, rank) \cup {BestOf(cells, rank)}
            THEN Cardinality(DOMAIN cells \ Unranked(cells, rank)) + 1
            ELSE rank[i]]

\* The ranks after some groups: the ranks are the numbers of the models before
\* each, a model without one comes after them, the first group is that of the
\* leader, and each group ranks someone while there is someone.
RanksSoFar(cells, n, k, rank) ==
  LET ranked == {i \in 1 .. n : rank[i] # 0} IN
  /\ rank \in [1 .. n -> Nat]
  /\ \A i \in ranked : rank[i] = 1 + Cardinality({j \in ranked : rank[j] < rank[i]})
  /\ \A i \in ranked : rank[i] <= Cardinality(ranked)
  /\ k = 0 => ranked = {}
  /\ k > 0 => \A i \in 1 .. n : rank[i] = 1 <=> Overlaps(cells[i], cells[Leader(cells)])
  /\ ranked = 1 .. n \/ Cardinality(ranked) >= k

LEMMA FirstRanks ==
  ASSUME NEW n \in Nat, NEW cells
  PROVE  RanksSoFar(cells, n, 0, [i \in 1 .. n |-> 0])
<1>1. PICK rank : rank = [i \in 1 .. n |-> 0]
  OBVIOUS
<1> SUFFICES RanksSoFar(cells, n, 0, rank)
  BY <1>1
<1> DEFINE ranked == {i \in 1 .. n : rank[i] # 0}
<1>2. ranked = {} /\ rank \in [1 .. n -> Nat]
  BY <1>1
<1>3. Cardinality(ranked) = 0
  BY <1>2, FS_EmptySet
<1> QED
  BY <1>2, <1>3 DEF RanksSoFar

LEMMA NextRanks ==
  ASSUME NEW n \in Nat, n # 0, NEW cells, DOMAIN cells = 1 .. n, NEW top \in Nat,
         \A i \in 1 .. n : CellShape(cells[i]) /\ cells[i].point <= top,
         NEW k \in Nat, NEW rank, RanksSoFar(cells, n, k, rank),
         NEW next, next = RankedNext(cells, rank)
  PROVE  RanksSoFar(cells, n, k + 1, next)
<1> DEFINE ranked == {i \in 1 .. n : rank[i] # 0}
           free == Unranked(cells, rank)
           best == BestOf(cells, rank)
           group == GroupOf(cells, rank)
           rankedNext == {i \in 1 .. n : next[i] # 0}
<1>1. rank \in [1 .. n -> Nat] /\ free = 1 .. n \ ranked /\ ranked \subseteq 1 .. n
  BY DEF RanksSoFar, Unranked
<1>2. /\ \A i \in ranked : rank[i] = 1 + Cardinality({j \in ranked : rank[j] < rank[i]})
      /\ \A i \in ranked : rank[i] <= Cardinality(ranked)
      /\ k = 0 => ranked = {}
      /\ k > 0 => \A i \in 1 .. n : rank[i] = 1 <=> Overlaps(cells[i], cells[Leader(cells)])
      /\ ranked = 1 .. n \/ Cardinality(ranked) >= k
  BY DEF RanksSoFar
<1>3. IsFiniteSet(1 .. n) /\ IsFiniteSet(ranked) /\ Cardinality(ranked) \in Nat
  <2>1. IsFiniteSet(1 .. n)
    BY FS_Interval
  <2> HIDE DEF ranked
  <2> QED
    BY <1>1, <2>1, FS_Subset, FS_CardinalityType
<1>4. CASE free = {}
  <2>1. next = rank /\ ranked = 1 .. n
    BY <1>1, <1>4 DEF RankedNext
  <2>2. k > 0
    <3>1. 1 \in 1 .. n
      OBVIOUS
    <3> HIDE DEF ranked
    <3> QED
      BY <1>2, <2>1, <3>1
  <2>3. k + 1 > 0 /\ k + 1 # 0
    OBVIOUS
  <2> QED
    BY <1>1, <1>2, <2>1, <2>2, <2>3 DEF RanksSoFar
<1>5. CASE free # {}
  <2>1. best \in free /\ IsBest(cells, free, best)
    <3>1. \E i \in free : IsBest(cells, free, i)
      <4> HIDE DEF free, ranked
      <4> QED
        BY <1>1, <1>5, BestExists
    <3> QED
      BY <3>1 DEF BestOf, IsBest
  <2>2. group \subseteq free /\ best \in group
    <3>1. group = {i \in free : Overlaps(cells[i], cells[best])}
      BY DEF GroupOf
    <3>2. best \in free /\ CellShape(cells[best])
      BY <1>1, <2>1
    <3>3. Overlaps(cells[best], cells[best])
      <4> HIDE DEF best, free, ranked
      <4> QED
        BY <3>2 DEF Overlaps, CellShape
    <3> HIDE DEF best, free, group, ranked
    <3> QED
      BY <3>1, <3>2, <3>3
  <2>3. \A i \in 1 .. n : next[i] = IF i \in group THEN Cardinality(ranked) + 1 ELSE rank[i]
    <3>1. DOMAIN cells \ free = ranked
      BY <1>1
    <3>2. next = [i \in 1 .. n |-> IF i \in group \cup {best} THEN Cardinality(1 .. n \ free) + 1 ELSE rank[i]]
      BY <1>5 DEF RankedNext
    <3> HIDE DEF group, best, free, ranked
    <3> QED
      BY <2>2, <3>1, <3>2
  <2>4. next \in [1 .. n -> Nat]
    <3>1. DOMAIN next = 1 .. n /\ next = [i \in 1 .. n |-> next[i]]
      BY <1>5 DEF RankedNext
    <3> HIDE DEF group, ranked
    <3> QED
      BY <1>1, <1>3, <2>3, <3>1
  <2> HIDE DEF best, group
  <2>5. rankedNext = ranked \cup group /\ \A i \in group : i \notin ranked
    BY <1>1, <1>3, <2>2, <2>3
  <2>6. /\ IsFiniteSet(rankedNext) /\ Cardinality(rankedNext) \in Nat
        /\ Cardinality(rankedNext) >= Cardinality(ranked) + 1
    <3> DEFINE more == ranked \cup {best}
    <3>1. IsFiniteSet(rankedNext)
      <4>1. rankedNext \subseteq 1 .. n
        OBVIOUS
      <4> HIDE DEF rankedNext
      <4> QED
        BY <1>3, <4>1, FS_Subset
    <3>2. more \subseteq rankedNext /\ best \notin ranked
      BY <2>2, <2>5
    <3> HIDE DEF ranked, rankedNext
    <3>3. Cardinality(more) = Cardinality(ranked) + 1
      BY <1>3, <3>2, FS_AddElement
    <3> HIDE DEF more
    <3> QED
      BY <1>3, <3>1, <3>2, <3>3, FS_Subset, FS_CardinalityType
  <2>7. ASSUME NEW i \in rankedNext
        PROVE  /\ next[i] = 1 + Cardinality({j \in rankedNext : next[j] < next[i]})
               /\ next[i] <= Cardinality(rankedNext)
    <3> DEFINE before == {j \in rankedNext : next[j] < next[i]}
    <3> SUFFICES next[i] = 1 + Cardinality(before) /\ next[i] <= Cardinality(rankedNext)
      OBVIOUS
    <3>1. CASE i \in group
      <4>1. before = ranked
        <5>1. \A j \in group : next[j] = Cardinality(ranked) + 1
          BY <1>1, <2>2, <2>3
        <5>2. \A j \in ranked : next[j] = rank[j] /\ rank[j] \in Nat /\ rank[j] <= Cardinality(ranked)
          BY <1>1, <1>2, <2>3, <2>5
        <5>3. \A j \in group : ~(next[j] < next[i])
          BY <1>3, <3>1, <5>1
        <5>4. \A j \in ranked : next[j] < next[i]
          BY <1>3, <3>1, <5>1, <5>2
        <5> HIDE DEF ranked, rankedNext
        <5> QED
          BY <2>5, <5>3, <5>4
      <4> HIDE DEF before, ranked, rankedNext
      <4>2. next[i] = Cardinality(ranked) + 1
        BY <1>1, <2>2, <2>3, <3>1
      <4> QED
        BY <1>3, <2>6, <4>1, <4>2
    <3>2. CASE i \in ranked
      <4>1. i \notin group /\ next[i] = rank[i]
        BY <2>3, <2>5, <3>2
      <4>2. before = {j \in ranked : rank[j] < rank[i]}
        <5>1. \A j \in group : next[j] = Cardinality(ranked) + 1
          BY <1>1, <2>2, <2>3
        <5>2. \A j \in ranked : next[j] = rank[j] /\ rank[j] \in Nat /\ rank[j] <= Cardinality(ranked)
          BY <1>1, <1>2, <2>3, <2>5
        <5>3. \A j \in group : ~(next[j] < next[i])
          BY <1>3, <3>2, <5>1, <5>2
        <5>4. \A j \in ranked : next[j] < next[i] <=> rank[j] < rank[i]
          BY <4>1, <5>2
        <5> HIDE DEF ranked, rankedNext
        <5> QED
          BY <2>5, <5>3, <5>4
      <4>3. rank[i] = 1 + Cardinality({j \in ranked : rank[j] < rank[i]}) /\ rank[i] <= Cardinality(ranked)
        BY <1>2, <3>2
      <4>4. rank[i] = 1 + Cardinality(before)
        BY <4>2, <4>3
      <4>5. rank[i] \in Nat
        BY <1>1, <3>2
      <4> HIDE DEF rankedNext, ranked, before
      <4> QED
        BY <1>3, <2>6, <4>1, <4>3, <4>4, <4>5
    <3> QED
      BY <2>5, <3>1, <3>2
  <2>8. ASSUME NEW i \in 1 .. n
        PROVE  next[i] = 1 <=> Overlaps(cells[i], cells[Leader(cells)])
    <3>1. CASE k = 0
      <4>1. ranked = {} /\ free = 1 .. n
        BY <1>1, <1>2, <3>1
      <4>2. best = Leader(cells)
        <5>1. Leader(cells) \in free /\ IsBest(cells, free, Leader(cells))
          BY <4>1, LeaderIsBest
        <5>2. free \subseteq 1 .. n /\ \A j \in 1 .. n : CellShape(cells[j])
          BY <4>1
        <5> HIDE DEF free
        <5> QED
          BY <2>1, <5>1, <5>2, BestIsOne
      <4>3. Cardinality(ranked) = 0
        BY <4>1, FS_EmptySet
      <4>4. i \in group <=> Overlaps(cells[i], cells[best])
        BY <4>1 DEF group, best, GroupOf
      <4>5. rank[i] = 0
        BY <4>1
      <4> HIDE DEF ranked
      <4> QED
        BY <2>3, <4>2, <4>3, <4>4, <4>5
    <3>2. CASE k > 0
      <4>1. rank[i] = 1 <=> Overlaps(cells[i], cells[Leader(cells)])
        BY <1>2, <3>2
      <4>2. Cardinality(ranked) # 0
        <5> HIDE DEF ranked
        <5>1. CASE ranked = 1 .. n
          <6>1. ranked # {}
            BY <5>1
          <6> QED
            BY <1>3, <6>1, FS_EmptySet
        <5>2. CASE Cardinality(ranked) >= k
          BY <1>3, <3>2, <5>2
        <5> QED
          BY <1>2, <5>1, <5>2
      <4>3. i \in group => rank[i] = 0
        BY <1>1, <2>2
      <4> HIDE DEF ranked
      <4> QED
        BY <1>3, <2>3, <4>1, <4>2, <4>3
    <3> QED
      BY <3>1, <3>2
  <2>9. rankedNext = 1 .. n \/ Cardinality(rankedNext) >= k + 1
    <3>1. ranked # 1 .. n
      BY <1>1, <1>5
    <3> HIDE DEF ranked, rankedNext
    <3> QED
      BY <1>2, <1>3, <2>6, <3>1
  <2>10. k + 1 # 0
    OBVIOUS
  <2> QED
    BY <2>4, <2>7, <2>8, <2>9, <2>10 DEF RanksSoFar
<1> QED
  BY <1>4, <1>5

LEMMA RankedNextType ==
  ASSUME NEW n \in Nat, NEW cells, DOMAIN cells = 1 .. n, NEW rank \in [1 .. n -> Nat]
  PROVE  RankedNext(cells, rank) \in [1 .. n -> Nat]
<1> DEFINE ranked == 1 .. n \ Unranked(cells, rank)
<1>1. Cardinality(ranked) \in Nat
  <2>1. IsFiniteSet(1 .. n) /\ ranked \subseteq 1 .. n
    BY FS_Interval
  <2> HIDE DEF ranked
  <2> QED
    BY <2>1, FS_Subset, FS_CardinalityType
<1> HIDE DEF ranked
<1>2. Cardinality(ranked) + 1 \in Nat
  BY <1>1
<1> QED
  BY <1>2 DEF RankedNext, ranked

\* Every model has a rank, one more than the models before it, and the first
\* is shared by the leader and those it is not told apart from.
RanksTell(cells, ranks) ==
  \A i \in DOMAIN cells :
    /\ ranks[i] = 1 + Cardinality({j \in DOMAIN cells : ranks[j] < ranks[i]})
    /\ ranks[i] = 1 <=> Overlaps(cells[i], cells[Leader(cells)])

LEMMA RanksCount ==
  ASSUME NEW n \in Nat, n # 0, NEW cells, DOMAIN cells = 1 .. n, NEW top \in Nat,
         \A i \in 1 .. n : CellShape(cells[i]) /\ cells[i].point <= top,
         NEW ranks, ranks = RankModels(cells)
  PROVE  RanksTell(cells, ranks)
<1> DEFINE A == [1 .. n -> Nat]
           none == [i \in 1 .. n |-> 0]
           Follows(f) == f = [k \in 0 .. n |-> IF k = 0 THEN none ELSE RankedNext(cells, f[k - 1])]
<1>1. Cardinality(1 .. n) = n /\ IsFiniteSet(1 .. n)
  BY FS_Interval
<1>2. ranks = (CHOOSE f : Follows(f))[n]
  BY <1>1, Zenon DEF RankModels, RankedNext, Unranked, BestOf, GroupOf
<1>3. PICK f : Follows(f)
  <2> DEFINE step == [s \in (1 .. n) \X A |-> RankedNext(cells, s[2])]
  <2>1. none \in A /\ step \in [(1 .. n) \X A -> A]
    BY RankedNextType
  <2>2. \A s \in (1 .. n) \X A : step[s] = RankedNext(cells, s[2])
    OBVIOUS
  <2> HIDE DEF A, step, none
  <2>3. PICK f \in [0 .. n -> A] : f[0] = none /\ \A k \in 1 .. n : f[k] = step[<<k, f[k - 1]>>]
    <3>1. \E f \in [0 .. n -> A] : Steps(f, n, none, step)
      BY <2>1, StepsExist
    <3> QED
      BY <3>1 DEF Steps
  <2>4. \A k \in 1 .. n : f[k] = RankedNext(cells, f[k - 1])
    <3> TAKE k \in 1 .. n
    <3>1. k - 1 \in 0 .. n
      OBVIOUS
    <3>2. <<k, f[k - 1]>> \in (1 .. n) \X A
      BY <3>1
    <3> QED
      BY <2>2, <2>3, <3>2
  <2>5. f = [k \in 0 .. n |-> IF k = 0 THEN none ELSE RankedNext(cells, f[k - 1])]
    BY <2>3, <2>4
  <2> QED
    BY <2>5
<1>4. PICK g : g = (CHOOSE x : Follows(x))
  OBVIOUS
<1>5. Follows(g) /\ ranks = g[n]
  BY <1>2, <1>3, <1>4
<1>6. g[0] = none /\ \A k \in 0 .. n - 1 : g[k + 1] = RankedNext(cells, g[k])
  <2>1. 0 \in 0 .. n /\ \A k \in 0 .. n - 1 : k + 1 \in 0 .. n /\ k + 1 # 0 /\ (k + 1) - 1 = k
    OBVIOUS
  <2> HIDE DEF none
  <2> QED
    BY <1>5, <2>1
<1>7. RanksSoFar(cells, n, n, ranks)
  <2> DEFINE S == {k \in 0 .. n : RanksSoFar(cells, n, k, g[k])}
  <2>1. 0 \in S
    BY <1>6, FirstRanks
  <2>2. ASSUME NEW k \in 0 .. n - 1, k \in S
        PROVE  k + 1 \in S
    <3>1. k \in Nat /\ k + 1 \in 0 .. n
      OBVIOUS
    <3>2. RanksSoFar(cells, n, k + 1, g[k + 1])
      BY <1>6, <2>2, <3>1, NextRanks
    <3> QED
      BY <3>1, <3>2
  <2>3. \A k \in 0 .. n - 1 : k \in S => k + 1 \in S
    BY <2>2
  <2> HIDE DEF S
  <2>4. 0 .. n \subseteq S
    BY <2>1, <2>3, RangeInduction
  <2>5. n \in 0 .. n
    OBVIOUS
  <2> QED
    BY <1>5, <2>4, <2>5 DEF S
<1> DEFINE ranked == {i \in 1 .. n : ranks[i] # 0}
<1>8. ranked = 1 .. n
  <2>1. ranked \subseteq 1 .. n /\ (ranked = 1 .. n \/ Cardinality(ranked) >= n)
    BY <1>7 DEF RanksSoFar
  <2> HIDE DEF ranked
  <2>2. Cardinality(ranked) <= Cardinality(1 .. n) /\ (Cardinality(ranked) = Cardinality(1 .. n) => ranked = 1 .. n)
    BY <1>1, <2>1, FS_Subset
  <2>3. Cardinality(ranked) \in Nat
    BY <1>1, <2>1, FS_Subset, FS_CardinalityType
  <2> QED
    BY <1>1, <2>1, <2>2, <2>3
<1>9. n > 0
  OBVIOUS
<1>10. \A i \in ranked : ranks[i] = 1 + Cardinality({j \in ranked : ranks[j] < ranks[i]})
  BY <1>7 DEF RanksSoFar
<1>11. \A i \in 1 .. n : ranks[i] = 1 <=> Overlaps(cells[i], cells[Leader(cells)])
  BY <1>7, <1>9 DEF RanksSoFar
<1> HIDE DEF ranked
<1> QED
  BY <1>8, <1>10, <1>11 DEF RanksTell

LEMMA RankShape ==
  ASSUME question \in RankQuestion
  PROVE  /\ NModels \in Nat /\ NModels # 0 /\ Grid \in Nat
         /\ DOMAIN question.cells = 1 .. NModels
         /\ \A i \in 1 .. NModels : CellShape(question.cells[i]) /\ question.cells[i].point <= Grid
<1>1. NModels \in Nat /\ NModels # 0 /\ Grid \in Nat
  BY RulesAssumption
<1>2. question.cells \in [1 .. NModels -> Cells]
  BY DEF RankQuestion
<1>3. \A c \in Cells : CellShape(c) /\ c.point <= Grid
  BY <1>1 DEF Cells, CellShape
<1> QED
  BY <1>1, <1>2, <1>3

LEMMA RankedAgree ==
  ASSUME question \in RankQuestion, Ranks
  PROVE  TiesAndRanksAgree'
<1>1. /\ question' = question /\ answer'.marks = MarkTies(question.cells)
      /\ answer'.ranks = RankModels(question.cells)
  BY DEF Ranks, Answers
<1>2. PICK n, top, cells, marks, ranks :
        /\ n = NModels /\ top = Grid /\ cells = question.cells
        /\ marks = answer'.marks /\ ranks = answer'.ranks
  OBVIOUS
<1>3. /\ n \in Nat /\ n # 0 /\ top \in Nat /\ DOMAIN cells = 1 .. n
      /\ \A i \in 1 .. n : CellShape(cells[i]) /\ cells[i].point <= top
  BY <1>2, RankShape
<1>4. marks = MarkTies(cells) /\ ranks = RankModels(cells)
  BY <1>1, <1>2
<1>5. MarksTell(cells, marks)
  BY <1>3, <1>4, MarksSplit
<1>6. RanksTell(cells, ranks)
  BY <1>3, <1>4, RanksCount
<1>7. MarksTell(question'.cells, answer'.marks) /\ RanksTell(question'.cells, answer'.ranks)
  BY <1>1, <1>2, <1>5, <1>6
<1> QED
  BY <1>7, Zenon DEF TiesAndRanksAgree, MarksTell, RanksTell

\* The marks of a feature's column and the ranks of a ranking tell the same
\* models apart, however many are compared: one best or several tied, every
\* rank one more than the models before it, the first one of the best or of
\* the tied.
THEOREM RanksHold == Spec => []TiesAndRanksAgree
<1>1. Init => TiesAndRanksAgree
  BY DEF Init, TiesAndRanksAgree, Answered
<1>2. Asked /\ TiesAndRanksAgree /\ [Next]_ruleVars => TiesAndRanksAgree'
  BY OneRuleAnswers, KindOfQuestion, RankedAgree DEF TiesAndRanksAgree, Answered
<1> QED
  BY <1>1, <1>2, QuestionStands, PTL DEF Spec
-----------------------------------------------------------------------------
(* How a feature's records add up.                                         *)

LEMMA TwoParts ==
  ASSUME NEW S, IsFiniteSet(S), NEW A, NEW B, S = A \cup B, \A x \in A : x \notin B
  PROVE  Cardinality(S) = Cardinality(A) + Cardinality(B)
<1>1. IsFiniteSet(A) /\ IsFiniteSet(B)
  BY FS_Subset
<1>2. A \cap B = {}
  OBVIOUS
<1>3. Cardinality(A \cap B) = 0
  BY <1>2, FS_EmptySet
<1>4. Cardinality(A \cup B) = Cardinality(A) + Cardinality(B) - Cardinality(A \cap B)
  BY <1>1, FS_Union
<1>5. Cardinality(A) \in Nat /\ Cardinality(B) \in Nat
  BY <1>1, FS_CardinalityType
<1> QED
  BY <1>3, <1>4, <1>5

LEMMA ThreeParts ==
  ASSUME NEW S, IsFiniteSet(S), NEW A, NEW B, NEW C, S = A \cup B \cup C,
         \A x \in A : x \notin B /\ x \notin C, \A x \in B : x \notin C
  PROVE  Cardinality(S) = Cardinality(A) + Cardinality(B) + Cardinality(C)
<1> DEFINE T == A \cup B
<1>1. S = T \cup C /\ \A x \in T : x \notin C
  OBVIOUS
<1>2. IsFiniteSet(T)
  BY <1>1, FS_Subset
<1>3. Cardinality(T) = Cardinality(A) + Cardinality(B)
  BY <1>2, TwoParts
<1> HIDE DEF T
<1>4. Cardinality(S) = Cardinality(T) + Cardinality(C)
  BY <1>1, TwoParts
<1> QED
  BY <1>3, <1>4

\* Cases that are told apart by their records are as many as these.
LEMMA IdsCount ==
  ASSUME NEW C, \A c, d \in C : c.id = d.id => c = d,
         NEW I, IsFiniteSet(I), I = {c.id : c \in C}
  PROVE  IsFiniteSet(C) /\ Cardinality(C) = Cardinality(I)
<1> DEFINE f == [i \in I |-> CHOOSE c \in C : c.id = i]
<1>1. \A i \in I : f[i] \in C /\ f[i].id = i
  OBVIOUS
<1>2. \A c \in C : c.id \in I /\ f[c.id] = c
  BY <1>1
<1>3. DOMAIN f = I /\ f = [i \in I |-> f[i]]
  OBVIOUS
<1> HIDE DEF f
<1>4. f \in [I -> C]
  BY <1>1, <1>3
<1>5. f \in Injection(I, C)
  BY <1>1, <1>4 DEF Injection, IsInjective
<1>6. f \in Surjection(I, C)
  BY <1>2, <1>4 DEF Surjection
<1>7. ExistsBijection(I, C)
  BY <1>5, <1>6 DEF Bijection, ExistsBijection
<1> QED
  BY <1>7, FS_Bijection

\* The cases of a feature's labelled records, one for each of them.
Labelled(records) == {i \in DOMAIN records : HasValue(records[i])}

CasesOf(records, cases) ==
  /\ \A c \in cases : /\ c.id \in Labelled(records) /\ c.outcome \in {"hit", "wrong", "missing"}
                      /\ c.flag = records[c.id].flag /\ c.language = records[c.id].language
  /\ \A i \in Labelled(records) : \E c \in cases : c.id = i
  /\ \A c, d \in cases : c.id = d.id => c = d

LEMMA CasesAreOfLabelled ==
  ASSUME NEW records, NEW type
  PROVE  CasesOf(records, Cases(records, type))
<1> DEFINE outcome(j) == Classify(records[j].value, records[j].answer, type)
           I == {j \in DOMAIN records : outcome(j) # "none"}
           case(i) == [id |-> i, language |-> records[i].language, flag |-> records[i].flag, outcome |-> outcome(i)]
<1>1. \A j : outcome(j) \in {"none", "hit", "wrong", "missing"} /\ (outcome(j) # "none" <=> HasValue(records[j]))
  BY DEF Classify, HasValue, IsEmpty
<1>2. Cases(records, type) = {case(i) : i \in I}
  BY DEF Cases
<1> HIDE DEF outcome
<1>3. I = Labelled(records) /\ \A i \in I : outcome(i) \in {"hit", "wrong", "missing"}
  BY <1>1 DEF Labelled
<1>4. \A i : /\ case(i).id = i /\ case(i).language = records[i].language
             /\ case(i).flag = records[i].flag /\ case(i).outcome = outcome(i)
  OBVIOUS
<1> HIDE DEF case, I
<1> QED
  BY <1>2, <1>3, <1>4 DEF CasesOf

\* The labelled records of a language, and the mismatches.
OwnOf(records, l) == {i \in Labelled(records) : l \in {AllLanguages, records[i].language}}

WrongOf(cases) == {c.id : c \in {d \in cases : d.outcome = "wrong"}}

\* What the property says of a row: it counts these records.
RowCounts(row, records, own, mismatches) ==
  /\ row.n = Cardinality(own)
  /\ row.hit + row.wrong + row.missing = row.n
  /\ row.flagged = Cardinality({i \in own : records[i].flag # "none"})
  /\ LET cross == row.cross IN
     /\ row.present = cross["hit"].yes + cross["wrong"].yes + cross["missing"].yes
     /\ row.flagged = row.present + cross["hit"].no + cross["wrong"].no + cross["missing"].no
  /\ row.wrong = Cardinality(mismatches \cap own)

\* And what the presence rates are made of.
NumFlagged(records, own, flag) == Cardinality({i \in own : records[i].flag = flag})

RowAddsUp(row, records, own) ==
  /\ row.n = Cardinality(own) /\ row.n \in Nat
  /\ row.present = NumFlagged(records, own, "yes")
  /\ row.cross["hit"].no + row.cross["wrong"].no + row.cross["missing"].no = NumFlagged(records, own, "no")
  /\ row.cross["hit"].no \in Nat /\ row.flagged \in Nat
  /\ row.cross["hit"].no <= row.flagged /\ row.cross["hit"].no <= row.hit

LEMMA RowIsCounted ==
  ASSUME NEW records, NEW n \in Nat, DOMAIN records = 1 .. n,
         \A i \in DOMAIN records : records[i].flag \in {"yes", "no", "none"},
         NEW cases, CasesOf(records, cases), NEW l \in DOMAIN PerLanguage(cases),
         NEW mismatches, mismatches = WrongOf(cases), NEW own, own = OwnOf(records, l),
         NEW row, row = PerLanguage(cases)[l]
  PROVE  RowCounts(row, records, own, mismatches) /\ RowAddsUp(row, records, own)
<1>1. PICK kept : kept = {c \in cases : l \in {AllLanguages, c.language}}
  OBVIOUS
<1> DEFINE Out(o) == {c \in kept : c.outcome = o}
           In(f) == {c \in kept : c.flag = f}
           Crossed(o, f) == {c \in kept : c.outcome = o /\ c.flag = f}
           flagged == {c \in kept : c.flag # "none"}
<1>2. \A c \in kept : /\ c.id \in own /\ c.outcome \in {"hit", "wrong", "missing"}
                      /\ c.flag = records[c.id].flag /\ c.flag \in {"yes", "no", "none"}
  BY <1>1 DEF CasesOf, Labelled, OwnOf
<1>3. \A i \in own : \E c \in kept : c.id = i
  BY <1>1 DEF CasesOf, OwnOf
<1>4. \A c, d \in kept : c.id = d.id => c = d
  BY <1>1 DEF CasesOf
<1>5. /\ row.n = Cardinality(kept) /\ row.hit = Cardinality(Out("hit"))
      /\ row.wrong = Cardinality(Out("wrong")) /\ row.missing = Cardinality(Out("missing"))
      /\ row.present = Cardinality(In("yes")) /\ row.flagged = Cardinality(flagged)
      /\ \A o \in {"hit", "wrong", "missing"} :
           row.cross[o].yes = Cardinality(Crossed(o, "yes")) /\ row.cross[o].no = Cardinality(Crossed(o, "no"))
  <2>0. row = [n |-> Goal1(kept).n, hit |-> Goal1(kept).hit, wrong |-> Goal1(kept).wrong,
               missing |-> Goal1(kept).missing, present |-> Goal2(kept).present,
               flagged |-> Goal2(kept).flagged, cross |-> Goal2(kept).cross]
    BY <1>1 DEF PerLanguage
  <2>1. /\ row.n = Cardinality(kept) /\ row.hit = Cardinality(Out("hit"))
        /\ row.wrong = Cardinality(Out("wrong")) /\ row.missing = Cardinality(Out("missing"))
    BY <2>0 DEF Goal1
  <2>2. row.present = Cardinality(In("yes")) /\ row.flagged = Cardinality(flagged)
    BY <2>0 DEF Goal2
  <2>3. row.cross = [o \in {"hit", "wrong", "missing"} |->
                       [yes |-> Cardinality(Crossed(o, "yes")), no |-> Cardinality(Crossed(o, "no"))]]
    BY <2>0 DEF Goal2, Tally
  <2> HIDE DEF Out, In, Crossed, flagged
  <2> QED
    BY <2>1, <2>2, <2>3
<1>6. IsFiniteSet(own) /\ own \subseteq 1 .. n
  <2>1. IsFiniteSet(1 .. n) /\ own \subseteq 1 .. n
    BY FS_Interval DEF OwnOf, Labelled
  <2> QED
    BY <2>1, FS_Subset
<1>7. IsFiniteSet(kept) /\ Cardinality(kept) = Cardinality(own)
  <2>1. own = {c.id : c \in kept}
    BY <1>2, <1>3
  <2> QED
    BY <1>4, <1>6, <2>1, IdsCount
<1>8. Cardinality(kept) = Cardinality(Out("hit")) + Cardinality(Out("wrong")) + Cardinality(Out("missing"))
  <2>1. /\ kept = Out("hit") \cup Out("wrong") \cup Out("missing")
        /\ \A x \in Out("hit") : x \notin Out("wrong") /\ x \notin Out("missing")
        /\ \A x \in Out("wrong") : x \notin Out("missing")
    BY <1>2
  <2> HIDE DEF Out
  <2> QED
    BY <1>7, <2>1, ThreeParts
<1>9. \A f \in {"yes", "no"} : IsFiniteSet(In(f)) /\
        Cardinality(In(f)) =
          Cardinality(Crossed("hit", f)) + Cardinality(Crossed("wrong", f)) + Cardinality(Crossed("missing", f))
  <2> TAKE f \in {"yes", "no"}
  <2>1. /\ In(f) = Crossed("hit", f) \cup Crossed("wrong", f) \cup Crossed("missing", f) /\ In(f) \subseteq kept
        /\ \A x \in Crossed("hit", f) : x \notin Crossed("wrong", f) /\ x \notin Crossed("missing", f)
        /\ \A x \in Crossed("wrong", f) : x \notin Crossed("missing", f)
    BY <1>2
  <2> HIDE DEF In, Crossed
  <2>2. IsFiniteSet(In(f))
    BY <1>7, <2>1, FS_Subset
  <2> QED
    BY <2>1, <2>2, ThreeParts
<1>10. Cardinality(flagged) = Cardinality(In("yes")) + Cardinality(In("no"))
  <2>1. /\ flagged = In("yes") \cup In("no") /\ flagged \subseteq kept
        /\ \A x \in In("yes") : x \notin In("no")
    BY <1>2
  <2> HIDE DEF In, flagged
  <2>2. IsFiniteSet(flagged)
    BY <1>7, <2>1, FS_Subset
  <2> QED
    BY <2>1, <2>2, TwoParts
<1>11. Cardinality(flagged) = Cardinality({i \in own : records[i].flag # "none"})
  <2> DEFINE I == {i \in own : records[i].flag # "none"}
  <2>1. /\ I = {c.id : c \in flagged} /\ I \subseteq own
        /\ \A c, d \in flagged : c.id = d.id => c = d
    BY <1>2, <1>3, <1>4
  <2> SUFFICES Cardinality(flagged) = Cardinality(I)
    OBVIOUS
  <2> HIDE DEF I, flagged
  <2>2. IsFiniteSet(I)
    BY <1>6, <2>1, FS_Subset
  <2> QED
    BY <2>1, <2>2, IdsCount
<1>12. Cardinality(Out("wrong")) = Cardinality(mismatches \cap own)
  <2> DEFINE I == mismatches \cap own
             W == Out("wrong")
  <2>1. /\ I = {c.id : c \in W} /\ I \subseteq own
        /\ \A c, d \in W : c.id = d.id => c = d
    BY <1>1, <1>2, <1>3, <1>4 DEF CasesOf, WrongOf
  <2> SUFFICES Cardinality(W) = Cardinality(I)
    OBVIOUS
  <2> HIDE DEF I, W
  <2>2. IsFiniteSet(I)
    BY <1>6, <2>1, FS_Subset
  <2> QED
    BY <2>1, <2>2, IdsCount
<1>13. \A f \in {"yes", "no"} : Cardinality(In(f)) = NumFlagged(records, own, f)
  <2> TAKE f \in {"yes", "no"}
  <2> DEFINE I == {i \in own : records[i].flag = f}
             K == In(f)
  <2>1. /\ I = {c.id : c \in K} /\ I \subseteq own
        /\ \A c, d \in K : c.id = d.id => c = d
    BY <1>2, <1>3, <1>4
  <2> SUFFICES Cardinality(K) = Cardinality(I)
    BY DEF NumFlagged
  <2> HIDE DEF I, K
  <2>2. IsFiniteSet(I)
    BY <1>6, <2>1, FS_Subset
  <2> QED
    BY <2>1, <2>2, IdsCount
<1>14. Cardinality(Crossed("hit", "no")) <= Cardinality(Out("hit")) /\ Cardinality(Out("hit")) \in Nat
  <2>1. Crossed("hit", "no") \subseteq Out("hit") /\ Out("hit") \subseteq kept
    OBVIOUS
  <2> HIDE DEF Crossed, Out
  <2>2. IsFiniteSet(Out("hit"))
    BY <1>7, <2>1, FS_Subset
  <2>3. Cardinality(Crossed("hit", "no")) <= Cardinality(Out("hit"))
    BY <2>1, <2>2, FS_Subset
  <2> QED
    BY <2>2, <2>3, FS_CardinalityType
<1>15. \A f \in {"yes", "no"} : /\ Cardinality(Crossed("hit", f)) \in Nat /\ Cardinality(Crossed("wrong", f)) \in Nat
                               /\ Cardinality(Crossed("missing", f)) \in Nat
  <2> TAKE f \in {"yes", "no"}
  <2>1. \A o \in {"hit", "wrong", "missing"} : Crossed(o, f) \subseteq kept
    OBVIOUS
  <2> HIDE DEF Crossed
  <2> QED
    BY <1>7, <2>1, FS_Subset, FS_CardinalityType
<1> HIDE DEF Out, In, Crossed, flagged
<1>16. /\ row.n = Cardinality(own) /\ row.hit + row.wrong + row.missing = row.n
       /\ row.flagged = Cardinality({i \in own : records[i].flag # "none"})
       /\ row.wrong = Cardinality(mismatches \cap own)
  BY <1>5, <1>7, <1>8, <1>11, <1>12
<1>17. row.present = row.cross["hit"].yes + row.cross["wrong"].yes + row.cross["missing"].yes
  BY <1>5, <1>9
<1>18. row.flagged = row.present + (row.cross["hit"].no + row.cross["wrong"].no + row.cross["missing"].no)
  BY <1>5, <1>9, <1>10
<1>19. /\ row.cross["hit"].no \in Nat /\ row.cross["wrong"].no \in Nat /\ row.cross["missing"].no \in Nat
       /\ row.present \in Nat
  <2>1. IsFiniteSet(In("yes"))
    BY <1>9
  <2> QED
    BY <1>5, <1>15, <2>1, FS_CardinalityType
<1>20. row.flagged = row.present + row.cross["hit"].no + row.cross["wrong"].no + row.cross["missing"].no
  BY <1>18, <1>19
<1>21. RowCounts(row, records, own, mismatches)
  BY <1>16, <1>17, <1>20 DEF RowCounts
<1>22. row.n \in Nat
  BY <1>5, <1>7, FS_CardinalityType
<1>23. row.present = NumFlagged(records, own, "yes")
  BY <1>5, <1>13
<1>24. row.cross["hit"].no + row.cross["wrong"].no + row.cross["missing"].no = NumFlagged(records, own, "no")
  BY <1>5, <1>9, <1>13
<1>25. row.cross["hit"].no <= row.hit
  BY <1>5, <1>14
<1>26. row.flagged \in Nat /\ row.cross["hit"].no <= row.flagged
  BY <1>19, <1>20
<1>27. RowAddsUp(row, records, own)
  BY <1>16, <1>19, <1>22, <1>23, <1>24, <1>25, <1>26 DEF RowAddsUp
<1> QED
  BY <1>21, <1>27

\* What the property says of a feature's rows and mismatches.
RowsCount(records, rows, mismatches) ==
  LET labelled == {i \in DOMAIN records : HasValue(records[i])}
      Of(l)    == {i \in labelled : l \in {AllLanguages, records[i].language}} IN
  /\ DOMAIN rows = IF labelled = {} THEN {}
                   ELSE {AllLanguages} \cup {records[i].language : i \in labelled}
  /\ \A l \in DOMAIN rows : RowCounts(rows[l], records, Of(l), mismatches)
  /\ mismatches \subseteq labelled

LEMMA ScoresCount ==
  ASSUME NEW records, NEW n \in Nat, DOMAIN records = 1 .. n,
         \A i \in DOMAIN records : records[i].flag \in {"yes", "no", "none"},
         NEW type, NEW scores, scores = ScoreFeature(records, type)
  PROVE  RowsCount(records, scores.rows, scores.mismatches)
<1>1. PICK cases : cases = Cases(records, type)
  OBVIOUS
<1>2. CasesOf(records, cases)
  BY <1>1, CasesAreOfLabelled
<1>3. PICK rows, mismatches : rows = scores.rows /\ mismatches = scores.mismatches
  OBVIOUS
<1>4. /\ rows = IF cases = {} THEN <<>> ELSE PerLanguage(cases)
      /\ mismatches = {c.id : c \in {d \in cases : d.outcome = "wrong"}}
  BY <1>1, <1>3 DEF ScoreFeature
<1> DEFINE labelled == Labelled(records)
           Of(l) == {i \in labelled : l \in {AllLanguages, records[i].language}}
<1>5. cases = {} <=> labelled = {}
  BY <1>2 DEF CasesOf
<1>6. {c.language : c \in cases} = {records[i].language : i \in labelled}
  BY <1>2 DEF CasesOf
<1>7. mismatches \subseteq labelled
  BY <1>2, <1>4 DEF CasesOf
<1>8. DOMAIN rows = IF labelled = {} THEN {} ELSE {AllLanguages} \cup {records[i].language : i \in labelled}
  <2>1. CASE cases = {}
    BY <1>4, <1>5, <2>1
  <2>2. CASE cases # {}
    <3>1. DOMAIN rows = {AllLanguages} \cup {c.language : c \in cases}
      BY <1>4, <2>2 DEF PerLanguage
    <3> HIDE DEF labelled
    <3> QED
      BY <1>5, <1>6, <2>2, <3>1
  <2> QED
    BY <2>1, <2>2
<1>9. ASSUME NEW l \in DOMAIN rows
      PROVE  RowCounts(rows[l], records, Of(l), mismatches)
  <2>1. rows = PerLanguage(cases)
    BY <1>4
  <2>2. PICK row, own : row = PerLanguage(cases)[l] /\ own = OwnOf(records, l)
    OBVIOUS
  <2>3. mismatches = WrongOf(cases) /\ l \in DOMAIN PerLanguage(cases)
    BY <1>4, <2>1 DEF WrongOf
  <2>4. RowCounts(row, records, own, mismatches)
    BY <1>2, <2>2, <2>3, RowIsCounted
  <2>5. own = Of(l)
    BY <2>2 DEF OwnOf
  <2> HIDE DEF Of
  <2> QED
    BY <2>1, <2>2, <2>4, <2>5
<1>10. RowsCount(records, rows, mismatches)
  BY <1>7, <1>8, <1>9, Zenon DEF RowsCount, Labelled
<1> QED
  BY <1>3, <1>10

LEMMA ScoreShape ==
  ASSUME question \in ScoreQuestion
  PROVE  /\ NRecords \in Nat /\ DOMAIN question.records = 1 .. NRecords
         /\ \A i \in DOMAIN question.records : question.records[i].flag \in {"yes", "no", "none"}
<1>1. NRecords \in Nat
  BY RulesAssumption
<1>2. question.records \in [1 .. NRecords -> [value : Values, answer : Values, flag : {"yes", "no", "none"},
                                               language : Languages]]
  BY DEF ScoreQuestion
<1> QED
  BY <1>1, <1>2

LEMMA CountsSay ==
  EveryLabelledCaseCounts <=> (Answered("scores") => RowsCount(question.records, answer.rows, answer.mismatches))
BY Zenon DEF EveryLabelledCaseCounts, RowsCount, RowCounts

LEMMA ScoredIsCounted ==
  ASSUME question \in ScoreQuestion, Scores
  PROVE  RowsCount(question'.records, answer'.rows, answer'.mismatches)
<1>1. PICK scores : scores = ScoreFeature(question.records, question.type)
  OBVIOUS
<1>2. question' = question /\ answer'.rows = scores.rows /\ answer'.mismatches = scores.mismatches
  BY <1>1 DEF Scores, Answers
<1>3. PICK records, n, type : records = question.records /\ n = NRecords /\ type = question.type
  OBVIOUS
<1>4. /\ n \in Nat /\ DOMAIN records = 1 .. n
      /\ \A i \in DOMAIN records : records[i].flag \in {"yes", "no", "none"}
  BY <1>3, ScoreShape
<1>5. scores = ScoreFeature(records, type)
  BY <1>1, <1>3
<1>6. RowsCount(records, scores.rows, scores.mismatches)
  BY <1>4, <1>5, ScoresCount
<1> QED
  BY <1>2, <1>3, <1>6

\* However many records a feature is scored on and in whatever languages they
\* are, every record with a value is in exactly the counts of its outcome, its
\* flag and its languages, and is a mismatch exactly if it is wrong; the others
\* are in none.
THEOREM ScoresHold == Spec => []EveryLabelledCaseCounts
<1> DEFINE AddsUp == Answered("scores") => RowsCount(question.records, answer.rows, answer.mismatches)
<1>1. Init => AddsUp
  BY DEF Init, Answered
<1>2. Asked /\ AddsUp /\ [Next]_ruleVars => AddsUp'
  BY OneRuleAnswers, KindOfQuestion, ScoredIsCounted DEF Answered
<1>3. AddsUp <=> EveryLabelledCaseCounts
  BY CountsSay
<1> QED
  BY <1>1, <1>2, <1>3, QuestionStands, PTL DEF Spec
-----------------------------------------------------------------------------
(* What the presence tab shows of the scores.                              *)

\* The rows that presence is read from.
RowsAddUp(records, rows) ==
  /\ DOMAIN rows = {} => Labelled(records) = {}
  /\ DOMAIN rows = {} <=> rows = <<>>
  /\ IsFiniteSet(DOMAIN rows)
  /\ DOMAIN rows # {} => AllLanguages \in DOMAIN rows
  /\ \A l \in DOMAIN rows : RowAddsUp(rows[l], records, OwnOf(records, l))

LEMMA RowsOfFeature ==
  ASSUME NEW records, NEW n \in Nat, DOMAIN records = 1 .. n,
         \A i \in DOMAIN records : records[i].flag \in {"yes", "no", "none"},
         NEW type, NEW rows, rows = ScoreFeature(records, type).rows
  PROVE  RowsAddUp(records, rows)
<1>1. PICK cases, mismatches : cases = Cases(records, type) /\ mismatches = WrongOf(cases)
  OBVIOUS
<1>2. CasesOf(records, cases)
  BY <1>1, CasesAreOfLabelled
<1>3. rows = IF cases = {} THEN <<>> ELSE PerLanguage(cases)
  BY <1>1 DEF ScoreFeature
<1>4. CASE cases = {}
  <2>1. rows = <<>> /\ DOMAIN rows = {}
    BY <1>3, <1>4
  <2>2. Labelled(records) = {}
    BY <1>2, <1>4 DEF CasesOf
  <2>3. IsFiniteSet(DOMAIN rows)
    BY <2>1, FS_EmptySet
  <2> QED
    BY <2>1, <2>2, <2>3 DEF RowsAddUp
<1>5. CASE cases # {}
  <2>1. rows = PerLanguage(cases)
    BY <1>3, <1>5
  <2>2. DOMAIN rows = {AllLanguages} \cup {c.language : c \in cases}
    BY <2>1 DEF PerLanguage
  <2>3. AllLanguages \in DOMAIN rows /\ rows # <<>>
    BY <2>2
  <2>4. IsFiniteSet(DOMAIN rows)
    <3>1. PICK languages : languages = {records[i].language : i \in Labelled(records)}
      OBVIOUS
    <3>2. IsFiniteSet(Labelled(records))
      <4>1. IsFiniteSet(1 .. n) /\ Labelled(records) \subseteq 1 .. n
        BY FS_Interval DEF Labelled
      <4> QED
        BY <4>1, FS_Subset
    <3>3. IsFiniteSet(languages)
      <4>1. PICK labelled, f : labelled = Labelled(records) /\ f = [i \in labelled |-> records[i].language]
        OBVIOUS
      <4>2. f \in Surjection(labelled, languages)
        BY <3>1, <4>1 DEF Surjection
      <4>3. IsFiniteSet(labelled)
        BY <3>2, <4>1
      <4> QED
        BY <4>2, <4>3, FS_Surjection
    <3>4. {c.language : c \in cases} = languages
      BY <1>2, <3>1 DEF CasesOf
    <3>5. IsFiniteSet({AllLanguages})
      BY FS_Singleton
    <3>6. IsFiniteSet({AllLanguages} \cup languages)
      BY <3>3, <3>5, FS_Union
    <3>7. DOMAIN rows = {AllLanguages} \cup languages
      BY <2>2, <3>4
    <3> QED
      BY <3>6, <3>7
  <2>5. ASSUME NEW l \in DOMAIN rows
        PROVE  RowAddsUp(rows[l], records, OwnOf(records, l))
    <3>1. PICK row, own : row = PerLanguage(cases)[l] /\ own = OwnOf(records, l)
      OBVIOUS
    <3>2. l \in DOMAIN PerLanguage(cases)
      BY <2>1
    <3>3. RowAddsUp(row, records, own)
      BY <1>1, <1>2, <3>1, <3>2, RowIsCounted
    <3> QED
      BY <2>1, <3>1, <3>3
  <2> QED
    BY <2>3, <2>4, <2>5 DEF RowsAddUp
<1> QED
  BY <1>4, <1>5

\* What the property says of one tab.
TabAddsUp(tab, records, rows, floor, native) ==
  LET rates == tab.rows.rates
      languages == DOMAIN rates \ {AllLanguages}
      Present(l) == {i \in DOMAIN records : /\ HasValue(records[i]) /\ records[i].flag = "yes"
                                            /\ l \in {AllLanguages, records[i].language}} IN
  IF DOMAIN rows = {} THEN tab.unwritten = {}
  ELSE
    /\ DOMAIN rates = DOMAIN rows
    /\ Cardinality(tab.unwritten) =
         IF native THEN tab.cross["hit"].no + tab.cross["wrong"].no + tab.cross["missing"].no ELSE 0
    /\ \A l \in languages : rates[AllLanguages].suppressed => rates[l].suppressed
    /\ \A l \in DOMAIN rates : ~rates[l].suppressed => rates[l].rate.k = Cardinality(Present(l))
    /\ ~tab.flags.suppressed => tab.flags.rate.k <= tab.flags.rate.n /\ tab.flags.rate.n >= floor
    /\ \A l \in languages : tab.languages[l].suppressed <=> rates[l].suppressed

LEMMA RateIsShown ==
  ASSUME NEW rate, NEW n, NEW floor, NEW cell, cell = RateCell(rate, n, floor)
  PROVE  /\ cell.suppressed = (n < floor)
         /\ ~(n < floor) => cell.rate = rate
<1>1. CASE n < floor
  <2>1. cell = [suppressed |-> TRUE, n |-> n]
    BY <1>1 DEF RateCell
  <2>2. cell.suppressed = TRUE /\ (n < floor) = TRUE
    BY <1>1, <2>1
  <2> QED
    BY <1>1, <2>2
<1>2. CASE ~(n < floor)
  <2>1. cell = [suppressed |-> FALSE, rate |-> rate]
    BY <1>2 DEF RateCell
  <2>2. cell.suppressed = FALSE /\ cell.rate = rate
    BY <2>1
  <2>3. (n < floor) = FALSE
    BY <1>2
  <2> QED
    BY <2>2, <2>3
<1> QED
  BY <1>1, <1>2

LEMMA PresenceTabAddsUp ==
  ASSUME NEW n \in Nat, NEW records, DOMAIN records = 1 .. n, NEW rows, RowsAddUp(records, rows),
         NEW floor \in Nat, NEW native \in BOOLEAN,
         NEW tab, tab = PresenceTab(rows, records, floor, native)
  PROVE  TabAddsUp(tab, records, rows, floor, native)
<1>1. PICK unwritten : unwritten = RecordsNotWritten(records, native)
  OBVIOUS
<1>2. unwritten = {i \in Labelled(records) : native /\ records[i].flag = "no"}
  BY <1>1 DEF RecordsNotWritten, Labelled, HasValue, IsEmpty
<1>3. CASE DOMAIN rows = {}
  <2>1. rows = <<>> /\ Labelled(records) = {}
    BY <1>3 DEF RowsAddUp
  <2>2. tab = [unwritten |-> unwritten]
    BY <1>1, <2>1, Zenon DEF PresenceTab
  <2>3. tab.unwritten = {}
    BY <1>2, <2>1, <2>2
  <2> QED
    BY <1>3, <2>3 DEF TabAddsUp
<1>4. CASE DOMAIN rows # {}
  <2>1. rows # <<>> /\ AllLanguages \in DOMAIN rows /\ \A l \in DOMAIN rows : RowAddsUp(rows[l], records, OwnOf(records, l))
    BY <1>4 DEF RowsAddUp
  <2>2. PICK all, rates, flags, languages :
          /\ all = rows[AllLanguages]
          /\ rates = [l \in DOMAIN rows |-> RateCell(Rate(rows[l].present, rows[l].n), rows[l].n, floor)]
          /\ flags = RateCell(Rate(all.cross["hit"].no, all.flagged), all.flagged, floor)
          /\ languages = ByLanguage(rows, floor)
    OBVIOUS
  <2>3. /\ tab.unwritten = unwritten /\ tab.rows.rates = rates /\ tab.cross = all.cross
        /\ tab.flags = flags /\ tab.languages = languages
    <3>1. tab = [unwritten |-> unwritten, rows |-> PresenceRow(rows, floor), cross |-> CrossTab(rows),
                 flags |-> FlagInconsistency(rows, floor), breakdown |-> Breakdown(rows),
                 languages |-> ByLanguage(rows, floor)]
      BY <1>1, <2>1, Zenon DEF PresenceTab
    <3>2. PresenceRow(rows, floor).rates = rates
      BY <2>2 DEF PresenceRow
    <3>3. CrossTab(rows) = all.cross /\ FlagInconsistency(rows, floor) = flags
      BY <2>2 DEF CrossTab, FlagInconsistency
    <3> QED
      BY <2>2, <3>1, <3>2, <3>3
  <2>4. DOMAIN rates = DOMAIN rows
    BY <2>2
  <2>5. \A l \in DOMAIN rows : /\ rates[l].suppressed = (rows[l].n < floor)
                               /\ ~(rows[l].n < floor) => rates[l].rate = Rate(rows[l].present, rows[l].n)
    BY <2>2, RateIsShown
  <2>6. \A l \in DOMAIN rows : rows[l].n = Cardinality(OwnOf(records, l)) /\ rows[l].n \in Nat
                               /\ rows[l].present = NumFlagged(records, OwnOf(records, l), "yes")
    BY <2>1 DEF RowAddsUp
  <2>7. OwnOf(records, AllLanguages) = Labelled(records) /\ \A l : OwnOf(records, l) \subseteq Labelled(records)
    BY DEF OwnOf
  <2>8. IsFiniteSet(Labelled(records))
    <3>1. IsFiniteSet(1 .. n) /\ Labelled(records) \subseteq 1 .. n
      BY FS_Interval DEF Labelled
    <3> QED
      BY <3>1, FS_Subset
  <2>9. Cardinality(unwritten) = IF native THEN all.cross["hit"].no + all.cross["wrong"].no + all.cross["missing"].no ELSE 0
    <3>1. RowAddsUp(all, records, Labelled(records))
      BY <2>1, <2>2, <2>7
    <3>2. CASE native = TRUE
      <4>1. unwritten = {i \in Labelled(records) : records[i].flag = "no"}
        BY <1>2, <3>2
      <4> QED
        BY <3>1, <3>2, <4>1 DEF RowAddsUp, NumFlagged
    <3>3. CASE native = FALSE
      <4>1. unwritten = {}
        BY <1>2, <3>3
      <4> QED
        BY <3>3, <4>1, FS_EmptySet
    <3> QED
      BY <3>2, <3>3
  <2>10. ASSUME NEW l \in DOMAIN rows, rates[AllLanguages].suppressed
         PROVE  rates[l].suppressed
    <3>1. rows[AllLanguages].n < floor
      BY <2>1, <2>5, <2>10
    <3>2. Cardinality(OwnOf(records, l)) <= Cardinality(Labelled(records))
      BY <2>7, <2>8, FS_Subset
    <3>3. rows[l].n <= rows[AllLanguages].n
      BY <2>1, <2>6, <2>7, <3>2
    <3>4. rows[l].n < floor
      BY <2>1, <2>6, <3>1, <3>3
    <3> QED
      BY <2>5, <3>4
  <2>11. ASSUME NEW l \in DOMAIN rows, ~rates[l].suppressed
         PROVE  rates[l].rate.k = Cardinality({i \in DOMAIN records : /\ HasValue(records[i]) /\ records[i].flag = "yes"
                                                                      /\ l \in {AllLanguages, records[i].language}})
    <3>1. ~(rows[l].n < floor)
      BY <2>5, <2>11
    <3>2. rates[l].rate = Rate(rows[l].present, rows[l].n)
      BY <2>5, <3>1
    <3>3. rates[l].rate.k = NumFlagged(records, OwnOf(records, l), "yes")
      BY <2>6, <3>2 DEF Rate
    <3>4. {i \in OwnOf(records, l) : records[i].flag = "yes"} =
            {i \in DOMAIN records : /\ HasValue(records[i]) /\ records[i].flag = "yes"
                                    /\ l \in {AllLanguages, records[i].language}}
      BY DEF OwnOf, Labelled
    <3> QED
      BY <3>3, <3>4 DEF NumFlagged
  <2>12. ASSUME ~flags.suppressed
         PROVE  flags.rate.k <= flags.rate.n /\ flags.rate.n >= floor
    <3>1. all.cross["hit"].no \in Nat /\ all.flagged \in Nat /\ all.cross["hit"].no <= all.flagged
      BY <2>1, <2>2 DEF RowAddsUp
    <3>2. flags.suppressed = (all.flagged < floor)
          /\ (~(all.flagged < floor) => flags.rate = Rate(all.cross["hit"].no, all.flagged))
      BY <2>2, RateIsShown
    <3>3. ~(all.flagged < floor)
      BY <2>12, <3>2
    <3>4. flags.rate.k = all.cross["hit"].no /\ flags.rate.n = all.flagged
      BY <3>2, <3>3 DEF Rate
    <3> QED
      BY <3>1, <3>3, <3>4
  <2>13. \A l \in DOMAIN rows \ {AllLanguages} : languages[l].suppressed = (rows[l].n < floor)
    BY <2>2, RateIsShown DEF ByLanguage
  <2>14. \A l \in DOMAIN rows \ {AllLanguages} : languages[l].suppressed <=> rates[l].suppressed
    BY <2>5, <2>13
  <2>15. DOMAIN tab.rows.rates = DOMAIN rows
    BY <2>3, <2>4
  <2> QED
    BY <1>4, <2>3, <2>4, <2>9, <2>10, <2>11, <2>12, <2>14, <2>15, Zenon DEF TabAddsUp
<1> QED
  BY <1>3, <1>4

\* A set in some order has as many places as members.
LEMMA SeqOfSet ==
  ASSUME NEW S, IsFiniteSet(S)
  PROVE  SetToSeq(S) \in [1 .. Cardinality(S) -> S] /\ Cardinality(S) \in Nat
<1>1. Cardinality(S) \in Nat /\ ExistsBijection(1 .. Cardinality(S), S)
  BY FS_CardinalityType
<1>2. PICK f : f \in [1 .. Cardinality(S) -> S] /\ IsInjective(f)
  BY <1>1 DEF ExistsBijection, Bijection, Injection
<1>3. \E g \in [1 .. Cardinality(S) -> S] : IsInjective(g)
  BY <1>2
<1>4. (CHOOSE g \in [1 .. Cardinality(S) -> S] : IsInjective(g)) \in [1 .. Cardinality(S) -> S]
  BY <1>3
<1> QED
  BY <1>1, <1>4 DEF SetToSeq

\* What the property says of the page.
PageAddsUp(painted, rows) ==
  DOMAIN rows # {} =>
    /\ Len(painted.table.rates) = Cardinality(DOMAIN rows)
    /\ painted.cards.contradictions <= painted.table.goal1.recall.k
    /\ painted.records.total <= painted.table.goal1.recall.n

LEMMA PaintedPresenceAddsUp ==
  ASSUME NEW n \in Nat, NEW records, DOMAIN records = 1 .. n, NEW rows, RowsAddUp(records, rows),
         NEW painted, painted = PaintedPresence(PresenceTab(rows, records, 0, TRUE))
  PROVE  PageAddsUp(painted, rows)
<1> SUFFICES ASSUME DOMAIN rows # {}
             PROVE  /\ Len(painted.table.rates) = Cardinality(DOMAIN rows)
                    /\ painted.cards.contradictions <= painted.table.goal1.recall.k
                    /\ painted.records.total <= painted.table.goal1.recall.n
  BY DEF PageAddsUp
<1>1. /\ rows # <<>> /\ AllLanguages \in DOMAIN rows /\ IsFiniteSet(DOMAIN rows)
      /\ RowAddsUp(rows[AllLanguages], records, OwnOf(records, AllLanguages))
  BY DEF RowsAddUp
<1>2. PICK tab, all, unwritten, columns :
        /\ tab = PresenceTab(rows, records, 0, TRUE) /\ all = rows[AllLanguages]
        /\ unwritten = RecordsNotWritten(records, TRUE) /\ columns = RateColumns(tab)
  OBVIOUS
<1>3. tab = [unwritten |-> unwritten, rows |-> PresenceRow(rows, 0), cross |-> CrossTab(rows),
             flags |-> FlagInconsistency(rows, 0), breakdown |-> Breakdown(rows), languages |-> ByLanguage(rows, 0)]
  BY <1>1, <1>2, Zenon DEF PresenceTab
<1>4. /\ "rows" \in DOMAIN tab /\ tab.unwritten = unwritten /\ tab.cross = all.cross
      /\ tab.rows = PresenceRow(rows, 0)
  <2>1. "rows" \in DOMAIN tab /\ tab.unwritten = unwritten /\ tab.rows = PresenceRow(rows, 0) /\ tab.cross = CrossTab(rows)
    BY <1>3
  <2>2. CrossTab(rows) = all.cross
    BY <1>2 DEF CrossTab
  <2> QED
    BY <2>1, <2>2
<1>5. painted = [records |-> PaintedRecords(tab), table |-> PaintedRates(tab), cards |-> PaintedCards(tab)]
  BY <1>2, <1>4, Zenon DEF PaintedPresence
<1>6. tab.rows.goal1.recall = Rate(all.hit, all.n) /\ DOMAIN tab.rows.rates = DOMAIN rows
  <2>1. /\ PresenceRow(rows, 0).goal1 = Goal1Companion(all)
        /\ DOMAIN PresenceRow(rows, 0).rates = DOMAIN rows
    BY <1>2 DEF PresenceRow
  <2>2. Goal1Companion(all).recall = Rate(all.hit, all.n)
    BY DEF Goal1Companion, Recall
  <2> QED
    BY <1>4, <2>1, <2>2
<1>7. /\ painted.table = [rates |-> [k \in DOMAIN columns |-> tab.rows.rates[columns[k]]], goal1 |-> tab.rows.goal1]
      /\ painted.cards.contradictions = all.cross["hit"].no /\ painted.records.total = Cardinality(unwritten)
  <2>1. PaintedRates(tab) = [rates |-> [k \in DOMAIN columns |-> tab.rows.rates[columns[k]]], goal1 |-> tab.rows.goal1]
    BY <1>2 DEF PaintedRates
  <2>2. PaintedCards(tab).contradictions = all.cross["hit"].no
    BY <1>4 DEF PaintedCards
  <2>3. PaintedRecords(tab).total = Cardinality(unwritten)
    BY <1>4 DEF PaintedRecords
  <2>4. painted.table = PaintedRates(tab) /\ painted.cards = PaintedCards(tab) /\ painted.records = PaintedRecords(tab)
    <3>1. PICK page, x, y, z : page = painted /\ x = PaintedRecords(tab) /\ y = PaintedRates(tab) /\ z = PaintedCards(tab)
      OBVIOUS
    <3>2. page = [records |-> x, table |-> y, cards |-> z]
      BY <1>5, <3>1, Zenon
    <3>3. page.records = x /\ page.table = y /\ page.cards = z
      BY <3>2
    <3> QED
      BY <3>1, <3>3
  <2> QED
    BY <2>1, <2>2, <2>3, <2>4, Zenon
<1>8. painted.table.goal1.recall = Rate(all.hit, all.n) /\ Rate(all.hit, all.n).k = all.hit /\ Rate(all.hit, all.n).n = all.n
  <2>1. painted.table.goal1 = tab.rows.goal1
    <3>1. PICK table, rates : table = painted.table /\ rates = [k \in DOMAIN columns |-> tab.rows.rates[columns[k]]]
      OBVIOUS
    <3>2. table = [rates |-> rates, goal1 |-> tab.rows.goal1]
      BY <1>7, <3>1, Zenon
    <3>3. table.goal1 = tab.rows.goal1
      BY <3>2
    <3> QED
      BY <3>1, <3>3
  <2> QED
    BY <1>6, <2>1 DEF Rate
<1>9. painted.cards.contradictions <= painted.table.goal1.recall.k
  <2>1. all.cross["hit"].no <= all.hit
    BY <1>1, <1>2 DEF RowAddsUp
  <2> QED
    BY <1>7, <1>8, <2>1
<1>10. painted.records.total <= painted.table.goal1.recall.n
  <2>1. unwritten = {i \in Labelled(records) : records[i].flag = "no"}
    BY <1>2 DEF RecordsNotWritten, Labelled, HasValue, IsEmpty
  <2>2. IsFiniteSet(Labelled(records))
    <3>1. IsFiniteSet(1 .. n) /\ Labelled(records) \subseteq 1 .. n
      BY FS_Interval DEF Labelled
    <3> QED
      BY <3>1, FS_Subset
  <2>3. unwritten \subseteq Labelled(records)
    BY <2>1
  <2>4. Cardinality(unwritten) <= Cardinality(Labelled(records))
    BY <2>2, <2>3, FS_Subset
  <2>5. OwnOf(records, AllLanguages) = Labelled(records)
    BY DEF OwnOf
  <2>6. all.n = Cardinality(Labelled(records))
    BY <1>1, <1>2, <2>5 DEF RowAddsUp
  <2>7. painted.table.goal1.recall.n = all.n
    BY <1>8
  <2> QED
    BY <1>7, <2>4, <2>6, <2>7
<1>11. Len(painted.table.rates) = Cardinality(DOMAIN rows)
  <2>1. PICK others, seq, size :
          others = DOMAIN rows \ {AllLanguages} /\ seq = SetToSeq(others) /\ size = Cardinality(others)
    OBVIOUS
  <2>2. IsFiniteSet(others)
    BY <1>1, <2>1, FS_Subset
  <2>3. seq \in [1 .. size -> others] /\ size \in Nat
    BY <2>1, <2>2, SeqOfSet
  <2>4. seq \in Seq(DOMAIN rows) /\ Len(seq) = size
    <3>1. PICK S : S = DOMAIN rows
      OBVIOUS
    <3>2. \A k \in 1 .. size : seq[k] \in S
      BY <2>1, <2>3, <3>1
    <3>3. seq \in [1 .. size -> S]
      BY <2>3, <3>2
    <3> QED
      BY <2>3, <3>1, <3>3
  <2>5. columns = <<AllLanguages>> \o seq
    BY <1>2, <1>6, <2>1 DEF RateColumns
  <2>6. <<AllLanguages>> \in Seq(DOMAIN rows) /\ Len(<<AllLanguages>>) = 1
    BY <1>1
  <2>7. columns \in Seq(DOMAIN rows) /\ Len(columns) = 1 + size
    BY <2>4, <2>5, <2>6, ConcatProperties
  <2>8. DOMAIN columns = 1 .. size + 1
    BY <2>3, <2>7
  <2>9. PICK rates : rates = painted.table.rates
    OBVIOUS
  <2>10. rates = [k \in 1 .. size + 1 |-> tab.rows.rates[columns[k]]]
    BY <1>7, <2>8, <2>9
  <2>11. Len(rates) = size + 1
    BY <2>3, <2>10
  <2>12. DOMAIN rows = others \cup {AllLanguages} /\ AllLanguages \notin others
    BY <1>1, <2>1
  <2>13. Cardinality(DOMAIN rows) = size + 1
    BY <2>1, <2>2, <2>12, FS_AddElement
  <2> QED
    BY <2>9, <2>11, <2>13
<1> QED
  BY <1>9, <1>10, <1>11

LEMMA PresenceSays ==
  PresenceAddsUp <=>
    (Answered("scores") =>
       /\ PageAddsUp(answer.painted, answer.rows)
       /\ \A floor \in 0 .. NRecords, native \in BOOLEAN :
            TabAddsUp(answer.tabs[floor][native], question.records, answer.rows, floor, native))
BY Zenon DEF PresenceAddsUp, PageAddsUp, TabAddsUp

PresenceOf(records, rows, tabs, painted) ==
  /\ PageAddsUp(painted, rows)
  /\ \A floor \in 0 .. NRecords, native \in BOOLEAN :
       TabAddsUp(tabs[floor][native], records, rows, floor, native)

LEMMA ScoresAddUp ==
  ASSUME question \in ScoreQuestion, Scores
  PROVE  PresenceOf(question'.records, answer'.rows, answer'.tabs, answer'.painted)
<1>1. PICK records, type, n, rows, tabs, painted :
        /\ records = question.records /\ type = question.type /\ n = NRecords
        /\ rows = answer'.rows /\ tabs = answer'.tabs /\ painted = answer'.painted
  OBVIOUS
<1>2. /\ question' = question /\ rows = ScoreFeature(records, type).rows
      /\ tabs = [floor \in 0 .. n |-> [native \in BOOLEAN |-> PresenceTab(rows, records, floor, native)]]
      /\ painted = PaintedPresence(PresenceTab(rows, records, 0, TRUE))
  BY <1>1 DEF Scores, Answers
<1>3. /\ n \in Nat /\ DOMAIN records = 1 .. n
      /\ \A i \in DOMAIN records : records[i].flag \in {"yes", "no", "none"}
  BY <1>1, ScoreShape
<1>4. RowsAddUp(records, rows)
  BY <1>2, <1>3, RowsOfFeature
<1>5. PageAddsUp(painted, rows)
  BY <1>2, <1>3, <1>4, PaintedPresenceAddsUp
<1>6. ASSUME NEW floor \in 0 .. n, NEW native \in BOOLEAN
      PROVE  TabAddsUp(tabs[floor][native], records, rows, floor, native)
  <2>1. PICK tab : tab = tabs[floor][native]
    OBVIOUS
  <2>2. tab = PresenceTab(rows, records, floor, native)
    BY <1>2, <2>1
  <2>3. floor \in Nat
    OBVIOUS
  <2>4. TabAddsUp(tab, records, rows, floor, native)
    BY <1>3, <1>4, <2>2, <2>3, PresenceTabAddsUp
  <2> QED
    BY <2>1, <2>4
<1>7. \A floor \in 0 .. NRecords, native \in BOOLEAN :
        TabAddsUp(tabs[floor][native], records, rows, floor, native)
  BY <1>1, <1>6
<1>8. PresenceOf(records, rows, tabs, painted)
  BY <1>5, <1>7 DEF PresenceOf
<1> QED
  BY <1>1, <1>2, <1>8

\* Whatever a feature was scored on, whatever the floor and whether its column
\* was delivered: the unwritten records are those the cross-tab has as absent,
\* each rate that is shown counts its own language's cases, no number is shown
\* of fewer cases than the floor, and the page's columns and cards are of these.
THEOREM PresenceHolds == Spec => []PresenceAddsUp
<1> DEFINE Shown == Answered("scores") => PresenceOf(question.records, answer.rows, answer.tabs, answer.painted)
<1>1. Init => Shown
  BY DEF Init, Answered
<1>2. Asked /\ Shown /\ [Next]_ruleVars => Shown'
  BY OneRuleAnswers, KindOfQuestion, ScoresAddUp DEF Answered
<1>3. Shown <=> PresenceAddsUp
  BY PresenceSays DEF PresenceOf
<1> QED
  BY <1>1, <1>2, <1>3, QuestionStands, PTL DEF Spec
-----------------------------------------------------------------------------
(* What a derived feature is worth.                                        *)

\* What the property says of an answer.
DerivedWell(rows, order, codes, a) ==
  LET n(op)   == a.counts[[op |-> op, codes |-> codes]].n
      seen    == {rows[i] : i \in DOMAIN rows} \cap Codes
      Place(c) == CHOOSE k \in DOMAIN order : order[k] = c IN
  /\ n("any") = Len(rows) /\ n("is_empty") + n("filled") = Len(rows)
  /\ n("in") + n("not_in") = Cardinality({i \in DOMAIN rows : rows[i] # Absent})
  /\ \A f \in DOMAIN a.counts : a.anys[f].holds <=> a.counts[f].n > 0
  /\ a.distinct.n = 0 <=> n("filled") = 0
  /\ \A extreme \in {a.max, a.min} :
       /\ extreme = Raised <=> \E c \in seen : \A k \in DOMAIN order : order[k] # c
       /\ extreme = NoValue <=> n("filled") = 0
  /\ a.max.kind = "code" =>
       /\ {a.max.code, a.min.code} \subseteq seen
       /\ \A c \in seen : Place(a.min.code) <= Place(c) /\ Place(c) <= Place(a.max.code)
       /\ a.max.code = a.min.code <=> a.distinct.n = 1

LEMMA DerivationsSay ==
  DerivationsAgree <=> (Answered("derives") => DerivedWell(question.rows, question.order, question.codes, answer))
BY Zenon DEF DerivationsAgree, DerivedWell

RowCells == Codes \cup {Absent, EmptyCell}

\* The first of an order among some codes.
FirstOf(e, seen, order, m) ==
  /\ e = Raised <=> \E c \in seen : \A k \in 1 .. m : order[k] # c
  /\ e = NoValue <=> seen = {}
  /\ e.kind = "code" <=> seen # {} /\ \A c \in seen : \E k \in 1 .. m : order[k] = c
  /\ e.kind = "code" => \E k \in 1 .. m : /\ e.code = order[k] /\ order[k] \in seen
                                          /\ \A j \in 1 .. m : order[j] \in seen => k <= j

LEMMA ExtremeIsFirst ==
  ASSUME NEW rows, NEW m \in Nat, NEW order, DOMAIN order = 1 .. m, NEW e, e = Extreme(rows, order)
  PROVE  FirstOf(e, CodesIn(rows), order, m)
<1>1. PICK seen : seen = CodesIn(rows)
  OBVIOUS
<1> DEFINE At == {k \in 1 .. m : order[k] \in seen}
<1>2. /\ Range(order) = {order[k] : k \in 1 .. m}
      /\ seen \subseteq Range(order) <=> \A c \in seen : \E k \in 1 .. m : order[k] = c
  BY DEF Range
<1>3. e = IF ~(seen \subseteq Range(order)) THEN Raised
          ELSE IF seen = {} THEN NoValue
          ELSE [kind |-> "code", code |-> order[Min(At)]]
  BY <1>1 DEF Extreme
<1>4. Raised.kind = "raised" /\ NoValue.kind = "none"
  BY DEF Raised, NoValue
<1>5. CASE ~(seen \subseteq Range(order))
  BY <1>1, <1>2, <1>3, <1>4, <1>5 DEF FirstOf
<1>6. CASE seen \subseteq Range(order) /\ seen = {}
  BY <1>1, <1>2, <1>3, <1>4, <1>6 DEF FirstOf
<1>7. CASE seen \subseteq Range(order) /\ seen # {}
  <2>1. At # {} /\ At \subseteq 1 .. m /\ At \subseteq Nat
    BY <1>2, <1>7
  <2>2. Min(At) \in At /\ \A j \in At : Min(At) <= j
    <3> HIDE DEF At
    <3>1. \E x \in At : \A y \in At : x <= y
      BY <2>1, LeastIsOne
    <3> QED
      BY <3>1 DEF Min
  <2>3. e.kind = "code" /\ e.code = order[Min(At)] /\ e # Raised /\ e # NoValue
    BY <1>3, <1>4, <1>7
  <2>4. PICK k : k = Min(At)
    OBVIOUS
  <2>5. /\ k \in 1 .. m /\ e.code = order[k] /\ order[k] \in seen
        /\ \A j \in 1 .. m : order[j] \in seen => k <= j
    BY <2>2, <2>3, <2>4
  <2> QED
    BY <1>1, <1>2, <1>7, <2>3, <2>5 DEF FirstOf
<1> QED
  BY <1>5, <1>6, <1>7

\* The rows that pass a filter, and what their numbers add up to.
PassingRows(rows, op, codes) == {i \in DOMAIN rows : Passes(rows[i], [op |-> op, codes |-> codes])}

FiltersSplitRows(rows, codes) ==
  LET N(op) == Cardinality(PassingRows(rows, op, codes)) IN
  /\ N("any") = Len(rows) /\ N("is_empty") + N("filled") = Len(rows)
  /\ N("in") + N("not_in") = Cardinality({i \in DOMAIN rows : rows[i] # Absent})
  /\ N("filled") = 0 <=> CodesIn(rows) = {}

LEMMA FiltersSplit ==
  ASSUME NEW n \in Nat, NEW rows \in [1 .. n -> RowCells], NEW codes \in SUBSET Codes
  PROVE  FiltersSplitRows(rows, codes)
<1> DEFINE P(op) == PassingRows(rows, op, codes)
           present == {i \in DOMAIN rows : rows[i] # Absent}
<1>1. IsFiniteSet(1 .. n) /\ Cardinality(1 .. n) = n
  BY FS_Interval
<1>2. P("any") = 1 .. n
  BY DEF PassingRows, Passes
<1>3. P("is_empty") = {i \in 1 .. n : IsBlank(rows[i])} /\ P("filled") = {i \in 1 .. n : ~IsBlank(rows[i])}
  BY DEF PassingRows, Passes
<1>4. 1 .. n = P("is_empty") \cup P("filled") /\ \A i \in P("is_empty") : i \notin P("filled")
  BY <1>3
<1>5. /\ P("in") = {i \in 1 .. n : rows[i] # Absent /\ rows[i] \in codes}
      /\ P("not_in") = {i \in 1 .. n : rows[i] # Absent /\ rows[i] \notin codes}
  BY DEF PassingRows, Passes
<1>6. present = P("in") \cup P("not_in") /\ (\A i \in P("in") : i \notin P("not_in")) /\ present \subseteq 1 .. n
  BY <1>5
<1>7. P("filled") = {} <=> CodesIn(rows) = {}
  BY <1>3 DEF CodesIn
<1>8. Len(rows) = n
  OBVIOUS
<1> SUFFICES /\ Cardinality(P("any")) = n /\ Cardinality(P("is_empty")) + Cardinality(P("filled")) = n
             /\ Cardinality(P("in")) + Cardinality(P("not_in")) = Cardinality(present)
             /\ Cardinality(P("filled")) = 0 <=> CodesIn(rows) = {}
  BY <1>8 DEF FiltersSplitRows
<1> HIDE DEF P, present
<1>9. Cardinality(1 .. n) = Cardinality(P("is_empty")) + Cardinality(P("filled"))
  BY <1>1, <1>4, TwoParts
<1>10. Cardinality(present) = Cardinality(P("in")) + Cardinality(P("not_in"))
  <2>1. IsFiniteSet(present)
    BY <1>1, <1>6, FS_Subset
  <2> QED
    BY <1>6, <2>1, TwoParts
<1>11. Cardinality(P("filled")) = 0 <=> P("filled") = {}
  <2>1. P("filled") \subseteq 1 .. n
    BY <1>4
  <2> QED
    BY <1>1, <2>1, FS_Subset, FS_EmptySet
<1> QED
  BY <1>1, <1>2, <1>7, <1>9, <1>10, <1>11

LEMMA CodesAreFinite == IsFiniteSet(Codes)
<1>1. IsFiniteSet({"a"}) /\ IsFiniteSet({"b"}) /\ IsFiniteSet({"c"})
  BY FS_Singleton
<1>2. IsFiniteSet({"a"} \cup {"b"})
  BY <1>1, FS_Union
<1>3. IsFiniteSet(({"a"} \cup {"b"}) \cup {"c"})
  BY <1>1, <1>2, FS_Union
<1>4. Codes = ({"a"} \cup {"b"}) \cup {"c"}
  BY DEF Codes
<1> QED
  BY <1>3, <1>4

\* The first and the last of an order among some codes are one exactly if
\* there is one code.
AreEnds(first, last, seen, order) ==
  LET Place(c) == CHOOSE k \in DOMAIN order : order[k] = c IN
  /\ {last, first} \subseteq seen
  /\ \A c \in seen : Place(first) <= Place(c) /\ Place(c) <= Place(last)
  /\ last = first <=> Cardinality(seen) = 1
LEMMA EndsOfOrder ==
  ASSUME NEW m \in Nat, NEW order \in [1 .. m -> Codes], \A j, k \in 1 .. m : order[j] = order[k] => j = k,
         NEW seen, IsFiniteSet(seen), \A c \in seen : \E k \in 1 .. m : order[k] = c,
         NEW low \in 1 .. m, order[low] \in seen, \A j \in 1 .. m : order[j] \in seen => low <= j,
         NEW high \in 1 .. m, order[high] \in seen, \A j \in 1 .. m : order[j] \in seen => j <= high
  PROVE  AreEnds(order[low], order[high], seen, order)
<1> DEFINE Place(c) == CHOOSE k \in DOMAIN order : order[k] = c
<1>1. \A c \in seen : Place(c) \in 1 .. m /\ order[Place(c)] = c
  OBVIOUS
<1>2. Place(order[low]) = low /\ Place(order[high]) = high
  BY <1>1
<1>3. \A c \in seen : low <= Place(c) /\ Place(c) <= high
  BY <1>1
<1> HIDE DEF Place
<1>4. ASSUME order[high] = order[low]
      PROVE  Cardinality(seen) = 1
  <2>1. \A c \in seen : c = order[low]
    BY <1>1, <1>3, <1>4
  <2>2. seen = {order[low]}
    BY <2>1
  <2> QED
    BY <2>2, FS_Singleton
<1>5. ASSUME Cardinality(seen) = 1
      PROVE  order[high] = order[low]
  <2>1. PICK x : seen = {x}
    BY <1>5, FS_Singleton
  <2> QED
    BY <2>1
<1>6. \A c \in seen : Place(order[low]) <= Place(c) /\ Place(c) <= Place(order[high])
  BY <1>2, <1>3
<1> QED
  BY <1>4, <1>5, <1>6 DEF AreEnds, Place

LEMMA CountIsCounted ==
  ASSUME NEW f, NEW rows
  PROVE  Evaluate([shape |-> "count", filter |-> f], rows).n = CountRows(rows, f)
<1>1. PICK spec : spec = [shape |-> "count", filter |-> f]
  OBVIOUS
<1>2. spec.shape = "count" /\ spec.filter = f
  BY <1>1
<1>3. PICK n : n = CountRows(rows, f)
  OBVIOUS
<1>4. Evaluate(spec, rows) = Counted(n)
  BY <1>2, <1>3 DEF Evaluate
<1>5. Counted(n).n = n
  BY DEF Counted
<1> QED
  BY <1>1, <1>3, <1>4, <1>5

LEMMA AnyIsCounted ==
  ASSUME NEW f, NEW rows
  PROVE  Evaluate([shape |-> "any", filter |-> f], rows).holds = (CountRows(rows, f) > 0)
<1>1. PICK spec : spec = [shape |-> "any", filter |-> f]
  OBVIOUS
<1>2. spec.shape = "any" /\ spec.filter = f
  BY <1>1
<1>3. Evaluate(spec, rows) = [kind |-> "truth", holds |-> CountRows(rows, f) > 0]
  BY <1>2 DEF Evaluate
<1> QED
  BY <1>1, <1>3

LEMMA DerivedIsWell ==
  ASSUME NEW q, NEW n \in Nat, q.rows \in [1 .. n -> RowCells], q.codes \in SUBSET Codes,
         NEW m \in Nat, q.order \in [1 .. m -> Codes],
         \A j, k \in 1 .. m : q.order[j] = q.order[k] => j = k,
         NEW a,
         a.counts = [f \in FilterOf(q) |-> Evaluate([shape |-> "count", filter |-> f], q.rows)],
         a.anys = [f \in FilterOf(q) |-> Evaluate([shape |-> "any", filter |-> f], q.rows)],
         a.max = Evaluate([shape |-> "max", order |-> q.order], q.rows),
         a.min = Evaluate([shape |-> "min", order |-> q.order], q.rows),
         a.distinct = Evaluate([shape |-> "distinct"], q.rows)
  PROVE  DerivedWell(q.rows, q.order, q.codes, a)
<1>1. PICK rows, order, codes, seen :
        rows = q.rows /\ order = q.order /\ codes = q.codes /\ seen = CodesIn(rows)
  OBVIOUS
<1>2. /\ rows \in [1 .. n -> RowCells] /\ order \in [1 .. m -> Codes] /\ codes \in SUBSET Codes
      /\ DOMAIN rows = 1 .. n /\ Len(rows) = n /\ DOMAIN order = 1 .. m /\ Len(order) = m
      /\ \A j, k \in 1 .. m : order[j] = order[k] => j = k
  BY <1>1
<1>3. /\ DOMAIN a.counts = FilterOf(q)
      /\ \A f \in FilterOf(q) : a.counts[f].n = CountRows(rows, f) /\ (a.anys[f].holds <=> a.counts[f].n > 0)
  <2>1. \A f : /\ Evaluate([shape |-> "count", filter |-> f], rows).n = CountRows(rows, f)
               /\ Evaluate([shape |-> "any", filter |-> f], rows).holds = (CountRows(rows, f) > 0)
    BY CountIsCounted, AnyIsCounted
  <2>2. DOMAIN a.counts = FilterOf(q) /\ \A f \in FilterOf(q) : a.counts[f].n = CountRows(rows, f)
    BY <1>1, <2>1
  <2>3. ASSUME NEW f \in FilterOf(q)
        PROVE  a.anys[f].holds <=> a.counts[f].n > 0
    <3>1. a.anys[f] = Evaluate([shape |-> "any", filter |-> f], rows)
      BY <1>1
    <3>2. Evaluate([shape |-> "any", filter |-> f], rows).holds = (CountRows(rows, f) > 0)
      BY <2>1
    <3>3. a.counts[f].n = CountRows(rows, f)
      BY <2>2
    <3>4. a.anys[f].holds = (a.counts[f].n > 0)
      BY <3>1, <3>2, <3>3, Zenon
    <3> QED
      BY <3>4
  <2> QED
    BY <2>2, <2>3
<1>4. \A op \in {"any", "is_empty", "filled", "in", "not_in"} :
        a.counts[[op |-> op, codes |-> q.codes]].n = Cardinality(PassingRows(rows, op, codes))
  <2> TAKE op \in {"any", "is_empty", "filled", "in", "not_in"}
  <2>1. [op |-> op, codes |-> q.codes] \in FilterOf(q)
    BY DEF FilterOf
  <2> QED
    BY <1>1, <1>3, <2>1 DEF CountRows, PassingRows
<1>5. a.max = Extreme(rows, Reverse(order)) /\ a.min = Extreme(rows, order) /\ a.distinct.n = Cardinality(seen)
  BY <1>1 DEF Evaluate, Counted
<1>6. {rows[i] : i \in DOMAIN rows} \cap Codes = seen /\ seen \subseteq Codes
  <2>1. \A i \in 1 .. n : rows[i] \in Codes <=> ~IsBlank(rows[i])
    BY <1>2 DEF IsBlank, RowCells, Codes, Absent, EmptyCell
  <2>2. seen = {rows[i] : i \in {j \in 1 .. n : rows[j] \in Codes}}
    BY <1>1, <1>2, <2>1 DEF CodesIn
  <2>3. \A c : c \in seen <=> \E i \in 1 .. n : rows[i] = c /\ c \in Codes
    BY <2>2
  <2>4. \A c : c \in {rows[i] : i \in DOMAIN rows} \cap Codes <=> \E i \in 1 .. n : rows[i] = c /\ c \in Codes
    BY <1>2
  <2> QED
    BY <2>3, <2>4
<1>7. IsFiniteSet(seen)
  BY <1>6, CodesAreFinite, FS_Subset
<1>8. FirstOf(a.min, seen, order, m)
  BY <1>1, <1>2, <1>5, ExtremeIsFirst
<1>9. PICK back : back = Reverse(order)
  OBVIOUS
<1>10. DOMAIN back = 1 .. m /\ \A k \in 1 .. m : back[k] = order[(m - k) + 1]
  BY <1>2, <1>9 DEF Reverse
<1>11. FirstOf(a.max, seen, back, m)
  BY <1>1, <1>5, <1>9, <1>10, ExtremeIsFirst
<1>12. \A k \in 1 .. m : (m - k) + 1 \in 1 .. m /\ (m - ((m - k) + 1)) + 1 = k
  OBVIOUS
<1>13. \A c : (\E k \in 1 .. m : back[k] = c) <=> (\E k \in 1 .. m : order[k] = c)
  BY <1>10, <1>12
<1>14. \A extreme \in {a.max, a.min} :
         /\ extreme = Raised <=> \E c \in seen : \A k \in 1 .. m : order[k] # c
         /\ extreme = NoValue <=> seen = {}
  BY <1>8, <1>11, <1>13 DEF FirstOf
<1>15. ASSUME a.max.kind = "code"
       PROVE  AreEnds(a.min.code, a.max.code, seen, order)
  <2>1. seen # {} /\ \A c \in seen : \E k \in 1 .. m : order[k] = c
    BY <1>11, <1>13, <1>15 DEF FirstOf
  <2>2. a.min.kind = "code"
    BY <1>8, <2>1 DEF FirstOf
  <2>3. PICK low \in 1 .. m : /\ a.min.code = order[low] /\ order[low] \in seen
                              /\ \A j \in 1 .. m : order[j] \in seen => low <= j
    BY <1>8, <2>2 DEF FirstOf
  <2>4. PICK k \in 1 .. m : /\ a.max.code = back[k] /\ back[k] \in seen
                            /\ \A j \in 1 .. m : back[j] \in seen => k <= j
    BY <1>11, <1>15 DEF FirstOf
  <2>5. PICK high \in 1 .. m : high = (m - k) + 1
    BY <1>12
  <2>6. a.max.code = order[high] /\ order[high] \in seen
    BY <1>10, <2>4, <2>5
  <2>7. ASSUME NEW j \in 1 .. m, order[j] \in seen
        PROVE  j <= high
    <3>1. back[(m - j) + 1] = order[j] /\ (m - j) + 1 \in 1 .. m
      BY <1>10, <1>12
    <3>2. k <= (m - j) + 1
      BY <2>4, <2>7, <3>1
    <3> QED
      BY <2>5, <3>2
  <2>8. AreEnds(order[low], order[high], seen, order)
    BY <1>2, <1>7, <2>1, <2>3, <2>6, <2>7, EndsOfOrder
  <2> QED
    BY <2>3, <2>6, <2>8
<1>16. FiltersSplitRows(rows, codes)
  BY <1>2, FiltersSplit
<1>17. Cardinality(seen) = 0 <=> seen = {}
  BY <1>7, FS_EmptySet
<1> DEFINE N(op) == a.counts[[op |-> op, codes |-> q.codes]].n
<1>18. /\ N("any") = Len(rows) /\ N("is_empty") + N("filled") = Len(rows)
       /\ N("in") + N("not_in") = Cardinality({i \in DOMAIN rows : rows[i] # Absent})
       /\ N("filled") = 0 <=> seen = {}
  BY <1>1, <1>4, <1>16 DEF FiltersSplitRows
<1> HIDE DEF N
<1>19. a.distinct.n = 0 <=> N("filled") = 0
  BY <1>5, <1>17, <1>18
<1>20. \A extreme \in {a.max, a.min} :
         /\ extreme = Raised <=> \E c \in seen : \A k \in DOMAIN order : order[k] # c
         /\ extreme = NoValue <=> N("filled") = 0
  BY <1>2, <1>14, <1>18
<1>21. a.max.kind = "code" =>
         LET Place(c) == CHOOSE k \in DOMAIN order : order[k] = c IN
         /\ {a.max.code, a.min.code} \subseteq seen
         /\ \A c \in seen : Place(a.min.code) <= Place(c) /\ Place(c) <= Place(a.max.code)
         /\ a.max.code = a.min.code <=> a.distinct.n = 1
  <2>1. a.distinct.n = Cardinality(seen)
    BY <1>5
  <2> QED
    BY <1>15, <2>1, Zenon DEF AreEnds
<1>22. DerivedWell(rows, order, codes, a)
  <2>1. \A op : a.counts[[op |-> op, codes |-> codes]].n = N(op)
    BY <1>1 DEF N
  <2> QED
    BY <1>3, <1>6, <1>18, <1>19, <1>20, <1>21, <2>1, Zenon DEF DerivedWell
<1> QED
  BY <1>1, <1>22

LEMMA UpToShape ==
  ASSUME NEW n \in Nat, NEW S, NEW s \in UpTo(n, S)
  PROVE  \E m \in Nat : s \in [1 .. m -> S]
BY DEF UpTo

LEMMA DeriveShape ==
  ASSUME question \in DeriveQuestion
  PROVE  /\ \E n \in Nat : question.rows \in [1 .. n -> RowCells]
         /\ question.codes \in SUBSET Codes
         /\ \E m \in Nat : /\ question.order \in [1 .. m -> Codes]
                           /\ \A j, k \in 1 .. m : question.order[j] = question.order[k] => j = k
<1>1. /\ question.rows \in UpTo(MaxCells, Codes \cup {Absent, EmptyCell}) /\ question.codes \in SUBSET Codes
      /\ question.order \in {o \in UpTo(3, Codes) : \A j, k \in DOMAIN o : o[j] = o[k] => j = k}
  BY DEF DeriveQuestion
<1>2. MaxCells \in Nat
  BY RulesAssumption
<1>3. Codes \cup {Absent, EmptyCell} = RowCells
  BY DEF RowCells
<1>4. \E n \in Nat : question.rows \in [1 .. n -> RowCells]
  BY <1>1, <1>2, <1>3, UpToShape
<1>5. PICK order : order = question.order
  OBVIOUS
<1>6. order \in UpTo(3, Codes) /\ \A j, k \in DOMAIN order : order[j] = order[k] => j = k
  BY <1>1, <1>5
<1>7. PICK m \in Nat : order \in [1 .. m -> Codes]
  BY <1>6, UpToShape
<1> QED
  BY <1>1, <1>4, <1>5, <1>6, <1>7

LEMMA DerivedAnswers ==
  ASSUME question \in DeriveQuestion, Derives
  PROVE  DerivedWell(question'.rows, question'.order, question'.codes, answer')
<1>1. PICK q, a : q = question /\ a = answer'
  OBVIOUS
<1>2. /\ question' = q
      /\ a.counts = [f \in FilterOf(q) |-> Evaluate([shape |-> "count", filter |-> f], q.rows)]
      /\ a.anys = [f \in FilterOf(q) |-> Evaluate([shape |-> "any", filter |-> f], q.rows)]
      /\ a.max = Evaluate([shape |-> "max", order |-> q.order], q.rows)
      /\ a.min = Evaluate([shape |-> "min", order |-> q.order], q.rows)
      /\ a.distinct = Evaluate([shape |-> "distinct"], q.rows)
  BY <1>1 DEF Derives, Answers
<1>3. PICK n \in Nat : q.rows \in [1 .. n -> RowCells]
  BY <1>1, DeriveShape
<1>4. PICK m \in Nat : q.order \in [1 .. m -> Codes] /\ \A j, k \in 1 .. m : q.order[j] = q.order[k] => j = k
  BY <1>1, DeriveShape
<1>5. q.codes \in SUBSET Codes
  BY <1>1, DeriveShape
<1>6. DerivedWell(q.rows, q.order, q.codes, a)
  BY <1>2, <1>3, <1>4, <1>5, DerivedIsWell
<1> QED
  BY <1>1, <1>2, <1>6

\* However long the list of rows and whatever its filters and its order of
\* codes, the derived answers agree: the numbers of the filters that complete
\* one another add up, "any" is a count above zero, the extremes are an answer,
\* none or a fault for the same reason, and an extreme is first or last among
\* the codes that are there.
THEOREM DerivesHold == Spec => []DerivationsAgree
<1> DEFINE Agree == Answered("derives") => DerivedWell(question.rows, question.order, question.codes, answer)
<1>1. Init => Agree
  BY DEF Init, Answered
<1>2. Asked /\ Agree /\ [Next]_ruleVars => Agree'
  BY OneRuleAnswers, KindOfQuestion, DerivedAnswers DEF Answered
<1>3. Agree <=> DerivationsAgree
  BY DerivationsSay
<1> QED
  BY <1>1, <1>2, <1>3, QuestionStands, PTL DEF Spec
-----------------------------------------------------------------------------
(* The records of a file.                                                  *)

\* Some records' lines are the lines up to one that are not blank, each once
\* and in the file's order.
InOrder(of, rows, i) ==
  /\ \A k \in DOMAIN of : \A l \in DOMAIN of[k] : of[k][l] \in 1 .. i
  /\ \A h \in 1 .. i : rows[h].opens = "blank" <=> \A k \in DOMAIN of : \A l \in DOMAIN of[k] : of[k][l] # h
  /\ \A j, k \in DOMAIN of : \A l \in DOMAIN of[j], m \in DOMAIN of[k] :
       j < k \/ (j = k /\ l < m) => of[j][l] < of[k][m]

LEMMA NothingInOrder ==
  ASSUME NEW rows
  PROVE  InOrder([k \in 1 .. 0 |-> <<>>], rows, 0)
BY DEF InOrder

LEMMA BlankInOrder ==
  ASSUME NEW n \in Nat, NEW of \in [1 .. n -> Seq(Nat)], NEW rows, NEW i \in Nat, InOrder(of, rows, i),
         rows[i + 1].opens = "blank"
  PROVE  InOrder(of, rows, i + 1)
<1>1. \A k \in DOMAIN of : \A l \in DOMAIN of[k] : of[k][l] \in 1 .. i
  BY DEF InOrder
<1>2. \A x \in 1 .. i : x \in 1 .. i + 1 /\ x # i + 1
  OBVIOUS
<1>3. \A h \in 1 .. i + 1 : h \in 1 .. i \/ h = i + 1
  OBVIOUS
<1> QED
  BY <1>1, <1>2, <1>3, Zenon DEF InOrder

LEMMA NewInOrder ==
  ASSUME NEW n \in Nat, NEW of \in [1 .. n -> Seq(Nat)], NEW rows, NEW i \in Nat, InOrder(of, rows, i),
         rows[i + 1].opens # "blank",
         NEW more, DOMAIN more = 1 .. n + 1, more[n + 1] = <<i + 1>>, \A k \in 1 .. n : more[k] = of[k]
  PROVE  InOrder(more, rows, i + 1)
<1>1. \A k \in 1 .. n : \A l \in DOMAIN of[k] : of[k][l] \in 1 .. i
  BY DEF InOrder
<1>2. \A k \in 1 .. n + 1 : k \in 1 .. n \/ k = n + 1
  OBVIOUS
<1>3. DOMAIN more[n + 1] = {1} /\ more[n + 1][1] = i + 1
  OBVIOUS
<1>4. \A k \in 1 .. n + 1 : \A l \in DOMAIN more[k] : more[k][l] \in 1 .. i + 1
  BY <1>1, <1>2, <1>3
<1>5. ASSUME NEW h \in 1 .. i + 1
      PROVE  rows[h].opens = "blank" <=> \A k \in 1 .. n + 1 : \A l \in DOMAIN more[k] : more[k][l] # h
  <2>1. CASE h = i + 1
    BY <1>3, <2>1
  <2>2. CASE h # i + 1
    <3>1. h \in 1 .. i
      BY <2>2
    <3>2. rows[h].opens = "blank" <=> \A k \in 1 .. n : \A l \in DOMAIN of[k] : of[k][l] # h
      BY <3>1 DEF InOrder
    <3> QED
      BY <1>2, <1>3, <2>2, <3>2
  <2> QED
    BY <2>1, <2>2
<1>6. ASSUME NEW j \in 1 .. n + 1, NEW k \in 1 .. n + 1, NEW l \in DOMAIN more[j], NEW m \in DOMAIN more[k],
             j < k \/ (j = k /\ l < m)
      PROVE  more[j][l] < more[k][m]
  <2>1. CASE k = n + 1
    <3>1. m = 1 /\ more[k][m] = i + 1
      BY <1>3, <2>1
    <3>2. j # n + 1
      BY <1>3, <1>6, <2>1
    <3>3. j \in 1 .. n
      BY <1>2, <3>2
    <3>4. more[j][l] \in 1 .. i
      BY <1>1, <3>3
    <3> QED
      BY <3>1, <3>4
  <2>2. CASE k # n + 1
    <3>1. j \in 1 .. n /\ k \in 1 .. n
      BY <1>6, <2>2
    <3> QED
      BY <1>6, <3>1 DEF InOrder
  <2> QED
    BY <2>1, <2>2
<1> QED
  BY <1>4, <1>5, <1>6 DEF InOrder

LEMMA LongerInOrder ==
  ASSUME NEW n \in Nat, n > 0, NEW of \in [1 .. n -> Seq(Nat)], NEW rows, NEW i \in Nat, InOrder(of, rows, i),
         rows[i + 1].opens # "blank",
         NEW more, DOMAIN more = 1 .. n, more[n] = Append(of[n], i + 1), \A k \in 1 .. n - 1 : more[k] = of[k]
  PROVE  InOrder(more, rows, i + 1)
<1>1. \A k \in 1 .. n : \A l \in DOMAIN of[k] : of[k][l] \in 1 .. i
  BY DEF InOrder
<1>2. PICK last, size : last = of[n] /\ size = Len(last)
  OBVIOUS
<1>3. /\ last \in Seq(Nat) /\ size \in Nat /\ DOMAIN last = 1 .. size /\ n \in 1 .. n
      /\ DOMAIN more[n] = 1 .. size + 1 /\ more[n][size + 1] = i + 1
      /\ \A l \in 1 .. size : more[n][l] = of[n][l]
  BY <1>2
<1>4. \A k \in 1 .. n : k \in 1 .. n - 1 \/ k = n
  OBVIOUS
<1>5. ASSUME NEW k \in 1 .. n, NEW l \in DOMAIN more[k]
      PROVE  \/ k = n /\ l = size + 1 /\ more[k][l] = i + 1
             \/ l \in DOMAIN of[k] /\ more[k][l] = of[k][l] /\ more[k][l] \in 1 .. i
  <2>1. CASE k = n
    <3>1. l \in 1 .. size \/ l = size + 1
      BY <1>3, <2>1
    <3> QED
      BY <1>1, <1>2, <1>3, <2>1, <3>1
  <2>2. CASE k # n
    BY <1>1, <1>4, <2>2
  <2> QED
    BY <2>1, <2>2
<1>6. ASSUME NEW k \in 1 .. n, NEW l \in DOMAIN more[k]
      PROVE  more[k][l] \in 1 .. i + 1
  <2>1. more[k][l] = i + 1 \/ more[k][l] \in 1 .. i
    BY <1>5
  <2> QED
    BY <2>1
<1>7. ASSUME NEW k \in 1 .. n, NEW l \in DOMAIN of[k]
      PROVE  l \in DOMAIN more[k] /\ more[k][l] = of[k][l]
  <2>1. CASE k = n
    <3>1. l \in 1 .. size
      BY <1>2, <1>3, <2>1
    <3>2. l \in 1 .. size + 1
      BY <1>3, <3>1
    <3> QED
      BY <1>3, <2>1, <3>1, <3>2
  <2>2. CASE k # n
    BY <1>4, <2>2
  <2> QED
    BY <2>1, <2>2
<1>8. ASSUME NEW h \in 1 .. i + 1
      PROVE  rows[h].opens = "blank" <=> \A k \in 1 .. n : \A l \in DOMAIN more[k] : more[k][l] # h
  <2>1. CASE h = i + 1
    <3>1. size + 1 \in DOMAIN more[n]
      BY <1>3
    <3> QED
      BY <1>3, <2>1, <3>1
  <2>2. CASE h # i + 1
    <3>1. h \in 1 .. i
      BY <2>2
    <3>2. rows[h].opens = "blank" <=> \A k \in 1 .. n : \A l \in DOMAIN of[k] : of[k][l] # h
      BY <3>1 DEF InOrder
    <3>3. \A k \in 1 .. n : (\A l \in DOMAIN of[k] : of[k][l] # h) <=> \A l \in DOMAIN more[k] : more[k][l] # h
      BY <1>5, <1>7, <2>2
    <3> QED
      BY <3>2, <3>3
  <2> QED
    BY <2>1, <2>2
<1>9. ASSUME NEW j \in 1 .. n, NEW k \in 1 .. n, NEW l \in DOMAIN more[j], NEW m \in DOMAIN more[k],
             j < k \/ (j = k /\ l < m)
      PROVE  more[j][l] < more[k][m]
  <2>1. CASE k = n /\ m = size + 1
    <3>1. more[k][m] = i + 1
      BY <1>3, <2>1
    <3>2. ~(j = n /\ l = size + 1)
      BY <1>3, <1>9, <2>1
    <3>3. more[j][l] \in 1 .. i
      BY <1>5, <3>2
    <3> QED
      BY <3>1, <3>3
  <2>2. CASE ~(k = n /\ m = size + 1)
    <3>1. m \in DOMAIN of[k] /\ more[k][m] = of[k][m]
      BY <1>5, <2>2
    <3>2. ~(j = n /\ l = size + 1)
      BY <1>2, <1>3, <1>9, <3>1
    <3>3. l \in DOMAIN of[j] /\ more[j][l] = of[j][l]
      BY <1>5, <3>2
    <3> QED
      BY <1>9, <3>1, <3>3 DEF InOrder
  <2> QED
    BY <2>1, <2>2
<1> QED
  BY <1>6, <1>8, <1>9 DEF InOrder

Recs == [lines : Seq(Nat), fields : Nat, outcome : {"ok", "recovered", "rejected"}]

\* Where rows are told apart by their keys, lines begin with the only key
\* among them.
OwnKey(lines, rows, kind) ==
  kind # "unknown" =>
    rows[lines[1]].opens = "anchor" /\ \A l \in 2 .. Len(lines) : rows[lines[l]].opens # "anchor"

IsKept(r, rows, kind, expected) ==
  r.outcome # "rejected" => (expected > 0 => r.fields = expected) /\ OwnKey(r.lines, rows, kind)

AreRecords(out, rows, kind, expected) ==
  out \in Seq(Recs) /\ \A k \in DOMAIN out : IsKept(out[k], rows, kind, expected)

IsPending(p, rows, kind) ==
  /\ DOMAIN p = {"lines", "fields", "span", "broken"}
  /\ p.lines \in Seq(Nat) /\ Len(p.lines) > 0 /\ p.fields \in Nat /\ OwnKey(p.lines, rows, kind)

\* How many records a file's reading has, the pending one among them, and
\* their lines.
SizeOf(s) == IF s.pending = <<>> THEN Len(s.out) ELSE Len(s.out) + 1

LinesOf(s) == [k \in 1 .. SizeOf(s) |-> IF k <= Len(s.out) THEN s.out[k].lines ELSE s.pending[1].lines]

\* The reading of a file up to a line.
HasRead(s, rows, kind, expected, i) ==
  /\ DOMAIN s = {"pending", "out"}
  /\ AreRecords(s.out, rows, kind, expected)
  /\ s.pending = <<>> \/ (DOMAIN s.pending = 1 .. 1 /\ IsPending(s.pending[1], rows, kind))
  /\ InOrder(LinesOf(s), rows, i)

LEMMA FlushIsKept ==
  ASSUME NEW rows, NEW kind, NEW expected \in Nat, NEW p, IsPending(p, rows, kind),
         NEW r, r = Flush(p, kind, expected)
  PROVE  r \in Recs /\ r.lines = p.lines /\ IsKept(r, rows, kind, expected)
<1>1. PICK fields : fields = IF kind = "text" /\ p.fields > 2 THEN 2 ELSE p.fields
  OBVIOUS
<1>2. PICK outcome : outcome = r.outcome
  OBVIOUS
<1>3. /\ r = [lines |-> p.lines, fields |-> fields, outcome |-> outcome]
      /\ outcome \in {"ok", "recovered", "rejected"}
      /\ expected > 0 /\ fields # expected => outcome = "rejected"
  BY <1>1, <1>2, Zenon DEF Flush
<1>4. p.lines \in Seq(Nat) /\ fields \in Nat /\ OwnKey(p.lines, rows, kind)
  BY <1>1 DEF IsPending
<1>5. r.lines = p.lines /\ r.fields = fields /\ r.outcome = outcome
  BY <1>3
<1>6. r \in Recs
  BY <1>3, <1>4 DEF Recs
<1> QED
  BY <1>3, <1>4, <1>5, <1>6 DEF IsKept

LEMMA RecordsGrow ==
  ASSUME NEW rows, NEW kind, NEW expected, NEW out, AreRecords(out, rows, kind, expected),
         NEW r \in Recs, IsKept(r, rows, kind, expected)
  PROVE  AreRecords(Append(out, r), rows, kind, expected)
<1>1. PICK n, more : n = Len(out) /\ more = Append(out, r)
  OBVIOUS
<1>2. out \in Seq(Recs) /\ n \in Nat /\ DOMAIN out = 1 .. n
  BY <1>1 DEF AreRecords
<1>3. /\ more \in Seq(Recs) /\ DOMAIN more = 1 .. n + 1 /\ more[n + 1] = r
      /\ \A k \in 1 .. n : more[k] = out[k]
  BY <1>1, <1>2
<1>4. \A k \in 1 .. n + 1 : k \in 1 .. n \/ k = n + 1
  BY <1>2
<1>5. \A k \in 1 .. n + 1 : IsKept(more[k], rows, kind, expected)
  BY <1>2, <1>3, <1>4 DEF AreRecords
<1> QED
  BY <1>1, <1>3, <1>5 DEF AreRecords

\* What a flush leaves are records, with the lines read.
AreLeft(out, size, of, rows, kind, expected) ==
  /\ AreRecords(out, rows, kind, expected)
  /\ size \in Nat /\ Len(out) = size /\ DOMAIN out = 1 .. size /\ of \in [1 .. size -> Seq(Nat)]
  /\ \A k \in 1 .. size : out[k].lines = of[k]

LEMMA FlushedAreRead ==
  ASSUME NEW rows, NEW kind, NEW expected \in Nat, NEW i, NEW s, HasRead(s, rows, kind, expected, i),
         NEW out, out = Flushed(s, kind, expected)
  PROVE  AreLeft(out, SizeOf(s), LinesOf(s), rows, kind, expected)
<1> SUFFICES /\ AreRecords(out, rows, kind, expected) /\ Len(out) = SizeOf(s) /\ SizeOf(s) \in Nat
             /\ \A k \in 1 .. SizeOf(s) : out[k].lines = LinesOf(s)[k]
  <2>1. PICK n, of : n = SizeOf(s) /\ of = LinesOf(s)
    OBVIOUS
  <2>2. AreRecords(out, rows, kind, expected) /\ Len(out) = n /\ n \in Nat /\ \A k \in 1 .. n : out[k].lines = of[k]
    BY <2>1
  <2>3. out \in Seq(Recs) /\ DOMAIN out = 1 .. n
    BY <2>2 DEF AreRecords
  <2>4. \A k \in 1 .. n : of[k] \in Seq(Nat)
    <3>1. \A k \in 1 .. n : out[k] \in Recs
      BY <2>2, <2>3
    <3> QED
      BY <2>2, <3>1 DEF Recs
  <2>5. of = [k \in 1 .. n |-> of[k]]
    BY <2>1 DEF LinesOf
  <2>6. of \in [1 .. n -> Seq(Nat)]
    BY <2>4, <2>5
  <2> QED
    BY <2>1, <2>2, <2>3, <2>6 DEF AreLeft
<1>1. PICK before, n : before = s.out /\ n = Len(before)
  OBVIOUS
<1>2. AreRecords(before, rows, kind, expected) /\ before \in Seq(Recs) /\ n \in Nat /\ DOMAIN before = 1 .. n
  BY <1>1 DEF HasRead, AreRecords
<1>3. CASE s.pending = <<>>
  <2>1. out = before
    <3>1. [k \in DOMAIN s.pending |-> Flush(s.pending[k], kind, expected)] = <<>>
      BY <1>3
    <3>2. out = before \o <<>>
      BY <1>1, <3>1, Zenon DEF Flushed
    <3> QED
      BY <1>2, <3>2, ConcatEmptySeq
  <2>2. SizeOf(s) = n
    BY <1>1, <1>3 DEF SizeOf
  <2>3. \A k \in 1 .. n : LinesOf(s)[k] = before[k].lines
    BY <1>1, <1>2, <2>2 DEF LinesOf
  <2> QED
    BY <1>1, <1>2, <2>1, <2>2, <2>3
<1>4. CASE s.pending # <<>>
  <2>1. PICK p, r : p = s.pending[1] /\ r = Flush(p, kind, expected)
    OBVIOUS
  <2>2. DOMAIN s.pending = 1 .. 1 /\ IsPending(p, rows, kind)
    BY <1>4, <2>1 DEF HasRead
  <2>3. r \in Recs /\ r.lines = p.lines /\ IsKept(r, rows, kind, expected)
    BY <2>1, <2>2, FlushIsKept
  <2>4. out = Append(before, r)
    <3>1. [k \in DOMAIN s.pending |-> Flush(s.pending[k], kind, expected)] = <<r>>
      BY <2>1, <2>2
    <3>2. out = before \o <<r>>
      BY <1>1, <3>1, Zenon DEF Flushed
    <3> QED
      BY <1>2, <2>3, <3>2, AppendIsConcat
  <2>5. AreRecords(out, rows, kind, expected)
    BY <1>2, <2>3, <2>4, RecordsGrow
  <2>6. SizeOf(s) = n + 1
    BY <1>1, <1>4 DEF SizeOf
  <2>7. Len(out) = n + 1 /\ out[n + 1] = r /\ \A k \in 1 .. n : out[k] = before[k]
    BY <1>1, <1>2, <2>3, <2>4
  <2>8. \A k \in 1 .. n + 1 : LinesOf(s)[k] = IF k <= n THEN before[k].lines ELSE p.lines
    BY <1>1, <2>1, <2>6 DEF LinesOf
  <2>9. \A k \in 1 .. n + 1 : out[k].lines = LinesOf(s)[k]
    <3> TAKE k \in 1 .. n + 1
    <3>1. CASE k \in 1 .. n
      BY <1>2, <2>7, <2>8, <3>1
    <3>2. CASE k = n + 1
      BY <1>2, <2>3, <2>7, <2>8, <3>2
    <3> QED
      BY <1>2, <3>1, <3>2
  <2> QED
    BY <1>2, <2>5, <2>6, <2>7, <2>9
<1> QED
  BY <1>3, <1>4

IsLonger(more, q, n, x) ==
  Len(more) = n + 1 /\ DOMAIN more = 1 .. n + 1 /\ more[n + 1] = x /\ \A k \in 1 .. n : more[k] = q[k]

LEMMA OneMore ==
  ASSUME NEW S, NEW q \in Seq(S), NEW n, n = Len(q), NEW x \in S, NEW more, more = Append(q, x)
  PROVE  more \in Seq(S) /\ IsLonger(more, q, n, x)
BY DEF IsLonger

\* A line that is a record of its own is rejected.
LEMMA RejectedIsRead ==
  ASSUME NEW rows, NEW kind, NEW expected \in Nat, NEW i \in Nat, NEW s, HasRead(s, rows, kind, expected, i),
         NEW row, row = rows[i + 1], row.fields \in Nat, row.opens # "blank",
         NEW t, DOMAIN t = {"pending", "out"}, t.pending = <<>>,
         t.out = Append(Flushed(s, kind, expected), Rejected(i + 1, row))
  PROVE  HasRead(t, rows, kind, expected, i + 1)
<1>1. PICK out, n, of, r, more : out = Flushed(s, kind, expected) /\ n = SizeOf(s) /\ of = LinesOf(s)
                                 /\ r = Rejected(i + 1, row) /\ more = LinesOf(t)
  OBVIOUS
<1>2. AreLeft(out, n, of, rows, kind, expected)
  BY <1>1, FlushedAreRead
<1>3. /\ AreRecords(out, rows, kind, expected) /\ Len(out) = n /\ n \in Nat /\ \A k \in 1 .. n : out[k].lines = of[k]
      /\ of \in [1 .. n -> Seq(Nat)]
  BY <1>2 DEF AreLeft
<1>4. r \in Recs /\ r.lines = <<i + 1>> /\ IsKept(r, rows, kind, expected)
  BY <1>1 DEF Rejected, Recs, IsKept
<1>5. t.out = Append(out, r) /\ AreRecords(t.out, rows, kind, expected)
  BY <1>1, <1>3, <1>4, RecordsGrow
<1>6. out \in Seq(Recs)
  BY <1>3 DEF AreRecords
<1>7. Len(t.out) = n + 1 /\ t.out[n + 1] = r /\ \A k \in 1 .. n : t.out[k] = out[k]
  <2>1. PICK after : after = t.out
    OBVIOUS
  <2>2. IsLonger(after, out, n, r)
    BY <1>3, <1>4, <1>5, <1>6, <2>1, OneMore
  <2> QED
    BY <2>1, <2>2 DEF IsLonger
<1>8. SizeOf(t) = n + 1
  BY <1>7 DEF SizeOf
<1>9. DOMAIN more = 1 .. n + 1 /\ \A k \in 1 .. n + 1 : more[k] = t.out[k].lines
  BY <1>1, <1>3, <1>7, <1>8 DEF LinesOf
<1>10. more[n + 1] = <<i + 1>> /\ \A k \in 1 .. n : more[k] = of[k]
  <2>1. n + 1 \in 1 .. n + 1 /\ \A k \in 1 .. n : k \in 1 .. n + 1
    BY <1>3
  <2>2. more[n + 1] = r.lines /\ \A k \in 1 .. n : more[k] = out[k].lines
    BY <1>7, <1>9, <2>1
  <2> QED
    BY <1>3, <1>4, <2>2
<1>11. InOrder(of, rows, i)
  BY <1>1 DEF HasRead
<1>12. InOrder(more, rows, i + 1)
  BY <1>3, <1>9, <1>10, <1>11, NewInOrder
<1> QED
  BY <1>1, <1>5, <1>12 DEF HasRead

LEMMA PendingIsRead ==
  ASSUME NEW rows, NEW kind, NEW expected \in Nat, NEW i \in Nat, NEW s, HasRead(s, rows, kind, expected, i),
         NEW row, row = rows[i + 1], row.fields \in Nat, row.opens # "blank",
         kind = "unknown" \/ row.opens = "anchor",
         NEW t, t = [pending |-> <<Pending(i + 1, row)>>, out |-> Flushed(s, kind, expected)]
  PROVE  HasRead(t, rows, kind, expected, i + 1)
<1>1. PICK out, n, of, p, more : out = Flushed(s, kind, expected) /\ n = SizeOf(s) /\ of = LinesOf(s)
                                 /\ p = Pending(i + 1, row) /\ more = LinesOf(t)
  OBVIOUS
<1>2. AreLeft(out, n, of, rows, kind, expected)
  BY <1>1, FlushedAreRead
<1>3. /\ AreRecords(out, rows, kind, expected) /\ Len(out) = n /\ n \in Nat /\ \A k \in 1 .. n : out[k].lines = of[k]
      /\ of \in [1 .. n -> Seq(Nat)]
  BY <1>2 DEF AreLeft
<1>4. DOMAIN t = {"pending", "out"} /\ t.out = out /\ t.pending = <<p>>
  BY <1>1
<1>5. DOMAIN t.pending = 1 .. 1 /\ t.pending[1] = p /\ t.pending # <<>>
  BY <1>4
<1>6. DOMAIN p = {"lines", "fields", "span", "broken"} /\ p.lines = <<i + 1>> /\ p.fields = row.fields
  BY <1>1 DEF Pending
<1>7. OwnKey(p.lines, rows, kind)
  BY <1>6 DEF OwnKey
<1>8. IsPending(p, rows, kind)
  BY <1>6, <1>7 DEF IsPending
<1>9. SizeOf(t) = n + 1
  BY <1>3, <1>4, <1>5 DEF SizeOf
<1>10. DOMAIN more = 1 .. n + 1 /\ more[n + 1] = p.lines /\ \A k \in 1 .. n : more[k] = out[k].lines
  BY <1>1, <1>3, <1>4, <1>5, <1>9 DEF LinesOf
<1>11. more[n + 1] = <<i + 1>> /\ \A k \in 1 .. n : more[k] = of[k]
  BY <1>3, <1>6, <1>10
<1>12. InOrder(of, rows, i)
  BY <1>1 DEF HasRead
<1>13. InOrder(more, rows, i + 1)
  BY <1>3, <1>10, <1>11, <1>12, NewInOrder
<1> QED
  BY <1>1, <1>3, <1>4, <1>5, <1>8, <1>13 DEF HasRead

\* A line that joins the pending record.
IsJoined(t, s, i) ==
  /\ DOMAIN t = {"pending", "out"} /\ t.out = s.out /\ DOMAIN t.pending = 1 .. 1
  /\ DOMAIN t.pending[1] = {"lines", "fields", "span", "broken"}
  /\ t.pending[1].lines = Append(s.pending[1].lines, i) /\ t.pending[1].fields = s.pending[1].fields

LEMMA LineJoins ==
  ASSUME NEW s, DOMAIN s = {"pending", "out"}, DOMAIN s.pending = 1 .. 1,
         DOMAIN s.pending[1] = {"lines", "fields", "span", "broken"},
         NEW i, NEW broken, NEW t,
         t = [s EXCEPT !.pending[1].lines = Append(@, i), !.pending[1].broken = broken]
  PROVE  IsJoined(t, s, i)
<1>1. PICK u : u = [s EXCEPT !.pending[1].lines = Append(@, i)]
  OBVIOUS
<1>2. PICK p, q : p = s.pending[1] /\ q = [p EXCEPT !.lines = Append(@, i)]
  OBVIOUS
<1>3. DOMAIN u = {"pending", "out"} /\ u.pending = [s.pending EXCEPT ![1] = q] /\ u.out = s.out
  BY <1>1, <1>2
<1>4. DOMAIN u.pending = 1 .. 1 /\ u.pending[1] = q
  BY <1>3
<1>5. t = [u EXCEPT !.pending[1].broken = broken]
  BY <1>1
<1> SUFFICES ASSUME NEW v, v = [u EXCEPT !.pending[1].broken = broken]
             PROVE  IsJoined(v, s, i)
  BY <1>5
<1>6. DOMAIN v = {"pending", "out"} /\ v.pending = [u.pending EXCEPT ![1].broken = broken] /\ v.out = s.out
  BY <1>3
<1>7. DOMAIN v.pending = 1 .. 1 /\ v.pending[1] = [q EXCEPT !.broken = broken]
  BY <1>4, <1>6
<1>8. DOMAIN q = {"lines", "fields", "span", "broken"} /\ q.lines = Append(p.lines, i) /\ q.fields = p.fields
  BY <1>2
<1>9. /\ DOMAIN v.pending[1] = {"lines", "fields", "span", "broken"}
      /\ v.pending[1].lines = q.lines /\ v.pending[1].fields = q.fields
  BY <1>7, <1>8
<1> QED
  BY <1>2, <1>6, <1>7, <1>8, <1>9 DEF IsJoined

\* A line without a key continues the pending record.
LEMMA LongerIsRead ==
  ASSUME NEW rows, NEW kind, NEW expected \in Nat, NEW i \in Nat, NEW s, HasRead(s, rows, kind, expected, i),
         rows[i + 1].opens # "blank", rows[i + 1].opens # "anchor", s.pending # <<>>,
         NEW t, IsJoined(t, s, i + 1)
  PROVE  HasRead(t, rows, kind, expected, i + 1)
<1>1. PICK out, n, of, p, q, size, more :
        /\ out = s.out /\ n = SizeOf(s) /\ of = LinesOf(s) /\ more = LinesOf(t)
        /\ p = s.pending[1] /\ q = t.pending[1] /\ size = Len(p.lines)
  OBVIOUS
<1>2. \E left : AreLeft(left, n, of, rows, kind, expected)
  BY <1>1, FlushedAreRead
<1>3. /\ DOMAIN s = {"pending", "out"} /\ DOMAIN s.pending = 1 .. 1 /\ IsPending(p, rows, kind)
      /\ AreRecords(out, rows, kind, expected) /\ InOrder(of, rows, i) /\ of \in [1 .. n -> Seq(Nat)]
  BY <1>2, <1>1 DEF HasRead, AreLeft
<1>4. /\ DOMAIN p = {"lines", "fields", "span", "broken"}
      /\ p.lines \in Seq(Nat) /\ size > 0 /\ size \in Nat /\ p.fields \in Nat /\ OwnKey(p.lines, rows, kind)
  BY <1>1, <1>3 DEF IsPending
<1>5. DOMAIN t = {"pending", "out"} /\ t.out = out /\ DOMAIN t.pending = 1 .. 1
  BY <1>1 DEF IsJoined
<1>6. t.pending # <<>>
  <2>1. PICK pending : pending = t.pending
    OBVIOUS
  <2>2. 1 \in DOMAIN pending
    BY <1>5, <2>1
  <2> QED
    BY <2>1, <2>2
<1>7. DOMAIN q = {"lines", "fields", "span", "broken"} /\ q.lines = Append(p.lines, i + 1) /\ q.fields = p.fields
  BY <1>1 DEF IsJoined
<1>8. /\ q.lines \in Seq(Nat) /\ Len(q.lines) = size + 1 /\ q.lines[size + 1] = i + 1
      /\ \A l \in 1 .. size : q.lines[l] = p.lines[l]
  <2>1. PICK after, lines : after = q.lines /\ lines = p.lines
    OBVIOUS
  <2>2. lines \in Seq(Nat) /\ size = Len(lines) /\ after = Append(lines, i + 1) /\ i + 1 \in Nat
    BY <1>1, <1>4, <1>7, <2>1
  <2>3. after \in Seq(Nat) /\ IsLonger(after, lines, size, i + 1)
    BY <2>2, OneMore
  <2> QED
    BY <2>1, <2>3 DEF IsLonger
<1>9. OwnKey(q.lines, rows, kind)
  <2>1. \A l \in 2 .. size + 1 : l \in 2 .. size \/ l = size + 1
    BY <1>4
  <2>2. 1 \in 1 .. size /\ 2 .. size \subseteq 1 .. size
    BY <1>4
  <2> QED
    BY <1>1, <1>4, <1>8, <2>1, <2>2 DEF OwnKey
<1>10. IsPending(q, rows, kind)
  BY <1>4, <1>7, <1>8, <1>9 DEF IsPending
<1>11. Len(out) \in Nat /\ n = Len(out) + 1 /\ SizeOf(t) = n
  BY <1>1, <1>3, <1>5, <1>6 DEF SizeOf, AreRecords
<1>12. /\ DOMAIN more = 1 .. n /\ more[n] = q.lines /\ of[n] = p.lines
       /\ \A k \in 1 .. n - 1 : more[k] = out[k].lines /\ of[k] = out[k].lines
  <2>1. PICK m : m = Len(out)
    OBVIOUS
  <2>2. m \in Nat /\ n = m + 1 /\ Len(s.out) = m /\ Len(t.out) = m
    BY <1>1, <1>5, <1>11, <2>1
  <2>3. more = [k \in 1 .. n |-> IF k <= m THEN out[k].lines ELSE q.lines]
    BY <1>1, <1>5, <1>11, <2>2 DEF LinesOf
  <2>4. of = [k \in 1 .. n |-> IF k <= m THEN out[k].lines ELSE p.lines]
    BY <1>1, <2>2 DEF LinesOf
  <2>5. n \in 1 .. n /\ ~(n <= m) /\ \A k \in 1 .. n - 1 : k \in 1 .. n /\ k <= m
    BY <2>2
  <2> QED
    BY <2>3, <2>4, <2>5
<1>13. more[n] = Append(of[n], i + 1) /\ \A k \in 1 .. n - 1 : more[k] = of[k]
  BY <1>7, <1>12
<1>14. n \in Nat /\ n > 0
  BY <1>11
<1>15. InOrder(more, rows, i + 1)
  BY <1>3, <1>12, <1>13, <1>14, LongerInOrder
<1> QED
  BY <1>1, <1>3, <1>5, <1>10, <1>15 DEF HasRead

\* The lines after one, read.
LEMMA LineIsRead ==
  ASSUME NEW rows, NEW kind, NEW expected \in Nat, NEW i \in Nat, NEW s, HasRead(s, rows, kind, expected, i),
         rows[i + 1].opens \in {"anchor", "more", "error", "blank"}, rows[i + 1].fields \in Nat,
         NEW t, t = IF rows[i + 1].opens = "blank" THEN s ELSE Takes(s, i + 1, rows[i + 1], kind, expected)
  PROVE  HasRead(t, rows, kind, expected, i + 1)
<1>1. PICK row, out : row = rows[i + 1] /\ out = Flushed(s, kind, expected)
  OBVIOUS
<1>2. CASE row.opens = "blank"
  <2>1. PICK n, of, left : n = SizeOf(s) /\ of = LinesOf(s) /\ AreLeft(left, n, of, rows, kind, expected)
    BY FlushedAreRead
  <2>2. n \in Nat /\ of \in [1 .. n -> Seq(Nat)] /\ InOrder(of, rows, i)
    BY <2>1 DEF AreLeft, HasRead
  <2>3. InOrder(of, rows, i + 1)
    BY <1>1, <1>2, <2>2, BlankInOrder
  <2>4. t = s
    BY <1>1, <1>2
  <2> QED
    BY <2>1, <2>3, <2>4 DEF HasRead
<1>3. CASE row.opens = "error"
  <2>1. t = [pending |-> <<>>, out |-> Append(out, Rejected(i + 1, row))]
    BY <1>1, <1>3, Zenon DEF Takes, Nothing
  <2>2. DOMAIN t = {"pending", "out"} /\ t.pending = <<>> /\ t.out = Append(out, Rejected(i + 1, row))
    BY <2>1
  <2> QED
    BY <1>1, <1>3, <2>2, RejectedIsRead
<1>4. CASE row.opens \notin {"blank", "error"} /\ (kind = "unknown" \/ row.opens = "anchor")
  <2>1. t = [pending |-> <<Pending(i + 1, row)>>, out |-> out]
    BY <1>1, <1>4, Zenon DEF Takes
  <2> QED
    BY <1>1, <1>4, <2>1, PendingIsRead
<1>5. CASE row.opens \notin {"blank", "error", "anchor"} /\ kind # "unknown" /\ s.pending = <<>>
  <2>1. t = [s EXCEPT !.out = Append(@, Rejected(i + 1, row))]
    BY <1>1, <1>5, Zenon DEF Takes, Nothing
  <2>2. out = s.out
    <3>1. [k \in DOMAIN s.pending |-> Flush(s.pending[k], kind, expected)] = <<>>
      BY <1>5
    <3>2. out = s.out \o <<>>
      BY <1>1, <3>1, Zenon DEF Flushed
    <3>3. s.out \in Seq(Recs)
      BY DEF HasRead, AreRecords
    <3> QED
      BY <3>2, <3>3, ConcatEmptySeq
  <2>3. DOMAIN s = {"pending", "out"}
    BY DEF HasRead
  <2>4. DOMAIN t = {"pending", "out"} /\ t.pending = <<>> /\ t.out = Append(out, Rejected(i + 1, row))
    BY <1>5, <2>1, <2>2, <2>3
  <2> QED
    BY <1>1, <1>5, <2>4, RejectedIsRead
<1>6. CASE row.opens \notin {"blank", "error", "anchor"} /\ kind # "unknown" /\ s.pending # <<>>
  <2>1. PICK broken : broken = (kind # "text")
    OBVIOUS
  <2>2. t = [s EXCEPT !.pending[1].lines = Append(@, i + 1), !.pending[1].broken = broken]
    BY <1>1, <1>6, <2>1, Zenon DEF Takes, Nothing
  <2>3. DOMAIN s = {"pending", "out"} /\ DOMAIN s.pending = 1 .. 1 /\ IsPending(s.pending[1], rows, kind)
    BY <1>6 DEF HasRead
  <2>4. DOMAIN s.pending[1] = {"lines", "fields", "span", "broken"}
    BY <2>3 DEF IsPending
  <2>5. IsJoined(t, s, i + 1)
    BY <2>2, <2>3, <2>4, LineJoins
  <2> QED
    BY <1>1, <1>6, <2>5, LongerIsRead
<1> QED
  BY <1>2, <1>3, <1>4, <1>5, <1>6

LEMMA NothingIsRead ==
  ASSUME NEW rows, NEW kind, NEW expected, NEW s, s = [pending |-> Nothing, out |-> <<>>]
  PROVE  HasRead(s, rows, kind, expected, 0)
<1>1. DOMAIN s = {"pending", "out"} /\ s.pending = <<>> /\ s.out = <<>>
  BY DEF Nothing
<1>2. AreRecords(s.out, rows, kind, expected)
  <2>1. <<>> \in Seq(Recs) /\ DOMAIN <<>> = {}
    OBVIOUS
  <2> QED
    BY <1>1, <2>1 DEF AreRecords
<1>3. PICK of : of = LinesOf(s)
  OBVIOUS
<1>4. SizeOf(s) = 0
  BY <1>1 DEF SizeOf
<1>5. DOMAIN of = {}
  BY <1>3, <1>4 DEF LinesOf
<1>6. InOrder(of, rows, 0)
  BY <1>5 DEF InOrder
<1> QED
  BY <1>1, <1>2, <1>3, <1>6 DEF HasRead

\* A file is read line by line to its end.
LineRead(s, i, rows, kind, expected) ==
  IF rows[i].opens = "blank" THEN s ELSE Takes(s, i, rows[i], kind, expected)

Reads(f, m, rows, kind, expected) ==
  /\ f[0] = [pending |-> Nothing, out |-> <<>>]
  /\ \A k \in 1 .. m : f[k] = LineRead(f[k - 1], k, rows, kind, expected)

LEMMA ReadingExists ==
  ASSUME NEW rows, NEW kind, NEW expected, NEW n \in Nat
  PROVE  \E f : Reads(f, n, rows, kind, expected)
<1> DEFINE S == {m \in 0 .. n : \E f : Reads(f, m, rows, kind, expected)}
<1>1. 0 \in S
  <2>1. PICK f : f = [k \in 0 .. 0 |-> [pending |-> Nothing, out |-> <<>>]]
    OBVIOUS
  <2>2. f[0] = [pending |-> Nothing, out |-> <<>>] /\ 1 .. 0 = {}
    BY <2>1
  <2>3. Reads(f, 0, rows, kind, expected)
    BY <2>2 DEF Reads
  <2> QED
    BY <2>3
<1>2. ASSUME NEW m \in 0 .. n - 1, m \in S
      PROVE  m + 1 \in S
  <2>1. PICK f : Reads(f, m, rows, kind, expected)
    BY <1>2
  <2>2. PICK g : g = [k \in 0 .. m + 1 |-> IF k = m + 1 THEN LineRead(f[m], m + 1, rows, kind, expected) ELSE f[k]]
    OBVIOUS
  <2>3. m \in Nat /\ m + 1 \in 0 .. n
    OBVIOUS
  <2>4. g[0] = f[0] /\ g[m + 1] = LineRead(f[m], m + 1, rows, kind, expected) /\ \A k \in 0 .. m : g[k] = f[k]
    BY <2>2, <2>3
  <2>5. ASSUME NEW k \in 1 .. m + 1
        PROVE  g[k] = LineRead(g[k - 1], k, rows, kind, expected)
    <3>1. CASE k = m + 1
      <4>1. k - 1 = m /\ m \in 0 .. m
        BY <2>3, <3>1
      <4> QED
        BY <2>4, <3>1, <4>1
    <3>2. CASE k # m + 1
      <4>1. k \in 1 .. m /\ k \in 0 .. m /\ k - 1 \in 0 .. m
        BY <2>3, <3>2
      <4>2. f[k] = LineRead(f[k - 1], k, rows, kind, expected)
        BY <2>1, <4>1 DEF Reads
      <4> QED
        BY <2>4, <4>1, <4>2
    <3> QED
      BY <3>1, <3>2
  <2>6. Reads(g, m + 1, rows, kind, expected)
    BY <2>1, <2>4, <2>5 DEF Reads
  <2> QED
    BY <2>3, <2>6
<1>3. \A m \in 0 .. n - 1 : m \in S => m + 1 \in S
  BY <1>2
<1> HIDE DEF S
<1>4. 0 .. n \subseteq S /\ n \in 0 .. n
  BY <1>1, <1>3, RangeInduction
<1> QED
  BY <1>4 DEF S

\* Rows as a reader of the file has them.
AreRows(rows, n) ==
  /\ DOMAIN rows = 1 .. n /\ Len(rows) = n
  /\ \A i \in 1 .. n : rows[i].opens \in {"anchor", "more", "error", "blank"} /\ rows[i].fields \in Nat

LEMMA FileIsRead ==
  ASSUME NEW n \in Nat, NEW rows, AreRows(rows, n), NEW kind, NEW expected \in Nat,
         NEW f, Reads(f, n, rows, kind, expected)
  PROVE  HasRead(f[n], rows, kind, expected, n)
<1> DEFINE S == {m \in 0 .. n : HasRead(f[m], rows, kind, expected, m)}
<1>1. 0 \in S
  <2>1. HasRead(f[0], rows, kind, expected, 0)
    BY NothingIsRead DEF Reads
  <2> QED
    BY <2>1
<1>2. ASSUME NEW m \in 0 .. n - 1, m \in S
      PROVE  m + 1 \in S
  <2>1. m \in Nat /\ m + 1 \in 1 .. n /\ m + 1 \in 0 .. n /\ (m + 1) - 1 = m
    OBVIOUS
  <2>2. PICK s, t : s = f[m] /\ t = f[m + 1]
    OBVIOUS
  <2>3. t = LineRead(s, m + 1, rows, kind, expected)
    BY <2>1, <2>2 DEF Reads
  <2>4. HasRead(s, rows, kind, expected, m)
    BY <1>2, <2>2
  <2>5. rows[m + 1].opens \in {"anchor", "more", "error", "blank"} /\ rows[m + 1].fields \in Nat
    BY <2>1 DEF AreRows
  <2>6. t = IF rows[m + 1].opens = "blank" THEN s ELSE Takes(s, m + 1, rows[m + 1], kind, expected)
    BY <2>3 DEF LineRead
  <2>7. HasRead(t, rows, kind, expected, m + 1)
    BY <2>1, <2>4, <2>5, <2>6, LineIsRead
  <2> QED
    BY <2>1, <2>2, <2>7
<1>3. \A m \in 0 .. n - 1 : m \in S => m + 1 \in S
  BY <1>2
<1> HIDE DEF S
<1>4. 0 .. n \subseteq S /\ n \in 0 .. n
  BY <1>1, <1>3, RangeInduction
<1> QED
  BY <1>4 DEF S

LEMMA RecordsAreLeft ==
  ASSUME NEW n \in Nat, NEW rows, AreRows(rows, n), NEW kind, NEW expected \in Nat,
         NEW records, records = RecoverRows(rows, kind, expected)
  PROVE  \E size, of : AreLeft(records, size, of, rows, kind, expected) /\ InOrder(of, rows, n)
<1> DEFINE Follows(f) ==
      f = [i \in 0 .. n |->
             IF i = 0 THEN [pending |-> Nothing, out |-> <<>>]
             ELSE IF rows[i].opens = "blank" THEN f[i - 1]
             ELSE Takes(f[i - 1], i, rows[i], kind, expected)]
<1>1. Len(rows) = n
  BY DEF AreRows
<1>2. records = Flushed((CHOOSE f : Follows(f))[n], kind, expected)
  BY <1>1, Zenon DEF RecoverRows
<1>3. PICK h : Follows(h)
  <2>1. PICK g : Reads(g, n, rows, kind, expected)
    BY ReadingExists
  <2>2. PICK f : f = [k \in 0 .. n |-> g[k]]
    OBVIOUS
  <2>3. f[0] = [pending |-> Nothing, out |-> <<>>]
    BY <2>1, <2>2 DEF Reads
  <2>4. ASSUME NEW k \in 1 .. n
        PROVE  f[k] = LineRead(f[k - 1], k, rows, kind, expected)
    <3>1. k \in 0 .. n /\ k - 1 \in 0 .. n
      OBVIOUS
    <3>2. g[k] = LineRead(g[k - 1], k, rows, kind, expected)
      BY <2>1 DEF Reads
    <3> QED
      BY <2>2, <3>1, <3>2
  <2>5. ASSUME NEW i \in 0 .. n
        PROVE  f[i] = IF i = 0 THEN [pending |-> Nothing, out |-> <<>>]
                      ELSE IF rows[i].opens = "blank" THEN f[i - 1]
                      ELSE Takes(f[i - 1], i, rows[i], kind, expected)
    <3>1. CASE i = 0
      BY <2>3, <3>1
    <3>2. CASE i # 0
      <4>1. i \in 1 .. n
        BY <3>2
      <4> QED
        BY <2>4, <3>2, <4>1 DEF LineRead
    <3> QED
      BY <3>1, <3>2
  <2>6. f = [i \in 0 .. n |-> f[i]]
    BY <2>2
  <2>7. Follows(f)
    BY <2>5, <2>6
  <2> QED
    BY <2>7
<1>4. PICK f : f = (CHOOSE x : Follows(x))
  OBVIOUS
<1>5. Follows(f) /\ records = Flushed(f[n], kind, expected)
  BY <1>2, <1>3, <1>4
<1>6. Reads(f, n, rows, kind, expected)
  <2>1. 0 \in 0 .. n /\ \A k \in 1 .. n : k \in 0 .. n /\ k # 0
    OBVIOUS
  <2>2. f[0] = [pending |-> Nothing, out |-> <<>>]
    BY <1>5, <2>1
  <2>3. \A k \in 1 .. n : f[k] = IF rows[k].opens = "blank" THEN f[k - 1]
                                 ELSE Takes(f[k - 1], k, rows[k], kind, expected)
    BY <1>5, <2>1
  <2> QED
    BY <2>2, <2>3 DEF Reads, LineRead
<1> HIDE DEF Follows
<1>7. PICK s : s = f[n]
  OBVIOUS
<1>8. HasRead(s, rows, kind, expected, n) /\ records = Flushed(s, kind, expected)
  BY <1>5, <1>6, <1>7, FileIsRead
<1>9. AreLeft(records, SizeOf(s), LinesOf(s), rows, kind, expected)
  BY <1>8, FlushedAreRead
<1>10. InOrder(LinesOf(s), rows, n)
  BY <1>8 DEF HasRead
<1> QED
  BY <1>9, <1>10

\* What the property says of an answer.
NoneIsLost(rows, kind, expected, a) ==
  LET records == a.records
      Anchor(i) == rows[i].opens = "anchor" IN
  /\ \A i \in DOMAIN rows :
       i \in a.dropped <=> \A k \in DOMAIN records : \A l \in DOMAIN records[k].lines : records[k].lines[l] # i
  /\ \A j, k \in DOMAIN records : \A l \in DOMAIN records[j].lines, m \in DOMAIN records[k].lines :
       /\ records[k].lines[m] \in DOMAIN rows
       /\ j < k \/ (j = k /\ l < m) => records[j].lines[l] < records[k].lines[m]
  /\ \A k \in a.kept :
       LET r == records[k] IN
       /\ expected > 0 => r.fields = expected
       /\ kind # "unknown" =>
            Anchor(r.lines[1]) /\ \A l \in 2 .. Len(r.lines) : ~Anchor(r.lines[l])
  /\ a.counts.ok + a.counts.recovered = Cardinality(a.kept)
  /\ a.counts.ok + a.counts.recovered + a.counts.rejected = Len(records)

LEMMA LinesSay ==
  NoLineIsLost <=> (Answered("recovers") => NoneIsLost(question.rows, question.kind, question.expected, answer))
BY Zenon DEF NoLineIsLost, NoneIsLost

LEMMA RecoveredIsWhole ==
  ASSUME NEW n \in Nat, NEW rows, AreRows(rows, n), NEW kind, NEW expected \in Nat,
         NEW a, a = AnalyseFile(rows, kind, expected)
  PROVE  NoneIsLost(rows, kind, expected, a)
<1>1. PICK records : records = RecoverRows(rows, kind, expected)
  OBVIOUS
<1> DEFINE Ending(outcome) == {k \in DOMAIN records : records[k].outcome = outcome}
<1>2. /\ a.records = records
      /\ a.kept = {k \in DOMAIN records : records[k].outcome # "rejected"}
      /\ a.dropped = {i \in DOMAIN rows : rows[i].opens = "blank"}
      /\ a.counts.ok = Cardinality(Ending("ok")) /\ a.counts.recovered = Cardinality(Ending("recovered"))
      /\ a.counts.rejected = Cardinality(Ending("rejected"))
  BY <1>1 DEF AnalyseFile
<1>3. PICK size, of : AreLeft(records, size, of, rows, kind, expected) /\ InOrder(of, rows, n)
  BY <1>1, RecordsAreLeft
<1>4. /\ size \in Nat /\ Len(records) = size /\ DOMAIN records = 1 .. size /\ DOMAIN of = 1 .. size
      /\ \A k \in 1 .. size : records[k].lines = of[k]
      /\ records \in Seq(Recs) /\ \A k \in 1 .. size : IsKept(records[k], rows, kind, expected)
  BY <1>3 DEF AreLeft, AreRecords
<1>5. DOMAIN rows = 1 .. n
  BY DEF AreRows
<1>6. \A i \in DOMAIN rows :
        i \in a.dropped <=> \A k \in DOMAIN records : \A l \in DOMAIN records[k].lines : records[k].lines[l] # i
  <2>1. \A h \in 1 .. n : rows[h].opens = "blank" <=> \A k \in 1 .. size : \A l \in DOMAIN of[k] : of[k][l] # h
    BY <1>3, <1>4 DEF InOrder
  <2> QED
    BY <1>2, <1>4, <1>5, <2>1
<1>7. \A j, k \in DOMAIN records : \A l \in DOMAIN records[j].lines, m \in DOMAIN records[k].lines :
        /\ records[k].lines[m] \in DOMAIN rows
        /\ j < k \/ (j = k /\ l < m) => records[j].lines[l] < records[k].lines[m]
  <2>1. \A j, k \in 1 .. size : \A l \in DOMAIN of[j], m \in DOMAIN of[k] :
          /\ of[k][m] \in 1 .. n
          /\ j < k \/ (j = k /\ l < m) => of[j][l] < of[k][m]
    BY <1>3, <1>4 DEF InOrder
  <2> QED
    BY <1>4, <1>5, <2>1
<1>8. ASSUME NEW k \in a.kept
      PROVE  /\ expected > 0 => records[k].fields = expected
             /\ OwnKey(records[k].lines, rows, kind)
  BY <1>2, <1>4 DEF IsKept
<1>9. \A k \in 1 .. size : records[k].outcome \in {"ok", "recovered", "rejected"}
  <2>1. \A k \in 1 .. size : records[k] \in Recs
    BY <1>4
  <2> QED
    BY <2>1 DEF Recs
<1>10. /\ 1 .. size = Ending("ok") \cup Ending("recovered") \cup Ending("rejected")
       /\ a.kept = Ending("ok") \cup Ending("recovered") /\ a.kept \subseteq 1 .. size
  BY <1>2, <1>4, <1>9
<1>11. /\ \A k \in Ending("ok") : k \notin Ending("recovered") /\ k \notin Ending("rejected")
       /\ \A k \in Ending("recovered") : k \notin Ending("rejected")
  OBVIOUS
<1>12. IsFiniteSet(1 .. size) /\ Cardinality(1 .. size) = size
  BY <1>4, FS_Interval
<1> HIDE DEF Ending
<1>13. size = a.counts.ok + a.counts.recovered + a.counts.rejected
  <2>1. Cardinality(1 .. size) =
          Cardinality(Ending("ok")) + Cardinality(Ending("recovered")) + Cardinality(Ending("rejected"))
    <3>1. PICK ok, recovered, rejected : ok = Ending("ok") /\ recovered = Ending("recovered")
                                         /\ rejected = Ending("rejected")
      OBVIOUS
    <3>2. /\ 1 .. size = ok \cup recovered \cup rejected
          /\ \A k \in ok : k \notin recovered /\ k \notin rejected
          /\ \A k \in recovered : k \notin rejected
      BY <1>10, <1>11, <3>1
    <3>3. PICK all : all = 1 .. size
      OBVIOUS
    <3>4. IsFiniteSet(all) /\ all = ok \cup recovered \cup rejected
      BY <1>12, <3>2, <3>3
    <3>5. Cardinality(all) = Cardinality(ok) + Cardinality(recovered) + Cardinality(rejected)
      BY <3>2, <3>4, ThreeParts
    <3> QED
      BY <3>1, <3>3, <3>5
  <2> QED
    BY <1>2, <1>12, <2>1
<1>14. Cardinality(a.kept) = a.counts.ok + a.counts.recovered
  <2>1. IsFiniteSet(a.kept)
    BY <1>10, <1>12, FS_Subset
  <2>2. Cardinality(a.kept) = Cardinality(Ending("ok")) + Cardinality(Ending("recovered"))
    BY <1>10, <1>11, <2>1, TwoParts
  <2> QED
    BY <1>2, <2>2
<1>15. a.records = records /\ Len(records) = size
  BY <1>2, <1>4
<1>16. \A k \in a.kept :
         /\ expected > 0 => records[k].fields = expected
         /\ kind # "unknown" =>
              /\ rows[records[k].lines[1]].opens = "anchor"
              /\ \A l \in 2 .. Len(records[k].lines) : ~(rows[records[k].lines[l]].opens = "anchor")
  BY <1>8, Zenon DEF OwnKey
<1>17. \A i \in DOMAIN rows :
         i \in a.dropped <=>
           \A k \in DOMAIN a.records : \A l \in DOMAIN a.records[k].lines : a.records[k].lines[l] # i
  BY <1>6, <1>15
<1>18. \A j, k \in DOMAIN a.records : \A l \in DOMAIN a.records[j].lines, m \in DOMAIN a.records[k].lines :
         /\ a.records[k].lines[m] \in DOMAIN rows
         /\ j < k \/ (j = k /\ l < m) => a.records[j].lines[l] < a.records[k].lines[m]
  BY <1>7, <1>15
<1>19. \A k \in a.kept :
         /\ expected > 0 => a.records[k].fields = expected
         /\ kind # "unknown" =>
              /\ rows[a.records[k].lines[1]].opens = "anchor"
              /\ \A l \in 2 .. Len(a.records[k].lines) : ~(rows[a.records[k].lines[l]].opens = "anchor")
  BY <1>15, <1>16
<1>20. /\ a.counts.ok + a.counts.recovered = Cardinality(a.kept)
       /\ a.counts.ok + a.counts.recovered + a.counts.rejected = Len(a.records)
  BY <1>13, <1>14, <1>15
<1> QED
  BY <1>17, <1>18, <1>19, <1>20, Zenon DEF NoneIsLost

LEMMA FileShape ==
  ASSUME question \in FileQuestion
  PROVE  question.expected \in Nat /\ \E n \in Nat : AreRows(question.rows, n)
<1>1. PICK rows : rows = question.rows
  OBVIOUS
<1>2. MaxRows \in Nat /\ Width \in Nat
  BY RulesAssumption
<1>3. question.expected \in {0, 2} /\ rows \in UNION {[1 .. n -> FileRows] : n \in 0 .. MaxRows}
  BY <1>1 DEF FileQuestion
<1>4. PICK n \in 0 .. MaxRows : rows \in [1 .. n -> FileRows]
  BY <1>3
<1>5. \A row \in FileRows : row.opens \in {"anchor", "more", "error", "blank"} /\ row.fields \in Nat
  BY <1>2 DEF FileRows
<1>6. n \in Nat
  BY <1>2
<1>7. DOMAIN rows = 1 .. n /\ Len(rows) = n
  BY <1>4, <1>6
<1>8. AreRows(rows, n)
  BY <1>4, <1>5, <1>7 DEF AreRows
<1> QED
  BY <1>1, <1>3, <1>6, <1>8

LEMMA FileIsAnalysed ==
  ASSUME question \in FileQuestion, Recovers
  PROVE  NoneIsLost(question'.rows, question'.kind, question'.expected, answer')
<1>1. PICK rows, kind, expected, a :
        rows = question.rows /\ kind = question.kind /\ expected = question.expected /\ a = answer'
  OBVIOUS
<1>2. question' = question /\ a = AnalyseFile(rows, kind, expected)
  BY <1>1 DEF Recovers, Answers
<1>3. PICK n \in Nat : AreRows(rows, n)
  BY <1>1, FileShape
<1>4. expected \in Nat
  BY <1>1, FileShape
<1>5. NoneIsLost(rows, kind, expected, a)
  BY <1>2, <1>3, <1>4, RecoveredIsWhole
<1> QED
  BY <1>1, <1>2, <1>5

\* However long a file and however it is broken, each of its lines is in
\* exactly one record or is reported as blank, the records keep the file's
\* order, a kept one begins with its only key and has the header's fields, and
\* the counts add up.
THEOREM LinesHold == Spec => []NoLineIsLost
<1> DEFINE Whole == Answered("recovers") => NoneIsLost(question.rows, question.kind, question.expected, answer)
<1>1. Init => Whole
  BY DEF Init, Answered
<1>2. Asked /\ Whole /\ [Next]_ruleVars => Whole'
  BY OneRuleAnswers, KindOfQuestion, FileIsAnalysed DEF Answered
<1>3. Whole <=> NoLineIsLost
  BY LinesSay
<1> QED
  BY <1>1, <1>2, <1>3, QuestionStands, PTL DEF Spec
-----------------------------------------------------------------------------
(* What a freeze builds of a delivery.                                     *)

\* A set whose members are told apart by, and stand for, those of a finite one.
LEMMA PairedCount ==
  ASSUME NEW S, NEW T, IsFiniteSet(T), NEW f \in [S -> T],
         \A x, y \in S : f[x] = f[y] => x = y, \A t \in T : \E x \in S : f[x] = t
  PROVE  IsFiniteSet(S) /\ Cardinality(S) = Cardinality(T)
<1>1. f \in Injection(S, T)
  BY DEF Injection, IsInjective
<1>2. f \in Surjection(S, T)
  BY DEF Surjection
<1> QED
  BY <1>1, <1>2, FS_Injection

\* A table's rows: as many as a number says, each with a key.
IsTable(rows) == \E n \in Nat : DOMAIN rows = 1 .. n /\ Len(rows) = n /\ \A i \in 1 .. n : rows[i].key # Unset

IsDelivery(d) == IsTable(d.unfall) /\ IsTable(d.objekt) /\ IsTable(d.person)

\* A key is of one row.
OneEach(rows) == \A i, j \in DOMAIN rows : rows[i].key = rows[j].key => i = j

\* A row without a parent names none.
HaveParents(children, parents) ==
  \A i \in DOMAIN children : children[i].parent # Unset => \E j \in DOMAIN parents : parents[j].key = children[i].parent

IsSound(d) ==
  /\ OneEach(d.unfall) /\ OneEach(d.objekt) /\ OneEach(d.person)
  /\ HaveParents(d.objekt, d.unfall) /\ HaveParents(d.person, d.objekt)

LEMMA FoundIsOneEach ==
  ASSUME NEW rows, NEW table, ~OneEach(rows)
  PROVE  \E f \in DuplicateKeys(rows, table) : f.code \in Blocking
<1>1. PICK i \in DOMAIN rows, j \in DOMAIN rows : rows[i].key = rows[j].key /\ i # j
  BY DEF OneEach
<1> DEFINE f == Finding("DUP_KEY_CROSS_SET", table, rows[i].key)
<1>2. rows[i].key \in {l \in RowKeys(rows) : \E k, m \in DOMAIN rows : k # m /\ rows[k].key = l /\ rows[m].key = l}
  BY <1>1 DEF RowKeys
<1>3. f \in DuplicateKeys(rows, table)
  BY <1>2 DEF DuplicateKeys
<1>4. f.code \in Blocking
  BY DEF Finding, Blocking
<1> QED
  BY <1>3, <1>4

LEMMA FoundHaveParents ==
  ASSUME NEW children, NEW parents, NEW table, ~HaveParents(children, parents)
  PROVE  \E f \in Orphans(children, table, parents) : f.code \in Blocking
<1>1. PICK i \in DOMAIN children :
        children[i].parent # Unset /\ \A j \in DOMAIN parents : parents[j].key # children[i].parent
  BY DEF HaveParents
<1> DEFINE f == Finding("ORPHAN_FK", table, children[i].key)
<1>2. f \in Orphans(children, table, parents)
  BY <1>1 DEF Orphans, RowKeys
<1>3. f.code \in Blocking
  BY DEF Finding, Blocking
<1> QED
  BY <1>2, <1>3

\* What may be frozen has no key twice and no parent that is missing.
LEMMA FrozenIsSound ==
  ASSUME NEW d, \A f \in ValidateDelivery(d) : f.code \notin Blocking
  PROVE  IsSound(d)
<1>1. /\ DuplicateKeys(d.unfall, "unfall") \subseteq ValidateDelivery(d)
      /\ DuplicateKeys(d.objekt, "objekt") \subseteq ValidateDelivery(d)
      /\ DuplicateKeys(d.person, "person") \subseteq ValidateDelivery(d)
      /\ Orphans(d.objekt, "objekt", d.unfall) \subseteq ValidateDelivery(d)
      /\ Orphans(d.person, "person", d.objekt) \subseteq ValidateDelivery(d)
  BY DEF ValidateDelivery
<1>2. OneEach(d.unfall) /\ OneEach(d.objekt) /\ OneEach(d.person)
  BY <1>1, FoundIsOneEach
<1>3. HaveParents(d.objekt, d.unfall)
  BY <1>1, FoundHaveParents
<1>4. HaveParents(d.person, d.objekt)
  BY <1>1, FoundHaveParents
<1> QED
  BY <1>2, <1>3, <1>4 DEF IsSound

\* The records, place by place.
\* The rows of a delivery, each under its parent.
AreBuilt(d, records) ==
  /\ DOMAIN records = DOMAIN d.unfall
  /\ \A i \in DOMAIN records :
       /\ records[i].key = d.unfall[i].key
       /\ DOMAIN records[i].objekt = {j \in DOMAIN d.objekt : d.objekt[j].parent = d.unfall[i].key}
  /\ \A i \in DOMAIN records : \A j \in DOMAIN records[i].objekt :
       /\ records[i].objekt[j].key = d.objekt[j].key
       /\ DOMAIN records[i].objekt[j].persons = {k \in DOMAIN d.person : d.person[k].parent = d.objekt[j].key}
       /\ \A k \in DOMAIN records[i].objekt[j].persons : records[i].objekt[j].persons[k] = d.person[k].key

LEMMA RecordsAre ==
  ASSUME NEW d, NEW records, records = BuildRecords(d)
  PROVE  AreBuilt(d, records)
<1>1. /\ DOMAIN records = DOMAIN d.unfall
      /\ \A i \in DOMAIN records :
           records[i].key = d.unfall[i].key /\ records[i].objekt = BuildObjects(d, d.unfall[i])
  <2>1. records = [i \in DOMAIN d.unfall |->
                     [key |-> d.unfall[i].key, text |-> TextFor(d, d.unfall[i]), objekt |-> BuildObjects(d, d.unfall[i])]]
    BY Zenon DEF BuildRecords
  <2> QED
    BY <2>1
<1>2. ASSUME NEW i \in DOMAIN records
      PROVE  /\ DOMAIN records[i].objekt = {j \in DOMAIN d.objekt : d.objekt[j].parent = d.unfall[i].key}
             /\ \A j \in DOMAIN records[i].objekt :
                  /\ records[i].objekt[j].key = d.objekt[j].key
                  /\ records[i].objekt[j].persons = BuildPersons(d, d.objekt[j])
  <2>1. PICK u, objects : u = d.unfall[i] /\ objects = BuildObjects(d, u)
    OBVIOUS
  <2>2. objects = [j \in {l \in DOMAIN d.objekt : d.objekt[l].parent = u.key} |->
                     [key |-> d.objekt[j].key, persons |-> BuildPersons(d, d.objekt[j])]]
    BY <2>1, Zenon DEF BuildObjects, Group
  <2>3. records[i].objekt = objects
    BY <1>1, <2>1
  <2> QED
    BY <2>1, <2>2, <2>3
<1>3. ASSUME NEW i \in DOMAIN records, NEW j \in DOMAIN records[i].objekt
      PROVE  /\ DOMAIN records[i].objekt[j].persons = {k \in DOMAIN d.person : d.person[k].parent = d.objekt[j].key}
             /\ \A k \in DOMAIN records[i].objekt[j].persons : records[i].objekt[j].persons[k] = d.person[k].key
  <2>1. PICK persons : persons = BuildPersons(d, d.objekt[j])
    OBVIOUS
  <2>2. records[i].objekt[j].persons = persons
    BY <1>2, <2>1
  <2>3. /\ DOMAIN persons = {k \in DOMAIN d.person : d.person[k].parent = d.objekt[j].key}
        /\ \A k \in DOMAIN persons : persons[k] = d.person[k].key
    BY <2>1 DEF BuildPersons, Group
  <2> QED
    BY <2>2, <2>3
<1> QED
  BY <1>1, <1>2, <1>3 DEF AreBuilt

\* The objects that name a parent, and the persons of one of these.
ParentedObjects(d) == {j \in DOMAIN d.objekt : d.objekt[j].parent # Unset}

ParentedPersons(d) ==
  {k \in DOMAIN d.person : \E j \in ParentedObjects(d) : d.person[k].parent = d.objekt[j].key}

LEMMA PlacesAre ==
  ASSUME NEW d, NEW records, records = BuildRecords(d)
  PROVE  /\ ObjectPlaces(records) =
              UNION {{<<i, j>> : j \in {l \in DOMAIN d.objekt : d.objekt[l].parent = d.unfall[i].key}} :
                       i \in DOMAIN d.unfall}
         /\ \A p \in ObjectPlaces(records) :
              /\ p = <<p[1], p[2]>> /\ p[1] \in DOMAIN d.unfall /\ p[2] \in DOMAIN d.objekt
              /\ d.objekt[p[2]].parent = d.unfall[p[1]].key
         /\ \A i \in DOMAIN d.unfall, j \in DOMAIN d.objekt :
              d.objekt[j].parent = d.unfall[i].key => <<i, j>> \in ObjectPlaces(records)
         /\ \A q \in PersonPlaces(records) :
              /\ q = <<q[1], q[2], q[3]>> /\ <<q[1], q[2]>> \in ObjectPlaces(records)
              /\ q[3] \in DOMAIN d.person /\ d.person[q[3]].parent = d.objekt[q[2]].key
         /\ \A i, j : <<i, j>> \in ObjectPlaces(records) =>
              \A k \in DOMAIN d.person : d.person[k].parent = d.objekt[j].key => <<i, j, k>> \in PersonPlaces(records)
<1>1. /\ DOMAIN records = DOMAIN d.unfall
      /\ \A i \in DOMAIN records :
           /\ DOMAIN records[i].objekt = {l \in DOMAIN d.objekt : d.objekt[l].parent = d.unfall[i].key}
           /\ \A j \in DOMAIN records[i].objekt :
                DOMAIN records[i].objekt[j].persons = {k \in DOMAIN d.person : d.person[k].parent = d.objekt[j].key}
  BY RecordsAre DEF AreBuilt
<1>2. ObjectPlaces(records) =
        UNION {{<<i, j>> : j \in {l \in DOMAIN d.objekt : d.objekt[l].parent = d.unfall[i].key}} : i \in DOMAIN d.unfall}
  BY <1>1 DEF ObjectPlaces
<1>3. \A p \in ObjectPlaces(records) :
        /\ p = <<p[1], p[2]>> /\ p[1] \in DOMAIN d.unfall /\ p[2] \in DOMAIN d.objekt
        /\ d.objekt[p[2]].parent = d.unfall[p[1]].key
  BY <1>2
<1>4. \A i \in DOMAIN d.unfall, j \in DOMAIN d.objekt :
        d.objekt[j].parent = d.unfall[i].key => <<i, j>> \in ObjectPlaces(records)
  BY <1>2
<1>5. \A p \in ObjectPlaces(records) :
        DOMAIN records[p[1]].objekt[p[2]].persons = {k \in DOMAIN d.person : d.person[k].parent = d.objekt[p[2]].key}
  BY <1>1, <1>3
<1>6. ASSUME NEW q \in PersonPlaces(records)
      PROVE  /\ q = <<q[1], q[2], q[3]>> /\ <<q[1], q[2]>> \in ObjectPlaces(records)
             /\ q[3] \in DOMAIN d.person /\ d.person[q[3]].parent = d.objekt[q[2]].key
  <2>1. PICK p \in ObjectPlaces(records) : \E k \in DOMAIN records[p[1]].objekt[p[2]].persons : q = <<p[1], p[2], k>>
    BY DEF PersonPlaces
  <2> QED
    BY <1>3, <1>5, <2>1
<1>7. ASSUME NEW i, NEW j, <<i, j>> \in ObjectPlaces(records), NEW k \in DOMAIN d.person,
             d.person[k].parent = d.objekt[j].key
      PROVE  <<i, j, k>> \in PersonPlaces(records)
  <2>1. PICK p : p = <<i, j>>
    OBVIOUS
  <2>2. k \in DOMAIN records[p[1]].objekt[p[2]].persons /\ p \in ObjectPlaces(records)
    BY <1>5, <1>7, <2>1
  <2>3. <<p[1], p[2], k>> \in PersonPlaces(records)
    BY <2>2 DEF PersonPlaces
  <2> QED
    BY <2>1, <2>3
<1> QED
  BY <1>2, <1>3, <1>4, <1>6, <1>7

LEMMA ObjectsCount ==
  ASSUME NEW d, IsDelivery(d), IsSound(d), NEW records, records = BuildRecords(d)
  PROVE  /\ IsFiniteSet(ObjectPlaces(records))
         /\ Cardinality(ObjectPlaces(records)) = Cardinality(ParentedObjects(d))
         /\ \A x, y \in ObjectPlaces(records) : x[2] = y[2] => x = y
<1> DEFINE P == ObjectPlaces(records)
           T == ParentedObjects(d)
           f == [p \in P |-> p[2]]
<1>1. /\ \A p \in P : /\ p = <<p[1], p[2]>> /\ p[1] \in DOMAIN d.unfall /\ p[2] \in DOMAIN d.objekt
                      /\ d.objekt[p[2]].parent = d.unfall[p[1]].key
      /\ \A i \in DOMAIN d.unfall, j \in DOMAIN d.objekt : d.objekt[j].parent = d.unfall[i].key => <<i, j>> \in P
  BY PlacesAre
<1>2. \A i \in DOMAIN d.unfall : d.unfall[i].key # Unset
  BY DEF IsDelivery, IsTable
<1>3. IsFiniteSet(T)
  <2>1. PICK n \in Nat : DOMAIN d.objekt = 1 .. n
    BY DEF IsDelivery, IsTable
  <2>2. IsFiniteSet(1 .. n) /\ T \subseteq 1 .. n
    BY <2>1, FS_Interval DEF ParentedObjects
  <2> HIDE DEF T
  <2> QED
    BY <2>2, FS_Subset
<1>4. f \in [P -> T]
  BY <1>1, <1>2 DEF ParentedObjects
<1>5. \A x, y \in P : x[2] = y[2] => x = y
  BY <1>1 DEF IsSound, OneEach
<1>6. \A t \in T : \E x \in P : x[2] = t
  <2>1. ASSUME NEW t \in T
        PROVE  \E x \in P : x[2] = t
    <3>1. t \in DOMAIN d.objekt /\ d.objekt[t].parent # Unset
      BY DEF ParentedObjects
    <3>2. PICK i \in DOMAIN d.unfall : d.unfall[i].key = d.objekt[t].parent
      BY <3>1 DEF IsSound, HaveParents
    <3>3. <<i, t>> \in P /\ <<i, t>>[2] = t
      BY <1>1, <3>1, <3>2
    <3> QED
      BY <3>3
  <2> QED
    BY <2>1
<1>7. \A x \in P : f[x] = x[2]
  OBVIOUS
<1> HIDE DEF f, P, T
<1>8. IsFiniteSet(P) /\ Cardinality(P) = Cardinality(T)
  BY <1>3, <1>4, <1>5, <1>6, <1>7, PairedCount
<1> QED
  BY <1>5, <1>8 DEF P, T

LEMMA PersonsCount ==
  ASSUME NEW d, IsDelivery(d), IsSound(d), NEW records, records = BuildRecords(d)
  PROVE  /\ IsFiniteSet(PersonPlaces(records))
         /\ Cardinality(PersonPlaces(records)) = Cardinality(ParentedPersons(d))
         /\ \A x, y \in PersonPlaces(records) : x[3] = y[3] => x = y
<1> DEFINE P == ObjectPlaces(records)
           Q == PersonPlaces(records)
           T == ParentedPersons(d)
           f == [q \in Q |-> q[3]]
<1>1. /\ \A p \in P : /\ p = <<p[1], p[2]>> /\ p[1] \in DOMAIN d.unfall /\ p[2] \in DOMAIN d.objekt
                      /\ d.objekt[p[2]].parent = d.unfall[p[1]].key
      /\ \A q \in Q : /\ q = <<q[1], q[2], q[3]>> /\ <<q[1], q[2]>> \in P
                      /\ q[3] \in DOMAIN d.person /\ d.person[q[3]].parent = d.objekt[q[2]].key
      /\ \A i \in DOMAIN d.unfall, j \in DOMAIN d.objekt : d.objekt[j].parent = d.unfall[i].key => <<i, j>> \in P
      /\ \A i, j : <<i, j>> \in P =>
           \A k \in DOMAIN d.person : d.person[k].parent = d.objekt[j].key => <<i, j, k>> \in Q
  BY PlacesAre
<1>2. \A i \in DOMAIN d.unfall : d.unfall[i].key # Unset
  BY DEF IsDelivery, IsTable
<1>3. IsFiniteSet(T)
  <2>1. PICK n \in Nat : DOMAIN d.person = 1 .. n
    BY DEF IsDelivery, IsTable
  <2>2. IsFiniteSet(1 .. n) /\ T \subseteq 1 .. n
    BY <2>1, FS_Interval DEF ParentedPersons
  <2> HIDE DEF T
  <2> QED
    BY <2>2, FS_Subset
<1>4. ASSUME NEW q \in Q
      PROVE  /\ q[1] \in DOMAIN d.unfall /\ q[2] \in DOMAIN d.objekt
             /\ d.objekt[q[2]].parent = d.unfall[q[1]].key /\ q[3] \in T
  <2>1. PICK p \in P : p = <<q[1], q[2]>>
    BY <1>1
  <2>2. q[1] \in DOMAIN d.unfall /\ q[2] \in DOMAIN d.objekt /\ d.objekt[q[2]].parent = d.unfall[q[1]].key
    BY <1>1, <2>1
  <2>3. q[2] \in ParentedObjects(d)
    BY <1>2, <2>2 DEF ParentedObjects
  <2> QED
    BY <1>1, <2>2, <2>3 DEF ParentedPersons
<1>5. f \in [Q -> T]
  BY <1>4
<1>6. ASSUME NEW x \in Q, NEW y \in Q, x[3] = y[3]
      PROVE  x = y
  <2>1. x[2] = y[2]
    <3>1. d.objekt[x[2]].key = d.person[x[3]].parent /\ d.objekt[y[2]].key = d.person[y[3]].parent
      BY <1>1
    <3>2. x[2] \in DOMAIN d.objekt /\ y[2] \in DOMAIN d.objekt
      BY <1>4
    <3> QED
      BY <1>6, <3>1, <3>2 DEF IsSound, OneEach
  <2>2. x[1] = y[1]
    BY <1>4, <2>1 DEF IsSound, OneEach
  <2> QED
    BY <1>1, <1>6, <2>1, <2>2
<1>7. ASSUME NEW t \in T
      PROVE  \E x \in Q : x[3] = t
  <2>1. t \in DOMAIN d.person
    BY DEF ParentedPersons
  <2>2. PICK j \in ParentedObjects(d) : d.person[t].parent = d.objekt[j].key
    BY DEF ParentedPersons
  <2>3. j \in DOMAIN d.objekt /\ d.objekt[j].parent # Unset
    BY <2>2 DEF ParentedObjects
  <2>4. PICK i \in DOMAIN d.unfall : d.unfall[i].key = d.objekt[j].parent
    BY <2>3 DEF IsSound, HaveParents
  <2>5. <<i, j, t>> \in Q /\ <<i, j, t>>[3] = t
    BY <1>1, <2>1, <2>2, <2>3, <2>4
  <2> QED
    BY <2>5
<1>8. \A x \in Q : f[x] = x[3]
  OBVIOUS
<1> HIDE DEF f, Q, T
<1>9. IsFiniteSet(Q) /\ Cardinality(Q) = Cardinality(T)
  BY <1>3, <1>5, <1>6, <1>7, <1>8, PairedCount
<1> QED
  BY <1>6, <1>9 DEF Q, T

\* Where all cells are filled and differ, the census counts each once.
LEMMA CensusCounts ==
  ASSUME NEW cells, IsFiniteSet(DOMAIN cells), NEW n,
         \A p \in DOMAIN cells : cells[p] # Unset, \A p, q \in DOMAIN cells : cells[p] = cells[q] => p = q,
         NEW census, census = Census(cells, n)
  PROVE  census.populated = Cardinality(DOMAIN cells) /\ census.distinct = Cardinality(DOMAIN cells)
<1> DEFINE P == DOMAIN cells
           values == {cells[p] : p \in P}
           f == [v \in values |-> CHOOSE p \in P : cells[p] = v]
<1>1. {p \in DOMAIN cells : cells[p] # Unset} = P
  OBVIOUS
<1>2. census.populated = Cardinality(P) /\ census.distinct = Cardinality(values)
  BY <1>1 DEF Census
<1>3. \A v \in values : f[v] \in P /\ cells[f[v]] = v
  OBVIOUS
<1>4. f = [v \in values |-> f[v]] /\ \A p \in P : cells[p] \in values /\ f[cells[p]] = p
  BY <1>3
<1> HIDE DEF f, values, P
<1>5. f \in [values -> P]
  BY <1>3, <1>4
<1>6. \A x, y \in values : f[x] = f[y] => x = y
  BY <1>3
<1>7. \A p \in P : \E v \in values : f[v] = p
  BY <1>4
<1>8. Cardinality(values) = Cardinality(P)
  BY <1>5, <1>6, <1>7, PairedCount DEF P
<1> QED
  BY <1>2, <1>8 DEF P

\* What is found of an accident, among all that is found.
IsFoundOf(d, u, found) ==
  /\ Finding("COUNT_MISMATCH_OBJ", "unfall", u.key) \in found <=>
       ~(u.declared.objekt \subseteq {Cardinality(ObjectsOf(d, u.key))})
  /\ Finding("COUNT_MISMATCH_PERS", "unfall", u.key) \in found <=>
       ~(u.declared.person \subseteq {Cardinality(PersonsOf(d, u.key))})
  /\ d.hasText => (Finding("UNFALL_WITHOUT_TEXT", "unfall", u.key) \in found <=> u.key \notin RowKeys(d.text))

LEMMA FoundOf ==
  ASSUME NEW d, IsSound(d), NEW i \in DOMAIN d.unfall, NEW u, u = d.unfall[i]
  PROVE  IsFoundOf(d, u, ValidateDelivery(d))
<1> DEFINE Less(j) == ~(d.unfall[j].declared.objekt \subseteq {Cardinality(ObjectsOf(d, d.unfall[j].key))})
           Fewer(j) == ~(d.unfall[j].declared.person \subseteq {Cardinality(PersonsOf(d, d.unfall[j].key))})
           found(j) == (IF Less(j) THEN {Finding("COUNT_MISMATCH_OBJ", "unfall", d.unfall[j].key)} ELSE {})
                         \cup (IF Fewer(j) THEN {Finding("COUNT_MISMATCH_PERS", "unfall", d.unfall[j].key)} ELSE {})
<1>1. /\ \A f \in Unresolved(d) : f.code = "SET_UNRESOLVED"
      /\ \A rows, table : \A f \in DuplicateKeys(rows, table) : f.code = "DUP_KEY_CROSS_SET"
      /\ \A rows, table, parents : \A f \in Orphans(rows, table, parents) : f.code = "ORPHAN_FK"
      /\ \A f \in TextJoin(d) : f.code \in {"TEXT_KEY_UNMATCHED", "UNFALL_WITHOUT_TEXT"}
  BY DEF Unresolved, DuplicateKeys, Orphans, TextJoin, Finding, FileFinding
<1>2. CountMismatches(d) = UNION {found(j) : j \in DOMAIN d.unfall}
  BY Zenon DEF CountMismatches
<1>3. \A f \in CountMismatches(d) :
        \E j \in DOMAIN d.unfall :
          \/ Less(j) /\ f = Finding("COUNT_MISMATCH_OBJ", "unfall", d.unfall[j].key)
          \/ Fewer(j) /\ f = Finding("COUNT_MISMATCH_PERS", "unfall", d.unfall[j].key)
  <2> HIDE DEF Less, Fewer
  <2> QED
    BY <1>2
<1>4. /\ Less(i) => Finding("COUNT_MISMATCH_OBJ", "unfall", d.unfall[i].key) \in CountMismatches(d)
      /\ Fewer(i) => Finding("COUNT_MISMATCH_PERS", "unfall", d.unfall[i].key) \in CountMismatches(d)
  <2> HIDE DEF Less, Fewer
  <2>1. /\ Less(i) => Finding("COUNT_MISMATCH_OBJ", "unfall", d.unfall[i].key) \in found(i)
        /\ Fewer(i) => Finding("COUNT_MISMATCH_PERS", "unfall", d.unfall[i].key) \in found(i)
    OBVIOUS
  <2> HIDE DEF found
  <2>2. found(i) \subseteq CountMismatches(d)
    BY <1>2
  <2> QED
    BY <2>1, <2>2
<1>5. ASSUME NEW f, f.code \in {"COUNT_MISMATCH_OBJ", "COUNT_MISMATCH_PERS"}
      PROVE  f \in ValidateDelivery(d) <=> f \in CountMismatches(d)
  BY <1>1, <1>5 DEF ValidateDelivery
<1>6. ASSUME NEW f, f.code = "UNFALL_WITHOUT_TEXT"
      PROVE  f \in ValidateDelivery(d) <=> f \in TextJoin(d)
  <2>1. \A g \in CountMismatches(d) : g.code # "UNFALL_WITHOUT_TEXT"
    BY <1>3 DEF Finding
  <2> QED
    BY <1>1, <1>6, <2>1 DEF ValidateDelivery
<1>7. \A j \in DOMAIN d.unfall : d.unfall[j].key = u.key => j = i
  BY DEF IsSound, OneEach
<1>8. Finding("COUNT_MISMATCH_OBJ", "unfall", u.key) \in ValidateDelivery(d) <=> Less(i)
  <2>1. PICK f : f = Finding("COUNT_MISMATCH_OBJ", "unfall", u.key)
    OBVIOUS
  <2>2. f.code = "COUNT_MISMATCH_OBJ" /\ f.key = u.key
    BY <2>1 DEF Finding
  <2> HIDE DEF Less, Fewer
  <2>3. f \in CountMismatches(d) => Less(i)
    <3>1. SUFFICES ASSUME f \in CountMismatches(d) PROVE Less(i)
      OBVIOUS
    <3>2. PICK j \in DOMAIN d.unfall :
            \/ Less(j) /\ f = Finding("COUNT_MISMATCH_OBJ", "unfall", d.unfall[j].key)
            \/ Fewer(j) /\ f = Finding("COUNT_MISMATCH_PERS", "unfall", d.unfall[j].key)
      BY <1>3, <3>1
    <3>3. Less(j) /\ d.unfall[j].key = u.key
      BY <2>2, <3>2 DEF Finding
    <3> QED
      BY <1>7, <3>3
  <2> QED
    BY <1>4, <1>5, <2>1, <2>2, <2>3
<1>9. Finding("COUNT_MISMATCH_PERS", "unfall", u.key) \in ValidateDelivery(d) <=> Fewer(i)
  <2>1. PICK f : f = Finding("COUNT_MISMATCH_PERS", "unfall", u.key)
    OBVIOUS
  <2>2. f.code = "COUNT_MISMATCH_PERS" /\ f.key = u.key
    BY <2>1 DEF Finding
  <2> HIDE DEF Less, Fewer
  <2>3. f \in CountMismatches(d) => Fewer(i)
    <3>1. SUFFICES ASSUME f \in CountMismatches(d) PROVE Fewer(i)
      OBVIOUS
    <3>2. PICK j \in DOMAIN d.unfall :
            \/ Less(j) /\ f = Finding("COUNT_MISMATCH_OBJ", "unfall", d.unfall[j].key)
            \/ Fewer(j) /\ f = Finding("COUNT_MISMATCH_PERS", "unfall", d.unfall[j].key)
      BY <1>3, <3>1
    <3>3. Fewer(j) /\ d.unfall[j].key = u.key
      BY <2>2, <3>2 DEF Finding
    <3> QED
      BY <1>7, <3>3
  <2> QED
    BY <1>4, <1>5, <2>1, <2>2, <2>3
<1>10. d.hasText =>
         (Finding("UNFALL_WITHOUT_TEXT", "unfall", u.key) \in ValidateDelivery(d) <=> u.key \notin RowKeys(d.text))
  <2>1. SUFFICES ASSUME d.hasText
                 PROVE  Finding("UNFALL_WITHOUT_TEXT", "unfall", u.key) \in ValidateDelivery(d) <=> u.key \notin RowKeys(d.text)
    OBVIOUS
  <2>2. PICK f : f = Finding("UNFALL_WITHOUT_TEXT", "unfall", u.key)
    OBVIOUS
  <2>3. f.code = "UNFALL_WITHOUT_TEXT" /\ f.key = u.key
    BY <2>2 DEF Finding
  <2>4. TextJoin(d) = {Finding("TEXT_KEY_UNMATCHED", "text", k) : k \in RowKeys(d.text) \ RowKeys(d.unfall)}
                        \cup {Finding("UNFALL_WITHOUT_TEXT", "unfall", k) : k \in RowKeys(d.unfall) \ RowKeys(d.text)}
    <3>1. d.unfall # <<>>
      OBVIOUS
    <3> QED
      BY <2>1, <3>1 DEF TextJoin
  <2>5. f \in TextJoin(d) => u.key \notin RowKeys(d.text)
    BY <2>3, <2>4 DEF Finding
  <2>6. u.key \in RowKeys(d.unfall)
    BY DEF RowKeys
  <2>7. u.key \notin RowKeys(d.text) => f \in TextJoin(d)
    BY <2>2, <2>4, <2>6
  <2> QED
    BY <1>6, <2>2, <2>3, <2>5, <2>7
<1> QED
  BY <1>8, <1>9, <1>10 DEF IsFoundOf

\* An accident's persons are those of the objects that name it.
LEMMA PersonsAreOfObjects ==
  ASSUME NEW d, IsDelivery(d), IsSound(d), NEW u, u # Unset
  PROVE  PersonsOf(d, u) = {k \in DOMAIN d.person : \E j \in DOMAIN d.objekt :
                              d.objekt[j].parent = u /\ d.person[k].parent = d.objekt[j].key}
<1>1. ASSUME NEW j \in DOMAIN d.objekt, d.objekt[j].parent = u
      PROVE  AccidentOf(d, d.objekt[j].key) = {u}
  <2> DEFINE last == {i \in DOMAIN d.objekt :
                        /\ d.objekt[i].key = d.objekt[j].key /\ d.objekt[i].parent # Unset
                        /\ \A k \in DOMAIN d.objekt :
                             d.objekt[k].key = d.objekt[j].key /\ d.objekt[k].parent # Unset => k <= i}
  <2>1. \A i \in DOMAIN d.objekt : d.objekt[i].key = d.objekt[j].key => i = j
    BY DEF IsSound, OneEach
  <2>2. j <= j
    BY DEF IsDelivery, IsTable
  <2>3. last = {j}
    BY <1>1, <2>1, <2>2
  <2>4. AccidentOf(d, d.objekt[j].key) = {d.objekt[i].parent : i \in last}
    BY Zenon DEF AccidentOf
  <2> HIDE DEF last
  <2> QED
    BY <1>1, <2>3, <2>4
<1>2. ASSUME NEW o, AccidentOf(d, o) = {u}
      PROVE  \E j \in DOMAIN d.objekt : d.objekt[j].parent = u /\ d.objekt[j].key = o
  <2>1. u \in AccidentOf(d, o)
    BY <1>2
  <2> QED
    BY <2>1 DEF AccidentOf
<1>3. ASSUME NEW k \in DOMAIN d.person, NEW j \in DOMAIN d.objekt, d.objekt[j].parent = u,
             d.person[k].parent = d.objekt[j].key
      PROVE  k \in PersonsOf(d, u)
  BY <1>1, <1>3 DEF PersonsOf
<1>4. ASSUME NEW k \in PersonsOf(d, u)
      PROVE  /\ k \in DOMAIN d.person
             /\ \E j \in DOMAIN d.objekt : d.objekt[j].parent = u /\ d.person[k].parent = d.objekt[j].key
  <2>1. k \in DOMAIN d.person /\ AccidentOf(d, d.person[k].parent) = {u}
    BY DEF PersonsOf
  <2> QED
    BY <1>2, <2>1
<1> QED
  BY <1>3, <1>4

\* What the property says of an answer.
ObjectsAttached(d, records) ==
  \A j \in ParentedObjects(d) : \E i \in DOMAIN records :
    /\ records[i].key = d.objekt[j].parent
    /\ j \in DOMAIN records[i].objekt /\ records[i].objekt[j].key = d.objekt[j].key

PersonsAttached(d, records) ==
  \A k \in ParentedPersons(d) : \E i \in DOMAIN records : \E j \in DOMAIN records[i].objekt :
    LET o == records[i].objekt[j] IN
    o.key = d.person[k].parent /\ k \in DOMAIN o.persons /\ o.persons[k] = d.person[k].key

IsCensusOf(d, census) ==
  \A t \in DOMAIN census :
    /\ census[t].populated = census[t].distinct
    /\ census[t].populated =
         CASE t = "unfall" -> Len(d.unfall)
           [] t = "objekt" -> Cardinality(ParentedObjects(d)) [] t = "person" -> Cardinality(ParentedPersons(d))

IsReported(d, r, declared, report) ==
  /\ Finding("COUNT_MISMATCH_OBJ", "unfall", r.key) \in report <=>
       ~(declared.objekt \subseteq {Cardinality(DOMAIN r.objekt)})
  /\ Finding("COUNT_MISMATCH_PERS", "unfall", r.key) \in report <=>
       ~(declared.person \subseteq {Cardinality(UNION {DOMAIN r.objekt[j].persons : j \in DOMAIN r.objekt})})
  /\ d.hasText => (Finding("UNFALL_WITHOUT_TEXT", "unfall", r.key) \in report <=> r.key \notin RowKeys(d.text))

Attached(d, records, census, report) ==
  /\ Len(records) = Len(d.unfall)
  /\ \A i \in DOMAIN records : records[i].key = d.unfall[i].key
  /\ ObjectsAttached(d, records) /\ PersonsAttached(d, records) /\ IsCensusOf(d, census)
  /\ \A i \in DOMAIN records : IsReported(d, records[i], d.unfall[i].declared, report)

LEMMA AttachedSays ==
  EveryRowIsAttached <=>
    (Answered("freezes") /\ answer.frozen => Attached(question, answer.records, answer.census, answer.report))
BY Zenon DEF EveryRowIsAttached, Attached, ObjectsAttached, PersonsAttached, IsCensusOf, IsReported,
             ParentedObjects, ParentedPersons

\* The census of a corpus counts its records, its objects and its persons.
LEMMA CensusIsOfRows ==
  ASSUME NEW d, IsDelivery(d), IsSound(d), NEW records, records = BuildRecords(d), NEW n
  PROVE  /\ LET c == Census(KeyCells(records, "unfall"), n) IN
              c.populated = Len(d.unfall) /\ c.distinct = Len(d.unfall)
         /\ LET c == Census(KeyCells(records, "objekt"), n) IN
              c.populated = Cardinality(ParentedObjects(d)) /\ c.distinct = Cardinality(ParentedObjects(d))
         /\ LET c == Census(KeyCells(records, "person"), n) IN
              c.populated = Cardinality(ParentedPersons(d)) /\ c.distinct = Cardinality(ParentedPersons(d))
<1> DEFINE P == ObjectPlaces(records)
           Q == PersonPlaces(records)
<1>1. /\ \A i \in DOMAIN d.unfall : d.unfall[i].key # Unset
      /\ \A j \in DOMAIN d.objekt : d.objekt[j].key # Unset
      /\ \A k \in DOMAIN d.person : d.person[k].key # Unset
  BY DEF IsDelivery, IsTable
<1>2. /\ DOMAIN records = DOMAIN d.unfall
      /\ \A i \in DOMAIN records : records[i].key = d.unfall[i].key
      /\ \A i \in DOMAIN records :
           DOMAIN records[i].objekt = {j \in DOMAIN d.objekt : d.objekt[j].parent = d.unfall[i].key}
      /\ \A i \in DOMAIN records : \A j \in DOMAIN records[i].objekt :
           /\ records[i].objekt[j].key = d.objekt[j].key
           /\ DOMAIN records[i].objekt[j].persons = {k \in DOMAIN d.person : d.person[k].parent = d.objekt[j].key}
           /\ \A k \in DOMAIN records[i].objekt[j].persons : records[i].objekt[j].persons[k] = d.person[k].key
  BY RecordsAre DEF AreBuilt
<1>3. Census(KeyCells(records, "unfall"), n).populated = Len(d.unfall)
        /\ Census(KeyCells(records, "unfall"), n).distinct = Len(d.unfall)
  <2>1. PICK cells : cells = KeyCells(records, "unfall")
    OBVIOUS
  <2>2. DOMAIN cells = DOMAIN d.unfall /\ \A i \in DOMAIN cells : cells[i] = d.unfall[i].key
    BY <1>2, <2>1 DEF KeyCells
  <2>3. PICK m \in Nat : DOMAIN d.unfall = 1 .. m /\ Len(d.unfall) = m
    BY DEF IsDelivery, IsTable
  <2>4. IsFiniteSet(DOMAIN cells) /\ Cardinality(DOMAIN cells) = m
    BY <2>2, <2>3, FS_Interval
  <2>5. /\ \A i \in DOMAIN cells : cells[i] # Unset
        /\ \A i, j \in DOMAIN cells : cells[i] = cells[j] => i = j
    BY <1>1, <2>2 DEF IsSound, OneEach
  <2>6. PICK census : census = Census(cells, n)
    OBVIOUS
  <2>7. census.populated = m /\ census.distinct = m
    BY <2>4, <2>5, <2>6, CensusCounts
  <2> QED
    BY <2>1, <2>3, <2>6, <2>7
<1>4. Census(KeyCells(records, "objekt"), n).populated = Cardinality(ParentedObjects(d))
        /\ Census(KeyCells(records, "objekt"), n).distinct = Cardinality(ParentedObjects(d))
  <2>1. PICK cells : cells = KeyCells(records, "objekt")
    OBVIOUS
  <2>2. /\ \A p \in P : p[1] \in DOMAIN d.unfall /\ p[2] \in DOMAIN d.objekt /\ d.objekt[p[2]].parent = d.unfall[p[1]].key
        /\ IsFiniteSet(P) /\ Cardinality(P) = Cardinality(ParentedObjects(d))
        /\ \A x, y \in P : x[2] = y[2] => x = y
    BY PlacesAre, ObjectsCount
  <2>3. cells = [p \in P |-> records[p[1]].objekt[p[2]].key]
    BY <2>1 DEF KeyCells
  <2>4. ASSUME NEW p \in P
        PROVE  cells[p] = d.objekt[p[2]].key /\ p[2] \in DOMAIN d.objekt
    <3>1. p[1] \in DOMAIN records /\ p[2] \in DOMAIN records[p[1]].objekt
      BY <1>2, <2>2
    <3> QED
      BY <1>2, <2>2, <2>3, <3>1
  <2>5. DOMAIN cells = P
    BY <2>3
  <2>6. /\ \A p \in DOMAIN cells : cells[p] # Unset
        /\ \A p, q \in DOMAIN cells : cells[p] = cells[q] => p = q
    BY <1>1, <2>2, <2>4, <2>5 DEF IsSound, OneEach
  <2>7. PICK census : census = Census(cells, n)
    OBVIOUS
  <2> HIDE DEF P
  <2>8. census.populated = Cardinality(P) /\ census.distinct = Cardinality(P)
    BY <2>2, <2>5, <2>6, <2>7, CensusCounts
  <2> QED
    BY <2>1, <2>2, <2>7, <2>8
<1>5. Census(KeyCells(records, "person"), n).populated = Cardinality(ParentedPersons(d))
        /\ Census(KeyCells(records, "person"), n).distinct = Cardinality(ParentedPersons(d))
  <2>1. PICK cells : cells = KeyCells(records, "person")
    OBVIOUS
  <2>2. /\ \A p \in P : p[1] \in DOMAIN d.unfall /\ p[2] \in DOMAIN d.objekt /\ d.objekt[p[2]].parent = d.unfall[p[1]].key
        /\ \A q \in Q : /\ <<q[1], q[2]>> \in P
                        /\ q[3] \in DOMAIN d.person /\ d.person[q[3]].parent = d.objekt[q[2]].key
        /\ IsFiniteSet(Q) /\ Cardinality(Q) = Cardinality(ParentedPersons(d))
        /\ \A x, y \in Q : x[3] = y[3] => x = y
    BY PlacesAre, PersonsCount
  <2>3. cells = [q \in Q |-> records[q[1]].objekt[q[2]].persons[q[3]]]
    BY <2>1 DEF KeyCells
  <2>4. ASSUME NEW q \in Q
        PROVE  cells[q] = d.person[q[3]].key /\ q[3] \in DOMAIN d.person
    <3>1. PICK p \in P : p = <<q[1], q[2]>>
      BY <2>2
    <3>2. /\ q[1] \in DOMAIN d.unfall /\ q[2] \in DOMAIN d.objekt /\ d.objekt[q[2]].parent = d.unfall[q[1]].key
          /\ q[3] \in DOMAIN d.person /\ d.person[q[3]].parent = d.objekt[q[2]].key
      BY <2>2, <3>1
    <3>3. q[1] \in DOMAIN records /\ q[2] \in DOMAIN records[q[1]].objekt
      BY <1>2, <3>2
    <3>4. q[3] \in DOMAIN records[q[1]].objekt[q[2]].persons
      BY <1>2, <3>2, <3>3
    <3> QED
      BY <1>2, <2>3, <3>2, <3>3, <3>4
  <2>5. DOMAIN cells = Q
    BY <2>3
  <2>6. /\ \A p \in DOMAIN cells : cells[p] # Unset
        /\ \A p, q \in DOMAIN cells : cells[p] = cells[q] => p = q
    BY <1>1, <2>2, <2>4, <2>5 DEF IsSound, OneEach
  <2>7. PICK census : census = Census(cells, n)
    OBVIOUS
  <2> HIDE DEF Q
  <2>8. census.populated = Cardinality(Q) /\ census.distinct = Cardinality(Q)
    BY <2>2, <2>5, <2>6, <2>7, CensusCounts
  <2> QED
    BY <2>1, <2>2, <2>7, <2>8
<1> QED
  BY <1>3, <1>4, <1>5

\* What is frozen is sound, and what is answered then.
LEMMA FrozenIs ==
  ASSUME NEW d, NEW a, a = FreezeDelivery(d), a.frozen, NEW records, records = BuildRecords(d)
  PROVE  /\ IsSound(d) /\ a.report = ValidateDelivery(d) /\ a.records = records
         /\ a.census = [t \in {"unfall", "objekt", "person"} |-> Census(KeyCells(records, t), Len(records))]
<1>1. PICK found : found = ValidateDelivery(d)
  OBVIOUS
<1>2. a = IF \E f \in found : f.code \in Blocking
            THEN [frozen |-> FALSE, report |-> found, records |-> <<>>, census |-> <<>>]
            ELSE [frozen |-> TRUE, report |-> found, records |-> records,
                  census |-> [t \in {"unfall", "objekt", "person"} |-> Census(KeyCells(records, t), Len(records))]]
  BY <1>1, Zenon DEF FreezeDelivery
<1>3. \A f \in found : f.code \notin Blocking
  BY <1>2
<1>4. IsSound(d)
  BY <1>1, <1>3, FrozenIsSound
<1>5. a = [frozen |-> TRUE, report |-> found, records |-> records,
           census |-> [t \in {"unfall", "objekt", "person"} |-> Census(KeyCells(records, t), Len(records))]]
  BY <1>2, <1>3
<1> QED
  BY <1>1, <1>4, <1>5

LEMMA FrozenIsAttached ==
  ASSUME NEW d, IsDelivery(d), NEW a, a = FreezeDelivery(d), a.frozen
  PROVE  Attached(d, a.records, a.census, a.report)
<1>1. PICK records, census, report : records = BuildRecords(d) /\ census = a.census /\ report = a.report
  OBVIOUS
<1>2. /\ IsSound(d) /\ report = ValidateDelivery(d) /\ a.records = records /\ records = BuildRecords(d)
      /\ census = [t \in {"unfall", "objekt", "person"} |-> Census(KeyCells(records, t), Len(records))]
  BY <1>1, FrozenIs
<1>3. /\ \A i \in DOMAIN d.unfall : d.unfall[i].key # Unset
      /\ \E n \in Nat : DOMAIN d.unfall = 1 .. n /\ Len(d.unfall) = n
  BY DEF IsDelivery, IsTable
<1>4. /\ DOMAIN records = DOMAIN d.unfall
      /\ \A i \in DOMAIN records :
           /\ records[i].key = d.unfall[i].key
           /\ DOMAIN records[i].objekt = {j \in DOMAIN d.objekt : d.objekt[j].parent = d.unfall[i].key}
      /\ \A i \in DOMAIN records : \A j \in DOMAIN records[i].objekt :
           /\ records[i].objekt[j].key = d.objekt[j].key
           /\ DOMAIN records[i].objekt[j].persons = {k \in DOMAIN d.person : d.person[k].parent = d.objekt[j].key}
           /\ \A k \in DOMAIN records[i].objekt[j].persons : records[i].objekt[j].persons[k] = d.person[k].key
  <2>1. AreBuilt(d, records)
    BY <1>2, RecordsAre
  <2> QED
    BY <2>1 DEF AreBuilt
<1>5. Len(records) = Len(d.unfall)
  <2>1. PICK n \in Nat : DOMAIN d.unfall = 1 .. n /\ Len(d.unfall) = n
    BY <1>3
  <2>2. records = [i \in 1 .. n |-> records[i]]
    BY <1>2, <1>4, <2>1 DEF BuildRecords
  <2> QED
    BY <2>1, <2>2
<1>6. ASSUME NEW j \in ParentedObjects(d)
      PROVE  \E i \in DOMAIN records :
               /\ records[i].key = d.objekt[j].parent
               /\ j \in DOMAIN records[i].objekt /\ records[i].objekt[j].key = d.objekt[j].key
  <2>1. j \in DOMAIN d.objekt /\ d.objekt[j].parent # Unset
    BY DEF ParentedObjects
  <2>2. PICK i \in DOMAIN d.unfall : d.unfall[i].key = d.objekt[j].parent
    BY <1>2, <2>1 DEF IsSound, HaveParents
  <2> QED
    BY <1>4, <2>1, <2>2
<1>7. ASSUME NEW k \in ParentedPersons(d)
      PROVE  \E i \in DOMAIN records : \E j \in DOMAIN records[i].objekt :
               LET o == records[i].objekt[j] IN
               o.key = d.person[k].parent /\ k \in DOMAIN o.persons /\ o.persons[k] = d.person[k].key
  <2>1. PICK j \in ParentedObjects(d) : k \in DOMAIN d.person /\ d.person[k].parent = d.objekt[j].key
    BY DEF ParentedPersons
  <2>2. PICK i \in DOMAIN records : j \in DOMAIN records[i].objekt /\ records[i].objekt[j].key = d.objekt[j].key
    BY <1>6
  <2>3. k \in DOMAIN records[i].objekt[j].persons
    BY <1>4, <2>1, <2>2
  <2>4. records[i].objekt[j].persons[k] = d.person[k].key
    BY <1>4, <2>2, <2>3
  <2> QED
    BY <2>1, <2>2, <2>3, <2>4
<1>8. IsCensusOf(d, census)
  <2> SUFFICES ASSUME NEW t \in DOMAIN census
               PROVE  /\ census[t].populated = census[t].distinct
                      /\ census[t].populated =
                           CASE t = "unfall" -> Len(d.unfall)
                             [] t = "objekt" -> Cardinality(ParentedObjects(d))
                             [] t = "person" -> Cardinality(ParentedPersons(d))
    BY Zenon DEF IsCensusOf
  <2>1. t \in {"unfall", "objekt", "person"} /\ census[t] = Census(KeyCells(records, t), Len(records))
    BY <1>2
  <2>2. PICK n, c : n = Len(records) /\ c = census[t]
    OBVIOUS
  <2>3. /\ t = "unfall" => c.populated = Len(d.unfall) /\ c.distinct = Len(d.unfall)
        /\ t = "objekt" => c.populated = Cardinality(ParentedObjects(d)) /\ c.distinct = Cardinality(ParentedObjects(d))
        /\ t = "person" => c.populated = Cardinality(ParentedPersons(d)) /\ c.distinct = Cardinality(ParentedPersons(d))
    BY <1>2, <2>1, <2>2, CensusIsOfRows
  <2> QED
    BY <2>1, <2>2, <2>3
<1>9. ASSUME NEW i \in DOMAIN records
      PROVE  IsReported(d, records[i], d.unfall[i].declared, report)
  <2>1. PICK u, r, objects : u = d.unfall[i] /\ r = records[i] /\ objects = r.objekt
    OBVIOUS
  <2>2. i \in DOMAIN d.unfall /\ r.key = u.key /\ u.key # Unset
    BY <1>3, <1>4, <2>1
  <2>3. DOMAIN objects = ObjectsOf(d, u.key)
    BY <1>4, <2>1 DEF ObjectsOf
  <2>4. UNION {DOMAIN objects[j].persons : j \in DOMAIN objects} = PersonsOf(d, u.key)
    <3>1. PersonsOf(d, u.key) = {k \in DOMAIN d.person : \E j \in DOMAIN d.objekt :
                                   d.objekt[j].parent = u.key /\ d.person[k].parent = d.objekt[j].key}
      BY <1>2, <2>2, PersonsAreOfObjects
    <3>2. /\ DOMAIN objects = {j \in DOMAIN d.objekt : d.objekt[j].parent = u.key}
          /\ \A j \in DOMAIN objects :
               DOMAIN objects[j].persons = {k \in DOMAIN d.person : d.person[k].parent = d.objekt[j].key}
      BY <1>4, <2>1
    <3>3. UNION {DOMAIN objects[j].persons : j \in DOMAIN objects} =
            {k \in DOMAIN d.person : \E j \in DOMAIN d.objekt :
               d.objekt[j].parent = u.key /\ d.person[k].parent = d.objekt[j].key}
      BY <3>2
    <3> QED
      BY <3>1, <3>3
  <2>5. IsFoundOf(d, u, report)
    BY <1>2, <2>1, <2>2, FoundOf
  <2>6. IsReported(d, r, u.declared, report)
    <3>1. DOMAIN r.objekt = ObjectsOf(d, u.key)
      BY <2>1, <2>3
    <3>2. UNION {DOMAIN r.objekt[j].persons : j \in DOMAIN r.objekt} = PersonsOf(d, u.key)
      BY <2>1, <2>4
    <3>3. PICK key : key = r.key /\ key = u.key
      BY <2>2
    <3> QED
      BY <2>5, <3>1, <3>2, <3>3 DEF IsReported, IsFoundOf
  <2> QED
    BY <2>1, <2>6
<1> QED
  BY <1>1, <1>2, <1>4, <1>5, <1>6, <1>7, <1>8, <1>9 DEF Attached, ObjectsAttached, PersonsAttached

LEMMA TableShape ==
  ASSUME NEW n, n \in Nat, NEW S, \A r \in S : r.key # Unset, NEW rows, rows \in UpTo(n, S)
  PROVE  IsTable(rows)
<1>1. PICK m \in 0 .. n : rows \in [1 .. m -> S]
  BY DEF UpTo
<1>2. Len(rows) = m /\ DOMAIN rows = 1 .. m
  BY <1>1
<1> QED
  BY <1>1, <1>2 DEF IsTable

LEMMA DeliveryShape ==
  ASSUME question \in FreezeQuestion
  PROVE  IsDelivery(question)
<1>1. MaxTable \in Nat
  BY RulesAssumption
<1>2. IsTable(<<>>)
  BY DEF IsTable
<1>3. ASSUME NEW keys, Unset \notin keys, NEW parents, NEW files, NEW rows, rows \in Referring(keys, parents, files)
      PROVE  IsTable(rows)
  <2>1. PICK S : S = [key : keys, parent : parents \cup {Unset}, file : files]
    OBVIOUS
  <2>2. rows \in UpTo(MaxTable, S)
    BY <1>3, <2>1 DEF Referring
  <2>3. \A r \in S : r.key # Unset
    BY <1>3, <2>1
  <2> QED
    BY <1>1, <2>2, <2>3, TableShape
<1>4. ASSUME NEW declared, NEW stories, NEW rows, rows \in Accidents(declared, stories)
      PROVE  IsTable(rows)
  <2>1. PICK S : S = [key : {"u1", "u2"}, file : {1, 2}, declared : declared, anonymised : stories]
    OBVIOUS
  <2>2. rows \in UpTo(MaxTable, S)
    BY <1>4, <2>1 DEF Accidents
  <2>3. \A r \in S : r.key # Unset
    BY <2>1 DEF Unset
  <2> QED
    BY <1>1, <2>2, <2>3, TableShape
<1>5. PICK A, B, C, D, E :
        /\ A = Accidents([objekt : {{}, {1}}, person : {{1}}], {Unset})
        /\ B = {rows \in Referring({"o1", "o2"}, {"u1", "u2"}, {1, 2}) : FirstIsFirst(rows, "o1")}
        /\ C = {rows \in Referring({"p1", "p2"}, {"o1", "o2"}, {1}) : FirstIsFirst(rows, "p1")}
        /\ D = Accidents([objekt : {{}}, person : {{}}], {"c", Unset})
        /\ E = UpTo(MaxTable, [key : {"u1", "u2"}, story : {"a", "b", Unset}])
  OBVIOUS
<1>6. \/ question \in [of : {"freezes"}, unfall : A, objekt : B, person : C, text : {<<>>}, hasText : {FALSE}]
      \/ question \in [of : {"freezes"}, unfall : D, objekt : {<<>>}, person : {<<>>}, text : E, hasText : {TRUE}]
  BY <1>5, Zenon DEF FreezeQuestion
<1>7. /\ \A rows \in A : IsTable(rows)
      /\ \A rows \in D : IsTable(rows)
  BY <1>4, <1>5
<1>8. \A rows \in B : IsTable(rows)
  <2>1. Unset \notin {"o1", "o2"}
    BY DEF Unset
  <2> QED
    BY <1>3, <1>5, <2>1
<1>9. \A rows \in C : IsTable(rows)
  <2>1. Unset \notin {"p1", "p2"}
    BY DEF Unset
  <2> QED
    BY <1>3, <1>5, <2>1
<1>10. /\ question.unfall \in A \cup D
       /\ question.objekt \in B \cup {<<>>} /\ question.person \in C \cup {<<>>}
  BY <1>6
<1> QED
  BY <1>2, <1>7, <1>8, <1>9, <1>10 DEF IsDelivery

\* However many rows the tables of a delivery have: what may be frozen is a
\* record for each accident, with each object that names it, with each person of
\* these; the census counts each once, and what an accident declares otherwise,
\* or has no narrative for, is reported.
THEOREM RowsHold == Spec => []EveryRowIsAttached
<1> DEFINE Whole == Answered("freezes") /\ answer.frozen => Attached(question, answer.records, answer.census, answer.report)
<1>1. Init => Whole
  BY DEF Init, Answered
<1>2. Asked /\ Whole /\ [Next]_ruleVars => Whole'
  <2> SUFFICES ASSUME Asked, Whole, [Next]_ruleVars, question'.of = "freezes", answer' # answer, answer'.frozen
               PROVE  Attached(question', answer'.records, answer'.census, answer'.report)
    BY OneRuleAnswers DEF Answered
  <2>1. question' = question /\ question \in FreezeQuestion /\ Freezes
    BY OneRuleAnswers, KindOfQuestion
  <2>2. answer' = FreezeDelivery(question)
    BY <2>1 DEF Freezes, Answers
  <2> QED
    BY <2>1, <2>2, DeliveryShape, FrozenIsAttached
<1>3. Whole <=> EveryRowIsAttached
  BY AttachedSays
<1> QED
  BY <1>1, <1>2, <1>3, QuestionStands, PTL DEF Spec
-----------------------------------------------------------------------------
(* What is replaced in a narrative.                                        *)

\* From left to right: what is taken is apart, and what is not taken starts in
\* something taken.
LeftToRight(last, taken) ==
  /\ taken \subseteq DOMAIN last
  /\ \A i, j \in taken : i < j => last[i] < j
  /\ \A i \in DOMAIN last : \E t \in taken : t <= i /\ i <= last[t]

ReachNext(last, k, r) == IF k \in DOMAIN last /\ r < k THEN last[k] ELSE r

\* How far reaches what is taken up to a word.
Reaches(last, taken, m, r) ==
  /\ r \in Nat
  /\ \A i \in taken : i <= m => last[i] <= r
  /\ r = 0 \/ \E t \in taken : t <= m /\ last[t] = r

LEMMA ReachGrows ==
  ASSUME NEW m \in Nat, NEW last, DOMAIN last \subseteq Nat, \A i \in DOMAIN last : last[i] \in Nat,
         NEW taken, taken \subseteq DOMAIN last, NEW r, Reaches(last, taken, m, r), NEW s, s = ReachNext(last, m + 1, r),
         m + 1 \in taken <=> m + 1 \in DOMAIN last /\ r < m + 1,
         \A i \in DOMAIN last : i <= last[i]
  PROVE  Reaches(last, taken, m + 1, s)
<1>1. CASE m + 1 \in taken
  <2>1. s = last[m + 1] /\ s \in Nat /\ r \in Nat /\ r < s
    BY <1>1 DEF ReachNext, Reaches
  <2>2. \A i \in taken : i <= m + 1 => last[i] <= s
    <3> SUFFICES ASSUME NEW i \in taken, i <= m + 1, i # m + 1 PROVE last[i] <= s
      BY <2>1
    <3>1. i \in Nat /\ i <= m /\ last[i] \in Nat
      OBVIOUS
    <3>2. last[i] <= r
      BY <3>1 DEF Reaches
    <3> QED
      BY <2>1, <3>1, <3>2
  <2> QED
    BY <1>1, <2>1, <2>2 DEF Reaches
<1>2. CASE m + 1 \notin taken
  <2>1. s = r
    BY <1>2 DEF ReachNext
  <2>2. \A i \in taken : i \in Nat /\ i # m + 1
    BY <1>2
  <2>3. \A i \in taken : i <= m + 1 => i <= m
    BY <2>2
  <2> QED
    BY <2>1, <2>2, <2>3 DEF Reaches
<1> QED
  BY <1>1, <1>2

LEMMA TakenIsLeftToRight ==
  ASSUME NEW n \in Nat, NEW last, DOMAIN last \subseteq 1 .. n,
         \A i \in DOMAIN last : last[i] \in Nat /\ i <= last[i]
  PROVE  LeftToRight(last, Taken(n, last))
<1> DEFINE Follows(f) == f = [k \in 0 .. n |-> IF k = 0 THEN 0 ELSE ReachNext(last, k, f[k - 1])]
<1>1. Taken(n, last) = {i \in DOMAIN last : (CHOOSE f : Follows(f))[i - 1] < i}
  BY Zenon DEF Taken, ReachNext
<1>2. PICK f : Follows(f)
  <2> DEFINE step == [s \in (1 .. n) \X Nat |-> ReachNext(last, s[1], s[2])]
  <2>1. step \in [(1 .. n) \X Nat -> Nat]
    BY DEF ReachNext
  <2>2. \A s \in (1 .. n) \X Nat : step[s] = ReachNext(last, s[1], s[2])
    OBVIOUS
  <2> HIDE DEF step
  <2>3. \E f \in [0 .. n -> Nat] : Steps(f, n, 0, step)
    BY <2>1, StepsExist
  <2>4. PICK f \in [0 .. n -> Nat] : f[0] = 0 /\ \A k \in 1 .. n : f[k] = step[<<k, f[k - 1]>>]
    BY <2>3 DEF Steps
  <2>5. \A k \in 1 .. n : f[k] = ReachNext(last, k, f[k - 1])
    <3> TAKE k \in 1 .. n
    <3>1. k - 1 \in 0 .. n
      OBVIOUS
    <3>2. <<k, f[k - 1]>> \in (1 .. n) \X Nat
      BY <3>1
    <3> QED
      BY <2>2, <2>4, <3>2
  <2>6. f = [k \in 0 .. n |-> IF k = 0 THEN 0 ELSE ReachNext(last, k, f[k - 1])]
    BY <2>4, <2>5
  <2> QED
    BY <2>6
<1>3. PICK g : g = (CHOOSE x : Follows(x))
  OBVIOUS
<1>4. Follows(g)
  BY <1>2, <1>3
<1>5. PICK taken : taken = {i \in DOMAIN last : g[i - 1] < i}
  OBVIOUS
<1>6. Taken(n, last) = taken
  BY <1>1, <1>3, <1>5
<1>7. g[0] = 0 /\ \A k \in 0 .. n - 1 : g[k + 1] = ReachNext(last, k + 1, g[k])
  <2>1. 0 \in 0 .. n /\ \A k \in 0 .. n - 1 : k + 1 \in 0 .. n /\ k + 1 # 0 /\ (k + 1) - 1 = k
    OBVIOUS
  <2> QED
    BY <1>4, <2>1
<1>8. \A m \in 0 .. n : Reaches(last, taken, m, g[m])
  <2> DEFINE S == {m \in 0 .. n : Reaches(last, taken, m, g[m])}
  <2>1. 0 \in S
    <3>1. \A i \in taken : i \in Nat /\ ~(i <= 0)
      BY <1>5
    <3>2. Reaches(last, taken, 0, g[0])
      BY <1>7, <3>1 DEF Reaches
    <3> QED
      BY <3>2
  <2>2. ASSUME NEW m \in 0 .. n - 1, m \in S
        PROVE  m + 1 \in S
    <3>1. m \in Nat /\ m + 1 \in 0 .. n /\ (m + 1) - 1 = m
      OBVIOUS
    <3>2. m + 1 \in taken <=> m + 1 \in DOMAIN last /\ g[m] < m + 1
      BY <1>5, <3>1
    <3>3. PICK r, s : r = g[m] /\ s = g[m + 1]
      OBVIOUS
    <3>4. taken \subseteq DOMAIN last /\ DOMAIN last \subseteq Nat
      BY <1>5
    <3>5. Reaches(last, taken, m, r) /\ s = ReachNext(last, m + 1, r)
      BY <1>7, <2>2, <3>3
    <3>6. Reaches(last, taken, m + 1, s)
      BY <3>1, <3>2, <3>3, <3>4, <3>5, ReachGrows
    <3> QED
      BY <3>1, <3>3, <3>6
  <2>3. \A m \in 0 .. n - 1 : m \in S => m + 1 \in S
    BY <2>2
  <2> HIDE DEF S
  <2>4. 0 .. n \subseteq S
    BY <2>1, <2>3, RangeInduction
  <2> QED
    BY <2>4 DEF S
<1>9. ASSUME NEW i \in taken, NEW j \in taken, i < j
      PROVE  last[i] < j
  <2>1. i \in 1 .. n /\ j \in 1 .. n /\ last[i] \in Nat /\ g[j - 1] < j
    BY <1>5
  <2>2. j - 1 \in 0 .. n /\ i <= j - 1
    BY <1>9, <2>1
  <2>3. g[j - 1] \in Nat /\ last[i] <= g[j - 1]
    BY <1>8, <2>2 DEF Reaches
  <2> QED
    BY <2>1, <2>3
<1>10. ASSUME NEW i \in DOMAIN last
       PROVE  \E t \in taken : t <= i /\ i <= last[t]
  <2>1. i \in 1 .. n /\ i - 1 \in 0 .. n
    OBVIOUS
  <2>2. CASE g[i - 1] < i
    <3>1. i \in taken /\ i <= i
      BY <1>5, <2>1, <2>2
    <3> QED
      BY <3>1
  <2>3. CASE ~(g[i - 1] < i)
    <3>1. PICK r : r = g[i - 1]
      OBVIOUS
    <3>2. Reaches(last, taken, i - 1, r)
      BY <1>8, <2>1, <3>1
    <3>3. r \in Nat /\ i <= r /\ r # 0
      BY <2>1, <2>3, <3>1, <3>2 DEF Reaches
    <3>4. PICK t \in taken : t <= i - 1 /\ last[t] = r
      BY <3>2, <3>3 DEF Reaches
    <3>5. t \in Nat
      BY <1>5
    <3> QED
      BY <2>1, <3>3, <3>4, <3>5
  <2> QED
    BY <2>2, <2>3
<1>11. taken \subseteq DOMAIN last
  BY <1>5
<1> QED
  BY <1>6, <1>9, <1>10, <1>11 DEF LeftToRight

\* A set of spans of the words up to n.
AreSpans(spans, n) ==
  \A c \in spans : c.first \in 1 .. n /\ c.last \in Nat /\ c.first <= c.last

\* Spans that are apart: what starts before another ends before it.
AreApart(spans) ==
  \A c, d \in spans : (c.first = d.first => c = d) /\ (c.first < d.first => c.last < d.first)

\* Each of some spans starts in one of others.
StartIn(found, spans) == \A c \in found : \E d \in spans : d.first <= c.first /\ c.first <= d.last

\* Of some candidates there is one that none comes before.
LEMMA OneComesFirst ==
  ASSUME NEW n \in Nat, NEW F, F # {}, \A c \in F : c.last \in Nat /\ c.last <= n /\ c.order \in Nat
  PROVE  \E c \in F : \A d \in F : ~Before(d, c)
<1>1. PICK lasts : lasts = {c.last : c \in F}
  OBVIOUS
<1>2. lasts \subseteq Nat /\ lasts # {} /\ \A x \in lasts : x <= n
  BY <1>1
<1>3. PICK m \in lasts : \A x \in lasts : x <= m
  BY <1>2, GreatestIsOne
<1>4. PICK longest : longest = {c \in F : c.last = m}
  OBVIOUS
<1>5. PICK orders : orders = {c.order : c \in longest}
  OBVIOUS
<1>6. orders \subseteq Nat /\ orders # {}
  BY <1>1, <1>4, <1>5
<1>7. PICK o \in orders : \A x \in orders : o <= x
  BY <1>6, LeastIsOne
<1>8. PICK c \in longest : c.order = o
  BY <1>5
<1>9. ASSUME NEW d \in F
      PROVE  ~Before(d, c)
  <2>1. c \in F /\ c.last = m /\ d.last \in Nat /\ m \in Nat /\ d.last <= m /\ o \in Nat /\ d.order \in Nat
    BY <1>1, <1>2, <1>3, <1>4, <1>6
  <2>2. d.last = m => o <= d.order
    BY <1>4, <1>5, <1>7
  <2> QED
    BY <1>8, <2>1, <2>2 DEF Before
<1> QED
  BY <1>4, <1>9

\* The best of what starts at each word.
BestAt(found) ==
  [i \in {c.first : c \in found} |->
     CHOOSE c \in {c \in found : c.first = i} : \A d \in {d \in found : d.first = i} : ~Before(d, c)]

Lasts(spans) == [i \in DOMAIN spans |-> spans[i].last]

AreTaken(spans, text, best) == spans = {best[i] : i \in Taken(Len(text.words), Lasts(best))}

LEMMA ResolvedIs ==
  ASSUME NEW text, NEW found
  PROVE  AreTaken(ResolveRegex(text, found), text, BestAt(found))
BY Zenon DEF AreTaken, ResolveRegex, BestAt, Lasts

LEMMA ClaimedAreApart ==
  ASSUME NEW n \in Nat, NEW text, Len(text.words) = n,
         NEW found, AreSpans(found, n), \A c \in found : c.last <= n /\ c.order \in Nat
  PROVE  /\ ResolveRegex(text, found) \subseteq found
         /\ AreApart(ResolveRegex(text, found)) /\ StartIn(found, ResolveRegex(text, found))
<1> DEFINE From(i) == {c \in found : c.first = i}
<1>1. PICK best : /\ best = BestAt(found)
                  /\ best = [i \in {c.first : c \in found} |-> CHOOSE c \in From(i) : \A d \in From(i) : ~Before(d, c)]
  BY Zenon DEF BestAt
<1>2. PICK last : last = Lasts(best) /\ last = [i \in DOMAIN best |-> best[i].last]
  BY DEF Lasts
<1>3. PICK taken : taken = Taken(n, last)
  OBVIOUS
<1>4. PICK spans : spans = ResolveRegex(text, found)
  OBVIOUS
<1>5. spans = {best[i] : i \in taken}
  <2>1. AreTaken(spans, text, best)
    <3>1. best = BestAt(found)
      BY <1>1
    <3>2. AreTaken(ResolveRegex(text, found), text, BestAt(found))
      BY ResolvedIs
    <3> QED
      BY <1>4, <3>1, <3>2
  <2>2. spans = {best[i] : i \in Taken(Len(text.words), Lasts(best))}
    BY <2>1 DEF AreTaken
  <2>3. Taken(Len(text.words), Lasts(best)) = taken
    BY <1>2, <1>3, Zenon
  <2> QED
    BY <2>2, <2>3
<1>6. ASSUME NEW i \in DOMAIN best
      PROVE  best[i] \in found /\ best[i].first = i
  <2>1. PICK F : F = From(i)
    OBVIOUS
  <2>2. F # {} /\ \A c \in F : c.last \in Nat /\ c.last <= n /\ c.order \in Nat
    BY <1>1, <2>1 DEF AreSpans
  <2>3. \E c \in F : \A d \in F : ~Before(d, c)
    BY <2>2, OneComesFirst
  <2>4. best[i] = CHOOSE c \in F : \A d \in F : ~Before(d, c)
    BY <1>1, <2>1
  <2>5. best[i] \in F
    BY <2>3, <2>4
  <2> QED
    BY <2>1, <2>5
<1>7. DOMAIN last = DOMAIN best /\ \A i \in DOMAIN last : i \in 1 .. n /\ last[i] = best[i].last /\ last[i] \in Nat /\ i <= last[i]
  BY <1>2, <1>6 DEF AreSpans
<1>8. LeftToRight(last, taken)
  <2>1. DOMAIN last \subseteq 1 .. n /\ \A i \in DOMAIN last : last[i] \in Nat /\ i <= last[i]
    BY <1>7
  <2> QED
    BY <1>3, <2>1, TakenIsLeftToRight
<1>9. taken \subseteq DOMAIN best
  BY <1>7, <1>8 DEF LeftToRight
<1>10. spans \subseteq found
  BY <1>5, <1>6, <1>9
<1>11. AreApart(spans)
  <2> SUFFICES ASSUME NEW i \in taken, NEW j \in taken
               PROVE  /\ best[i].first = best[j].first => best[i] = best[j]
                      /\ best[i].first < best[j].first => best[i].last < best[j].first
    BY <1>5 DEF AreApart
  <2>1. best[i].first = i /\ best[j].first = j /\ best[i].last = last[i]
    BY <1>6, <1>7, <1>9
  <2>2. i < j => last[i] < j
    BY <1>8 DEF LeftToRight
  <2> QED
    BY <2>1, <2>2
<1>12. StartIn(found, spans)
  <2> SUFFICES ASSUME NEW c \in found
               PROVE  \E d \in spans : d.first <= c.first /\ c.first <= d.last
    BY DEF StartIn
  <2>1. c.first \in DOMAIN last
    BY <1>1, <1>7
  <2>2. PICK t \in taken : t <= c.first /\ c.first <= last[t]
    BY <1>8, <2>1 DEF LeftToRight
  <2>3. best[t] \in spans /\ best[t].first = t /\ best[t].last = last[t]
    BY <1>5, <1>6, <1>7, <1>9
  <2> QED
    BY <2>2, <2>3
<1> QED
  BY <1>4, <1>10, <1>11, <1>12

\* Spans of the words up to n, each at the word it starts at, from left to right.
ByTheirWords(matches, n) ==
  /\ DOMAIN matches \subseteq 1 .. n
  /\ \A i \in DOMAIN matches : matches[i].first = i /\ matches[i].last \in Nat /\ i <= matches[i].last
  /\ \A i, j \in DOMAIN matches : i < j => matches[i].last < j

Sizes(text, lists) ==
  [i \in {j \in DOMAIN text.words : NamesAt(text, lists, j) # {}} |->
     CHOOSE k \in NamesAt(text, lists, i) : \A m \in NamesAt(text, lists, i) : m <= k]

Ends(size) == [j \in DOMAIN size |-> j + size[j] - 1]

LEMMA MatchedIs ==
  ASSUME NEW text, NEW lists
  PROVE  MatchTokens(text, lists) =
           [i \in Taken(Len(text.words), Ends(Sizes(text, lists))) |-> Window(text, lists, i, Sizes(text, lists)[i])]
BY Zenon DEF MatchTokens, Sizes, Ends

LEMMA NamesAreLeftToRight ==
  ASSUME NEW n \in Nat, NEW text, Len(text.words) = n, DOMAIN text.words = 1 .. n, NEW lists
  PROVE  ByTheirWords(MatchTokens(text, lists), n)
<1>1. PICK starts : starts = {j \in DOMAIN text.words : NamesAt(text, lists, j) # {}}
  OBVIOUS
<1>2. PICK size :
        /\ size = Sizes(text, lists)
        /\ size = [i \in starts |-> CHOOSE k \in NamesAt(text, lists, i) : \A m \in NamesAt(text, lists, i) : m <= k]
  BY <1>1, Zenon DEF Sizes
<1>3. PICK last : last = Ends(size) /\ last = [j \in DOMAIN size |-> j + size[j] - 1]
  BY DEF Ends
<1>4. PICK taken : taken = Taken(n, last)
  OBVIOUS
<1>5. PICK matches : matches = MatchTokens(text, lists)
  OBVIOUS
<1>6. matches = [i \in taken |-> Window(text, lists, i, size[i])]
  BY <1>2, <1>3, <1>4, <1>5, MatchedIs
<1>7. ASSUME NEW i \in starts
      PROVE  i \in 1 .. n /\ size[i] \in Nat /\ 1 <= size[i]
  <2>1. PICK N : N = NamesAt(text, lists, i)
    OBVIOUS
  <2>2. i \in 1 .. n /\ N # {}
    BY <1>1, <2>1
  <2>3. PICK k : k = n - i + 1 /\ N \subseteq 1 .. k
    BY <2>1 DEF NamesAt
  <2>4. k \in Nat /\ k <= n
    BY <2>2, <2>3
  <2>5. N \subseteq Nat /\ \A x \in N : x <= k
    <3>1. \A x \in 1 .. k : x \in Nat /\ x <= k
      BY <2>4
    <3> QED
      BY <2>3, <3>1
  <2>6. \E x \in N : \A m \in N : m <= x
    BY <2>2, <2>4, <2>5, GreatestIsOne
  <2>7. size[i] = CHOOSE x \in N : \A m \in N : m <= x
    BY <1>2, <2>1
  <2>8. size[i] \in N
    BY <2>6, <2>7
  <2>9. size[i] \in 1 .. k
    BY <2>3, <2>8
  <2> QED
    BY <2>2, <2>4, <2>9
<1>8. DOMAIN last = starts /\ \A i \in starts : i \in 1 .. n /\ last[i] = i + size[i] - 1 /\ last[i] \in Nat /\ i <= last[i]
  <2>1. DOMAIN size = starts
    BY <1>2
  <2>2. DOMAIN last = starts /\ \A i \in starts : last[i] = i + size[i] - 1
    BY <1>3, <2>1
  <2> QED
    BY <1>7, <2>2
<1>9. LeftToRight(last, taken)
  <2>1. DOMAIN last \subseteq 1 .. n /\ \A i \in DOMAIN last : last[i] \in Nat /\ i <= last[i]
    BY <1>8
  <2> QED
    BY <1>4, <2>1, TakenIsLeftToRight
<1>10. ASSUME NEW i \in taken
       PROVE  i \in 1 .. n /\ matches[i].first = i /\ matches[i].last = last[i] /\ last[i] \in Nat /\ i <= last[i]
  <2>1. i \in DOMAIN last
    BY <1>9 DEF LeftToRight
  <2>2. matches[i] = Window(text, lists, i, size[i])
    BY <1>6
  <2>3. matches[i].first = i /\ matches[i].last = i + size[i] - 1
    BY <2>2 DEF Window
  <2> QED
    BY <1>8, <2>1, <2>3
<1>11. DOMAIN matches = taken
  BY <1>6
<1>12. \A i, j \in taken : i < j => matches[i].last < j
  BY <1>9, <1>10 DEF LeftToRight
<1>13. ByTheirWords(matches, n)
  BY <1>10, <1>11, <1>12 DEF ByTheirWords
<1> QED
  BY <1>5, <1>13

LEMMA TaggedAreApart ==
  ASSUME NEW n \in Nat, NEW text, NEW matches, ByTheirWords(matches, n)
  PROVE  AreSpans(TagNames(text, matches), n) /\ AreApart(TagNames(text, matches))
<1>1. PICK tags : tags = Tags(text, matches)
  OBVIOUS
<1>2. PICK spans : spans = TagNames(text, matches)
  OBVIOUS
<1>3. spans = {[first |-> matches[i].first, last |-> matches[i].last, tag |-> tags[i][1], value |-> tags[i][2]] :
                 i \in DOMAIN matches}
  BY <1>1, <1>2 DEF TagNames
<1>4. PICK span : span = [i \in DOMAIN matches |->
                            [first |-> matches[i].first, last |-> matches[i].last, tag |-> tags[i][1], value |-> tags[i][2]]]
  OBVIOUS
<1>5. spans = {span[i] : i \in DOMAIN matches}
  BY <1>3, <1>4
<1>6. \A i \in DOMAIN matches : span[i].first = i /\ span[i].last = matches[i].last
  BY <1>4 DEF ByTheirWords
<1>7. AreSpans(spans, n)
  BY <1>5, <1>6 DEF AreSpans, ByTheirWords
<1>8. AreApart(spans)
  BY <1>5, <1>6 DEF AreApart, ByTheirWords
<1> QED
  BY <1>2, <1>7, <1>8

LEMMA ByStartIs ==
  ASSUME NEW n \in Nat, NEW spans, AreSpans(spans, n), AreApart(spans)
  PROVE  /\ ByTheirWords(ByStart(spans), n)
         /\ \A c \in spans : c.first \in DOMAIN ByStart(spans) /\ ByStart(spans)[c.first] = c
<1>1. PICK at : at = ByStart(spans)
  OBVIOUS
<1>2. at = [i \in {c.first : c \in spans} |-> CHOOSE c \in spans : c.first = i]
  BY <1>1 DEF ByStart
<1>3. ASSUME NEW i \in DOMAIN at
      PROVE  at[i] \in spans /\ at[i].first = i
  <2>1. \E c \in spans : c.first = i
    BY <1>2
  <2> QED
    BY <1>2, <2>1
<1>4. \A i \in DOMAIN at : i \in 1 .. n /\ at[i].last \in Nat /\ i <= at[i].last
  BY <1>3 DEF AreSpans
<1>5. \A i, j \in DOMAIN at : i < j => at[i].last < j
  BY <1>3 DEF AreApart
<1>6. ByTheirWords(at, n)
  BY <1>3, <1>4, <1>5 DEF ByTheirWords
<1>7. \A c \in spans : c.first \in DOMAIN at /\ at[c.first] = c
  BY <1>2, <1>3 DEF AreApart
<1> QED
  BY <1>1, <1>6, <1>7

LEMMA ChosenAreApart ==
  ASSUME NEW n \in Nat, NEW text, Len(text.words) = n, DOMAIN text.words = 1 .. n, NEW lists,
         NEW found, AreSpans(found, n), \A c \in found : c.last <= n /\ c.order \in Nat
  PROVE  /\ ByTheirWords(Chosen(text, lists, found), n)
         /\ \A c \in found : \E k \in DOMAIN Chosen(text, lists, found) :
              k <= c.first /\ c.first <= Chosen(text, lists, found)[k].last
<1>1. PICK claimed, tagged, names :
        /\ claimed = ResolveRegex(text, found)
        /\ tagged = TagNames(text, MatchTokens(text, lists))
        /\ names = {c \in tagged : \A d \in claimed : ~Overlap(c, d)}
  OBVIOUS
<1>2. claimed \subseteq found /\ AreApart(claimed) /\ StartIn(found, claimed)
  BY <1>1, ClaimedAreApart
<1>3. AreSpans(tagged, n) /\ AreApart(tagged)
  <2>1. PICK matches : matches = MatchTokens(text, lists)
    OBVIOUS
  <2>2. ByTheirWords(matches, n)
    BY <2>1, NamesAreLeftToRight
  <2> QED
    BY <1>1, <2>1, <2>2, TaggedAreApart
<1>4. PICK both : both = claimed \cup names
  OBVIOUS
<1>5. AreSpans(both, n)
  BY <1>1, <1>2, <1>3, <1>4 DEF AreSpans
<1>6. AreApart(both)
  <2>1. AreApart(names)
    BY <1>1, <1>3 DEF AreApart
  <2>2. ASSUME NEW c \in names, NEW d \in claimed
        PROVE  c.first # d.first /\ (c.first < d.first => c.last < d.first) /\ (d.first < c.first => d.last < c.first)
    <3>1. ~Overlap(c, d)
      BY <1>1
    <3>2. /\ c.first \in Nat /\ c.last \in Nat /\ c.first <= c.last
          /\ d.first \in Nat /\ d.last \in Nat /\ d.first <= d.last
      BY <1>4, <1>5 DEF AreSpans
    <3>3. ~(c.first <= d.last /\ d.first <= c.last)
      BY <3>1 DEF Overlap
    <3> QED
      BY <3>2, <3>3
  <2> QED
    BY <1>2, <1>4, <2>1, <2>2 DEF AreApart
<1>7. PICK spans : spans = {Span(c) : c \in both}
  OBVIOUS
<1>8. \A c \in both : Span(c).first = c.first /\ Span(c).last = c.last
  BY DEF Span
<1>9. AreSpans(spans, n)
  BY <1>5, <1>7, <1>8 DEF AreSpans
<1>10. AreApart(spans)
  <2> SUFFICES ASSUME NEW c \in both, NEW d \in both
               PROVE  /\ Span(c).first = Span(d).first => Span(c) = Span(d)
                      /\ Span(c).first < Span(d).first => Span(c).last < Span(d).first
    BY <1>7 DEF AreApart
  <2> QED
    BY <1>6, <1>8 DEF AreApart
<1>11. PICK chosen : chosen = Chosen(text, lists, found)
  OBVIOUS
<1>12. chosen = ByStart(spans)
  BY <1>1, <1>4, <1>7, <1>11 DEF Chosen
<1>13. ByTheirWords(chosen, n) /\ \A c \in spans : c.first \in DOMAIN chosen /\ chosen[c.first] = c
  BY <1>9, <1>10, <1>12, ByStartIs
<1>14. ASSUME NEW c \in found
       PROVE  \E k \in DOMAIN chosen : k <= c.first /\ c.first <= chosen[k].last
  <2>1. PICK d \in claimed : d.first <= c.first /\ c.first <= d.last
    BY <1>2 DEF StartIn
  <2>2. d \in both /\ Span(d) \in spans /\ Span(d).first = d.first /\ Span(d).last = d.last
    BY <1>4, <1>7, <1>8
  <2>3. d.first \in DOMAIN chosen /\ chosen[d.first] = Span(d)
    BY <1>13, <2>2
  <2> QED
    BY <2>1, <2>2, <2>3
<1> QED
  BY <1>11, <1>13, <1>14

\* What has the words of a value the first time.
Own(chosen, k) == CHOOSE i \in DOMAIN chosen : First(chosen, i) /\ Value(chosen[i]) = Value(chosen[k])

LEMMA OwnIsFirst ==
  ASSUME NEW n \in Nat, NEW chosen, DOMAIN chosen \subseteq 1 .. n, NEW k \in DOMAIN chosen,
         NEW own, own = Own(chosen, k)
  PROVE  own \in DOMAIN chosen /\ First(chosen, own) /\ Value(chosen[own]) = Value(chosen[k]) /\ own <= k
<1>1. PICK S : S = {i \in DOMAIN chosen : Value(chosen[i]) = Value(chosen[k])}
  OBVIOUS
<1>2. S \subseteq Nat /\ k \in S
  BY <1>1
<1>3. PICK m \in S : \A x \in S : m <= x
  <2>1. S \subseteq Nat /\ S # {}
    BY <1>2
  <2> QED
    BY <2>1, LeastIsOne
<1>4. First(chosen, m)
  <2> SUFFICES ASSUME NEW j \in DOMAIN chosen, j < m, Value(chosen[j]) = Value(chosen[m])
               PROVE  FALSE
    BY DEF First
  <2>1. j \in S /\ j \in Nat /\ m \in Nat
    BY <1>1, <1>2, <1>3
  <2>2. m <= j
    BY <1>3, <2>1
  <2> QED
    BY <2>1, <2>2
<1>5. \E i \in DOMAIN chosen : First(chosen, i) /\ Value(chosen[i]) = Value(chosen[k])
  BY <1>1, <1>3, <1>4
<1>6. own \in DOMAIN chosen /\ First(chosen, own) /\ Value(chosen[own]) = Value(chosen[k])
  BY <1>5 DEF Own
<1>7. own <= k
  <2>1. own \in Nat /\ k \in Nat
    BY <1>6
  <2>2. ~(k < own)
    BY <1>6 DEF First
  <2> QED
    BY <2>1, <2>2
<1> QED
  BY <1>6, <1>7

LEMMA FirstIsOne ==
  ASSUME NEW n \in Nat, NEW chosen, DOMAIN chosen \subseteq 1 .. n, NEW i \in DOMAIN chosen, NEW j \in DOMAIN chosen,
         First(chosen, i), First(chosen, j), Value(chosen[i]) = Value(chosen[j])
  PROVE  i = j
<1>1. i \in Nat /\ j \in Nat
  OBVIOUS
<1>2. ~(i < j)
  BY DEF First
<1>3. ~(j < i)
  BY DEF First
<1> QED
  BY <1>1, <1>2, <1>3

\* The values of a tag up to a word.
Firsts(chosen, tag, o) == {i \in DOMAIN chosen : i <= o /\ First(chosen, i) /\ chosen[i].tag = tag}

LEMMA FirstsGrow ==
  ASSUME NEW n \in Nat, NEW chosen, DOMAIN chosen \subseteq 1 .. n, NEW tag,
         NEW o, NEW p \in DOMAIN chosen, First(chosen, p), chosen[p].tag = tag, o \in DOMAIN chosen, o < p
  PROVE  /\ Cardinality(Firsts(chosen, tag, o)) \in Nat /\ Cardinality(Firsts(chosen, tag, p)) \in Nat
         /\ Cardinality(Firsts(chosen, tag, o)) < Cardinality(Firsts(chosen, tag, p))
<1>1. PICK A, B : A = Firsts(chosen, tag, o) /\ B = Firsts(chosen, tag, p)
  OBVIOUS
<1>2. B \subseteq 1 .. n
  BY <1>1 DEF Firsts
<1>3. IsFiniteSet(B)
  <2>1. IsFiniteSet(1 .. n) /\ B \in SUBSET (1 .. n)
    BY <1>2, FS_Interval
  <2> QED
    BY <2>1, FS_Subset
<1>4. p \in B /\ p \notin A
  <2>1. p \in Nat /\ o \in Nat
    OBVIOUS
  <2> QED
    BY <1>1, <2>1 DEF Firsts
<1>5. A \subseteq B
  <2>1. \A i \in DOMAIN chosen : i \in Nat
    OBVIOUS
  <2>2. \A i \in DOMAIN chosen : i <= o => i <= p
    BY <2>1
  <2> QED
    BY <1>1, <2>2 DEF Firsts
<1>6. IsFiniteSet(A) /\ Cardinality(A) <= Cardinality(B) /\ (Cardinality(A) = Cardinality(B) => A = B)
  BY <1>3, <1>5, FS_Subset
<1>7. Cardinality(A) \in Nat /\ Cardinality(B) \in Nat
  BY <1>3, <1>6, FS_CardinalityType
<1>8. Cardinality(A) # Cardinality(B)
  BY <1>4, <1>6
<1>9. Cardinality(A) < Cardinality(B)
  BY <1>6, <1>7, <1>8
<1> QED
  BY <1>1, <1>7, <1>9

LEMMA NumberIs ==
  ASSUME NEW chosen, NEW k
  PROVE  Number(chosen, k) = Cardinality(Firsts(chosen, chosen[k].tag, Own(chosen, k)))
BY Zenon DEF Number, Own, Firsts

\* The numbers of a tag tell its values apart.
LEMMA NumbersTell ==
  ASSUME NEW n \in Nat, NEW chosen, DOMAIN chosen \subseteq 1 .. n, NEW j \in DOMAIN chosen, NEW k \in DOMAIN chosen,
         chosen[j].tag = chosen[k].tag
  PROVE  Number(chosen, j) = Number(chosen, k) <=> chosen[j].value = chosen[k].value
<1>1. PICK tag : tag = chosen[j].tag /\ tag = chosen[k].tag
  OBVIOUS
<1>2. PICK o, p : o = Own(chosen, j) /\ p = Own(chosen, k)
  OBVIOUS
<1>3. o \in DOMAIN chosen /\ First(chosen, o) /\ Value(chosen[o]) = Value(chosen[j])
  BY <1>2, OwnIsFirst
<1>4. p \in DOMAIN chosen /\ First(chosen, p) /\ Value(chosen[p]) = Value(chosen[k])
  BY <1>2, OwnIsFirst
<1>5. chosen[o].tag = tag /\ chosen[p].tag = tag
  BY <1>1, <1>3, <1>4 DEF Value
<1>6. PICK x, y : x = Cardinality(Firsts(chosen, tag, o)) /\ y = Cardinality(Firsts(chosen, tag, p))
  OBVIOUS
<1>7. Number(chosen, j) = x /\ Number(chosen, k) = y
  BY <1>1, <1>2, <1>6, NumberIs
<1>8. x = y <=> o = p
  <2>1. o \in Nat /\ p \in Nat
    BY <1>3, <1>4
  <2>2. CASE o < p
    <3>1. x \in Nat /\ y \in Nat /\ x < y
      BY <1>3, <1>4, <1>5, <1>6, <2>2, FirstsGrow
    <3> QED
      BY <2>1, <2>2, <3>1
  <2>3. CASE p < o
    <3>1. x \in Nat /\ y \in Nat /\ y < x
      BY <1>3, <1>4, <1>5, <1>6, <2>3, FirstsGrow
    <3> QED
      BY <2>1, <2>3, <3>1
  <2>4. CASE o = p
    BY <1>6, <2>4
  <2> QED
    BY <2>1, <2>2, <2>3, <2>4
<1>9. o = p <=> Value(chosen[j]) = Value(chosen[k])
  <2>1. o = p => Value(chosen[j]) = Value(chosen[k])
    BY <1>3, <1>4
  <2>2. Value(chosen[j]) = Value(chosen[k]) => o = p
    BY <1>3, <1>4, FirstIsOne
  <2> QED
    BY <2>1, <2>2
<1>10. Value(chosen[j]) = Value(chosen[k]) <=> chosen[j].value = chosen[k].value
  BY DEF Value
<1> QED
  BY <1>7, <1>8, <1>9, <1>10

\* The numbers of a tag leave none out.
LEMMA NumbersFollow ==
  ASSUME NEW n \in Nat, NEW chosen, DOMAIN chosen \subseteq 1 .. n, NEW k \in DOMAIN chosen, Number(chosen, k) > 1
  PROVE  \E j \in DOMAIN chosen :
           j < k /\ chosen[j].tag = chosen[k].tag /\ Number(chosen, j) = Number(chosen, k) - 1
<1>1. PICK tag, o : tag = chosen[k].tag /\ o = Own(chosen, k)
  OBVIOUS
<1>2. o \in DOMAIN chosen /\ First(chosen, o) /\ Value(chosen[o]) = Value(chosen[k]) /\ o <= k
  BY <1>1, OwnIsFirst
<1>3. chosen[o].tag = tag /\ o \in Nat /\ k \in Nat
  BY <1>1, <1>2 DEF Value
<1>4. PICK A : A = Firsts(chosen, tag, o)
  OBVIOUS
<1>5. Number(chosen, k) = Cardinality(A)
  BY <1>1, <1>4, NumberIs
<1>6. PICK G : G = A \ {o}
  OBVIOUS
<1>7. A \subseteq 1 .. n /\ o \in A
  BY <1>2, <1>3, <1>4 DEF Firsts
<1>8. IsFiniteSet(A) /\ IsFiniteSet(G)
  <2>1. IsFiniteSet(1 .. n) /\ A \in SUBSET (1 .. n) /\ G \in SUBSET (1 .. n)
    BY <1>6, <1>7, FS_Interval
  <2> QED
    BY <2>1, FS_Subset
<1>9. Cardinality(A) \in Nat /\ Cardinality(G) \in Nat /\ Cardinality(G) = Cardinality(A) - 1
  BY <1>6, <1>7, <1>8, FS_RemoveElement, FS_CardinalityType
<1>10. G # {}
  <2>1. Cardinality(G) # 0
    BY <1>5, <1>9
  <2> QED
    BY <2>1, FS_EmptySet
<1>11. PICK p \in G : \A x \in G : x <= p
  <2>1. G \subseteq Nat /\ \A x \in G : x <= n
    BY <1>6, <1>7
  <2> QED
    BY <1>10, <2>1, GreatestIsOne
<1>12. p \in DOMAIN chosen /\ First(chosen, p) /\ chosen[p].tag = tag /\ p \in Nat /\ p < o
  <2>1. p \in A /\ p # o
    BY <1>6
  <2>2. p \in DOMAIN chosen /\ First(chosen, p) /\ chosen[p].tag = tag /\ p <= o
    BY <1>4, <2>1 DEF Firsts
  <2>3. p \in Nat
    BY <2>2
  <2> QED
    BY <1>3, <2>1, <2>2, <2>3
<1>13. Own(chosen, p) = p
  <2>1. PICK q : q = Own(chosen, p)
    OBVIOUS
  <2>2. q \in DOMAIN chosen /\ First(chosen, q) /\ Value(chosen[q]) = Value(chosen[p])
    BY <1>12, <2>1, OwnIsFirst
  <2> QED
    BY <1>12, <2>1, <2>2, FirstIsOne
<1>14. Firsts(chosen, tag, p) = G
  <2>1. ASSUME NEW i \in DOMAIN chosen
        PROVE  i <= p /\ First(chosen, i) /\ chosen[i].tag = tag <=> i \in G
    <3>1. i \in Nat
      OBVIOUS
    <3>2. i \in G <=> i <= o /\ First(chosen, i) /\ chosen[i].tag = tag /\ i # o
      BY <1>4, <1>6 DEF Firsts
    <3>3. i \in G => i <= p
      BY <1>11
    <3>4. i <= p => i <= o /\ i # o
      BY <1>3, <1>12, <3>1
    <3> QED
      BY <3>2, <3>3, <3>4
  <2>2. G \subseteq DOMAIN chosen
    BY <1>4, <1>6 DEF Firsts
  <2> QED
    BY <2>1, <2>2 DEF Firsts
<1>15. Number(chosen, p) = Cardinality(G)
  BY <1>12, <1>13, <1>14, NumberIs
<1>16. p < k
  BY <1>2, <1>3, <1>12
<1>17. Number(chosen, p) = Number(chosen, k) - 1
  BY <1>5, <1>9, <1>15
<1> QED
  BY <1>1, <1>12, <1>16, <1>17

\* What a scrub answers for what its rules found.
Scrubbed(hits, found) ==
  LET at == DOMAIN hits
      Tagged(k) == {j \in at : hits[j].hit.tag = hits[k].hit.tag} IN
  /\ \A k \in at : hits[k].hit.first = k /\ \A j \in at : j < k => hits[j].hit.last < k
  /\ \A k \in at : \A j \in Tagged(k) :
       hits[j].number = hits[k].number <=> hits[j].hit.value = hits[k].hit.value
  /\ \A k \in at : hits[k].number > 1 =>
       \E j \in Tagged(k) : j < k /\ hits[j].number = hits[k].number - 1
  /\ \A c \in found : \E k \in at :
       Overlap(c, hits[k].hit) /\ hits[k].hit.first <= c.first

LEMMA ScrubSays ==
  ScrubIsConsistent <=> (Answered("scrubs") => Scrubbed(answer.hits, Found(question)))
BY Zenon DEF ScrubIsConsistent, Scrubbed

LEMMA ScrubIs ==
  ASSUME NEW n \in Nat, NEW text, Len(text.words) = n, DOMAIN text.words = 1 .. n, NEW lists,
         NEW found, AreSpans(found, n), \A c \in found : c.last <= n /\ c.order \in Nat
  PROVE  Scrubbed(Scrub(text, lists, found), found)
<1>1. PICK chosen, hits : chosen = Chosen(text, lists, found) /\ hits = Scrub(text, lists, found)
  OBVIOUS
<1>2. hits = [k \in DOMAIN chosen |-> [hit |-> chosen[k], number |-> Number(chosen, k)]]
  BY <1>1 DEF Scrub
<1>3. DOMAIN hits = DOMAIN chosen /\ \A k \in DOMAIN chosen : hits[k].hit = chosen[k] /\ hits[k].number = Number(chosen, k)
  BY <1>2
<1>4. ByTheirWords(chosen, n) /\ \A c \in found : \E k \in DOMAIN chosen : k <= c.first /\ c.first <= chosen[k].last
  BY <1>1, ChosenAreApart
<1>5. DOMAIN chosen \subseteq 1 .. n
  BY <1>4 DEF ByTheirWords
<1>6. \A k \in DOMAIN hits : hits[k].hit.first = k /\ \A j \in DOMAIN hits : j < k => hits[j].hit.last < k
  BY <1>3, <1>4 DEF ByTheirWords
<1>7. \A j, k \in DOMAIN chosen : chosen[j].tag = chosen[k].tag =>
        (Number(chosen, j) = Number(chosen, k) <=> chosen[j].value = chosen[k].value)
  BY <1>5, NumbersTell
<1>8. \A k \in DOMAIN chosen : Number(chosen, k) > 1 =>
        \E j \in DOMAIN chosen : j < k /\ chosen[j].tag = chosen[k].tag /\ Number(chosen, j) = Number(chosen, k) - 1
  BY <1>5, NumbersFollow
<1>9. \A c \in found : \E k \in DOMAIN hits : Overlap(c, hits[k].hit) /\ hits[k].hit.first <= c.first
  <2> SUFFICES ASSUME NEW c \in found
               PROVE  \E k \in DOMAIN hits : Overlap(c, hits[k].hit) /\ hits[k].hit.first <= c.first
    OBVIOUS
  <2>1. PICK k \in DOMAIN chosen : k <= c.first /\ c.first <= chosen[k].last
    BY <1>4
  <2>2. hits[k].hit = chosen[k] /\ chosen[k].first = k /\ k \in Nat
    BY <1>3, <1>4, <1>5 DEF ByTheirWords
  <2>3. c.first \in Nat /\ c.last \in Nat /\ c.first <= c.last
    BY DEF AreSpans
  <2>4. k <= c.last
    BY <2>1, <2>2, <2>3
  <2> QED
    BY <1>3, <2>1, <2>2, <2>4 DEF Overlap
<1>10. Scrubbed(hits, found)
  <2>1. \A j, k \in DOMAIN hits : hits[j].hit.tag = hits[k].hit.tag =>
          (hits[j].number = hits[k].number <=> hits[j].hit.value = hits[k].hit.value)
    BY <1>3, <1>7
  <2>2. \A k \in DOMAIN hits : hits[k].number > 1 =>
          \E j \in DOMAIN hits : j < k /\ hits[j].hit.tag = hits[k].hit.tag /\ hits[j].number = hits[k].number - 1
    BY <1>3, <1>8
  <2> QED
    BY <1>6, <1>9, <2>1, <2>2, Zenon DEF Scrubbed
<1> QED
  BY <1>1, <1>10

LEMMA NarrativeShape ==
  ASSUME question \in ScrubQuestion
  PROVE  /\ MaxWords \in Nat /\ Len(question.words) = MaxWords /\ DOMAIN question.words = 1 .. MaxWords
         /\ AreSpans(Found(question), MaxWords)
         /\ \A c \in Found(question) : c.last <= MaxWords /\ c.order \in Nat
<1>1. MaxWords \in Nat
  BY RulesAssumption
<1>2. question.words \in [1 .. MaxWords -> {Martin, Mueller, Muller, Rose}] /\ question.found \subseteq Spans
  BY DEF ScrubQuestion
<1>3. Len(question.words) = MaxWords /\ DOMAIN question.words = 1 .. MaxWords
  BY <1>1, <1>2
<1>4. \A c \in Spans : c.first \in 1 .. MaxWords /\ c.last \in 1 .. MaxWords /\ c.order \in {1, 2} /\ c.first <= c.last
  BY DEF Spans
<1>5. ASSUME NEW c \in Found(question)
      PROVE  c.first \in 1 .. MaxWords /\ c.last \in 1 .. MaxWords /\ c.order \in {1, 2} /\ c.first <= c.last
  <2>1. PICK d \in question.found : c.first = d.first /\ c.last = d.last /\ c.order = d.order
    BY DEF Found
  <2> QED
    BY <1>2, <1>4, <2>1
<1>6. \A c \in Found(question) : c.first \in 1 .. MaxWords /\ c.last \in Nat /\ c.first <= c.last /\ c.last <= MaxWords /\ c.order \in Nat
  BY <1>1, <1>5
<1> QED
  BY <1>1, <1>3, <1>6 DEF AreSpans

\* However long a narrative: what is replaced in it is apart, a placeholder's
\* number names one value of its tag and the numbers of a tag have no gap, and
\* nothing that a rule found begins outside of what is replaced.
THEOREM ScrubHolds == Spec => []ScrubIsConsistent
<1> DEFINE Fine == Answered("scrubs") => Scrubbed(answer.hits, Found(question))
<1>1. Init => Fine
  BY DEF Init, Answered
<1>2. Asked /\ Fine /\ [Next]_ruleVars => Fine'
  <2> SUFFICES ASSUME Asked, Fine, [Next]_ruleVars, question'.of = "scrubs", answer' # answer
               PROVE  Scrubbed(answer'.hits, Found(question)')
    BY OneRuleAnswers DEF Answered
  <2>1. question' = question /\ question \in ScrubQuestion /\ Scrubs
    BY OneRuleAnswers, KindOfQuestion
  <2>2. answer'.hits = Scrub(question, Lists, Found(question))
    BY <2>1 DEF Scrubs, Answers
  <2>3. Found(question)' = Found(question)
    BY <2>1 DEF Found
  <2> QED
    BY <2>1, <2>2, <2>3, NarrativeShape, ScrubIs
<1>3. Fine <=> ScrubIsConsistent
  BY ScrubSays
<1> QED
  BY <1>1, <1>2, <1>3, QuestionStands, PTL DEF Spec
=============================================================================
