----------------------------- MODULE TextRules -----------------------------
(***************************************************************************)
(* The pure rules on delivered text (ra2/domain): how the physical rows of *)
(* a file become records (parsing/recovery.py, called by analyse_file),    *)
(* and which spans of a narrative get which placeholder (scrub.py).        *)
(*                                                                         *)
(* A row is what it opens with and how many fields it has; a narrative is  *)
(* a sequence of words, each known by its two normalised forms, and a      *)
(* span is from one word to another.                                       *)
(***************************************************************************)
EXTENDS Integers, Sequences, FiniteSets, SequencesExt

Nothing == <<>>   \* no pending row, or no key
-----------------------------------------------------------------------------
(* recover_rows.  "anchor": begins with a key; "more": does not; "error":  *)
(* the csv reader refused it; "blank": every field is empty.               *)

Rejected(i, row) == [lines |-> <<i>>, fields |-> row.fields, outcome |-> "rejected"]

Pending(i, row) ==
  [lines |-> <<i>>, fields |-> row.fields, span |-> row.span, broken |-> FALSE]

Flush(p, kind, expected) ==
  LET collapsed == kind = "text" /\ p.fields > 2
      fields    == IF collapsed THEN 2 ELSE p.fields IN
  [lines |-> p.lines, fields |-> fields,
   outcome |-> IF p.broken \/ (expected > 0 /\ fields # expected) THEN "rejected"
               ELSE IF Len(p.lines) > 1 \/ p.span > 1 \/ collapsed THEN "recovered"
               ELSE "ok"]

Flushed(s, kind, expected) ==
  s.out \o [k \in DOMAIN s.pending |-> Flush(s.pending[k], kind, expected)]

\* Slip: a row the reader refused takes the pending one with it.
TakesAlone(s, i, row, kind, expected) ==
  IF row.opens = "error" THEN [pending |-> Nothing, out |-> Append(s.out, Rejected(i, row))]
  ELSE IF kind = "unknown" \/ row.opens = "anchor"
    THEN [pending |-> <<Pending(i, row)>>, out |-> Flushed(s, kind, expected)]
  ELSE IF s.pending = Nothing THEN [s EXCEPT !.out = Append(@, Rejected(i, row))]
  ELSE [s EXCEPT !.pending[1].lines = Append(@, i), !.pending[1].broken = kind # "text"]

\* The loop's body.  A continuation joins the last field of a narrative and
\* breaks a row of a table.
Takes(s, i, row, kind, expected) ==
  IF row.opens = "error"
    THEN [pending |-> Nothing, out |-> Append(Flushed(s, kind, expected), Rejected(i, row))]
  ELSE IF kind = "unknown" \/ row.opens = "anchor"
    THEN [pending |-> <<Pending(i, row)>>, out |-> Flushed(s, kind, expected)]
  ELSE IF s.pending = Nothing THEN [s EXCEPT !.out = Append(@, Rejected(i, row))]
  ELSE [s EXCEPT !.pending[1].lines = Append(@, i), !.pending[1].broken = kind # "text"]

RecoverRows(rows, kind, expected) ==
  LET after[i \in 0 .. Len(rows)] ==
        IF i = 0 THEN [pending |-> Nothing, out |-> <<>>]
        ELSE IF rows[i].opens = "blank" THEN after[i - 1]
        ELSE Takes(after[i - 1], i, rows[i], kind, expected)
  IN Flushed(after[Len(rows)], kind, expected)

\* What the file's analysis says of its rows, and which of them it keeps.
AnalyseFile(rows, kind, expected) ==
  LET out == RecoverRows(rows, kind, expected)
      Count(outcome) == Cardinality({k \in DOMAIN out : out[k].outcome = outcome}) IN
  [records |-> out,
   kept    |-> {k \in DOMAIN out : out[k].outcome # "rejected"},
   dropped |-> {i \in DOMAIN rows : rows[i].opens = "blank"},
   counts  |-> [ok |-> Count("ok"), recovered |-> Count("recovered"), rejected |-> Count("rejected")]]
-----------------------------------------------------------------------------
(* Scrubber.  A candidate is a span, its tag and value, and the order of   *)
(* its rule; what is chosen does not overlap, so a span is known by the    *)
(* word it starts at.                                                      *)

Overlap(a, b) == a.first <= b.last /\ b.first <= a.last

\* The greedy loops of both kinds of rules: of what starts at some words, and
\* ends at `last`, what starts beyond the reach of all that was taken before.
Taken(n, last) ==
  LET reach[i \in 0 .. n] ==
        IF i = 0 THEN 0
        ELSE IF i \in DOMAIN last /\ reach[i - 1] < i THEN last[i] ELSE reach[i - 1]
  IN {i \in DOMAIN last : reach[i - 1] < i}

\* Of the candidates that start at a word the longest, then that of the first rule.
Before(a, b) == a.last > b.last \/ (a.last = b.last /\ a.order < b.order)

ResolveRegex(text, found) ==
  LET From(i) == {c \in found : c.first = i}
      best == [i \in {c.first : c \in found} |-> CHOOSE c \in From(i) : \A d \in From(i) : ~Before(d, c)]
  IN {best[i] : i \in Taken(Len(text.words), [i \in DOMAIN best |-> best[i].last])}
-----------------------------------------------------------------------------
(* Name lists.  A word is [stripped, spelt]: without its accents, and with *)
(* them written out.  Both forms of an entry lead to its spelt form, unless*)
(* an entry before it holds the form.                                      *)

Forms(words, form) == [k \in DOMAIN words |-> words[k][form]]

NameIndex(entries) ==
  FoldLeft(LAMBDA keys, e :
             LET key == Forms(e, "spelt") IN keys @@ (Forms(e, "stripped") :> key) @@ (key :> key),
           <<>>, entries)

Lookup(index, words) ==
  LET Held(form) == Forms(words, form) \in DOMAIN index IN
  IF Held("spelt") THEN index[Forms(words, "spelt")]
  ELSE IF Held("stripped") THEN index[Forms(words, "stripped")] ELSE Nothing

\* `text` is the words, which of them are joined to the next, and which have
\* an honorific before them; `lists` the three indexes.
Window(text, lists, i, n) ==
  LET words == SubSeq(text.words, i, i + n - 1) IN
  [first |-> i, last |-> i + n - 1,
   firstname |-> Lookup(lists.firstnames, words), lastname |-> Lookup(lists.lastnames, words),
   white |-> Lookup(lists.whitelist, words) # Nothing /\ i \notin text.honorific]

\* The window sizes at which a word begins a name.
NamesAt(text, lists, i) ==
  {n \in 1 .. Len(text.words) - i + 1 :
     LET w == Window(text, lists, i, n) IN
     /\ i .. i + n - 2 \subseteq text.joined
     /\ {w.firstname, w.lastname} # {Nothing} /\ ~w.white}

\* The names, by the word they begin at: the longest there, left to right.
MatchTokens(text, lists) ==
  LET size == [i \in {j \in DOMAIN text.words : NamesAt(text, lists, j) # {}} |->
                 CHOOSE n \in NamesAt(text, lists, i) : \A m \in NamesAt(text, lists, i) : m <= n]
  IN [i \in Taken(Len(text.words), [j \in DOMAIN size |-> j + size[j] - 1]) |-> Window(text, lists, i, size[i])]

\* Where the match is that one joins to the next.
Adjacent(text, matches, i) == {j \in DOMAIN matches : j = matches[i].last + 1 /\ matches[i].last \in text.joined}

\* Which list's tag and key a match takes; `tags` are those of the matches before,
\* `decided` what was decided of an entry on both lists the first time.
Tag(text, matches, i, tags, decided) ==
  LET m == matches[i] IN
  IF m.lastname = Nothing THEN <<"Firstname", m.firstname>>
  ELSE IF m.firstname = Nothing THEN <<"Lastname", m.lastname>>
  ELSE IF \E j \in Adjacent(text, matches, i) : matches[j].lastname # Nothing THEN <<"Firstname", m.firstname>>
  ELSE IF \E j \in DOMAIN tags : i \in Adjacent(text, matches, j) /\ tags[j][1] = "Firstname"
    THEN <<"Lastname", m.lastname>>
  ELSE IF m.lastname \in DOMAIN decided THEN decided[m.lastname]
  ELSE <<"Name", m.lastname>>

Tags(text, matches) ==
  LET after[i \in 0 .. Len(text.words)] ==
        IF i = 0 THEN [tags |-> <<>>, decided |-> <<>>]
        ELSE IF i \notin DOMAIN matches THEN after[i - 1]
        ELSE LET s == after[i - 1]
                 m == matches[i]
                 tag == Tag(text, matches, i, s.tags, s.decided) IN
             [tags |-> s.tags @@ (i :> tag),
              decided |-> IF Nothing \notin {m.firstname, m.lastname} THEN s.decided @@ (m.lastname :> tag)
                          ELSE s.decided]
  IN after[Len(text.words)].tags

TagNames(text, matches) ==
  LET tags == Tags(text, matches) IN
  {[first |-> matches[i].first, last |-> matches[i].last, tag |-> tags[i][1], value |-> tags[i][2]] :
     i \in DOMAIN matches}
-----------------------------------------------------------------------------
Span(c) == [first |-> c.first, last |-> c.last, tag |-> c.tag, value |-> c.value]

\* By the word it starts at.
ByStart(spans) == [i \in {c.first : c \in spans} |-> CHOOSE c \in spans : c.first = i]

\* Slip: a name is replaced though a rule has claimed a part of it.
ChosenBoth(text, lists, found) ==
  ByStart({Span(c) : c \in ResolveRegex(text, found) \cup TagNames(text, MatchTokens(text, lists))})

Chosen(text, lists, found) ==
  LET claimed == ResolveRegex(text, found)
      names   == {c \in TagNames(text, MatchTokens(text, lists)) : \A d \in claimed : ~Overlap(c, d)}
  IN ByStart({Span(c) : c \in claimed \cup names})

Value(c) == <<c.tag, c.value>>

First(chosen, i) == \A j \in DOMAIN chosen : j < i => Value(chosen[j]) # Value(chosen[i])

\* _replace: a value's number is its place among the values of its tag.
Number(chosen, k) ==
  LET own == CHOOSE i \in DOMAIN chosen : First(chosen, i) /\ Value(chosen[i]) = Value(chosen[k]) IN
  Cardinality({i \in DOMAIN chosen : i <= own /\ First(chosen, i) /\ chosen[i].tag = chosen[k].tag})

Scrub(text, lists, found) ==
  LET chosen == Chosen(text, lists, found) IN
  [k \in DOMAIN chosen |-> [hit |-> chosen[k], number |-> Number(chosen, k)]]
=============================================================================
