---------------------------- MODULE DeliveryRules ----------------------------
(***************************************************************************)
(* From the kept rows of the selected files to the records of a corpus:    *)
(* what validate_delivery finds (ra2/domain/validation.py), what a freeze  *)
(* builds (CorpusService._build_records) and what the census counts of it  *)
(* (domain/census.py).                                                     *)
(*                                                                         *)
(* A delivery is its accidents, objects, persons and narratives, each a    *)
(* sequence of rows in file order, and whether a text file is selected.    *)
(* A row holds its own key, which its anchor made sure of; a reference to  *)
(* a parent may be empty.  Accidents and objects may come in several files;*)
(* what an accident declares is a set of one number, or empty.  Rows are   *)
(* grouped by their places, which keep the order of the files.             *)
(***************************************************************************)
EXTENDS Integers, Sequences, FiniteSets

Unset == "unset"   \* an empty cell

RowKeys(rows)   == {rows[i].key : i \in DOMAIN rows}
FilesOf(rows)   == {rows[i].file : i \in DOMAIN rows}
InFile(rows, f) == {i \in DOMAIN rows : rows[i].file = f}

\* What the rows of one file refer to.
References(rows, f) == {rows[i].parent : i \in InFile(rows, f)} \ {Unset}
-----------------------------------------------------------------------------
(* What is found across files.                                             *)

\* One is about a row, by its key, or about a whole file.
Finding(code, table, key)     == [code |-> code, table |-> table, key |-> key, file |-> 0]
FileFinding(code, table, file) == [code |-> code, table |-> table, key |-> Unset, file |-> file]

Blocking == {"DUP_KEY_CROSS_SET", "ORPHAN_FK", "SET_UNRESOLVED"}

\* Slip: a key is looked for again in its own file only.
DuplicateKeysInFile(rows, table) ==
  {Finding("DUP_KEY_CROSS_SET", table, k) :
     k \in {l \in RowKeys(rows) : \E i, j \in DOMAIN rows :
              i # j /\ rows[i].key = l /\ rows[j].key = l /\ rows[i].file = rows[j].file}}

\* _duplicate_keys
DuplicateKeys(rows, table) ==
  {Finding("DUP_KEY_CROSS_SET", table, k) :
     k \in {l \in RowKeys(rows) : \E i, j \in DOMAIN rows : i # j /\ rows[i].key = l /\ rows[j].key = l}}

\* _orphans: an empty reference is none.
Orphans(children, table, parents) ==
  {Finding("ORPHAN_FK", table, children[i].key) :
     i \in {j \in DOMAIN children : children[j].parent \notin RowKeys(parents) \cup {Unset}}}

\* _best_overlap: the first file that shares the most keys, if any shares one.
BestOverlap(keys, parents) ==
  LET shared(f) == Cardinality(keys \cap {parents[i].key : i \in InFile(parents, f)}) IN
  {f \in FilesOf(parents) : shared(f) > 0 /\
     \A g \in FilesOf(parents) : shared(g) < shared(f) \/ (shared(g) = shared(f) /\ f <= g)}

\* _resolve_sets: the accident file an object file belongs to, and through it
\* the persons.
SetOf(d, f) == BestOverlap(References(d.objekt, f), d.unfall)

PersonSetOf(d, f) == UNION {SetOf(d, g) : g \in BestOverlap(References(d.person, f), d.objekt)}

Unresolved(d) ==
  {FileFinding("SET_UNRESOLVED", "objekt", f) : f \in {g \in FilesOf(d.objekt) : SetOf(d, g) = {}}}
    \cup {FileFinding("SET_UNRESOLVED", "person", f) : f \in {g \in FilesOf(d.person) : PersonSetOf(d, g) = {}}}

\* objekt_to_unfall: of two objects of one key the later row counts.
AccidentOf(d, o) ==
  {d.objekt[i].parent : i \in {j \in DOMAIN d.objekt :
     /\ d.objekt[j].key = o /\ d.objekt[j].parent # Unset
     /\ \A k \in DOMAIN d.objekt : d.objekt[k].key = o /\ d.objekt[k].parent # Unset => k <= j}}

ObjectsOf(d, u) == {i \in DOMAIN d.objekt : d.objekt[i].parent = u}
PersonsOf(d, u) == {i \in DOMAIN d.person : AccidentOf(d, d.person[i].parent) = {u}}

\* _count_mismatches: what an accident declares, if it declares a number.
CountMismatches(d) ==
  UNION {LET u == d.unfall[i] IN
         (IF ~(u.declared.objekt \subseteq {Cardinality(ObjectsOf(d, u.key))})
            THEN {Finding("COUNT_MISMATCH_OBJ", "unfall", u.key)} ELSE {})
           \cup (IF ~(u.declared.person \subseteq {Cardinality(PersonsOf(d, u.key))})
                   THEN {Finding("COUNT_MISMATCH_PERS", "unfall", u.key)} ELSE {})
         : i \in DOMAIN d.unfall}

\* _text_join
TextJoin(d) ==
  IF ~d.hasText \/ d.unfall = <<>> THEN {}
  ELSE {Finding("TEXT_KEY_UNMATCHED", "text", k) : k \in RowKeys(d.text) \ RowKeys(d.unfall)}
         \cup {Finding("UNFALL_WITHOUT_TEXT", "unfall", k) : k \in RowKeys(d.unfall) \ RowKeys(d.text)}

ValidateDelivery(d) ==
  Unresolved(d)
    \cup DuplicateKeys(d.unfall, "unfall") \cup DuplicateKeys(d.objekt, "objekt")
    \cup DuplicateKeys(d.person, "person")
    \cup Orphans(d.objekt, "objekt", d.unfall) \cup Orphans(d.person, "person", d.objekt)
    \cup CountMismatches(d) \cup TextJoin(d)
-----------------------------------------------------------------------------
(* What is built.                                                          *)

\* _group: the rows of one parent.
Group(rows, key) == {i \in DOMAIN rows : rows[i].parent = key}

\* _narratives: the last row of a key, unless its narrative is empty; then the
\* anonymised column of the accident.
TextFor(d, u) ==
  LET ofKey == {i \in DOMAIN d.text : d.text[i].key = u.key}
      told  == {i \in ofKey : d.text[i].story # Unset /\ \A k \in ofKey : k <= i} IN
  IF told # {} THEN [story |-> d.text[CHOOSE i \in told : TRUE].story, anonymised |-> FALSE]
  ELSE [story |-> u.anonymised, anonymised |-> u.anonymised # Unset]

\* _build_objekt_rows, _build_person_rows: persons hang off objects.
BuildPersons(d, o) == [k \in Group(d.person, o.key) |-> d.person[k].key]

BuildObjects(d, u) ==
  [j \in Group(d.objekt, u.key) |-> [key |-> d.objekt[j].key, persons |-> BuildPersons(d, d.objekt[j])]]

BuildRecords(d) ==
  [i \in DOMAIN d.unfall |->
     [key |-> d.unfall[i].key, text |-> TextFor(d, d.unfall[i]), objekt |-> BuildObjects(d, d.unfall[i])]]

\* Where the objects and the persons of the records are.
ObjectPlaces(records) == UNION {{<<i, j>> : j \in DOMAIN records[i].objekt} : i \in DOMAIN records}

PersonPlaces(records) ==
  UNION {{<<p[1], p[2], k>> : k \in DOMAIN records[p[1]].objekt[p[2]].persons} : p \in ObjectPlaces(records)}

\* The key cells of each table, as the census input gets them.
KeyCells(records, table) ==
  CASE table = "unfall" -> [i \in DOMAIN records |-> records[i].key]
    [] table = "objekt" -> [p \in ObjectPlaces(records) |-> records[p[1]].objekt[p[2]].key]
    [] table = "person" -> [p \in PersonPlaces(records) |-> records[p[1]].objekt[p[2]].persons[p[3]]]

\* _bucket_label_for: fifths of the records, of any table; none is "empty".
Bucket(populated, records) ==
  IF populated = 0 THEN "empty"
  ELSE IF 5 * populated <= records THEN "20-0"
  ELSE IF 5 * populated <= 2 * records THEN "40-20"
  ELSE IF 5 * populated <= 3 * records THEN "60-40"
  ELSE IF 5 * populated <= 4 * records THEN "80-60"
  ELSE "100-80"

\* compute_census of one column: `cells` are what its rows hold.
Census(cells, records) ==
  LET filled == {p \in DOMAIN cells : cells[p] # Unset} IN
  [populated |-> Cardinality(filled), distinct |-> Cardinality({cells[p] : p \in filled}),
   bucket |-> Bucket(Cardinality(filled), records)]

\* freeze: a blocking finding writes nothing; the others go into the report.
FreezeDelivery(d) ==
  LET found == ValidateDelivery(d)  records == BuildRecords(d) IN
  IF \E f \in found : f.code \in Blocking
    THEN [frozen |-> FALSE, report |-> found, records |-> <<>>, census |-> <<>>]
    ELSE [frozen |-> TRUE, report |-> found, records |-> records,
          census |-> [t \in {"unfall", "objekt", "person"} |-> Census(KeyCells(records, t), Len(records))]]
=============================================================================
