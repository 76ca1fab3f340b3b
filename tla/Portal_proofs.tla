---------------------------- MODULE Portal_proofs -----------------------------
(***************************************************************************)
(* The properties of the portal's run, for any files, requests, templates, *)
(* accounts, roles, workers and agents and any bounds.                     *)
(*                                                                         *)
(* The components share nothing and one of them moves, so that an          *)
(* invariant of the portal is one of each of them.  Every section below    *)
(* states the inductive invariant of a component, what it is at the start  *)
(* and that the component's steps keep it; the handlers' is in             *)
(* AccountHandlers_proofs.  The last two sections put them together        *)
(* (PortalInv) and draw the properties from them.                          *)
(*                                                                         *)
(* Most of what an invariant adds to its property is what the steps under  *)
(* way hold: an import its rows left, an action the statuses it was made   *)
(* on, a call the mode it is about to write, a heartbeat the file it is    *)
(* about to save.                                                          *)
(***************************************************************************)
EXTENDS Portal, Sequences, FiniteSetTheorems, TLAPS

-----------------------------------------------------------------------------
(* The import of a file of employees.                                      *)

CsvLine == [Csv!Field -> Csv!Value]
CsvGroups == {Csv!NoGroups, Csv!FileGroups, Csv!TypedGroups}
                 \cup [from : {"templates"}, department : Csv!Value, job : Csv!Value]
CsvRow == [line : Nat, person : Csv!Value, department : Csv!Value, job : Csv!Value,
           groups : CsvGroups]
ImportedRequest == [id : Nat, status : {"waiting_approval", "pending"},
                    ad_payload : [person : Csv!Value, department : Csv!Value]]

CsvTypes ==
    /\ text \in Files \cup {Csv!NoFile} /\ records \in Seq(CsvLine) /\ rows \in Seq(CsvRow)
    /\ mapping \in [Csv!Field -> Csv!Field \cup {Csv!Auto}]
    /\ approving \in BOOLEAN /\ templates \in Catalogues
    /\ server \in Seq(ImportedRequest) /\ shown \subseteq DOMAIN server
    /\ clicks \in Nat

\* The groups a row has of the templates are those of its service and post.
GroupsFit(row) ==
    row.groups.from = "templates"
       => /\ row.groups.department = row.department
          /\ row.groups.job \in {row.job, Csv!Blank}

\* The rows still to be posted are complete, and each is of another person or
\* service than the others and than those posted since the click.
ImportFits ==
    \/ importing = Csv!NoImport
    \/ /\ DOMAIN importing = {"stage", "todo", "results"}
       /\ importing.stage \in {"post", "reload"}
       /\ importing.stage = "post" =>
             \A i \in DOMAIN importing.todo :
                /\ importing.todo[i] \in CsvRow
                /\ GroupsFit(importing.todo[i]) /\ ~Csv!HasErrors(importing.todo[i])
                /\ \A j \in DOMAIN importing.todo :
                      Csv!RowKey(importing.todo[j]) = Csv!RowKey(importing.todo[i]) => j = i
                /\ \A p \in posted :
                      p.click = clicks => Csv!RowKey(p.row) # Csv!RowKey(importing.todo[i])

PostedFit == \A p \in posted : /\ p \in [click : Nat, row : CsvRow] /\ p.click <= clicks
                               /\ GroupsFit(p.row)

CsvInv ==
    /\ CsvTypes /\ ImportFits /\ PostedFit /\ Csv!ImportsAreAsShown
    /\ \A i \in DOMAIN rows : GroupsFit(rows[i])

LEMMA CsvCounts ==
    ASSUME NEW S
    PROVE  Csv!Cardinality(S) = Cardinality(S)
  BY DEF Csv!Cardinality, Cardinality, Csv!IsFiniteSet, IsFiniteSet

LEMMA TemplateGroupsFit ==
    ASSUME NEW d \in Csv!Value, NEW j \in Csv!Value
    PROVE  /\ Csv!TemplateGroups(d, j) \in CsvGroups
           /\ Csv!TemplateGroups(d, j).from = "templates"
                 => /\ Csv!TemplateGroups(d, j).department = d
                    /\ Csv!TemplateGroups(d, j).job \in {j, Csv!Blank}
  <1>1. Csv!Blank \in Csv!Value
    BY DEF Csv!Value
  <1>2. CASE d \in DOMAIN templates
    BY <1>1, <1>2 DEF Csv!TemplateGroups, CsvGroups
  <1>3. CASE d \notin DOMAIN templates
    BY <1>3 DEF Csv!TemplateGroups, CsvGroups, Csv!NoGroups
  <1> QED
    BY <1>2, <1>3

LEMMA RowFromFits ==
    ASSUME NEW record \in CsvLine, NEW columns \in [Csv!Field -> Csv!Field \cup {Csv!Auto}],
           NEW n \in Nat
    PROVE  Csv!RowFrom(record, columns, n) \in CsvRow /\ GroupsFit(Csv!RowFrom(record, columns, n))
  <1>1. \A f \in Csv!Field : Csv!MappedValue(record, columns, f) \in Csv!Value
    BY DEF Csv!MappedValue, CsvLine
  <1>2. "person" \in Csv!Field /\ "department" \in Csv!Field /\ "job" \in Csv!Field
    BY DEF Csv!Field
  <1> DEFINE d == Csv!MappedValue(record, columns, "department")
             j == Csv!MappedValue(record, columns, "job")
             p == Csv!MappedValue(record, columns, "person")
             found == Csv!TemplateGroups(d, j)
             groups == IF found = Csv!NoGroups THEN Csv!FileGroups ELSE found
  <1>3. d \in Csv!Value /\ j \in Csv!Value /\ p \in Csv!Value
    BY <1>1, <1>2
  <1>4. /\ groups \in CsvGroups
        /\ groups.from = "templates" => groups.department = d /\ groups.job \in {j, Csv!Blank}
    BY <1>3, TemplateGroupsFit DEF CsvGroups, Csv!FileGroups
  <1>5. Csv!RowFrom(record, columns, n)
           = [line |-> n, person |-> p, department |-> d, job |-> j, groups |-> groups]
    BY DEF Csv!RowFrom
  <1> HIDE DEF d, j, p, groups
  <1> QED
    BY <1>3, <1>4, <1>5 DEF CsvRow, GroupsFit

LEMMA BuildRowsFit ==
    ASSUME NEW lines \in Seq(CsvLine), NEW columns \in [Csv!Field -> Csv!Field \cup {Csv!Auto}]
    PROVE  /\ Csv!BuildRows(lines, columns) \in Seq(CsvRow)
           /\ \A i \in DOMAIN Csv!BuildRows(lines, columns) :
                 GroupsFit(Csv!BuildRows(lines, columns)[i])
  <1>1. \A i \in 1..Len(lines) : /\ Csv!RowFrom(lines[i], columns, i + 1) \in CsvRow
                                 /\ GroupsFit(Csv!RowFrom(lines[i], columns, i + 1))
    <2> TAKE i \in 1..Len(lines)
    <2>1. lines[i] \in CsvLine /\ i + 1 \in Nat
      OBVIOUS
    <2> QED
      BY <2>1, RowFromFits
  <1>2. Csv!BuildRows(lines, columns)
           = [i \in 1..Len(lines) |-> Csv!RowFrom(lines[i], columns, i + 1)]
    BY DEF Csv!BuildRows
  <1> QED
    BY <1>1, <1>2

LEMMA EditedRowFits ==
    ASSUME Csv!CsvAssumption, CsvInv, NEW row \in CsvRow, GroupsFit(row),
           NEW f \in Csv!Field \cup {"groups"}, NEW v \in Csv!Values(f)
    PROVE  Csv!EditedRow(row, f, v) \in CsvRow /\ GroupsFit(Csv!EditedRow(row, f, v))
  <1> DEFINE listed == IF row.department = v THEN <<>>
                      ELSE IF v \in DOMAIN templates THEN templates[v] ELSE <<>>
             first == IF Len(listed) > 0 /\ row.job \notin Csv!Range(listed)
                      THEN listed[1] ELSE row.job
  <1>1. row.job \in Csv!Value /\ row.department \in Csv!Value /\ row.person \in Csv!Value
        /\ row.line \in Nat /\ row.groups \in CsvGroups
    BY DEF CsvRow
  <1>2. listed \in Seq(Job)
    BY DEF Csv!CsvAssumption, CsvInv, CsvTypes
  <1>3. first \in Csv!Value
    <2> HIDE DEF listed
    <2>1. Len(listed) > 0 => listed[1] \in Job
      BY <1>2
    <2> QED
      BY <1>1, <2>1 DEF Csv!Value
  <1>4. CASE f = "department"
    <2>1. v \in Csv!Value
      BY <1>4 DEF Csv!Values, Csv!Value
    <2>2. Csv!EditedRow(row, f, v) = [row EXCEPT !.department = v, !.job = first,
                                                 !.groups = Csv!TemplateGroups(v, first)]
      BY <1>4 DEF Csv!EditedRow
    <2> HIDE DEF first
    <2>3. /\ Csv!TemplateGroups(v, first) \in CsvGroups
          /\ Csv!TemplateGroups(v, first).from = "templates"
                 => /\ Csv!TemplateGroups(v, first).department = v
                    /\ Csv!TemplateGroups(v, first).job \in {first, Csv!Blank}
      BY <1>3, <2>1, TemplateGroupsFit
    <2> QED
      BY <1>1, <1>3, <2>1, <2>2, <2>3 DEF CsvRow, GroupsFit
  <1>5. CASE f = "job"
    <2>1. v \in Csv!Value
      BY <1>5 DEF Csv!Values, Csv!Value
    <2>2. Csv!EditedRow(row, f, v)
             = [row EXCEPT !.job = v, !.groups = Csv!TemplateGroups(row.department, v)]
      BY <1>5 DEF Csv!EditedRow
    <2>3. /\ Csv!TemplateGroups(row.department, v) \in CsvGroups
          /\ Csv!TemplateGroups(row.department, v).from = "templates"
                 => /\ Csv!TemplateGroups(row.department, v).department = row.department
                    /\ Csv!TemplateGroups(row.department, v).job \in {v, Csv!Blank}
      BY <1>1, <2>1, TemplateGroupsFit
    <2> QED
      BY <1>1, <2>1, <2>2, <2>3 DEF CsvRow, GroupsFit
  <1>6. CASE f = "person"
    <2>1. v \in Csv!Value /\ Csv!EditedRow(row, f, v) = [row EXCEPT !.person = v]
      BY <1>6 DEF Csv!Values, Csv!Value, Csv!EditedRow
    <2> QED
      BY <1>1, <2>1 DEF CsvRow, GroupsFit
  <1>7. CASE f = "groups"
    <2>1. v = Csv!TypedGroups /\ Csv!EditedRow(row, f, v) = [row EXCEPT !.groups = v]
      BY <1>7 DEF Csv!Values, Csv!EditedRow
    <2> QED
      BY <1>1, <2>1 DEF CsvRow, GroupsFit, Csv!TypedGroups, CsvGroups
  <1> QED
    BY <1>4, <1>5, <1>6, <1>7 DEF Csv!Field

LEMMA RemovedRowFits ==
    ASSUME NEW table \in Seq(CsvRow), NEW i \in DOMAIN table,
           \A k \in DOMAIN table : GroupsFit(table[k])
    PROVE  /\ Csv!RemoveAt(table, i) \in Seq(CsvRow)
           /\ \A k \in DOMAIN Csv!RemoveAt(table, i) : GroupsFit(Csv!RemoveAt(table, i)[k])
  <1>1. i \in 1..Len(table) /\ Len(table) \in Nat
    OBVIOUS
  <1> DEFINE before == SubSeq(table, 1, i - 1)
             after == SubSeq(table, i + 1, Len(table))
  <1>2. /\ before \in Seq(CsvRow) /\ Len(before) = i - 1
        /\ \A k \in 1..Len(before) : before[k] = table[k]
    BY <1>1
  <1>3. /\ after \in Seq(CsvRow) /\ Len(after) = Len(table) - i
        /\ \A k \in 1..Len(after) : after[k] = table[i + k]
    BY <1>1
  <1>4. Csv!RemoveAt(table, i) = before \o after
    BY DEF Csv!RemoveAt
  <1> HIDE DEF before, after
  <1>5. \A k \in 1..Len(before) : GroupsFit(before[k])
    BY <1>1, <1>2
  <1>6. \A k \in 1..Len(after) : GroupsFit(after[k])
    <2> TAKE k \in 1..Len(after)
    <2>1. i + k \in DOMAIN table
      BY <1>1, <1>3
    <2> QED
      BY <1>3, <2>1
  <1>7. before \o after \in Seq(CsvRow)
    BY <1>2, <1>3
  <1>8. ASSUME NEW k \in DOMAIN (before \o after)
        PROVE  GroupsFit((before \o after)[k])
    <2>1. k \in 1..(Len(before) + Len(after))
      BY <1>2, <1>3
    <2>2. CASE k <= Len(before)
      BY <1>2, <1>3, <1>5, <2>1, <2>2
    <2>3. CASE k > Len(before)
      <3>1. Len(before) \in Nat /\ Len(after) \in Nat
        BY <1>2, <1>3
      <3>2. k - Len(before) \in 1..Len(after)
        BY <2>1, <2>3, <3>1
      <3>3. (before \o after)[k] = after[k - Len(before)]
        BY <1>2, <1>3, <2>1, <2>3, <3>1
      <3> QED
        BY <1>6, <3>2, <3>3
    <2> QED
      BY <1>2, <2>1, <2>2, <2>3
  <1> QED
    BY <1>4, <1>7, <1>8

\* Two places of the table that hold one key are one place, when the row
\* there is complete and repeats none.
LEMMA RepeatsAreOnePlace ==
    ASSUME rows \in Seq(CsvRow), NEW i \in DOMAIN rows, NEW j \in DOMAIN rows,
           ~Csv!HasErrors(rows[i]), ~Csv!RepeatsInFile(rows[i]),
           Csv!RowKey(rows[j]) = Csv!RowKey(rows[i])
    PROVE  j = i
  <1> DEFINE same == {k \in DOMAIN rows : Csv!RowKey(rows[k]) = Csv!RowKey(rows[i])}
  <1>1. rows[i].person # Csv!Blank
    BY DEF Csv!HasErrors, Csv!Field
  <1>2. Csv!RowKey(rows[i]) # Csv!NoKey
    BY <1>1 DEF Csv!RowKey, Csv!NoKey
  <1>3. ~(Cardinality(same) > 1)
    BY <1>2, CsvCounts DEF Csv!RepeatsInFile
  <1>4. IsFiniteSet(same)
    <2>1. IsFiniteSet(1..Len(rows))
      BY FS_Interval
    <2>2. same \in SUBSET (1..Len(rows))
      OBVIOUS
    <2> HIDE DEF same
    <2> QED
      BY <2>1, <2>2, FS_Subset
  <1>5. {i} \cup {j} \in SUBSET same
    OBVIOUS
  <1> HIDE DEF same
  <1>6. Cardinality({i} \cup {j}) <= Cardinality(same)
    BY <1>4, <1>5, FS_Subset
  <1>7. ASSUME j # i
        PROVE  Cardinality({i} \cup {j}) = 2
    <2> PICK one : one = {i}
      OBVIOUS
    <2>1. IsFiniteSet(one) /\ Cardinality(one) = 1 /\ j \notin one
      BY <1>7, FS_Singleton
    <2>2. Cardinality(one \cup {j}) = Cardinality(one) + 1
      BY <2>1, FS_AddElement
    <2>3. Cardinality(one \cup {j}) = 2
      BY <2>1, <2>2
    <2> QED
      BY <2>3
  <1>8. Cardinality(same) \in Nat
    BY <1>4, FS_CardinalityType
  <1>9. ASSUME j # i
        PROVE  FALSE
    <2>1. 2 <= Cardinality(same)
      BY <1>6, <1>7, <1>9
    <2> QED
      BY <1>3, <1>8, <2>1
  <1> QED
    BY <1>9

LEMMA CsvInit ==
    ASSUME Csv!Init
    PROVE  CsvInv
  <1>1. CsvTypes
    <2>1. /\ text = Csv!NoFile /\ records = <<>> /\ rows = <<>> /\ approving = FALSE
          /\ templates \in Catalogues /\ server = <<>> /\ shown = {} /\ clicks = 0
      BY DEF Csv!Init
    <2>2. mapping \in [Csv!Field -> Csv!Field \cup {Csv!Auto}]
      BY DEF Csv!Init
    <2>3. <<>> \in Seq(CsvLine) /\ <<>> \in Seq(CsvRow) /\ <<>> \in Seq(ImportedRequest)
      OBVIOUS
    <2> QED
      BY <2>1, <2>2, <2>3 DEF CsvTypes
  <1>2. rows = <<>> /\ posted = {} /\ importing = Csv!NoImport
    BY DEF Csv!Init
  <1> QED
    BY <1>1, <1>2 DEF CsvInv, ImportFits, PostedFit, Csv!ImportsAreAsShown

\* Nothing changes of the import and of what was posted.
LEMMA ImportStays ==
    ASSUME CsvInv, UNCHANGED <<importing, posted, clicks>>
    PROVE  ImportFits' /\ PostedFit' /\ Csv!ImportsAreAsShown'
  BY DEF CsvInv, ImportFits, PostedFit, Csv!ImportsAreAsShown

\* The table is edited, parsed or mapped again.
LEMMA TableChanges ==
    ASSUME CsvInv,
           UNCHANGED <<importing, approving, templates, server, shown, posted, clicks>>,
           text' \in Files \cup {Csv!NoFile}, records' \in Seq(CsvLine),
           mapping' \in [Csv!Field -> Csv!Field \cup {Csv!Auto}],
           rows' \in Seq(CsvRow), \A i \in DOMAIN rows' : GroupsFit(rows'[i])
    PROVE  CsvInv'
  <1>1. CsvTypes'
    BY DEF CsvInv, CsvTypes
  <1> QED
    BY <1>1, ImportStays DEF CsvInv

\* The server and what the portal holds of it change: the table does not.
LEMMA ServerChanges ==
    ASSUME CsvInv, UNCHANGED Csv!page, clicks' \in Nat,
           approving' \in BOOLEAN, templates' \in Catalogues,
           server' \in Seq(ImportedRequest), shown' \subseteq DOMAIN server',
           ImportFits', PostedFit', Csv!ImportsAreAsShown'
    PROVE  CsvInv'
  <1>1. CsvTypes'
    BY DEF CsvInv, CsvTypes, Csv!page
  <1> QED
    BY <1>1 DEF CsvInv, Csv!page

\* The click: the rows that are valid are complete and of different keys, and
\* none was posted by it yet.
LEMMA ImportStarts ==
    ASSUME CsvInv, Csv!ImportValidRows
    PROVE  CsvInv'
  <1> PICK valid : valid = Csv!ValidRows
    OBVIOUS
  <1>1. /\ importing' = [stage |-> "post", todo |-> valid, results |-> <<>>]
        /\ clicks' = clicks + 1
        /\ UNCHANGED <<Csv!page, approving, templates, server, shown, posted>>
    BY DEF Csv!ImportValidRows
  <1>2. \A i \in DOMAIN valid : /\ i \in DOMAIN rows /\ valid[i] = rows[i]
                                /\ ~Csv!HasErrors(rows[i]) /\ ~Csv!RepeatsInFile(rows[i])
    BY DEF Csv!ValidRows, Csv!Restrict
  <1>3. clicks \in Nat /\ rows \in Seq(CsvRow) /\ \A i \in DOMAIN rows : GroupsFit(rows[i])
    BY DEF CsvInv, CsvTypes
  <1>4. ASSUME NEW i \in DOMAIN valid
        PROVE  /\ valid[i] \in CsvRow /\ GroupsFit(valid[i]) /\ ~Csv!HasErrors(valid[i])
               /\ \A j \in DOMAIN valid :
                     Csv!RowKey(valid[j]) = Csv!RowKey(valid[i]) => j = i
    <2>1. /\ i \in DOMAIN rows /\ valid[i] = rows[i]
          /\ ~Csv!HasErrors(rows[i]) /\ ~Csv!RepeatsInFile(rows[i])
      BY <1>2
    <2>2. ASSUME NEW j \in DOMAIN valid, Csv!RowKey(valid[j]) = Csv!RowKey(valid[i])
          PROVE  j = i
      <3>1. j \in DOMAIN rows /\ valid[j] = rows[j]
        BY <1>2
      <3> QED
        BY <1>3, <2>1, <2>2, <3>1, RepeatsAreOnePlace
    <2>3. rows[i] \in CsvRow
      BY <1>3, <2>1
    <2> QED
      BY <1>3, <2>1, <2>2, <2>3
  <1>5. \A p \in posted : p.click # clicks' /\ p.click <= clicks'
    BY <1>1, <1>3 DEF CsvInv, PostedFit
  <1>6. ImportFits'
    <2>1. /\ DOMAIN importing' = {"stage", "todo", "results"} /\ importing'.stage = "post"
          /\ importing'.todo = valid /\ posted' = posted
      BY <1>1
    <2> QED
      BY <1>4, <1>5, <2>1 DEF ImportFits
  <1>7. PostedFit' /\ Csv!ImportsAreAsShown'
    BY <1>1, <1>5 DEF CsvInv, PostedFit, Csv!ImportsAreAsShown
  <1>8. clicks' \in Nat
    BY <1>1, <1>3
  <1> QED
    BY <1>1, <1>6, <1>7, <1>8, ServerChanges DEF CsvInv, CsvTypes

LEMMA PostRowKeeps ==
    ASSUME CsvInv, importing.stage = "post", NEW i \in DOMAIN importing.todo,
           NEW arrives \in BOOLEAN, NEW answered \in BOOLEAN, Csv!PostRow(i, arrives, answered)
    PROVE  CsvInv'
  <1> PICK row : row = importing.todo[i]
    OBVIOUS
  <1> PICK new : new = [click |-> clicks, row |-> row]
    OBVIOUS
  <1>1. /\ posted' = posted \cup {new}
        /\ UNCHANGED <<Csv!page, approving, templates, shown, clicks>>
    BY DEF Csv!PostRow
  <1>2. importing # Csv!NoImport
    BY DEF Csv!NoImport
  <1>3. /\ DOMAIN importing = {"stage", "todo", "results"}
        /\ row \in CsvRow /\ GroupsFit(row) /\ ~Csv!HasErrors(row)
        /\ \A j \in DOMAIN importing.todo :
              Csv!RowKey(importing.todo[j]) = Csv!RowKey(row) => j = i
        /\ \A p \in posted : p.click = clicks => Csv!RowKey(p.row) # Csv!RowKey(row)
    BY <1>2 DEF CsvInv, ImportFits
  <1>4. /\ DOMAIN importing' = {"stage", "todo", "results"} /\ importing'.stage = "post"
        /\ importing'.todo = Csv!Restrict(importing.todo, DOMAIN importing.todo \ {i})
    BY <1>3 DEF Csv!PostRow
  <1>5. \A k \in DOMAIN importing'.todo :
           k \in DOMAIN importing.todo /\ k # i /\ importing'.todo[k] = importing.todo[k]
    BY <1>4 DEF Csv!Restrict
  <1>6. clicks \in Nat /\ new.click = clicks /\ new.row = row
        /\ new \in [click : Nat, row : CsvRow]
    BY <1>3 DEF CsvInv, CsvTypes
  <1>7. ImportFits'
    <2>1. ASSUME NEW k \in DOMAIN importing'.todo
          PROVE  /\ importing'.todo[k] \in CsvRow
                 /\ GroupsFit(importing'.todo[k]) /\ ~Csv!HasErrors(importing'.todo[k])
                 /\ \A j \in DOMAIN importing'.todo :
                       Csv!RowKey(importing'.todo[j]) = Csv!RowKey(importing'.todo[k]) => j = k
                 /\ \A p \in posted' : p.click = clicks =>
                       Csv!RowKey(p.row) # Csv!RowKey(importing'.todo[k])
      <3>1. k \in DOMAIN importing.todo /\ k # i /\ importing'.todo[k] = importing.todo[k]
        BY <1>5
      <3>2. /\ importing.todo[k] \in CsvRow
            /\ GroupsFit(importing.todo[k]) /\ ~Csv!HasErrors(importing.todo[k])
            /\ \A j \in DOMAIN importing.todo :
                  Csv!RowKey(importing.todo[j]) = Csv!RowKey(importing.todo[k]) => j = k
            /\ \A p \in posted :
                  p.click = clicks => Csv!RowKey(p.row) # Csv!RowKey(importing.todo[k])
        BY <1>2, <3>1 DEF CsvInv, ImportFits
      <3>3. Csv!RowKey(row) # Csv!RowKey(importing.todo[k])
        BY <1>3, <3>1
      <3> QED
        BY <1>1, <1>5, <1>6, <3>1, <3>2, <3>3
    <2> QED
      BY <1>1, <1>4, <2>1 DEF ImportFits
  <1>8. PostedFit'
    BY <1>1, <1>3, <1>6 DEF CsvInv, PostedFit
  <1>9. Csv!ImportsAreAsShown'
    <2>1. ASSUME NEW p \in posted'
          PROVE  /\ ~Csv!HasErrors(p.row) /\ GroupsFit(p.row)
      BY <1>1, <1>3, <1>6 DEF CsvInv, PostedFit, Csv!ImportsAreAsShown
    <2>2. ASSUME NEW p \in posted', NEW q \in posted', p.click = q.click,
                 Csv!RowKey(p.row) = Csv!RowKey(q.row)
          PROVE  p = q
      BY <1>1, <1>3, <1>6, <2>2 DEF CsvInv, Csv!ImportsAreAsShown
    <2> QED
      BY <2>1, <2>2 DEF Csv!ImportsAreAsShown, GroupsFit
  <1>10. server' \in Seq(ImportedRequest) /\ shown' \subseteq DOMAIN server'
    <2> DEFINE sent == [id |-> Len(server) + 1, status |-> "waiting_approval",
                            ad_payload |-> [person |-> row.person,
                                            department |-> row.department]]
    <2> PICK request : request = sent
      OBVIOUS
    <2>1. server' = Append(server, request) \/ server' = server
      BY DEF Csv!PostRow
    <2>2. server \in Seq(ImportedRequest) /\ shown \subseteq DOMAIN server /\ Len(server) \in Nat
      BY DEF CsvInv, CsvTypes
    <2>3. request \in ImportedRequest
      BY <1>3, <2>2 DEF ImportedRequest, CsvRow
    <2> HIDE DEF sent
    <2> QED
      BY <1>1, <2>1, <2>2, <2>3
  <1>11. clicks' \in Nat /\ approving' \in BOOLEAN /\ templates' \in Catalogues
    BY <1>1 DEF CsvInv, CsvTypes
  <1> QED
    BY <1>1, <1>7, <1>8, <1>9, <1>10, <1>11, ServerChanges

\* The list the portal holds is what it was, or all there is.
LEMMA ListReadFits ==
    ASSUME CsvInv, Csv!ListRead, UNCHANGED server
    PROVE  shown' \subseteq DOMAIN server'
  BY DEF Csv!ListRead, CsvInv, CsvTypes

LEMMA CsvStep ==
    ASSUME Csv!CsvAssumption, CsvInv, [Csv!Next]_(Csv!vars)
    PROVE  CsvInv'
  <1>1. /\ text \in Files \cup {Csv!NoFile} /\ records \in Seq(CsvLine) /\ rows \in Seq(CsvRow)
        /\ mapping \in [Csv!Field -> Csv!Field \cup {Csv!Auto}]
        /\ approving \in BOOLEAN /\ templates \in Catalogues
        /\ server \in Seq(ImportedRequest) /\ shown \subseteq DOMAIN server
        /\ clicks \in Nat /\ \A i \in DOMAIN rows : GroupsFit(rows[i])
    BY DEF CsvInv, CsvTypes
  <1>2. ASSUME NEW f \in Files, Csv!TypeText(f)
        PROVE  CsvInv'
    BY <1>1, <1>2, TableChanges DEF Csv!TypeText
  <1>3. <<>> \in Seq(CsvRow) /\ <<>> \in Seq(CsvLine) /\ \A i \in DOMAIN <<>> : GroupsFit(<<>>[i])
    OBVIOUS
  <1>4. ASSUME NEW f \in Files, Csv!ReadFile(f)
        PROVE  CsvInv'
    <2>1. /\ UNCHANGED <<importing, approving, templates, server, shown, posted, clicks>>
          /\ text' = f /\ records' = <<>> /\ rows' = <<>>
      BY <1>4 DEF Csv!ReadFile
    <2>2. mapping' \in [Csv!Field -> Csv!Field \cup {Csv!Auto}]
      BY <1>4 DEF Csv!ReadFile
    <2> QED
      BY <1>3, <2>1, <2>2, TableChanges
  <1>5. CASE Csv!ParseCsv
    <2>1. UNCHANGED <<text, importing, approving, templates, server, shown, posted, clicks>>
      BY <1>5 DEF Csv!ParseCsv
    <2>2. CASE text = Csv!NoFile \/ text = <<>>
      <3>1. rows' = <<>> /\ UNCHANGED <<records, mapping>>
        BY <1>5, <2>2 DEF Csv!ParseCsv
      <3> QED
        BY <1>1, <1>3, <2>1, <3>1, TableChanges
    <2>3. CASE ~(text = Csv!NoFile \/ text = <<>>)
      <3>1. /\ records' = text /\ mapping' = [f \in Csv!Field |-> f]
            /\ rows' = Csv!BuildRows(records', mapping')
        BY <1>5, <2>3 DEF Csv!ParseCsv
      <3>2. records' \in Seq(CsvLine)
        BY <1>1, <2>3, <3>1 DEF Csv!CsvAssumption, CsvLine
      <3>3. mapping' \in [Csv!Field -> Csv!Field \cup {Csv!Auto}]
        BY <3>1
      <3>4. rows' \in Seq(CsvRow) /\ \A i \in DOMAIN rows' : GroupsFit(rows'[i])
        BY <3>1, <3>2, <3>3, BuildRowsFit
      <3> QED
        BY <1>1, <2>1, <3>2, <3>3, <3>4, TableChanges
    <2> QED
      BY <2>2, <2>3
  <1>6. CASE Csv!ApplyColumnMapping
    <2>1. rows' \in Seq(CsvRow) /\ \A i \in DOMAIN rows' : GroupsFit(rows'[i])
      BY <1>1, <1>6, BuildRowsFit DEF Csv!ApplyColumnMapping
    <2> QED
      BY <1>1, <1>6, <2>1, TableChanges DEF Csv!ApplyColumnMapping
  <1>7. ASSUME NEW f \in Csv!Field, NEW c \in Csv!Field \cup {Csv!Auto},
               Csv!UpdateColumnMapping(f, c)
        PROVE  CsvInv'
    <2>1. mapping' \in [Csv!Field -> Csv!Field \cup {Csv!Auto}]
      BY <1>1, <1>7 DEF Csv!UpdateColumnMapping
    <2> QED
      BY <1>1, <1>7, <2>1, TableChanges DEF Csv!UpdateColumnMapping
  <1>8. ASSUME NEW i \in DOMAIN rows, NEW f \in Csv!Field \cup {"groups"},
               NEW v \in Csv!Values(f), Csv!UpdateRow(i, f, v)
        PROVE  CsvInv'
    <2> DEFINE edited == Csv!EditedRow(rows[i], f, v)
    <2>1. edited \in CsvRow /\ GroupsFit(edited)
      <3>1. rows[i] \in CsvRow /\ GroupsFit(rows[i])
        BY <1>1
      <3> QED
        BY <3>1, EditedRowFits
    <2>2. rows' = [rows EXCEPT ![i] = edited]
      BY <1>8 DEF Csv!UpdateRow
    <2> HIDE DEF edited
    <2>3. rows' \in Seq(CsvRow) /\ \A k \in DOMAIN rows' : GroupsFit(rows'[k])
      BY <1>1, <2>1, <2>2
    <2> QED
      BY <1>1, <1>8, <2>3, TableChanges DEF Csv!UpdateRow
  <1>9. ASSUME NEW i \in DOMAIN rows, Csv!RemoveRow(i)
        PROVE  CsvInv'
    <2>1. rows' \in Seq(CsvRow) /\ \A k \in DOMAIN rows' : GroupsFit(rows'[k])
      BY <1>1, <1>9, RemovedRowFits DEF Csv!RemoveRow
    <2> QED
      BY <1>1, <1>9, <2>1, TableChanges DEF Csv!RemoveRow
  <1>10. CASE Csv!ImportValidRows
    BY <1>10, ImportStarts
  <1>11. ASSUME importing.stage = "post", NEW i \in DOMAIN importing.todo,
                NEW arrives \in BOOLEAN, NEW answered \in BOOLEAN,
                Csv!PostRow(i, arrives, answered)
         PROVE  CsvInv'
    BY <1>11, PostRowKeeps
  <1>12. CASE Csv!ReportImport
    <2>1. /\ importing' = [importing EXCEPT !.stage = "reload"] /\ importing.stage = "post"
          /\ UNCHANGED <<Csv!page, approving, templates, server, shown, posted, clicks>>
      BY <1>12 DEF Csv!ReportImport
    <2>2. ImportFits'
      <3>1. DOMAIN importing = {"stage", "todo", "results"}
        BY <2>1 DEF CsvInv, ImportFits, Csv!NoImport
      <3>2. DOMAIN importing' = {"stage", "todo", "results"} /\ importing'.stage = "reload"
        BY <2>1, <3>1
      <3> QED
        BY <3>2 DEF ImportFits
    <2>3. PostedFit' /\ Csv!ImportsAreAsShown'
      BY <2>1 DEF CsvInv, PostedFit, Csv!ImportsAreAsShown
    <2> QED
      BY <1>1, <2>1, <2>2, <2>3, ServerChanges
  <1>13. CASE Csv!EndImport
    <2>1. /\ importing' = Csv!NoImport
          /\ UNCHANGED <<Csv!page, approving, templates, server, posted, clicks>>
          /\ Csv!ListRead
      BY <1>13 DEF Csv!EndImport
    <2>2. ImportFits' /\ PostedFit' /\ Csv!ImportsAreAsShown'
      BY <2>1 DEF CsvInv, ImportFits, PostedFit, Csv!ImportsAreAsShown
    <2> QED
      BY <1>1, <2>1, <2>2, ListReadFits, ServerChanges
  <1>14. CASE Csv!LiveRefresh
    <2>1. shown' \subseteq DOMAIN server' /\ templates' \in Catalogues
      BY <1>14 DEF Csv!LiveRefresh
    <2> QED
      BY <1>1, <1>14, <2>1, ImportStays, ServerChanges DEF Csv!LiveRefresh
  <1>15. CASE Csv!ApproveImported
    BY <1>1, <1>15, ImportStays, ServerChanges DEF Csv!ApproveImported
  <1>16. ASSUME NEW flow \in flows, NEW b \in BOOLEAN, Csv!ConfirmApproval(flow, b)
         PROVE  CsvInv'
    <2>1. approving' \in BOOLEAN
      BY <1>1, <1>16 DEF Csv!ConfirmApproval
    <2> QED
      BY <1>1, <1>16, <2>1, ImportStays, ServerChanges DEF Csv!ConfirmApproval
  <1>17. ASSUME NEW flow \in flows, NEW b \in BOOLEAN, Csv!ApproveOne(flow, b)
         PROVE  CsvInv'
    <2>1. /\ UNCHANGED <<Csv!page, importing, approving, templates, shown, posted, clicks>>
          /\ \/ UNCHANGED server
             \/ \E id : server' = [server EXCEPT ![id].status = "pending"]
      BY <1>17 DEF Csv!ApproveOne
    <2>2. server' \in Seq(ImportedRequest) /\ DOMAIN server' = DOMAIN server
      <3>1. CASE UNCHANGED server
        BY <1>1, <3>1
      <3>2. ASSUME NEW id, server' = [server EXCEPT ![id].status = "pending"]
            PROVE  server' \in Seq(ImportedRequest) /\ DOMAIN server' = DOMAIN server
        <4>1. \A r \in ImportedRequest : [r EXCEPT !.status = "pending"] \in ImportedRequest
          BY DEF ImportedRequest
        <4>2. server \in [1..Len(server) -> ImportedRequest] /\ Len(server) \in Nat
          BY <1>1
        <4>3. DOMAIN server' = DOMAIN server
          BY <3>2
        <4>4. \A k \in DOMAIN server : server'[k] \in ImportedRequest
          <5> TAKE k \in DOMAIN server
          <5>1. CASE k = id
            BY <3>2, <4>1, <4>2, <5>1
          <5>2. CASE k # id
            BY <3>2, <4>2, <5>2
          <5> QED
            BY <5>1, <5>2
        <4>5. server' = [k \in 1..Len(server) |-> server'[k]]
          BY <3>2, <4>2
        <4>6. server' \in [1..Len(server) -> ImportedRequest]
          BY <4>2, <4>4, <4>5
        <4> QED
          BY <4>2, <4>3, <4>6
      <3> QED
        BY <2>1, <3>1, <3>2
    <2> QED
      BY <1>1, <2>1, <2>2, ImportStays, ServerChanges
  <1>18. ASSUME NEW flow \in flows, Csv!EndApproval(flow)
         PROVE  CsvInv'
    <2>1. /\ approving' = FALSE
          /\ UNCHANGED <<Csv!page, importing, templates, server, posted, clicks>>
          /\ Csv!ListRead
      BY <1>18 DEF Csv!EndApproval
    <2> QED
      BY <1>1, <2>1, ListReadFits, ImportStays, ServerChanges
  <1>19. CASE UNCHANGED Csv!vars
    BY <1>1, <1>19, TableChanges DEF Csv!vars
  <1> QED
    BY <1>2, <1>4, <1>5, <1>6, <1>7, <1>8, <1>9, <1>10, <1>11, <1>12, <1>13, <1>14, <1>15,
       <1>16, <1>17, <1>18, <1>19 DEF Csv!Next
-----------------------------------------------------------------------------
(* The list of requests: the selection, the pages and the actions.         *)

Seen == Requests!Status \cup {Requests!Absent}
RequestKind == {"approve", "reject", "retry"} \cup Requests!Bulk
SeenBy == UNION {[requests -> Seen] : requests \in SUBSET Request}
RequestFlow == [n : Nat, kind : RequestKind, todo : SUBSET Request, done : SUBSET Request,
                seen : SeenBy, among : SUBSET Request]
Drawer == {Requests!NoDrawer} \cup [open : {TRUE}, request : Request, status : Seen]

RequestsTypes ==
    /\ status \in [Request -> Seen] /\ shown \in [Request -> Seen]
    /\ loads \subseteq [Request -> Seen]
    /\ search \in Searches /\ statusFilter \in StatusFilters
    /\ requestPage \in Nat \ {0} /\ requestPageSize \in PageSizes
    /\ selected \subseteq Request /\ drawer \in Drawer
    /\ flows \subseteq RequestFlow
    /\ ui \in Nat /\ started \in Nat

RequestsInv == RequestsTypes /\ Requests!ActionsAreOnWhatWasSeen

\* What the second half of ActionsAreOnWhatWasSeen says of an action.
AsSeen(flow) ==
    \A r \in flow.todo :
        /\ r \in flow.among
        /\ flow.seen[r] \in IF Requests!Effect(flow.kind) = "rejected"
                               \/ flow.kind \in Requests!Approvals
                            THEN {"waiting_approval"} ELSE {"failed", "rejected"}

LEMMA MaxOfTwo ==
    ASSUME NEW m \in Int, NEW n \in Int
    PROVE  /\ Requests!Max({m, n}) = IF m <= n THEN n ELSE m
           /\ Requests!Min({m, n}) = IF m <= n THEN m ELSE n
  <1> DEFINE big == IF m <= n THEN n ELSE m
             small == IF m <= n THEN m ELSE n
  <1>1. \A x \in {m, n} : (\A y \in {m, n} : x >= y) <=> x = big
    OBVIOUS
  <1>2. \A x \in {m, n} : (\A y \in {m, n} : x <= y) <=> x = small
    OBVIOUS
  <1>3. big \in {m, n} /\ small \in {m, n}
    OBVIOUS
  <1> HIDE DEF big, small
  <1>4. Requests!Max({m, n}) = big
    BY <1>1, <1>3 DEF Requests!Max
  <1>5. Requests!Min({m, n}) = small
    BY <1>2, <1>3 DEF Requests!Min
  <1> QED
    BY <1>4, <1>5 DEF big, small

\* There is always a page, and the page shown after a change is one of them.
LEMMA PagesOf ==
    ASSUME NEW size \in Nat \ {0}, NEW n \in Nat
    PROVE  /\ Requests!Max({1, (n + size - 1) \div size}) \in Nat \ {0}
           /\ \A from \in Nat \ {0} :
                 LET least == Requests!Min({from, Requests!Max({1, (n + size - 1) \div size})})
                 IN  /\ least \in Nat \ {0}
                     /\ least <= Requests!Max({1, (n + size - 1) \div size})
  <1>1. (n + size - 1) \div size \in Int
    OBVIOUS
  <1> PICK d \in Int : d = (n + size - 1) \div size
    BY <1>1
  <1>2. Requests!Max({1, d}) \in Nat \ {0}
    BY MaxOfTwo
  <1> PICK total \in Nat \ {0} : total = Requests!Max({1, d})
    BY <1>2
  <1>3. ASSUME NEW from \in Nat \ {0}
        PROVE  /\ Requests!Min({from, total}) \in Nat \ {0}
               /\ Requests!Min({from, total}) <= total
    <2>1. from \in Int /\ total \in Int
      OBVIOUS
    <2>2. Requests!Min({from, total}) = IF from <= total THEN from ELSE total
      BY <2>1, MaxOfTwo
    <2> QED
      BY <2>2
  <1> QED
    BY <1>3

LEMMA SameCounts ==
    ASSUME NEW S
    PROVE  /\ Requests!Cardinality(S) = Cardinality(S)
           /\ Requests!IsFiniteSet(S) <=> IsFiniteSet(S)
  BY DEF Requests!Cardinality, Cardinality, Requests!IsFiniteSet, IsFiniteSet

LEMMA FilteredAre ==
    ASSUME Requests!RequestsAssumption
    PROVE  /\ Requests!FilteredRequests \in SUBSET Request
           /\ Requests!Cardinality(Requests!FilteredRequests) \in Nat
           /\ Requests!FilteredRequests' \in SUBSET Request
           /\ Requests!Cardinality(Requests!FilteredRequests') \in Nat
  <1>1. /\ Requests!FilteredRequests \in SUBSET Request
        /\ Requests!FilteredRequests' \in SUBSET Request
    BY DEF Requests!FilteredRequests
  <1>2. IsFiniteSet(Request)
    BY SameCounts DEF Requests!RequestsAssumption
  <1>3. ASSUME NEW S \in SUBSET Request
        PROVE  Requests!Cardinality(S) \in Nat
    <2>1. Cardinality(S) \in Nat
      BY <1>2, FS_Subset, FS_CardinalityType
    <2> QED
      BY <2>1, SameCounts
  <1> QED
    BY <1>1, <1>3

LEMMA SeenByIs ==
    ASSUME NEW requests \in SUBSET Request, NEW seen \in [requests -> Seen]
    PROVE  seen \in SeenBy
  BY DEF SeenBy

LEMMA RequestsInit ==
    ASSUME Requests!RequestsAssumption, Requests!Init
    PROVE  RequestsInv
  <1>1. RequestsTypes
    BY DEF Requests!Init, Requests!RequestsAssumption, RequestsTypes, Seen, Drawer
  <1>2. requestPage <= Requests!TotalPages(Requests!Cardinality(Requests!FilteredRequests))
    <2>1. requestPageSize \in Nat \ {0} /\ requestPage = 1
      BY DEF Requests!Init, Requests!RequestsAssumption
    <2>2. Requests!TotalPages(Requests!Cardinality(Requests!FilteredRequests)) \in Nat \ {0}
      BY <2>1, FilteredAre, PagesOf DEF Requests!TotalPages
    <2> QED
      BY <2>1, <2>2
  <1> QED
    BY <1>1, <1>2 DEF Requests!Init, RequestsInv, Requests!ActionsAreOnWhatWasSeen

LEMMA FilteredStay ==
    ASSUME UNCHANGED <<shown, search, statusFilter, typeFilter>>
    PROVE  Requests!FilteredRequests' = Requests!FilteredRequests
  BY DEF Requests!FilteredRequests, Requests!Matches

\* Nothing changes of the list, of the filters or of the page.
LEMMA ListStays ==
    ASSUME Requests!RequestsAssumption, RequestsInv,
           UNCHANGED <<shown, search, statusFilter, typeFilter, requestPage, requestPageSize>>,
           status' \in [Request -> Seen], loads' \subseteq [Request -> Seen],
           selected' \subseteq Requests!FilteredRequests, drawer' \in Drawer,
           flows' \subseteq RequestFlow, \A flow \in flows' : AsSeen(flow),
           ui' \in Nat, started' \in Nat
    PROVE  RequestsInv'
  <1>1. Requests!FilteredRequests' = Requests!FilteredRequests
    BY FilteredStay
  <1>2. RequestsTypes'
    BY FilteredAre DEF RequestsInv, RequestsTypes
  <1> QED
    BY <1>1, <1>2
       DEF RequestsInv, Requests!ActionsAreOnWhatWasSeen, Requests!TotalPages, AsSeen

\* The list or the filters change: the page is drawn again.
LEMMA ListChanges ==
    ASSUME Requests!RequestsAssumption, RequestsInv, NEW from \in Nat \ {0},
           Requests!KeepsSelection, Requests!SettlesPage(from),
           UNCHANGED <<status, requestPageSize, drawer, flows, started>>,
           shown' \in [Request -> Seen], loads' \subseteq [Request -> Seen],
           search' \in Searches, statusFilter' \in StatusFilters, ui' \in Nat
    PROVE  RequestsInv'
  <1> PICK size \in Nat \ {0} : size = requestPageSize
    BY DEF RequestsInv, RequestsTypes, Requests!RequestsAssumption
  <1> PICK n \in Nat : n = Requests!Cardinality(Requests!FilteredRequests')
    BY FilteredAre
  <1> DEFINE total == Requests!Max({1, (n + size - 1) \div size})
  <1>1. Requests!TotalPages(Requests!Cardinality(Requests!FilteredRequests))' = total
    BY DEF Requests!TotalPages
  <1>2. requestPage' = Requests!Min({from, total})
    BY <1>1 DEF Requests!SettlesPage
  <1>3. requestPage' \in Nat \ {0} /\ requestPage' <= total
    BY <1>2, PagesOf
  <1> HIDE DEF total
  <1>4. selected' \subseteq Requests!FilteredRequests'
    BY DEF Requests!KeepsSelection
  <1>5. RequestsTypes'
    BY <1>3, <1>4, FilteredAre DEF RequestsInv, RequestsTypes
  <1>6. \A flow \in flows' : AsSeen(flow)
    BY DEF RequestsInv, Requests!ActionsAreOnWhatWasSeen, AsSeen
  <1> QED
    BY <1>1, <1>3, <1>4, <1>5, <1>6 DEF RequestsInv, Requests!ActionsAreOnWhatWasSeen, AsSeen

\* The page number or the size of the pages changes.
LEMMA PageChanges ==
    ASSUME Requests!RequestsAssumption, RequestsInv,
           UNCHANGED <<status, shown, search, statusFilter, typeFilter, selected, drawer, loads,
                       flows, started>>,
           requestPageSize' \in PageSizes, requestPage' \in Nat \ {0}, ui' \in Nat,
           \/ requestPage' = 1
           \/ /\ requestPageSize' = requestPageSize
              /\ requestPage' <= Requests!TotalPages(
                                     Requests!Cardinality(Requests!FilteredRequests))
    PROVE  RequestsInv'
  <1>1. Requests!FilteredRequests' = Requests!FilteredRequests
    BY FilteredStay
  <1>2. RequestsTypes'
    BY DEF RequestsInv, RequestsTypes
  <1> PICK size \in Nat \ {0} : size = requestPageSize'
    BY DEF Requests!RequestsAssumption
  <1> PICK n \in Nat : n = Requests!Cardinality(Requests!FilteredRequests')
    BY FilteredAre
  <1>3. /\ Requests!TotalPages(Requests!Cardinality(Requests!FilteredRequests))'
               = Requests!Max({1, (n + size - 1) \div size})
        /\ Requests!Max({1, (n + size - 1) \div size}) \in Nat \ {0}
    BY PagesOf DEF Requests!TotalPages
  <1>4. requestPageSize' = requestPageSize =>
            Requests!TotalPages(Requests!Cardinality(Requests!FilteredRequests))'
               = Requests!TotalPages(Requests!Cardinality(Requests!FilteredRequests))
    BY <1>1 DEF Requests!TotalPages
  <1>5. requestPage' <= Requests!TotalPages(Requests!Cardinality(Requests!FilteredRequests))'
    <2>1. CASE requestPage' = 1
      BY <1>3, <2>1
    <2>2. CASE requestPage' # 1
      BY <1>4, <2>2
    <2> QED
      BY <2>1, <2>2
  <1> QED
    BY <1>1, <1>2, <1>5 DEF RequestsInv, Requests!ActionsAreOnWhatWasSeen

\* What is kept of the actions and of the types when a step leaves them alone.
LEMMA FlowsStay ==
    ASSUME RequestsInv, UNCHANGED flows
    PROVE  flows' \subseteq RequestFlow /\ \A flow \in flows' : AsSeen(flow)
  BY DEF RequestsInv, RequestsTypes, Requests!ActionsAreOnWhatWasSeen, AsSeen

\* An action begins on requests that were seen in a status that offers it.
LEMMA FlowStarts ==
    ASSUME Requests!RequestsAssumption, RequestsInv, NEW kind \in RequestKind,
           NEW requests \in SUBSET Request, NEW seen,
           \A r \in requests : seen[r] \in Seen /\ Requests!Accepts(kind, seen[r]),
           kind \in {"approveSelected", "retrySelected"} => requests \subseteq selected,
           Requests!Starts(kind, requests, seen)
    PROVE  RequestsInv'
  <1> DEFINE as == [r \in requests |-> seen[r]]
             among == IF kind \in {"approveSelected", "retrySelected"} THEN selected ELSE Request
             begins == [n |-> started', kind |-> kind, todo |-> requests, done |-> {},
                        seen |-> as, among |-> among]
  <1> PICK flow : flow = begins
    OBVIOUS
  <1>1. /\ flows' = flows \cup {flow} /\ started' = started + 1
        /\ UNCHANGED <<status, shown, search, statusFilter, typeFilter, requestPage,
                       requestPageSize, selected, drawer, loads, ui>>
    BY DEF Requests!Starts, Requests!filters
  <1>2. as \in SeenBy
    BY SeenByIs
  <1>3. started' \in Nat /\ among \in SUBSET Request /\ requests \subseteq among
    BY <1>1 DEF RequestsInv, RequestsTypes
  <1>4. AsSeen(flow)
    <2>1. flow.todo = requests /\ flow.among = among /\ flow.seen = as /\ flow.kind = kind
      OBVIOUS
    <2>2. ASSUME NEW r \in requests
          PROVE  as[r] \in IF Requests!Effect(kind) = "rejected" \/ kind \in Requests!Approvals
                           THEN {"waiting_approval"} ELSE {"failed", "rejected"}
      BY DEF Requests!Accepts, Requests!Effect, Requests!Approvals
    <2> HIDE DEF begins, as, among
    <2> QED
      BY <1>3, <2>1, <2>2 DEF AsSeen
  <1> HIDE DEF as, among
  <1>5. flow \in RequestFlow
    BY <1>2, <1>3 DEF RequestFlow
  <1>6. flows' \subseteq RequestFlow /\ \A f \in flows' : AsSeen(f)
    BY <1>1, <1>4, <1>5 DEF RequestsInv, RequestsTypes, Requests!ActionsAreOnWhatWasSeen, AsSeen
  <1>7. selected' \subseteq Requests!FilteredRequests
    BY <1>1 DEF RequestsInv, Requests!ActionsAreOnWhatWasSeen
  <1>8. /\ status' \in [Request -> Seen] /\ loads' \subseteq [Request -> Seen]
        /\ drawer' \in Drawer /\ ui' \in Nat
    BY <1>1 DEF RequestsInv, RequestsTypes
  <1> QED
    BY <1>1, <1>3, <1>6, <1>7, <1>8, ListStays

LEMMA PostOneKeeps ==
    ASSUME Requests!RequestsAssumption, RequestsInv, NEW flow \in flows, NEW r \in flow.todo,
           NEW answered \in BOOLEAN, Requests!PostOne(flow, r, answered)
    PROVE  RequestsInv'
  <1> DEFINE goesOn == [flow EXCEPT !.todo = @ \ {r},
                                    !.done = IF answered THEN @ \cup {r} ELSE @]
  <1> PICK next : next = goesOn
    OBVIOUS
  <1>1. /\ flows' = (flows \ {flow}) \cup {next}
        /\ UNCHANGED <<shown, search, statusFilter, typeFilter, requestPage, requestPageSize,
                       selected, drawer, loads, ui, started>>
    BY DEF Requests!PostOne, Requests!filters
  <1>2. flow \in RequestFlow /\ AsSeen(flow)
    BY DEF RequestsInv, RequestsTypes, Requests!ActionsAreOnWhatWasSeen, AsSeen
  <1>3. /\ next \in RequestFlow /\ next.todo \subseteq flow.todo /\ next.among = flow.among
        /\ next.seen = flow.seen /\ next.kind = flow.kind
    BY <1>2 DEF RequestFlow
  <1>4. AsSeen(next)
    BY <1>2, <1>3 DEF AsSeen
  <1>5. flows' \subseteq RequestFlow /\ \A f \in flows' : AsSeen(f)
    BY <1>1, <1>3, <1>4 DEF RequestsInv, RequestsTypes, Requests!ActionsAreOnWhatWasSeen, AsSeen
  <1>6. Requests!Effect(flow.kind) \in Seen
    BY DEF Requests!Effect, Seen, Requests!Status
  <1>7. status' \in [Request -> Seen]
    BY <1>6 DEF Requests!PostOne, RequestsInv, RequestsTypes
  <1>8. /\ selected' \subseteq Requests!FilteredRequests /\ loads' \subseteq [Request -> Seen]
        /\ drawer' \in Drawer /\ ui' \in Nat /\ started' \in Nat
    BY <1>1 DEF RequestsInv, RequestsTypes, Requests!ActionsAreOnWhatWasSeen
  <1> QED
    BY <1>1, <1>5, <1>7, <1>8, ListStays

LEMMA RequestsStep ==
    ASSUME Requests!RequestsAssumption, RequestsInv, [Requests!Next]_(Requests!vars)
    PROVE  RequestsInv'
  <1>1. /\ status \in [Request -> Seen] /\ shown \in [Request -> Seen]
        /\ loads \subseteq [Request -> Seen] /\ selected \subseteq Requests!FilteredRequests
        /\ search \in Searches /\ statusFilter \in StatusFilters
        /\ requestPage \in Nat \ {0} /\ requestPageSize \in PageSizes
        /\ drawer \in Drawer /\ ui \in Nat /\ started \in Nat
        /\ Requests!FilteredRequests \in SUBSET Request
    BY FilteredAre DEF RequestsInv, RequestsTypes, Requests!ActionsAreOnWhatWasSeen
  <1>2. CASE Requests!LoadRequests
    <2>1. loads' \subseteq [Request -> Seen]
      BY <1>1, <1>2 DEF Requests!LoadRequests
    <2> QED
      BY <1>1, <1>2, <2>1, FlowsStay, ListStays DEF Requests!LoadRequests, Requests!filters
  <1>3. ASSUME NEW list \in loads, Requests!ListArrives(list)
        PROVE  RequestsInv'
    <2>1. /\ shown' \in [Request -> Seen] /\ loads' \subseteq [Request -> Seen]
          /\ search' \in Searches /\ statusFilter' \in StatusFilters /\ ui' \in Nat
      BY <1>1, <1>3 DEF Requests!ListArrives, Requests!filters
    <2> QED
      BY <1>1, <1>3, <2>1, ListChanges DEF Requests!ListArrives
  <1>4. ASSUME NEW r \in Request, Requests!ServerMoves(r)
        PROVE  RequestsInv'
    <2>1. PICK next \in Requests!Status : status' = [status EXCEPT ![r] = next]
      BY <1>4 DEF Requests!ServerMoves
    <2>2. status' \in [Request -> Seen]
      BY <1>1, <2>1 DEF Seen
    <2> QED
      BY <1>1, <1>4, <2>2, FlowsStay, ListStays DEF Requests!ServerMoves, Requests!filters
  <1>5. ASSUME NEW words \in Searches, NEW s \in StatusFilters, NEW t,
               Requests!SetFilters(words, s, t)
        PROVE  RequestsInv'
    <2>1. /\ shown' \in [Request -> Seen] /\ loads' \subseteq [Request -> Seen]
          /\ search' \in Searches /\ statusFilter' \in StatusFilters /\ ui' \in Nat
      BY <1>1, <1>5 DEF Requests!SetFilters, Requests!Ui
    <2> QED
      BY <1>5, <2>1, ListChanges DEF Requests!SetFilters
  <1>6. ASSUME NEW n \in {requestPage - 1, requestPage + 1},
               n \in 1..Requests!TotalPages(Requests!Cardinality(Requests!FilteredRequests)),
               Requests!SetPage(n)
        PROVE  RequestsInv'
    <2>1. /\ requestPage' \in Nat \ {0} /\ ui' \in Nat
          /\ requestPage' <= Requests!TotalPages(
                                 Requests!Cardinality(Requests!FilteredRequests))
      BY <1>1, <1>6 DEF Requests!SetPage, Requests!Ui
    <2> QED
      BY <1>1, <1>6, <2>1, PageChanges DEF Requests!SetPage, Requests!filters
  <1>7. ASSUME NEW size \in PageSizes, Requests!SetPageSize(size)
        PROVE  RequestsInv'
    <2>1. ui' \in Nat /\ requestPage' = 1 /\ requestPageSize' \in PageSizes
      BY <1>1, <1>7 DEF Requests!SetPageSize, Requests!Ui
    <2> QED
      BY <1>1, <1>7, <2>1, PageChanges DEF Requests!SetPageSize, Requests!filters
  <1>8. ASSUME selected' \subseteq Requests!FilteredRequests, ui' \in Nat,
               UNCHANGED <<status, shown, search, statusFilter, typeFilter, requestPage,
                           requestPageSize, drawer, loads, flows, started>>
        PROVE  RequestsInv'
    BY <1>1, <1>8, FlowsStay, ListStays
  <1>9. ASSUME NEW drawn \in Requests!PageRows, Requests!TogglePageSelection(drawn)
        PROVE  RequestsInv'
    <2>1. selected' \subseteq Requests!FilteredRequests /\ ui' \in Nat
      BY <1>1, <1>9 DEF Requests!TogglePageSelection, Requests!PageRows, Requests!Ui
    <2> QED
      BY <1>8, <1>9, <2>1 DEF Requests!TogglePageSelection, Requests!filters
  <1>10. ASSUME NEW drawn \in Requests!PageRows, NEW r \in drawn
         PROVE  r \in Requests!FilteredRequests /\ r \in Request
    BY <1>1 DEF Requests!PageRows
  <1>11. ASSUME NEW r \in Requests!FilteredRequests, Requests!ToggleRequestSelection(r)
         PROVE  RequestsInv'
    <2>1. selected' \subseteq Requests!FilteredRequests /\ ui' \in Nat
      BY <1>1, <1>11 DEF Requests!ToggleRequestSelection, Requests!Ui
    <2> QED
      BY <1>8, <1>11, <2>1 DEF Requests!ToggleRequestSelection, Requests!filters
  <1>12. ASSUME NEW r \in Request, Requests!OpenDrawer(r)
         PROVE  RequestsInv'
    <2>1. drawer' \in Drawer /\ ui' \in Nat
      BY <1>1, <1>12 DEF Requests!OpenDrawer, Requests!Ui, Drawer
    <2> QED
      BY <1>1, <1>12, <2>1, FlowsStay, ListStays DEF Requests!OpenDrawer, Requests!filters
  <1>13. ASSUME NEW kind \in {"approve", "reject", "retry"}, NEW r \in Request,
                Requests!ActOnRow(kind, r)
         PROVE  RequestsInv'
    <2>1. kind \in RequestKind /\ kind \notin {"approveSelected", "retrySelected"}
      BY DEF RequestKind
    <2>2. /\ {r} \in SUBSET Request
          /\ \A q \in {r} : shown[q] \in Seen /\ Requests!Accepts(kind, shown[q])
      BY <1>1, <1>13 DEF Requests!ActOnRow
    <2> QED
      BY <1>13, <2>1, <2>2, FlowStarts DEF Requests!ActOnRow
  <1>14. CASE Requests!ClearRequestSelection
    <2>1. selected' \subseteq Requests!FilteredRequests /\ ui' \in Nat
      BY <1>1, <1>14 DEF Requests!ClearRequestSelection, Requests!Ui
    <2> QED
      BY <1>8, <1>14, <2>1 DEF Requests!ClearRequestSelection, Requests!filters
  <1>15. CASE Requests!CloseDrawer
    <2>1. drawer' \in Drawer /\ ui' \in Nat
      BY <1>1, <1>15 DEF Requests!CloseDrawer, Requests!Ui, Drawer
    <2> QED
      BY <1>1, <1>15, <2>1, FlowsStay, ListStays DEF Requests!CloseDrawer, Requests!filters
  <1>16. ASSUME NEW kind \in {"approve", "reject", "retry"}, Requests!ActOnDrawer(kind)
         PROVE  RequestsInv'
    <2>1. kind \in RequestKind /\ kind \notin {"approveSelected", "retrySelected"}
      BY DEF RequestKind
    <2>2. drawer.open
      BY <1>16 DEF Requests!ActOnDrawer
    <2>3. drawer # Requests!NoDrawer
      BY <2>2 DEF Requests!NoDrawer
    <2>4. drawer.request \in Request /\ drawer.status \in Seen
      BY <1>1, <2>3 DEF Drawer
    <2> DEFINE seen == [r \in {drawer.request} |-> drawer.status]
    <2>5. /\ {drawer.request} \in SUBSET Request
          /\ \A q \in {drawer.request} : seen[q] \in Seen /\ Requests!Accepts(kind, seen[q])
      BY <1>16, <2>4 DEF Requests!ActOnDrawer
    <2>6. Requests!Starts(kind, {drawer.request}, seen)
      BY <1>16 DEF Requests!ActOnDrawer
    <2> HIDE DEF seen
    <2> QED
      BY <2>1, <2>5, <2>6, FlowStarts
  <1>17. ASSUME NEW kind \in Requests!Bulk, Requests!ActOnMany(kind)
         PROVE  RequestsInv'
    <2> PICK among : among = IF kind \in {"approveSelected", "retrySelected"}
                             THEN Requests!SelectedRequests ELSE Requests!FilteredRequests
      OBVIOUS
    <2> PICK requests : requests = {r \in among : Requests!Accepts(kind, shown[r])}
      OBVIOUS
    <2>1. kind \in RequestKind
      BY DEF RequestKind
    <2>2. Requests!Starts(kind, requests, shown)
      BY <1>17 DEF Requests!ActOnMany
    <2>3. /\ requests \in SUBSET Request
          /\ \A q \in requests : shown[q] \in Seen /\ Requests!Accepts(kind, shown[q])
          /\ kind \in {"approveSelected", "retrySelected"} => requests \subseteq selected
      BY <1>1 DEF Requests!SelectedRequests
    <2> QED
      BY <2>1, <2>2, <2>3, FlowStarts
  <1>18. ASSUME NEW flow \in flows, NEW r \in flow.todo, NEW answered \in BOOLEAN,
                Requests!PostOne(flow, r, answered)
         PROVE  RequestsInv'
    BY <1>18, PostOneKeeps
  <1>19. ASSUME NEW flow \in flows, Requests!EndFlow(flow)
         PROVE  RequestsInv'
    <2>1. /\ flows' = flows \ {flow} /\ selected' \subseteq selected
          /\ loads' \subseteq loads \cup {status}
          /\ UNCHANGED <<status, shown, search, statusFilter, typeFilter, requestPage,
                         requestPageSize, drawer, ui, started>>
      BY <1>19 DEF Requests!EndFlow, Requests!filters
    <2>2. flows' \subseteq RequestFlow /\ \A f \in flows' : AsSeen(f)
      BY <2>1 DEF RequestsInv, RequestsTypes, Requests!ActionsAreOnWhatWasSeen, AsSeen
    <2> QED
      BY <1>1, <2>1, <2>2, ListStays
  <1>20. CASE UNCHANGED Requests!vars
    <2>1. UNCHANGED <<status, shown, search, statusFilter, typeFilter, requestPage,
                      requestPageSize, selected, drawer, loads, flows, ui, started>>
      BY <1>20 DEF Requests!vars, Requests!filters
    <2> QED
      BY <1>1, <1>8, <2>1
  <1> QED
    BY <1>2, <1>3, <1>4, <1>5, <1>6, <1>7, <1>9, <1>10, <1>11, <1>12, <1>13, <1>14, <1>15,
       <1>16, <1>17, <1>18, <1>19, <1>20 DEF Requests!Next

\* What leaves the selection without the operator is hidden, or was done.
LEMMA RequestsUnselect ==
    ASSUME RequestsInv, [Requests!Next]_(Requests!vars)
    PROVE  Requests!UnselectsOnlyDone
  <1>1. CASE UNCHANGED selected
    BY <1>1 DEF Requests!UnselectsOnlyDone
  <1>2. CASE Requests!KeepsSelection
    BY <1>2 DEF Requests!UnselectsOnlyDone, Requests!KeepsSelection
  <1>3. CASE Requests!Ui
    BY <1>3 DEF Requests!UnselectsOnlyDone, Requests!Ui, RequestsInv, RequestsTypes
  <1>4. ASSUME NEW flow \in flows, Requests!EndFlow(flow)
        PROVE  Requests!UnselectsOnlyDone
    <2>1. flow \in flows \ flows' /\ selected' = selected \ Requests!Processed(flow)
      BY <1>4 DEF Requests!EndFlow
    <2>2. \A r \in Requests!Processed(flow) : r \in flow.done
      BY DEF Requests!Processed
    <2> QED
      BY <2>1, <2>2 DEF Requests!UnselectsOnlyDone
  <1>5. ASSUME NEW flow \in flows, NEW r, NEW answered, Requests!PostOne(flow, r, answered)
        PROVE  UNCHANGED selected
    BY <1>5 DEF Requests!PostOne
  <1>6. ASSUME NEW kind, NEW requests, NEW seen, Requests!Starts(kind, requests, seen)
        PROVE  UNCHANGED selected
    BY <1>6 DEF Requests!Starts
  <1> QED
    BY <1>1, <1>2, <1>3, <1>4, <1>5, <1>6
       DEF Requests!Next, Requests!LoadRequests, Requests!ListArrives, Requests!ServerMoves,
           Requests!SetFilters, Requests!SetPage, Requests!SetPageSize,
           Requests!TogglePageSelection, Requests!ToggleRequestSelection, Requests!OpenDrawer,
           Requests!ActOnRow, Requests!ActOnDrawer, Requests!ActOnMany,
           Requests!ClearRequestSelection, Requests!CloseDrawer, Requests!vars
-----------------------------------------------------------------------------
(* The templates and the forms that choose among them.                     *)

DepartmentOp == [kind : {"upsertDepartment", "deleteDepartment"}, department : Department,
                 groups : SUBSET Group]
RoleOp == [kind : {"upsertRole", "deleteRole"}, department : Department, role : Job,
           groups : SUBSET Group]
TemplateOp == DepartmentOp \cup RoleOp

TemplatesTypes ==
    /\ file \in Templates!TemplateFile /\ templates \in Templates!TemplateFile
    /\ loads \subseteq Templates!TemplateFile
    /\ \A h \in handlers : h.op \in TemplateOp /\ h.read \in Templates!TemplateFile
    /\ service \in [name : Department, groups : SUBSET Group]
    /\ post \in [department : Department \cup {Templates!Blank}, name : Job,
                 groups : SUBSET Group]
    /\ form \in [department : Department \cup {Templates!Blank},
                 job_title : Job \cup {Templates!Blank}]

TemplatesInv == TemplatesTypes /\ Templates!FormsFitTheTemplates

LEMMA PostsAre ==
    ASSUME NEW p
    PROVE  p \in Templates!Posts <=> \E names \in SUBSET Job : p \in [names -> SUBSET Group]
  BY DEF Templates!Posts

LEMMA TemplateFilesAre ==
    ASSUME NEW t
    PROVE  t \in Templates!TemplateFile <=>
              \E services \in SUBSET Department : t \in [services -> Templates!Service]
  BY DEF Templates!TemplateFile

LEMMA NothingIsAFile ==
    /\ Templates!NoTemplates \in Templates!TemplateFile
    /\ DOMAIN Templates!NoTemplates = {}
    /\ <<>> \in Templates!Posts
  <1>1. <<>> \in [{} -> Templates!Service] /\ <<>> \in [{} -> SUBSET Group]
    OBVIOUS
  <1> QED
    BY <1>1, PostsAre, TemplateFilesAre DEF Templates!NoTemplates

\* What a template file has.
LEMMA TemplatesHave ==
    ASSUME NEW t \in Templates!TemplateFile
    PROVE  /\ DOMAIN t \in SUBSET Department
           /\ \A d \in DOMAIN t : /\ t[d] \in Templates!Service
                                  /\ t[d].roles \in Templates!Posts
                                  /\ DOMAIN t[d].roles \in SUBSET Job
                                  /\ \A j \in DOMAIN t[d].roles : t[d].roles[j] \in SUBSET Group
           /\ \A d : Templates!Roles(t, d) \in Templates!Posts
           /\ \A d : DOMAIN Templates!Roles(t, d) \in SUBSET Job
  <1>1. PICK services \in SUBSET Department : t \in [services -> Templates!Service]
    BY TemplateFilesAre
  <1>2. \A d \in DOMAIN t : t[d] \in Templates!Service
    BY <1>1
  <1>3. \A d \in DOMAIN t : t[d].roles \in Templates!Posts
    BY <1>2 DEF Templates!Service
  <1>4. \A p \in Templates!Posts : DOMAIN p \in SUBSET Job
                                   /\ \A j \in DOMAIN p : p[j] \in SUBSET Group
    BY PostsAre
  <1>5. \A d : Templates!Roles(t, d) \in Templates!Posts
    BY <1>3, NothingIsAFile DEF Templates!Roles
  <1> QED
    BY <1>1, <1>2, <1>3, <1>4, <1>5

LEMMA WithPost ==
    ASSUME NEW p \in Templates!Posts, NEW j \in Job, NEW groups \in SUBSET Group
    PROVE  /\ Templates!With(p, j, groups) \in Templates!Posts
           /\ Templates!Without(p, j) \in Templates!Posts
  <1>1. PICK names \in SUBSET Job : p \in [names -> SUBSET Group]
    BY PostsAre
  <1>2. Templates!With(p, j, groups) \in [names \cup {j} -> SUBSET Group]
    BY <1>1 DEF Templates!With
  <1>3. Templates!Without(p, j) \in [names \ {j} -> SUBSET Group]
    BY <1>1 DEF Templates!Without, Templates!Restrict
  <1> QED
    BY <1>2, <1>3, PostsAre

LEMMA WithService ==
    ASSUME NEW t \in Templates!TemplateFile, NEW d \in Department, NEW s \in Templates!Service
    PROVE  /\ Templates!With(t, d, s) \in Templates!TemplateFile
           /\ Templates!Without(t, d) \in Templates!TemplateFile
           /\ d \in DOMAIN t => [t EXCEPT ![d] = s] \in Templates!TemplateFile
  <1>1. PICK services \in SUBSET Department : t \in [services -> Templates!Service]
    BY TemplateFilesAre
  <1>2. Templates!With(t, d, s) \in [services \cup {d} -> Templates!Service]
    BY <1>1 DEF Templates!With
  <1>3. Templates!Without(t, d) \in [services \ {d} -> Templates!Service]
    BY <1>1 DEF Templates!Without, Templates!Restrict
  <1>4. d \in DOMAIN t => [t EXCEPT ![d] = s] \in [services -> Templates!Service]
    BY <1>1
  <1> QED
    BY <1>1, <1>2, <1>3, <1>4, TemplateFilesAre

\* Each handler makes a template file of one.
LEMMA ChangedIsAFile ==
    ASSUME NEW t \in Templates!TemplateFile, NEW op \in TemplateOp
    PROVE  Templates!Changed(t, op) \in Templates!TemplateFile
  <1>1. op.department \in Department /\ op.groups \in SUBSET Group
    BY DEF TemplateOp, DepartmentOp, RoleOp
  <1>2. CASE op.kind = "upsertDepartment"
    <2>1. [default_groups |-> op.groups, roles |-> Templates!Roles(t, op.department)]
              \in Templates!Service
      BY <1>1, TemplatesHave DEF Templates!Service
    <2> QED
      BY <1>1, <1>2, <2>1, WithService DEF Templates!Changed, Templates!UpsertDepartment
  <1>3. CASE op.kind = "deleteDepartment"
    <2>1. [default_groups |-> {}, roles |-> <<>>] \in Templates!Service
      BY NothingIsAFile DEF Templates!Service
    <2> QED
      BY <1>1, <1>3, <2>1, WithService DEF Templates!Changed, Templates!DeleteDepartment
  <1>4. ASSUME NEW roles, op.department \in DOMAIN t => roles \in Templates!Posts
        PROVE  [t EXCEPT ![op.department].roles = roles] \in Templates!TemplateFile
    <2>1. CASE op.department \in DOMAIN t
      <3>1. t[op.department] \in Templates!Service
        BY <2>1, TemplatesHave
      <3>2. [t[op.department] EXCEPT !.roles = roles] \in Templates!Service
        BY <1>4, <2>1, <3>1 DEF Templates!Service
      <3> QED
        BY <1>1, <2>1, <3>2, WithService
    <2>2. CASE op.department \notin DOMAIN t
      <3>1. PICK services \in SUBSET Department : t \in [services -> Templates!Service]
        BY TemplateFilesAre
      <3>2. [t EXCEPT ![op.department].roles = roles] \in [services -> Templates!Service]
        BY <2>2, <3>1
      <3> QED
        BY <3>2, TemplateFilesAre
    <2> QED
      BY <2>1, <2>2
  <1>5. CASE op.kind \in {"upsertRole", "deleteRole"}
    <2>1. op.role \in Job
      BY <1>5 DEF TemplateOp, DepartmentOp, RoleOp
    <2> DEFINE roles == t[op.department].roles
               with == Templates!With(roles, op.role, op.groups)
               without == Templates!Without(roles, op.role)
    <2>2. op.department \in DOMAIN t =>
              with \in Templates!Posts /\ without \in Templates!Posts
      BY <1>1, <2>1, TemplatesHave, WithPost
    <2>3. CASE op.kind = "upsertRole"
      <3>1. Templates!Changed(t, op) = [t EXCEPT ![op.department].roles = with]
        BY <2>3 DEF Templates!Changed, Templates!UpsertRole
      <3> HIDE DEF with
      <3> QED
        BY <1>4, <2>2, <3>1
    <2>4. CASE op.kind = "deleteRole"
      <3>1. Templates!Changed(t, op) = [t EXCEPT ![op.department].roles = without]
        BY <2>4 DEF Templates!Changed, Templates!DeleteRole
      <3> HIDE DEF without
      <3> QED
        BY <1>4, <2>2, <3>1
    <2> QED
      BY <1>5, <2>3, <2>4
  <1> QED
    BY <1>2, <1>3, <1>5 DEF TemplateOp, DepartmentOp, RoleOp

LEMMA TemplatesInit ==
    ASSUME Templates!TemplatesAssumption, Templates!Init
    PROVE  TemplatesInv
  BY NothingIsAFile
     DEF Templates!Init, Templates!TemplatesAssumption, TemplatesInv, TemplatesTypes,
         Templates!FormsFitTheTemplates

\* What the select boxes are set to is one of the names, where there are some.
LEMMA KeptOrFirstIs ==
    ASSUME NEW current, NEW names, NEW x \in Templates!KeptOrFirst(current, names)
    PROVE  x \in names \/ (names = {} /\ x = Templates!Blank)
  BY DEF Templates!KeptOrFirst

LEMMA TemplatesStep ==
    ASSUME Templates!TemplatesAssumption, TemplatesInv, [Templates!Next]_(Templates!vars)
    PROVE  TemplatesInv'
  <1> USE DEF TemplatesInv
  <1> DEFINE pageTypes == /\ service' \in [name : Department, groups : SUBSET Group]
                          /\ post' \in [department : Department \cup {Templates!Blank},
                                        name : Job, groups : SUBSET Group]
                          /\ form' \in [department : Department \cup {Templates!Blank},
                                        job_title : Job \cup {Templates!Blank}]
  <1>1. CASE Templates!LoadTemplates
    BY <1>1 DEF Templates!LoadTemplates, Templates!pageForms, TemplatesTypes,
                Templates!FormsFitTheTemplates
  <1>2. ASSUME NEW t \in loads, Templates!TemplatesArrive(t)
        PROVE  TemplatesInv'
    <2>1. /\ loads' = loads \ {t} /\ templates' = t
          /\ UNCHANGED <<file, handlers, service>>
      BY <1>2 DEF Templates!TemplatesArrive
    <2>2. t \in Templates!TemplateFile
      BY DEF TemplatesTypes
    <2>3. PICK d \in Templates!KeptOrFirst(form.department, DOMAIN t) :
             \E j \in Templates!KeptOrFirst(form.job_title, DOMAIN Templates!Roles(t, d)) :
                form' = [department |-> d, job_title |-> j]
      BY <1>2 DEF Templates!TemplatesArrive, Templates!FormsFor
    <2>4. PICK j \in Templates!KeptOrFirst(form.job_title, DOMAIN Templates!Roles(t, d)) :
             form' = [department |-> d, job_title |-> j]
      BY <2>3
    <2>5. d \in DOMAIN t \/ (DOMAIN t = {} /\ d = Templates!Blank)
      BY KeptOrFirstIs
    <2>6. \/ j \in DOMAIN Templates!Roles(t, d)
          \/ DOMAIN Templates!Roles(t, d) = {} /\ j = Templates!Blank
      BY KeptOrFirstIs
    <2>7. PICK e \in Templates!PostDepartments(t, post.department) :
             post' = [post EXCEPT !.department = e]
      BY <1>2 DEF Templates!TemplatesArrive
    <2>8. e \in DOMAIN t \/ (DOMAIN t = {} /\ e = post.department)
      BY KeptOrFirstIs DEF Templates!PostDepartments
    <2>9. DOMAIN t \in SUBSET Department /\ DOMAIN Templates!Roles(t, d) \in SUBSET Job
      BY <2>2, TemplatesHave
    <2>10. pageTypes
      BY <2>1, <2>4, <2>5, <2>6, <2>7, <2>8, <2>9 DEF TemplatesTypes
    <2>11. TemplatesTypes'
      BY <2>1, <2>2, <2>10 DEF TemplatesTypes
    <2>12. Templates!FormsFitTheTemplates'
      <3> SUFFICES ASSUME DOMAIN t # {}
                   PROVE  /\ d \in DOMAIN t /\ e \in DOMAIN t
                          /\ j \in IF DOMAIN t[d].roles = {} THEN {Templates!Blank}
                                   ELSE DOMAIN t[d].roles
        <4>1. form'.department = d /\ form'.job_title = j
          BY <2>4
        <4>2. post'.department = e
          BY <2>7 DEF TemplatesTypes
        <4> QED
          BY <2>1, <4>1, <4>2 DEF Templates!FormsFitTheTemplates
      <3> QED
        BY <2>5, <2>6, <2>8 DEF Templates!Roles
    <2> QED
      BY <2>11, <2>12
  <1>3. ASSUME NEW d \in DOMAIN templates, Templates!UpdateFormDepartment(d)
        PROVE  TemplatesInv'
    <2>1. PICK j \in Templates!KeptOrFirst(Templates!Blank, DOMAIN Templates!Roles(templates, d)) :
             form' = [department |-> d, job_title |-> j]
      BY <1>3 DEF Templates!UpdateFormDepartment
    <2>2. \/ j \in DOMAIN Templates!Roles(templates, d)
          \/ DOMAIN Templates!Roles(templates, d) = {} /\ j = Templates!Blank
      BY KeptOrFirstIs
    <2>3. d \in Department /\ DOMAIN Templates!Roles(templates, d) \in SUBSET Job
      BY TemplatesHave DEF TemplatesTypes
    <2>4. UNCHANGED <<file, handlers, templates, loads, service, post>>
      BY <1>3 DEF Templates!UpdateFormDepartment, Templates!pageForms
    <2>5. form'.department = d /\ form'.job_title = j
      BY <2>1
    <2>6. TemplatesTypes'
      BY <2>1, <2>2, <2>3, <2>4 DEF TemplatesTypes
    <2>7. Templates!FormsFitTheTemplates'
      BY <2>2, <2>4, <2>5 DEF Templates!FormsFitTheTemplates, Templates!Roles
    <2> QED
      BY <2>6, <2>7
  <1>4. ASSUME NEW j \in DOMAIN Templates!Roles(templates, form.department),
               Templates!UpdateFormJob(j)
        PROVE  TemplatesInv'
    <2>1. /\ form' = [form EXCEPT !.job_title = j]
          /\ UNCHANGED <<file, handlers, templates, loads, service, post>>
      BY <1>4 DEF Templates!UpdateFormJob, Templates!pageForms
    <2>2. DOMAIN Templates!Roles(templates, form.department) \in SUBSET Job
      BY TemplatesHave DEF TemplatesTypes
    <2>3. form'.department = form.department /\ form'.job_title = j
      BY <2>1 DEF TemplatesTypes
    <2>4. TemplatesTypes'
      BY <2>1, <2>2 DEF TemplatesTypes
    <2>5. Templates!FormsFitTheTemplates'
      BY <2>1, <2>3 DEF Templates!FormsFitTheTemplates, Templates!Roles
    <2> QED
      BY <2>4, <2>5
  <1>5. ASSUME NEW d \in DOMAIN templates, Templates!LoadDepartmentIntoForm(d)
        PROVE  TemplatesInv'
    <2>1. d \in Department /\ templates[d] \in Templates!Service
      BY TemplatesHave DEF TemplatesTypes
    <2>2. /\ service' = [name |-> d, groups |-> templates[d].default_groups]
          /\ post' = [post EXCEPT !.department = d]
          /\ UNCHANGED <<file, handlers, templates, loads, form>>
      BY <1>5 DEF Templates!LoadDepartmentIntoForm
    <2>3. post'.department = d
      BY <2>2 DEF TemplatesTypes
    <2>4. TemplatesTypes'
      BY <2>1, <2>2 DEF TemplatesTypes, Templates!Service
    <2> QED
      BY <2>2, <2>3, <2>4 DEF Templates!FormsFitTheTemplates
  <1>6. ASSUME NEW d \in DOMAIN templates, NEW r \in DOMAIN Templates!Roles(templates, d),
               Templates!LoadRoleIntoForm(d, r)
        PROVE  TemplatesInv'
    <2>1. d \in Department /\ r \in Job /\ templates[d].roles[r] \in SUBSET Group
      BY TemplatesHave DEF TemplatesTypes, Templates!Roles
    <2>2. /\ post' = [department |-> d, name |-> r, groups |-> templates[d].roles[r]]
          /\ UNCHANGED <<file, handlers, templates, loads, service, form>>
      BY <1>6 DEF Templates!LoadRoleIntoForm
    <2>3. TemplatesTypes'
      BY <2>1, <2>2 DEF TemplatesTypes
    <2> QED
      BY <2>2, <2>3 DEF Templates!FormsFitTheTemplates
  <1>7. ASSUME NEW d \in DOMAIN templates, NEW j \in Job, Templates!TypePost(d, j)
        PROVE  TemplatesInv'
    <2>1. d \in Department
      BY TemplatesHave DEF TemplatesTypes
    <2>2. /\ post' = [post EXCEPT !.department = d, !.name = j]
          /\ UNCHANGED <<file, handlers, templates, loads, service, form>>
      BY <1>7 DEF Templates!TypePost
    <2>3. post'.department = d
      BY <2>2 DEF TemplatesTypes
    <2>4. TemplatesTypes'
      BY <2>1, <2>2 DEF TemplatesTypes
    <2> QED
      BY <2>2, <2>3, <2>4 DEF Templates!FormsFitTheTemplates
  <1>8. ASSUME NEW d \in Department, NEW groups \in SUBSET Group,
               Templates!TypeService(d, groups)
        PROVE  TemplatesInv'
    BY <1>8 DEF Templates!TypeService, TemplatesTypes, Templates!FormsFitTheTemplates
  <1>9. ASSUME NEW groups \in SUBSET Group, post' = [post EXCEPT !.groups = groups],
               UNCHANGED <<file, handlers, templates, loads, service, form>>
        PROVE  TemplatesInv'
    <2>1. post'.department = post.department
      BY <1>9 DEF TemplatesTypes
    <2>2. TemplatesTypes'
      BY <1>9 DEF TemplatesTypes
    <2> QED
      BY <1>9, <2>1, <2>2 DEF Templates!FormsFitTheTemplates
  <1>10. ASSUME NEW g \in Templates!Suggestions, Templates!AddRoleGroup(g)
         PROVE  TemplatesInv'
    <2>1. \A d \in DOMAIN templates : templates[d].default_groups \in SUBSET Group
      BY TemplatesHave DEF TemplatesTypes, Templates!Service
    <2>2. g \in Group
      BY <2>1 DEF Templates!Suggestions, Templates!TemplatesAssumption
    <2>3. post.groups \cup {g} \in SUBSET Group
      BY <2>2 DEF TemplatesTypes
    <2> QED
      BY <1>9, <1>10, <2>3 DEF Templates!AddRoleGroup
  <1>11. ASSUME NEW groups, Templates!RemoveRoleGroups(groups)
         PROVE  TemplatesInv'
    <2>1. post.groups \ groups \in SUBSET Group
      BY DEF TemplatesTypes
    <2> QED
      BY <1>9, <1>11, <2>1 DEF Templates!RemoveRoleGroups
  <1>12. ASSUME NEW kind \in {"upsertDepartment", "deleteDepartment", "upsertRole",
                              "deleteRole"},
                Templates!Ask(kind)
         PROVE  TemplatesInv'
    <2> DEFINE asked == IF kind \in {"upsertDepartment", "deleteDepartment"}
                        THEN [kind |-> kind, department |-> service.name,
                              groups |-> service.groups]
                        ELSE [kind |-> kind, department |-> post.department,
                              role |-> post.name, groups |-> post.groups]
    <2> PICK op : op = asked
      OBVIOUS
    <2>1. /\ op.department # Templates!Blank
          /\ handlers' = handlers \cup {[n |-> saves', op |-> op, read |-> file]}
          /\ UNCHANGED <<file, templates, loads, service, post, form>>
      BY <1>12 DEF Templates!Ask, Templates!pageForms
    <2>2. op \in TemplateOp
      <3>1. CASE kind \in {"upsertDepartment", "deleteDepartment"}
        BY <3>1 DEF TemplateOp, DepartmentOp, TemplatesTypes
      <3>2. CASE kind \in {"upsertRole", "deleteRole"}
        <4>1. op = [kind |-> kind, department |-> post.department, role |-> post.name,
                    groups |-> post.groups]
          BY <3>2
        <4>2. op.department \in Department
          BY <2>1, <4>1 DEF TemplatesTypes
        <4> QED
          BY <3>2, <4>1, <4>2 DEF TemplateOp, RoleOp, TemplatesTypes
      <3> QED
        BY <3>1, <3>2
    <2> HIDE DEF asked
    <2> QED
      BY <2>1, <2>2 DEF TemplatesTypes, Templates!FormsFitTheTemplates
  <1>13. ASSUME NEW h \in handlers, NEW answered \in BOOLEAN, Templates!Save(h, answered)
         PROVE  TemplatesInv'
    <2>1. /\ file' = Templates!Changed(h.read, h.op) /\ handlers' = handlers \ {h}
          /\ loads' \subseteq loads \cup {file'}
          /\ UNCHANGED <<templates, service, post, form>>
      BY <1>13 DEF Templates!Save, Templates!pageForms
    <2>2. file' \in Templates!TemplateFile
      BY <2>1, ChangedIsAFile DEF TemplatesTypes
    <2>3. TemplatesTypes'
      BY <2>1, <2>2 DEF TemplatesTypes
    <2> QED
      BY <2>1, <2>3 DEF Templates!FormsFitTheTemplates
  <1>14. CASE UNCHANGED Templates!vars
    BY <1>14 DEF Templates!vars, Templates!pageForms, TemplatesTypes,
                 Templates!FormsFitTheTemplates
  <1> QED
    BY <1>1, <1>2, <1>3, <1>4, <1>5, <1>6, <1>7, <1>8, <1>10, <1>11, <1>12, <1>13, <1>14
       DEF Templates!Next
-----------------------------------------------------------------------------
(* The forms of a departure and of a modification, and the jobs that fill  *)
(* them.                                                                   *)

Result == {Forms!NoResult} \cup [found : {TRUE}, account : Employee]
DirectoryJob == [status : {"pending", "completed", "failed"}, result : Result]
Panel == [open : BOOLEAN, job : Nat, target : Forms!Target \cup {"check", Forms!Blank},
          result : Result, loading : BOOLEAN]
Flow == [n : Nat, target : Forms!Target \cup {"check"}, stage : {"create", "poll"}, job : Nat,
         polls : Nat]

FormsTypes ==
    /\ forms \in [Forms!Target -> Forms!Fields]
    /\ panels \in [{"lookup", "check"} -> Panel]
    /\ jobs \in Seq(DirectoryJob)
    /\ flows \in SUBSET Flow /\ started \in Nat
    /\ shown \subseteq server

\* Every panel and every flow is about a job that was created.
JobsExist ==
    /\ \A p \in {"lookup", "check"} : panels[p].job <= Len(jobs)
    /\ \A flow \in flows : flow.stage = "poll" => flow.job \in DOMAIN jobs

FormsInv == FormsTypes /\ JobsExist /\ Forms!FormsNameOnePerson

LEMMA FormsConstants ==
    /\ Forms!NoResult \in Result /\ Forms!NoResult.found = FALSE
    /\ Forms!ClosedPanel \in Panel /\ Forms!ClosedPanel.job = 0
    /\ \A result \in Result : result.found => result.account \in Employee
    /\ \A target \in Forms!Target \cup {"check"} :
          Forms!PanelOf(target) \in {"lookup", "check"}
  <1>1. Forms!NoResult \in Result /\ Forms!NoResult.found = FALSE
    BY DEF Result, Forms!NoResult
  <1>2. Forms!ClosedPanel \in Panel /\ Forms!ClosedPanel.job = 0
    BY <1>1 DEF Panel, Forms!ClosedPanel
  <1>3. ASSUME NEW result \in Result, result.found
        PROVE  result.account \in Employee
    <2>1. result # Forms!NoResult
      BY <1>1, <1>3
    <2> QED
      BY <2>1 DEF Result
  <1> QED
    BY <1>1, <1>2, <1>3 DEF Forms!PanelOf

LEMMA FormsInit ==
    ASSUME Forms!FormsAssumption, Forms!Init
    PROVE  FormsInv
  <1>1. [username |-> Forms!Blank, display_name |-> Forms!Blank, department |-> Forms!Blank]
            \in Forms!Fields
    BY DEF Forms!Fields, Forms!Value
  <1>2. FormsTypes
    BY <1>1, FormsConstants DEF Forms!Init, FormsTypes
  <1>3. JobsExist
    BY FormsConstants DEF Forms!Init, JobsExist
  <1>4. Forms!FormsNameOnePerson
    BY DEF Forms!Init, Forms!FormsNameOnePerson
  <1> QED
    BY <1>2, <1>3, <1>4 DEF FormsInv

\* A form that is filled, by a request of the list or by a result, names one
\* account.
LEMMA FilledForms ==
    ASSUME Forms!FormsAssumption, FormsInv, NEW t \in Forms!Target, NEW a \in Employee,
           NEW filled \in Forms!Fields, filled.username = filled.display_name,
           forms' = [forms EXCEPT ![t] = filled]
    PROVE  forms' \in [Forms!Target -> Forms!Fields] /\ Forms!FormsNameOnePerson'
  BY DEF FormsInv, FormsTypes, Forms!FormsNameOnePerson

LEMMA AppliedResult ==
    ASSUME Forms!FormsAssumption, FormsInv, NEW t \in Forms!Target,
           NEW result \in Result, result.found, Forms!ApplyResult(t, result)
    PROVE  forms' \in [Forms!Target -> Forms!Fields] /\ Forms!FormsNameOnePerson'
  <1> DEFINE filled == Forms!Filled(forms[t], result.account)
  <1>1. result.account \in Employee
    BY FormsConstants
  <1>2. filled \in Forms!Fields /\ filled.username = filled.display_name
    BY <1>1 DEF FormsInv, FormsTypes, Forms!Filled, Forms!Fields, Forms!Value
  <1>3. forms' = [forms EXCEPT ![t] = filled]
    BY DEF Forms!ApplyResult
  <1> HIDE DEF filled
  <1> QED
    BY <1>1, <1>2, <1>3, FilledForms

\* One panel shows something else, about a job that exists.
LEMMA PanelChanges ==
    ASSUME FormsInv, NEW p \in {"lookup", "check"}, NEW panel \in Panel,
           panels' = [panels EXCEPT ![p] = panel], panel.job <= Len(jobs'),
           jobs' \in Seq(DirectoryJob), Len(jobs) <= Len(jobs')
    PROVE  /\ panels' \in [{"lookup", "check"} -> Panel]
           /\ \A q \in {"lookup", "check"} : panels'[q].job <= Len(jobs')
  <1>1. panels \in [{"lookup", "check"} -> Panel] /\ panels' \in [{"lookup", "check"} -> Panel]
    BY DEF FormsInv, FormsTypes
  <1> SUFFICES ASSUME NEW q \in {"lookup", "check"}
               PROVE  panels'[q].job <= Len(jobs')
    BY <1>1
  <1>2. panels[q].job <= Len(jobs) /\ panels[q].job \in Nat
    BY <1>1 DEF FormsInv, JobsExist, Panel
  <1>3. Len(jobs) \in Nat /\ Len(jobs') \in Nat
    BY DEF FormsInv, FormsTypes
  <1>4. panels'[q].job = panel.job \/ panels'[q].job = panels[q].job
    BY <1>1
  <1> QED
    BY <1>2, <1>3, <1>4

LEMMA RefreshedIs ==
    ASSUME FormsInv, NEW target \in Forms!Target \cup {"check", Forms!Blank},
           NEW n \in DOMAIN jobs
    PROVE  /\ Forms!Refreshed(target, n) \in Panel
           /\ Forms!Refreshed(target, n).job = n
           /\ n <= Len(jobs) /\ jobs[n].result \in Result
  <1>1. jobs[n] \in DirectoryJob /\ n \in Nat /\ n <= Len(jobs)
    BY DEF FormsInv, FormsTypes
  <1>2. jobs[n].result \in Result /\ Forms!Ended(jobs[n]) \in BOOLEAN
    BY <1>1 DEF DirectoryJob, Forms!Ended
  <1> QED
    BY <1>1, <1>2 DEF Forms!Refreshed, Panel

\* What only the forms and the lists see.
LEMMA PanelsStay ==
    ASSUME FormsInv, forms' \in [Forms!Target -> Forms!Fields], Forms!FormsNameOnePerson',
           UNCHANGED <<panels, jobs, flows, started>>, shown' \subseteq server'
    PROVE  FormsInv'
  BY DEF FormsInv, FormsTypes, JobsExist

LEMMA FormsStay ==
    ASSUME FormsInv, UNCHANGED forms
    PROVE  forms' \in [Forms!Target -> Forms!Fields] /\ Forms!FormsNameOnePerson'
  BY DEF FormsInv, FormsTypes, Forms!FormsNameOnePerson

LEMMA UpdateFormKeeps ==
    ASSUME Forms!FormsAssumption, FormsInv, NEW t \in Forms!Target,
           NEW f \in {"username", "display_name", "department"}, Forms!UpdateForm(t, f)
    PROVE  FormsInv'
  <1>1. /\ forms' = [forms EXCEPT ![t][f] = Forms!Typed]
        /\ UNCHANGED <<panels, jobs, flows, started, shown, server>>
    BY DEF Forms!UpdateForm
  <1>2. forms[t] \in Forms!Fields /\ forms \in [Forms!Target -> Forms!Fields]
    BY DEF FormsInv, FormsTypes
  <1> DEFINE typed == [forms[t] EXCEPT ![f] = Forms!Typed]
  <1>3. typed \in Forms!Fields
    BY <1>2 DEF Forms!Fields, Forms!Value
  <1>4. forms' = [forms EXCEPT ![t] = typed]
    BY <1>1, <1>2
  <1>5. {typed.username, typed.display_name} \subseteq Employee
            => typed = [forms[t] EXCEPT !.department = Forms!Typed]
    BY <1>2 DEF Forms!Fields, Forms!FormsAssumption
  <1>6. {typed.username, typed.display_name} \subseteq Employee
            => typed.username = typed.display_name
    BY <1>2, <1>5 DEF FormsInv, Forms!FormsNameOnePerson, Forms!Fields
  <1> HIDE DEF typed
  <1>7. forms' \in [Forms!Target -> Forms!Fields]
    BY <1>2, <1>3, <1>4
  <1>8. Forms!FormsNameOnePerson'
    BY <1>2, <1>4, <1>6 DEF FormsInv, Forms!FormsNameOnePerson
  <1> QED
    BY <1>1, <1>7, <1>8, PanelsStay DEF FormsInv, FormsTypes

LEMMA LoadRequestKeeps ==
    ASSUME Forms!FormsAssumption, FormsInv, NEW t \in Forms!Target, NEW a \in Employee,
           Forms!LoadRequestInto(t, a)
    PROVE  FormsInv'
  <1> PICK filled : filled = [username |-> a, display_name |-> a, department |-> a]
    OBVIOUS
  <1>1. filled \in Forms!Fields /\ filled.username = filled.display_name
    BY DEF Forms!Fields, Forms!Value
  <1>2. /\ forms' = [forms EXCEPT ![t] = filled]
        /\ UNCHANGED <<panels, jobs, flows, started, shown, server>>
    BY DEF Forms!LoadRequestInto
  <1> QED
    BY <1>1, <1>2, FilledForms, PanelsStay DEF FormsInv, FormsTypes

LEMMA StartKeeps ==
    ASSUME FormsInv, NEW target \in Forms!Target \cup {"check"}, Forms!Start(target),
           UNCHANGED <<forms, jobs, shown, server>>
    PROVE  FormsInv'
  <1> PICK p \in {"lookup", "check"} : p = Forms!PanelOf(target)
    BY FormsConstants
  <1> PICK panel : panel = [open |-> TRUE, job |-> 0, target |-> target,
                            result |-> Forms!NoResult, loading |-> TRUE]
    OBVIOUS
  <1> PICK flow : flow = [n |-> started', target |-> target, stage |-> "create", job |-> 0,
                          polls |-> 0]
    OBVIOUS
  <1>1. /\ panels' = [panels EXCEPT ![p] = panel] /\ flows' = flows \cup {flow}
        /\ started' = started + 1
    BY DEF Forms!Start
  <1>2. panel \in Panel /\ panel.job = 0 /\ Len(jobs) \in Nat
    BY FormsConstants DEF Panel, FormsInv, FormsTypes
  <1>3. started' \in Nat
    BY <1>1 DEF FormsInv, FormsTypes
  <1>4. flow \in Flow /\ flow.stage = "create"
    BY <1>3 DEF Flow
  <1>5. /\ panels' \in [{"lookup", "check"} -> Panel]
        /\ \A q \in {"lookup", "check"} : panels'[q].job <= Len(jobs')
    <2>1. panel.job <= Len(jobs') /\ jobs' \in Seq(DirectoryJob) /\ Len(jobs) <= Len(jobs')
      BY <1>2 DEF FormsInv, FormsTypes
    <2> QED
      BY <1>1, <1>2, <2>1, PanelChanges
  <1>6. JobsExist'
    BY <1>1, <1>4, <1>5 DEF FormsInv, JobsExist
  <1>7. FormsTypes'
    BY <1>1, <1>3, <1>4, <1>5 DEF FormsInv, FormsTypes
  <1> QED
    BY <1>6, <1>7, FormsStay DEF FormsInv

LEMMA JobCreatedKeeps ==
    ASSUME FormsInv, NEW flow \in flows, Forms!JobCreated(flow)
    PROVE  FormsInv'
  <1>1. flow \in Flow
    BY DEF FormsInv, FormsTypes
  <1> PICK p \in {"lookup", "check"} : p = Forms!PanelOf(flow.target)
    BY <1>1, FormsConstants DEF Flow
  <1> PICK job : job = [status |-> "pending", result |-> Forms!NoResult]
    OBVIOUS
  <1> DEFINE goesOn == [flow EXCEPT !.stage = "poll", !.job = Len(jobs')]
             shows == [panels[p] EXCEPT !.job = Len(jobs'), !.loading = TRUE]
  <1> PICK next : next = goesOn
    OBVIOUS
  <1> PICK panel : panel = shows
    OBVIOUS
  <1>2. /\ jobs' = Append(jobs, job) /\ flows' = (flows \ {flow}) \cup {next}
        /\ panels' = [panels EXCEPT ![p] = panel]
        /\ UNCHANGED <<forms, shown, server, started>>
    BY DEF Forms!JobCreated
  <1>3. job \in DirectoryJob
    BY FormsConstants DEF DirectoryJob
  <1>4. /\ jobs' \in Seq(DirectoryJob) /\ Len(jobs') \in Nat /\ Len(jobs) <= Len(jobs')
        /\ Len(jobs') \in DOMAIN jobs' /\ DOMAIN jobs \subseteq DOMAIN jobs'
    BY <1>2, <1>3 DEF FormsInv, FormsTypes
  <1>5. next \in Flow /\ next.job = Len(jobs')
    BY <1>1, <1>4 DEF Flow
  <1>6. panel \in Panel /\ panel.job = Len(jobs')
    BY <1>4 DEF FormsInv, FormsTypes, Panel
  <1>10. panel.job <= Len(jobs')
    BY <1>4, <1>6
  <1> HIDE DEF goesOn, shows
  <1>7. /\ panels' \in [{"lookup", "check"} -> Panel]
        /\ \A q \in {"lookup", "check"} : panels'[q].job <= Len(jobs')
    BY <1>2, <1>4, <1>6, <1>10, PanelChanges
  <1>8. JobsExist'
    BY <1>2, <1>4, <1>5, <1>7 DEF FormsInv, JobsExist
  <1>9. FormsTypes'
    BY <1>2, <1>4, <1>5, <1>7 DEF FormsInv, FormsTypes
  <1> QED
    BY <1>2, <1>8, <1>9, FormsStay DEF FormsInv

\* A panel changes and the flows become fewer, or the one that shows it goes on.
LEMMA FlowMoves ==
    ASSUME FormsInv, NEW p \in {"lookup", "check"}, NEW panel \in Panel,
           panels' = [panels EXCEPT ![p] = panel], panel.job <= Len(jobs),
           flows' \in SUBSET Flow,
           \A flow \in flows' : flow.stage = "poll" => flow.job \in DOMAIN jobs,
           forms' \in [Forms!Target -> Forms!Fields], Forms!FormsNameOnePerson',
           UNCHANGED <<jobs, started, shown, server>>
    PROVE  FormsInv'
  <1>1. Len(jobs) <= Len(jobs') /\ jobs' \in Seq(DirectoryJob) /\ panel.job <= Len(jobs')
    BY DEF FormsInv, FormsTypes
  <1>2. /\ panels' \in [{"lookup", "check"} -> Panel]
        /\ \A q \in {"lookup", "check"} : panels'[q].job <= Len(jobs')
    BY <1>1, PanelChanges
  <1> QED
    BY <1>1, <1>2 DEF FormsInv, FormsTypes, JobsExist

LEMMA PollKeeps ==
    ASSUME Forms!FormsAssumption, FormsInv, NEW flow \in flows, Forms!Poll(flow)
    PROVE  FormsInv'
  <1> DEFINE current == Forms!Refreshed(flow.target, flow.job)
  <1>1. /\ flow.stage = "poll" /\ UNCHANGED <<jobs, shown, server, started>>
    BY DEF Forms!Poll
  <1>2. flow \in Flow /\ flow.job \in DOMAIN jobs /\ flow.target \in Forms!Target \cup {"check"}
    BY <1>1 DEF FormsInv, FormsTypes, JobsExist, Flow
  <1> PICK p \in {"lookup", "check"} : p = Forms!PanelOf(flow.target)
    BY <1>2, FormsConstants
  <1>3. current \in Panel /\ current.job = flow.job /\ flow.job <= Len(jobs)
        /\ jobs[flow.job].result \in Result
    BY <1>2, RefreshedIs
  <1>4. /\ flows \ {flow} \in SUBSET Flow
        /\ \A f \in flows \ {flow} : f.stage = "poll" => f.job \in DOMAIN jobs
    BY DEF FormsInv, FormsTypes, JobsExist
  <1>5. CASE /\ Forms!Ended(jobs[flow.job]) /\ flows' = flows \ {flow}
             /\ jobs[flow.job].result.found /\ flow.target \in Forms!Target
             /\ Forms!ApplyResult(flow.target, jobs[flow.job].result)
             /\ panels' = [panels EXCEPT !["lookup"] = Forms!ClosedPanel]
    <2>1. forms' \in [Forms!Target -> Forms!Fields] /\ Forms!FormsNameOnePerson'
      BY <1>3, <1>5, AppliedResult
    <2>2. Forms!ClosedPanel \in Panel /\ Forms!ClosedPanel.job <= Len(jobs)
      BY FormsConstants DEF FormsInv, FormsTypes
    <2> QED
      BY <1>1, <1>4, <1>5, <2>1, <2>2, FlowMoves
  <1>6. CASE /\ Forms!Ended(jobs[flow.job]) /\ flows' = flows \ {flow}
             /\ panels' = [panels EXCEPT ![p] = current] /\ UNCHANGED forms
    <2>1. forms' \in [Forms!Target -> Forms!Fields] /\ Forms!FormsNameOnePerson'
      BY <1>6, FormsStay
    <2> HIDE DEF current
    <2> QED
      BY <1>1, <1>3, <1>4, <1>6, <2>1, FlowMoves
  <1>7. CASE /\ ~Forms!Ended(jobs[flow.job]) /\ UNCHANGED forms
             /\ panels' = [panels EXCEPT ![p] =
                              [current EXCEPT !.loading = ~(flow.polls + 1 = MaxPolls)]]
             /\ flows' = (flows \ {flow}) \cup
                    IF flow.polls + 1 = MaxPolls THEN {} ELSE {[flow EXCEPT !.polls = @ + 1]}
    <2> DEFINE shows == [current EXCEPT !.loading = ~(flow.polls + 1 = MaxPolls)]
               again == [flow EXCEPT !.polls = @ + 1]
    <2> PICK panel : panel = shows
      OBVIOUS
    <2> PICK next : next = again
      OBVIOUS
    <2> HIDE DEF current
    <2>1. panel \in Panel /\ panel.job = flow.job
      BY <1>3 DEF Panel
    <2>2. next \in Flow /\ next.stage = "poll" /\ next.job = flow.job
      BY <1>1, <1>2 DEF Flow
    <2>3. forms' \in [Forms!Target -> Forms!Fields] /\ Forms!FormsNameOnePerson'
      BY <1>7, FormsStay
    <2>4. panels' = [panels EXCEPT ![p] = panel] /\ flows' \subseteq (flows \ {flow}) \cup {next}
      BY <1>7
    <2>5. /\ flows' \in SUBSET Flow
          /\ \A f \in flows' : f.stage = "poll" => f.job \in DOMAIN jobs
      BY <1>2, <1>4, <2>2, <2>4
    <2> HIDE DEF shows, again
    <2> QED
      BY <1>1, <1>3, <2>1, <2>3, <2>4, <2>5, FlowMoves
  <1> QED
    BY <1>1, <1>5, <1>6, <1>7 DEF Forms!Poll

LEMMA AgentEndsKeeps ==
    ASSUME FormsInv, NEW n \in DOMAIN jobs, NEW ok \in BOOLEAN, Forms!AgentEnds(n, ok)
    PROVE  FormsInv'
  <1> PICK result \in Result :
              jobs' = [jobs EXCEPT ![n] = [status |-> IF ok THEN "completed" ELSE "failed",
                                           result |-> result]]
    BY DEF Forms!AgentEnds, Result
  <1> PICK job : job = [status |-> IF ok THEN "completed" ELSE "failed", result |-> result]
    OBVIOUS
  <1>1. job \in DirectoryJob
    BY DEF DirectoryJob
  <1>2. /\ jobs' = [jobs EXCEPT ![n] = job] /\ jobs \in Seq(DirectoryJob)
        /\ UNCHANGED <<forms, panels, flows, shown, server, started>>
    BY DEF Forms!AgentEnds, FormsInv, FormsTypes
  <1>3. jobs' \in Seq(DirectoryJob) /\ Len(jobs') = Len(jobs) /\ DOMAIN jobs' = DOMAIN jobs
    BY <1>1, <1>2
  <1> QED
    BY <1>2, <1>3, FormsStay DEF FormsInv, FormsTypes, JobsExist

\* A panel alone is refreshed or closed.
LEMMA PanelMoves ==
    ASSUME FormsInv, NEW p \in {"lookup", "check"}, NEW panel \in Panel,
           panels' = [panels EXCEPT ![p] = panel], panel.job <= Len(jobs),
           forms' \in [Forms!Target -> Forms!Fields], Forms!FormsNameOnePerson',
           UNCHANGED <<jobs, flows, started, shown, server>>
    PROVE  FormsInv'
  <1>1. /\ flows' \in SUBSET Flow
        /\ \A flow \in flows' : flow.stage = "poll" => flow.job \in DOMAIN jobs
    BY DEF FormsInv, FormsTypes, JobsExist
  <1> QED
    BY <1>1, FlowMoves

LEMMA RefreshKeeps ==
    ASSUME FormsInv, NEW p \in {"lookup", "check"}, NEW n \in DOMAIN jobs,
           Forms!RefreshPanel(p, n)
    PROVE  FormsInv'
  <1>1. panels[p] \in Panel
    BY DEF FormsInv, FormsTypes
  <1> DEFINE current == Forms!Refreshed(panels[p].target, n)
  <1>2. current \in Panel /\ current.job = n /\ n <= Len(jobs)
    BY <1>1, RefreshedIs DEF Panel
  <1>3. /\ panels' = [panels EXCEPT ![p] = current]
        /\ UNCHANGED <<forms, jobs, flows, started, shown, server>>
    BY DEF Forms!RefreshPanel
  <1> HIDE DEF current
  <1> QED
    BY <1>2, <1>3, FormsStay, PanelMoves

LEMMA FormsStep ==
    ASSUME Forms!FormsAssumption, FormsInv, [Forms!Next]_(Forms!vars)
    PROVE  FormsInv'
  <1>1. ASSUME NEW t \in Forms!Target, NEW f \in {"username", "display_name", "department"},
               Forms!UpdateForm(t, f)
        PROVE  FormsInv'
    BY <1>1, UpdateFormKeeps
  <1>2. ASSUME NEW t \in Forms!Target, NEW a \in Employee, Forms!LoadRequestInto(t, a)
        PROVE  FormsInv'
    BY <1>2, LoadRequestKeeps
  <1>3. ASSUME UNCHANGED <<forms, panels, jobs, flows, started>>, shown' \subseteq server'
        PROVE  FormsInv'
    BY <1>3, FormsStay, PanelsStay
  <1>4. shown \subseteq server
    BY DEF FormsInv, FormsTypes
  <1>5. ASSUME NEW t \in Forms!Target, Forms!SubmitForm(t)
        PROVE  FormsInv'
    BY <1>3, <1>4, <1>5 DEF Forms!SubmitForm
  <1>6. ASSUME NEW p, Forms!GoTo(p)
        PROVE  FormsInv'
    BY <1>3, <1>4, <1>6 DEF Forms!GoTo
  <1>7. ASSUME NEW a, Forms!CreateOnboarding(a)
        PROVE  FormsInv'
    BY <1>3, <1>4, <1>7 DEF Forms!CreateOnboarding
  <1>8. ASSUME NEW a \in onboarding, NEW ok \in BOOLEAN, Forms!OnboardingAnswered(a, ok)
        PROVE  FormsInv'
    BY <1>3, <1>4, <1>8 DEF Forms!OnboardingAnswered
  <1>9. ASSUME NEW t \in Forms!Target, Forms!RunLookup(t)
        PROVE  FormsInv'
    BY <1>9, StartKeeps DEF Forms!RunLookup, Forms!Start
  <1>10. CASE Forms!RunCheck
    BY <1>10, StartKeeps DEF Forms!RunCheck, Forms!Start
  <1>11. ASSUME NEW flow \in flows, Forms!JobCreated(flow)
         PROVE  FormsInv'
    BY <1>11, JobCreatedKeeps
  <1>12. ASSUME NEW flow \in flows, Forms!Poll(flow)
         PROVE  FormsInv'
    BY <1>12, PollKeeps
  <1>13. ASSUME NEW flow \in flows, Forms!CallFails(flow)
         PROVE  FormsInv'
    <2> PICK p \in {"lookup", "check"} : p = Forms!PanelOf(flow.target)
      BY FormsConstants DEF FormsInv, FormsTypes, Flow
    <2> DEFINE shows == [panels[p] EXCEPT !.loading = FALSE]
    <2> PICK panel : panel = shows
      OBVIOUS
    <2>1. /\ panels' = [panels EXCEPT ![p] = panel] /\ flows' = flows \ {flow}
          /\ UNCHANGED <<forms, jobs, started, shown, server>>
      BY <1>13 DEF Forms!CallFails, Forms!Fails
    <2>2. panel \in Panel /\ panel.job <= Len(jobs)
      BY DEF FormsInv, FormsTypes, JobsExist, Panel
    <2>3. /\ flows' \in SUBSET Flow
          /\ \A f \in flows' : f.stage = "poll" => f.job \in DOMAIN jobs
      BY <2>1 DEF FormsInv, FormsTypes, JobsExist
    <2> HIDE DEF shows
    <2> QED
      BY <2>1, <2>2, <2>3, FormsStay, FlowMoves
  <1>14. ASSUME NEW t \in Forms!Target, Forms!UseResult(t)
         PROVE  FormsInv'
    <2>1. /\ panels["lookup"].result.found /\ Forms!ApplyResult(t, panels["lookup"].result)
          /\ panels' = [panels EXCEPT !["lookup"] = Forms!ClosedPanel]
          /\ UNCHANGED <<jobs, flows, started, shown, server>>
      BY <1>14 DEF Forms!UseResult
    <2>2. panels["lookup"].result \in Result /\ 0 <= Len(jobs)
      BY DEF FormsInv, FormsTypes, Panel
    <2>3. forms' \in [Forms!Target -> Forms!Fields] /\ Forms!FormsNameOnePerson'
      BY <2>1, <2>2, AppliedResult
    <2> QED
      BY <2>1, <2>2, <2>3, FormsConstants, PanelMoves
  <1>15. ASSUME NEW p \in {"lookup", "check"}, Forms!ClosePanel(p)
         PROVE  FormsInv'
    <2>1. /\ panels' = [panels EXCEPT ![p] = Forms!ClosedPanel]
          /\ UNCHANGED <<forms, jobs, flows, started, shown, server>>
      BY <1>15 DEF Forms!ClosePanel
    <2>2. 0 <= Len(jobs)
      BY DEF FormsInv, FormsTypes
    <2> QED
      BY <2>1, <2>2, FormsConstants, FormsStay, PanelMoves
  <1>16. CASE /\ panels["lookup"].job # 0
              /\ Forms!RefreshPanel("lookup", panels["lookup"].job)
    <2>1. panels["lookup"].job \in DOMAIN jobs
      BY <1>16 DEF FormsInv, FormsTypes, JobsExist, Panel
    <2> QED
      BY <1>16, <2>1, RefreshKeeps
  <1>17. ASSUME NEW n \in DOMAIN jobs, Forms!RefreshPanel("check", n)
         PROVE  FormsInv'
    BY <1>17, RefreshKeeps
  <1>18. ASSUME NEW n \in DOMAIN jobs, NEW ok \in BOOLEAN, Forms!AgentEnds(n, ok)
         PROVE  FormsInv'
    BY <1>18, AgentEndsKeeps
  <1>19. CASE UNCHANGED Forms!vars
    BY <1>3, <1>4, <1>19 DEF Forms!vars
  <1> QED
    BY <1>1, <1>2, <1>5, <1>6, <1>7, <1>8, <1>9, <1>10, <1>11, <1>12, <1>13, <1>14, <1>15,
       <1>16, <1>17, <1>18, <1>19 DEF Forms!Next
-----------------------------------------------------------------------------
(* The controls of the agent: the mode and the pause in one file.          *)

ControlCall ==
    [page : Page, kind : {"getConfig", "getMode", "setInterval", "setPause", "setMode"},
     body : Controls!Config, n : Nat,
     stage : {"asked", "read", "writing", "unlinked", "answered", "failed"},
     read : Controls!Config]
Choice == [mode : Controls!Mode, after : SUBSET Nat, ended : BOOLEAN]

ControlsTypes ==
    /\ file \in SUBSET Controls!Config /\ \A a, b \in file : a = b
    /\ calls \in SUBSET ControlCall
    /\ agentConfig \in [Page -> Controls!Config]
    /\ modeControl \in [Page -> [mode : Controls!Mode, loading : BOOLEAN]]
    /\ choices \in Seq(Choice)

\* A call that changes the mode is the only one of its choice, which is not
\* ended before the call is; from the moment it opens the file it holds the mode
\* that was chosen.  The other writing never holds a mode.
ModeCall(c) ==
    /\ c.n <= Len(choices)
    /\ c.kind # "setMode" => /\ c.body.mode = Controls!Unknown
                             /\ c.stage \notin {"writing", "unlinked"}
    /\ c.kind = "setMode" =>
          /\ c.n \in DOMAIN choices
          /\ choices[c.n].mode = c.body.mode /\ ~choices[c.n].ended
          /\ c.stage \in {"writing", "unlinked", "answered"} => c.read.mode = c.body.mode
ModeCalls ==
    /\ \A c \in calls : ModeCall(c)
    /\ \A c, d \in calls : c.kind = "setMode" /\ d.kind = "setMode" /\ c.n = d.n => c = d

AfterEnded ==
    \A j \in DOMAIN choices : \A k \in choices[j].after :
        k \in DOMAIN choices /\ choices[k].ended

\* Stronger than the property: the choices of Simulation that began after the
\* end of the one that explains Production have not even opened the file.
Explains(i) ==
    /\ choices[i].mode = "Production"
    /\ \A j \in DOMAIN choices :
          choices[j].mode = "Simulation" /\ i \in choices[j].after =>
              /\ ~choices[j].ended
              /\ \A c \in calls : c.kind = "setMode" /\ c.n = j
                                      => c.stage \in {"asked", "read", "failed"}
Explained ==
    \A config \in file :
        config.mode = "Production" => \E i \in DOMAIN choices : Explains(i)

ControlsInv == ControlsTypes /\ ModeCalls /\ AfterEnded /\ Explained

LEMMA DefaultsType ==
    ASSUME Default \in Interval
    PROVE  Controls!Defaults \in Controls!Config
  BY DEF Controls!Defaults, Controls!Config

LEMMA ReadType ==
    ASSUME Default \in Interval, ControlsTypes
    PROVE  Controls!Read \in Controls!Config
  BY DefaultsType DEF Controls!Read, ControlsTypes

LEMMA ControlsInit ==
    ASSUME Default \in Interval, Controls!Init
    PROVE  ControlsInv
  <1>1. Controls!Defaults \in Controls!Config
    BY DefaultsType
  <1>2. CASE file = {}
    <2>1. choices = <<>>
      BY <1>2 DEF Controls!Init, Controls!Read, Controls!ModeOf, Controls!Defaults,
                  Controls!Unknown
    <2> QED
      BY <1>1, <1>2, <2>1 DEF Controls!Init, ControlsInv, ControlsTypes, ModeCalls, AfterEnded,
                              Explained, Controls!Mode
  <1>3. ASSUME NEW m \in Controls!Mode, file = {[Controls!Defaults EXCEPT !.mode = m]}
        PROVE  ControlsInv
    <2>1. [Controls!Defaults EXCEPT !.mode = m] \in Controls!Config
      BY <1>1 DEF Controls!Config
    <2>2. [Controls!Defaults EXCEPT !.mode = m].mode = m
      BY DEF Controls!Defaults
    <2>3. Controls!ModeOf(Controls!Read) = m
      BY <1>3, <2>2 DEF Controls!Read, Controls!ModeOf, Controls!Mode, Controls!Unknown
    <2>4. /\ file \in SUBSET Controls!Config /\ \A a, b \in file : a = b
          /\ calls = {} /\ agentConfig \in [Page -> Controls!Config]
          /\ modeControl \in [Page -> [mode : Controls!Mode, loading : BOOLEAN]]
      BY <1>1, <1>3, <2>1 DEF Controls!Init, Controls!Mode
    <2>5. CASE m = "Production"
      <3>1. choices = <<[mode |-> "Production", after |-> {}, ended |-> TRUE]>>
        BY <2>3, <2>5 DEF Controls!Init
      <3>2. [mode |-> "Production", after |-> {}, ended |-> TRUE] \in Choice
        BY DEF Choice, Controls!Mode
      <3>3. /\ choices \in Seq(Choice) /\ DOMAIN choices = {1}
            /\ choices[1].mode = "Production" /\ choices[1].after = {}
        BY <3>1, <3>2
      <3> QED
        BY <2>4, <3>3 DEF ControlsInv, ControlsTypes, ModeCalls, AfterEnded, Explained, Explains
    <2>6. CASE m # "Production"
      <3>1. choices = <<>>
        BY <2>3, <2>6 DEF Controls!Init
      <3> QED
        BY <1>3, <2>2, <2>4, <2>6, <3>1
           DEF ControlsInv, ControlsTypes, ModeCalls, AfterEnded, Explained
    <2> QED
      BY <2>5, <2>6
  <1> QED
    BY <1>2, <1>3 DEF Controls!Init

\* A page that asks for something other than a mode.
LEMMA ControlsAsk ==
    ASSUME ControlsInv, Default \in Interval,
           NEW p \in Page, NEW kind \in {"getConfig", "getMode", "setInterval", "setPause"},
           NEW body \in Controls!Config, body.mode = Controls!Unknown,
           Controls!Ask(p, kind, body, 0),
           UNCHANGED <<file, agentConfig, modeControl, choices>>
    PROVE  ControlsInv'
  <1> PICK call : call = [page |-> p, kind |-> kind, body |-> body, n |-> 0,
                          stage |-> "asked", read |-> Controls!Defaults]
    OBVIOUS
  <1>1. calls' = calls \cup {call}
    BY DEF Controls!Ask
  <1>2. call \in ControlCall /\ call.n = 0 /\ call.kind # "setMode" /\ call.body = body
        /\ call.stage = "asked"
    BY DefaultsType DEF ControlCall
  <1>3. ControlsTypes'
    BY <1>1, <1>2 DEF ControlsInv, ControlsTypes
  <1>4. ModeCalls'
    <2>1. 0 <= Len(choices)
      BY DEF ControlsInv, ControlsTypes
    <2> QED
      BY <1>1, <1>2, <2>1 DEF ControlsInv, ModeCalls, ModeCall
  <1>5. AfterEnded'
    BY DEF ControlsInv, AfterEnded
  <1>6. Explained'
    BY <1>1, <1>2 DEF ControlsInv, Explained, Explains
  <1> QED
    BY <1>3, <1>4, <1>5, <1>6 DEF ControlsInv

\* A page that chooses a mode.
LEMMA ControlsChoose ==
    ASSUME ControlsInv, Default \in Interval, NEW p \in Page, NEW m \in Controls!Mode,
           Controls!UpdateAgentMode(p, m)
    PROVE  ControlsInv'
  <1> USE DEF ControlsInv
  <1> DEFINE ended == {i \in DOMAIN choices : choices[i].ended}
  <1> PICK n : n = Len(choices) + 1
    OBVIOUS
  <1> PICK body : body = [Controls!Defaults EXCEPT !.mode = m]
    OBVIOUS
  <1> PICK call : call = [page |-> p, kind |-> "setMode", body |-> body, n |-> n,
                          stage |-> "asked", read |-> Controls!Defaults]
    OBVIOUS
  <1> PICK choice : choice = [mode |-> m, after |-> ended, ended |-> FALSE]
    OBVIOUS
  <1>1. /\ calls' = calls \cup {call} /\ choices' = Append(choices, choice)
        /\ UNCHANGED <<file, agentConfig>>
        /\ modeControl' = [modeControl EXCEPT ![p].loading = TRUE]
    BY DEF Controls!UpdateAgentMode, Controls!Post, Controls!Ask
  <1>2. body \in Controls!Config /\ body.mode = m
    BY DefaultsType DEF Controls!Config, Controls!Defaults
  <1>3. n \in Nat /\ Len(choices) \in Nat /\ DOMAIN choices = 1..Len(choices)
        /\ choices \in Seq(Choice)
    BY DEF ControlsTypes
  <1>4. /\ call \in ControlCall /\ call.n = n /\ call.kind = "setMode" /\ call.body = body
        /\ call.stage = "asked"
    BY <1>2, <1>3, DefaultsType DEF ControlCall
  <1>5. choice \in Choice /\ choice.mode = m /\ choice.after = ended /\ ~choice.ended
    BY <1>3 DEF Choice
  <1>6. /\ choices' \in Seq(Choice) /\ Len(choices') = n /\ choices'[n] = choice
        /\ DOMAIN choices' = 1..n /\ DOMAIN choices \subseteq DOMAIN choices'
        /\ n \notin DOMAIN choices
        /\ \A j \in DOMAIN choices : choices'[j] = choices[j]
        /\ \A j \in DOMAIN choices' : j = n \/ j \in DOMAIN choices
    BY <1>1, <1>3, <1>5
  <1> HIDE DEF ended
  <1>7. ControlsTypes'
    BY <1>1, <1>4, <1>6 DEF ControlsTypes
  <1>8. ModeCalls'
    <2>1. ASSUME NEW c \in calls
          PROVE  c.n <= n /\ (c.kind = "setMode" => c.n \in DOMAIN choices)
      BY <1>3, <1>6 DEF ModeCalls, ModeCall, ControlsTypes, ControlCall
    <2>2. ASSUME NEW c \in calls
          PROVE  ModeCall(c)'
      <3>1. c.kind = "setMode" => choices'[c.n] = choices[c.n] /\ c.n \in DOMAIN choices'
        BY <1>6, <2>1
      <3>2. c.n <= Len(choices')
        BY <1>6, <2>1
      <3>3. ModeCall(c)
        BY DEF ModeCalls
      <3> QED
        BY <3>1, <3>2, <3>3 DEF ModeCall
    <2>3. ModeCall(call)'
      <3>1. n <= Len(choices') /\ n \in DOMAIN choices'
        BY <1>3, <1>6
      <3>2. choices'[n].mode = m /\ ~choices'[n].ended
        BY <1>5, <1>6
      <3> QED
        BY <1>2, <1>4, <3>1, <3>2 DEF ModeCall
    <2>4. \A c, d \in calls' : c.kind = "setMode" /\ d.kind = "setMode" /\ c.n = d.n => c = d
      BY <1>1, <1>4, <1>6, <2>1 DEF ModeCalls
    <2> QED
      BY <1>1, <2>2, <2>3, <2>4 DEF ModeCalls
  <1>9. AfterEnded'
    <2>1. \A k \in ended : k \in DOMAIN choices /\ choices[k].ended
      BY DEF ended
    <2>2. ASSUME NEW j \in DOMAIN choices', NEW k \in choices'[j].after
          PROVE  k \in DOMAIN choices /\ choices[k].ended
      BY <2>1, <1>5, <1>6 DEF AfterEnded
    <2> QED
      BY <2>2, <1>6 DEF AfterEnded
  <1>10. Explained'
    <2> SUFFICES ASSUME NEW i \in DOMAIN choices, Explains(i)
                 PROVE  Explains(i)'
      BY <1>1, <1>6 DEF Explained
    <2>1. choices'[i] = choices[i]
      BY <1>6
    <2>2. ASSUME NEW j \in DOMAIN choices', choices'[j].mode = "Simulation",
                 i \in choices'[j].after
          PROVE  /\ ~choices'[j].ended
                 /\ \A c \in calls' : c.kind = "setMode" /\ c.n = j
                                          => c.stage \in {"asked", "read", "failed"}
      <3>1. CASE j = n
        <4>1. \A c \in calls : c.kind = "setMode" => c.n # n
          BY <1>6 DEF ModeCalls, ModeCall
        <4> QED
          BY <3>1, <4>1, <1>1, <1>4, <1>5, <1>6
      <3>2. CASE j \in DOMAIN choices
        BY <3>2, <2>2, <1>1, <1>4, <1>6 DEF Explains
      <3> QED
        BY <3>1, <3>2, <1>6
    <2> QED
      BY <2>1, <2>2 DEF Explains
  <1> QED
    BY <1>7, <1>8, <1>9, <1>10

\* A call that goes on to another stage, the file as it may be left by it.
LEMMA ControlsMove ==
    ASSUME ControlsInv, NEW c \in calls, NEW read \in Controls!Config,
           NEW stage \in {"asked", "read", "writing", "unlinked", "answered", "failed"},
           Controls!Moves(c, stage, read),
           UNCHANGED <<agentConfig, modeControl, choices>>,
           c.kind # "setMode" => stage \notin {"writing", "unlinked"},
           c.kind = "setMode" /\ stage \in {"writing", "unlinked", "answered"}
               => read.mode = c.body.mode
    PROVE  /\ calls' \in SUBSET ControlCall /\ ModeCalls' /\ AfterEnded'
           /\ \A i \in DOMAIN choices :
                 /\ Explains(i)
                 /\ c.kind = "setMode" /\ stage \in {"writing", "unlinked", "answered"}
                        => c.stage \in {"writing", "unlinked"}
                 => Explains(i)'
  <1> USE DEF ControlsInv
  <1> PICK next : next = [c EXCEPT !.stage = stage, !.read = read]
    OBVIOUS
  <1>1. calls' = (calls \ {c}) \cup {next} /\ choices' = choices
    BY DEF Controls!Moves
  <1>2. c \in ControlCall
    BY DEF ControlsTypes
  <1>3. /\ next \in ControlCall /\ next.n = c.n /\ next.kind = c.kind /\ next.body = c.body
        /\ next.stage = stage /\ next.read = read
    BY <1>2 DEF ControlCall
  <1>4. calls' \in SUBSET ControlCall
    BY <1>1, <1>3 DEF ControlsTypes
  <1>5. ModeCalls'
    <2>1. \A d \in calls : ModeCall(d)
      BY DEF ModeCalls
    <2>2. ModeCall(next)'
      BY <2>1, <1>1, <1>3 DEF ModeCall
    <2>3. \A d \in calls : ModeCall(d)'
      BY <2>1, <1>1 DEF ModeCall
    <2>4. \A d, e \in calls' : d.kind = "setMode" /\ e.kind = "setMode" /\ d.n = e.n => d = e
      <3>1. \A d \in calls : d.kind = "setMode" /\ next.kind = "setMode" /\ d.n = next.n => d = c
        BY <1>3 DEF ModeCalls
      <3>2. \A d, e \in calls : d.kind = "setMode" /\ e.kind = "setMode" /\ d.n = e.n => d = e
        BY DEF ModeCalls
      <3> SUFFICES ASSUME NEW d \in calls', NEW e \in calls', d.kind = "setMode",
                          e.kind = "setMode", d.n = e.n
                   PROVE  d = e
        OBVIOUS
      <3>3. CASE d = next /\ e # next
        BY <1>1, <3>1, <3>3
      <3>4. CASE e = next /\ d # next
        BY <1>1, <3>1, <3>4
      <3> QED
        BY <1>1, <3>2, <3>3, <3>4
    <2> QED
      BY <1>1, <2>2, <2>3, <2>4 DEF ModeCalls
  <1>6. AfterEnded'
    BY <1>1 DEF AfterEnded
  <1>7. ASSUME NEW i \in DOMAIN choices, Explains(i),
               c.kind = "setMode" /\ stage \in {"writing", "unlinked", "answered"}
                   => c.stage \in {"writing", "unlinked"}
        PROVE  Explains(i)'
    <2>1. ASSUME NEW j \in DOMAIN choices, choices[j].mode = "Simulation",
                 i \in choices[j].after, NEW d \in calls', d.kind = "setMode", d.n = j
          PROVE  d.stage \in {"asked", "read", "failed"}
      <3>1. CASE d = next
        <4>1. c.stage \in {"asked", "read", "failed"}
          BY <1>3, <1>7, <2>1, <3>1 DEF Explains
        <4> QED
          BY <1>3, <1>7, <2>1, <3>1, <4>1
      <3>2. CASE d \in calls
        BY <1>7, <2>1, <3>2 DEF Explains
      <3> QED
        BY <1>1, <3>1, <3>2
    <2> QED
      BY <1>1, <1>7, <2>1 DEF Explains
  <1> QED
    BY <1>4, <1>5, <1>6, <1>7

\* The answer of a choice of Simulation that had opened the file ends it: no
\* choice that explains Production was before it.
LEMMA ControlsArrive ==
    ASSUME ControlsInv, Default \in Interval, NEW c \in calls, Controls!Arrives(c)
    PROVE  ControlsInv'
  <1> USE DEF ControlsInv
  <1>1. calls' = calls \ {c} /\ UNCHANGED file
    BY DEF Controls!Arrives
  <1>2. c \in ControlCall
    BY DEF ControlsTypes
  <1>3. agentConfig' \in [Page -> Controls!Config]
    BY <1>2, DefaultsType DEF Controls!Arrives, ControlsTypes, ControlCall
  <1>4. modeControl' \in [Page -> [mode : Controls!Mode, loading : BOOLEAN]]
    <2>1. Controls!ModeOf(c.read) \in Controls!Mode
      BY <1>2 DEF ControlCall, Controls!ModeOf, Controls!Config, Controls!Mode, Controls!Unknown
    <2> QED
      BY <1>2, <2>1 DEF Controls!Arrives, ControlsTypes, ControlCall
  <1>5. CASE choices' = choices
    <2>1. ControlsTypes'
      BY <1>1, <1>3, <1>4, <1>5 DEF ControlsTypes
    <2>2. ModeCalls'
      BY <1>1, <1>5 DEF ModeCalls, ModeCall
    <2>3. AfterEnded' /\ Explained'
      BY <1>1, <1>5 DEF AfterEnded, Explained, Explains
    <2> QED
      BY <2>1, <2>2, <2>3
  <1>6. CASE c.kind = "setMode" /\ c.stage = "answered"
    <2>1. choices' = [choices EXCEPT ![c.n].ended = TRUE] /\ c.n \in DOMAIN choices
      BY <1>6 DEF Controls!Arrives, ModeCalls, ModeCall
    <2>2. choices \in Seq(Choice)
      BY DEF ControlsTypes
    <2>3. choices[c.n] \in Choice /\ [choices[c.n] EXCEPT !.ended = TRUE] \in Choice
      <3>1. choices[c.n] \in Choice
        BY <2>1, <2>2
      <3> QED
        BY <3>1 DEF Choice
    <2>4. /\ choices' \in Seq(Choice) /\ DOMAIN choices' = DOMAIN choices
          /\ Len(choices') = Len(choices)
      BY <2>1, <2>2, <2>3
    <2>5. /\ \A j \in DOMAIN choices : /\ choices'[j].mode = choices[j].mode
                                       /\ choices'[j].after = choices[j].after
                                       /\ choices[j].ended => choices'[j].ended
                                       /\ j # c.n => choices'[j] = choices[j]
      BY <2>1, <2>2, <2>3 DEF Choice
    <2>6. ControlsTypes'
      BY <1>1, <1>3, <1>4, <2>4 DEF ControlsTypes
    <2>7. ModeCalls'
      <3>1. \A d \in calls' : d.kind = "setMode" => d.n # c.n
        BY <1>1, <1>6 DEF ModeCalls
      <3>2. \A d \in calls' : ModeCall(d)
        BY <1>1 DEF ModeCalls
      <3>3. \A d \in calls' : ModeCall(d)'
        BY <2>4, <2>5, <3>1, <3>2 DEF ModeCall
      <3>4. \A d, e \in calls' : d.kind = "setMode" /\ e.kind = "setMode" /\ d.n = e.n => d = e
        BY <1>1 DEF ModeCalls
      <3> QED
        BY <3>3, <3>4 DEF ModeCalls
    <2>8. AfterEnded'
      BY <2>4, <2>5 DEF AfterEnded
    <2>9. Explained'
      <3> SUFFICES ASSUME NEW i \in DOMAIN choices, Explains(i)
                   PROVE  Explains(i)'
        BY <1>1, <2>4 DEF Explained
      <3>1. ASSUME NEW j \in DOMAIN choices, choices[j].mode = "Simulation",
                   i \in choices[j].after
            PROVE  j # c.n
        BY <1>6, <3>1 DEF Explains
      <3> QED
        BY <1>1, <2>4, <2>5, <3>1 DEF Explains
    <2> QED
      BY <2>6, <2>7, <2>8, <2>9
  <1> QED
    BY <1>5, <1>6 DEF Controls!Arrives

\* The other writing replaces the file with one that holds no mode.
LEMMA ControlsSave ==
    ASSUME ControlsInv, NEW c \in calls, Controls!SaveConfig(c)
    PROVE  ControlsInv'
  <1> USE DEF ControlsInv
  <1> DEFINE unlinked(d) == IF d.stage = "writing" THEN [d EXCEPT !.stage = "unlinked"] ELSE d
  <1> DEFINE answer == [c EXCEPT !.stage = "answered", !.read = c.body]
  <1> PICK answered : answered = answer
    OBVIOUS
  <1>1. /\ calls' = {unlinked(d) : d \in calls \ {c}} \cup {answered}
        /\ c.kind # "setMode" /\ file' = {c.body}
        /\ UNCHANGED <<agentConfig, modeControl, choices>>
    BY DEF Controls!SaveConfig, Controls!Rebuilt
  <1>2. c \in ControlCall /\ c.body \in Controls!Config /\ c.n <= Len(choices)
    BY DEF ControlsTypes, ControlCall, ModeCalls, ModeCall
  <1>3. /\ answered \in ControlCall /\ answered.kind = c.kind /\ answered.n = c.n
        /\ answered.stage = "answered" /\ answered.body = c.body
    BY <1>2 DEF ControlCall
  <1>4. ASSUME NEW d \in calls
        PROVE  /\ unlinked(d) \in ControlCall /\ unlinked(d).kind = d.kind
               /\ unlinked(d).n = d.n /\ unlinked(d).body = d.body /\ unlinked(d).read = d.read
               /\ d.stage # "writing" => unlinked(d).stage = d.stage
               /\ d.stage = "writing" => unlinked(d).stage = "unlinked"
    BY DEF ControlsTypes, ControlCall
  <1> HIDE DEF unlinked, answer
  <1>5. ControlsTypes'
    BY <1>1, <1>2, <1>3, <1>4 DEF ControlsTypes
  <1>6. ModeCalls'
    <2>1. ASSUME NEW d \in calls
          PROVE  ModeCall(unlinked(d))'
      BY <1>1, <1>4 DEF ModeCalls, ModeCall
    <2>2. ModeCall(answered)'
      BY <1>1, <1>2, <1>3 DEF ModeCalls, ModeCall
    <2>3. \A d, e \in calls' : d.kind = "setMode" /\ e.kind = "setMode" /\ d.n = e.n => d = e
      <3> SUFFICES ASSUME NEW d \in calls', NEW e \in calls', d.kind = "setMode",
                          e.kind = "setMode", d.n = e.n
                   PROVE  d = e
        OBVIOUS
      <3>1. PICK d0 \in calls : d = unlinked(d0)
        BY <1>1, <1>3
      <3>2. PICK e0 \in calls : e = unlinked(e0)
        BY <1>1, <1>3
      <3>3. d0 = e0
        BY <1>4, <3>1, <3>2 DEF ModeCalls
      <3> QED
        BY <3>1, <3>2, <3>3
    <2>4. \A d \in calls' : ModeCall(d)'
      BY <1>1, <2>1, <2>2
    <2> QED
      BY <2>3, <2>4 DEF ModeCalls
  <1>7. AfterEnded'
    BY <1>1 DEF AfterEnded
  <1>8. Explained'
    BY <1>1 DEF Explained, ModeCalls, ModeCall, Controls!Unknown
  <1> QED
    BY <1>5, <1>6, <1>7, <1>8

LEMMA ControlsStep ==
    ASSUME ControlsInv, Default \in Interval, [Controls!Next]_(Controls!vars)
    PROVE  ControlsInv'
  <1> USE DEF ControlsInv
  <1>1. ASSUME NEW p \in Page, NEW kind \in {"getConfig", "getMode"}, Controls!Load(p, kind)
        PROVE  ControlsInv'
    <2>1. Controls!Defaults.mode = Controls!Unknown
      BY DEF Controls!Defaults
    <2> QED
      BY <1>1, <2>1, DefaultsType, ControlsAsk DEF Controls!Load
  <1>2. ASSUME NEW p \in Page, NEW minutes \in Interval, Controls!UpdateAgentInterval(p, minutes)
        PROVE  ControlsInv'
    <2> PICK body : body = [Controls!Defaults EXCEPT !.interval = minutes]
      OBVIOUS
    <2>1. body \in Controls!Config /\ body.mode = Controls!Unknown
      BY DefaultsType DEF Controls!Defaults, Controls!Config
    <2>2. /\ Controls!Ask(p, "setInterval", body, 0)
          /\ UNCHANGED <<file, agentConfig, modeControl, choices>>
      BY <1>2 DEF Controls!UpdateAgentInterval, Controls!Post
    <2> QED
      BY <2>1, <2>2, ControlsAsk
  <1>3. ASSUME NEW p \in Page, Controls!UpdateAgentPause(p)
        PROVE  ControlsInv'
    <2> PICK body : body = [Controls!Defaults EXCEPT !.interval = agentConfig[p].interval,
                                                     !.paused = ~agentConfig[p].paused]
      OBVIOUS
    <2>1. agentConfig[p].interval \in Interval
      BY DEF ControlsTypes, Controls!Config
    <2>2. body \in Controls!Config /\ body.mode = Controls!Unknown
      BY <2>1, DefaultsType DEF Controls!Defaults, Controls!Config
    <2>3. /\ Controls!Ask(p, "setPause", body, 0)
          /\ UNCHANGED <<file, agentConfig, modeControl, choices>>
      BY <1>3 DEF Controls!UpdateAgentPause, Controls!Post
    <2> QED
      BY <2>2, <2>3, ControlsAsk
  <1>4. ASSUME NEW p \in Page, NEW m \in Controls!Mode, Controls!UpdateAgentMode(p, m)
        PROVE  ControlsInv'
    BY <1>4, ControlsChoose
  <1>5. ASSUME NEW c \in calls, Controls!Arrives(c)
        PROVE  ControlsInv'
    BY <1>5, ControlsArrive
  <1>6. ASSUME NEW c \in calls, Controls!Reads(c) \/ Controls!Lost(c)
        PROVE  ControlsInv'
    <2>1. PICK stage \in {"read", "answered", "failed"}, read \in Controls!Config :
             /\ Controls!Moves(c, stage, read)
             /\ stage = "answered" => c.kind # "setMode"
      BY <1>6, ReadType, DefaultsType DEF Controls!Reads, Controls!Lost
    <2>2. UNCHANGED <<file, agentConfig, modeControl, choices>>
      BY <1>6 DEF Controls!Reads, Controls!Lost
    <2>3. /\ calls' \in SUBSET ControlCall /\ ModeCalls' /\ AfterEnded'
          /\ \A i \in DOMAIN choices : Explains(i) => Explains(i)'
      BY <2>1, <2>2, ControlsMove
    <2> QED
      BY <2>2, <2>3 DEF ControlsTypes, Explained
  <1>7. ASSUME NEW c \in calls, Controls!SaveConfig(c)
        PROVE  ControlsInv'
    BY <1>7, ControlsSave
  <1>8. ASSUME NEW c \in calls, Controls!OpenMode(c)
        PROVE  ControlsInv'
    <2> PICK read : read = [c.read EXCEPT !.mode = c.body.mode]
      OBVIOUS
    <2>1. c.read \in Controls!Config /\ c.body \in Controls!Config
      BY DEF ControlsTypes, ControlCall
    <2>2. read \in Controls!Config /\ read.mode = c.body.mode
      BY <2>1 DEF Controls!Config
    <2>3. /\ Controls!Moves(c, "writing", read) /\ c.kind = "setMode" /\ file' = {}
          /\ UNCHANGED <<agentConfig, modeControl, choices>>
      BY <1>8 DEF Controls!OpenMode
    <2>4. calls' \in SUBSET ControlCall /\ ModeCalls' /\ AfterEnded'
      BY <2>2, <2>3, ControlsMove
    <2> QED
      BY <2>3, <2>4 DEF ControlsTypes, Explained
  <1>9. ASSUME NEW c \in calls, Controls!WriteMode(c)
        PROVE  ControlsInv'
    <2>1. /\ Controls!Moves(c, "answered", c.read) /\ c.stage \in {"writing", "unlinked"}
          /\ UNCHANGED <<agentConfig, modeControl, choices>>
          /\ file' = IF c.stage = "writing" THEN {c.read} ELSE file
      BY <1>9 DEF Controls!WriteMode
    <2>2. c.read \in Controls!Config
      BY DEF ControlsTypes, ControlCall
    <2>3. /\ c.kind = "setMode" /\ c.n \in DOMAIN choices /\ c.read.mode = c.body.mode
          /\ choices[c.n].mode = c.read.mode /\ ~choices[c.n].ended
      BY <2>1 DEF ModeCalls, ModeCall
    <2>4. /\ calls' \in SUBSET ControlCall /\ ModeCalls' /\ AfterEnded'
          /\ \A i \in DOMAIN choices : Explains(i) => Explains(i)'
      BY <2>1, <2>2, <2>3, ControlsMove
    <2>5. ControlsTypes'
      BY <2>1, <2>2, <2>4 DEF ControlsTypes
    <2>6. Explained'
      <3>1. CASE file' = file
        BY <3>1, <2>1, <2>4 DEF Explained
      <3>2. CASE file' = {c.read}
        <4>1. c.read.mode = "Production" => Explains(c.n)'
          BY <2>1, <2>3 DEF Explains, AfterEnded
        <4> QED
          BY <3>2, <4>1, <2>1, <2>3 DEF Explained
      <3> QED
        BY <3>1, <3>2, <2>1
    <2> QED
      BY <2>4, <2>5, <2>6
  <1>10. CASE UNCHANGED Controls!vars
    BY <1>10 DEF Controls!vars, ControlsTypes, ModeCalls, ModeCall, AfterEnded, Explained,
                 Explains
  <1> QED
    BY <1>1, <1>2, <1>3, <1>4, <1>5, <1>6, <1>7, <1>8, <1>9, <1>10 DEF Controls!Next

LEMMA ControlsShow ==
    ASSUME ControlsInv
    PROVE  Controls!ProductionIsAsked
  <1> SUFFICES ASSUME Controls!ModeOf(Controls!Read) = "Production"
               PROVE  \E i \in DOMAIN choices : Explains(i)
    BY DEF Controls!ProductionIsAsked, Explains
  <1>1. Controls!ModeOf(Controls!Defaults) # "Production"
    BY DEF Controls!ModeOf, Controls!Defaults
  <1>2. file # {}
    BY <1>1 DEF Controls!Read
  <1>3. Controls!Read \in file
    BY <1>2 DEF Controls!Read
  <1>4. Controls!Read.mode = "Production"
    BY DEF Controls!ModeOf, Controls!Unknown
  <1> QED
    BY <1>3, <1>4 DEF ControlsInv, Explained
-----------------------------------------------------------------------------
(* The session: the roles of the pages and those of the routes.            *)

\* What a call of the portal relies on: its route takes one of the roles it was
\* made by, unless nothing looked at them.
Permitted(c) ==
    /\ c.route \in DOMAIN Session!RouteRoles
    /\ Session!Unguarded(c) \/ Session!Has(c.by, Session!RouteRoles[c.route])

SessionInv ==
    /\ granted \in Grants /\ token \in Grants /\ identity \in Grants
    /\ page \in Session!Pages /\ Session!CanAccess(page, identity)
    /\ overlays \subseteq {"getLookup", "getCheck"}
    /\ \A c \in calls : Permitted(c)
    /\ \A c \in refused : c.route \in DOMAIN Session!RouteRoles
    /\ Session!RefusedIsWithdrawn

\* The two tables agree: a page that may be shown makes and offers only calls
\* that its roles are allowed, or that nothing guards.
LEMMA LoadsAllowed ==
    ASSUME NEW p \in Session!Pages, NEW roles,
           NEW r \in Session!MountCalls(roles) \cup Session!PageCalls(p, roles)
    PROVE  r \in DOMAIN Session!RouteRoles /\ Session!Has(roles, Session!RouteRoles[r])
  <1> USE DEF Session!PortalRead, Session!Operator, Session!ActiveDirectory, Session!Security,
              Session!Audit, Session!Has, Session!If
  <1>1. CASE r \in Session!MountCalls(roles)
    BY <1>1 DEF Session!MountCalls, Session!RouteRoles
  <1>2. CASE r \in Session!PageCalls(p, roles)
    BY <1>2 DEF Session!PageCalls, Session!RouteRoles
  <1> QED
    BY <1>1, <1>2

LEMMA OffersAllowed ==
    ASSUME SessionInv, NEW a \in Session!Offered(page, identity)
    PROVE  Permitted([for |-> a.for, route |-> a.route, by |-> identity])
  <1> DEFINE call == [for |-> a.for, route |-> a.route, by |-> identity]
  <1> USE DEF Session!PortalRead, Session!Operator, Session!ActiveDirectory, Session!Security,
              Session!Audit, Session!Has, Session!If, Session!Ask
  <1>1. CASE a \in Session!Ask("panel", overlays)
    BY <1>1 DEF Permitted, SessionInv, Session!Unguarded, Session!RouteRoles
  <1>2. CASE page \in Session!Lookups /\ a = [for |-> page, route |-> "postLookup"]
    BY <1>2 DEF Permitted, Session!Unguarded, Session!RouteRoles
  <1>3. CASE page = "agentOps" /\ a = [for |-> "history", route |-> "getAudit"]
    BY <1>3 DEF Permitted, Session!Unguarded, Session!RouteRoles
  <1>4. CASE /\ a \notin Session!Ask("panel", overlays)
             /\ ~(page \in Session!Lookups /\ a = [for |-> page, route |-> "postLookup"])
             /\ ~(page = "agentOps" /\ a = [for |-> "history", route |-> "getAudit"])
    <2>1. a.route \in DOMAIN Session!RouteRoles
          /\ Session!Has(identity, Session!RouteRoles[a.route])
      BY <1>4 DEF SessionInv, Session!Offered, Session!Lookups, Session!RouteRoles,
                  Session!CanAccess, Session!PageRoles, Session!Pages
    <2> QED
      BY <2>1 DEF Permitted
  <1> QED
    BY <1>1, <1>2, <1>3, <1>4

\* A role that lets a call through lets the next call of its operation through.
LEMMA FollowUpsAllowed ==
    ASSUME NEW c, Permitted(c), page \in Session!Pages, NEW next \in Session!FollowUps(c)
    PROVE  /\ next.page \in Session!Pages
           /\ \A r \in next.routes : Permitted([for |-> c.for, route |-> r, by |-> c.by])
  <1> USE DEF Session!PortalRead, Session!Operator, Session!ActiveDirectory, Session!Security,
              Session!Audit, Session!Has, Session!RouteRoles, Session!Then
  <1>1. next.page \in Session!Pages
    BY DEF Session!FollowUps, Session!Lookups, Session!Pages, Session!PageRoles
  <1>2. ASSUME NEW r \in next.routes
        PROVE  Permitted([for |-> c.for, route |-> r, by |-> c.by])
    BY <1>2 DEF Session!FollowUps, Permitted, Session!Unguarded, Session!Lookups
  <1> QED
    BY <1>1, <1>2

LEMMA DefaultPageAllowed ==
    ASSUME NEW roles, NEW p \in Session!Pages
    PROVE  /\ Session!DefaultPage(roles, p) \in Session!Pages
           /\ Session!CanAccess(Session!DefaultPage(roles, p), roles)
  BY DEF Session!DefaultPage, Session!CanAccess, Session!Pages, Session!PageRoles

LEMMA SettlesOnAllowed ==
    ASSUME NEW wanted \in Session!Pages, Session!Settles(wanted)
    PROVE  page' \in Session!Pages /\ Session!CanAccess(page', identity')
  <1>1. "overview" \in Session!Pages
    BY DEF Session!Pages, Session!PageRoles
  <1> QED
    BY <1>1, DefaultPageAllowed DEF Session!Settles

\* What is sent with the calls that stay: calls of the page, of roles that may
\* see it.
LEMMA SendsAllowed ==
    ASSUME NEW kept, \A c \in kept : Permitted(c),
           NEW p \in Session!Pages, NEW roles, roles = identity',
           NEW asked \in SUBSET Session!Loads(p, roles), Session!Sends(kept, asked)
    PROVE  \A c \in calls' : Permitted(c)
  <1>1. PICK sent \in SUBSET asked : calls' = kept \cup Session!Made(sent, roles)
    BY DEF Session!Sends, Session!Followed
  <1>2. ASSUME NEW a \in sent
        PROVE  Permitted([for |-> a.for, route |-> a.route, by |-> roles])
    <2>1. a.route \in Session!MountCalls(roles) \cup Session!PageCalls(p, roles)
      BY DEF Session!Loads, Session!Ask
    <2> QED
      BY <2>1, LoadsAllowed DEF Permitted
  <1> QED
    BY <1>1, <1>2 DEF Session!Made

\* The same for the calls of a page that comes to be shown.
LEMMA ShownAllowed ==
    ASSUME NEW kept, \A c \in kept : Permitted(c), page' \in Session!Pages, NEW wanted,
           Session!Sends(kept, Session!ShownCalls(wanted))
    PROVE  \A c \in calls' : Permitted(c)
  <1>1. Session!ShownCalls(wanted) \in SUBSET Session!Loads(page', identity')
    BY DEF Session!ShownCalls, Session!Ask, Session!If, Session!Loads
  <1> QED
    BY <1>1, SendsAllowed

\* The panels are known by the routes that refresh them.
LEMMA PanelRoutes ==
    ASSUME SessionInv, NEW a \in Session!Loads(page, identity) \cup Session!Offered(page, identity),
           a.for = "panel"
    PROVE  a.route \in {"getLookup", "getCheck"}
  BY DEF SessionInv, Session!Loads, Session!Offered, Session!Ask, Session!If, Session!Lookups

LEMMA SessionInit ==
    ASSUME Session!Init
    PROVE  SessionInv
  <1>1. Session!CanAccess(page, granted) /\ page \in Session!Pages
    BY DefaultPageAllowed DEF Session!Init
  <1>2. \A c \in calls : Permitted(c)
    <2>1. PICK sent \in SUBSET Session!Loads(page, granted) : calls = Session!Made(sent, granted)
      BY DEF Session!Init, Session!Followed
    <2>2. \A a \in sent : /\ a.route \in DOMAIN Session!RouteRoles
                          /\ Session!Has(granted, Session!RouteRoles[a.route])
      BY <1>1, LoadsAllowed DEF Session!Loads, Session!Ask
    <2> QED
      BY <2>1, <2>2 DEF Session!Made, Permitted
  <1> QED
    BY <1>1, <1>2 DEF Session!Init, SessionInv, Session!RefusedIsWithdrawn

\* A step that refuses nothing.
LEMMA NothingRefused ==
    ASSUME refused' = {}
    PROVE  /\ \A c \in refused' : c.route \in DOMAIN Session!RouteRoles
           /\ Session!RefusedIsWithdrawn'
  BY DEF Session!RefusedIsWithdrawn

\* A call that was permitted is refused only for a role withdrawn since.
LEMMA SentIsWithdrawn ==
    ASSUME NEW c, Permitted(c), Session!Sent(c)
    PROVE  /\ \A d \in refused' : d.route \in DOMAIN Session!RouteRoles
           /\ Session!RefusedIsWithdrawn'
  <1>1. CASE Session!Has(token', Session!RouteRoles[c.route])
    BY <1>1, NothingRefused DEF Session!Sent
  <1>2. CASE ~Session!Has(token', Session!RouteRoles[c.route])
    <2> DEFINE d == [for |-> c.for, route |-> c.route, by |-> c.by, token |-> token']
    <2>1. refused' = {d}
      BY <1>2 DEF Session!Sent
    <2>2. Session!Unguarded(d) \/ \E role \in Session!RouteRoles[c.route] : role \in c.by \ token'
      BY <1>2 DEF Permitted, Session!Has, Session!Unguarded
    <2> QED
      BY <2>1, <2>2 DEF Permitted, Session!RefusedIsWithdrawn
  <1> QED
    BY <1>1, <1>2

LEMMA SessionStep ==
    ASSUME SessionInv, [Session!Next]_(Session!vars)
    PROVE  SessionInv'
  <1> USE DEF SessionInv
  <1>1. ASSUME NEW roles \in Grants, Session!Grant(roles)
        PROVE  SessionInv'
    BY <1>1, NothingRefused DEF Session!Grant, Permitted
  <1>2. CASE Session!UpdateToken
    BY <1>2, NothingRefused DEF Session!UpdateToken, Permitted
  <1>3. CASE Session!RefreshSession
    <2>1. page' \in Session!Pages /\ Session!CanAccess(page', identity')
      BY <1>3, SettlesOnAllowed DEF Session!RefreshSession
    <2>2. \A c \in calls' : Permitted(c)
      <3> DEFINE asked == Session!Ask("load",
                            Session!If(Session!RightsChange, Session!MountCalls(identity'))
                              \cup Session!PageCalls(page', identity'))
      <3>1. asked \in SUBSET Session!Loads(page', identity')
        BY DEF Session!Ask, Session!If, Session!Loads
      <3>2. Session!Sends(calls, asked)
        BY <1>3 DEF Session!RefreshSession
      <3> HIDE DEF asked
      <3> QED
        BY <2>1, <3>1, <3>2, SendsAllowed
    <2> QED
      BY <1>3, <2>1, <2>2, NothingRefused DEF Session!RefreshSession
  <1>4. CASE Session!Reload
    <2>1. page' \in Session!Pages /\ Session!CanAccess(page', identity')
      BY <1>4, DefaultPageAllowed DEF Session!Reload
    <2>2. \A c \in calls' : Permitted(c)
      BY <1>4, <2>1, SendsAllowed DEF Session!Reload
    <2> QED
      BY <1>4, <2>1, <2>2, NothingRefused DEF Session!Reload
  <1>5. ASSUME NEW p \in Session!Pages, Session!SetPage(p)
        PROVE  SessionInv'
    <2>1. page' \in Session!Pages /\ Session!CanAccess(page', identity')
      BY <1>5, SettlesOnAllowed DEF Session!SetPage
    <2>2. \A c \in calls' : Permitted(c)
      BY <1>5, <2>1, ShownAllowed DEF Session!SetPage
    <2> QED
      BY <1>5, <2>1, <2>2, NothingRefused DEF Session!SetPage
  <1>6. ASSUME NEW a \in Session!Loads(page, identity) \cup Session!Offered(page, identity),
               Session!Call(a)
        PROVE  SessionInv'
    <2>1. Permitted([for |-> a.for, route |-> a.route, by |-> identity])
      <3>1. CASE a \in Session!Offered(page, identity)
        BY <3>1, OffersAllowed
      <3>2. CASE a \in Session!Loads(page, identity)
        BY <3>2, LoadsAllowed DEF Session!Loads, Session!Ask, Permitted
      <3> QED
        BY <3>1, <3>2
    <2>2. \A c \in calls' : Permitted(c)
      BY <1>6, <2>1 DEF Session!Call, Session!Made
    <2>3. overlays' \subseteq {"getLookup", "getCheck"}
      BY <1>6, PanelRoutes DEF Session!Call, Session!If
    <2> QED
      BY <1>6, <2>2, <2>3, NothingRefused DEF Session!Call
  <1>7. ASSUME NEW p \in Session!Lookups, Session!UseResult(p)
        PROVE  SessionInv'
    <2>1. p \in Session!Pages
      BY DEF Session!Lookups, Session!Pages, Session!PageRoles
    <2>2. page' \in Session!Pages /\ Session!CanAccess(page', identity')
      BY <1>7, <2>1, SettlesOnAllowed DEF Session!UseResult, Session!Shows
    <2>3. \A c \in calls' : Permitted(c)
      BY <1>7, <2>2, ShownAllowed DEF Session!UseResult
    <2> QED
      BY <1>7, <2>2, <2>3, NothingRefused DEF Session!UseResult
  <1>8. ASSUME NEW panel \in overlays, Session!ClosePanel(panel)
        PROVE  SessionInv'
    BY <1>8, NothingRefused DEF Session!ClosePanel, Permitted
  <1>9. ASSUME NEW c \in calls, Session!Answer(c)
        PROVE  SessionInv'
    <2>1. PICK next \in Session!FollowUps(c), ok \in BOOLEAN :
              /\ Session!Shows(next.page)
              /\ Session!Sends((calls \ {c}) \cup Session!Made(Session!Ask(c.for, next.routes), c.by),
                               Session!ShownCalls(next.page))
              /\ overlays' = IF ~ok THEN overlays
                            ELSE IF next.found THEN overlays \ {"getLookup"}
                            ELSE overlays
                                 \cup Session!If(c.route \in {"postLookup", "getLookup"}, {"getLookup"})
                                 \cup Session!If(c.route \in {"postCheck", "getCheck"}, {"getCheck"})
      BY <1>9 DEF Session!Answer
    <2>2. /\ next.page \in Session!Pages
          /\ \A r \in next.routes : Permitted([for |-> c.for, route |-> r, by |-> c.by])
      BY FollowUpsAllowed
    <2>3. granted' = granted /\ identity' = identity /\ token' \in Grants
      BY <1>9 DEF Session!Answer, Session!Sent
    <2>4. page' \in Session!Pages /\ Session!CanAccess(page', identity')
      BY <2>1, <2>2, <2>3, SettlesOnAllowed DEF Session!Shows
    <2>5. \A d \in (calls \ {c}) \cup Session!Made(Session!Ask(c.for, next.routes), c.by) :
              Permitted(d)
      BY <2>2 DEF Session!Made, Session!Ask
    <2>6. \A d \in calls' : Permitted(d)
      BY <2>1, <2>4, <2>5, ShownAllowed
    <2>7. overlays' \subseteq {"getLookup", "getCheck"}
      BY <2>1 DEF Session!If
    <2>8. /\ \A d \in refused' : d.route \in DOMAIN Session!RouteRoles
          /\ Session!RefusedIsWithdrawn'
      BY <1>9, SentIsWithdrawn DEF Session!Answer
    <2> QED
      BY <2>3, <2>4, <2>6, <2>7, <2>8
  <1>10. ASSUME NEW c \in calls, Session!Fails(c)
        PROVE  SessionInv'
    <2>1. /\ \A d \in refused' : d.route \in DOMAIN Session!RouteRoles
          /\ Session!RefusedIsWithdrawn'
      BY <1>10, SentIsWithdrawn DEF Session!Fails
    <2> QED
      BY <1>10, <2>1 DEF Session!Fails, Session!Sent, Permitted
  <1>11. CASE UNCHANGED Session!vars
    BY <1>11 DEF Session!vars, Permitted, Session!RefusedIsWithdrawn
  <1> QED
    BY <1>1, <1>2, <1>3, <1>4, <1>5, <1>6, <1>7, <1>8, <1>9, <1>10, <1>11 DEF Session!Next
-----------------------------------------------------------------------------
(* The workers: what is listed of them.                                    *)

\* What is stored, or is about to be, claims no more than what was heard.
Honest(content, fine) ==
    \A w \in Worker :
        /\ content[w].seen \in Int
        /\ content[w].status # "error" => content[w].seen <= fine[w]

WorkerRecord == [status : {"absent", "running", "error"}, seen : {Workers!Never} \cup Nat,
                 state : {"unknown", "healthy", "stale", "error"}]
WorkerCall == [kind : {"beat", "list"}, content : [Worker -> WorkerRecord]]

HonestTypes ==
    /\ StaleAfter \in Nat /\ MaxTime \in Nat
    /\ now \in Nat /\ now <= MaxTime
    /\ file \in [Worker -> WorkerRecord]
    /\ calls \in SUBSET WorkerCall
    /\ heard.fine \in [Worker -> Int]
    /\ heard \in [last : [Worker -> WorkerRecord], fine : [Worker -> Int]]
    /\ \A w \in Worker : heard.fine[w] <= now

\* The inductive invariant.  The calls have to be in it: whatever one of them
\* holds will be the file.
HonestInv ==
    /\ HonestTypes
    /\ Honest(file, heard.fine)
    /\ \A c \in calls : Honest(c.content, heard.fine)

LEMMA HealthStateType ==
    ASSUME NEW record, NEW at
    PROVE  Workers!HealthState(record, at) \in {"unknown", "healthy", "stale", "error"}
  BY DEF Workers!HealthState

LEMMA HonestInit ==
    ASSUME StaleAfter \in Nat, MaxTime \in Nat, Workers!Init
    PROVE  HonestInv
  <1>1. Workers!NoRecord \in WorkerRecord
    BY DEF Workers!NoRecord, WorkerRecord, Workers!Never
  <1>2. HonestTypes
    BY <1>1, SMT DEF Workers!Init, HonestTypes, Workers!Never
  <1>3. Honest(file, heard.fine)
    BY DEF Workers!Init, Honest, Workers!NoRecord, Workers!Never
  <1> QED
    BY <1>2, <1>3 DEF HonestInv, Workers!Init

\* Hearing more of a worker keeps what is stored honest.
LEMMA HonestGrows ==
    ASSUME HonestTypes, HonestTypes', NEW content,
           Honest(content, heard.fine),
           \A w \in Worker : heard.fine[w] <= heard'.fine[w]
    PROVE  Honest(content, heard'.fine)
  BY DEF Honest, HonestTypes

LEMMA HonestStep ==
    ASSUME HonestInv, [Workers!Next]_(Workers!vars)
    PROVE  HonestInv'
  <1> USE DEF HonestInv
  <1>1. CASE Workers!Tick
    BY <1>1 DEF Workers!Tick, HonestTypes, Honest
  <1>2. CASE Workers!GetWorkerStatus
    <2> DEFINE content == [w \in Worker |->
                              IF file[w] = Workers!NoRecord THEN Workers!NoRecord
                              ELSE [file[w] EXCEPT !.state = Workers!CurrentState(file[w])]]
    <2>1. \A w \in Worker : content[w] \in WorkerRecord
      BY HealthStateType DEF HonestTypes, WorkerRecord, Workers!CurrentState, Workers!NoRecord, Workers!Never
    <2>2. calls' = calls \cup {[kind |-> "list", content |-> content]}
      BY <1>2 DEF Workers!GetWorkerStatus, Workers!Loads
    <2>3. \A w \in Worker : /\ content[w].seen = file[w].seen
                            /\ content[w].status = file[w].status
      BY DEF HonestTypes, WorkerRecord
    <2>4. Honest(content, heard.fine)
      BY <2>3 DEF Honest
    <2>5. UNCHANGED <<now, file, heard>>
      BY <1>2 DEF Workers!GetWorkerStatus
    <2>6. [kind |-> "list", content |-> content] \in WorkerCall
      BY <2>1 DEF WorkerCall
    <2>7. HonestTypes'
      BY <2>2, <2>5, <2>6 DEF HonestTypes
    <2> HIDE DEF content
    <2> QED
      BY <2>2, <2>4, <2>5, <2>7 DEF Honest
  <1>3. CASE Workers!Restart
    BY <1>3 DEF Workers!Restart, HonestTypes, Honest
  <1>4. ASSUME NEW w \in Worker, NEW said \in {"running", "error"},
               Workers!ReceiveWorkerHeartbeat(w, said)
        PROVE  HonestInv'
    <2> DEFINE record == [status |-> said, seen |-> now, state |-> "unknown"]
               stored == [record EXCEPT !.state = Workers!HealthState(record, now)]
               content == [file EXCEPT ![w] = stored]
               call == [kind |-> "beat", content |-> content]
    <2>1. /\ calls' = calls \cup {call}
          /\ UNCHANGED <<now, file>>
          /\ heard' = [last |-> [heard.last EXCEPT ![w] = record],
                       fine |-> IF said = "error" THEN heard.fine
                                ELSE [heard.fine EXCEPT ![w] = now]]
      BY <1>4 DEF Workers!ReceiveWorkerHeartbeat, Workers!Loads
    <2>2. record \in WorkerRecord /\ stored \in WorkerRecord
      BY HealthStateType DEF HonestTypes, WorkerRecord
    <2>3. stored.seen = now /\ stored.status = said
      OBVIOUS
    <2> HIDE DEF stored
    <2>4. content \in [Worker -> WorkerRecord]
      BY <2>2 DEF HonestTypes
    <2>5. HonestTypes'
      <3>1. call \in WorkerCall
        BY <2>4 DEF WorkerCall
      <3> HIDE DEF call, record
      <3> QED
        BY <2>1, <2>2, <3>1 DEF HonestTypes
    <2>6. \A v \in Worker : heard.fine[v] <= heard'.fine[v]
      BY <2>1 DEF HonestTypes
    <2>7. /\ Honest(file, heard'.fine)
          /\ \A c \in calls : Honest(c.content, heard'.fine)
      BY <2>1, <2>5, <2>6, HonestGrows
    <2>8. Honest(content, heard'.fine)
      <3> SUFFICES ASSUME NEW v \in Worker
                   PROVE  /\ content[v].seen \in Int
                          /\ content[v].status # "error" => content[v].seen <= heard'.fine[v]
        BY <2>1 DEF Honest, HonestTypes
      <3>1. CASE v = w
        BY <3>1, <2>1, <2>3 DEF HonestTypes
      <3>2. CASE v # w
        BY <3>2, <2>1 DEF HonestTypes, Honest
      <3> QED
        BY <3>1, <3>2
    <2> HIDE DEF content
    <2> QED
      BY <2>1, <2>5, <2>7, <2>8
  <1>5. ASSUME NEW c \in calls, Workers!Save(c)
        PROVE  HonestInv'
    <2>1. HonestTypes'
      BY <1>5 DEF Workers!Save, HonestTypes, WorkerCall
    <2> QED
      BY <2>1, <1>5 DEF Workers!Save, Honest
  <1>6. CASE UNCHANGED Workers!vars
    BY <1>6 DEF Workers!vars, HonestTypes, Honest
  <1> QED
    BY <1>1, <1>2, <1>3, <1>4, <1>5, <1>6 DEF Workers!Next

LEMMA HonestShows ==
    ASSUME HonestInv
    PROVE  Workers!HealthyIsAlive
  BY DEF HonestInv, HonestTypes, Honest, Workers!HealthyIsAlive, Workers!CurrentState, Workers!HealthState, WorkerRecord

\* Nothing that is stored, or was heard, is of the future.
Past(content) == \A w \in Worker : content[w].seen <= now

\* What a content says of the workers is what was heard of them last.
Fits(content) ==
    \A w \in Worker :
        /\ reported[w] = content[w].state
        /\ content[w] # Workers!NoRecord =>
              /\ content[w].status = heard.last[w].status
              /\ content[w].seen = heard.last[w].seen

\* What the listings rely on while nothing overlaps: the file, or the call that
\* is about to replace it, fits.
SerialInv ==
    /\ reported \in [Worker -> {"unknown", "healthy", "stale", "error"}]
    /\ Past(file) /\ \A c \in calls : Past(c.content)
    /\ ~disturbed =>
          /\ \A c, d \in calls : c = d
          /\ calls = {} => Fits(file)
          /\ \A c \in calls : Fits(c.content)

LEMMA SerialInit ==
    ASSUME StaleAfter \in Nat, Workers!Init
    PROVE  SerialInv
  BY DEF Workers!Init, SerialInv, Past, Fits, Workers!NoRecord, Workers!Never

LEMMA SerialStep ==
    ASSUME HonestInv, HonestInv', SerialInv, [Workers!Next]_(Workers!vars)
    PROVE  SerialInv'
  <1> USE DEF SerialInv
  <1>1. CASE Workers!Tick
    <2>1. UNCHANGED <<file, calls, reported, heard, disturbed>> /\ now' = now + 1
      BY <1>1 DEF Workers!Tick
    <2>2. ASSUME NEW content \in [Worker -> WorkerRecord], Past(content)
          PROVE  Past(content)'
      BY <2>1, <2>2 DEF Past, HonestInv, HonestTypes, WorkerRecord, Workers!Never
    <2> QED
      BY <2>1, <2>2 DEF HonestInv, HonestTypes, WorkerCall, Fits
  <1>2. CASE Workers!GetWorkerStatus
    <2> DEFINE written == [w \in Worker |->
                           IF file[w] = Workers!NoRecord THEN Workers!NoRecord
                           ELSE [file[w] EXCEPT !.state = Workers!CurrentState(file[w])]]
    <2> PICK content : content = written
      OBVIOUS
    <2>1. /\ calls' = calls \cup {[kind |-> "list", content |-> content]}
          /\ disturbed' = (disturbed \/ calls # {})
          /\ UNCHANGED <<now, file, heard>>
          /\ reported' = [w \in Worker |-> IF content[w].state # file[w].state
                                         THEN content[w].state ELSE reported[w]]
      BY <1>2 DEF Workers!GetWorkerStatus, Workers!Loads, Workers!Tells
    <2>2. \A w \in Worker :
              /\ content[w].state \in {"unknown", "healthy", "stale", "error"}
              /\ content[w].seen = file[w].seen /\ content[w].status = file[w].status
              /\ content[w] # Workers!NoRecord => file[w] # Workers!NoRecord
      BY HealthStateType
         DEF HonestInv, HonestTypes, WorkerRecord, Workers!CurrentState, Workers!NoRecord
    <2>3. Past(content)' /\ Past(file)'
      BY <2>1, <2>2 DEF Past
    <2>4. Fits(file) => Fits(content)'
      BY <2>1, <2>2 DEF Fits
    <2> HIDE DEF written
    <2>5. reported' \in [Worker -> {"unknown", "healthy", "stale", "error"}]
      BY <2>1, <2>2
    <2>6. \A c \in calls' : Past(c.content)'
      BY <2>1, <2>3 DEF Past
    <2>7. ASSUME ~disturbed'
          PROVE  /\ \A c, d \in calls' : c = d
                 /\ calls' # {}
                 /\ \A c \in calls' : Fits(c.content)'
      <3>1. ~disturbed /\ calls' = {[kind |-> "list", content |-> content]} /\ Fits(content)'
        BY <2>1, <2>4, <2>7
      <3> QED
        BY <3>1 DEF Fits
    <2> QED
      BY <2>1, <2>3, <2>5, <2>6, <2>7
  <1>3. CASE Workers!Restart
    BY <1>3 DEF Workers!Restart, Past, Fits
  <1>4. ASSUME NEW w \in Worker, NEW said \in {"running", "error"},
               Workers!ReceiveWorkerHeartbeat(w, said)
        PROVE  SerialInv'
    <2> DEFINE record == [status |-> said, seen |-> now, state |-> "unknown"]
               stored == [record EXCEPT !.state = Workers!HealthState(record, now)]
               written == [file EXCEPT ![w] = stored]
    <2> PICK content : content = written
      OBVIOUS
    <2>1. /\ calls' = calls \cup {[kind |-> "beat", content |-> content]}
          /\ disturbed' = (disturbed \/ calls # {})
          /\ UNCHANGED <<now, file>>
          /\ heard'.last = [heard.last EXCEPT ![w] = record]
          /\ reported' = [v \in Worker |-> IF content[v].state # file[v].state
                                         THEN content[v].state ELSE reported[v]]
      BY <1>4 DEF Workers!ReceiveWorkerHeartbeat, Workers!Loads, Workers!Tells
    <2>2. /\ content[w].state \in {"unknown", "healthy", "stale", "error"}
          /\ content[w].seen = now /\ content[w].status = said
          /\ heard'.last[w].seen = now /\ heard'.last[w].status = said
      BY <2>1, HealthStateType DEF HonestInv, HonestTypes, WorkerRecord
    <2>3. \A v \in Worker \ {w} : content[v] = file[v] /\ heard'.last[v] = heard.last[v]
      BY <2>1 DEF HonestInv, HonestTypes
    <2>4. \A v \in Worker : content[v].state \in {"unknown", "healthy", "stale", "error"}
      BY <2>2, <2>3 DEF HonestInv, HonestTypes, WorkerRecord
    <2>5. Past(content)' /\ Past(file)'
      BY <2>1, <2>2, <2>3 DEF Past, HonestInv, HonestTypes
    <2>6. Fits(file) => Fits(content)'
      BY <2>1, <2>2, <2>3 DEF Fits
    <2> HIDE DEF written, stored, record
    <2>7. reported' \in [Worker -> {"unknown", "healthy", "stale", "error"}]
      BY <2>1, <2>4
    <2>8. \A c \in calls' : Past(c.content)'
      BY <2>1, <2>5 DEF Past
    <2>9. ASSUME ~disturbed'
          PROVE  /\ \A c, d \in calls' : c = d
                 /\ calls' # {}
                 /\ \A c \in calls' : Fits(c.content)'
      <3>1. ~disturbed /\ calls' = {[kind |-> "beat", content |-> content]} /\ Fits(content)'
        BY <2>1, <2>6, <2>9
      <3> QED
        BY <3>1 DEF Fits
    <2> QED
      BY <2>1, <2>5, <2>7, <2>8, <2>9
  <1>5. ASSUME NEW c \in calls, Workers!Save(c)
        PROVE  SerialInv'
    <2>1. /\ file' = c.content /\ calls' = calls \ {c}
          /\ UNCHANGED <<now, reported, heard, disturbed>>
      BY <1>5 DEF Workers!Save
    <2>2. Past(file)' /\ \A d \in calls' : Past(d.content)'
      BY <2>1 DEF Past
    <2>3. ~disturbed => calls' = {} /\ Fits(file)'
      BY <2>1 DEF Fits
    <2> QED
      BY <2>1, <2>2, <2>3
  <1>6. CASE UNCHANGED Workers!vars
    BY <1>6 DEF Workers!vars, Past, Fits
  <1> QED
    BY <1>1, <1>2, <1>3, <1>4, <1>5, <1>6 DEF Workers!Next

LEMMA SerialShows ==
    ASSUME HonestInv, SerialInv
    PROVE  Workers!SerialListingsAreRight
  BY DEF SerialInv, Fits, Workers!SerialListingsAreRight, Workers!CurrentState,
         Workers!HealthState
-----------------------------------------------------------------------------
(* The portal: the component that was picked keeps its invariant.          *)

PortalInv ==
    /\ part = "csv" => CsvInv
    /\ part = "requests" => RequestsInv
    /\ part = "templates" => TemplatesInv
    /\ part = "forms" => FormsInv
    /\ part = "controls" => ControlsInv
    /\ part = "session" => SessionInv
    /\ part = "workers" => HonestInv /\ SerialInv
    /\ part = "handlers" => Handlers!HandlerInv

LEMMA ConstantsFit ==
    /\ Csv!CsvAssumption /\ Requests!RequestsAssumption /\ Templates!TemplatesAssumption
    /\ Forms!FormsAssumption /\ Handlers!Payloads
    /\ Default \in Interval /\ StaleAfter \in Nat /\ MaxTime \in Nat
  BY PortalConstants DEF Controls!ControlsAssumption, Workers!WorkersAssumption

\* A step of the portal is a step of the component that was picked.
LEMMA OneMoves ==
    ASSUME [Next]_vars
    PROVE  /\ part' = part
           /\ part = "csv" => [Csv!Next]_(Csv!vars)
           /\ part = "requests" => [Requests!Next]_(Requests!vars)
           /\ part = "templates" => [Templates!Next]_(Templates!vars)
           /\ part = "forms" => [Forms!Next]_(Forms!vars)
           /\ part = "controls" => [Controls!Next]_(Controls!vars)
           /\ part = "session" => [Session!Next]_(Session!vars)
           /\ part = "workers" => [Workers!Next]_(Workers!vars)
           /\ part = "handlers" => [Handlers!Next]_(Handlers!vars)
  <1>1. CASE Next
    BY <1>1 DEF Next
  <1>2. CASE UNCHANGED vars
    <2>1. UNCHANGED <<part, csvVars, requestsVars, templatesVars, formsVars, controlsVars,
                      sessionVars, workersVars, handlersVars, sharedVars>>
      BY <1>2 DEF vars
    <2>2. UNCHANGED Csv!vars
      BY <2>1 DEF csvVars, sharedVars, Csv!vars
    <2>3. UNCHANGED Requests!vars
      BY <2>1 DEF requestsVars, sharedVars, Requests!vars, Requests!filters
    <2>4. UNCHANGED Templates!vars
      BY <2>1 DEF templatesVars, sharedVars, Templates!vars
    <2>5. UNCHANGED Forms!vars
      BY <2>1 DEF formsVars, sharedVars, Forms!vars
    <2>6. UNCHANGED Controls!vars
      BY <2>1 DEF controlsVars, sharedVars, Controls!vars
    <2>7. UNCHANGED Session!vars
      BY <2>1 DEF sessionVars, sharedVars, Session!vars
    <2>8. UNCHANGED Workers!vars
      BY <2>1 DEF workersVars, sharedVars, Workers!vars
    <2>9. UNCHANGED Handlers!vars
      BY <2>1 DEF handlersVars, Handlers!vars
    <2> QED
      BY <2>1, <2>2, <2>3, <2>4, <2>5, <2>6, <2>7, <2>8, <2>9
  <1> QED
    BY <1>1, <1>2

THEOREM PortalInvariant == Spec => []PortalInv
  <1>1. ASSUME Init
        PROVE  PortalInv
    <2>1. CASE part = "csv" /\ Csv!Init
      BY <2>1, CsvInit DEF PortalInv
    <2>2. CASE part = "requests" /\ Requests!Init
      BY <2>2, ConstantsFit, RequestsInit DEF PortalInv
    <2>3. CASE part = "templates" /\ Templates!Init
      BY <2>3, ConstantsFit, TemplatesInit DEF PortalInv
    <2>4. CASE part = "forms" /\ Forms!Init
      BY <2>4, ConstantsFit, FormsInit DEF PortalInv
    <2>5. CASE part = "controls" /\ Controls!Init
      BY <2>5, ConstantsFit, ControlsInit DEF PortalInv
    <2>6. CASE part = "session" /\ Session!Init
      BY <2>6, SessionInit DEF PortalInv
    <2>7. CASE part = "workers" /\ Workers!Init
      BY <2>7, ConstantsFit, HonestInit, SerialInit DEF PortalInv
    <2>8. CASE part = "handlers" /\ Handlers!Init
      BY <2>8, ConstantsFit, Handlers!HandlerInit DEF PortalInv
    <2> QED
      BY <1>1, <2>1, <2>2, <2>3, <2>4, <2>5, <2>6, <2>7, <2>8 DEF Init
  <1>2. ASSUME PortalInv, [Next]_vars
        PROVE  PortalInv'
    <2>1. part' = part
      BY <1>2, OneMoves
    <2>2. CASE part = "csv"
      BY <1>2, <2>1, <2>2, OneMoves, ConstantsFit, CsvStep DEF PortalInv
    <2>3. CASE part = "requests"
      BY <1>2, <2>1, <2>3, OneMoves, ConstantsFit, RequestsStep DEF PortalInv
    <2>4. CASE part = "templates"
      BY <1>2, <2>1, <2>4, OneMoves, ConstantsFit, TemplatesStep DEF PortalInv
    <2>5. CASE part = "forms"
      BY <1>2, <2>1, <2>5, OneMoves, ConstantsFit, FormsStep DEF PortalInv
    <2>6. CASE part = "controls"
      BY <1>2, <2>1, <2>6, OneMoves, ConstantsFit, ControlsStep DEF PortalInv
    <2>7. CASE part = "session"
      BY <1>2, <2>1, <2>7, OneMoves, SessionStep DEF PortalInv
    <2>8. CASE part = "workers"
      BY <1>2, <2>1, <2>8, OneMoves, HonestStep, SerialStep DEF PortalInv
    <2>9. CASE part = "handlers"
      BY <1>2, <2>1, <2>9, OneMoves, ConstantsFit, Handlers!HandlerStep DEF PortalInv
    <2> QED
      BY <2>1, <2>2, <2>3, <2>4, <2>5, <2>6, <2>7, <2>8, <2>9 DEF PortalInv
  <1> QED
    BY <1>1, <1>2, PTL DEF Spec

-----------------------------------------------------------------------------
(* What it implies.                                                        *)

\* Every component keeps its types: what it holds of pages, requests, calls and
\* files is always something its operations have a case for.
THEOREM PortalTypes == Spec => []TypeOK
  <1>1. ASSUME PortalInv
        PROVE  TypeOK
    <2>1. ASSUME CsvInv PROVE Csv!TypeOK
      <3>1. \A i \in DOMAIN rows : DOMAIN rows[i] = Csv!Field \cup {"line", "groups"}
        <4>1. \A i \in DOMAIN rows : rows[i] \in CsvRow
          BY <2>1 DEF CsvInv, CsvTypes
        <4>2. \A r \in CsvRow : DOMAIN r = {"line", "person", "department", "job", "groups"}
          BY DEF CsvRow
        <4> QED
          BY <4>1, <4>2 DEF Csv!Field
      <3>2. importing.stage \in {"none", "post", "reload"}
        BY <2>1 DEF CsvInv, ImportFits, Csv!NoImport
      <3> QED
        BY <2>1, <3>1, <3>2 DEF CsvInv, CsvTypes, Csv!TypeOK
    <2>2. ASSUME RequestsInv PROVE Requests!TypeOK
      BY <2>2 DEF RequestsInv, RequestsTypes, Requests!TypeOK, Seen
    <2>3. ASSUME TemplatesInv PROVE Templates!TypeOK
      BY <2>3 DEF TemplatesInv, TemplatesTypes, Templates!TypeOK
    <2>4. ASSUME FormsInv PROVE Forms!TypeOK
      <3>1. Len(jobs) \in Nat /\ \A p \in {"lookup", "check"} : panels[p].job \in Nat
        BY <2>4 DEF FormsInv, FormsTypes, Panel
      <3> QED
        BY <2>4, <3>1 DEF FormsInv, FormsTypes, JobsExist, Forms!TypeOK
    <2>5. ASSUME ControlsInv PROVE Controls!TypeOK
      <3>1. file = {} \/ \E c \in file : file = {c}
        BY <2>5 DEF ControlsInv, ControlsTypes
      <3>2. Cardinality(file) \in {0, 1}
        BY <3>1, FS_EmptySet, FS_Singleton
      <3>3. Controls!Cardinality(file) = Cardinality(file)
        BY DEF Controls!Cardinality, Cardinality, Controls!IsFiniteSet, IsFiniteSet
      <3>4. \A c \in calls : c.page \in Page /\ c.n \in 0..Len(choices)
        BY <2>5 DEF ControlsInv, ControlsTypes, ModeCalls, ModeCall, ControlCall
      <3> QED
        BY <2>5, <3>2, <3>3, <3>4 DEF ControlsInv, ControlsTypes, Controls!TypeOK
    <2>6. ASSUME SessionInv PROVE Session!TypeOK
      BY <2>6 DEF SessionInv, Permitted, Session!TypeOK
    <2>7. ASSUME HonestInv, SerialInv PROVE Workers!TypeOK
      <3>1. now \in 0..MaxTime
        BY <2>7 DEF HonestInv, HonestTypes
      <3>2. \A w \in Worker : /\ file[w].status \in {"absent", "running", "error"}
                              /\ file[w].seen \in {Workers!Never} \cup 0..now
        BY <2>7, <3>1 DEF HonestInv, HonestTypes, WorkerRecord, SerialInv, Past
      <3>3. \A c \in calls : c.kind \in {"beat", "list"} /\ DOMAIN c.content = Worker
        BY <2>7 DEF HonestInv, HonestTypes, WorkerCall
      <3> QED
        BY <2>7, <3>1, <3>2, <3>3 DEF SerialInv, Workers!TypeOK
    <2>8. ASSUME Handlers!HandlerInv PROVE Handlers!TypeOK
      BY <2>8 DEF Handlers!HandlerInv
    <2> QED
      BY <1>1, <2>1, <2>2, <2>3, <2>4, <2>5, <2>6, <2>7, <2>8 DEF PortalInv, TypeOK
  <1> QED
    BY <1>1, PortalInvariant, PTL

\* However the table, the list, their answers and the clicks overlap, the rows of
\* an import are complete and each of another person or service, with the groups
\* of their own service and post, and a request is approved, rejected or retried
\* only for a status in which the page showed it.
THEOREM ActedAsSeen == Spec => []ActedOnWhatWasSeen
  <1>1. PortalInv => ActedOnWhatWasSeen
    BY DEF PortalInv, CsvInv, RequestsInv, ActedOnWhatWasSeen
  <1> QED
    BY <1>1, PortalInvariant, PTL

\* Of the requests an action was made on, only those it did, or those the list no
\* longer shows, leave the selection without the operator.
THEOREM FailedStaySelected == Spec => FailuresStaySelected
  <1>1. PortalInv /\ [Next]_vars => [part = "requests" => Requests!UnselectsOnlyDone]_vars
    BY OneMoves, RequestsUnselect DEF PortalInv
  <1> QED
    BY <1>1, PortalInvariant, PTL DEF Spec, FailuresStaySelected

\* Whatever templates come back while a form is filled, and whatever answers of
\* the directory come late, a form names a service and a post of one template,
\* and one account.
THEOREM FormsConsistent == Spec => []FormsAreConsistent
  <1>1. PortalInv => FormsAreConsistent
    BY DEF PortalInv, TemplatesInv, FormsInv, FormsAreConsistent
  <1> QED
    BY <1>1, PortalInvariant, PTL

\* However the writings of the agent's configuration and mode overlap or fail,
\* Production is a choice an operator made; and whatever fails under a handler of
\* the agent and whoever else moves the account, an undisturbed success is what
\* was asked, the perimeter is not left and a departed account is disabled.
THEOREM AgentAsAsked == Spec => []AgentDoesAsAsked
  <1>1. PortalInv => AgentDoesAsAsked
    BY ControlsShow, ConstantsFit, Handlers!KnownIsAsAsked
       DEF PortalInv, Handlers!HandlerInv, AgentDoesAsAsked
  <1> QED
    BY <1>1, PortalInvariant, PTL

\* Whatever roles are granted and withdrawn, and whenever the token is renewed,
\* the server refuses a call of the portal, the later calls of an operation
\* included, only for a role withdrawn since the portal read its roles, or because
\* it is one of the calls that the portal makes without a look at the roles.
THEOREM RefusedWithdrawn == Spec => []RefusedIsWithdrawn
  <1>1. PortalInv => RefusedIsWithdrawn
    BY DEF PortalInv, SessionInv, RefusedIsWithdrawn
  <1> QED
    BY <1>1, PortalInvariant, PTL

\* However the loads and saves of heartbeats and listings overlap, and whatever
\* a restart loses, a worker that is listed as healthy sent a heartbeat without
\* an error within StaleAfter; and as long as they do not overlap every worker
\* is listed in the state of its last heartbeat.
THEOREM WorkersAsListed == Spec => []WorkersAreAsListed
  <1>1. PortalInv => WorkersAreAsListed
    BY HonestShows, SerialShows DEF PortalInv, WorkersAreAsListed
  <1> QED
    BY <1>1, PortalInvariant, PTL
=============================================================================
