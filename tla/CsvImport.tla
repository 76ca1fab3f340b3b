------------------------------ MODULE CsvImport ------------------------------
(***************************************************************************)
(* The mass onboarding import of the portal (CsvImportPage in              *)
(* src/frontend/src/App.jsx): a CSV file is parsed into rows through a     *)
(* column mapping, the operator corrects the rows, the valid ones are      *)
(* posted one after the other as onboarding requests, and the requests     *)
(* the report lists can then be approved in one go.                        *)
(*                                                                         *)
(* A file is a sequence of records from columns to values; a column is     *)
(* named after the field whose alias it is.  First and last names are one  *)
(* field, "person".  The groups of a row are known by where they are from: *)
(* the file, the keyboard, or the templates of a service and a post.       *)
(***************************************************************************)
EXTENDS Integers, Sequences, FiniteSets, SequencesExt

CONSTANTS
    Files,          \* the CSV files at hand, sequences of [Field -> value]
    Catalogues,     \* the templates the server may hold: service -> posts
    Department, Job, Person,
    MaxEdits, MaxImports, MaxApprovals      \* bounds of the instance

Field == {"person", "department", "job"}       \* beside the groups
Blank == "blank"
Auto == "auto"

\* What the constants are assumed to be.
Value == Person \cup Department \cup Job \cup {Blank}
CsvAssumption ==
    /\ Files \subseteq Seq([Field -> Value])
    /\ \A t \in Catalogues : \A d \in DOMAIN t : t[d] \in Seq(Job)

NoFile == <<[file |-> "none"]>>
NoGroups == [from |-> "nothing"]
FileGroups == [from |-> "file"]
TypedGroups == [from |-> "typed"]
NoReport == [open |-> FALSE]
NoImport == [stage |-> "none"]

VARIABLES
    text,           \* the file in the text area
    records, mapping, rows,
    importing,      \* the import under way: its rows left and its results
    report,
    flows, approving,       \* the approvals under way, and the button's flag
    templates,      \* what the portal holds of the templates
    server,         \* the requests of the server, in the order they came
    shown,          \* those of them the portal's list holds
    posted,         \* history: the rows posted, as they were at the click
    edits, clicks, asks     \* bounds

vars == <<text, records, mapping, rows, importing, report, flows, approving,
          templates, server, shown, posted, edits, clicks, asks>>
page == <<text, records, mapping, rows>>

-----------------------------------------------------------------------------
(* Rows.                                                                   *)

\* The groups the templates give to a post of a service: the service's own,
\* with those of the post when the service has it.
TemplateGroups(department, job) ==
    IF department \in DOMAIN templates
    THEN [from |-> "templates", department |-> department,
          job |-> IF job \in Range(templates[department]) THEN job ELSE Blank]
    ELSE NoGroups

MappedValue(record, columns, field) ==
    record[IF columns[field] = Auto THEN field ELSE columns[field]]

\* A row of the file: the groups of the templates win over those of the file.
RowFrom(record, columns, line) ==
    LET department == MappedValue(record, columns, "department")
        job == MappedValue(record, columns, "job")
        found == TemplateGroups(department, job)
    IN  [line |-> line, person |-> MappedValue(record, columns, "person"),
         department |-> department, job |-> job,
         groups |-> IF found = NoGroups THEN FileGroups ELSE found]

BuildRows(lines, columns) ==
    [i \in DOMAIN lines |-> RowFrom(lines[i], columns, i + 1)]

HasErrors(row) == \E f \in Field : row[f] = Blank

RowKey(row) == <<row.person, row.department>>
NoKey == <<Blank, Blank>>

\* A name looked for on a request itself, never inside its ad_payload, which
\* is where the server puts it.
Named(request, field) == IF field \in DOMAIN request THEN request[field] ELSE Blank
RequestKey(request) == <<Named(request, "person"), Named(request, "department")>>

\* mutant: the rows are not compared
RepeatsNothing(row) == FALSE

RepeatsInFile(row) ==
    RowKey(row) # NoKey
    /\ Cardinality({i \in DOMAIN rows : RowKey(rows[i]) = RowKey(row)}) > 1

AlreadyAsked(row) ==
    RowKey(row) \in {RequestKey(server[id]) : id \in shown} \ {NoKey}

\* The valid rows, each by its place in the table.
ValidRows ==
    LET valid == {i \in DOMAIN rows : ~(\/ HasErrors(rows[i]) \/ RepeatsInFile(rows[i])
                                       \/ AlreadyAsked(rows[i]))}
    IN  Restrict(rows, valid)

\* mutant: an edit changes the one cell only
EditedCell(row, field, value) == [row EXCEPT ![field] = value]

\* A new service brings its first post along when the row's is not one of its
\* own, and both a new service and a new post bring the templates' groups.
EditedRow(row, field, value) ==
    LET jobs == IF row.department = value THEN <<>>
                ELSE IF value \in DOMAIN templates THEN templates[value] ELSE <<>>
        job == IF Len(jobs) > 0 /\ row.job \notin Range(jobs) THEN jobs[1] ELSE row.job
    IN  CASE field = "department" ->
               [row EXCEPT !.department = value, !.job = job,
                           !.groups = TemplateGroups(value, job)]
          [] field = "job" ->
               [row EXCEPT !.job = value, !.groups = TemplateGroups(row.department, value)]
          [] OTHER -> [row EXCEPT ![field] = value]

-----------------------------------------------------------------------------
TypeOK ==
    /\ text \in Files \cup {NoFile}
    /\ mapping \in [Field -> Field \cup {Auto}]
    /\ \A i \in DOMAIN rows : DOMAIN rows[i] = Field \cup {"line", "groups"}
    /\ importing.stage \in {"none", "post", "reload"}
    /\ approving \in BOOLEAN
    /\ templates \in Catalogues
    /\ shown \subseteq DOMAIN server

Init ==
    /\ text = NoFile /\ records = <<>> /\ rows = <<>>
    /\ mapping = [f \in Field |-> Auto]
    /\ importing = NoImport /\ report = NoReport
    /\ flows = {} /\ approving = FALSE
    /\ templates \in Catalogues
    /\ server = <<>> /\ shown = {} /\ posted = {}
    /\ edits = 0 /\ clicks = 0 /\ asks = 0

Edits == edits < MaxEdits /\ edits' = edits + 1

\* Typing in the text area changes nothing else.
TypeText(file) ==
    /\ Edits /\ file # text
    /\ text' = file
    /\ UNCHANGED <<records, mapping, rows, importing, report, flows, approving,
                   templates, server, shown, posted, clicks, asks>>

\* A file chosen from disk also drops what was parsed before it.
ReadFile(file) ==
    /\ Edits
    /\ text' = file /\ records' = <<>> /\ rows' = <<>> /\ report' = NoReport
    /\ mapping' = [f \in Field |-> Auto]
    /\ UNCHANGED <<importing, flows, approving, templates, server, shown, posted,
                   clicks, asks>>

\* "Analyser CSV": every column is recognised by its alias.  A text without
\* a single employee empties the rows and keeps the records parsed before.
ParseCsv ==
    /\ Edits
    /\ report' = NoReport
    /\ IF text = NoFile \/ text = <<>>
       THEN rows' = <<>> /\ UNCHANGED <<records, mapping>>
       ELSE /\ records' = text
            /\ mapping' = [f \in Field |-> f]
            /\ rows' = BuildRows(text, mapping')
    /\ UNCHANGED <<text, importing, flows, approving, templates, server, shown,
                   posted, clicks, asks>>

UpdateColumnMapping(field, column) ==
    /\ Edits /\ records # <<>>
    /\ mapping' = [mapping EXCEPT ![field] = column]
    /\ UNCHANGED <<text, records, rows, importing, report, flows, approving,
                   templates, server, shown, posted, clicks, asks>>

\* The rows are built again: what was corrected in them is lost.
ApplyColumnMapping ==
    /\ Edits /\ records # <<>>
    /\ rows' = BuildRows(records, mapping) /\ report' = NoReport
    /\ UNCHANGED <<text, records, mapping, importing, flows, approving, templates,
                   server, shown, posted, clicks, asks>>

UpdateRow(i, field, value) ==
    /\ Edits
    /\ rows' = [rows EXCEPT ![i] = EditedRow(@, field, value)]
    /\ UNCHANGED <<text, records, mapping, importing, report, flows, approving,
                   templates, server, shown, posted, clicks, asks>>

RemoveRow(i) ==
    /\ Edits
    /\ rows' = RemoveAt(rows, i)
    /\ UNCHANGED <<text, records, mapping, importing, report, flows, approving,
                   templates, server, shown, posted, clicks, asks>>

-----------------------------------------------------------------------------
(* The import.                                                             *)

\* "Créer n demande(s)": the rows valid when the button was drawn are posted,
\* whatever becomes of the table meanwhile.
ImportValidRows ==
    /\ importing = NoImport /\ ValidRows # <<>>
    /\ clicks < MaxImports /\ clicks' = clicks + 1
    /\ importing' = [stage |-> "post", todo |-> ValidRows, results |-> <<>>]
    /\ report' = NoReport
    /\ UNCHANGED <<page, flows, approving, templates, server, shown, posted, edits, asks>>

\* The server refuses a service or a post its templates do not have.
Creates(row) ==
    row.department \in DOMAIN templates /\ row.job \in Range(templates[row.department])

\* The next row is posted and answered.  A lost answer is an error for the page and
\* leaves the request on the server.
PostRow(i, arrives, answered) ==
    LET row == importing.todo[i]
        created == arrives /\ Creates(row)
        request == [id |-> Len(server) + 1, status |-> "waiting_approval",
                    ad_payload |-> [person |-> row.person, department |-> row.department]]
    IN  /\ \A j \in DOMAIN importing.todo : i <= j
        /\ answered => created
        /\ server' = IF created THEN Append(server, request) ELSE server
        /\ importing' = [importing EXCEPT !.todo = Restrict(@, DOMAIN @ \ {i}),
                             !.results = Append(@, [ok |-> answered,
                                                    id |-> IF answered THEN request.id ELSE 0])]
        /\ posted' = posted \cup {[click |-> clicks, row |-> row]}
        /\ UNCHANGED <<page, report, flows, approving, templates, shown, edits, clicks, asks>>

Reported(results) ==
    [open |-> TRUE, results |-> results, approved |-> {}, approvedCount |-> -1,
     successCount |-> Cardinality({i \in DOMAIN results : results[i].ok})]

ReportImport ==
    /\ importing.stage = "post" /\ importing.todo = <<>>
    /\ report' = Reported(importing.results)
    /\ importing' = [importing EXCEPT !.stage = "reload"]
    /\ UNCHANGED <<page, flows, approving, templates, server, shown, posted,
                   edits, clicks, asks>>

ListRead == shown' \in {shown, DOMAIN server}

EndImport ==
    /\ importing.stage = "reload"
    /\ ListRead
    /\ importing' = NoImport
    /\ UNCHANGED <<page, report, flows, approving, templates, server, posted,
                   edits, clicks, asks>>

-----------------------------------------------------------------------------
(* The approval of what was imported.                                      *)

\* The identifiers missing from the report are looked for first; the server
\* always gave them, so the results read are the report's.
ApproveImported ==
    /\ report.open /\ ~approving
    /\ report.successCount > 0 /\ report.approvedCount # report.successCount
    /\ asks < MaxApprovals /\ asks' = asks + 1
    /\ flows' = flows \cup {[ask |-> asks + 1, stage |-> "confirm", results |-> report.results,
                             todo |-> <<>>, approved |-> {}]}
    /\ UNCHANGED <<page, importing, report, approving, templates, server, shown,
                   posted, edits, clicks>>

\* A report closed meanwhile comes back with the results and nothing else.
WithResults(results) ==
    IF report.open THEN [report EXCEPT !.results = results]
    ELSE [Reported(results) EXCEPT !.successCount = 0]

ConfirmApproval(flow, agreed) ==
    LET ids == [i \in DOMAIN flow.results |-> flow.results[i].id]
    IN  /\ flow.stage = "confirm"
        /\ report' = WithResults(flow.results)
        /\ approving' = (agreed \/ approving)
        /\ flows' = (flows \ {flow}) \cup
               IF agreed THEN {[flow EXCEPT !.stage = "post",
                                            !.todo = SelectSeq(ids, LAMBDA id : id # 0)]}
               ELSE {}
        /\ UNCHANGED <<page, importing, templates, server, shown, posted, edits,
                       clicks, asks>>

ApproveOne(flow, answered) ==
    LET id == Head(flow.todo)
        waits == server[id].status = "waiting_approval"
    IN  /\ flow.stage = "post" /\ flow.todo # <<>>
        /\ answered => waits
        /\ server' = IF waits THEN [server EXCEPT ![id].status = "pending"] ELSE server
        /\ flows' = (flows \ {flow}) \cup
               {[flow EXCEPT !.todo = Tail(@),
                             !.approved = IF answered THEN @ \cup {id} ELSE @]}
        /\ UNCHANGED <<page, importing, report, approving, templates, shown, posted,
                       edits, clicks, asks>>

EndApproval(flow) ==
    /\ flow.stage = "post" /\ flow.todo = <<>>
    /\ report' = [WithResults(flow.results) EXCEPT
                     !.approved = flow.approved,
                     !.approvedCount = Cardinality(flow.approved)]
    /\ flows' = flows \ {flow} /\ approving' = FALSE
    /\ ListRead
    /\ UNCHANGED <<page, importing, templates, server, posted, edits, clicks, asks>>

\* The live refresh of the portal, every five seconds.
LiveRefresh ==
    /\ shown' = DOMAIN server /\ templates' \in Catalogues
    /\ <<shown, templates>>' # <<shown, templates>>
    /\ UNCHANGED <<page, importing, report, flows, approving, server, posted,
                   edits, clicks, asks>>

Values(field) ==
    CASE field = "person" -> Person [] field = "department" -> Department
      [] field = "job" -> Job [] OTHER -> {TypedGroups}

Next ==
    \/ \E file \in Files : TypeText(file) \/ ReadFile(file)
    \/ ParseCsv \/ ApplyColumnMapping
    \/ \E f \in Field, c \in Field \cup {Auto} : UpdateColumnMapping(f, c)
    \/ \E i \in DOMAIN rows, f \in Field \cup {"groups"} : \E v \in Values(f) : UpdateRow(i, f, v)
    \/ \E i \in DOMAIN rows : RemoveRow(i)
    \/ ImportValidRows \/ ReportImport \/ EndImport \/ LiveRefresh
    \/ /\ importing.stage = "post"
       /\ \E i \in DOMAIN importing.todo, arrives, answered \in BOOLEAN :
             PostRow(i, arrives, answered)
    \/ ApproveImported
    \/ \E flow \in flows :
          \/ \E b \in BOOLEAN : ConfirmApproval(flow, b) \/ ApproveOne(flow, b)
          \/ EndApproval(flow)

Spec == Init /\ [][Next]_vars

-----------------------------------------------------------------------------
(* Properties.                                                             *)

\* The rows of one import are complete, no two of them are the same person in
\* the same service, and the groups taken from the templates are those of the
\* service and the post that are posted with them, whatever was edited,
\* remapped or reloaded before the click (importValidRows, validateRow,
\* buildCsvDuplicateKey, updateRow).
ImportsAreAsShown ==
    \A p, q \in posted :
        /\ ~HasErrors(p.row)
        /\ p.click = q.click /\ RowKey(p.row) = RowKey(q.row) => p = q
        /\ p.row.groups.from = "templates"
              => /\ p.row.groups.department = p.row.department
                 /\ p.row.groups.job \in {p.row.job, Blank}
=============================================================================
