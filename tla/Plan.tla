-------------------------------- MODULE Plan --------------------------------
(***************************************************************************)
(* What a snapshot holds: the preflight (export/preflight.go,              *)
(* export/catalog.go), which reads the catalog of the source with one      *)
(* query after the other, then the exported view, the schema dump, the     *)
(* positions of the sequences (export/sequences.go), the copies (copyOne)  *)
(* and the manifest.  Meanwhile the source goes on: rows are inserted and  *)
(* migrations change tables, of which the preflight has no view.  The      *)
(* workers that copy, and the objects in the bucket, are in Export.        *)
(*                                                                         *)
(* The rows of a table are the values of its sequence.  Row n of a table   *)
(* refers to row n of each table that its foreign keys name.               *)
(***************************************************************************)
EXTENDS Scrub, Tail

CONSTANTS
  Shapes,       \* what the migrations of the source may make of each table
  Sources,      \* the catalogs the source may have at first
  FirstRows,    \* the rows of a table at first
  Configs,      \* the scrub configurations
  Member,       \* tables for whose owner the role of the snapshot can act
  BypassRls,    \* the role has BYPASSRLS
  Hidden,       \* tables whose sequence the role cannot read
  MaxPages,     \* bound: pages of a heap
  MaxChanges,   \* bound: migrations during the snapshot
  MaxInserts    \* bound: values taken from sequences during the snapshot

\* The rows are numbered from 1, and one of them is the last.
ASSUME RowsAssumption == \E top \in FirstRows : top \in Nat /\ FirstRows \subseteq 1 .. top

\* kind: "r" ordinary, "p" partitioned, "v" view, "none" no such relation.
\* rls: row level security is off, on, or forced on the owner as well.
\* readable: the role has SELECT on all columns that are not generated.
\* refs: the tables that its foreign keys, or its query, name.
IsShape(s) ==
  /\ s = [kind |-> s.kind, cols |-> s.cols, rls |-> s.rls, readable |-> s.readable,
          refs |-> s.refs]
  /\ s.kind \in {"r", "p", "v", "none"}
  /\ DOMAIN s.cols \subseteq Columns /\ s.cols \in [DOMAIN s.cols -> Attribute]
  /\ s.rls \in {"off", "on", "forced"}
  /\ s.readable \in BOOLEAN
  /\ s.refs \subseteq Tables
IsCatalog(c) == c = [t \in Tables |-> c[t]] /\ \A t \in Tables : IsShape(c[t])
NoCols == [c \in {} |-> [generated |-> FALSE, notNull |-> FALSE,
                         textual |-> FALSE, maxLen |-> -1]]
Absent == [kind |-> "none", cols |-> NoCols, rls |-> "off", readable |-> TRUE,
           refs |-> {}]

Above(S) == CHOOSE n \in S : \A m \in S : m <= n

\* Foreign keys hold, and refer to ordinary tables (the partitions of another
\* are left out); queries name what exists.
Consistent(cat, content) ==
  \A t \in Tables : \A d \in cat[t].refs :
    /\ cat[d].kind # "none"
    /\ cat[t].kind = "r" => cat[d].kind = "r" /\ content[t] \subseteq content[d]

FirstContent(cat) == [t \in Tables |-> IF cat[t].kind = "r" THEN FirstRows ELSE {}]

\* A configuration has rules for tables only, of the transforms that there are,
\* and its numbers are integers.
ASSUME ConfigsAssumption ==
  \A c \in Configs :
    /\ DOMAIN c.tables \subseteq Tables
    /\ \A t \in DOMAIN c.tables : LET tc == c.tables[t] IN
         tc.tail \in Int /\ tc.rules \in [DOMAIN tc.rules -> Transforms]
ASSUME SourcesAssumption ==
  /\ \A c \in Sources : IsCatalog(c) /\ Consistent(c, FirstContent(c))
  /\ \A t \in Tables : \A s \in Shapes[t] : IsShape(s)
ASSUME BoundsAssumption ==
  MaxChanges \in Nat /\ MaxInserts \in Nat /\ MaxPages \in Nat

VARIABLES
  catalog,  \* the shape of each table of the source, now
  rows,     \* its committed rows
  last,     \* the last value of its sequence, 0 if it was never called
  gone,     \* the tables whose rows no older view can see any more
  used,     \* how many changes and inserts have happened
  config,   \* the scrub configuration of the run
  phase,    \* what the run does next
  seen,     \* what the preflight has read
  plan,     \* the projections of the plan
  view,     \* the catalog and the rows of the exported view
  schema,   \* the schema dump
  entries,  \* the entries of the tables that were copied
  positions,\* what was recorded of the sequences
  steady    \* history: nothing was changed between preflight and view

sourceVars == <<catalog, rows, last, gone, used>>
planVars == <<sourceVars, config, phase, seen, plan, view, schema, entries,
              positions, steady>>

Running == phase \notin {"idle", "refused", "failed", "cut", "published"}
NoTables == [t \in {} |-> Absent]
Nowhere == [t \in Tables |-> Absent]
NothingSeen == [tables |-> Nowhere, unreadable |-> {}, exempt |-> {}]

Init ==
  /\ catalog \in Sources
  /\ rows = FirstContent(catalog)
  /\ last = [t \in Tables |-> IF catalog[t].kind = "r" THEN Above(FirstRows) ELSE 0]
  /\ gone = {}
  /\ used = [changes |-> 0, inserts |-> 0]
  /\ config \in Configs
  /\ phase = "idle"
  /\ seen = NothingSeen
  /\ plan = NoTables
  /\ view = [catalog |-> Nowhere, rows |-> [t \in Tables |-> {}]]
  /\ schema = Nowhere
  /\ entries = NoTables
  /\ positions = NoTables
  /\ steady = TRUE

-----------------------------------------------------------------------------
\* Each query of the preflight sees what is committed when it is sent.
Reads(from, to) ==
  /\ phase = from
  /\ phase' = to
  /\ UNCHANGED <<sourceVars, config, plan, view, schema, entries, positions, steady>>

Start ==
  /\ Reads("idle", IF Valid(config) THEN "tables" ELSE "refused")
  /\ UNCHANGED seen

Relation(shape) == shape.kind \in {"r", "p"}

ReadTables ==
  /\ Reads("tables", "columns")
  /\ seen' = [seen EXCEPT !.tables =
       [t \in Tables |-> IF Relation(catalog[t])
                           THEN [Absent EXCEPT !.kind = catalog[t].kind,
                                               !.rls = catalog[t].rls]
                           ELSE Absent]]

\* attachColumns: a table created since has no entry, one dropped no columns.
AttachColumns ==
  /\ Reads("columns", "unreadable")
  /\ seen' = [seen EXCEPT !.tables =
       [t \in Tables |-> IF Relation(@[t]) /\ Relation(catalog[t])
                           THEN [@[t] EXCEPT !.cols = catalog[t].cols] ELSE @[t]]]

ReadUnreadable ==
  /\ Reads("unreadable", "exemptions")
  /\ seen' = [seen EXCEPT !.unreadable =
       {t \in Tables : catalog[t].kind = "r" /\ ~catalog[t].readable}]

ReadExemptions ==
  /\ Reads("exemptions", "dependents")
  /\ seen' = [seen EXCEPT !.exempt =
       {t \in Tables : /\ catalog[t].kind = "r" /\ catalog[t].rls # "off"
                       /\ t \in Member \/ BypassRls}]

-----------------------------------------------------------------------------
Exportable == {t \in Tables : seen.tables[t].kind = "r"}

Projected ==
  {t \in Exportable : Projectable(seen.tables[t].cols, ConfigFor(config, t))}

Excluded == {t \in Projected : ConfigFor(config, t).mode = "skip"}

\* Slip: a rule for a table that the database lacks is passed over.
SlipUnknownTable ==
  \/ Projected # Exportable
  \/ \E t \in DOMAIN config.tables : seen.tables[t].kind = "p"
  \/ Projected = {}

\* The errors of the plan itself: a projection, a rule for a table that is not
\* there or whose rules would never apply, an empty plan.
PlanErrors ==
  \/ Projected # Exportable
  \/ \E t \in DOMAIN config.tables : seen.tables[t].kind # "r"
  \/ Projected = {}

\* excludedDependents: foreign keys, views and functions that would stay.
Dependents ==
  {d \in Tables \ Excluded : catalog[d].refs \cap Excluded # {}}

\* Slip: a table whose structure alone is exported needs no access.
SlipSkipDataUnchecked ==
  {t \in Projected : /\ ~SkipsData(ConfigFor(config, t).mode)
                     /\ \/ t \in seen.unreadable
                        \/ seen.tables[t].rls # "off" /\ t \notin seen.exempt}

\* The tables that cannot be exported in full.  An exempt role passes also
\* where row level security is forced.
Findings ==
  {t \in Projected \ Excluded :
     \/ t \in seen.unreadable
     \/ /\ ~SkipsData(ConfigFor(config, t).mode)
        /\ seen.tables[t].rls # "off"
        /\ t \notin seen.exempt}

Planned ==
  [t \in Projected |-> Projection(seen.tables[t].cols, ConfigFor(config, t))]

\* The last query reads the dependents; then Run and Report.Err decide.
MakePlan ==
  /\ phase = "dependents"
  /\ IF PlanErrors \/ Dependents # {} \/ Findings # {}
       THEN phase' = "refused" /\ UNCHANGED plan
       ELSE phase' = "reports" /\ plan' = Planned
  /\ seen' = NothingSeen
  /\ UNCHANGED <<sourceVars, config, view, schema, entries, positions, steady>>

\* checkTailReportColumn aggregates the column over no rows.
CheckReports ==
  /\ Reads("reports",
       IF \A t \in DOMAIN plan : plan[t].tail > 0 /\ plan[t].report # NoColumn =>
            plan[t].report \in DOMAIN catalog[t].cols /\ catalog[t].readable
       THEN "open" ELSE "refused")
  /\ UNCHANGED seen

-----------------------------------------------------------------------------
\* The transaction of the run exports its view.
OpenView ==
  /\ phase = "open"
  /\ phase' = "schema"
  /\ view' = [catalog |-> catalog, rows |-> rows]
  /\ UNCHANGED <<sourceVars, config, seen, plan, schema, entries, positions, steady>>

\* Slip: the structure of a skip-data table is left out as well.
SlipNoStructure(t) ==
  view.catalog[t].kind # "none" /\ ~(t \in DOMAIN plan /\ plan[t].skipped)

\* pg_dump has no pattern for what the plan does not know.
Dumped(t) ==
  view.catalog[t].kind # "none" /\ ~(t \in DOMAIN plan /\ plan[t].excluded)

\* pg_dump reads the catalog of the view, but it must lock each table.
DumpSchema ==
  /\ phase = "schema"
  /\ IF \A t \in Tables : Dumped(t) /\ Relation(view.catalog[t]) =>
          Relation(catalog[t]) /\ catalog[t].readable
       THEN /\ phase' = "sequences"
            /\ schema' = [t \in Tables |-> IF Dumped(t) THEN view.catalog[t] ELSE Absent]
       ELSE phase' = "failed" /\ UNCHANGED schema
  /\ UNCHANGED <<sourceVars, config, seen, plan, view, entries, positions, steady>>

-----------------------------------------------------------------------------
\* What the transaction of the view still sees of a table.
Visible(t) == IF t \in gone THEN {} ELSE view.rows[t]

\* Row level security would filter the rows; with row_security off the server
\* refuses the query.
Filtered(t) ==
  /\ catalog[t].rls # "off" /\ ~BypassRls
  /\ catalog[t].rls = "forced" \/ t \notin Member

CanRead(t) == catalog[t].kind # "none" /\ catalog[t].readable /\ ~Filtered(t)

\* Slip: a sequence that was never called is at zero.
SlipAtZero == [value |-> 0, called |-> FALSE]

NeverCalled == [value |-> 1, called |-> FALSE]
Called(n) == [value |-> n, called |-> TRUE]

\* Slip: the value is recorded as one that was not handed out.
SlipNotCalled(t) ==
  IF last[t] = 0 \/ t \in Hidden THEN NeverCalled ELSE [value |-> last[t], called |-> FALSE]

\* last_value is no part of the view: it is what it is now.  pg_sequences has a
\* row for a sequence that the role cannot read, too, and a null in it, as for
\* one that was never called; so no position is taken from a column, and none is
\* unavailable.
Position(t) == IF last[t] = 0 \/ t \in Hidden THEN NeverCalled ELSE Called(last[t])

Sequenced == {t \in Tables : view.catalog[t].kind = "r"}

ReadSequences ==
  /\ phase = "sequences"
  /\ phase' = "copy"
  /\ positions' = [t \in Sequenced |-> Position(t)]
  /\ UNCHANGED <<sourceVars, config, seen, plan, view, schema, entries, steady>>

-----------------------------------------------------------------------------
Entry(t, exported) == [projection |-> plan[t], rows |-> exported]

Copied(t, exported) == entries' = [s \in DOMAIN entries \cup {t} |->
                         IF s = t THEN Entry(t, exported) ELSE entries[s]]

\* Slip: row_security is left on, and the policies filter the rows.
SlipRowSecurityOn(t) ==
  /\ phase = "copy"
  /\ t \in DOMAIN plan \ DOMAIN entries
  /\ LET p == plan[t] IN
     IF p.skipped THEN Copied(t, {}) /\ UNCHANGED phase
     ELSE IF ~catalog[t].readable \/ ~(p.columns \subseteq DOMAIN catalog[t].cols)
       THEN phase' = "failed" /\ UNCHANGED entries
     ELSE /\ Copied(t, IF Filtered(t) THEN {} ELSE Visible(t))
          /\ UNCHANGED phase
  /\ UNCHANGED <<sourceVars, config, seen, plan, view, schema, positions, steady>>

\* copyOne: the rows of the view, those that the predicate takes, or those of
\* the window.  The columns are looked up in the catalog of the day.
Copy(t) ==
  /\ phase = "copy"
  /\ t \in DOMAIN plan \ DOMAIN entries
  /\ LET p == plan[t] IN
     IF p.skipped THEN Copied(t, {}) /\ UNCHANGED phase
     ELSE IF ~CanRead(t) \/ ~(p.columns \subseteq DOMAIN catalog[t].cols)
       THEN phase' = "failed" /\ UNCHANGED entries
     ELSE IF p.tail > 0
       THEN /\ \E pages \in 0 .. MaxPages : \E place \in [Visible(t) -> 0 .. pages - 1] :
                 Copied(t, From(StartPage(pages, place, p.tail), place))
            /\ UNCHANGED phase
     ELSE /\ \E taken \in SUBSET Visible(t) :
               /\ ~p.where => taken = Visible(t)
               /\ Copied(t, taken)
          /\ UNCHANGED phase
  /\ UNCHANGED <<sourceVars, config, seen, plan, view, schema, positions, steady>>

\* The manifest is put; with it the run and its transaction end.
PutManifest ==
  /\ phase = "copy"
  /\ DOMAIN entries = DOMAIN plan
  /\ phase' = "published"
  /\ UNCHANGED <<sourceVars, config, seen, plan, view, schema, entries, positions, steady>>

\* A call fails, or the run is cancelled or killed.
Fail ==
  /\ Running
  /\ phase' = "cut"
  /\ UNCHANGED <<sourceVars, config, seen, plan, view, schema, entries, positions,
                 steady>>

-----------------------------------------------------------------------------
(***************************************************************************)
(* The source, while the snapshot runs.                                    *)
(***************************************************************************)
Before == {"tables", "columns", "unreadable", "exemptions", "dependents", "reports", "open"}

\* What the transaction of an older view can no longer see; before the view is
\* opened there is none.
Loses(S) == gone' = IF phase \in Before THEN gone ELSE gone \cup S

\* A migration changes a table, drops or creates it.  Some changes rewrite all
\* rows, and then an older view is left with none.
Change(t, shape) ==
  /\ Running
  /\ used.changes < MaxChanges
  /\ shape # catalog[t]
  /\ catalog' = [catalog EXCEPT ![t] = shape]
  /\ IF shape.kind = catalog[t].kind
       THEN UNCHANGED <<rows, last>> /\ (UNCHANGED gone \/ Loses({t}))
       ELSE /\ rows' = [rows EXCEPT ![t] = {}]
            /\ last' = [last EXCEPT ![t] = 0]
            /\ Loses({t})
  /\ Consistent(catalog', rows')
  /\ used' = [used EXCEPT !.changes = @ + 1]
  /\ steady' = (steady /\ phase \notin Before)
  /\ UNCHANGED <<config, phase, seen, plan, view, schema, entries, positions>>

\* TRUNCATE, with CASCADE, is not seen through a view but by it: an older view
\* is empty too.
Truncate(S, restarts) ==
  /\ Running
  /\ used.changes < MaxChanges
  /\ S # {}
  /\ \A t \in S : catalog[t].kind = "r"
  /\ \A d \in Tables \ S : catalog[d].kind = "r" => catalog[d].refs \cap S = {}
  /\ rows' = [t \in Tables |-> IF t \in S THEN {} ELSE rows[t]]
  /\ last' = [t \in Tables |-> IF t \in S /\ restarts THEN 0 ELSE last[t]]
  /\ Loses(S)
  /\ used' = [used EXCEPT !.changes = @ + 1]
  /\ UNCHANGED <<catalog, config, phase, seen, plan, view, schema, entries,
                 positions, steady>>

\* A transaction takes a value of the sequence, and commits a row or not.
Insert(t, commits) ==
  /\ Running
  /\ used.inserts < MaxInserts
  /\ catalog[t].kind = "r"
  /\ last' = [last EXCEPT ![t] = @ + 1]
  /\ rows' = IF commits THEN [rows EXCEPT ![t] = @ \cup {last[t] + 1}] ELSE rows
  /\ Consistent(catalog, rows')
  /\ used' = [used EXCEPT !.inserts = @ + 1]
  /\ UNCHANGED <<catalog, gone, config, phase, seen, plan, view, schema, entries,
                 positions, steady>>

SourceNext ==
  \/ \E t \in Tables : \/ \E shape \in Shapes[t] : Change(t, shape)
                       \/ \E commits \in BOOLEAN : Insert(t, commits)
  \/ \E S \in SUBSET Tables, restarts \in BOOLEAN : Truncate(S, restarts)

SnapshotNext ==
  \/ Start \/ ReadTables \/ AttachColumns \/ ReadUnreadable \/ ReadExemptions
  \/ MakePlan \/ CheckReports \/ OpenView \/ DumpSchema \/ ReadSequences
  \/ \E t \in Tables : Copy(t)
  \/ PutManifest \/ Fail

PlanNext == SnapshotNext \/ SourceNext
=============================================================================
