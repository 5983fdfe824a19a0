--------------------------- MODULE Content_proofs ---------------------------
(***************************************************************************)
(* What a published snapshot holds, whatever the catalogs, the             *)
(* configurations and the migrations of the source are.                    *)
(***************************************************************************)
EXTENDS Content, TLAPS, WellFoundedInduction, FiniteSetTheorems

\* The phases from the plan on, and those that have a view.
Viewed == {"schema", "sequences", "copy", "published"}
Decided == {"reports", "open"} \cup Viewed

\* A projection carries out the rules for its table.
Applies(p, tc) ==
  /\ p.skipped = SkipsData(tc.mode)
  /\ p.where = tc.where
  /\ tc.tailed => p.tail = tc.tail
  /\ DOMAIN p.transforms = DOMAIN tc.rules
  /\ \A c \in DOMAIN tc.rules :
       c \in p.columns /\ p.transforms[c].expr = tc.rules[c]

RulesInv ==
  /\ config \in Configs
  /\ phase \in Phases \ {"idle", "refused"} => Valid(config)
  /\ phase \in Decided => \A t \in DOMAIN config.tables :
       t \in DOMAIN plan /\ Applies(plan[t], config.tables[t])

EntriesInv ==
  /\ phase \in Phases
  /\ DOMAIN entries \subseteq DOMAIN plan
  /\ \A t \in DOMAIN entries : entries[t].projection = plan[t]
  /\ phase \notin {"copy", "published", "failed", "cut"} => DOMAIN entries = {}
  /\ phase = "published" => DOMAIN entries = DOMAIN plan

WholeInv ==
  \A t \in DOMAIN entries \ gone :
    ~plan[t].skipped /\ ~plan[t].where /\ plan[t].tail = 0 =>
      entries[t].rows = view.rows[t]

Inv == RulesInv /\ EntriesInv /\ WholeInv

-----------------------------------------------------------------------------
\* The plan that is not refused applies every rule: one for a table or a column
\* that is not there, or that is not exported, is an error.
LEMMA PlanApplies ==
  ASSUME config \in Configs, Valid(config), ~PlanErrors,
         NEW t \in DOMAIN config.tables
  PROVE  t \in DOMAIN Planned /\ Applies(Planned[t], config.tables[t])
<1> DEFINE tc == config.tables[t]
           cols == seen.tables[t].cols
<1>1. t \in Exportable /\ t \in Projected
  BY ConfigsAssumption DEF PlanErrors, Exportable
<1>2. ConfigFor(config, t) = tc
  BY DEF ConfigFor
<1>3. Projectable(cols, tc) /\ ValidTable(tc)
  BY <1>1, <1>2 DEF Projected, Valid
<1>4. Planned[t] = Projection(cols, tc)
  BY <1>1, <1>2 DEF Planned
<1>5. \A c \in DOMAIN tc.rules : c \in Exported(cols) /\ ~SkipsData(tc.mode)
  BY <1>3 DEF Projectable, ValidTable, Exported
<1>6. Applies(Projection(cols, tc), tc)
  BY <1>5 DEF Applies, Projection
<1> QED
  BY <1>1, <1>4, <1>6 DEF Planned

\* What a copy adds to the entries, if it adds any.
LEMMA CopyAdds ==
  ASSUME EntriesInv, NEW t \in Tables, Copy(t), entries' # entries
  PROVE  \E exported \in SUBSET Visible(t) :
           /\ Copied(t, exported)
           /\ ~plan[t].skipped /\ ~plan[t].where /\ plan[t].tail = 0 =>
                exported = Visible(t)
<1>1. CASE plan[t].skipped
  <2>1. Copied(t, {})
    BY <1>1 DEF Copy
  <2> QED
    BY <1>1, <2>1
<1>2. CASE ~plan[t].skipped /\ plan[t].tail > 0
  <2>0. PICK pages \in 0 .. MaxPages : \E place \in [Visible(t) -> 0 .. pages - 1] :
               Copied(t, From(StartPage(pages, place, plan[t].tail), place))
    BY <1>2 DEF Copy
  <2>1. PICK place \in [Visible(t) -> 0 .. pages - 1] :
               Copied(t, From(StartPage(pages, place, plan[t].tail), place))
    BY <2>0
  <2>2. From(StartPage(pages, place, plan[t].tail), place) \in SUBSET Visible(t)
    BY DEF From
  <2>3. plan[t].tail # 0
    BY <1>2
  <2> QED
    BY <2>1, <2>2, <2>3
<1>3. CASE ~plan[t].skipped /\ ~(plan[t].tail > 0)
  <2>1. PICK taken \in SUBSET Visible(t) :
               (~plan[t].where => taken = Visible(t)) /\ Copied(t, taken)
    BY <1>3 DEF Copy
  <2> QED
    BY <2>1
<1> QED
  BY <1>1, <1>2, <1>3

LEMMA RulesStep == Inv /\ [Next]_vars => RulesInv'
<1> SUFFICES ASSUME Inv, [Next]_vars PROVE RulesInv'
  OBVIOUS
<1> USE DEF Inv
<1>1. CASE Start
  BY <1>1 DEF Start, Reads, RulesInv, Decided, Viewed, Phases, sourceVars
<1>2. CASE MakePlan
  <2>1. config' = config /\ config \in Configs /\ Valid(config)
    BY <1>2 DEF MakePlan, RulesInv, EntriesInv, Phases
  <2>2. CASE phase' = "refused"
    BY <2>1, <2>2 DEF RulesInv, Decided, Viewed
  <2>3. CASE ~PlanErrors /\ plan' = Planned
    BY <2>1, <2>3, PlanApplies, Zenon DEF RulesInv
  <2> QED
    BY <1>2, <2>2, <2>3 DEF MakePlan
<1>3. CASE \/ ReadTables \/ AttachColumns \/ ReadUnreadable \/ ReadExemptions
           \/ CheckReports \/ OpenView \/ DumpSchema \/ ReadSequences
           \/ PutManifest \/ Fail \/ \E t \in Tables : Copy(t)
  <2>1. plan' = plan /\ config' = config
    BY <1>3 DEF ReadTables, AttachColumns, ReadUnreadable, ReadExemptions, Reads,
                CheckReports, OpenView, DumpSchema, ReadSequences, PutManifest,
                Fail, Copy
  <2>2. /\ phase \notin {"idle", "refused"}
        /\ phase' \in Decided => phase \in Decided
    BY <1>3 DEF ReadTables, AttachColumns, ReadUnreadable, ReadExemptions, Reads,
                CheckReports, OpenView, DumpSchema, ReadSequences, PutManifest,
                Fail, Copy, Decided, Viewed, Running
  <2> QED
    BY <2>1, <2>2 DEF RulesInv, EntriesInv
<1>4. CASE SourceNext \/ RebuildNext \/ UNCHANGED vars
  <2>1. UNCHANGED <<plan, config, phase>>
    BY <1>4 DEF SourceNext, Change, Truncate, Insert, RebuildNext, RestoreSchema,
                Load, ApplySequences, RestoreConstraints, Goes, planVars, vars
  <2> QED
    BY <2>1 DEF RulesInv
<1> QED
  BY <1>1, <1>2, <1>3, <1>4 DEF Next, PlanNext, SnapshotNext

LEMMA EntriesStep == Inv /\ [Next]_vars => EntriesInv' /\ WholeInv'
<1> SUFFICES ASSUME Inv, [Next]_vars PROVE EntriesInv' /\ WholeInv'
  OBVIOUS
<1> USE DEF Inv
<1>1. ASSUME NEW t \in Tables, Copy(t) PROVE EntriesInv' /\ WholeInv'
  <2>1. /\ UNCHANGED <<plan, view, gone>> /\ phase = "copy"
        /\ phase' \in {"copy", "failed"} /\ t \in DOMAIN plan \ DOMAIN entries
    BY <1>1 DEF Copy, sourceVars
  <2>2. CASE entries' = entries
    BY <2>1, <2>2 DEF EntriesInv, WholeInv, Phases
  <2>3. CASE entries' # entries
    <3>1. PICK exported \in SUBSET Visible(t) :
                 /\ Copied(t, exported)
                 /\ ~plan[t].skipped /\ ~plan[t].where /\ plan[t].tail = 0 =>
                      exported = Visible(t)
      BY <1>1, <2>3, CopyAdds
    <3>2. /\ DOMAIN entries' = DOMAIN entries \cup {t}
          /\ entries'[t].projection = plan[t] /\ entries'[t].rows = exported
          /\ \A s \in DOMAIN entries : entries'[s] = entries[s]
      BY <2>1, <3>1 DEF Copied, Entry
    <3>3. EntriesInv'
      BY <2>1, <3>2 DEF EntriesInv, Phases
    <3>4. WholeInv'
      BY <2>1, <3>1, <3>2 DEF WholeInv, Visible
    <3> QED
      BY <3>3, <3>4
  <2> QED
    BY <2>2, <2>3
<1>2. CASE \/ Start \/ ReadTables \/ AttachColumns \/ ReadUnreadable \/ ReadExemptions
           \/ MakePlan \/ CheckReports \/ OpenView
  <2>1. UNCHANGED entries /\ phase \in Phases /\ DOMAIN entries = {}
    BY <1>2 DEF Start, ReadTables, AttachColumns, ReadUnreadable, ReadExemptions, Reads,
                MakePlan, CheckReports, OpenView, EntriesInv
  <2>2. phase' \in Phases \ {"copy", "published"}
    BY <1>2 DEF Start, ReadTables, AttachColumns, ReadUnreadable, ReadExemptions, Reads,
                MakePlan, CheckReports, OpenView, Phases
  <2> QED
    BY <2>1, <2>2 DEF EntriesInv, WholeInv
<1>3. CASE DumpSchema \/ ReadSequences \/ PutManifest \/ Fail
  <2>1. UNCHANGED <<entries, plan, view, gone>>
    BY <1>3 DEF DumpSchema, ReadSequences, PutManifest, Fail, sourceVars
  <2>2. /\ phase' \in Phases
        /\ phase' = "published" => DOMAIN entries = DOMAIN plan
        /\ phase' \notin {"copy", "published", "failed", "cut"} => DOMAIN entries = {}
    BY <1>3 DEF DumpSchema, ReadSequences, PutManifest, Fail, EntriesInv, Phases
  <2> QED
    BY <2>1, <2>2 DEF EntriesInv, WholeInv
<1>4. CASE SourceNext \/ RebuildNext \/ UNCHANGED vars
  <2>1. UNCHANGED <<plan, view, entries, phase>> /\ gone \subseteq gone'
    BY <1>4 DEF SourceNext, Change, Truncate, Insert, Loses, RebuildNext, RestoreSchema,
                Load, ApplySequences, RestoreConstraints, Goes, planVars, sourceVars, vars
  <2> QED
    BY <2>1 DEF EntriesInv, WholeInv
<1> QED
  BY <1>1, <1>2, <1>3, <1>4 DEF Next, PlanNext, SnapshotNext

-----------------------------------------------------------------------------
\* What the preflight has read of a source that did not change since.
KindRead(t) == IF Relation(catalog[t]) THEN catalog[t].kind ELSE "none"
Reading == {"columns", "unreadable", "exemptions", "dependents"}

\* A plan is that of a catalog.
PlanOf(cat) ==
  /\ DOMAIN plan = {t \in Tables : cat[t].kind = "r"}
  /\ \A t \in DOMAIN plan : ~plan[t].skipped => plan[t].columns = Exported(cat[t].cols)

SteadyInv ==
  /\ DOMAIN seen = {"tables", "unreadable", "exempt"} /\ DOMAIN seen.tables = Tables
  /\ \A t \in Tables : DOMAIN seen.tables[t] = {"kind", "cols", "rls", "readable", "refs"}
  /\ steady =>
       /\ phase \in Reading =>
            \A t \in Tables : seen.tables[t].kind = KindRead(t)
       /\ phase \in Reading \ {"columns"} =>
            \A t \in Tables : Relation(catalog[t]) => seen.tables[t].cols = catalog[t].cols
       /\ phase \in {"reports", "open"} => PlanOf(catalog)
       /\ phase \in Viewed => PlanOf(view.catalog)

DumpInv ==
  /\ \A t \in DOMAIN plan : plan[t].excluded => plan[t].skipped
  /\ phase \in {"sequences", "copy", "published"} =>
       \A t \in Tables : schema[t] = IF Dumped(t) THEN view.catalog[t] ELSE Absent

\* The queries of the preflight, of a source that stands still.
LEMMA ReadsSteady ==
  ASSUME SteadyInv, ReadTables \/ AttachColumns \/ ReadUnreadable \/ ReadExemptions
  PROVE  SteadyInv'
<1>1. UNCHANGED <<catalog, view, plan, steady>>
  BY DEF ReadTables, AttachColumns, ReadUnreadable, ReadExemptions, Reads, sourceVars
<1>2. CASE ReadTables
  <2>1. /\ phase' = "columns"
        /\ seen' = [seen EXCEPT !.tables =
             [t \in Tables |-> IF Relation(catalog[t])
                                 THEN [Absent EXCEPT !.kind = catalog[t].kind,
                                                     !.rls = catalog[t].rls]
                                 ELSE Absent]]
    BY <1>2 DEF ReadTables, Reads
  <2>2. /\ DOMAIN seen' = {"tables", "unreadable", "exempt"}
        /\ DOMAIN seen'.tables = Tables
        /\ \A t \in Tables :
             seen'.tables[t] = IF Relation(catalog[t])
                                 THEN [Absent EXCEPT !.kind = catalog[t].kind,
                                                     !.rls = catalog[t].rls]
                                 ELSE Absent
    BY <2>1 DEF SteadyInv
  <2>3. \A t \in Tables :
          /\ DOMAIN seen'.tables[t] = {"kind", "cols", "rls", "readable", "refs"}
          /\ seen'.tables[t].kind = KindRead(t)
    <3> TAKE t \in Tables
    <3>1. CASE Relation(catalog[t])
      <4>1. seen'.tables[t] = [Absent EXCEPT !.kind = catalog[t].kind,
                                             !.rls = catalog[t].rls]
        BY <2>2, <3>1
      <4> QED
        BY <3>1, <4>1 DEF KindRead, Absent
    <3>2. CASE ~Relation(catalog[t])
      <4>1. seen'.tables[t] = Absent
        BY <2>2, <3>2
      <4> QED
        BY <3>2, <4>1 DEF KindRead, Absent
    <3> QED
      BY <3>1, <3>2
  <2> QED
    BY <1>1, <2>1, <2>2, <2>3 DEF SteadyInv, Viewed, KindRead
<1>3. CASE AttachColumns
  <2>1. /\ phase = "columns" /\ phase' = "unreadable"
        /\ seen' = [seen EXCEPT !.tables =
             [t \in Tables |-> IF Relation(@[t]) /\ Relation(catalog[t])
                                 THEN [@[t] EXCEPT !.cols = catalog[t].cols] ELSE @[t]]]
    BY <1>3 DEF AttachColumns, Reads
  <2>2. /\ DOMAIN seen' = {"tables", "unreadable", "exempt"}
        /\ DOMAIN seen'.tables = Tables
        /\ \A t \in Tables :
             seen'.tables[t] =
               IF Relation(seen.tables[t]) /\ Relation(catalog[t])
                 THEN [seen.tables[t] EXCEPT !.cols = catalog[t].cols] ELSE seen.tables[t]
    BY <2>1 DEF SteadyInv
  <2>3. \A t \in Tables :
          /\ DOMAIN seen'.tables[t] = {"kind", "cols", "rls", "readable", "refs"}
          /\ seen'.tables[t].kind = seen.tables[t].kind
          /\ Relation(seen.tables[t]) /\ Relation(catalog[t]) =>
               seen'.tables[t].cols = catalog[t].cols
    BY <2>2 DEF SteadyInv
  <2>4. steady => \A t \in Tables : /\ seen.tables[t].kind = KindRead(t)
                                    /\ Relation(catalog[t]) => Relation(seen.tables[t])
    BY <2>1 DEF SteadyInv, Reading, KindRead, Relation
  <2> QED
    BY <1>1, <2>1, <2>2, <2>3, <2>4 DEF SteadyInv, Viewed, Reading, KindRead
<1>4. CASE ReadUnreadable \/ ReadExemptions
  <2>1. /\ phase \in Reading \ {"columns"} /\ phase' \in Reading \ {"columns"}
        /\ seen'.tables = seen.tables /\ DOMAIN seen' = DOMAIN seen
    BY <1>4 DEF ReadUnreadable, ReadExemptions, Reads, Reading, SteadyInv
  <2> QED
    BY <1>1, <2>1 DEF SteadyInv, Viewed, Reading, KindRead
<1> QED
  BY <1>2, <1>3, <1>4

\* The plan has the tables and the columns that were read.
LEMMA PlannedSteady ==
  ASSUME SteadyInv, MakePlan PROVE SteadyInv'
<1>1. /\ phase = "dependents" /\ phase' \in {"reports", "refused"}
      /\ UNCHANGED <<catalog, view, steady>> /\ seen' = NothingSeen
      /\ phase' = "reports" => ~PlanErrors /\ plan' = Planned
  BY DEF MakePlan, sourceVars
<1>2. /\ DOMAIN seen' = {"tables", "unreadable", "exempt"} /\ DOMAIN seen'.tables = Tables
      /\ \A t \in Tables : DOMAIN seen'.tables[t] = {"kind", "cols", "rls", "readable", "refs"}
  BY <1>1 DEF NothingSeen, Nowhere, Absent
<1>3. ASSUME steady, phase' = "reports" PROVE PlanOf(catalog)'
  <2>1. Projected = {t \in Tables : seen.tables[t].kind = "r"}
    BY <1>1, <1>3 DEF PlanErrors, Exportable
  <2>2. \A t \in Tables : /\ seen.tables[t].kind = "r" <=> catalog[t].kind = "r"
                          /\ catalog[t].kind = "r" => seen.tables[t].cols = catalog[t].cols
    BY <1>1, <1>3 DEF SteadyInv, Reading, KindRead, Relation
  <2>3. \A t \in Projected :
          ~Planned[t].skipped => Planned[t].columns = Exported(seen.tables[t].cols)
    BY DEF Planned, Projection
  <2>4. DOMAIN Planned = Projected
    BY DEF Planned
  <2> QED
    BY <1>1, <1>3, <2>1, <2>2, <2>3, <2>4 DEF PlanOf
<1> QED
  BY <1>1, <1>2, <1>3 DEF SteadyInv, Reading, Viewed

LEMMA SteadyStep == Inv /\ SteadyInv /\ [Next]_vars => SteadyInv'
<1> SUFFICES ASSUME Inv, SteadyInv, [Next]_vars PROVE SteadyInv'
  OBVIOUS
<1>1. CASE ReadTables \/ AttachColumns \/ ReadUnreadable \/ ReadExemptions
  BY <1>1, ReadsSteady
<1>2. CASE MakePlan
  BY <1>2, PlannedSteady
<1>3. CASE \/ Start \/ CheckReports \/ OpenView \/ DumpSchema \/ ReadSequences
           \/ PutManifest \/ Fail \/ \E t \in Tables : Copy(t)
  <2>1. UNCHANGED <<catalog, seen, plan, steady>>
    BY <1>3 DEF Start, CheckReports, Reads, OpenView, DumpSchema, ReadSequences,
                PutManifest, Fail, Copy, sourceVars
  <2>2. /\ phase' \notin Reading
        /\ phase' \in {"reports", "open"} => phase = "reports"
        /\ \/ phase' \notin Viewed
           \/ phase \in Viewed /\ view' = view
           \/ phase = "open" /\ view'.catalog = catalog
    BY <1>3 DEF Start, CheckReports, Reads, OpenView, DumpSchema, ReadSequences,
                PutManifest, Fail, Copy, Viewed, Reading
  <2> QED
    BY <2>1, <2>2 DEF SteadyInv, PlanOf
<1>4. CASE SourceNext \/ RebuildNext \/ UNCHANGED vars
  <2>1. UNCHANGED <<seen, plan, phase, view>>
    BY <1>4 DEF SourceNext, Change, Truncate, Insert, RebuildNext, RestoreSchema,
                Load, ApplySequences, RestoreConstraints, Goes, planVars, vars
  <2>2. steady' => steady /\ (catalog' = catalog \/ phase \notin Before)
    BY <1>4 DEF SourceNext, Change, Truncate, Insert, RebuildNext, RestoreSchema,
                Load, ApplySequences, RestoreConstraints, Goes, planVars, sourceVars, vars
  <2>3. CASE ~steady'
    BY <2>1, <2>3 DEF SteadyInv
  <2>4. CASE steady /\ catalog' = catalog
    <3>1. /\ (\A t \in Tables : KindRead(t)' = KindRead(t))
          /\ PlanOf(catalog)' <=> PlanOf(catalog)
          /\ PlanOf(view.catalog)' <=> PlanOf(view.catalog)
      BY <2>1, <2>4 DEF KindRead, PlanOf
    <3> QED
      BY <2>1, <2>4, <3>1 DEF SteadyInv
  <2>5. CASE steady /\ phase \notin Before
    <3>1. /\ phase' \notin Reading /\ phase' \notin {"reports", "open"}
          /\ PlanOf(view.catalog)' <=> PlanOf(view.catalog)
      BY <2>1, <2>5 DEF PlanOf, Reading, Before
    <3> QED
      BY <2>1, <2>5, <3>1 DEF SteadyInv
  <2> QED
    BY <2>2, <2>3, <2>4, <2>5
<1> QED
  BY <1>1, <1>2, <1>3, <1>4 DEF Next, PlanNext, SnapshotNext

\* The dump leaves out what the plan excludes, and nothing else.
LEMMA DumpStep == Inv /\ DumpInv /\ [Next]_vars => DumpInv'
<1> SUFFICES ASSUME Inv, DumpInv, [Next]_vars PROVE DumpInv'
  OBVIOUS
<1>1. CASE MakePlan
  <2>1. phase' \in {"reports", "refused"} /\ (plan' = plan \/ plan' = Planned)
    BY <1>1 DEF MakePlan
  <2>2. \A t \in DOMAIN Planned : Planned[t].excluded => Planned[t].skipped
    BY DEF Planned, Projection, SkipsData
  <2> QED
    BY <2>1, <2>2 DEF DumpInv
<1>2. CASE DumpSchema
  BY <1>2 DEF DumpSchema, DumpInv, Dumped
<1>3. CASE \/ Start \/ ReadTables \/ AttachColumns \/ ReadUnreadable \/ ReadExemptions
           \/ CheckReports \/ OpenView
  <2>1. UNCHANGED plan /\ phase' \notin {"sequences", "copy", "published"}
    BY <1>3 DEF Start, ReadTables, AttachColumns, ReadUnreadable, ReadExemptions, Reads,
                CheckReports, OpenView
  <2> QED
    BY <2>1 DEF DumpInv
<1>4. CASE ReadSequences \/ PutManifest \/ Fail \/ \E t \in Tables : Copy(t)
  <2>1. UNCHANGED <<plan, view, schema>>
    BY <1>4 DEF ReadSequences, PutManifest, Fail, Copy
  <2>2. phase' \in {"sequences", "copy", "published"} =>
          phase \in {"sequences", "copy", "published"}
    BY <1>4 DEF ReadSequences, PutManifest, Fail, Copy
  <2> QED
    BY <2>1, <2>2 DEF DumpInv, Dumped
<1>5. CASE SourceNext \/ RebuildNext \/ UNCHANGED vars
  <2>1. UNCHANGED <<plan, phase, view, schema>>
    BY <1>5 DEF SourceNext, Change, Truncate, Insert, RebuildNext, RestoreSchema,
                Load, ApplySequences, RestoreConstraints, Goes, planVars, vars
  <2> QED
    BY <2>1 DEF DumpInv, Dumped
<1> QED
  BY <1>1, <1>2, <1>3, <1>4, <1>5 DEF Next, PlanNext, SnapshotNext

-----------------------------------------------------------------------------
\* Inv is inductive.
LEMMA InitPlanned == ContentInit => Inv /\ SteadyInv /\ DumpInv
<1>1. ContentInit => Inv
  BY DEF ContentInit, Init, Inv, RulesInv, EntriesInv, WholeInv, Decided, Viewed,
         Phases, NoTables
<1>2. ContentInit => SteadyInv /\ DumpInv
  BY DEF ContentInit, Init, SteadyInv, DumpInv, Reading, Viewed, NothingSeen, Nowhere,
         Absent, NoTables
<1> QED
  BY <1>1, <1>2

LEMMA InvKept == Spec => [](Inv /\ SteadyInv /\ DumpInv)
<1>1. Inv /\ [Next]_vars => Inv'
  BY RulesStep, EntriesStep DEF Inv
<1> QED
  BY <1>1, InitPlanned, SteadyStep, DumpStep, PTL DEF Spec

\* Whatever migrations do between the queries, a published snapshot has masked,
\* left out and cut what its configuration names.
THEOREM RulesAreApplied == Spec => []RulesApplied
<1>1. Inv => RulesApplied
  BY DEF Inv, RulesInv, EntriesInv, RulesApplied, Applies, Decided, Viewed
<1> QED
  BY <1>1, InvKept, PTL

\* A table exported in full has all rows of the view, whatever row level
\* security does meanwhile.
THEOREM RowsAreWhole == Spec => []RowsWhole
<1>1. Inv => RowsWhole
  BY DEF Inv, EntriesInv, WholeInv, RowsWhole
<1> QED
  BY <1>1, InvKept, PTL

\* "The schema it captures is the schema the data was copied under", when no
\* migration commits between preflight and view.
THEOREM DumpAgrees == Spec => []Agrees
<1>1. Inv /\ SteadyInv /\ DumpInv => Agrees
  <2> SUFFICES ASSUME Inv, SteadyInv, DumpInv, phase = "published", steady
               PROVE  /\ {t \in Tables : schema[t].kind = "r"} =
                         {t \in DOMAIN entries : ~entries[t].projection.excluded}
                      /\ \A t \in DOMAIN entries : ~entries[t].projection.skipped =>
                           entries[t].projection.columns = Exported(schema[t].cols)
    BY DEF Agrees
  <2>1. /\ DOMAIN entries = DOMAIN plan
        /\ \A t \in DOMAIN entries : entries[t].projection = plan[t]
    BY DEF Inv, EntriesInv
  <2>2. PlanOf(view.catalog)
    BY DEF SteadyInv, Viewed
  <2>3. \A t \in Tables : schema[t] = IF Dumped(t) THEN view.catalog[t] ELSE Absent
    BY DEF DumpInv
  <2>4. \A t \in DOMAIN plan : /\ t \in Tables /\ view.catalog[t].kind = "r"
                               /\ Dumped(t) <=> ~plan[t].excluded
                               /\ plan[t].excluded => plan[t].skipped
    BY <2>2 DEF PlanOf, Dumped, DumpInv
  <2>5. ASSUME NEW t \in Tables
        PROVE  schema[t].kind = "r" <=> t \in DOMAIN plan /\ ~plan[t].excluded
    <3>1. CASE t \in DOMAIN plan /\ ~plan[t].excluded
      BY <2>3, <2>4, <3>1
    <3>2. CASE t \in DOMAIN plan /\ plan[t].excluded
      <4>1. schema[t] = Absent
        BY <2>3, <2>4, <3>2
      <4> QED
        BY <3>2, <4>1 DEF Absent
    <3>3. CASE t \notin DOMAIN plan
      <4>1. schema[t] \in {view.catalog[t], Absent} /\ view.catalog[t].kind # "r"
        BY <2>2, <2>3, <3>3 DEF PlanOf
      <4> QED
        BY <3>3, <4>1 DEF Absent
    <3> QED
      BY <3>1, <3>2, <3>3
  <2>6. \A t \in DOMAIN plan : ~plan[t].skipped =>
          plan[t].columns = Exported(schema[t].cols)
    BY <2>2, <2>3, <2>4 DEF PlanOf
  <2> QED
    BY <2>1, <2>4, <2>5, <2>6
<1> QED
  BY <1>1, InvKept, PTL

-----------------------------------------------------------------------------
(***************************************************************************)
(* Why a restored sequence is above the restored rows: its position is     *)
(* read after the view is opened, and what the view has is below it.       *)
(***************************************************************************)

\* A non-empty set of natural numbers has a least element.
LEMMA LeastExists ==
  ASSUME NEW T \in SUBSET Nat, T # {}
  PROVE  \E x \in T : \A y \in T : x <= y
<1>1. PICK x \in T : \A y \in T : ~(<<y, x>> \in OpToRel(<, Nat))
  BY NatLessThanWellFounded, WFMin
<1>2. \A y \in T : x <= y
  <2> TAKE y \in T
  <2>1. x \in Nat /\ y \in Nat
    OBVIOUS
  <2>2. ~(<<y, x>> \in {ss \in Nat \X Nat : ss[1] < ss[2]})
    BY <1>1 DEF OpToRel
  <2>3. y < x => <<y, x>> \in {ss \in Nat \X Nat : ss[1] < ss[2]}
    BY <2>1
  <2> QED
    BY <2>1, <2>2, <2>3
<1> QED
  BY <1>2

\* A non-empty set of row numbers that has a bound has a greatest element.
LEMMA AboveExists ==
  ASSUME NEW top \in Nat, NEW S \in SUBSET (1 .. top), S # {}
  PROVE  Above(S) \in S /\ \A n \in S : n <= Above(S)
<1> DEFINE T == {n \in Nat : \E m \in S : n = top - m}
<1>1. T \in SUBSET Nat /\ T # {}
  <2>1. PICK m \in S : TRUE
    OBVIOUS
  <2>2. m \in Nat /\ m <= top
    OBVIOUS
  <2>3. top - m \in T
    BY <2>2
  <2> QED
    BY <2>3
<1>3. PICK x \in T : \A y \in T : x <= y
  <2> HIDE DEF T
  <2> QED
    BY <1>1, LeastExists
<1>4. PICK m \in S : x = top - m
  OBVIOUS
<1>5. \A n \in S : n <= m
  <2> TAKE n \in S
  <2>1. n \in Nat /\ m \in Nat /\ n <= top /\ m <= top
    OBVIOUS
  <2>2. top - n \in T
    BY <2>1
  <2>3. top - m <= top - n
    BY <1>3, <1>4, <2>2
  <2> QED
    BY <2>1, <2>3
<1>6. \E g \in S : \A n \in S : n <= g
  BY <1>5
<1> QED
  <2> HIDE DEF T
  <2> QED
    BY <1>6 DEF Above

-----------------------------------------------------------------------------
\* The value that a recorded position makes the sequence return next.
After(p) == IF p.called THEN p.value + 1 ELSE p.value

\* The sequence of the source is above the rows of its table.
SourceInv ==
  /\ rows \in [Tables -> SUBSET Nat] /\ last \in [Tables -> Nat]
  /\ \A t \in Tables : rows[t] \subseteq 1 .. last[t]

\* So it is above what the view still sees.
ViewInv ==
  phase \in Viewed =>
    /\ view.rows \in [Tables -> SUBSET Nat]
    /\ \A t \in Tables \ gone : view.rows[t] \subseteq 1 .. last[t]

\* The recorded positions are above what is or will be exported, where the role
\* can read the sequence.
PositionsInv ==
  /\ phase \notin {"copy", "published", "failed", "cut"} =>
       DOMAIN entries = {}
  /\ phase \in {"copy", "published"} =>
       \A t \in DOMAIN positions :
         /\ t \in Tables
         /\ t \notin Hidden =>
              /\ \A r \in Visible(t) : r < After(positions[t])
              /\ t \in DOMAIN entries => \A r \in entries[t].rows : r < After(positions[t])

\* What the restore has loaded and set is what the entries and positions say.
BuiltInv ==
  /\ phase # "published" => step = "schema"
  /\ step = "schema" => \A t \in Tables : built[t] = {}
  /\ \A t \in Tables : built[t] = {} \/ (t \in DOMAIN entries /\ built[t] = entries[t].rows)
  /\ step \in {"constraints", "served"} =>
       \A t \in DOMAIN positions : next[t] = After(positions[t])

AboveInv == SourceInv /\ ViewInv /\ PositionsInv /\ BuiltInv

-----------------------------------------------------------------------------
\* A position that the role can read is above every row that the view sees.
LEMMA PositionAbove ==
  ASSUME SourceInv, ViewInv, phase = "sequences", NEW t \in Tables \ Hidden
  PROVE  \A r \in Visible(t) : r < After(Position(t))
<1>1. Visible(t) \in SUBSET (1 .. last[t]) /\ last[t] \in Nat
  BY DEF Visible, ViewInv, Viewed, SourceInv
<1>2. CASE last[t] = 0
  BY <1>1, <1>2
<1>3. CASE last[t] # 0
  <2>1. Position(t) = Called(last[t])
    BY <1>3 DEF Position
  <2> QED
    BY <1>1, <2>1 DEF Called, After
<1> QED
  BY <1>2, <1>3

\* What a copy adds to the entries, if it adds any, are rows it sees.
LEMMA CopySees ==
  ASSUME NEW t \in Tables, Copy(t), entries' # entries
  PROVE  \E exported \in SUBSET Visible(t) : Copied(t, exported)
<1>1. CASE plan[t].skipped
  BY <1>1 DEF Copy
<1>2. CASE ~plan[t].skipped /\ plan[t].tail > 0
  <2>1. PICK pages \in 0 .. MaxPages : \E place \in [Visible(t) -> 0 .. pages - 1] :
               Copied(t, From(StartPage(pages, place, plan[t].tail), place))
    BY <1>2 DEF Copy
  <2>2. PICK place \in [Visible(t) -> 0 .. pages - 1] :
               Copied(t, From(StartPage(pages, place, plan[t].tail), place))
    BY <2>1
  <2>3. From(StartPage(pages, place, plan[t].tail), place) \in SUBSET Visible(t)
    BY DEF From
  <2> QED
    BY <2>2, <2>3
<1>3. CASE ~plan[t].skipped /\ ~(plan[t].tail > 0)
  BY <1>3 DEF Copy
<1> QED
  BY <1>1, <1>2, <1>3

-----------------------------------------------------------------------------
\* The source: a change that takes values away from a sequence also takes the
\* rows from every older view.
LEMMA SourceStep == AboveInv /\ SourceNext /\ UNCHANGED rebuildVars => AboveInv'
<1> SUFFICES ASSUME AboveInv, SourceNext, UNCHANGED rebuildVars PROVE AboveInv'
  OBVIOUS
<1> USE DEF AboveInv
<1>1. UNCHANGED <<config, phase, plan, view, entries, positions, step, built, next>>
  BY DEF SourceNext, Change, Insert, Truncate, rebuildVars
<1> DEFINE Forward ==
      /\ SourceInv'
      /\ gone \subseteq gone'
      /\ phase \in Viewed => \A t \in Tables \ gone' : last[t] <= last'[t]
<1>2. Forward
  <2>1. ASSUME NEW t \in Tables, NEW shape, Change(t, shape) PROVE Forward
    <3>1. CASE UNCHANGED <<rows, last>>
      <4>1. gone \subseteq gone'
        BY <2>1, <3>1 DEF Change, Loses
      <4> QED
        BY <3>1, <4>1 DEF SourceInv
    <3>2. CASE /\ rows' = [rows EXCEPT ![t] = {}]
               /\ last' = [last EXCEPT ![t] = 0]
               /\ Loses({t})
      <4>1. SourceInv'
        BY <3>2 DEF SourceInv
      <4>2. gone \subseteq gone' /\ (phase \in Viewed => t \in gone')
        BY <3>2 DEF Loses, Viewed, Before
      <4> QED
        BY <3>2, <4>1, <4>2 DEF SourceInv
    <3> QED
      BY <2>1, <3>1, <3>2 DEF Change
  <2>2. ASSUME NEW t \in Tables, NEW commits \in BOOLEAN, Insert(t, commits) PROVE Forward
    <3>1. /\ last' = [last EXCEPT ![t] = @ + 1] /\ gone' = gone
          /\ rows' = rows \/ rows' = [rows EXCEPT ![t] = @ \cup {last[t] + 1}]
      BY <2>2 DEF Insert
    <3>2. \A s \in Tables : last'[s] \in Nat /\ last[s] <= last'[s]
      BY <3>1 DEF SourceInv
    <3>3. \A s \in Tables : rows'[s] \subseteq 1 .. last'[s]
      BY <3>1 DEF SourceInv
    <3> QED
      BY <3>1, <3>2, <3>3 DEF SourceInv
  <2>3. ASSUME NEW S \in SUBSET Tables, NEW restarts \in BOOLEAN, Truncate(S, restarts)
        PROVE  Forward
    <3>1. /\ rows' = [t \in Tables |-> IF t \in S THEN {} ELSE rows[t]]
          /\ last' = [t \in Tables |-> IF t \in S /\ restarts THEN 0 ELSE last[t]]
          /\ Loses(S)
      BY <2>3 DEF Truncate
    <3>2. SourceInv'
      BY <3>1 DEF SourceInv
    <3>3. gone \subseteq gone' /\ (phase \in Viewed => S \subseteq gone')
      BY <3>1 DEF Loses, Viewed, Before
    <3> QED
      BY <3>1, <3>2, <3>3 DEF SourceInv
  <2>4. CASE \E t \in Tables : \/ \E shape \in Shapes[t] : Change(t, shape)
                               \/ \E commits \in BOOLEAN : Insert(t, commits)
    BY <2>1, <2>2, <2>4
  <2>5. CASE \E S \in SUBSET Tables, restarts \in BOOLEAN : Truncate(S, restarts)
    BY <2>3, <2>5
  <2> QED
    BY <2>4, <2>5 DEF SourceNext
<1>3. ViewInv'
  <2> SUFFICES ASSUME phase \in Viewed, NEW t \in Tables \ gone'
               PROVE  view.rows[t] \subseteq 1 .. last'[t]
    BY <1>1 DEF ViewInv
  <2>1. view.rows[t] \subseteq 1 .. last[t] /\ last[t] \in Nat /\ last'[t] \in Nat
    BY <1>2 DEF ViewInv, SourceInv
  <2> QED
    BY <1>2, <2>1
<1>4. \A t \in Tables : Visible(t)' \subseteq Visible(t)
  BY <1>1, <1>2 DEF Visible
<1>5. PositionsInv'
  BY <1>1, <1>4 DEF PositionsInv
<1>6. BuiltInv'
  BY <1>1 DEF BuiltInv
<1> QED
  BY <1>2, <1>3, <1>5, <1>6

\* The snapshot.
LEMMA SnapshotStep ==
  ASSUME AboveInv, SnapshotNext, UNCHANGED rebuildVars PROVE AboveInv'
<1> USE DEF AboveInv
<1>0. UNCHANGED sourceVars /\ step = "schema" /\ phase # "published"
  BY DEF SnapshotNext, Start, ReadTables, AttachColumns, ReadUnreadable, ReadExemptions,
         Reads, MakePlan, CheckReports, OpenView, DumpSchema, ReadSequences, Copy,
         PutManifest, Fail, Running, BuiltInv
<1>1. SourceInv'
  BY <1>0 DEF sourceVars, SourceInv
<1>2. BuiltInv'
  BY <1>0 DEF BuiltInv, rebuildVars, After
<1>3. ASSUME NEW t \in Tables, Copy(t) PROVE ViewInv' /\ PositionsInv'
  <2>1. /\ UNCHANGED <<positions, view, gone>> /\ phase = "copy"
        /\ phase' \in {"copy", "failed"}
    BY <1>0, <1>3 DEF Copy, sourceVars
  <2>2. ViewInv'
    BY <1>0, <2>1 DEF ViewInv, Viewed, sourceVars
  <2>3. \A s \in Tables : Visible(s)' = Visible(s)
    BY <2>1 DEF Visible
  <2>4. CASE entries' = entries
    BY <2>1, <2>2, <2>3, <2>4 DEF PositionsInv, After
  <2>5. CASE entries' # entries
    <3>1. PICK exported \in SUBSET Visible(t) : Copied(t, exported)
      BY <1>3, <2>5, CopySees
    <3>2. /\ DOMAIN entries' = DOMAIN entries \cup {t} /\ entries'[t].rows = exported
          /\ \A s \in DOMAIN entries \ {t} : entries'[s] = entries[s]
      BY <3>1 DEF Copied, Entry
    <3>3. \A s \in DOMAIN positions :
            /\ s \in Tables
            /\ s \notin Hidden =>
                 /\ \A r \in Visible(s) : r < After(positions[s])
                 /\ s \in DOMAIN entries =>
                      \A r \in entries[s].rows : r < After(positions[s])
      BY <2>1 DEF PositionsInv
    <3>4. \A s \in DOMAIN positions \ Hidden : s \in DOMAIN entries' =>
            \A r \in entries'[s].rows : r < After(positions[s])
      BY <3>1, <3>2, <3>3
    <3> QED
      BY <2>1, <2>2, <2>3, <3>3, <3>4 DEF PositionsInv, Viewed
  <2> QED
    BY <2>2, <2>4, <2>5
<1>4. ASSUME ReadSequences PROVE ViewInv' /\ PositionsInv'
  <2>1. /\ UNCHANGED <<view, entries, gone>> /\ phase = "sequences" /\ DOMAIN entries = {}
        /\ phase' = "copy" /\ positions' = [t \in Sequenced |-> Position(t)]
    BY <1>0, <1>4 DEF ReadSequences, sourceVars, PositionsInv, Viewed
  <2>2. ViewInv'
    BY <1>0, <2>1 DEF ViewInv, Viewed, sourceVars
  <2>3. \A t \in DOMAIN positions' : t \in Tables /\ positions'[t] = Position(t)
    BY <2>1 DEF Sequenced
  <2>4. \A t \in Tables : Visible(t)' = Visible(t)
    BY <2>1 DEF Visible
  <2>5. \A t \in DOMAIN positions' \ Hidden : \A r \in Visible(t) : r < After(positions'[t])
    BY <2>1, <2>3, PositionAbove
  <2> QED
    BY <2>1, <2>2, <2>3, <2>4, <2>5 DEF PositionsInv, After
<1>5. ASSUME OpenView PROVE ViewInv' /\ PositionsInv'
  <2>1. /\ view' = [catalog |-> catalog, rows |-> rows] /\ phase' = "schema"
        /\ UNCHANGED <<entries, rows, last>> /\ DOMAIN entries = {}
    BY <1>0, <1>5 DEF OpenView, sourceVars, PositionsInv, Viewed
  <2> QED
    BY <2>1 DEF ViewInv, PositionsInv, SourceInv, After
<1>6. ASSUME \/ Start \/ ReadTables \/ AttachColumns \/ ReadUnreadable \/ ReadExemptions
             \/ MakePlan \/ CheckReports
      PROVE  ViewInv' /\ PositionsInv'
  <2>1. /\ UNCHANGED entries /\ DOMAIN entries = {}
    BY <1>6 DEF Start, ReadTables, AttachColumns, ReadUnreadable, ReadExemptions, Reads,
                MakePlan, CheckReports, PositionsInv, Viewed
  <2>2. phase' \notin Viewed
    BY <1>6 DEF Start, ReadTables, AttachColumns, ReadUnreadable, ReadExemptions, Reads,
                MakePlan, CheckReports, Viewed
  <2> QED
    BY <2>1, <2>2 DEF ViewInv, PositionsInv, Viewed, After
<1>7. ASSUME DumpSchema \/ PutManifest \/ Fail PROVE ViewInv' /\ PositionsInv'
  <2>1. UNCHANGED <<entries, positions, view, gone, last>>
    BY <1>0, <1>7 DEF DumpSchema, PutManifest, Fail, sourceVars
  <2>2. /\ phase' \in Viewed => phase \in Viewed
        /\ phase' \in {"copy", "published"} => phase = "copy"
        /\ phase' \notin {"copy", "published", "failed", "cut"} =>
             DOMAIN entries = {}
    BY <1>7 DEF DumpSchema, PutManifest, Fail, Viewed, PositionsInv
  <2>3. \A t \in Tables : Visible(t)' = Visible(t)
    BY <2>1 DEF Visible
  <2> QED
    BY <2>1, <2>2, <2>3 DEF ViewInv, PositionsInv, After
<1> QED
  BY <1>1, <1>2, <1>3, <1>4, <1>5, <1>6, <1>7 DEF SnapshotNext

\* The restore.
LEMMA RebuildStep == AboveInv /\ RebuildNext => AboveInv'
<1> SUFFICES ASSUME AboveInv, RebuildNext PROVE AboveInv'
  OBVIOUS
<1> USE DEF AboveInv
<1>1. phase = "published" /\ UNCHANGED planVars
  BY DEF RebuildNext, RestoreSchema, Load, ApplySequences, RestoreConstraints, Goes
<1>2. SourceInv' /\ ViewInv' /\ PositionsInv'
  BY <1>1 DEF SourceInv, ViewInv, PositionsInv, Visible, planVars, sourceVars
<1>3. BuiltInv'
  <2>1. CASE RestoreSchema
    BY <1>1, <2>1 DEF RestoreSchema, Goes, BuiltInv, planVars
  <2>2. CASE Load
    <3>1. /\ step' \in {"sequences", "broken"}
          /\ built' = [t \in Tables |-> IF t \in Loaded THEN entries[t].rows ELSE {}]
      BY <2>2 DEF Load, Goes
    <3> QED
      BY <1>1, <3>1 DEF BuiltInv, Loaded, planVars, After
  <2>3. CASE ApplySequences
    <3>1. /\ step' \in {"constraints", "broken"} /\ UNCHANGED built
          /\ next' = [t \in Tables |-> IF t \notin DOMAIN positions THEN next[t]
                                       ELSE After(positions[t])]
      BY <2>3 DEF ApplySequences, Goes, After
    <3>2. \A t \in DOMAIN positions : t \in Tables
      BY <1>1 DEF PositionsInv
    <3> QED
      BY <1>1, <3>1, <3>2 DEF BuiltInv, planVars
  <2>4. CASE RestoreConstraints
    BY <1>1, <2>4 DEF RestoreConstraints, Goes, BuiltInv, planVars
  <2> QED
    BY <2>1, <2>2, <2>3, <2>4 DEF RebuildNext
<1> QED
  BY <1>2, <1>3

-----------------------------------------------------------------------------
\* A sequence that the role can read resumes above every row that was restored,
\* though its position is not of the view that the rows are of.
THEOREM SequencesAreAbove == Spec => []SequencesAbove
<1>1. ContentInit => AboveInv
  <2> SUFFICES ASSUME ContentInit PROVE AboveInv
    OBVIOUS
  <2>1. PICK top \in FirstRows : top \in Nat /\ FirstRows \subseteq 1 .. top
    BY RowsAssumption
  <2>2. Above(FirstRows) \in FirstRows /\ \A n \in FirstRows : n <= Above(FirstRows)
    BY <2>1, AboveExists
  <2>3. /\ rows = [t \in Tables |-> IF catalog[t].kind = "r" THEN FirstRows ELSE {}]
        /\ last = [t \in Tables |-> IF catalog[t].kind = "r" THEN Above(FirstRows) ELSE 0]
    BY DEF ContentInit, Init, FirstContent
  <2>4. SourceInv
    <3> DEFINE a == Above(FirstRows)
    <3>1. a \in Nat /\ FirstRows \in SUBSET Nat /\ FirstRows \subseteq 1 .. a
      <4>1. a \in FirstRows /\ \A n \in FirstRows : n <= a
        BY <2>2
      <4> HIDE DEF a
      <4>2. \A n \in FirstRows : n \in Nat /\ 1 <= n
        BY <2>1
      <4> QED
        BY <4>1, <4>2
    <3>2. \A t \in Tables : /\ last[t] \in {a, 0}
                            /\ \/ rows[t] = {}
                               \/ rows[t] = FirstRows /\ last[t] = a
      BY <2>3
    <3>3. rows = [t \in Tables |-> rows[t]] /\ last = [t \in Tables |-> last[t]]
      BY <2>3
    <3> HIDE DEF a
    <3>4. ASSUME NEW t \in Tables
          PROVE  rows[t] \in SUBSET Nat /\ last[t] \in Nat /\ rows[t] \subseteq 1 .. last[t]
      <4>1. last[t] \in Nat
        BY <3>1, <3>2
      <4>2. CASE rows[t] = {}
        BY <4>1, <4>2
      <4>3. CASE rows[t] = FirstRows /\ last[t] = a
        BY <3>1, <4>3
      <4> QED
        BY <3>2, <4>2, <4>3
    <3> QED
      BY <3>3, <3>4 DEF SourceInv
  <2>5. ViewInv /\ PositionsInv
    BY DEF ContentInit, Init, ViewInv, PositionsInv, Viewed, NoTables
  <2>6. BuiltInv
    BY DEF ContentInit, Init, RebuildInit, BuiltInv, After
  <2> QED
    BY <2>4, <2>5, <2>6 DEF AboveInv
<1>2. AboveInv /\ [Next]_vars => AboveInv'
  <2> SUFFICES ASSUME AboveInv, [Next]_vars PROVE AboveInv'
    OBVIOUS
  <2>1. CASE UNCHANGED vars
    BY <2>1 DEF vars, planVars, sourceVars, rebuildVars, AboveInv, SourceInv, ViewInv,
                PositionsInv, BuiltInv, Visible
  <2> QED
    BY <2>1, SourceStep, SnapshotStep, RebuildStep DEF Next, PlanNext
<1>3. AboveInv => SequencesAbove
  <2> SUFFICES ASSUME AboveInv, step = "served", NEW t \in DOMAIN positions \ Hidden,
                      NEW r \in built[t]
               PROVE  r < next[t]
    BY DEF SequencesAbove
  <2>1. phase = "published" /\ next[t] = After(positions[t])
    BY DEF AboveInv, BuiltInv
  <2>2. t \in Tables /\ (t \in DOMAIN entries => \A n \in entries[t].rows : n < After(positions[t]))
    BY <2>1 DEF AboveInv, PositionsInv
  <2> QED
    BY <2>1, <2>2 DEF AboveInv, BuiltInv
<1> QED
  BY <1>1, <1>2, <1>3, PTL DEF Spec

-----------------------------------------------------------------------------
(***************************************************************************)
(* Types.                                                                  *)
(***************************************************************************)

\* No row is above the last value of its sequence, and no sequence takes more
\* values than it may.
SourceTypes ==
  /\ IsCatalog(catalog)
  /\ rows \in [Tables -> SUBSET Nat] /\ last \in [Tables -> Nat]
  /\ \A t \in Tables : rows[t] \subseteq 1 .. last[t]
  /\ \A t \in Tables : last[t] <= Above(FirstRows) + used.inserts
  /\ gone \in SUBSET Tables
  /\ used \in [changes : 0 .. MaxChanges, inserts : 0 .. MaxInserts]

ReadTypes ==
  /\ seen = [tables |-> seen.tables, unreadable |-> seen.unreadable,
             exempt |-> seen.exempt]
  /\ IsCatalog(seen.tables)
  /\ seen.unreadable \in SUBSET Tables /\ seen.exempt \in SUBSET Tables
  /\ DOMAIN plan \subseteq Tables

ViewTypes ==
  /\ IsCatalog(view.catalog) /\ view.rows \in [Tables -> Rows]
  /\ IsCatalog(schema)
  /\ \A t \in DOMAIN entries : entries[t].rows \in Rows
  /\ \A t \in DOMAIN positions : t \in Tables /\ positions[t] \in PositionType
  /\ steady \in BOOLEAN

RebuildTypes ==
  /\ step \in {"schema", "load", "sequences", "constraints", "served", "broken"}
  /\ built \in [Tables -> Rows]
  /\ next \in [Tables -> 1 .. MaxRow + 1]

Types == SourceTypes /\ ReadTypes /\ ViewTypes /\ RebuildTypes

\* The first rows have a greatest, and MaxRow bounds whatever is added.
LEMMA RowsBounded ==
  /\ Above(FirstRows) \in Nat \ {0} /\ FirstRows \subseteq 1 .. Above(FirstRows)
  /\ MaxRow \in Nat \ {0} /\ Above(FirstRows) <= MaxRow
<1>1. PICK top \in FirstRows : top \in Nat /\ FirstRows \subseteq 1 .. top
  BY RowsAssumption
<1>2. Above(FirstRows) \in FirstRows /\ \A n \in FirstRows : n <= Above(FirstRows)
  BY <1>1, AboveExists
<1> DEFINE above == Above(FirstRows)
<1> HIDE DEF above
<1>3. above \in FirstRows /\ \A n \in FirstRows : n <= above
  BY <1>2 DEF above
<1>4. above \in Nat \ {0} /\ FirstRows \subseteq 1 .. above
  BY <1>1, <1>3
<1>5. MaxRow = above + MaxInserts
  BY DEF MaxRow, above
<1>6. MaxRow \in Nat \ {0} /\ above <= MaxRow
  BY <1>4, <1>5, BoundsAssumption
<1> QED
  BY <1>4, <1>6 DEF above

LEMMA SourceRows ==
  ASSUME SourceTypes PROVE rows \in [Tables -> Rows] /\ last \in [Tables -> 0 .. MaxRow]
<1> DEFINE above == Above(FirstRows)
<1>0. /\ above \in Nat /\ MaxRow = above + MaxInserts /\ MaxRow \in Nat
      /\ used.inserts \in 0 .. MaxInserts
      /\ \A t \in Tables : last[t] \in Nat /\ last[t] <= above + used.inserts
  BY RowsBounded DEF SourceTypes, MaxRow
<1> HIDE DEF above
<1>1. \A t \in Tables : last[t] \in 0 .. MaxRow
  <2> TAKE t \in Tables
  <2>1. last[t] \in Nat /\ last[t] <= above + used.inserts
    BY <1>0
  <2>2. used.inserts \in Nat /\ used.inserts <= MaxInserts /\ MaxInserts \in Nat
    BY <1>0, BoundsAssumption
  <2> QED
    BY <1>0, <2>1, <2>2
<1>2. \A t \in Tables : rows[t] \in Rows
  <2> TAKE t \in Tables
  <2>1. rows[t] \subseteq 1 .. last[t] /\ last[t] \in 0 .. MaxRow
    BY <1>1 DEF SourceTypes
  <2> QED
    BY <1>0, <2>1 DEF Rows
<1> QED
  BY <1>1, <1>2 DEF SourceTypes

\* A relation that is not there has a shape as well.
LEMMA AbsentShape == IsShape(Absent) /\ IsCatalog(Nowhere)
<1>1. IsShape(Absent)
  BY DEF IsShape, Absent, NoCols
<1> QED
  BY <1>1 DEF IsCatalog, Nowhere

\* What the preflight makes of a shape.
LEMMA ShapeRead ==
  ASSUME NEW s, IsShape(s)
  PROVE  /\ IsShape([Absent EXCEPT !.kind = s.kind, !.rls = s.rls])
         /\ \A r : IsShape(r) => IsShape([r EXCEPT !.cols = s.cols])
<1>1. IsShape([Absent EXCEPT !.kind = s.kind, !.rls = s.rls])
  <2>1. ASSUME NEW r, IsShape(r), NEW kind, NEW rls
        PROVE  [r EXCEPT !.kind = kind, !.rls = rls] =
                 [kind |-> kind, cols |-> r.cols, rls |-> rls,
                  readable |-> r.readable, refs |-> r.refs]
    <3> DEFINE q == [r EXCEPT !.kind = kind]
    <3>1. q = [kind |-> kind, cols |-> r.cols, rls |-> r.rls,
               readable |-> r.readable, refs |-> r.refs]
      BY <2>1 DEF IsShape
    <3>2. [r EXCEPT !.kind = kind, !.rls = rls] = [q EXCEPT !.rls = rls]
      OBVIOUS
    <3> HIDE DEF q
    <3>3. [q EXCEPT !.rls = rls] =
            [kind |-> q.kind, cols |-> q.cols, rls |-> rls,
             readable |-> q.readable, refs |-> q.refs]
      BY <3>1
    <3> QED
      BY <3>1, <3>2, <3>3
  <2>2. [Absent EXCEPT !.kind = s.kind, !.rls = s.rls] =
          [kind |-> s.kind, cols |-> Absent.cols, rls |-> s.rls,
           readable |-> Absent.readable, refs |-> Absent.refs]
    BY <2>1, AbsentShape
  <2> QED
    BY <2>2, AbsentShape DEF IsShape
<1>2. ASSUME NEW r, IsShape(r) PROVE IsShape([r EXCEPT !.cols = s.cols])
  <2>1. [r EXCEPT !.cols = s.cols] =
          [kind |-> r.kind, cols |-> s.cols, rls |-> r.rls, readable |-> r.readable,
           refs |-> r.refs]
    BY <1>2 DEF IsShape
  <2> QED
    BY <1>2, <2>1 DEF IsShape
<1> QED
  BY <1>1, <1>2

-----------------------------------------------------------------------------
\* A step of the source.
LEMMA SourceTypesStep == SourceTypes /\ SourceNext => SourceTypes'
<1> SUFFICES ASSUME SourceTypes, SourceNext PROVE SourceTypes'
  OBVIOUS
<1> DEFINE above == Above(FirstRows)
<1>0. above \in Nat /\ MaxChanges \in Nat /\ MaxInserts \in Nat
  BY RowsBounded, BoundsAssumption
<1>1. \A t \in Tables : last[t] <= above + used.inserts
  BY DEF SourceTypes
<1> HIDE DEF above
<1>2. ASSUME NEW t \in Tables, NEW shape \in Shapes[t], Change(t, shape) PROVE SourceTypes'
  <2>1. IsCatalog(catalog')
    <3>1. IsShape(shape) /\ catalog' = [catalog EXCEPT ![t] = shape]
      BY <1>2, SourcesAssumption DEF Change
    <3> QED
      BY <3>1 DEF SourceTypes, IsCatalog
  <2>2. /\ used' \in [changes : 0 .. MaxChanges, inserts : 0 .. MaxInserts]
        /\ used'.inserts = used.inserts
    BY <1>0, <1>2 DEF Change, SourceTypes
  <2>3. gone' \in SUBSET Tables
    BY <1>2 DEF Change, Loses, SourceTypes
  <2>4. \/ rows' = rows /\ last' = last
        \/ rows' = [rows EXCEPT ![t] = {}] /\ last' = [last EXCEPT ![t] = 0]
    BY <1>2 DEF Change
  <2>5. /\ rows' \in [Tables -> SUBSET Nat] /\ last' \in [Tables -> Nat]
        /\ \A s \in Tables : rows'[s] \subseteq 1 .. last'[s] /\ last'[s] <= last[s]
    BY <2>4 DEF SourceTypes
  <2>6. \A s \in Tables : last'[s] <= above + used'.inserts
    BY <1>0, <1>1, <2>2, <2>5 DEF SourceTypes
  <2> QED
    BY <2>1, <2>2, <2>3, <2>5, <2>6 DEF SourceTypes, above
<1>3. ASSUME NEW S \in SUBSET Tables, NEW restarts \in BOOLEAN, Truncate(S, restarts)
      PROVE  SourceTypes'
  <2>2. /\ used' \in [changes : 0 .. MaxChanges, inserts : 0 .. MaxInserts]
        /\ used'.inserts = used.inserts
    BY <1>0, <1>3 DEF Truncate, SourceTypes
  <2>3. gone' \in SUBSET Tables /\ catalog' = catalog
    BY <1>3 DEF Truncate, Loses, SourceTypes
  <2>4. /\ rows' = [t \in Tables |-> IF t \in S THEN {} ELSE rows[t]]
        /\ last' = [t \in Tables |-> IF t \in S /\ restarts THEN 0 ELSE last[t]]
    BY <1>3 DEF Truncate
  <2>5. /\ rows' \in [Tables -> SUBSET Nat] /\ last' \in [Tables -> Nat]
        /\ \A s \in Tables : rows'[s] \subseteq 1 .. last'[s] /\ last'[s] <= last[s]
    BY <2>4 DEF SourceTypes
  <2>6. \A s \in Tables : last'[s] <= above + used'.inserts
    BY <1>0, <1>1, <2>2, <2>5 DEF SourceTypes
  <2> QED
    BY <2>2, <2>3, <2>5, <2>6 DEF SourceTypes, above
<1>4. ASSUME NEW t \in Tables, NEW commits \in BOOLEAN, Insert(t, commits)
      PROVE  SourceTypes'
  <2>1. UNCHANGED <<catalog, gone>>
    BY <1>4 DEF Insert
  <2>2. /\ used' \in [changes : 0 .. MaxChanges, inserts : 0 .. MaxInserts]
        /\ used'.inserts = used.inserts + 1 /\ used.inserts \in Nat
    BY <1>0, <1>4 DEF Insert, SourceTypes
  <2>3. /\ last' = [last EXCEPT ![t] = @ + 1]
        /\ rows' = rows \/ rows' = [rows EXCEPT ![t] = @ \cup {last[t] + 1}]
    BY <1>4 DEF Insert
  <2>4. /\ last' \in [Tables -> Nat]
        /\ \A s \in Tables : last[s] <= last'[s] /\ last'[s] <= last[s] + 1
    BY <2>3 DEF SourceTypes
  <2>5. /\ rows' \in [Tables -> SUBSET Nat]
        /\ \A s \in Tables : rows'[s] \subseteq 1 .. last'[s]
    BY <2>3 DEF SourceTypes
  <2>6. \A s \in Tables : last'[s] <= above + used'.inserts
    BY <1>0, <1>1, <2>2, <2>4 DEF SourceTypes
  <2> QED
    BY <2>1, <2>2, <2>4, <2>5, <2>6 DEF SourceTypes, above
<1> QED
  BY <1>2, <1>3, <1>4 DEF SourceNext

\* What the transaction still sees are rows of the source.
LEMMA VisibleRows ==
  ASSUME ViewTypes, NEW t \in Tables
  PROVE  Visible(t) \in Rows
  BY DEF ViewTypes, Visible, Rows

\* A position is neither below 1 nor above the rows.
LEMMA PositionTyped ==
  ASSUME SourceTypes, NEW t \in Tables
  PROVE  Position(t) \in PositionType
<1>1. MaxRow \in Nat \ {0}
  BY RowsBounded
<1>2. NeverCalled \in PositionType
  BY <1>1 DEF NeverCalled, PositionType
<1>3. \A n \in 1 .. MaxRow : Called(n) \in PositionType
  BY DEF Called, PositionType
<1>4. last[t] # 0 => last[t] \in 1 .. MaxRow
  BY SourceRows
<1> QED
  BY <1>2, <1>3, <1>4 DEF Position

\* A step of the snapshot.
LEMMA SnapshotTypesStep ==
  ASSUME Inv, Types, SnapshotNext, UNCHANGED rebuildVars PROVE Types'
<1> USE DEF Types
<1>1. UNCHANGED sourceVars
  BY DEF SnapshotNext, Start, ReadTables, AttachColumns, ReadUnreadable, ReadExemptions,
         Reads, MakePlan, CheckReports, OpenView, DumpSchema, ReadSequences, Copy,
         PutManifest, Fail
<1>2. SourceTypes' /\ RebuildTypes'
  BY <1>1 DEF SourceTypes, RebuildTypes, sourceVars, rebuildVars
<1>3. CASE \/ Start \/ ReadTables \/ AttachColumns \/ ReadUnreadable \/ ReadExemptions
           \/ MakePlan \/ CheckReports
  <2>1. UNCHANGED <<view, schema, entries, positions, steady>>
    BY <1>3 DEF Start, ReadTables, AttachColumns, ReadUnreadable, ReadExemptions,
                Reads, MakePlan, CheckReports
  <2>2. ViewTypes'
    BY <2>1 DEF ViewTypes
  <2>3. CASE ReadTables
    <3>1. /\ seen' = [seen EXCEPT !.tables =
                [t \in Tables |-> IF Relation(catalog[t])
                                    THEN [Absent EXCEPT !.kind = catalog[t].kind,
                                                        !.rls = catalog[t].rls]
                                    ELSE Absent]]
          /\ plan' = plan
      BY <2>3 DEF ReadTables, Reads
    <3>2. \A t \in Tables : IsShape([Absent EXCEPT !.kind = catalog[t].kind,
                                                   !.rls = catalog[t].rls])
      BY ShapeRead DEF SourceTypes, IsCatalog
    <3> HIDE DEF Absent
    <3>3. IsCatalog(seen'.tables)
      BY <3>1, <3>2, AbsentShape DEF ReadTypes, IsCatalog
    <3> QED
      BY <1>2, <2>2, <3>1, <3>3 DEF ReadTypes
  <2>4. CASE AttachColumns
    <3>1. /\ seen' = [seen EXCEPT !.tables =
                [t \in Tables |-> IF Relation(@[t]) /\ Relation(catalog[t])
                                    THEN [@[t] EXCEPT !.cols = catalog[t].cols]
                                    ELSE @[t]]]
          /\ plan' = plan
      BY <2>4 DEF AttachColumns, Reads
    <3>2. \A t \in Tables : /\ IsShape(seen.tables[t])
                            /\ IsShape([seen.tables[t] EXCEPT !.cols = catalog[t].cols])
      BY ShapeRead DEF SourceTypes, ReadTypes, IsCatalog
    <3>3. IsCatalog(seen'.tables)
      BY <3>1, <3>2 DEF ReadTypes, IsCatalog
    <3> QED
      BY <1>2, <2>2, <3>1, <3>3 DEF ReadTypes
  <2>5. CASE ReadUnreadable \/ ReadExemptions
    BY <1>2, <2>2, <2>5 DEF ReadUnreadable, ReadExemptions, Reads, ReadTypes
  <2>6. CASE MakePlan
    <3>1. seen' = NothingSeen /\ (plan' = plan \/ plan' = Planned)
      BY <2>6 DEF MakePlan
    <3>2. DOMAIN Planned \subseteq Tables
      BY DEF Planned, Projected, Exportable
    <3> QED
      BY <1>2, <2>2, <3>1, <3>2, AbsentShape DEF ReadTypes, NothingSeen
  <2>7. CASE Start \/ CheckReports
    BY <1>2, <2>2, <2>7 DEF Start, CheckReports, Reads, ReadTypes
  <2> QED
    BY <1>3, <2>3, <2>4, <2>5, <2>6, <2>7
<1>4. CASE OpenView \/ DumpSchema \/ ReadSequences \/ PutManifest \/ Fail
           \/ \E t \in Tables : Copy(t)
  <2>1. UNCHANGED <<seen, plan, steady>>
    BY <1>4 DEF OpenView, DumpSchema, ReadSequences, PutManifest, Fail, Copy
  <2>2. ReadTypes'
    BY <2>1 DEF ReadTypes
  <2>3. ASSUME OpenView PROVE ViewTypes'
    BY <2>1, <2>3, SourceRows DEF OpenView, ViewTypes, SourceTypes
  <2>4. ASSUME DumpSchema PROVE ViewTypes'
    BY <2>1, <2>4, AbsentShape DEF DumpSchema, ViewTypes, IsCatalog
  <2>5. ASSUME ReadSequences PROVE ViewTypes'
    BY <2>1, <2>5, PositionTyped DEF ReadSequences, ViewTypes, Sequenced
  <2>6. ASSUME NEW t \in Tables, Copy(t) PROVE ViewTypes'
    <3>1. UNCHANGED <<view, schema, positions>>
      BY <2>6 DEF Copy
    <3>2. CASE entries' = entries
      BY <2>1, <3>1, <3>2 DEF ViewTypes
    <3>3. CASE entries' # entries
      <4>1. PICK exported \in SUBSET Visible(t) : Copied(t, exported)
        BY <2>6, <3>3, CopySees
      <4>2. exported \in Rows
        BY VisibleRows DEF Rows
      <4> QED
        BY <2>1, <3>1, <4>1, <4>2 DEF Copied, Entry, ViewTypes
    <3> QED
      BY <3>2, <3>3
  <2>7. ASSUME PutManifest \/ Fail PROVE ViewTypes'
    BY <2>1, <2>7 DEF PutManifest, Fail, ViewTypes
  <2> QED
    BY <1>2, <1>4, <2>2, <2>3, <2>4, <2>5, <2>6, <2>7
<1> QED
  BY <1>3, <1>4 DEF SnapshotNext

\* A step of the restore.
LEMMA RebuildTypesStep == Types /\ RebuildNext => Types'
<1> SUFFICES ASSUME Types, RebuildNext PROVE Types'
  OBVIOUS
<1> USE DEF Types
<1>1. UNCHANGED planVars
  BY DEF RebuildNext, RestoreSchema, Load, ApplySequences, RestoreConstraints, Goes
<1>2. SourceTypes' /\ ReadTypes' /\ ViewTypes'
  BY <1>1 DEF SourceTypes, ReadTypes, ViewTypes, planVars, sourceVars
<1>3. MaxRow \in Nat \ {0}
  BY RowsBounded
<1>4. CASE RestoreSchema \/ RestoreConstraints
  BY <1>2, <1>4 DEF RestoreSchema, RestoreConstraints, Goes, RebuildTypes
<1>5. CASE Load
  BY <1>2, <1>5 DEF Load, Loaded, Goes, RebuildTypes, ViewTypes, Rows
<1>6. CASE ApplySequences
  <2>1. /\ step' \in {"constraints", "broken"} /\ UNCHANGED built
        /\ next' = [t \in Tables |-> IF t \notin DOMAIN positions THEN next[t]
                                     ELSE After(positions[t])]
    BY <1>6 DEF ApplySequences, Goes, After
  <2>2. \A t \in DOMAIN positions : After(positions[t]) \in 1 .. MaxRow + 1
    BY <1>3 DEF ViewTypes, PositionType, After
  <2> QED
    BY <1>2, <2>1, <2>2 DEF RebuildTypes
<1> QED
  BY <1>4, <1>5, <1>6 DEF RebuildNext

\* The types hold at the start.
LEMMA InitTypes == ContentInit => Types
<1> SUFFICES ASSUME ContentInit PROVE Types
  OBVIOUS
<1> DEFINE above == Above(FirstRows)
<1>1. /\ above \in Nat /\ FirstRows \subseteq 1 .. above
      /\ MaxRow \in Nat \ {0} /\ MaxChanges \in Nat /\ MaxInserts \in Nat
  BY RowsBounded, BoundsAssumption
<1>2. /\ catalog \in Sources /\ rows = FirstContent(catalog) /\ gone = {}
      /\ last = [t \in Tables |-> IF catalog[t].kind = "r" THEN above ELSE 0]
      /\ used = [changes |-> 0, inserts |-> 0]
  BY DEF ContentInit, Init
<1> HIDE DEF above
<1>3. /\ rows \in [Tables -> SUBSET Nat] /\ last \in [Tables -> Nat]
      /\ \A t \in Tables : rows[t] \subseteq 1 .. last[t] /\ last[t] <= above + used.inserts
  BY <1>1, <1>2 DEF FirstContent
<1>4. SourceTypes
  BY <1>1, <1>2, <1>3, SourcesAssumption DEF SourceTypes, above
<1>5. ReadTypes
  BY AbsentShape DEF ContentInit, Init, NothingSeen, NoTables, ReadTypes
<1>6. ViewTypes
  BY AbsentShape DEF ContentInit, Init, NoTables, ViewTypes, Rows
<1>7. RebuildTypes
  BY <1>1 DEF ContentInit, RebuildInit, RebuildTypes, Rows
<1> QED
  BY <1>4, <1>5, <1>6, <1>7 DEF Types

LEMMA TypesStep == Inv /\ Types /\ [Next]_vars => Types'
<1> SUFFICES ASSUME Inv, Types, [Next]_vars PROVE Types'
  OBVIOUS
<1>1. CASE SourceNext /\ UNCHANGED rebuildVars
  <2>1. /\ UNCHANGED <<config, phase, seen, plan, view, schema, entries, positions>>
        /\ steady' \in BOOLEAN
    BY <1>1 DEF SourceNext, Change, Truncate, Insert, Types, ViewTypes
  <2> QED
    BY <1>1, <2>1, SourceTypesStep
       DEF Types, ReadTypes, ViewTypes, RebuildTypes, rebuildVars
<1>2. CASE UNCHANGED vars
  BY <1>2 DEF Types, SourceTypes, ReadTypes, ViewTypes, RebuildTypes, vars, planVars,
              sourceVars, rebuildVars
<1> QED
  BY <1>1, <1>2, SnapshotTypesStep, RebuildTypesStep DEF Next, PlanNext

\* Well-formedness, whatever the source and its migrations are: what was read,
\* planned, copied and built are catalogs, projections and rows of the source.
THEOREM ContentTypes == Spec => []TypeOK
<1>1. Inv /\ Types => TypeOK
  <2> SUFFICES ASSUME Inv, Types PROVE TypeOK
    OBVIOUS
  <2> QED
    BY SourceRows DEF Types, SourceTypes, ReadTypes, ViewTypes, RebuildTypes, Inv,
       RulesInv, EntriesInv, TypeOK
<1> QED
  BY <1>1, InvKept, InitTypes, TypesStep, PTL DEF Spec

-----------------------------------------------------------------------------
(***************************************************************************)
(* Why the preflight suffices: of a source that nothing has changed, it    *)
(* has read what the server looks at later, but for what is Overlooked.    *)
(***************************************************************************)

\* What was read of the privileges and of the policies is still so.
ReadAsIs ==
  /\ phase \in Reading =>
       \A t \in Tables : Relation(catalog[t]) => seen.tables[t].rls = catalog[t].rls
  /\ phase \in {"exemptions", "dependents"} =>
       seen.unreadable = {t \in Tables : catalog[t].kind = "r" /\ ~catalog[t].readable}
  /\ phase = "dependents" =>
       seen.exempt = {t \in Tables : /\ catalog[t].kind = "r" /\ catalog[t].rls # "off"
                                     /\ t \in Member \/ BypassRls}

\* The plan has only tables that the role can export, as far as was looked.
Cleared ==
  \A t \in DOMAIN plan :
    /\ plan[t].skipped = SkipsData(ConfigFor(config, t).mode)
    /\ ~plan[t].excluded => catalog[t].readable
    /\ ~plan[t].skipped =>
         /\ ~plan[t].excluded
         /\ catalog[t].rls # "off" => t \in Member \/ BypassRls

CalmInv ==
  used.changes = 0 =>
    /\ steady
    /\ ReadAsIs
    /\ phase \in Viewed => view.catalog = catalog
    /\ phase \in Decided => Cleared
    /\ phase = "failed" => Overlooked

PreflightInv == Inv /\ SteadyInv /\ Types /\ CalmInv

\* The plan that is made has no findings.
LEMMA PlanCleared ==
  ASSUME PreflightInv, MakePlan, used.changes = 0, phase' = "reports"
  PROVE  Cleared'
<1>1. /\ phase = "dependents" /\ Findings = {} /\ ~PlanErrors /\ plan' = Planned
      /\ UNCHANGED <<catalog, config>>
  BY DEF MakePlan, sourceVars
<1>2. steady /\ ReadAsIs
  BY DEF PreflightInv, CalmInv
<1> SUFFICES ASSUME NEW t \in Projected
             PROVE  /\ Planned[t].skipped = SkipsData(ConfigFor(config, t).mode)
                    /\ ~Planned[t].excluded => catalog[t].readable
                    /\ ~Planned[t].skipped =>
                         /\ ~Planned[t].excluded
                         /\ catalog[t].rls # "off" => t \in Member \/ BypassRls
  BY <1>1 DEF Cleared, Planned
<1>3. /\ Planned[t].skipped = SkipsData(ConfigFor(config, t).mode)
      /\ Planned[t].excluded = (ConfigFor(config, t).mode = "skip")
  BY DEF Planned, Projection
<1>4. t \in Tables /\ seen.tables[t].kind = "r"
  BY DEF Projected, Exportable
<1>5. catalog[t].kind = "r"
  BY <1>1, <1>2, <1>4 DEF PreflightInv, SteadyInv, Reading, KindRead, Relation
<1>6. ~Planned[t].excluded => catalog[t].readable
  <2> SUFFICES ASSUME ~Planned[t].excluded PROVE catalog[t].readable
    OBVIOUS
  <2>1. t \notin Excluded
    BY <1>3 DEF Excluded
  <2>2. t \notin seen.unreadable
    BY <1>1, <2>1 DEF Findings
  <2> QED
    BY <1>1, <1>2, <1>4, <1>5, <2>2 DEF ReadAsIs
<1>7. ~Planned[t].skipped =>
        /\ ~Planned[t].excluded
        /\ catalog[t].rls # "off" => t \in Member \/ BypassRls
  <2> SUFFICES ASSUME ~Planned[t].skipped
               PROVE  /\ ~Planned[t].excluded
                      /\ catalog[t].rls # "off" => t \in Member \/ BypassRls
    OBVIOUS
  <2>1. t \notin Excluded /\ ~Planned[t].excluded
    BY <1>3 DEF Excluded, SkipsData
  <2>2. seen.tables[t].rls # "off" => t \in seen.exempt
    BY <1>1, <1>3, <2>1 DEF Findings
  <2>3. seen.tables[t].rls = catalog[t].rls
    BY <1>1, <1>2, <1>4, <1>5 DEF ReadAsIs, Reading, Relation
  <2> QED
    BY <1>1, <1>2, <2>1, <2>2, <2>3 DEF ReadAsIs
<1> QED
  BY <1>3, <1>6, <1>7

\* What the server refuses afterwards was overlooked.
LEMMA RefusedUnseen ==
  ASSUME PreflightInv, used.changes = 0, phase' = "failed",
         DumpSchema \/ \E t \in Tables : Copy(t)
  PROVE  Overlooked
<1>1. /\ steady /\ view.catalog = catalog /\ Cleared /\ PlanOf(view.catalog)
      /\ IsCatalog(catalog)
  BY DEF PreflightInv, CalmInv, SteadyInv, Viewed, Decided, DumpSchema, Copy,
         Types, SourceTypes
<1>2. ASSUME NEW t \in DOMAIN plan, ~plan[t].skipped, ~CanRead(t) PROVE Overlooked
  <2>1. t \in Tables /\ catalog[t].kind = "r"
    BY <1>1 DEF PlanOf
  <2>2. catalog[t].readable /\ (catalog[t].rls # "off" => t \in Member \/ BypassRls)
    BY <1>1, <1>2 DEF Cleared
  <2>3. Filtered(t)
    BY <1>2, <2>1, <2>2 DEF CanRead
  <2> QED
    BY <2>1, <2>2, <2>3 DEF Filtered, Overlooked
<1>3. CASE DumpSchema
  <2>1. PICK t \in Tables : /\ Dumped(t) /\ Relation(view.catalog[t])
                            /\ ~(Relation(catalog[t]) /\ catalog[t].readable)
    BY <1>3 DEF DumpSchema
  <2>2. ~catalog[t].readable
    BY <1>1, <2>1
  <2>3. CASE catalog[t].kind = "p"
    BY <2>2, <2>3 DEF Overlooked
  <2>4. CASE catalog[t].kind = "r"
    <3>1. t \in DOMAIN plan
      BY <1>1, <2>4 DEF PlanOf
    <3> QED
      BY <1>1, <2>1, <2>2, <3>1 DEF Dumped, Cleared
  <2> QED
    BY <1>1, <2>1, <2>3, <2>4 DEF Relation
<1>4. ASSUME NEW t \in Tables, Copy(t) PROVE Overlooked
  <2>1. /\ t \in DOMAIN plan /\ ~plan[t].skipped
        /\ ~CanRead(t) \/ ~(plan[t].columns \subseteq DOMAIN catalog[t].cols)
    BY <1>4 DEF Copy
  <2>2. plan[t].columns \subseteq DOMAIN catalog[t].cols
    BY <1>1, <2>1 DEF PlanOf, Exported
  <2> QED
    BY <1>2, <2>1, <2>2
<1> QED
  BY <1>3, <1>4

LEMMA CalmStep == PreflightInv /\ [Next]_vars => CalmInv'
<1> SUFFICES ASSUME PreflightInv, [Next]_vars, used'.changes = 0 PROVE CalmInv'
  BY DEF CalmInv
<1>1. used.changes = 0 /\ UNCHANGED catalog /\ steady' = steady
  <2>1. used.changes \in Nat /\ used \in [changes : 0 .. MaxChanges, inserts : 0 .. MaxInserts]
    BY BoundsAssumption DEF PreflightInv, Types, SourceTypes
  <2>2. CASE SourceNext
    <3>1. used' # [used EXCEPT !.changes = @ + 1]
      BY <2>1
    <3> QED
      BY <2>1, <2>2, <3>1 DEF SourceNext, Change, Truncate, Insert
  <2>3. CASE SnapshotNext
    BY <2>3 DEF SnapshotNext, Start, ReadTables, AttachColumns, ReadUnreadable,
         ReadExemptions, Reads, MakePlan, CheckReports, OpenView, DumpSchema,
         ReadSequences, Copy, PutManifest, Fail, sourceVars
  <2>4. CASE RebuildNext \/ UNCHANGED vars
    BY <2>4 DEF RebuildNext, RestoreSchema, Load, ApplySequences, RestoreConstraints,
         Goes, planVars, sourceVars, vars
  <2> QED
    BY <2>2, <2>3, <2>4 DEF Next, PlanNext
<1>2. /\ steady /\ ReadAsIs
      /\ phase \in Viewed => view.catalog = catalog
      /\ phase \in Decided => Cleared
      /\ phase = "failed" => Overlooked
  BY <1>1 DEF PreflightInv, CalmInv
<1>3. CASE ReadTables \/ AttachColumns \/ ReadUnreadable \/ ReadExemptions
  <2>1. /\ phase' \in Reading /\ phase' \notin Decided /\ phase' \notin Viewed
        /\ phase' # "failed"
    BY <1>3 DEF ReadTables, AttachColumns, ReadUnreadable, ReadExemptions, Reads,
                Reading, Decided, Viewed
  <2>2. ReadAsIs'
    <3>1. CASE ReadTables
      <4>1. /\ phase' = "columns"
            /\ \A t \in Tables : Relation(catalog[t]) =>
                 seen'.tables[t] = [Absent EXCEPT !.kind = catalog[t].kind,
                                                  !.rls = catalog[t].rls]
        BY <3>1 DEF ReadTables, Reads, PreflightInv, SteadyInv
      <4> QED
        BY <1>1, <4>1 DEF ReadAsIs, Absent
    <3>2. CASE AttachColumns
      <4>1. /\ phase' = "unreadable" /\ phase = "columns"
            /\ \A t \in Tables :
                 seen'.tables[t] =
                   IF Relation(seen.tables[t]) /\ Relation(catalog[t])
                     THEN [seen.tables[t] EXCEPT !.cols = catalog[t].cols]
                     ELSE seen.tables[t]
        BY <3>2 DEF AttachColumns, Reads, PreflightInv, SteadyInv
      <4>2. \A t \in Tables : seen'.tables[t].rls = seen.tables[t].rls
        BY <4>1 DEF PreflightInv, SteadyInv
      <4> QED
        BY <1>1, <1>2, <4>1, <4>2 DEF ReadAsIs, Reading
    <3>3. CASE ReadUnreadable
      BY <1>1, <1>2, <3>3 DEF ReadUnreadable, Reads, ReadAsIs, Reading, PreflightInv,
         SteadyInv
    <3>4. CASE ReadExemptions
      BY <1>1, <1>2, <3>4 DEF ReadExemptions, Reads, ReadAsIs, Reading, PreflightInv,
         SteadyInv
    <3> QED
      BY <1>3, <3>1, <3>2, <3>3, <3>4
  <2> QED
    BY <1>1, <1>2, <2>1, <2>2 DEF CalmInv
<1>4. CASE MakePlan
  <2>1. /\ phase' \in {"reports", "refused"}
        /\ phase' = "reports" => Cleared'
    BY <1>1, <1>4, PlanCleared DEF MakePlan
  <2> QED
    BY <1>1, <1>2, <2>1 DEF CalmInv, ReadAsIs, Reading, Decided, Viewed
<1>5. CASE OpenView \/ DumpSchema \/ ReadSequences \/ \E t \in Tables : Copy(t)
  <2>1. /\ UNCHANGED <<plan, config>> /\ phase \in Decided
        /\ phase' \in Viewed \cup {"failed"}
        /\ phase' \in Viewed => view'.catalog = catalog
    <3>1. CASE OpenView
      BY <3>1 DEF OpenView, Viewed, Decided
    <3>2. CASE DumpSchema \/ ReadSequences \/ \E t \in Tables : Copy(t)
      <4>1. /\ UNCHANGED <<plan, config, view>>
            /\ phase \in Viewed /\ phase' \in Viewed \cup {"failed"}
        BY <3>2 DEF DumpSchema, ReadSequences, Copy, Viewed
      <4> QED
        BY <1>2, <4>1 DEF Decided
    <3> QED
      BY <1>5, <3>1, <3>2
  <2>2. phase' = "failed" => Overlooked'
    <3>1. phase' = "failed" => Overlooked
      BY <1>1, <1>5, RefusedUnseen DEF OpenView, ReadSequences
    <3> QED
      BY <1>1, <2>1, <3>1 DEF Overlooked
  <2>3. Cleared'
    BY <1>1, <1>2, <2>1 DEF Cleared
  <2> QED
    BY <1>1, <1>2, <2>1, <2>2, <2>3 DEF CalmInv, ReadAsIs, Reading, Decided, Viewed
<1>6. CASE Start \/ CheckReports \/ PutManifest \/ Fail
  <2>1. /\ UNCHANGED <<plan, config, view>>
        /\ phase' \notin Reading \cup {"failed"}
        /\ phase' \in Decided => phase \in Decided
        /\ phase' \in Viewed => phase \in Viewed
    BY <1>6 DEF Start, CheckReports, Reads, PutManifest, Fail, Reading, Decided, Viewed
  <2> QED
    BY <1>1, <1>2, <2>1 DEF CalmInv, ReadAsIs, Reading, Cleared
<1>7. CASE SourceNext \/ RebuildNext \/ UNCHANGED vars
  <2>1. UNCHANGED <<config, phase, seen, plan, view>>
    BY <1>7 DEF SourceNext, Change, Truncate, Insert, RebuildNext, RestoreSchema, Load,
         ApplySequences, RestoreConstraints, Goes, planVars, vars
  <2>2. Overlooked' <=> Overlooked
    BY <1>1, <2>1 DEF Overlooked
  <2> QED
    BY <1>1, <1>2, <2>1, <2>2 DEF CalmInv, ReadAsIs, Reading, Cleared
<1> QED
  BY <1>3, <1>4, <1>5, <1>6, <1>7 DEF Next, PlanNext, SnapshotNext

\* "Preflight decides whether a snapshot can run": what nothing has changed is
\* refused later only for what the preflight does not look at.
THEOREM PreflightIsEnough == Spec => []PreflightSuffices
<1>1. ContentInit => CalmInv
  BY DEF ContentInit, Init, CalmInv, ReadAsIs, Reading, Decided, Viewed
<1>2. PreflightInv => PreflightSuffices
  <2> SUFFICES ASSUME PreflightInv, phase = "failed", ~(used.changes > 0)
               PROVE  Overlooked
    BY DEF PreflightSuffices
  <2>1. used.changes = 0
    BY BoundsAssumption DEF PreflightInv, Types, SourceTypes
  <2> QED
    BY <2>1 DEF PreflightInv, CalmInv
<1>3. ContentInit => PreflightInv
  BY <1>1, InitTypes, InitPlanned DEF PreflightInv
<1>4. PreflightInv /\ [Next]_vars => PreflightInv'
  BY CalmStep, TypesStep, SteadyStep, RulesStep, EntriesStep DEF PreflightInv, Inv
<1> QED
  BY <1>2, <1>3, <1>4, PTL DEF Spec

-----------------------------------------------------------------------------
(***************************************************************************)
(* Why what was published can be restored: the foreign keys of the source  *)
(* hold in every view of it, the plan leaves out nothing that another      *)
(* table needs, and every transform was rendered for the column that it    *)
(* is loaded into.                                                         *)
(***************************************************************************)

TransformsFit(cat) ==
  \A t \in DOMAIN plan : \A c \in DOMAIN plan[t].transforms :
    Takes(cat[t].cols[c], plan[t].transforms[c])

LeavesOut(t) == t \in DOMAIN plan /\ plan[t].excluded

NoneDepends(cat) ==
  \A t \in Tables : LeavesOut(t) \/ \A d \in cat[t].refs : ~LeavesOut(d)

KeysInv ==
  /\ Consistent(catalog, rows)
  /\ phase \in Viewed => Consistent(view.catalog, view.rows)
  /\ \A t \in DOMAIN plan : plan[t].tail \in Nat
  /\ \A t \in DOMAIN entries : entries[t].rows \subseteq view.rows[t]
  /\ steady =>
       /\ phase \in {"reports", "open"} => TransformsFit(catalog) /\ NoneDepends(catalog)
       /\ phase \in Viewed => TransformsFit(view.catalog) /\ NoneDepends(view.catalog)

\* What Restorable excuses.
Excused ==
  \/ ~steady
  \/ gone # {}
  \/ Orphans
  \/ \E t \in DOMAIN entries : Raw(t)
  \/ \E t \in DOMAIN positions \cap Identity : schema[t].kind = "none"

StepsInv ==
  /\ phase # "published" => step = "schema"
  /\ step \in {"sequences", "constraints"} =>
       built = [t \in Tables |-> IF t \in Loaded THEN entries[t].rows ELSE {}]
  /\ step = "broken" => Excused

PlannedInv == Inv /\ SteadyInv /\ DumpInv /\ Types
RestoreInv == PlannedInv /\ KeysInv /\ StepsInv

\* A transform that renders for a column produces what the column takes.
LEMMA RenderedIsTaken ==
  ASSUME NEW col \in Attribute, NEW transform \in Transforms \ {"blank"},
         Renders(col, transform)
  PROVE  Takes(col, [expr |-> transform, length |-> Length(col, transform)])
<1>1. col.maxLen \in Int
  BY DEF Attribute
<1>2. CASE transform \in {"null", "raw"}
  BY <1>2 DEF Renders, Takes
<1>3. CASE transform \in {"md5", "redact"}
  <2>1. col.textual
    BY <1>3 DEF Renders
  <2>2. col.maxLen > 0 => Length(col, transform) <= col.maxLen
    BY <1>1, <1>3 DEF Length, Fit, Shorter, Md5Length, RedactLength
  <2> QED
    BY <1>3, <2>1, <2>2 DEF Takes
<1>4. CASE transform = "email"
  <2>1. col.textual
    BY <1>4 DEF Renders
  <2>2. col.maxLen > 0 => Length(col, transform) <= col.maxLen
    BY <1>1, <1>4 DEF Length, Shorter, Md5Length, EmailFixed
  <2> QED
    BY <1>4, <2>1, <2>2 DEF Takes
<1> QED
  BY <1>2, <1>3, <1>4 DEF Transforms, Builtins

\* The plan that is made of a source that stands still.
LEMMA PlanKeeps ==
  ASSUME PlannedInv, MakePlan, phase' = "reports"
  PROVE  /\ \A t \in DOMAIN plan' : plan'[t].tail \in Nat
         /\ steady => TransformsFit(catalog)' /\ NoneDepends(catalog)'
<1>1. /\ phase = "dependents" /\ Dependents = {} /\ ~PlanErrors /\ plan' = Planned
      /\ UNCHANGED <<catalog, config>>
  BY DEF MakePlan, sourceVars
<1>2. /\ Valid(config) /\ config \in Configs
  BY <1>1 DEF PlannedInv, Inv, RulesInv, Phases
<1>3. ASSUME NEW t \in Projected
      PROVE  LET tc == ConfigFor(config, t) IN
             /\ ValidTable(tc)
             /\ tc.tail \in Int /\ tc.rules \in [DOMAIN tc.rules -> Transforms]
             /\ Planned[t] = Projection(seen.tables[t].cols, tc)
             /\ Projectable(seen.tables[t].cols, tc)
  <2>1. CASE t \in DOMAIN config.tables
    BY <1>2, <2>1, ConfigsAssumption DEF ConfigFor, Valid, Planned, Projected
  <2>2. CASE t \notin DOMAIN config.tables
    <3>1. ConfigFor(config, t) = NoConfig
      BY <2>2 DEF ConfigFor
    <3>2. /\ ValidTable(NoConfig) /\ NoConfig.tail \in Int
          /\ NoConfig.rules \in [DOMAIN NoConfig.rules -> Transforms]
      BY DEF NoConfig, NoRules, ValidTable, Modes, SkipsData
    <3> QED
      BY <3>1, <3>2 DEF Planned, Projected
  <2> QED
    BY <2>1, <2>2
<1>4. ASSUME NEW t \in Projected PROVE Planned[t].tail \in Nat
  <2> DEFINE tc == ConfigFor(config, t)
  <2>1. /\ ValidTable(tc) /\ tc.tail \in Int
        /\ Planned[t] = Projection(seen.tables[t].cols, tc)
    BY <1>3
  <2> HIDE DEF tc
  <2>2. Planned[t].tail = IF tc.tailed THEN tc.tail ELSE 0
    BY <2>1 DEF Projection
  <2> QED
    BY <2>1, <2>2 DEF ValidTable
<1>5. ASSUME steady PROVE TransformsFit(catalog)'
  <2> SUFFICES ASSUME NEW t \in Projected, NEW c \in DOMAIN Planned[t].transforms
               PROVE  Takes(catalog[t].cols[c], Planned[t].transforms[c])
    BY <1>1 DEF TransformsFit, Planned
  <2> DEFINE tc == ConfigFor(config, t)
             cols == seen.tables[t].cols
  <2>1. /\ c \in DOMAIN tc.rules /\ tc.rules[c] \in Transforms \ {"blank"}
        /\ c \in DOMAIN cols /\ Renders(cols[c], tc.rules[c])
        /\ Planned[t].transforms[c] =
             [expr |-> tc.rules[c], length |-> Length(cols[c], tc.rules[c])]
    <3>1. /\ ValidTable(tc) /\ Projectable(cols, tc)
          /\ tc.rules \in [DOMAIN tc.rules -> Transforms]
          /\ Planned[t] = Projection(cols, tc)
      BY <1>3
    <3> HIDE DEF tc, cols
    <3>2. Planned[t].transforms =
            [r \in DOMAIN tc.rules |->
               [expr |-> tc.rules[r], length |-> Length(cols[r], tc.rules[r])]]
      BY <3>1 DEF Projection
    <3> QED
      BY <3>1, <3>2 DEF Projectable, ValidTable
  <2>2. t \in Tables /\ seen.tables[t].kind = "r"
    BY DEF Projected, Exportable
  <2>3. cols = catalog[t].cols
    BY <1>1, <1>5, <2>2 DEF PlannedInv, SteadyInv, Reading, KindRead, Relation
  <2>4. cols[c] \in Attribute
    BY <2>1, <2>2 DEF PlannedInv, Types, ReadTypes, IsCatalog, IsShape
  <2> HIDE DEF tc, cols
  <2>5. Takes(cols[c], [expr |-> tc.rules[c], length |-> Length(cols[c], tc.rules[c])])
    BY <2>1, <2>4, RenderedIsTaken
  <2> QED
    BY <2>1, <2>3, <2>5
<1>6. NoneDepends(catalog)'
  <2>1. \A t \in Tables : LeavesOut(t)' <=> t \in Excluded
    BY <1>1 DEF LeavesOut, Planned, Projection, Excluded
  <2>2. \A t \in Tables \ Excluded : catalog[t].refs \cap Excluded = {}
    BY <1>1 DEF Dependents
  <2>3. \A t \in Tables : catalog[t].refs \subseteq Tables
    BY DEF PlannedInv, Types, SourceTypes, IsCatalog, IsShape
  <2> QED
    BY <1>1, <2>1, <2>2, <2>3 DEF NoneDepends
<1> QED
  BY <1>1, <1>4, <1>5, <1>6 DEF Planned

\* The foreign keys of the source hold after each of its steps.
LEMMA SourceConsistent ==
  ASSUME SourceTypes, Consistent(catalog, rows), SourceNext
  PROVE  Consistent(catalog', rows')
<1>1. ASSUME NEW S \in SUBSET Tables, NEW restarts \in BOOLEAN, Truncate(S, restarts)
      PROVE  Consistent(catalog', rows')
  <2>1. /\ catalog' = catalog
        /\ \A t \in Tables : rows'[t] = IF t \in S THEN {} ELSE rows[t]
        /\ \A d \in Tables \ S : catalog[d].kind = "r" => catalog[d].refs \cap S = {}
    BY <1>1 DEF Truncate
  <2>2. \A t \in Tables : catalog[t].refs \subseteq Tables
    BY DEF SourceTypes, IsCatalog, IsShape
  <2> QED
    BY <2>1, <2>2 DEF Consistent
<1>2. ASSUME NEW t \in Tables, NEW shape, Change(t, shape)
      PROVE  Consistent(catalog', rows')
  BY <1>2 DEF Change
<1>3. ASSUME NEW t \in Tables, NEW commits \in BOOLEAN, Insert(t, commits)
      PROVE  Consistent(catalog', rows')
  BY <1>3 DEF Insert
<1> QED
  BY <1>1, <1>2, <1>3 DEF SourceNext

LEMMA KeysStep == PlannedInv /\ KeysInv /\ [Next]_vars => KeysInv'
<1> SUFFICES ASSUME PlannedInv, KeysInv, [Next]_vars PROVE KeysInv'
  OBVIOUS
<1>1. CASE SourceNext
  <2>1. UNCHANGED <<plan, phase, view, entries>>
    BY <1>1 DEF SourceNext, Change, Truncate, Insert
  <2>2. steady' => steady /\ (catalog' = catalog \/ phase \notin Before)
    BY <1>1 DEF SourceNext, Change, Truncate, Insert
  <2>3. Consistent(catalog', rows')
    BY <1>1, SourceConsistent DEF KeysInv, PlannedInv, Types
  <2>4. ASSUME steady', phase \in {"reports", "open"}
        PROVE  TransformsFit(catalog)' /\ NoneDepends(catalog)'
    <3>1. catalog' = catalog
      BY <2>2, <2>4 DEF Before
    <3> QED
      BY <2>1, <2>2, <2>4, <3>1 DEF KeysInv, TransformsFit, NoneDepends, LeavesOut
  <2>5. ASSUME steady', phase \in Viewed
        PROVE  TransformsFit(view.catalog)' /\ NoneDepends(view.catalog)'
    BY <2>1, <2>2, <2>5 DEF KeysInv, TransformsFit, NoneDepends, LeavesOut
  <2> QED
    BY <2>1, <2>3, <2>4, <2>5 DEF KeysInv, Consistent
<1>2. CASE MakePlan
  <2>1. /\ UNCHANGED <<catalog, rows, view, entries, steady>>
        /\ phase' \in {"reports", "refused"}
        /\ phase' = "refused" => plan' = plan
    BY <1>2 DEF MakePlan, sourceVars
  <2>2. phase' \notin Viewed /\ phase' # "open"
    BY <2>1 DEF Viewed
  <2>3. /\ Consistent(catalog, rows)'
        /\ (\A t \in DOMAIN entries : entries[t].rows \subseteq view.rows[t])'
    BY <2>1 DEF KeysInv, Consistent
  <2>4. CASE phase' = "refused"
    BY <2>1, <2>2, <2>3, <2>4 DEF KeysInv
  <2>5. CASE phase' = "reports"
    BY <1>2, <2>1, <2>2, <2>3, <2>5, PlanKeeps DEF KeysInv
  <2> QED
    BY <2>1, <2>4, <2>5
<1>3. CASE OpenView
  <2>1. /\ view' = [catalog |-> catalog, rows |-> rows] /\ phase = "open"
        /\ phase' = "schema" /\ UNCHANGED <<catalog, rows, plan, entries, steady>>
    BY <1>3 DEF OpenView, sourceVars
  <2>2. DOMAIN entries = {}
    BY <2>1 DEF PlannedInv, Inv, EntriesInv
  <2> QED
    BY <2>1, <2>2 DEF KeysInv, Consistent, TransformsFit, NoneDepends, LeavesOut, Viewed
<1>4. CASE \/ Start \/ ReadTables \/ AttachColumns \/ ReadUnreadable \/ ReadExemptions
           \/ CheckReports \/ DumpSchema \/ ReadSequences \/ PutManifest \/ Fail
           \/ RebuildNext \/ UNCHANGED vars \/ \E t \in Tables : Copy(t)
  <2>1. UNCHANGED <<catalog, rows, plan, view, steady>>
    BY <1>4 DEF Start, ReadTables, AttachColumns, ReadUnreadable, ReadExemptions, Reads,
                CheckReports, DumpSchema, ReadSequences, PutManifest, Fail, Copy,
                RebuildNext, RestoreSchema, Load, ApplySequences, RestoreConstraints,
                Goes, planVars, sourceVars, vars
  <2>2. /\ phase' \in {"reports", "open"} => phase \in {"reports", "open"}
        /\ phase' \in Viewed => phase \in Viewed
    BY <1>4 DEF Start, ReadTables, AttachColumns, ReadUnreadable, ReadExemptions, Reads,
                CheckReports, DumpSchema, ReadSequences, PutManifest, Fail, Copy,
                RebuildNext, RestoreSchema, Load, ApplySequences, RestoreConstraints,
                Goes, planVars, Viewed, vars
  <2>3. \A t \in DOMAIN entries' : entries'[t].rows \subseteq view.rows[t]
    <3>1. CASE entries' = entries
      BY <3>1 DEF KeysInv
    <3>2. CASE entries' # entries
      <4>1. PICK t \in Tables : Copy(t)
        BY <1>4, <3>2 DEF Start, ReadTables, AttachColumns, ReadUnreadable,
           ReadExemptions, Reads, CheckReports, DumpSchema, ReadSequences, PutManifest,
           Fail, RebuildNext, RestoreSchema, Load, ApplySequences, RestoreConstraints,
           Goes, planVars, vars
      <4>2. PICK exported \in SUBSET Visible(t) : Copied(t, exported)
        BY <3>2, <4>1, CopySees
      <4> QED
        BY <4>2 DEF KeysInv, Copied, Entry, Visible
    <3> QED
      BY <3>1, <3>2
  <2> QED
    BY <2>1, <2>2, <2>3 DEF KeysInv, Consistent, TransformsFit, NoneDepends, LeavesOut
<1> QED
  BY <1>1, <1>2, <1>3, <1>4 DEF Next, PlanNext, SnapshotNext

-----------------------------------------------------------------------------
\* What was published of a source that stood still between preflight and view:
\* the plan and the dump are those of the view.
LEMMA AsViewed ==
  ASSUME RestoreInv, phase = "published", steady
  PROVE  /\ Consistent(view.catalog, view.rows)
         /\ TransformsFit(view.catalog) /\ NoneDepends(view.catalog)
         /\ \A t \in Tables :
              /\ schema[t] = IF view.catalog[t].kind # "none" /\ ~LeavesOut(t)
                               THEN view.catalog[t] ELSE Absent
              /\ IsShape(view.catalog[t])
         /\ DOMAIN entries = {t \in Tables : view.catalog[t].kind = "r"}
         /\ \A t \in DOMAIN entries :
              /\ t \in DOMAIN plan
              /\ entries[t].projection = plan[t] /\ plan[t].tail \in Nat
              /\ ~plan[t].skipped => ~plan[t].excluded
              /\ ~plan[t].skipped => plan[t].columns = Exported(view.catalog[t].cols)
              /\ entries[t].rows \subseteq view.rows[t]
<1>1. /\ Consistent(view.catalog, view.rows)
      /\ TransformsFit(view.catalog) /\ NoneDepends(view.catalog)
  BY DEF RestoreInv, KeysInv, Viewed
<1>2. \A t \in Tables :
        /\ schema[t] = IF view.catalog[t].kind # "none" /\ ~LeavesOut(t)
                         THEN view.catalog[t] ELSE Absent
        /\ IsShape(view.catalog[t])
  BY DEF RestoreInv, PlannedInv, DumpInv, Dumped, LeavesOut, Types, ViewTypes, IsCatalog
<1>3. PlanOf(view.catalog)
  BY DEF RestoreInv, PlannedInv, SteadyInv, Viewed
<1>4. /\ DOMAIN entries = DOMAIN plan
      /\ \A t \in DOMAIN entries : entries[t].projection = plan[t]
      /\ \A t \in DOMAIN plan : plan[t].excluded => plan[t].skipped
      /\ \A t \in DOMAIN plan : plan[t].tail \in Nat
      /\ \A t \in DOMAIN entries : entries[t].rows \subseteq view.rows[t]
  BY DEF RestoreInv, PlannedInv, Inv, EntriesInv, DumpInv, KeysInv
<1> QED
  BY <1>1, <1>2, <1>3, <1>4 DEF PlanOf

\* Of such a snapshot, the first sections have what their views name.
LEMMA SchemaRestored ==
  ASSUME RestoreInv, phase = "published", steady,
         NEW v \in Tables, schema[v].kind = "v", NEW t \in schema[v].refs
  PROVE  schema[t].kind # "none"
<1>1. schema[v] = view.catalog[v] /\ ~LeavesOut(v)
  BY AsViewed DEF Absent
<1>2. t \in Tables /\ view.catalog[t].kind # "none"
  BY <1>1, AsViewed DEF Consistent, IsShape
<1>3. ~LeavesOut(t)
  BY <1>1, AsViewed DEF NoneDepends
<1> QED
  BY <1>2, <1>3, AsViewed

\* The columns that are loaded are there, and take what they are given.
LEMMA EntriesFit ==
  ASSUME RestoreInv, phase = "published", steady, NEW t \in Loaded
  PROVE  Fits(t)
<1>1. /\ t \in DOMAIN entries /\ ~plan[t].skipped /\ t \in Tables
      /\ view.catalog[t].kind = "r" /\ entries[t].projection = plan[t] /\ t \in DOMAIN plan
      /\ plan[t].columns = Exported(view.catalog[t].cols)
  BY AsViewed DEF Loaded
<1>2. schema[t] = view.catalog[t]
  BY <1>1, AsViewed DEF LeavesOut
<1>3. \A c \in DOMAIN plan[t].transforms :
        Takes(schema[t].cols[c], plan[t].transforms[c])
  BY <1>1, <1>2, AsViewed DEF TransformsFit
<1> HIDE DEF Takes
<1> QED
  BY <1>1, <1>2, <1>3 DEF Fits

\* The foreign keys hold in what was loaded, if no rows were lost and none of
\* a parent were left out.
LEMMA KeysRestored ==
  ASSUME RestoreInv, phase = "published", steady, gone = {}, ~Orphans,
         built = [t \in Tables |-> IF t \in Loaded THEN entries[t].rows ELSE {}],
         NEW t \in Tables, schema[t].kind = "r", NEW d \in schema[t].refs
  PROVE  schema[d].kind = "r" /\ built[t] \subseteq built[d]
<1>1. schema[t] = view.catalog[t] /\ ~LeavesOut(t) /\ view.catalog[t].kind = "r"
  BY AsViewed DEF Absent
<1>2. /\ d \in Tables /\ view.catalog[d].kind = "r"
      /\ view.rows[t] \subseteq view.rows[d]
  BY <1>1, AsViewed DEF Consistent, IsShape
<1>3. schema[d].kind = "r"
  BY <1>1, <1>2, AsViewed DEF NoneDepends
<1>4. t \in DOMAIN entries /\ d \in DOMAIN entries
  BY <1>1, <1>2, AsViewed
<1>5. ~plan[d].skipped /\ ~plan[d].where /\ plan[d].tail = 0
  BY <1>4, AsViewed DEF Orphans
<1>6. entries[d].rows = view.rows[d]
  BY <1>4, <1>5 DEF RestoreInv, PlannedInv, Inv, WholeInv
<1>7. built[t] \subseteq view.rows[t]
  BY <1>4, AsViewed
<1>8. built[d] = view.rows[d]
  BY <1>2, <1>4, <1>5, <1>6 DEF Loaded
<1> QED
  BY <1>2, <1>3, <1>7, <1>8

LEMMA StepsStep == RestoreInv /\ [Next]_vars => StepsInv'
<1> SUFFICES ASSUME RestoreInv, [Next]_vars PROVE StepsInv'
  OBVIOUS
<1> USE DEF RestoreInv
<1>1. CASE PlanNext /\ UNCHANGED rebuildVars
  <2>1. phase # "published"
    BY <1>1 DEF PlanNext, SourceNext, Change, Truncate, Insert, SnapshotNext, Start,
         ReadTables, AttachColumns, ReadUnreadable, ReadExemptions, Reads, MakePlan,
         CheckReports, OpenView, DumpSchema, ReadSequences, Copy, PutManifest, Fail,
         Running
  <2> QED
    BY <1>1, <2>1 DEF StepsInv, rebuildVars
<1>2. CASE UNCHANGED vars
  BY <1>2 DEF vars, planVars, sourceVars, rebuildVars, StepsInv, Excused, Orphans, Raw,
              Loaded
<1>3. CASE RebuildNext
  <2>1. phase = "published" /\ UNCHANGED planVars
    BY <1>3 DEF RebuildNext, RestoreSchema, Load, ApplySequences, RestoreConstraints, Goes
  <2>2. (Excused' <=> Excused) /\ Loaded' = Loaded
    BY <2>1 DEF planVars, sourceVars, Excused, Orphans, Raw, Loaded
  <2>3. ASSUME RestoreSchema PROVE StepsInv'
    <3>1. /\ step' = IF \A v \in Tables : schema[v].kind = "v" =>
                          \A t \in schema[v].refs : schema[t].kind # "none"
                       THEN "load" ELSE "broken"
      BY <2>3 DEF RestoreSchema, Goes
    <3>2. step' = "broken" => Excused
      BY <2>1, <3>1, SchemaRestored DEF Excused
    <3> QED
      BY <2>1, <2>2, <3>1, <3>2 DEF StepsInv, planVars
  <2>4. ASSUME Load PROVE StepsInv'
    <3>1. /\ step' \in {"sequences", "broken"}
          /\ step' = "broken" => \E t \in Loaded : ~Fits(t) \/ Raw(t)
          /\ built' = [t \in Tables |-> IF t \in Loaded THEN entries[t].rows ELSE {}]
      BY <2>4 DEF Load, Goes
    <3>2. step' = "broken" => Excused
      BY <2>1, <3>1, EntriesFit DEF Excused, Loaded
    <3>3. built' = [t \in Tables |-> IF t \in Loaded' THEN entries'[t].rows ELSE {}]
      BY <2>1, <2>2, <3>1 DEF planVars
    <3> QED
      BY <2>1, <2>2, <3>1, <3>2, <3>3 DEF StepsInv, planVars
  <2>5. ASSUME ApplySequences PROVE StepsInv'
    <3>1. /\ step = "sequences" /\ step' \in {"constraints", "broken"} /\ built' = built
          /\ step' = "broken" => \E t \in DOMAIN positions : ~HasSequence(t)
      BY <2>5 DEF ApplySequences, Goes
    <3>2. step' = "broken" => Excused
      BY <3>1 DEF Excused, HasSequence
    <3> QED
      BY <2>1, <2>2, <3>1, <3>2 DEF StepsInv, planVars
  <2>6. ASSUME RestoreConstraints PROVE StepsInv'
    <3>1. /\ step = "constraints" /\ step' \in {"served", "broken"}
          /\ step' = "broken" => \E t \in Tables : schema[t].kind = "r" /\
               \E d \in schema[t].refs : ~(schema[d].kind = "r" /\ built[t] \subseteq built[d])
      BY <2>6 DEF RestoreConstraints, Goes
    <3>2. built = [t \in Tables |-> IF t \in Loaded THEN entries[t].rows ELSE {}]
      BY <3>1 DEF StepsInv
    <3>3. step' = "broken" => Excused
      BY <2>1, <3>1, <3>2, KeysRestored DEF Excused
    <3> QED
      BY <2>1, <2>2, <3>1, <3>3 DEF StepsInv, planVars
  <2> QED
    BY <1>3, <2>3, <2>4, <2>5, <2>6 DEF RebuildNext
<1> QED
  BY <1>1, <1>2, <1>3 DEF Next

LEMMA RestoreHolds == Spec => []RestoreInv
<1>1. ContentInit => RestoreInv
  <2> SUFFICES ASSUME ContentInit PROVE RestoreInv
    OBVIOUS
  <2>1. Consistent(catalog, rows)
    BY SourcesAssumption DEF ContentInit, Init
  <2>2. KeysInv
    BY <2>1 DEF ContentInit, Init, KeysInv, Viewed, NoTables
  <2>3. StepsInv
    BY DEF ContentInit, RebuildInit, StepsInv
  <2> QED
    BY <2>2, <2>3, InitPlanned, InitTypes DEF RestoreInv, PlannedInv
<1>2. PlannedInv /\ [Next]_vars => PlannedInv'
  BY RulesStep, EntriesStep, SteadyStep, DumpStep, TypesStep DEF PlannedInv, Inv
<1>3. RestoreInv /\ [Next]_vars => RestoreInv'
  BY <1>2, KeysStep, StepsStep DEF RestoreInv
<1> QED
  BY <1>1, <1>3, PTL DEF Spec

\* What was published can be restored, but for what Restorable names: every
\* table that a foreign key or a view needs is there, every column takes what
\* its transform produces, and the foreign keys hold in what was loaded.
THEOREM SnapshotsAreRestorable == Spec => []Restorable
<1>1. RestoreInv => Restorable
  BY DEF RestoreInv, StepsInv, Excused, Restorable
<1> QED
  BY <1>1, RestoreHolds, PTL

-----------------------------------------------------------------------------
(***************************************************************************)
(* The sizing of a window, where the pages of a table are filled evenly.   *)
(***************************************************************************)

\* Integers that fit into the width are as they are.
LEMMA WrapFits ==
  /\ \A n \in Int : Wrap(n) \in Int
  /\ \A n \in 0 .. MaxInt : Wrap(n) = n
  BY TailAssumption DEF Wrap

\* A quotient is at most one less than what is divided.
LEMMA QuotientBound ==
  ASSUME NEW a \in Nat, NEW b \in Nat \ {0}
  PROVE  a \div b \in Nat /\ a < (a \div b) * b + b
  OBVIOUS

\* Multiplication by what is not zero keeps the order.
LEMMA CancelFactor ==
  ASSUME NEW a \in Nat, NEW b \in Nat, NEW c \in Nat \ {0}, a * c <= b * c
  PROVE  a <= b
  OBVIOUS

LEMMA KeepFactor ==
  ASSUME NEW a \in Nat, NEW b \in Nat, NEW c \in Nat, a <= b
  PROVE  a * c <= b * c /\ c * a <= c * b /\ a * c \in Nat
  OBVIOUS

\* Where every page has as many rows, j pages have j times as many.
LEMMA EvenCount ==
  ASSUME NEW V, IsFiniteSet(V), NEW pages \in Nat \ {0},
         NEW place \in [V -> 0 .. pages - 1], Even(pages, place)
  PROVE  \E each \in Nat : \A j \in 0 .. pages :
           Cardinality(From(pages - j, place)) = j * each
<1> DEFINE On(p) == {r \in V : place[r] = p}
           each == Cardinality(On(0))
           Count(j) == Cardinality(From(pages - j, place))
<1>1. \A p : IsFiniteSet(On(p)) /\ Cardinality(On(p)) \in Nat
  BY FS_Subset, FS_CardinalityType
<1>2. \A j : IsFiniteSet(From(pages - j, place)) /\ Count(j) \in Nat
  <2> TAKE j
  <2>1. From(pages - j, place) \in SUBSET V
    BY DEF From
  <2> QED
    BY <2>1, FS_Subset, FS_CardinalityType
<1>3. \A p \in 0 .. pages - 1 : Cardinality(On(p)) = each
  BY DEF Even
<1>4. Count(0) = 0
  <2>1. From(pages - 0, place) = {}
    BY DEF From
  <2> QED
    BY <2>1, FS_EmptySet
<1>5. ASSUME NEW j \in 1 .. pages PROVE Count(j) = Count(j - 1) + each
  <2> DEFINE p == pages - j
  <2>1. p \in 0 .. pages - 1 /\ pages - (j - 1) = p + 1
    OBVIOUS
  <2>2. From(p, place) = From(p + 1, place) \cup On(p)
    BY <2>1 DEF From
  <2>3. From(p + 1, place) \cap On(p) = {}
    BY <2>1 DEF From
  <2>4. IsFiniteSet(From(p + 1, place)) /\ Cardinality(From(p + 1, place)) \in Nat
    BY <1>2, <2>1
  <2>5. Cardinality(From(p, place)) =
          Cardinality(From(p + 1, place)) + Cardinality(On(p)) - 0
    <3> DEFINE S == From(p + 1, place)
               T == On(p)
    <3>1. IsFiniteSet(S) /\ IsFiniteSet(T) /\ S \cap T = {} /\ From(p, place) = S \cup T
      BY <1>1, <2>2, <2>3, <2>4
    <3> HIDE DEF S, T
    <3>2. Cardinality(S \cup T) = Cardinality(S) + Cardinality(T) - Cardinality(S \cap T)
      BY <3>1, FS_Union
    <3> QED
      BY <3>1, <3>2, FS_EmptySet DEF S, T
  <2> QED
    BY <1>1, <1>3, <2>1, <2>4, <2>5
<1> DEFINE Bad == {j \in Nat : j <= pages /\ Count(j) # j * each}
<1>6. Bad = {}
  <2> SUFFICES ASSUME Bad # {} PROVE FALSE
    OBVIOUS
  <2>1. PICK j \in Bad : \A i \in Bad : j <= i
    <3>1. Bad \in SUBSET Nat
      OBVIOUS
    <3> HIDE DEF Bad
    <3> QED
      BY <3>1, LeastExists
  <2>2. each \in Nat
    BY <1>1
  <2> HIDE DEF each, Count
  <2>3. j # 0
    BY <1>4, <2>2
  <2>4. j \in 1 .. pages /\ j - 1 \in Nat /\ j - 1 \notin Bad
    BY <2>1, <2>3
  <2>5. Count(j - 1) = (j - 1) * each
    BY <2>4
  <2>6. (j - 1) * each + each = j * each
    BY <2>2, <2>4
  <2> QED
    BY <1>5, <2>4, <2>5, <2>6
<1>7. \A j \in 0 .. pages : Count(j) = j * each
  BY <1>6
<1> QED
  BY <1>1, <1>7

\* The window holds the request: its pages are the quotient, rounded up, of the
\* request and the rows of a page, enlarged by the margin.
LEMMA WindowHolds ==
  ASSUME NEW requested \in Nat \ {0}, NEW probed \in Nat \ {0}, NEW each \in Nat \ {0},
         requested * probed * MarginPct + 100 * (probed * each) <= MaxInt
  PROVE  LET wanted == WindowPages(requested, probed, probed * each) IN
         wanted \in Nat \ {0} /\ requested <= wanted * each
<1> DEFINE num == requested * probed * MarginPct
           den == probed * each * 100
           wanted == (num + den - 1) \div den
<1>1. /\ MarginPct \in Nat /\ MarginPct >= 100 /\ MaxInt \in Nat
  BY TailAssumption
<1>2. /\ requested * probed \in Nat \ {0} /\ requested * probed <= num
      /\ num \in Nat \ {0} /\ num >= requested * probed * 100
  <2>1. requested * probed \in Nat \ {0}
    OBVIOUS
  <2> QED
    BY <1>1, <2>1, KeepFactor
<1>3. probed * each \in Nat \ {0} /\ den \in Nat \ {0} /\ den = 100 * (probed * each)
  OBVIOUS
<1> HIDE DEF num, den
<1>4. num + den <= MaxInt /\ requested * probed <= MaxInt
  BY <1>1, <1>2, <1>3 DEF num
<1>5. /\ Wrap(requested * probed) = requested * probed /\ Wrap(num) = num
      /\ Wrap(den) = den /\ Wrap(num + den - 1) = num + den - 1
  BY <1>1, <1>2, <1>3, <1>4, WrapFits
<1>6. WindowPages(requested, probed, probed * each) = wanted
  BY <1>2, <1>3, <1>5 DEF WindowPages, Quotient, num, den
<1>7. wanted \in Nat /\ num + den - 1 < wanted * den + den
  <2>1. num + den - 1 \in Nat
    BY <1>2, <1>3
  <2> QED
    BY <1>3, <2>1, QuotientBound
<1> HIDE DEF wanted
<1>8. num <= wanted * den
  BY <1>2, <1>3, <1>7
<1>9. wanted # 0
  BY <1>2, <1>3, <1>8
<1>10. requested * (probed * 100) <= (wanted * each) * (probed * 100)
  <2>1. wanted * den = (wanted * each) * (probed * 100)
    BY <1>7 DEF den
  <2>2. requested * probed * 100 = requested * (probed * 100)
    OBVIOUS
  <2> DEFINE lower == requested * (probed * 100)
             upper == (wanted * each) * (probed * 100)
  <2>3. lower \in Int /\ upper \in Int
    BY <1>7
  <2>4. lower <= num /\ num <= upper
    BY <1>2, <1>8, <2>1, <2>2
  <2> HIDE DEF lower, upper
  <2>5. lower <= upper
    BY <1>2, <2>3, <2>4
  <2> QED
    BY <2>5 DEF lower, upper
<1>11. requested <= wanted * each
  BY <1>7, <1>10, CancelFactor
<1> QED
  BY <1>6, <1>7, <1>9, <1>11

\* The window of a request: all rows, or as many as requested, unless the sizing
\* overflows; then what comes back short is reported.
LEMMA WindowSized ==
  ASSUME NEW V, IsFiniteSet(V), 100 * Cardinality(V) <= MaxInt,
         NEW requested \in Nat \ {0}, NEW pages \in Nat \ {0},
         NEW place \in [V -> 0 .. pages - 1], Even(pages, place)
  PROVE  LET start == StartPage(pages, place, requested)
             count == Cardinality(From(start, place))
         IN \/ Full(start) \/ count >= requested
            \/ /\ requested * pages * MarginPct + 100 * Cardinality(V) > MaxInt
               /\ Warned(start, pages, count, requested)
<1> DEFINE probed == IF pages < ProbePages THEN pages ELSE ProbePages
           live == Cardinality(From(pages - probed, place))
           wanted == WindowPages(requested, probed, live)
           start == StartPage(pages, place, requested)
           count == Cardinality(From(start, place))
<1>1. probed \in Nat \ {0} /\ probed <= pages
  BY TailAssumption
<1>2. PICK each \in Nat : \A j \in 0 .. pages :
        Cardinality(From(pages - j, place)) = j * each
  BY EvenCount
<1>3. live = probed * each
  BY <1>1, <1>2
<1>4. live <= Cardinality(V) /\ Cardinality(V) \in Nat
  <2>1. From(pages - probed, place) \in SUBSET V
    BY DEF From
  <2> QED
    BY <2>1, FS_Subset, FS_CardinalityType
<1>5. start = IF live = 0 \/ wanted >= pages THEN 0 ELSE pages - wanted
  BY DEF StartPage
<1>6. count \in Nat
  <2>1. From(start, place) \in SUBSET V
    BY DEF From
  <2> QED
    BY <2>1, FS_Subset, FS_CardinalityType
<1> HIDE DEF probed, live, wanted, start, count
<1>7. CASE live = 0 \/ wanted >= pages
  BY <1>5, <1>7 DEF Full, start
<1>8. CASE live # 0 /\ ~(wanted >= pages)
  <2>1. each # 0 /\ start = pages - wanted
    BY <1>1, <1>3, <1>5, <1>8
  <2>2. CASE requested * pages * MarginPct + 100 * Cardinality(V) <= MaxInt
    <3>1. requested * probed * MarginPct + 100 * live <= MaxInt
      <4>1. MarginPct \in Nat /\ MaxInt \in Nat
        BY TailAssumption
      <4>2. requested * probed <= requested * pages /\ requested * probed \in Nat
            /\ requested * pages \in Nat
        BY <1>1, KeepFactor
      <4>3. requested * probed * MarginPct <= requested * pages * MarginPct
        BY <4>1, <4>2, KeepFactor
      <4>4. live \in Nat
        BY <1>1, <1>3
      <4>5. /\ requested * probed * MarginPct \in Int
            /\ requested * pages * MarginPct \in Int
        BY <4>1, <4>2
      <4> QED
        BY <1>4, <2>2, <4>1, <4>3, <4>4, <4>5
    <3>2. wanted \in Nat \ {0} /\ requested <= wanted * each
      BY <1>1, <1>3, <2>1, <3>1, WindowHolds DEF wanted
    <3>3. count = wanted * each
      BY <1>2, <1>8, <2>1, <3>2 DEF count
    <3> QED
      BY <3>2, <3>3 DEF count, start
  <2>3. CASE ~(requested * pages * MarginPct + 100 * Cardinality(V) <= MaxInt)
    <3>1. live \in Nat \ {0} /\ live * 100 \in 1 .. MaxInt
      BY <1>1, <1>3, <1>4, <1>8, TailAssumption
    <3>2. wanted \in Int
      <4> DEFINE num == Wrap(Wrap(requested * probed) * MarginPct)
                 den == Wrap(live * 100)
      <4>1. den \in Nat \ {0}
        BY <3>1, WrapFits
      <4>2. num \in Int
        BY <1>1, WrapFits, TailAssumption
      <4> HIDE DEF num, den
      <4>3. Wrap(num + den - 1) \in Int
        BY <4>1, <4>2, WrapFits
      <4>4. Quotient(Wrap(num + den - 1), den) \in Int
        BY <4>1, <4>3 DEF Quotient
      <4> QED
        BY <4>4 DEF wanted, WindowPages, num, den
    <3>3. Full(start) \/ count >= requested \/ Warned(start, pages, count, requested)
      BY <1>6, <1>8, <2>1, <3>2 DEF Full, Warned
    <3>4. requested * pages * MarginPct + 100 * Cardinality(V) > MaxInt
      BY <1>4, <2>3, TailAssumption
    <3> QED
      BY <3>3, <3>4 DEF count, start
  <2> QED
    BY <2>2, <2>3
<1> QED
  BY <1>7, <1>8

\* Whatever is requested of a table whose pages are filled evenly, the window
\* holds it, or the run says so; the rows can be counted in the program's integers.
THEOREM TailsAreSized == ASSUME 100 * MaxRow <= MaxInt PROVE Spec => []TailSized
<1>1. RestoreInv => TailSized
  <2> SUFFICES ASSUME RestoreInv, phase = "copy", NEW t \in DOMAIN plan,
                      plan[t].tail > 0, NEW pages \in 1 .. MaxPages,
                      NEW place \in [Visible(t) -> 0 .. pages - 1], Even(pages, place)
               PROVE  LET requested == plan[t].tail
                          start == StartPage(pages, place, requested)
                          count == Cardinality(From(start, place))
                      IN \/ Full(start) \/ count >= requested
                         \/ /\ requested * pages * MarginPct
                                 + 100 * Cardinality(Visible(t)) > MaxInt
                            /\ Warned(start, pages, count, requested)
    BY DEF TailSized
  <2>1. t \in Tables /\ plan[t].tail \in Nat \ {0} /\ pages \in Nat \ {0}
    BY BoundsAssumption DEF RestoreInv, PlannedInv, Types, ReadTypes, KeysInv
  <2>2. Visible(t) \in SUBSET (1 .. MaxRow)
    BY <2>1, VisibleRows DEF RestoreInv, PlannedInv, Types, Rows
  <2>3. /\ MaxRow \in Nat /\ IsFiniteSet(1 .. MaxRow)
        /\ Cardinality(1 .. MaxRow) = MaxRow
    BY RowsBounded, FS_Interval
  <2>4. /\ IsFiniteSet(Visible(t)) /\ Cardinality(Visible(t)) \in Nat
        /\ Cardinality(Visible(t)) <= MaxRow
    BY <2>2, <2>3, FS_Subset, FS_CardinalityType
  <2>5. 100 * Cardinality(Visible(t)) <= MaxInt
    BY <2>3, <2>4, TailAssumption
  <2> QED
    BY <2>1, <2>4, <2>5, WindowSized
<1> QED
  BY <1>1, RestoreHolds, PTL
=============================================================================
