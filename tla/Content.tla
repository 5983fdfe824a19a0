------------------------------ MODULE Content ------------------------------
(***************************************************************************)
(* A snapshot of a source that does not stand still, and the database that *)
(* a restore builds of it: what the preflight promises of the snapshot,    *)
(* and the snapshot of the database.                                       *)
(***************************************************************************)
EXTENDS Rebuild

vars == <<planVars, rebuildVars>>

ContentInit == Init /\ RebuildInit

Next ==
  \/ PlanNext /\ UNCHANGED rebuildVars
  \/ RebuildNext

Spec == ContentInit /\ [][Next]_vars

-----------------------------------------------------------------------------
Phases == {"idle", "tables", "columns", "unreadable", "exemptions", "dependents",
  "reports", "open", "schema", "sequences", "copy", "published", "refused",
  "failed", "cut"}

MaxRow == Above(FirstRows) + MaxInserts
Rows == SUBSET (1 .. MaxRow)
PositionType == [value : 1 .. MaxRow, called : BOOLEAN]

\* Every variable has its type; no position is below 1, which setval refuses.
TypeOK ==
  /\ IsCatalog(catalog) /\ IsCatalog(view.catalog)
  /\ IsCatalog(schema) /\ IsCatalog(seen.tables)
  /\ rows \in [Tables -> Rows] /\ view.rows \in [Tables -> Rows]
  /\ last \in [Tables -> 0 .. MaxRow]
  /\ gone \in SUBSET Tables
  /\ used \in [changes : 0 .. MaxChanges, inserts : 0 .. MaxInserts]
  /\ config \in Configs
  /\ phase \in Phases
  /\ seen = [tables |-> seen.tables, unreadable |-> seen.unreadable,
             exempt |-> seen.exempt]
  /\ seen.unreadable \in SUBSET Tables /\ seen.exempt \in SUBSET Tables
  /\ DOMAIN plan \subseteq Tables /\ DOMAIN entries \subseteq DOMAIN plan
  /\ \A t \in DOMAIN entries : entries[t].projection = plan[t] /\ entries[t].rows \in Rows
  /\ \A t \in DOMAIN positions : t \in Tables /\ positions[t] \in PositionType
  /\ steady \in BOOLEAN
  /\ step \in {"schema", "load", "sequences", "constraints", "served", "broken"}
  /\ built \in [Tables -> Rows]
  /\ next \in [Tables -> 1 .. MaxRow + 1]

-----------------------------------------------------------------------------
\* Whatever migrations do while the snapshot runs: a published snapshot has
\* applied every rule of its configuration, to the column that the rule names.
RulesApplied ==
  phase = "published" => \A t \in DOMAIN config.tables :
    /\ t \in DOMAIN entries
    /\ LET tc == config.tables[t]
           p == entries[t].projection
       IN /\ p.skipped = SkipsData(tc.mode) /\ p.where = tc.where
          /\ tc.tailed => p.tail = tc.tail
          /\ DOMAIN p.transforms = DOMAIN tc.rules
          /\ \A c \in DOMAIN tc.rules :
               c \in p.columns /\ p.transforms[c].expr = tc.rules[c]

\* A table that is exported in full has all rows of the view: no policy that
\* was there, or came later, has filtered them.
RowsWhole ==
  phase = "published" => \A t \in DOMAIN entries \ gone :
    LET p == entries[t].projection
    IN ~p.skipped /\ ~p.where /\ p.tail = 0 => entries[t].rows = view.rows[t]

\* "The schema it captures is the schema the data was copied under": tables and
\* columns of the dump are those of the entries.  A migration between preflight
\* and view breaks that.
Agrees ==
  phase = "published" /\ steady =>
    /\ {t \in Tables : schema[t].kind = "r"} =
       {t \in DOMAIN entries : ~entries[t].projection.excluded}
    /\ \A t \in DOMAIN entries : LET p == entries[t].projection IN
         ~p.skipped => p.columns = Exported(schema[t].cols)

\* What the preflight cannot see, of a source that does not change: forced row
\* level security for a role that it takes for exempt, and a partitioned parent.
Overlooked ==
  \/ \E t \in Tables : catalog[t].rls = "forced" /\ t \in Member /\ ~BypassRls
  \/ \E t \in Tables : catalog[t].kind = "p" /\ ~catalog[t].readable

\* "Preflight decides whether a snapshot can run, before any data moves": after
\* it, and as long as nothing changes, the server refuses nothing.
PreflightSuffices ==
  phase = "failed" => used.changes > 0 \/ Overlooked

\* A child may have rows of which the parent's are left out.
Orphans ==
  \E t, d \in DOMAIN entries :
    /\ d \in schema[t].refs
    /\ LET p == entries[d].projection IN p.skipped \/ p.where \/ p.tail > 0

\* What was published can be restored, but for a migration in its midst, rows
\* that no longer could be seen, orphans, expressions of the user, and identity
\* columns of excluded tables.
Restorable ==
  step = "broken" =>
    \/ ~steady
    \/ gone # {}
    \/ Orphans
    \/ \E t \in DOMAIN entries : Raw(t)
    \/ \E t \in DOMAIN positions \cap Identity : schema[t].kind = "none"

\* "read last_value from pg_sequences -- exact": although it is no part of the
\* view, and the source goes on, a sequence that the role can read resumes above
\* every row of its table that the restore has built.
SequencesAbove ==
  step = "served" =>
    \A t \in DOMAIN positions \ Hidden : \A r \in built[t] : r < next[t]

\* "The restored sequence resumes above every row that was actually exported",
\* also "when the role cannot read the sequence itself".
HiddenSequencesAbove ==
  step = "served" => \A t \in DOMAIN positions : \A r \in built[t] : r < next[t]

-----------------------------------------------------------------------------
\* Every page has the same number of rows.
Even(pages, place) ==
  \A p, q \in 0 .. pages - 1 :
    Cardinality({r \in DOMAIN place : place[r] = p}) =
    Cardinality({r \in DOMAIN place : place[r] = q})

\* Of a table whose pages are filled evenly, the window that the copy will read
\* has as many rows as requested, or all of them; where the sizing overflows, the
\* dividend or with the divisor added to it, what comes back short is reported.
TailSized ==
  phase = "copy" => \A t \in DOMAIN plan : plan[t].tail > 0 =>
    \A pages \in 1 .. MaxPages : \A place \in [Visible(t) -> 0 .. pages - 1] :
      LET requested == plan[t].tail
          start == StartPage(pages, place, requested)
          count == Cardinality(From(start, place))
      IN Even(pages, place) =>
           \/ Full(start) \/ count >= requested
           \/ /\ requested * pages * MarginPct + 100 * Cardinality(Visible(t)) > MaxInt
              /\ Warned(start, pages, count, requested)
=============================================================================
