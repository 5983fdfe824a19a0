------------------------------- MODULE Scrub -------------------------------
(***************************************************************************)
(* The scrub configuration (scrub/config.go), the transforms               *)
(* (scrub/transform.go) and the projection of one table                    *)
(* (scrub/projection.go).  All of it is pure.  Names and SQL are left out: *)
(* a table is a member of Tables, a column of Columns, and of a rendered   *)
(* expression only the builtin and the length of its text are kept.        *)
(***************************************************************************)
EXTENDS Integers

CONSTANTS
  Tables,   \* schema-qualified names of tables
  Columns,  \* names of columns
  NoColumn  \* no tail_report_column

ASSUME NoColumnAssumption == NoColumn \notin Columns

\* What the catalog says of a column; maxLen is -1 for an unbounded type.
Attribute == [generated : BOOLEAN, notNull : BOOLEAN, textual : BOOLEAN,
              maxLen : Int]

\* A transform is a builtin, any other expression ("raw"), or only blanks.
Builtins == {"null", "md5", "email", "redact"}
Transforms == Builtins \cup {"raw", "blank"}

Modes == {"full", "skip", "skip-data"}
SkipsData(mode) == mode \in {"skip", "skip-data"}

\* The configuration of a table that declares none: every row, as it is.
NoRules == [c \in {} |-> "raw"]
NoConfig == [mode |-> "full", where |-> FALSE, tailed |-> FALSE, tail |-> 0,
             report |-> NoColumn, rules |-> NoRules]

ConfigFor(config, t) ==
  IF t \in DOMAIN config.tables THEN config.tables[t] ELSE NoConfig

-----------------------------------------------------------------------------
ValidTable(tc) ==
  /\ tc.mode \in Modes
  /\ SkipsData(tc.mode) => ~tc.where /\ DOMAIN tc.rules = {} /\ ~tc.tailed
  /\ tc.tailed => tc.tail >= 1 /\ ~tc.where
  /\ ~tc.tailed => tc.report = NoColumn
  /\ \A c \in DOMAIN tc.rules : tc.rules[c] # "blank"

\* The spelling "validate" that the error message offers is not accepted.
Valid(config) ==
  /\ config.fk \in {"", "not_valid"}
  /\ \A t \in DOMAIN config.tables : ValidTable(config.tables[t])

-----------------------------------------------------------------------------
\* The lengths of user_ and @example.invalid, of an md5 and of REDACTED.
EmailFixed == 21
Md5Length == 32
RedactLength == 8

Shorter(a, b) == IF a < b THEN a ELSE b

\* Slip: the limit of the column is not looked at.
SlipNoFit(col, produces) == produces

\* fitText cuts the text at the limit of the column.
Fit(col, produces) ==
  IF col.maxLen > 0 THEN Shorter(col.maxLen, produces) ELSE produces

\* The length of what a builtin that produces text writes into the column.
Length(col, transform) ==
  CASE transform = "md5" -> Fit(col, Md5Length)
    [] transform = "redact" -> Fit(col, RedactLength)
    [] transform = "email" ->
         EmailFixed + (IF col.maxLen > 0 THEN Shorter(col.maxLen - EmailFixed, Md5Length)
                       ELSE Md5Length)
    [] OTHER -> 0

\* renderTransform: whether the column can hold what the transform produces.
Renders(col, transform) ==
  CASE transform = "null" -> ~col.notNull
    [] transform \in {"md5", "redact"} -> col.textual
    [] transform = "email" ->
         col.textual /\ (col.maxLen > 0 => col.maxLen - EmailFixed >= 1)
    [] OTHER -> TRUE

-----------------------------------------------------------------------------
\* Generated columns are not exported: the load computes them again.
Exported(cols) == {c \in DOMAIN cols : ~cols[c].generated}

\* BuildProjection finds no error.  Validate has refused rules for a table
\* that exports no rows.
Projectable(cols, tc) ==
  /\ tc.report # NoColumn => tc.report \in DOMAIN cols \ DOMAIN tc.rules
  /\ \A c \in DOMAIN tc.rules :
       /\ c \in DOMAIN cols
       /\ ~cols[c].generated
       /\ Renders(cols[c], tc.rules[c])
  /\ ~SkipsData(tc.mode) => Exported(cols) # {}

Projection(cols, tc) ==
  [skipped |-> SkipsData(tc.mode),
   excluded |-> tc.mode = "skip",
   where |-> tc.where,
   tail |-> IF tc.tailed THEN tc.tail ELSE 0,
   report |-> tc.report,
   columns |-> IF SkipsData(tc.mode) THEN {} ELSE Exported(cols),
   transforms |->
     [c \in DOMAIN tc.rules |->
        [expr |-> tc.rules[c], length |-> Length(cols[c], tc.rules[c])]]]
=============================================================================
