------------------------------- MODULE Rebuild -------------------------------
(***************************************************************************)
(* What a restore makes of a published snapshot in its staging database:   *)
(* the sections of the schema dump, which pg_restore replays, the rows,    *)
(* and the positions of the sequences (restore/run.go, restore/loader.go). *)
(* The workers that load, and faults, are in Loader; here a step fails     *)
(* only for what the snapshot holds.                                       *)
(***************************************************************************)
EXTENDS Plan

CONSTANT Identity  \* tables whose sequence is that of an identity column

VARIABLES
  step,   \* what the restore does next
  built,  \* the rows of staging
  next    \* the next value of each sequence of staging

rebuildVars == <<step, built, next>>

RebuildInit ==
  /\ step = "schema"
  /\ built = [t \in Tables |-> {}]
  /\ next = [t \in Tables |-> 1]

Goes(from, succeeds, to) ==
  /\ phase = "published"
  /\ step = from
  /\ step' = IF succeeds THEN to ELSE "broken"
  /\ UNCHANGED planVars

-----------------------------------------------------------------------------
\* Section pre-data: a view needs what its query names.  What only a foreign
\* key names may come later.
RestoreSchema ==
  /\ Goes("schema",
       \A v \in Tables : schema[v].kind = "v" =>
         \A t \in schema[v].refs : schema[t].kind # "none",
       "load")
  /\ UNCHANGED <<built, next>>

-----------------------------------------------------------------------------
\* Whether a column takes the values of an entry.  What an expression of the
\* user produces is not known.
Takes(col, transform) ==
  CASE transform.expr = "null" -> ~col.notNull
    [] transform.expr = "raw" -> TRUE
    [] OTHER -> col.textual /\ (col.maxLen > 0 => transform.length <= col.maxLen)

\* COPY into the columns of the entry; the others get no value.
Fits(t) ==
  LET p == entries[t].projection
      cols == schema[t].cols
  IN /\ schema[t].kind = "r"
     /\ p.columns \subseteq Exported(cols)
     /\ entries[t].rows # {} =>
          /\ \A c \in Exported(cols) \ p.columns : ~cols[c].notNull
          /\ \A c \in DOMAIN p.transforms : Takes(cols[c], p.transforms[c])

Raw(t) == \E c \in DOMAIN plan[t].transforms : plan[t].transforms[c].expr = "raw"
Loaded == {t \in DOMAIN entries : ~plan[t].skipped}

Load ==
  /\ \/ Goes("load", \A t \in Loaded : Fits(t), "sequences")
     \/ (\E t \in Loaded : Raw(t)) /\ Goes("load", FALSE, "sequences")
  /\ built' = [t \in Tables |-> IF t \in Loaded THEN entries[t].rows ELSE {}]
  /\ UNCHANGED next

-----------------------------------------------------------------------------
\* pg_dump leaves the sequence of an identity column out with its table; that
\* of a serial column stays.
HasSequence(t) == schema[t].kind # "none" \/ t \notin Identity

\* setval, with its third argument; what was not recorded starts from 1.
ApplySequences ==
  /\ Goes("sequences", \A t \in DOMAIN positions : HasSequence(t), "constraints")
  /\ next' = [t \in Tables |->
       IF t \notin DOMAIN positions THEN next[t]
       ELSE IF positions[t].called THEN positions[t].value + 1
       ELSE positions[t].value]
  /\ UNCHANGED built

\* Section post-data: every foreign key is checked, whatever fk_mode says.
RestoreConstraints ==
  /\ Goes("constraints",
       \A t \in Tables : schema[t].kind = "r" => \A d \in schema[t].refs :
         schema[d].kind = "r" /\ built[t] \subseteq built[d],
       "served")
  /\ UNCHANGED <<built, next>>

RebuildNext == RestoreSchema \/ Load \/ ApplySequences \/ RestoreConstraints
=============================================================================
