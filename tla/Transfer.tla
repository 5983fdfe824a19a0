------------------------------ MODULE Transfer ------------------------------
(***************************************************************************)
(* Snapshots and restores around one bucket.  They take no lock and never  *)
(* talk to each other: a restore may read what a snapshot is writing.      *)
(***************************************************************************)
EXTENDS Export, Loader

vars == <<bucket, faults, world, export, copier, restore, loader>>

Init ==
  /\ bucket = [d \in Second |-> Empty]
  /\ faults = 0
  /\ ExportInit
  /\ LoadInit

Next ==
  \/ ExportNext /\ UNCHANGED <<restore, loader>>
  \/ LoadNext /\ UNCHANGED <<world, export, copier>>

Spec == Init /\ [][Next]_vars

\* A process that is not killed goes on, and so does each of its workers: a
\* copy, a load and every other call ends some day, well or not.
FairSpec ==
  /\ Spec
  /\ \A e \in Exporters : WF_vars(ExportStep(e) /\ UNCHANGED <<restore, loader>>)
  /\ \A r \in Restores :
       WF_vars(LoadStep(r) /\ UNCHANGED <<world, export, copier>>)

\* The variables hold values of their types.
TypeOK == ExportTypeOK /\ LoadTypeOK

\* A staging database that is ready to be put in service, from a directory of
\* one snapshot, has the rows of every table that its snapshot exported, all of
\* them of the instant of its schema, but for the tables that were emptied after
\* that instant, which it may have without rows.
LoadedWhole ==
  \A r \in Restores : LET x == restore[r] IN
    x.phase = "ready" /\ Alone(x.from) =>
      \A t \in Tables \ (Skipped \cup Owned) :
        \/ x.rows[t] = x.schema
        \/ x.rows[t] = Emptied /\ emptied[t] > x.schema
=============================================================================
