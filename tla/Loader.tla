------------------------------- MODULE Loader -------------------------------
(***************************************************************************)
(* How a restore gets a snapshot out of the bucket into its staging        *)
(* database: resolveSnapshot, fetchSchema (restore/run.go), the pool of    *)
(* Loader.Load (restore/loader.go), and the phases that follow it.         *)
(***************************************************************************)
EXTENDS Bucket

CONSTANTS
  Restores,  \* the restores that read the bucket
  Loaders,   \* the workers of one Load
  Owned      \* the tables an extension owns on the target

ASSUME OwnedAssumption == Owned \subseteq Tables
ASSUME LoadersAssumption == Loaders # {}

VARIABLES
  restore,  \* the locals of each restore, and its staging database
  loader    \* the table each worker loads

loadVars == <<bucket, faults, restore, loader>>

\* from is the chosen snapshot, manifest what was read of it, schema and rows
\* the contents of the staging database, jobs the tables the feeder has not
\* passed, closed whether it has closed the channel, failed whether a worker
\* has reported an error (and cancelled the others), stopped the signal.
NoRestore == [phase |-> "idle", from |-> 0, manifest |-> Nothing,
              schema |-> Nothing, rows |-> [t \in Tables |-> Nothing],
              jobs |-> {}, closed |-> FALSE, failed |-> FALSE,
              stopped |-> FALSE]

\* A worker waits for a table (Nothing), loads one, or has returned.
Returned == "returned"

ASSUME ReturnedAssumption == Returned \notin Tables \cup {Nothing}

LoadInit ==
  /\ restore = [r \in Restores |-> NoRestore]
  /\ loader = [r \in Restores |-> [w \in Loaders |-> Returned]]

Cancelled(r) == restore[r].stopped \/ restore[r].failed

\* The run ends with an error: its staging database is dropped.
Abandon(r) ==
  /\ restore' = [restore EXCEPT ![r] = NoRestore]
  /\ UNCHANGED loader

\* A call with the context of the run fails when the context is done, when it
\* cannot succeed, or by a fault.
Attempt(r, can, onSuccess) ==
  \/ can /\ ~restore[r].stopped /\ onSuccess /\ UNCHANGED faults
  \/ (~can \/ restore[r].stopped) /\ Abandon(r) /\ UNCHANGED faults
  \/ Abandon(r) /\ Fault

-----------------------------------------------------------------------------
\* resolveSnapshot: the snapshot the operator names, or the latest.
PickSnapshot(r) ==
  /\ restore[r].phase = "idle"
  /\ Snapshots # {}
  /\ \E d \in Second \cup {LatestSnapshot} :
       restore' = [restore EXCEPT ![r] =
                     [NoRestore EXCEPT !.phase = "manifest", !.from = d]]
  /\ UNCHANGED <<bucket, faults, loader>>

\* The manifest must exist; nothing else of the directory is looked at.
ReadManifest(r) ==
  LET manifest == bucket[restore[r].from].manifest IN
  /\ restore[r].phase = "manifest"
  /\ Attempt(r, manifest # Nothing,
       /\ restore' = [restore EXCEPT ![r].phase = "schema",
                                     ![r].manifest = manifest]
       /\ UNCHANGED loader)
  /\ UNCHANGED bucket

\* fetchSchema and the pre-data section; then Load starts its workers, with
\* the tables that have a file and belong to no extension.
RestoreSchema(r) ==
  LET x == restore[r]
      schema == bucket[x.from].schema
      pending == {t \in Tables \ Owned : x.manifest[t] \in Contents}
  IN
  /\ x.phase = "schema"
  /\ Attempt(r, schema # Nothing,
       /\ restore' = [restore EXCEPT ![r].phase = "load", ![r].schema = schema,
                                     ![r].jobs = pending]
       /\ loader' = [loader EXCEPT ![r] = [w \in Loaders |-> Nothing]])
  /\ UNCHANGED bucket

-----------------------------------------------------------------------------
\* The feeder hands a table to a worker that waits...
Hand(r, w) ==
  /\ restore[r].phase = "load"
  /\ loader[r][w] = Nothing
  /\ \E t \in restore[r].jobs :
       /\ restore' = [restore EXCEPT ![r].jobs = @ \ {t}]
       /\ loader' = [loader EXCEPT ![r][w] = t]
  /\ UNCHANGED <<bucket, faults>>

\* Slip: the feeder looks at the context of the run, which the error of a worker
\* does not cancel, and goes on waiting for a worker to take the table.
SlipFeederWaits(r) ==
  /\ restore[r].phase = "load"
  /\ \E t \in restore[r].jobs :
       restore' = [restore EXCEPT ![r].jobs = IF restore[r].stopped THEN @ \ {t} ELSE @]
  /\ UNCHANGED <<bucket, faults, loader>>

\* ... passes over it when the context is done...
PassOver(r) ==
  /\ restore[r].phase = "load"
  /\ Cancelled(r)
  /\ \E t \in restore[r].jobs : restore' = [restore EXCEPT ![r].jobs = @ \ {t}]
  /\ UNCHANGED <<bucket, faults, loader>>

\* ... and closes the channel after the last.
CloseJobs(r) ==
  /\ restore[r].phase = "load"
  /\ restore[r].jobs = {}
  /\ ~restore[r].closed
  /\ restore' = [restore EXCEPT ![r].closed = TRUE]
  /\ UNCHANGED <<bucket, faults, loader>>

\* loadOne.  A missing or truncated object is an error, and so is a number of
\* rows that is not the one of the manifest; the rows of another instant may
\* have the same number.  After an error the worker cancels and returns.
LoadOne(r, w) ==
  LET x == restore[r]
      t == loader[r][w]
      object == bucket[x.from].data[t]
      fails == /\ restore' = [restore EXCEPT ![r].failed = TRUE]
               /\ loader' = [loader EXCEPT ![r][w] = Returned]
  IN
  /\ t \in Tables
  /\ \/ /\ ~Cancelled(r)
        /\ object \in Contents
        /\ restore' = [restore EXCEPT ![r].rows[t] = object]
        /\ loader' = [loader EXCEPT ![r][w] = Nothing]
        /\ UNCHANGED faults
     \/ /\ Cancelled(r) \/ object \notin Contents \/ object # x.manifest[t]
        /\ fails /\ UNCHANGED faults
     \/ fails /\ Fault
  /\ UNCHANGED bucket

LoaderReturns(r, w) ==
  /\ restore[r].closed
  /\ loader[r][w] = Nothing
  /\ loader' = [loader EXCEPT ![r][w] = Returned]
  /\ UNCHANGED <<bucket, faults, restore>>

\* Load waits for its workers and returns the error one of them reported; a
\* signal alone makes it return no error, with tables passed over.
LoadReturns(r) ==
  /\ restore[r].phase = "load"
  /\ restore[r].closed
  /\ \A w \in Loaders : loader[r][w] = Returned
  /\ IF restore[r].failed THEN Abandon(r)
     ELSE /\ restore' = [restore EXCEPT ![r].phase = "finish"]
          /\ UNCHANGED loader
  /\ UNCHANGED <<bucket, faults>>

\* Slip: the phases after the load do not look at the context.
SlipFinishIgnoresSignal(r) ==
  /\ restore[r].phase = "finish"
  /\ restore' = [restore EXCEPT ![r].phase = "ready"]
  /\ UNCHANGED <<bucket, faults, loader>>

\* Sequences, constraints and everything else up to the swap: statements and
\* processes started with the context of the run.
Finish(r) ==
  /\ restore[r].phase = "finish"
  /\ Attempt(r, TRUE,
       restore' = [restore EXCEPT ![r].phase = "ready"] /\ UNCHANGED loader)
  /\ UNCHANGED bucket

\* The staging database is put in service, and the run is over.
Serve(r) ==
  /\ restore[r].phase = "ready"
  /\ Abandon(r)
  /\ UNCHANGED <<bucket, faults>>

StopRestore(r) ==
  /\ restore[r].phase \notin {"idle", "ready"}
  /\ ~restore[r].stopped
  /\ Fault
  /\ restore' = [restore EXCEPT ![r].stopped = TRUE]
  /\ UNCHANGED <<bucket, loader>>

LoadStep(r) ==
  \/ ReadManifest(r) \/ RestoreSchema(r)
  \/ PassOver(r) \/ CloseJobs(r) \/ LoadReturns(r) \/ Finish(r) \/ Serve(r)
  \/ \E w \in Loaders : Hand(r, w) \/ LoadOne(r, w) \/ LoaderReturns(r, w)

LoadNext ==
  \E r \in Restores : PickSnapshot(r) \/ LoadStep(r) \/ StopRestore(r)

-----------------------------------------------------------------------------
LoadTypeOK ==
  /\ restore \in [Restores ->
       [phase : {"idle", "manifest", "schema", "load", "finish", "ready"},
        from : Second, manifest : Manifest \cup {Nothing},
        schema : Instant \cup {Nothing},
        rows : [Tables -> Contents \cup {Nothing}],
        jobs : SUBSET Tables, closed : BOOLEAN, failed : BOOLEAN,
        stopped : BOOLEAN]]
  /\ loader \in [Restores -> [Loaders -> Tables \cup {Nothing, Returned}]]

\* Load returns: its feeder never waits for workers that have all returned.
LoadEnds ==
  \A r \in Restores : restore[r].phase = "load" ~> restore[r].phase # "load"
=============================================================================
