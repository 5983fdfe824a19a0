------------------------------- MODULE Export -------------------------------
(***************************************************************************)
(* A snapshot of the source database (export/run.go): one transaction      *)
(* exports its view of the source, the schema is dumped and the tables are *)
(* copied by a pool of workers that join that view, and the manifest is    *)
(* put last.  While it runs the source is written to, and its tables may   *)
(* be truncated or rewritten, which empties them for every older view; a   *)
(* call may fail, the process may get a signal or be killed, and another   *)
(* snapshot may run, in the same directory if it starts in the same second.*)
(***************************************************************************)
EXTENDS Bucket

CONSTANTS
  Exporters,  \* the snapshot processes
  Copiers,    \* the workers of one copyTables
  Rewritten   \* the tables that are truncated or rewritten now and then

ASSUME RewrittenAssumption == Rewritten \subseteq Tables
ASSUME CopiersAssumption == Copiers # {}

VARIABLES
  source,   \* the instant of the source: its number of commits
  emptied,  \* [Tables -> Instant], the last commit that emptied or rewrote it
  now,      \* the clock
  starts,   \* history: the second in which each snapshot has started
  export,   \* the locals of each exporter
  copier    \* what each worker does

world == <<source, emptied, now, starts>>
exportVars == <<bucket, faults, world, export, copier>>

\* at and instant are the directory and the view of the snapshot, positions
\* the instant of its sequence positions, jobs the tables not handed to a
\* worker yet, closed whether the feeder has closed the channel, entries the
\* results received, failed whether one was an error (which cancels the
\* context of the workers), stopped the signal.
NoExport == [phase |-> "idle", at |-> 0, instant |-> 0, positions |-> 0,
             jobs |-> {}, closed |-> FALSE,
             entries |-> [t \in Tables |-> Nothing], failed |-> FALSE,
             stopped |-> FALSE]

\* A worker waits for a table, copies it, holds its result (an entry, or
\* Nothing for an error), or has returned.
Waiting == [state |-> "wait", table |-> Nothing, result |-> Nothing]
Gone == [Waiting EXCEPT !.state = "gone"]

ExportInit ==
  /\ source = 0
  /\ emptied = [t \in Tables |-> 0]
  /\ now = 0
  /\ starts = <<>>
  /\ export = [e \in Exporters |-> NoExport]
  /\ copier = [e \in Exporters |-> [w \in Copiers |-> Gone]]

\* The context of the workers is done.
Done(e) == export[e].stopped \/ export[e].failed

\* One snapshot at most started in this second, so that no other shares its
\* directory.  The code does nothing to make it so.
Alone(d) ==
  \A i, j \in DOMAIN starts : starts[i] = d /\ starts[j] = d => i = j

\* The rows that the view of an instant has of a table.
Seen(instant, t) == IF emptied[t] > instant THEN Emptied ELSE instant

-----------------------------------------------------------------------------
\* A call with the context of the run.  With a context that is done it is not
\* sent; otherwise it succeeds, or a fault makes it fail, with or without its
\* effect, and so does the run.
Call(e, effect, onSuccess) ==
  \/ ~export[e].stopped /\ effect /\ onSuccess /\ UNCHANGED faults
  \/ /\ \/ export[e].stopped /\ UNCHANGED <<bucket, faults>>
        \/ ~export[e].stopped /\ Fault /\ (effect \/ UNCHANGED bucket)
     /\ export' = [export EXCEPT ![e] = NoExport]
     /\ UNCHANGED copier

\* Slip: the second of the directory is rounded up.
SlipRoundsUp(e) ==
  /\ export[e].phase = "idle"
  /\ Len(starts) < MaxStarts
  /\ starts' = Append(starts, now)
  /\ export' = [export EXCEPT ![e] =
       [NoExport EXCEPT !.phase = "schema", !.at = now + 1, !.instant = source,
                        !.jobs = Tables]]
  /\ UNCHANGED <<bucket, faults, source, emptied, now, copier>>

\* The preflight, which plans the tables, then the transaction that exports
\* its view; if any of it fails nothing has happened.
StartExport(e) ==
  /\ export[e].phase = "idle"
  /\ Len(starts) < MaxStarts
  /\ starts' = Append(starts, now)
  /\ export' = [export EXCEPT ![e] =
       [NoExport EXCEPT !.phase = "schema", !.at = now, !.instant = source,
                        !.jobs = Tables]]
  /\ UNCHANGED <<bucket, faults, source, emptied, now, copier>>

\* pg_dump joins the view, and its file is put in the bucket.
UploadSchema(e) ==
  LET x == export[e] IN
  /\ x.phase = "schema"
  /\ Call(e, bucket' = [bucket EXCEPT ![x.at].schema = x.instant],
       export' = [export EXCEPT ![e].phase = "sequences"] /\ UNCHANGED copier)
  /\ UNCHANGED world

\* The sequences are read, as they stand by now: pg_sequences knows no view.
\* Then copyTables starts its workers.
ReadSequences(e) ==
  /\ export[e].phase = "sequences"
  /\ Call(e, UNCHANGED bucket,
       /\ export' = [export EXCEPT ![e].phase = "copy", ![e].positions = source]
       /\ copier' = [copier EXCEPT ![e] = [w \in Copiers |-> Waiting]])
  /\ UNCHANGED world

-----------------------------------------------------------------------------
(***************************************************************************)
(* copyTables: a feeder, the workers and the receiver of their results are *)
(* concurrent, and the channels between them have no buffer.               *)
(***************************************************************************)

Feed(e, w) ==
  /\ ~export[e].closed
  /\ copier[e][w].state = "wait"
  /\ \E t \in export[e].jobs :
       /\ export' = [export EXCEPT ![e].jobs = @ \ {t}]
       /\ copier' = [copier EXCEPT ![e][w] = [Waiting EXCEPT !.state = "copy",
                                                             !.table = t]]
  /\ UNCHANGED <<bucket, faults, world>>

\* Slip: the feeder returns without closing the channel.
SlipNeverClosed(e) ==
  /\ export[e].phase = "copy"
  /\ ~export[e].closed
  /\ export[e].jobs = {} \/ Done(e)
  /\ export' = [export EXCEPT ![e].jobs = {}]
  /\ UNCHANGED <<bucket, faults, world, copier>>

\* The feeder closes the channel after the last table, or gives up.
StopFeeding(e) ==
  /\ export[e].phase = "copy"
  /\ ~export[e].closed
  /\ export[e].jobs = {} \/ Done(e)
  /\ export' = [export EXCEPT ![e].closed = TRUE]
  /\ UNCHANGED <<bucket, faults, world, copier>>

\* Slip: the worker does not join the exported view, and reads what is
\* committed when it copies.
SlipNoSharedView(e, w) ==
  LET x == export[e]
      t == copier[e][w].table
      copied == t \notin Skipped /\ ~Done(e)
  IN
  /\ copier[e][w].state = "copy"
  /\ copier' = [copier EXCEPT ![e][w].state = "send",
       ![e][w].result = IF copied THEN source ELSE IF Done(e) THEN Nothing ELSE NoRows]
  /\ bucket' = IF copied THEN [bucket EXCEPT ![x.at].data[t] = source] ELSE bucket
  /\ UNCHANGED <<faults, world, export>>

\* copyOne: the rows of the exported view, or an entry without rows, which
\* needs neither a connection nor the context.  When the copy fails, or its
\* context is cancelled on the way, the bucket has all rows, some or none.
CopyOne(e, w) ==
  LET x == export[e]
      t == copier[e][w].table
      rows == Seen(x.instant, t)
      stored(object) == bucket' = [bucket EXCEPT ![x.at].data[t] = object]
      ends(result) == copier' = [copier EXCEPT ![e][w].state = "send",
                                               ![e][w].result = result]
  IN
  /\ copier[e][w].state = "copy"
  /\ \/ t \in Skipped /\ ends(NoRows) /\ UNCHANGED <<bucket, faults>>
     \/ /\ t \notin Skipped /\ ~Done(e)
        /\ stored(rows) /\ ends(rows) /\ UNCHANGED faults
     \/ /\ t \notin Skipped
        /\ (Done(e) /\ UNCHANGED faults) \/ Fault
        /\ stored(rows) \/ stored(Truncated) \/ UNCHANGED bucket
        /\ ends(Nothing)
  /\ UNCHANGED <<world, export>>

\* The result is received: an entry, or the error that cancels the others.
Send(e, w) ==
  LET k == copier[e][w] IN
  /\ k.state = "send"
  /\ export' = IF k.result = Nothing THEN [export EXCEPT ![e].failed = TRUE]
                 ELSE [export EXCEPT ![e].entries[k.table] = k.result]
  /\ copier' = [copier EXCEPT ![e][w] = Waiting]
  /\ UNCHANGED <<bucket, faults, world>>

\* A worker that holds a result may drop it when the context is done.
DropResult(e, w) ==
  /\ copier[e][w].state = "send"
  /\ Done(e)
  /\ copier' = [copier EXCEPT ![e][w] = Gone]
  /\ UNCHANGED <<bucket, faults, world, export>>

WorkerReturns(e, w) ==
  /\ copier[e][w].state = "wait"
  /\ export[e].closed
  /\ copier' = [copier EXCEPT ![e][w] = Gone]
  /\ UNCHANGED <<bucket, faults, world, export>>

\* All workers have returned, so the results are complete: an error, or the
\* entries received, which a signal may have left incomplete.
CopyReturns(e) ==
  /\ export[e].phase = "copy"
  /\ \A w \in Copiers : copier[e][w].state = "gone"
  /\ export' = IF export[e].failed THEN [export EXCEPT ![e] = NoExport]
               ELSE [export EXCEPT ![e].phase = "manifest"]
  /\ UNCHANGED <<bucket, faults, world, copier>>

-----------------------------------------------------------------------------
\* The manifest has the entries received and the positions read.
Publish(e) ==
  bucket' = [bucket EXCEPT ![export[e].at].manifest = export[e].entries,
                           ![export[e].at].positions = export[e].positions]

\* Slip: the manifest is put with a context of its own, so that a signal does
\* not lose the work already done.
SlipManifestIgnoresSignal(e) ==
  /\ export[e].phase = "manifest"
  /\ Publish(e)
  /\ export' = [export EXCEPT ![e] = NoExport]
  /\ UNCHANGED <<faults, world, copier>>

\* The previous manifest is read for a warning only; then the manifest is put.
PutManifest(e) ==
  /\ export[e].phase = "manifest"
  /\ Call(e, Publish(e),
       export' = [export EXCEPT ![e] = NoExport] /\ UNCHANGED copier)
  /\ UNCHANGED world

Signal(e) ==
  /\ export[e].phase # "idle"
  /\ ~export[e].stopped
  /\ Fault
  /\ export' = [export EXCEPT ![e].stopped = TRUE]
  /\ UNCHANGED <<bucket, world, copier>>

Killed(e) ==
  /\ export[e].phase # "idle"
  /\ Fault
  /\ export' = [export EXCEPT ![e] = NoExport]
  /\ copier' = [copier EXCEPT ![e] = [w \in Copiers |-> Gone]]
  /\ UNCHANGED <<bucket, world>>

\* A snapshot has started, and one runs or may still start.  What the source and
\* the clock do before and after makes no difference to any of them, and is left
\* out to bound the runs.
Watched ==
  /\ starts # <<>>
  /\ Len(starts) < MaxStarts \/ \E e \in Exporters : export[e].phase # "idle"

\* The source commits a transaction, which may truncate or rewrite tables: who
\* looks with an older view finds them empty.
Write ==
  /\ source < MaxWrites /\ Watched
  /\ source' = source + 1
  /\ \E gone \in SUBSET Rewritten :
       emptied' = [t \in Tables |-> IF t \in gone THEN source' ELSE emptied[t]]
  /\ UNCHANGED <<bucket, faults, now, starts, export, copier>>

\* A second passes; only a start looks at the clock.
Tick ==
  /\ now < MaxTime
  /\ Len(starts) \in 1 .. MaxStarts - 1
  /\ now' = now + 1
  /\ UNCHANGED <<bucket, faults, source, emptied, starts, export, copier>>

CopierStep(e, w) ==
  Feed(e, w) \/ CopyOne(e, w) \/ Send(e, w) \/ DropResult(e, w)
  \/ WorkerReturns(e, w)

ExportStep(e) ==
  \/ UploadSchema(e) \/ ReadSequences(e)
  \/ StopFeeding(e) \/ CopyReturns(e) \/ PutManifest(e)
  \/ \E w \in Copiers : CopierStep(e, w)

ExportNext ==
  \/ \E e \in Exporters : StartExport(e) \/ ExportStep(e) \/ Signal(e) \/ Killed(e)
  \/ Write
  \/ Tick

-----------------------------------------------------------------------------
ExportTypeOK ==
  /\ bucket \in [Second -> Directory]
  /\ faults \in 0 .. MaxFaults
  /\ source \in Instant
  /\ emptied \in [Tables -> Instant]
  /\ now \in Second
  /\ starts \in Seq(Second) /\ Len(starts) <= MaxStarts
  /\ export \in [Exporters ->
       [phase : {"idle", "schema", "sequences", "copy", "manifest"},
        at : Second, instant : Instant, positions : Instant,
        jobs : SUBSET Tables, closed : BOOLEAN, entries : Manifest,
        failed : BOOLEAN, stopped : BOOLEAN]]
  /\ copier \in [Exporters -> [Copiers ->
       [state : {"wait", "copy", "send", "gone"}, table : Tables \cup {Nothing},
        result : Entry]]]

\* A directory of one snapshot that has a manifest is a whole snapshot: every
\* table of the source is in the manifest, the schema is there, and so are, for
\* every table that is exported, the rows that the manifest counts, whatever
\* failed or was interrupted on the way.
PublishedWhole ==
  \A d \in Second : Alone(d) /\ bucket[d].manifest # Nothing =>
    /\ bucket[d].schema # Nothing
    /\ \A t \in Tables :
         /\ bucket[d].manifest[t] # Nothing
         /\ t \notin Skipped => bucket[d].data[t] = bucket[d].manifest[t]

\* In a directory of one snapshot the rows of every table are of the instant of
\* the schema, however long the copy takes, except that a table truncated or
\* rewritten after that instant may have none; and the positions of the
\* sequences are of that instant or later, never behind the rows.  This is what
\* the shared view of run.go gives, less than its comment says of it.
OneInstant ==
  \A d \in Second : Alone(d) =>
    /\ \A t \in Tables : LET rows == bucket[d].data[t] IN
         /\ rows \in Instant => rows = bucket[d].schema
         /\ rows = Emptied => bucket[d].schema \in 0 .. emptied[t] - 1
    /\ bucket[d].manifest # Nothing =>
         bucket[d].positions \in Instant /\ bucket[d].schema <= bucket[d].positions

\* copyTables returns: no worker, feeder or receiver waits for ever.
CopyEnds ==
  \A e \in Exporters : export[e].phase = "copy" ~> export[e].phase # "copy"
=============================================================================
