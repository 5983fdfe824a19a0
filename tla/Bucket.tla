------------------------------- MODULE Bucket -------------------------------
(***************************************************************************)
(* The bucket between a snapshot and a restore (blobstore/store.go).  It   *)
(* is the only thing the two share.  Each snapshot has a directory, named  *)
(* by the second in which it started, and the name of a directory exists   *)
(* as soon as it has one object.  An object is put at once, when the put   *)
(* ends; a put whose data fails half way may leave a truncated object.     *)
(*                                                                         *)
(* Rows are abstracted to the instant of the source that they are of: two  *)
(* objects of one instant agree with each other.                           *)
(***************************************************************************)
EXTENDS Integers, FiniteSets, Sequences

CONSTANTS
  Tables,     \* the tables of the source, by qualified name
  Skipped,    \* the tables whose rows the configuration does not export
  MaxTime,    \* bound on the clock, in seconds
  MaxStarts,  \* bound on the snapshots that start
  MaxWrites,  \* bound on the commits of the source
  MaxFaults,  \* bound on failed calls, signals and crashes
  Nothing     \* no object, or no entry in a manifest

VARIABLES
  bucket,  \* [Second -> Directory]
  faults   \* faults so far

Second == 0 .. MaxTime
Instant == 0 .. MaxWrites
NoRows == -1     \* the entry of a table whose rows are not exported
Truncated == -2  \* the first rows of a table only
Emptied == -3    \* no row of a table that was emptied or rewritten meanwhile

\* What a copy of a table may hold when it went well.
Contents == Instant \cup {Emptied}

ASSUME SkippedAssumption == Skipped \subseteq Tables
ASSUME LimitsAssumption ==
  MaxTime \in Nat /\ MaxStarts \in Nat /\ MaxWrites \in Nat /\ MaxFaults \in Nat
ASSUME NothingAssumption ==
  Nothing \notin Contents \cup {NoRows, Truncated} \cup Tables

\* A manifest is absent or maps each table to its entry: the contents that
\* stand for the number of rows copied, NoRows, or no entry at all.
Entry == Contents \cup {NoRows, Nothing}
Manifest == [Tables -> Entry]

\* positions is the part of the manifest that says where the sequences stood:
\* the instant at which they were read.
Directory == [schema : Instant \cup {Nothing},
              data : [Tables -> Contents \cup {Truncated, Nothing}],
              manifest : Manifest \cup {Nothing},
              positions : Instant \cup {Nothing}]

Empty == [schema |-> Nothing, data |-> [t \in Tables |-> Nothing],
          manifest |-> Nothing, positions |-> Nothing]

\* ListSnapshots: the directories with any object, whatever it is.
Snapshots == {d \in Second : bucket[d] # Empty}

\* LatestSnapshot: the name that sorts last.
LatestSnapshot == CHOOSE d \in Snapshots : \A o \in Snapshots : o <= d

Fault == faults < MaxFaults /\ faults' = faults + 1
=============================================================================
