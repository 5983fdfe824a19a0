---------------------------- MODULE DatabaseSet ----------------------------
(***************************************************************************)
(* What the catalog says about a target database and its siblings, and     *)
(* the decisions a restore takes from it (restore/state.go, and            *)
(* uniqueBackupName in restore/database.go).  There is no journal: the     *)
(* names that exist are the entire persisted state of a restore.           *)
(*                                                                         *)
(* A backup name is  <target>_backup_<second>  or, when that is taken,     *)
(* <target>_backup_<second>_<nn>.  It is modelled by the pair              *)
(* <<second, nn>>, with 0 for "no suffix": the order of the strings is the *)
(* lexicographic order of the pairs, since a name without a suffix is a    *)
(* proper prefix of the ones with a suffix and nn is zero padded.          *)
(***************************************************************************)
EXTENDS Integers, FiniteSets

CONSTANTS
  MaxTime,    \* bound on the clock, in seconds
  MaxSuffix   \* the largest suffix tried; 99 in the code

ASSUME MaxTimeAssumption == MaxTime \in Nat
ASSUME MaxSuffixAssumption == MaxSuffix \in Nat

Second == 0 .. MaxTime

\* The stamps a backup name can carry.
Stamp == Second \X (0 .. MaxSuffix)

\* "No name": what NewestBackup and uniqueBackupName return when there is none.
NoStamp == <<-1, -1>>

\* sort.Strings on two backup names of one target.
Before(s, r) ==
  \/ s[1] < r[1]
  \/ s[1] = r[1] /\ s[2] < r[2]

\* Slip: a format with the hours of a 12-hour clock, whose names wrap around.
SlipTwelveHourName(second) == <<second % 2, 0>>

\* BackupName: the name for the current second.
BackupName(second) == <<second, 0>>

\* The last of the sorted backups.
IsNewest(s, backups) ==
  /\ s \in backups
  /\ \A r \in backups : r # s => Before(r, s)

\* Slip: the first of the sorted names.
SlipFirstBackup(backups) ==
  IF backups = {} THEN NoStamp
  ELSE CHOOSE s \in backups : \A r \in backups : r # s => Before(s, r)

NewestBackup(backups) ==
  IF backups = {} THEN NoStamp
  ELSE CHOOSE s \in backups : IsNewest(s, backups)

OldestBackup(backups) ==
  CHOOSE s \in backups : \A r \in backups : r # s => Before(s, r)

\* Slip: one backup more than asked is kept.
SlipKeepOneMore(backups, keep) ==
  {s \in backups : Cardinality({r \in backups : Before(s, r)}) > keep}

\* The backups to drop so that `keep` of them remain: those with at least
\* `keep` newer ones.
ExpiredBackups(backups, keep) ==
  {s \in backups : Cardinality({r \in backups : Before(s, r)}) >= keep}

\* The name of the current second, else the first free suffix, else none.
UniqueBackupName(backups, second) ==
  LET base == BackupName(second)
      free == {i \in 1 .. MaxSuffix : <<base[1], i>> \notin backups}
  IN
  IF base \notin backups THEN base
  ELSE IF free = {} THEN NoStamp
  ELSE <<base[1], CHOOSE i \in free : \A j \in free : i <= j>>

\* Classify reduces the catalog to the one fact a restore needs.
StateIdle == "idle"
StateOrphanedStaging == "orphaned_staging"
StateCrashedMidSwap == "crashed_mid_swap"
StateMissing == "missing"

States == {StateIdle, StateOrphanedStaging, StateCrashedMidSwap, StateMissing}

Classify(exists, backups, staging) ==
  CASE exists /\ staging = {}      -> StateIdle
    [] exists /\ staging # {}      -> StateOrphanedStaging
    [] ~exists /\ backups # {}     -> StateCrashedMidSwap
    [] ~exists /\ backups = {}     -> StateMissing
=============================================================================
