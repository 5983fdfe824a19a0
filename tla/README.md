# Verification of pg-snapshot

pg-snapshot copies a scrubbed snapshot of a postgres database into a bucket and restores such a
snapshot, in another environment, over a database that is in use. This directory holds TLA+ models
of the program, the TLC configurations that check them, and theorems about the snapshot and the
restore that the TLA+ proof system checks for every value of the constants. `PROJECT.json` lists the
runs, the source lines that each definition stands for, and the hazards that the properties are for.

## The system

| Part | State it keeps | Operations | Interacts with |
|---|---|---|---|
| Restore state machine (`restore/state.go`) | none; a `DatabaseSet` read from the catalog | `Classify`, `NewestBackup`, `ExpiredBackups`, `BackupName`, `StagingName` | called by Admin and by Run |
| Database administration (`restore/database.go`) | the catalog of the instance: which database has which name, and `ALLOW_CONNECTIONS` | `Inspect`, `Lock`, `Unlock`, `CreateDatabase`, `DropDatabase`, `TerminateConnections`, `RenameDatabase`, `Swap`, `uniqueBackupName`, `Recover` | postgres, the clock, clients of the target, other runs |
| Restore run (`restore/run.go`) | locals of one process; its advisory lock | lock, recover, expire, select a snapshot, create staging, load, swap, rebind, deferred cleanup | all of the parts below |
| Command line (`cmd/pgsnap`) | the signal context | `runSnapshot`, `runRestore`, `runRepair` | starts the runs, cancels them |
| Data loader (`restore/loader.go`, `resolveSnapshot`, `fetchSchema`) | a channel of jobs, a pool of workers, the staging database | `Load`, `loadOne`, `ApplySequences` | reads the bucket |
| Replication slots (`restore/slots.go`) | the list of captured slots; slots are cluster-wide | `Capture`, `CanCreate`, `Rebind` | before and after the swap; consumers |
| Borrowed memberships (`restore/tempgrant.go`) | memberships in the instance's role catalog, a lock on a connection | `borrowRoles`, `lockRole`, `release` | privileges, publications; other restores |
| Privileges, publications, settings (`restore/privileges.go`, `publications.go`, `carryover.go`) | none; catalog rows of the target, replayed on staging | `CarryDefaults`, `Carry`, `apply`, `create`, `Apply` | borrow memberships |
| Schema filter, extensions, migrator | none | rewrite of the archive's list, tables that extensions own, one external command | restore run |
| Snapshot run (`export/run.go`) | one read-only transaction that exports its view, channels, a pool of workers | preflight, `uploadSchema`, `Sequences`, `copyTables`, `copyOne`, the manifest | the source, the bucket |
| Preflight, catalog, sequences, tail window (`export/`) | none | read-only planning | snapshot run |
| Scrub configuration (`scrub/`) | none | parsing, projection of a table, transforms as SQL | preflight, snapshot run |
| Manifest (`export/manifest.go`) | one object | `Marshal`, `ParseManifest`, `Validate` | written last by a snapshot, read first by a restore |
| Bucket (`blobstore/`) | objects; one directory for each snapshot | `Put`, `Get`, `ListSnapshots`, `LatestSnapshot` | the only thing a snapshot and a restore share |
| pg plumbing (`pg/`), `pgsnap-probe`, `acc/` | pools of connections | open pools, run pg_dump and pg_restore, log phases | everything |

What is hard about it:

* There is **no journal**. A restore that dies is put right by the next run from the names of the
  databases alone, so every prefix of every statement sequence has to leave names that say enough.
* **Statements fail in three ways**: refused, not sent, or executed with the reply lost; after a
  signal nothing more is sent with the run's context, while the deferred statements still are.
* **Clients and poolers reconnect** between any two statements, and an open session blocks a rename.
* **Runs overlap**: two restores, a restore and a repair, restores of two targets of one instance
  which share the name space of staging databases and the catalog of role memberships.
* The **lock belongs to a session of a pool**, whose idle and age limits are shorter than a load.
* **Backup names are times**: two swaps in one second, a clock that steps back, a reused suffix.
* A snapshot is **not atomic** in the bucket: only its manifest, put last, says that it is whole, and
  both `copyTables` and `Loader.Load` return no error when a signal made them stop half way.
* **Worker pools** on channels without buffers have to end after an error, a signal or both.
* The **source does not stand still**: the preflight reads its catalog with one query after the other
  before the view of the snapshot is exported, the positions of sequences are no part of any view, and
  a migration, a `TRUNCATE` or a new policy may come between any two queries.
* The **sizes of a tail window** are products of 64 bits made from a sample of a few pages.

What makes each part correct: of the restore, that runs exclude each other, that only a completely
loaded database gets the target's name, that names alone lead back to the database that served last,
and that what users see is one database replaced by a younger one; of a snapshot, that a published one
is whole and of one instant, that every rule of its configuration was applied to what it names, that
nothing was filtered in silence, that what the preflight accepts can be dumped, copied and restored,
and that a restored sequence resumes above every restored row; of the loader, that what it hands on is
whole; of the slots, that no captured one is forgotten and none is dropped that has a new owner; of
borrowed memberships, that they last as long as they are needed and no longer; of the privileges, that
no grant is lost, that none is widened beyond what a global rule or postgres itself grants, and that
new objects, now and later, are granted what the target's rules and postgres give them.

## The modules

| Module | What it models |
|---|---|
| `DatabaseSet` | the names, and the decisions taken from them (`state.go`, `uniqueBackupName`) |
| `Restore` | restores and repairs of the targets of one instance: every statement of `Recover`, `Run` and `Swap` is one action |
| `Cutover` | abstract: what a restore promises to the users of a target |
| `Bucket` | the objects of the snapshots of one database |
| `Export` | a snapshot: the shared view, `copyTables` with feeder, workers and receiver, the manifest |
| `Loader` | a restore's way from the bucket to a full staging database, with the pool of `Loader.Load` |
| `Transfer` | `Export` and `Loader` around one `Bucket` |
| `Slots` | replication slots, their consumers, the swap and the rebinding |
| `TempGrant` | borrowers of memberships in different databases of one instance |
| `Privileges` | the grants and default rules that a restore carries from the target to staging |
| `Publications` | `Privileges` with a publication of the target, created again in staging |
| `Carryover` | `Publications` with the ACL and the settings of the database itself: all that a restore carries |
| `LostLock` | `Restore` when the pool may close the session that holds the lock |
| `Scrub` | the configuration: validation, transforms, the projection of a table |
| `Tail` | the window of a tail: the sizing with integers of fixed width, the shortfall report |
| `Plan` | a snapshot of a changing source: preflight, view, schema dump, positions, copies, manifest |
| `Rebuild` | `Plan`, and the database that a restore builds of what was published |
| `Content` | the composition of `Plan` and `Rebuild`, and what they promise together |
| `MCRestore`, `MCTransfer`, `MCSlots`, `MCTempGrant`, `MCPrivileges`, `MCContent` | instances for TLC |
| `Restore_proofs`, `RestoreSafety_proofs`, `Swap_proofs` | theorems about `DatabaseSet`, `Restore`, `LostLock`, and that `Restore` implements `Cutover` |
| `Transfer_proofs`, `Slots_proofs`, `TempGrant_proofs` | theorems about `Transfer`, `Slots`, `TempGrant` |
| `Privileges_proofs`, `Content_proofs` | theorems about `Carryover`, hence of `Privileges` and `Publications`, and about `Content` |

Four groups are composed each on its own: `DatabaseSet`, `Restore`, `LostLock` (names and statements);
`Bucket`, `Export`, `Loader`, `Transfer` (objects, workers, faults); `Scrub`, `Tail`, `Plan`,
`Rebuild`, `Content` (what a snapshot holds and what becomes of it); `Privileges`, `Publications`,
`Carryover` (what the target hands on). `Slots` and `TempGrant` stand alone. The groups meet in
`Restore!Load`, which fills a staging database or fails.

The definitions named `Slip...` are plausible mistakes: each has the parameters of the definition it
follows, and with that definition replaced by it a property of a run is violated. They show that the
property says something about that code; no specification uses them.

### Restore

The catalog is `live` (what the target's name holds), `backups` (by target and stamp) and `staging`
(by the number of the restore, which stands for the random staging name). A database is a record of
its identity, `ALLOW_CONNECTIONS`, whether a session is attached, and a history field `ready`: its
load was completed. `last` is a history variable, the identity that most recently had the name.
`pc[p]` is the statement that process `p` sends next and `job[p]` its locals. `Statement(p, can,
effect, ok, err)` is the one place that says how a statement ends: executed (with the reply, or with
the reply lost and perhaps the context cancelled), refused by the server when `can` is false, or not
executed because the context is cancelled or by a fault. `Cleanup` and `Unlock` are the deferred
statements, which `context.WithoutCancel` protects from a signal. `Crash` ends a process at any
point; its session, and so its lock, goes with it. `LostLock!ReapLockSession` takes the lock away
while the data loads and leaves the run in the belief that it has it.

`Load` stands for everything between `CREATE DATABASE` and the closing of the pools: from the point
of view of the names it is one step which fills staging or fails. Its inside is `Loader`, `TempGrant`
and the first half of `Slots`. A backup name is a pair of a second and a suffix, ordered as the
strings are. `DROP DATABASE ... WITH (FORCE)` is never refused; a rename is refused when a session
is attached, the new name is taken or the old one does not exist.

Sessions come and go by themselves. `ClientConnect` and `ClientDisconnect` are those of the target;
`StagingConnect` and `StagingDisconnect` those of a staging database: what a migration left behind, or
anybody on the instance, as `CREATE DATABASE` leaves it open and `Swap` terminates its sessions without
closing it (`database.go:170-174`). So the second rename can lose the race that the comment at
`database.go:117-119` describes. `NoSwapStuck` says what holds all the same: the first rename cannot be
refused, as its source is closed before it is disconnected and its new name was looked up; at the second
the name of the target is free and staging exists, so only a session on staging can be in its way; and
the rollback that follows cannot be refused.

### Cutover

Users of a target see which database its name holds. `Cutover` says that the name is withdrawn and
then holds the same database again or a younger one that was ready before. `Restore` implements it
under the mapping `holds <- last`, `present <- live # NoDb`, `ready <-` the loaded staging databases
(`ImplementsCutover`).

### Bucket, Export, Loader, Transfer

Rows are abstracted to the instant of the source at which they were read; the number of rows that a
manifest records is abstracted to the same instant. So two tables of one instant agree with each
other, and a load whose count differs from the manifest's shows a different instant (the same count
may hide one, so `LoadOne` may also accept it). A commit of the source may truncate or rewrite tables,
which a view older than it then finds `Emptied` (`Seen`). The positions of the sequences are read as
they stand when they are read, `positions`, not when the view was exported. `Truncated` is what the
GCS client commits when the rows end with an error. Each worker, the feeder and the receiver act on
their own; `Done` is the cancelled context, by a signal or by an error that was received. `Loader` has
the different protocol of `Loader.Load`: the feeder passes over tables when the context is done, and a
worker that fails cancels and returns. `Serve` is the swap.

A directory is named by the second in which its snapshot starts, and nothing in the code keeps two
snapshots of a database from starting in one second, and from writing to one directory. The model
lets them. The promises about directories are made of those that one snapshot has (`Alone`): without
that condition each of the three has a counterexample.

### Slots

The databases that had the target's name are numbered; all but the current one are backups. Of the
swap only the statements that matter to slots are kept. Consumers attach, detach, create and drop
slots whenever the server lets them. Each restore starts with a new captured list (`NextRestore`).

### TempGrant

Each run is connected to a staging database of its own, memberships are one catalog, and a lock
belongs to one database, since advisory locks do. `whole` tells a publication, which needs all of its
owners at once, from grants, of which each statement needs one.

### Privileges

An ACL says of each grantee what it holds of one privilege: nothing, the privilege, or the privilege
with its grant option. `target` and `staging` are the objects that exist, their ACLs and the default
rules, as `readObjects` reads them; of `staging` also the owners. Staging begins with the objects of
the template and what is granted on these (`InTemplate`: `USAGE` of its schema to `PUBLIC`), and with
the rules that are in force where nobody altered any (`Unaltered`): a new routine is granted to
`PUBLIC` (`BuiltIn`). A global rule takes the place of these, so the target's may revoke what postgres
grants; replaying it only adds to them. `CarryDefaults` comes before anything is created; then
`Create` and `Drop` stand for pg_restore and the migration, with what postgres grants at a creation
(`AtCreation`), and `Regrant` for the users of the target; then `Carry` is `Plan` and its statements.
`RuleRefused` is the error of a rule for a schema that staging lacks. `pg_database_owner` owns what is
in the template, and the role it stands for decides whether it can be acted for. That a failed
statement ends the run, and how the memberships for the statements are borrowed, is `TempGrant`: its
job is `Privileges.apply` (`BeginGrants`) or one `CREATE PUBLICATION` (`BeginPublication`).

### Publications and Carryover

`CarryDatabase` is `Carryover.Apply`: one `GRANT` for each grantee and option group on the database,
over the grants that `CREATE DATABASE` made, and one literal for each setting (`Quoted` says which
values one literal changes). `Build` is everything between it and the last carry: what pg_restore and
the migration create and drop. `CarryPublications` is `create` with its two ways to be allowed: as a
member of all owners, or because the user may publish anything.

### Scrub, Tail, Plan, Rebuild, Content

A table has a shape (kind, columns, row level security, whether the role can read it, what it refers
to) and rows, which are the values of its sequence. Each query of the preflight is one action; it
reads the catalog of its moment, and `seen` is what it has read so far. `OpenView` exports the view.
From there `DumpSchema`, `ReadSequences` and `Copy` see the rows and the catalog of the view, but
locks, permissions, policies, columns and positions as they are when the statement is sent. `Change`,
`Truncate` and `Insert` are the source: a migration that rewrites a table, or a `TRUNCATE`, leaves an
older view without rows (`gone`), and a value taken from a sequence may or may not become a row.
`Copy` takes what it is told to take: all rows, those that a predicate accepts, those of the window
that `Tail!StartPage` finds for some number of pages and some placement of the rows. `Rebuild` replays
what was published: a view needs its tables, a column takes what a transform writes or does not
(`Fits`), `setval` needs its sequence, a foreign key its parents. `Position` follows the servers that
the program supports: `pg_sequences` has a row for every sequence, with a null value for one that the
role cannot read (`Hidden`), so `Sequences` takes that one for never called and does not come to
`max_column`.

What a restore can and cannot rely on is stated as a list of exceptions that are each real:
`Overlooked` (two cases that the preflight does not see), `Orphans`, `steady` (nothing changed
between preflight and view). Each of them was also left out in turn, and TLC then found the case.

## The runs

| Run | Bounds | Shows |
|---|---|---|
| `core` | 2 processes, 1 target, 3 restores, 2 faults, retention 1, 3 seconds, 2 suffixes, clock may step back, restores may take no time, fairness | `MutualExclusion`, `CompleteTarget`, `BackupsSealed`, `NoSwapStuck`, `BackupBound`, `StagingIsMine`, `TargetComesBack`, `StagingCollected` |
| `recovery` | 2 processes, 2 targets, 2 restores, 2 faults | `RecoverableTarget`, `BackupsInOrder`, `ImplementsCutover` |
| `transfer` | 3 tables (one without rows, one that may be truncated or rewritten), 2 snapshots one after the other, in one second or in two, with 1 worker, 1 restore with 1 worker, 1 commit of the source, 1 fault, fairness | `PublishedWhole`, `OneInstant`, `LoadedWhole`, `CopyEnds`, `LoadEnds` |
| `slots` | 2 names, 2 swaps, 1 fault | `OrphansInactive`, `RebindComplete` |
| `borrow` | 2 restores, 3 owners (ordinary, superuser, reserved), 1 fault, fairness | `GivenBack`, `CarryEnds` |
| `privileges` | 1 schema of the template, 1 table, 1 column, 1 routine; 5 grantees with `PUBLIC`, of which 2 create and 1 is out of reach; 3 ACLs; 7 sets of rules (none, global and scoped, of a role out of reach, revoking what `PUBLIC` has); database ACLs, settings and publications of every form | `Carried`, `NothingWidened`, `NewAsDefault`, `CreatedLater`, `DatabaseCarried`, `PublicationsKept` |
| `content` | 3 tables, 6 catalogs, 15 configurations, 1 migration or truncation and 1 insert at any point, rows 2, 3 and 4 at first (row 1 was deleted), up to 4 pages of which 2 are probed, 16-bit integers | `RulesApplied`, `RowsWhole`, `Agrees`, `PreflightSuffices`, `Restorable`, `SequencesAbove`, `TailSized` |
| `stays_closed`, `foreign_staging`, `reaped_lock`, `shared_borrow`, `hidden_sequence` | as small as the counterexample | a disagreement of the code with what it says; see below |

Each of the seven passing runs but `recovery` also checks the type invariant of its module.

Why the bounds are enough. Every hazard needs few actors. Two processes are the two that can overlap;
a third waits for the same lock. Three restores give a target two backups beside it, the smallest
number for which an order, a retention of one and a reused suffix mean anything. Two faults allow an
interrupted swap followed by an interrupted recovery. Two targets are what sharing one name space
needs. One commit lets the source change between any two copies, and between the view and the
positions; two snapshots meet in one directory or leave one that has no manifest before one that has.
`transfer` has one worker in each pool and one fault in all: one worker already meets the feeder and
the receiver on channels that nobody else empties, and one fault is enough for a run that ends without
publishing, which the next one and the restore then find. With a single snapshot, two workers in each
pool, and two workers with two faults (a call that fails after a signal), were checked once with the
same properties; the safety is proved for any number of workers and faults. In `content` a table, one
that refers to it and a third that may be a view, a partitioned parent or absent are what a foreign
key, an excluded dependent and an unknown rule need; the integers are narrow, so that a tail of 300
rows overflows where one of 64 bits would for huge requests. Two migrations, and two
inserts, each with two rows at first, were also checked once and take too long to repeat.

`MaxTime`, `MaxSuffix`, `MaxRestores`, `MaxFaults`, `MaxStarts`, `MaxWrites`, `MaxSwaps`, `MaxPages`,
`MaxChanges` and `MaxInserts` are the only bounds of the state spaces. `MinRunTime` is the least
duration of a restore: 1 second states the comment of `uniqueBackupName` that a run takes minutes, 0
drops it. In `Export` the source and the clock stand still (`Watched`) before the first snapshot and
after the last: what they do there is seen by none.

Symmetry is used for the two processes, in `foreign_staging` only.

### Fairness

`Restore!FairSpec` assumes that a process that is not killed sends its next statement, that repairs
are started again and again (an operator, or the first phase of a scheduled restore), and that time
passes. No client, signal or fault is fair. `Transfer!FairSpec` and `TempGrant!FairSpec` assume only
that a process that is not killed goes on: goroutines that can run do run, and each call to the
server or the bucket ends, well or not.

## What the runs found

* `stays_closed`: `Swap` closes the target before it renames it, and `Recover` renames a backup back
  before it opens it. A run that dies in between leaves a target that exists and refuses connections.
  `Classify` calls that idle, no later recovery opens it, and every later restore fails when it
  connects to the target. A failure of one of the statements after the closing has the same result,
  as the error returns of `Swap` do not open the target again.
* `foreign_staging`: `Inspect` takes every `restored_*` database of the instance for an orphan of the
  target at hand; the lock is per target. A restore of one target drops the staging database of
  another's.
* `reaped_lock`: `pgxpool` closes idle and old sessions, and with one of them the advisory lock that
  a restore believes to hold. Even then only a completely loaded database gets the target's name
  (`CompleteWithoutLock`, proved). `RecoverableTarget` does not survive: overlapping runs can leave a
  missing target whose newest backup is not the one that served last.
* `shared_borrow`: the lock of `lockRole` is local to the staging database of its run, so borrowers
  of two restores do not exclude each other, and one revokes what the other relies on.
* `hidden_sequence`: `pg_sequences` has a row with a null value for a sequence that the role cannot
  read. `Sequences` takes it for a sequence that was never called, so `max_column` is not used, and
  the restored sequence gives out values that are taken.

Seen while modelling, without a run of their own.

Of the restore:

* The comment at `database.go:215` that two backups of one second are in arbitrary order either way is
  right about the rows but not about recovery, which must pick the one that served last (`recovery`
  and the theorems about the order need `MinRunTime` 1 and a clock that does not step back; `core`
  allows both and does not claim the order).
* At rest there is one backup more than the retention (`BackupBound`), while `DESIGN.md:423` counts
  one database and its backup.
* `rebindOne` (`slots.go:132`) drops whatever has the name of the captured slot and is not active,
  also the slot that a consumer has created in the new database in the meantime.
* After a signal `release` sends no `REVOKE`, so a borrowed membership stays.
* `LatestSnapshot` may name a directory that has no manifest, and the restore then fails instead of
  taking the one before it.
* `fk_mode` is parsed, stored in the manifest (`export/run.go:181`) and logged; nothing in `restore/`
  reads it, though `config.go:96-98`, `README.md:66` and `README.md:126` promise `NOT VALID`. So
  `skip-data`, `where` or a tail on a referenced table orphans children and the restore fails
  (`Orphans` in `Restorable`). The error for a wrong `fk_mode` offers `validate`, which is refused.
* `privileges.go:48` and `README.md:271` say that an object of both databases gets exactly the
  target's grants, entry for entry. It gets more: since the global rules are in force while pg_restore
  creates everything, what they say for its new owner, so that a table whose column-level `SELECT` was
  deliberate may be readable as a whole afterwards; and, as `privileges.go:26-29` admits, what
  postgres grants to `PUBLIC` on it, or has granted in the template, though the target had revoked it.
  The same is true of new objects, and of rules: a rule that revokes `EXECUTE` from `PUBLIC` is not
  carried, so every later routine of that role is granted to `PUBLIC` (`privileges.go:54` promises
  only that they keep working). `NothingWidened`, `NewAsDefault` and `CreatedLater` state what does
  hold, with just these additions. A rule for a schema that the migration dropped fails the restore,
  while grants on missing objects are skipped.
* The database's own ACL: what `CREATE DATABASE` grants `PUBLIC` comes back though the target had
  revoked it; if an entry has one privilege with the grant option, all of it gets the option; a
  setting that is a list (`search_path = a, b`) is set as one literal, hence as one name
  (`carryover.go:176-184`). `DatabaseCarried` is stated up to these.
* Publications: `publicationOwners` asks for more owners than the server does, those of every table of
  the schemas that the listed tables are in; a publication of schemas and tables, and new columns of a
  table with a column list, are no drift.

Of the snapshot:

* The plan is read before the view (`run.go:85-150`). A migration in between makes dump and entries
  disagree, against `tools.go:36-38`; `Agrees` therefore says `steady`. Positions of sequences are
  read as they are at that moment, not at the instant of the view as `run.go:111-112` says. That is
  harmless for sequences that the role can read, as they can only be higher (`SequencesAbove`;
  `OneInstant` says of the positions only that they are not behind the rows).
* A `TRUNCATE`, or an `ALTER TABLE` that rewrites, empties the table for an older view, so the
  snapshot has fewer rows than its instant had, without an error (`gone` in `Plan`, `Emptied` in
  `Export`). Against `run.go:111-112`, such a table may be of a later instant than the others.
* `Overlooked`: the exemption query takes an owner to be exempt where row level security is forced, and
  the copy then fails; pg_dump locks a partitioned parent, of which the preflight does not ask whether
  it can be read.
* `max_column` and `unavailable` (`sequences.go:27-30`) are never used: see `hidden_sequence`.
* `mode: skip` on a table with an identity column leaves its position in the manifest, and `setval`
  fails at the restore.
* The sizing of a tail overflows for a huge `tail_rows`; the shortfall is still reported.

## What is proved

For any sets of processes, targets, workers, tables, slots, roles and objects and any values of the
bounds, from the assumptions that the modules state about their constants. Every invariant that a
passing run checks has a theorem, and so has the refinement of `Cutover`; where a theorem has a
condition of its own, the statement names it.

| Theorem | Statement |
|---|---|
| `Restore_proofs!TypeCorrect` | `Spec => []TypeOK` |
| `Restore_proofs!NewestBackupIsNewest` | a finite nonempty set of stamps has a newest one and `NewestBackup` is it |
| `Restore_proofs!UniqueBackupNameFree` | the name picked for a backup is free and of the current second |
| `RestoreSafety_proofs!RestoresExclude` | `Spec => []MutualExclusion` |
| `RestoreSafety_proofs!BackupsStaySealed` | `Spec => []BackupsSealed` |
| `RestoreSafety_proofs!RecoveryIsRight` | without `ClockSteps` and with `MinRunTime` not 0, `Spec => []RecoverableTarget` |
| `RestoreSafety_proofs!BackupsAreBounded` | `Spec => []BackupBound` |
| `Swap_proofs!BackupNamesInOrder` | without `ClockSteps` and with `MinRunTime` not 0, `Spec => []BackupsInOrder` |
| `Swap_proofs!StagingStaysMine`, `NoSwapIsStuck` | if all targets are one, `Spec => []StagingIsMine`, `Spec => []NoSwapStuck` |
| `Swap_proofs!CompleteWithoutLock`, `TargetsAreComplete` | `ReapingSpec => []CompleteTarget`, `Spec => []CompleteTarget` |
| `Swap_proofs!RestoreImplementsCutover` | without `ClockSteps` and with `MinRunTime` not 0, `Spec => ImplementsCutover` |
| `Transfer_proofs!TransferTypes` | `Spec => []TypeOK` |
| `Transfer_proofs!SnapshotsAreWhole`, `SnapshotsAreOfOneInstant`, `LoadsAreWhole` | `Spec => []PublishedWhole`, `[]OneInstant`, `[]LoadedWhole` |
| `Slots_proofs!SlotsTyped`, `OrphansHaveNoConsumer`, `RebindsAreComplete` | `Spec => []TypeOK`, `[]OrphansInactive`, `[]RebindComplete` |
| `TempGrant_proofs!BorrowTypes`, `BorrowsAreGivenBack` | `Spec => []TypeOK`, `[]GivenBack` |
| `Privileges_proofs!WellFormed` | `CarryoverSpec => []TypeOK` |
| `Privileges_proofs!GrantsAreCarried`, `GrantsAreNotWidened`, `NewObjectsAsDefault`, `RulesAreCarried` | `CarryoverSpec => []Carried`, `[]NothingWidened`, `[]NewAsDefault`, `[]CreatedLater` |
| `Privileges_proofs!PublicationsAreKept`, `DatabaseIsCarried` | `CarryoverSpec => []PublicationsKept`, `[]DatabaseCarried` |
| `Content_proofs!ContentTypes` | `Spec => []TypeOK` |
| `Content_proofs!RulesAreApplied`, `RowsAreWhole`, `DumpAgrees` | `Spec => []RulesApplied`, `[]RowsWhole`, `[]Agrees` |
| `Content_proofs!PreflightIsEnough`, `SnapshotsAreRestorable` | `Spec => []PreflightSuffices`, `[]Restorable` |
| `Content_proofs!SequencesAreAbove` | `Spec => []SequencesAbove` |
| `Content_proofs!TailsAreSized` | if `100 * MaxRow <= MaxInt`, `Spec => []TailSized` |

Of the restore:

* *TypeOK* contains `LocalsOK`, which says that a run has the locals that its next statement uses;
  without it the type of `backups[t][job.stamp]` does not follow. One lemma for each action.
* *MutualExclusion* follows from `LockHeld`: a run that is not idle holds the lock of its target. The
  only action that takes the lock away from a run that goes on is `LostLock!ReapLockSession`, which is
  not an action of `Restore`.
* *BackupsSealed* needs `ClosedForSwap`: from `terminate` to `rename out` the target is closed, and
  from `name` on it has no session. It is inductive together with `LockHeld`, as nobody else opens
  the target, and a closed target accepts no client.
* *RecoverableTarget* needs `HistoryInv`: the target's name holds the database that `last` says; stamps
  are not in the future; all backups are older than the start of a restore that has passed its
  recovery, so the name picked by the swap sorts after them; and only a target that exists loses
  backups to the retention. `Ordered` says where a run can go from each of its statements, and
  `BodyActs` what a run may do to the catalog (five kinds of change); the last proof then works with
  these kinds instead of the nineteen statements.
* *BackupBound* needs `PrunedInv`: from `create` to the first rename there are at most `Retention`
  backups, and while the expired ones are dropped, no more than that beside them. What
  `ExpiredBackups` leaves is that few because the oldest of it has all the rest after it
  (`RetentionKeeps`), so the count takes no induction over the backups. Names may be in any order here:
  the clock may step back.
* *CompleteTarget* survives a lost lock, so its proof may not use `LockHeld`: every database under the
  target's name, under a backup name, or in the hands of a run past its load is complete, and a
  staging name belongs to the one restore that drew it.
* *BackupsInOrder* adds to `HistoryInv` that restores are numbered as they start (`Counted`), that a
  restore builds a younger database than any its target has (`BuildsYoungest`), and that the backup a
  run may put back is the newest (`PutsBackNewest`).
* *StagingIsMine* and *NoSwapStuck* need `PreparedFor`, one clause for each statement between
  `CREATE DATABASE` and the rollback. With one target no other run sends a statement meanwhile;
  with two, `foreign_staging` is the counterexample. No clause says that staging has no session. The
  rollback needs two cases: the second rename was not executed, so the target's name is free and the
  backup is closed and idle; or it was, and its reply was lost.
* *ImplementsCutover* follows step by step from these two: by `OrderInv` the database that comes back
  is the one that `last` says, and what replaces it is younger; by `FilledInv` it was ready before.
  The two renames that users see are steps of `Cutover`, all other statements, failures, crashes and
  clients happen aside. The conditions are those of the order of the names: with a clock that steps
  back a recovery may put back an older database, and the refinement fails there.

Of the objects, the slots and the memberships:

* *Transfer*: `ExportInv` says of each exporter and its directory that every table waits, or is with
  one worker, or was received (`Handed`), that none is lost while nothing has failed (`Complete`), that
  what was copied is stored (`Stored`) in a directory that, if it is `Alone`, nobody else writes to,
  and of each directory that it has a manifest only when it is whole. `LoadInv` says the same of a load:
  what is neither pending nor with a worker has the rows of the directory, while nothing has failed
  (`Passed`); and a directory of one snapshot that has a manifest does not change under the restore that
  reads it. A view finds a table `Emptied` only if a commit after its instant did that, which `emptied`
  remembers.
* *Slots*: `ClosedInv` (the target is closed before its sessions end and until the renames are over)
  gives `OrphansInactive`. `RebindComplete` needs `DealtInv`: a slot that the rebind has dealt with is
  not on a backup, but for the one that it found there and is about to drop. It holds against every
  step of the consumers because these cannot reach a closed backup.
* *TempGrant*: `LockHeld`, a part of its *TypeOK*, and `GivenBack` itself are inductive together
  with the fact that only a fault stops a run between a grant and its revoke (`Undisturbed`). It does
  not need the borrowers of different databases to exclude each other, which they do not.

Of what is carried over, and of the contents:

* The promises of *Privileges* need `RulesSoFar` (before `Carry`, staging has what postgres grants and
  exactly the global rules that can be acted for) and `ObjectsSoFar` (every object has exactly what these
  gave it when it was created, or what the template grants). `Carry` then joins what it grants, once per
  object, and after it the run changes nothing. They are proved of the composition: the steps of
  `Publications` and `Carryover` leave the privileges alone. `PublishedAsOffered` and `DatabaseSoFar`
  say that the publication is created after the last `Drop`, and that nothing touches the database's own
  grants between `CREATE DATABASE` and their carry.
* The promises of a snapshot rest on what each query leaves behind: the plan projects columns that
  were read with the tables (`RulesInv`), an entry is a projection of the plan over the rows of the view
  (`EntriesInv`), a table copied in full was not filtered (`WholeInv`), and after the view nothing that
  the dump names changes its kind unseen (`SteadyInv`, `DumpInv`).
* *SequencesAbove* needs that no row of the source is above the last value of its sequence, that
  positions were read after the view and are at or above every row that it shows, also where a
  sequence was restarted or its table truncated in between (`gone`), and that what was built is part
  of what was copied.
* *TypeOK* of *Content* has four parts (`SourceTypes`, `ReadTypes`, `ViewTypes`, `RebuildTypes`); the
  hard one is that a position, which comes from a query of a changing source, is never below 1.
* *PreflightSuffices* needs `CalmInv`: as long as nothing has changed, each query has read what is
  (`ReadAsIs`), and the plan holds only tables that the server lets the role read as a whole
  (`Cleared`), but for what is `Overlooked`.
* *Restorable* needs `KeysInv` (every view of the source satisfies its foreign keys, nothing is left
  out that another table refers to, and each transform renders what its column takes) and `StepsInv`,
  which says of each step of a restore why it cannot fail.
* *TailSized*: with evenly filled pages, a probe of any of them sees the true density (`EvenCount`),
  and the rounding up and the margin then pay for the partial page at the start (`WindowSized`), if no
  product overflows. The condition says that the rows of a table can be counted in a hundredth of the
  integers; with 64 bits no table is larger.

The assumptions about constants say what the code, its types and postgres guarantee: a configuration
names tables, tails are integers and transforms of the known kinds (`ConfigsAssumption`); a source
satisfies its own foreign keys (`SourcesAssumption`); rows are numbered (`RowsAssumption`); the margin
does not shrink a window (`TailAssumption`); the markers (`Nothing`, `Returned`, `Absent`, `NoDb`) are
no values; there is at least one worker; bounds are numbers. TLC evaluates each of them on the
instances of the runs.

Three proof attempts failed because the model was wrong, and changed it:

* `Export!Call` let a call of a run that a signal had stopped fail and still take effect. A signal and
  a failure are two faults, and the run has one.
* The condition under which `TailSized` excuses a short window was true of the small instance only: the
  division adds the divisor before it divides, so that sum can overflow too.
* `Consistent` allowed a foreign key to a partitioned table, whose rows are elsewhere.

Only model-checked: the liveness properties `TargetComesBack`, `StagingCollected`, `CopyEnds`,
`LoadEnds` and `CarryEnds`. They rest on fairness, hence on `ENABLED`, which is out of the provers'
reach. The five runs that end in a counterexample are about what does not hold.

## What is not modelled

The text of SQL statements and of the configuration file, `pg_dump`, `pg_restore` and the clients of
the clouds beyond what is said of them above; the filter of the archive's list, a rewrite of text;
partitions (and foreign keys to partitioned parents), materialized views, functions and the version
check of the preflight; row filters and parameters of publications, which are carried as they are;
grants and rules that a migration itself makes in staging (they would stay beside what is carried),
types, and changes of the target's rules during a restore; warnings and reports that decide nothing;
logging and phases; `pgsnap-probe` and the acceptance tests. `PROJECT.json` says for each component
what is left out and why.

## Plan

Done, in this order: `DatabaseSet`, `Restore`, `Cutover` with their proofs; `Bucket`, `Export`,
`Loader`, `Transfer`; `Slots`, `TempGrant`; `Privileges` with its proofs, then `Publications` and
`Carryover`; `Scrub`, `Tail`, `Plan`, `Rebuild`, `Content` with their proofs; `LostLock`; the proofs of
`CompleteTarget`, `BackupsInOrder` and of the swap of an instance with one target; the refinement of
`Cutover`; the proofs of `Transfer`, `Slots`, `TempGrant`, `Carryover` and the rest of `Content`.

Left, in order:

1. A `Restore` whose `Load` is the composition of `Loader`, `Rebuild`, `Carryover`, `TempGrant` and the
   capture of slots.
2. Partitioned tables and materialized views in `Plan`, which the preflight treats apart.
3. What a migration grants itself, and rules that change during a restore, in `Privileges`.
4. Proofs: every safety property has its theorem. What is left is to prove more than the runs can
   check: of `LostLock`, which of the promises of `Restore` survive a lost lock beside `CompleteTarget`;
   of the composition of item 1, that it implements `Cutover`.
