------------------------------ MODULE Restore ------------------------------
(***************************************************************************)
(* Restores and repairs of the databases of one postgres instance          *)
(* (restore/run.go, restore/database.go, cmd/pgsnap/main.go).              *)
(*                                                                         *)
(* A restore builds a staging database beside its target, then swaps the   *)
(* two with catalog renames and keeps the old database under a backup      *)
(* name.  The catalog is the only persisted state: a run that dies is      *)
(* put right by the next run, or by a repair, from the names alone.        *)
(*                                                                         *)
(* One action is one statement sent to the server, or one local step.      *)
(* Between two of them clients of the target, other runs, the clock,       *)
(* a signal or a crash may act.  A statement fails when the server refuses *)
(* it, when the run's context is cancelled, or by a fault; after a fault   *)
(* the server may or may not have executed it.  The session that holds the *)
(* advisory lock lasts as long as its run; LostLock drops this assumption. *)
(***************************************************************************)
EXTENDS DatabaseSet

CONSTANTS
  Procs,        \* invocations of pgsnap that may run at the same time
  Targets,      \* target databases of the instance
  NoDb,         \* no database has this name
  NoProc,       \* nobody holds the lock
  Retention,    \* BackupRetention
  MaxRestores,  \* bound on the restores started
  MaxFaults,    \* bound on faults: failed statements, signals and crashes
  MinRunTime,   \* seconds a restore takes at least before it swaps
  ClockSteps    \* the clock used for backup names may step back

\* A restore is numbered when it starts; the number is its staging name and
\* the identity of the database it builds.  0 is the original of a target.
Restores == 1 .. MaxRestores

\* A database: which one it is, ALLOW_CONNECTIONS, whether a session is
\* attached, and (for the properties only) whether its load was completed.
Database == [id : 0 .. MaxRestores, open : BOOLEAN, busy : BOOLEAN,
             ready : BOOLEAN]

ASSUME NoDbAssumption == NoDb \notin Database
ASSUME NoProcAssumption == NoProc \notin Procs
ASSUME RetentionAssumption == Retention \in Nat
ASSUME BoundsAssumption ==
  /\ MaxRestores \in Nat
  /\ MaxFaults \in Nat
  /\ MinRunTime \in Nat
  /\ ClockSteps \in BOOLEAN

VARIABLES
  live,       \* [Targets -> Database or NoDb]: what the target's name holds
  backups,    \* [Targets -> [Stamp -> Database or NoDb]]
  staging,    \* [Restores -> Database or NoDb]
  last,       \* history: the id that most recently had the target's name
  lock,       \* the holder of each target's advisory lock
  pc,         \* the next statement of each process
  job,        \* the local variables of each process
  cancelled,  \* the process received SIGTERM: its context is cancelled
  nextId,     \* the number of the next restore
  now,        \* the clock
  faults      \* faults so far

catalog == <<live, backups, staging, last>>
vars == <<live, backups, staging, last, lock, pc, job, cancelled, nextId, now,
          faults>>

Backups(t) == {s \in Stamp : backups[t][s] # NoDb}
Staging == {r \in Restores : staging[r] # NoDb}

Idle == [kind |-> "none", target |-> NoDb, staging |-> 0, stamp |-> NoStamp,
         doomed |-> {}, orphans |-> {}, since |-> 0]

Original == [id |-> 0, open |-> TRUE, busy |-> FALSE, ready |-> TRUE]

Init ==
  /\ live = [t \in Targets |-> Original]
  /\ backups = [t \in Targets |-> [s \in Stamp |-> NoDb]]
  /\ staging = [r \in Restores |-> NoDb]
  /\ last = [t \in Targets |-> 0]
  /\ lock = [t \in Targets |-> NoProc]
  /\ pc = [p \in Procs |-> "idle"]
  /\ job = [p \in Procs |-> Idle]
  /\ cancelled = [p \in Procs |-> FALSE]
  /\ nextId = 1
  /\ now = 0
  /\ faults = 0

-----------------------------------------------------------------------------
(***************************************************************************)
(* Statements                                                              *)
(***************************************************************************)

target(p) == job[p].target

Fault == faults < MaxFaults /\ faults' = faults + 1

Goto(p, label) == pc' = [pc EXCEPT ![p] = label]

\* The server executes a statement; the run learns it, unless the connection
\* or the context dies before the reply.
Executed(p, ok, err) ==
  /\ ~cancelled[p]
  /\ \/ /\ Goto(p, ok)
        /\ UNCHANGED <<cancelled, faults>>
     \/ /\ Fault
        /\ Goto(p, err)
        /\ \E c \in BOOLEAN : cancelled' = [cancelled EXCEPT ![p] = c]

\* It is not sent, since the context is cancelled, or fails by a fault.
Failed(p, err) ==
  /\ (cancelled[p] /\ UNCHANGED faults) \/ Fault
  /\ Goto(p, err)
  /\ UNCHANGED cancelled

\* The server refuses it.
Refused(p, err) ==
  /\ Goto(p, err)
  /\ UNCHANGED <<cancelled, faults>>

\* A statement sent with the run's context.  `can` is the server's condition
\* for it, `effect` its effect on the catalog and on the locals, `ok` and
\* `err` where the run continues.
Statement(p, can, effect, ok, err) ==
  /\ UNCHANGED <<lock, nextId, now>>
  /\ \/ can /\ Executed(p, ok, err) /\ effect
     \/ ~can /\ Refused(p, err) /\ UNCHANGED <<catalog, job>>
     \/ Failed(p, err) /\ UNCHANGED <<catalog, job>>

\* ALTER DATABASE ... ALLOW_CONNECTIONS, by the target's name
SetAllowConnections(p, allow) ==
  /\ live' = [live EXCEPT ![target(p)].open = allow]
  /\ UNCHANGED <<backups, staging, last, job>>

\* ALTER DATABASE <target> RENAME TO <backup>
RenameTargetToBackup(p, s) ==
  /\ backups' = [backups EXCEPT ![target(p)][s] = live[target(p)]]
  /\ live' = [live EXCEPT ![target(p)] = NoDb]
  /\ UNCHANGED <<staging, last, job>>

\* ALTER DATABASE <backup> RENAME TO <target>
CanRenameBackup(p, s) ==
  /\ live[target(p)] = NoDb
  /\ backups[target(p)][s] # NoDb
  /\ ~backups[target(p)][s].busy

RenameBackupToTarget(p, s) ==
  /\ live' = [live EXCEPT ![target(p)] = backups[target(p)][s]]
  /\ backups' = [backups EXCEPT ![target(p)][s] = NoDb]
  /\ last' = [last EXCEPT ![target(p)] = backups[target(p)][s].id]
  /\ UNCHANGED <<staging, job>>

-----------------------------------------------------------------------------
(***************************************************************************)
(* A run starts, and takes the advisory lock of its target                 *)
(***************************************************************************)

\* Slip: the result of pg_try_advisory_lock is ignored.
SlipRestoreUnlocked(p, t) ==
  /\ pc[p] = "idle"
  /\ nextId <= MaxRestores
  /\ now + MinRunTime <= MaxTime
  /\ lock' = [lock EXCEPT ![t] = p]
  /\ job' = [job EXCEPT ![p] = [Idle EXCEPT !.kind = "restore", !.target = t,
                                            !.staging = nextId, !.since = now]]
  /\ nextId' = nextId + 1
  /\ Goto(p, "recover")
  /\ UNCHANGED <<catalog, cancelled, now, faults>>

\* pgsnap restore.  When the lock is taken the command fails and changes
\* nothing.  The staging name, a random one, is drawn here.
StartRestore(p, t) ==
  /\ pc[p] = "idle"
  /\ lock[t] = NoProc
  /\ nextId <= MaxRestores
  /\ now + MinRunTime <= MaxTime
  /\ lock' = [lock EXCEPT ![t] = p]
  /\ job' = [job EXCEPT ![p] = [Idle EXCEPT !.kind = "restore", !.target = t,
                                            !.staging = nextId, !.since = now]]
  /\ nextId' = nextId + 1
  /\ Goto(p, "recover")
  /\ UNCHANGED <<catalog, cancelled, now, faults>>

\* Slip: a repair that takes no lock.
SlipRepairUnlocked(p, t) ==
  /\ pc[p] = "idle"
  /\ job' = [job EXCEPT ![p] = [Idle EXCEPT !.kind = "repair", !.target = t]]
  /\ Goto(p, "recover")
  /\ UNCHANGED <<catalog, lock, cancelled, nextId, now, faults>>

\* Slip: a repair draws a staging name too.
SlipRepairDrawsName(p, t) ==
  /\ pc[p] = "idle"
  /\ lock[t] = NoProc
  /\ lock' = [lock EXCEPT ![t] = p]
  /\ job' = [job EXCEPT ![p] = [Idle EXCEPT !.kind = "repair", !.target = t]]
  /\ nextId' = nextId + 1
  /\ Goto(p, "recover")
  /\ UNCHANGED <<catalog, cancelled, now, faults>>

\* pgsnap repair: the same lock, and Recover alone.
StartRepair(p, t) ==
  /\ pc[p] = "idle"
  /\ lock[t] = NoProc
  /\ lock' = [lock EXCEPT ![t] = p]
  /\ job' = [job EXCEPT ![p] = [Idle EXCEPT !.kind = "repair", !.target = t]]
  /\ Goto(p, "recover")
  /\ UNCHANGED <<catalog, cancelled, nextId, now, faults>>

-----------------------------------------------------------------------------
(***************************************************************************)
(* Admin.Recover                                                           *)
(***************************************************************************)

\* Where a run goes when Recover returns without an error.
Recovered(p) == IF job[p].kind = "restore" THEN "check" ELSE "unlock"

\* Slip: a missing target is reported, and left alone.
SlipRecoverReportsOnly(p) ==
  LET t == target(p) IN
  /\ pc[p] = "recover"
  /\ Statement(p, TRUE,
       /\ job' = [job EXCEPT ![p].orphans = Staging]
       /\ UNCHANGED catalog,
       IF live[t] = NoDb THEN "unlock"
       ELSE IF Staging = {} THEN Recovered(p) ELSE "drop orphans",
       "unlock")

\* Slip: orphans are dropped only beside a missing target.
SlipRecoverKeepsOrphans(p) ==
  LET t == target(p) IN
  /\ pc[p] = "recover"
  /\ Statement(p, TRUE,
       /\ job' = [job EXCEPT ![p].orphans = Staging,
                             ![p].stamp = NewestBackup(Backups(t))]
       /\ UNCHANGED catalog,
       IF live[t] = NoDb /\ Backups(t) # {} THEN "rename back" ELSE Recovered(p),
       "unlock")

\* Recover inspects the catalog, and acts on what it saw.
Recover(p) ==
  LET t == target(p)
      state == Classify(live[t] # NoDb, Backups(t), Staging)
  IN
  /\ pc[p] = "recover"
  /\ Statement(p, TRUE,
       /\ job' = [job EXCEPT ![p].orphans = Staging,
                             ![p].stamp = NewestBackup(Backups(t))]
       /\ UNCHANGED catalog,
       CASE state = StateIdle            -> Recovered(p)
         [] state = StateOrphanedStaging -> "drop orphans"
         [] state = StateCrashedMidSwap  -> "rename back"
         [] state = StateMissing         -> "unlock",
       "unlock")

RenameBack(p) ==
  /\ pc[p] = "rename back"
  /\ Statement(p, CanRenameBackup(p, job[p].stamp),
       RenameBackupToTarget(p, job[p].stamp),
       "reopen recovered", "unlock")

ReopenRecovered(p) ==
  /\ pc[p] = "reopen recovered"
  /\ Statement(p, live[target(p)] # NoDb,
       SetAllowConnections(p, TRUE),
       IF job[p].orphans = {} THEN Recovered(p) ELSE "drop orphans", "unlock")

\* DROP DATABASE IF EXISTS ... WITH (FORCE), one orphan after the other.
DropOrphan(p) ==
  /\ pc[p] = "drop orphans"
  /\ \E r \in job[p].orphans :
       Statement(p, TRUE,
         /\ staging' = [staging EXCEPT ![r] = NoDb]
         /\ job' = [job EXCEPT ![p].orphans = @ \ {r}]
         /\ UNCHANGED <<live, backups, last>>,
         IF job[p].orphans = {r} THEN Recovered(p) ELSE "drop orphans",
         "unlock")

-----------------------------------------------------------------------------
(***************************************************************************)
(* Run, up to the swap                                                     *)
(***************************************************************************)

\* The run goes on only from an idle catalog, and drops the backups that
\* the retention no longer covers.
Check(p) ==
  LET t == target(p)
      doomed == ExpiredBackups(Backups(t), Retention)
      idle == Classify(live[t] # NoDb, Backups(t), Staging) = StateIdle
  IN
  /\ pc[p] = "check"
  /\ Statement(p, TRUE,
       /\ job' = [job EXCEPT ![p].doomed = doomed]
       /\ UNCHANGED catalog,
       IF ~idle THEN "unlock" ELSE IF doomed = {} THEN "create" ELSE "expire",
       "unlock")

Expire(p) ==
  LET oldest == OldestBackup(job[p].doomed) IN
  /\ pc[p] = "expire"
  /\ Statement(p, TRUE,
       /\ backups' = [backups EXCEPT ![target(p)][oldest] = NoDb]
       /\ job' = [job EXCEPT ![p].doomed = @ \ {oldest}]
       /\ UNCHANGED <<live, staging, last>>,
       IF job[p].doomed = {oldest} THEN "create" ELSE "expire", "unlock")

\* Selecting a snapshot changes nothing; its failure is the failure of this
\* step, and so is that of CREATE DATABASE.
Create(p) ==
  /\ pc[p] = "create"
  /\ Statement(p, TRUE,
       /\ staging' = [staging EXCEPT ![job[p].staging] =
                        [id |-> job[p].staging, open |-> TRUE, busy |-> FALSE,
                         ready |-> FALSE]]
       /\ UNCHANGED <<live, backups, last, job>>,
       "load", "unlock")

\* Slip: an error of the load is logged, and the run goes on.
SlipLoadErrorDropped(p) ==
  LET r == job[p].staging IN
  /\ pc[p] = "load"
  /\ MinRunTime > 0 => now >= job[p].since + MinRunTime
  /\ Statement(p, staging[r] # NoDb,
       /\ staging' = [staging EXCEPT ![r].ready = TRUE]
       /\ UNCHANGED <<live, backups, last, job>>,
       "close", "close")

\* Everything from the first connection to staging up to the closing of the
\* pools: it fills the staging database, and reads the target through a session
\* of its own.  What a migration leaves connected is StagingConnect.
Load(p) ==
  LET r == job[p].staging IN
  /\ pc[p] = "load"
  /\ MinRunTime > 0 => now >= job[p].since + MinRunTime
  /\ Statement(p,
       /\ staging[r] # NoDb
       /\ live[target(p)] # NoDb
       /\ live[target(p)].open,
       /\ staging' = [staging EXCEPT ![r].ready = TRUE]
       /\ UNCHANGED <<live, backups, last, job>>,
       "close", "cleanup")

-----------------------------------------------------------------------------
(***************************************************************************)
(* Admin.Swap                                                              *)
(***************************************************************************)

\* Slip: the target is terminated but not closed first.
SlipNotClosed(p) ==
  /\ pc[p] = "close"
  /\ Statement(p, live[target(p)] # NoDb, UNCHANGED <<catalog, job>>,
       "terminate", "cleanup")

Close(p) ==
  /\ pc[p] = "close"
  /\ Statement(p, live[target(p)] # NoDb,
       SetAllowConnections(p, FALSE), "terminate", "cleanup")

\* Terminating the sessions of a database that does not exist is no error.
Terminate(p) ==
  LET t == target(p) IN
  /\ pc[p] = "terminate"
  /\ Statement(p, TRUE,
       /\ live' = [live EXCEPT ![t] =
                     IF @ = NoDb THEN NoDb ELSE [@ EXCEPT !.busy = FALSE]]
       /\ UNCHANGED <<backups, staging, last, job>>,
       "terminate staging", "cleanup")

\* The staging database stays open: a session may be back before its rename.
TerminateStaging(p) ==
  LET r == job[p].staging IN
  /\ pc[p] = "terminate staging"
  /\ Statement(p, TRUE,
       /\ staging' = [staging EXCEPT ![r] =
                        IF @ = NoDb THEN NoDb ELSE [@ EXCEPT !.busy = FALSE]]
       /\ UNCHANGED <<live, backups, last, job>>,
       "name", "cleanup")

\* Slip: the name of the second is taken for a free one.
SlipNameUnchecked(p) ==
  /\ pc[p] = "name"
  /\ Statement(p, TRUE,
       /\ job' = [job EXCEPT ![p].stamp = BackupName(now)]
       /\ UNCHANGED catalog,
       "rename out", "cleanup")

PickBackupName(p) ==
  LET s == UniqueBackupName(Backups(target(p)), now) IN
  /\ pc[p] = "name"
  /\ Statement(p, s # NoStamp,
       /\ job' = [job EXCEPT ![p].stamp = s]
       /\ UNCHANGED catalog,
       "rename out", "cleanup")

CanRenameOut(p) ==
  /\ live[target(p)] # NoDb
  /\ ~live[target(p)].busy
  /\ backups[target(p)][job[p].stamp] = NoDb

RenameOut(p) ==
  /\ pc[p] = "rename out"
  /\ Statement(p, CanRenameOut(p), RenameTargetToBackup(p, job[p].stamp),
       "rename in", "reopen untouched")

CanRenameIn(p) ==
  /\ live[target(p)] = NoDb
  /\ staging[job[p].staging] # NoDb
  /\ ~staging[job[p].staging].busy

RenameIn(p) ==
  LET r == job[p].staging IN
  /\ pc[p] = "rename in"
  /\ Statement(p, CanRenameIn(p),
       /\ live' = [live EXCEPT ![target(p)] = staging[r]]
       /\ staging' = [staging EXCEPT ![r] = NoDb]
       /\ last' = [last EXCEPT ![target(p)] = staging[r].id]
       /\ UNCHANGED <<backups, job>>,
       "reopen swapped", "rollback")

\* The second rename failed: put the original back.
Rollback(p) ==
  /\ pc[p] = "rollback"
  /\ Statement(p, CanRenameBackup(p, job[p].stamp),
       RenameBackupToTarget(p, job[p].stamp),
       "reopen untouched", "cleanup")

\* The error of this statement is logged and dropped.
ReopenUntouched(p) ==
  /\ pc[p] = "reopen untouched"
  /\ Statement(p, live[target(p)] # NoDb,
       SetAllowConnections(p, TRUE), "cleanup", "cleanup")

\* The swap is done; its error, if any, still discards "the staging database".
ReopenSwapped(p) ==
  /\ pc[p] = "reopen swapped"
  /\ Statement(p, live[target(p)] # NoDb,
       SetAllowConnections(p, TRUE), "unlock", "cleanup")

-----------------------------------------------------------------------------
(***************************************************************************)
(* The end of a run.  The deferred statements ignore the cancellation.     *)
(***************************************************************************)

Cleanup(p) ==
  /\ pc[p] = "cleanup"
  /\ \/ staging' = [staging EXCEPT ![job[p].staging] = NoDb] /\ UNCHANGED faults
     \/ Fault /\ UNCHANGED staging
  /\ Goto(p, "unlock")
  /\ UNCHANGED <<live, backups, last, lock, job, cancelled, nextId, now>>

\* The session ends, and the lock with it if the run still holds it.
Ends(p) ==
  /\ lock' = [t \in Targets |-> IF lock[t] = p THEN NoProc ELSE lock[t]]
  /\ job' = [job EXCEPT ![p] = Idle]
  /\ cancelled' = [cancelled EXCEPT ![p] = FALSE]
  /\ Goto(p, "idle")
  /\ UNCHANGED <<catalog, nextId, now>>

Unlock(p) == pc[p] = "unlock" /\ Ends(p) /\ UNCHANGED faults

\* The process is killed: nothing deferred runs.
Crash(p) == pc[p] # "idle" /\ Fault /\ Ends(p)

\* SIGTERM cancels the context of the run.
Cancel(p) ==
  /\ pc[p] \notin {"idle", "cleanup", "unlock"}
  /\ ~cancelled[p]
  /\ Fault
  /\ cancelled' = [cancelled EXCEPT ![p] = TRUE]
  /\ UNCHANGED <<catalog, lock, pc, job, nextId, now>>

-----------------------------------------------------------------------------
(***************************************************************************)
(* The clients of a target and of a staging database, and the clock        *)
(***************************************************************************)

ClientConnect(t) ==
  /\ live[t] # NoDb
  /\ live[t].open
  /\ ~live[t].busy
  /\ live' = [live EXCEPT ![t].busy = TRUE]
  /\ UNCHANGED <<backups, staging, last, lock, pc, job, cancelled, nextId, now,
                 faults>>

ClientDisconnect(t) ==
  /\ live[t] # NoDb
  /\ live[t].busy
  /\ live' = [live EXCEPT ![t].busy = FALSE]
  /\ UNCHANGED <<backups, staging, last, lock, pc, job, cancelled, nextId, now,
                 faults>>

\* A staging database is open from its creation on: a migration, a pooler of
\* the instance or a monitor may attach a session to it at any time.
StagingConnect(r) ==
  /\ staging[r] # NoDb
  /\ staging[r].open
  /\ ~staging[r].busy
  /\ staging' = [staging EXCEPT ![r].busy = TRUE]
  /\ UNCHANGED <<live, backups, last, lock, pc, job, cancelled, nextId, now,
                 faults>>

StagingDisconnect(r) ==
  /\ staging[r] # NoDb
  /\ staging[r].busy
  /\ staging' = [staging EXCEPT ![r].busy = FALSE]
  /\ UNCHANGED <<live, backups, last, lock, pc, job, cancelled, nextId, now,
                 faults>>

Tick ==
  /\ now < MaxTime
  /\ now' = now + 1
  /\ UNCHANGED <<catalog, lock, pc, job, cancelled, nextId, faults>>

StepBack ==
  /\ ClockSteps
  /\ now > 0
  /\ now' = now - 1
  /\ UNCHANGED <<catalog, lock, pc, job, cancelled, nextId, faults>>

-----------------------------------------------------------------------------
Step(p) ==
  \/ Recover(p) \/ RenameBack(p) \/ ReopenRecovered(p) \/ DropOrphan(p)
  \/ Check(p) \/ Expire(p) \/ Create(p) \/ Load(p)
  \/ Close(p) \/ Terminate(p) \/ TerminateStaging(p) \/ PickBackupName(p)
  \/ RenameOut(p) \/ RenameIn(p) \/ Rollback(p)
  \/ ReopenUntouched(p) \/ ReopenSwapped(p)
  \/ Cleanup(p) \/ Unlock(p)

Next ==
  \/ \E p \in Procs : \/ \E t \in Targets : StartRestore(p, t) \/ StartRepair(p, t)
                      \/ Step(p)
                      \/ Crash(p)
                      \/ Cancel(p)
  \/ \E t \in Targets : ClientConnect(t) \/ ClientDisconnect(t)
  \/ \E r \in Restores : StagingConnect(r) \/ StagingDisconnect(r)
  \/ Tick
  \/ StepBack

Spec == Init /\ [][Next]_vars

\* A run that is not killed goes on, repairs are started again and again
\* (by an operator, or as the first phase of a scheduled restore), and time
\* passes.  Nothing is assumed of the clients, the signals or the faults.
FairSpec ==
  /\ Spec
  /\ \A p \in Procs : WF_vars(Step(p))
  /\ \A t \in Targets : WF_vars(\E p \in Procs : StartRepair(p, t))
  /\ WF_vars(Tick)

-----------------------------------------------------------------------------
(***************************************************************************)
(* Properties                                                              *)
(***************************************************************************)

Kinds == {"none", "restore", "repair"}

Labels == {"idle", "recover", "rename back", "reopen recovered",
  "drop orphans", "check", "expire", "create", "load", "close", "terminate",
  "terminate staging", "name", "rename out", "rename in", "rollback",
  "reopen untouched", "reopen swapped", "cleanup", "unlock"}

Job == [kind : Kinds, target : Targets \cup {NoDb}, staging : 0 .. MaxRestores,
        stamp : Stamp \cup {NoStamp}, doomed : SUBSET Stamp,
        orphans : SUBSET Restores, since : Second]

\* The statements that only a restore sends, and the renames of a backup.
RestoreLabels == {"check", "expire", "create", "load", "close", "terminate",
  "terminate staging", "name", "rename out", "rename in", "rollback",
  "reopen untouched", "reopen swapped", "cleanup"}
RenameLabels == {"rename back", "rename out", "rename in", "rollback"}

\* A run has the locals that its next statement uses.
LocalsOK ==
  \A p \in Procs :
    /\ pc[p] # "idle" => target(p) \in Targets
    /\ job[p].kind = "restore" => job[p].staging \in Restores
    /\ pc[p] \in RestoreLabels => job[p].kind = "restore"
    /\ pc[p] \in RenameLabels => job[p].stamp \in Stamp

\* The variables hold values of their types.
TypeOK ==
  /\ live \in [Targets -> Database \cup {NoDb}]
  /\ backups \in [Targets -> [Stamp -> Database \cup {NoDb}]]
  /\ staging \in [Restores -> Database \cup {NoDb}]
  /\ last \in [Targets -> 0 .. MaxRestores]
  /\ lock \in [Targets -> Procs \cup {NoProc}]
  /\ pc \in [Procs -> Labels]
  /\ job \in [Procs -> Job]
  /\ cancelled \in [Procs -> BOOLEAN]
  /\ nextId \in 1 .. MaxRestores + 1
  /\ now \in Second
  /\ faults \in 0 .. MaxFaults
  /\ LocalsOK

\* "Two restores of the same target must not interleave" (Admin.Lock).
MutualExclusion ==
  \A p, q \in Procs :
    pc[p] # "idle" /\ pc[q] # "idle" /\ target(p) = target(q) => p = q

\* Whenever the target's name holds nothing, the backup that Recover would
\* pick from the names alone is the database that had the name last.
RecoverableTarget ==
  \A t \in Targets : live[t] = NoDb =>
    /\ Backups(t) # {}
    /\ backups[t][NewestBackup(Backups(t))].id = last[t]

\* The target's name never holds a database whose load was not completed,
\* and neither does a backup.
CompleteTarget ==
  \A t \in Targets :
    /\ live[t] # NoDb => live[t].ready
    /\ \A s \in Backups(t) : backups[t][s].ready

\* A database under a backup name refuses connections and has no session:
\* this is what makes dropping its orphaned replication slot safe.
BackupsSealed ==
  \A t \in Targets : \A s \in Backups(t) :
    ~backups[t][s].open /\ ~backups[t][s].busy

\* Backup names sort in the order in which the databases served, and the
\* target is younger than every backup.
BackupsInOrder ==
  \A t \in Targets :
    /\ \A s, r \in Backups(t) :
         Before(s, r) => backups[t][s].id < backups[t][r].id
    /\ live[t] # NoDb => \A s \in Backups(t) : backups[t][s].id < live[t].id

\* No swap gets stuck half way.  Once it has closed the target and disconnected
\* everybody, the first rename cannot be refused: no client came back, and the
\* backup's name is free.  The second can be refused only because somebody is
\* attached to the staging database, which stays open.  And then the rollback
\* cannot be refused: the name of the target is free, or the second rename was
\* executed after all, and the backup has no session.
NoSwapStuck ==
  \A p \in Procs :
    LET t == target(p)
        r == job[p].staging
    IN
    /\ pc[p] = "rename out" => CanRenameOut(p)
    /\ pc[p] = "rename in" =>
         live[t] = NoDb /\ staging[r] # NoDb
    /\ pc[p] = "rollback" =>
         \/ CanRenameBackup(p, job[p].stamp)
         \/ live[t] # NoDb /\ live[t].id = r

\* At most one backup more than the retention ever exists.
BackupBound ==
  \A t \in Targets : Cardinality(Backups(t)) <= Retention + 1

\* Nobody else drops the staging database of a run before its swap.
StagingIsMine ==
  \A p \in Procs :
    pc[p] \in {"load", "close", "terminate", "terminate staging", "name",
              "rename out", "rename in"}
      => staging[job[p].staging] # NoDb

\* A target whose name holds nothing gets a database again.
TargetComesBack ==
  \A t \in Targets : live[t] = NoDb ~> live[t] # NoDb

\* No staging database stays for ever.
StagingCollected ==
  \A r \in Restores : staging[r] # NoDb ~> staging[r] = NoDb

\* "Crash-proof by construction": a target that a run left closed accepts
\* connections again.
ClosedTargetReopens ==
  \A t \in Targets :
    (live[t] # NoDb /\ ~live[t].open) ~> (live[t] # NoDb /\ live[t].open)

\* What users see of the target is a behaviour of Cutover.
Promise == INSTANCE Cutover WITH
  holds <- last,
  present <- [t \in Targets |-> live[t] # NoDb],
  ready <- {r \in Restores : staging[r] # NoDb /\ staging[r].ready}

ImplementsCutover == Promise!Spec
=============================================================================
