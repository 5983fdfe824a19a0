------------------------- MODULE RestoreSafety_proofs -------------------------
(***************************************************************************)
(* The safety of concurrent restores, for every value of the constants:    *)
(* runs of one target exclude each other, a backup is sealed, and a target *)
(* whose name holds nothing is recovered to the database that served last. *)
(***************************************************************************)
EXTENDS Restore_proofs, FiniteSetTheorems

-----------------------------------------------------------------------------
(***************************************************************************)
(* What a step of one run leaves alone                                     *)
(***************************************************************************)

\* The steps of a run other than its end.
Body(p) ==
  \/ Recover(p) \/ RenameBack(p) \/ ReopenRecovered(p) \/ DropOrphan(p)
  \/ Check(p) \/ Expire(p) \/ Create(p) \/ Load(p)
  \/ Close(p) \/ Terminate(p) \/ TerminateStaging(p) \/ PickBackupName(p)
  \/ RenameOut(p) \/ RenameIn(p) \/ Rollback(p)
  \/ ReopenUntouched(p) \/ ReopenSwapped(p)
  \/ Cleanup(p)

\* The control and the locals of the other runs, the locks and the clock are
\* unchanged, and so is what the run was started for.
Framed(p) ==
  /\ pc[p] # "idle"
  /\ UNCHANGED <<lock, nextId, now>>
  /\ \A q \in Procs \ {p} : pc'[q] = pc[q] /\ job'[q] = job[q]
  /\ job'[p].target = job[p].target
  /\ job'[p].kind = job[p].kind
  /\ job'[p].staging = job[p].staging
  /\ job'[p].since = job[p].since

LEMMA StatementFrames ==
  ASSUME TypeOK, NEW p \in Procs, pc[p] # "idle",
         NEW ok, NEW err,
         Executed(p, ok, err) \/ Refused(p, err) \/ Failed(p, err),
         UNCHANGED <<lock, nextId, now>>,
         \/ UNCHANGED job
         \/ \E s, O : job' = [job EXCEPT ![p].orphans = O, ![p].stamp = s]
         \/ \E O : job' = [job EXCEPT ![p].orphans = O]
         \/ \E D : job' = [job EXCEPT ![p].doomed = D]
         \/ \E s : job' = [job EXCEPT ![p].stamp = s]
  PROVE  Framed(p)
<1>1. \A q \in Procs \ {p} : pc'[q] = pc[q]
  BY DEF Executed, Refused, Failed, Goto, TypeOK
<1>2. \A q \in Procs : job[q] \in Job
  BY DEF TypeOK
<1> DEFINE OthersKept ==
             /\ \A q \in Procs \ {p} : job'[q] = job[q]
             /\ job'[p].target = job[p].target
             /\ job'[p].kind = job[p].kind
             /\ job'[p].staging = job[p].staging
             /\ job'[p].since = job[p].since
<1>3. OthersKept
  <2> DEFINE j == job[p]
  <2>1. j \in Job
    BY <1>2
  <2>2. ASSUME NEW k, job' = [job EXCEPT ![p] = k], k.target = j.target,
               k.kind = j.kind, k.staging = j.staging, k.since = j.since
        PROVE  OthersKept
    BY <2>2 DEF TypeOK
  <2>3. CASE UNCHANGED job
    BY <2>3
  <2>4. ASSUME NEW s, NEW O, job' = [job EXCEPT ![p].orphans = O, ![p].stamp = s]
        PROVE  OthersKept
    <3>1. job' = [job EXCEPT ![p] = [j EXCEPT !.orphans = O, !.stamp = s]]
      BY <2>4 DEF TypeOK
    <3> QED
      BY <2>1, <2>2, <3>1 DEF Job
  <2>5. ASSUME NEW O, job' = [job EXCEPT ![p].orphans = O]
        PROVE  OthersKept
    <3>1. job' = [job EXCEPT ![p] = [j EXCEPT !.orphans = O]]
      BY <2>5
    <3> QED
      BY <2>1, <2>2, <3>1 DEF Job
  <2>6. ASSUME NEW D, job' = [job EXCEPT ![p].doomed = D]
        PROVE  OthersKept
    <3>1. job' = [job EXCEPT ![p] = [j EXCEPT !.doomed = D]]
      BY <2>6
    <3> QED
      BY <2>1, <2>2, <3>1 DEF Job
  <2>7. ASSUME NEW s, job' = [job EXCEPT ![p].stamp = s]
        PROVE  OthersKept
    <3>1. job' = [job EXCEPT ![p] = [j EXCEPT !.stamp = s]]
      BY <2>7
    <3> QED
      BY <2>1, <2>2, <3>1 DEF Job
  <2> QED
    BY <2>3, <2>4, <2>5, <2>6, <2>7
<1> QED
  BY <1>1, <1>3 DEF Framed

LEMMA BodyFrames ==
  ASSUME TypeOK, NEW p \in Procs, Body(p)
  PROVE  Framed(p)
<1>1. CASE Recover(p)
  BY <1>1, StatementFrames DEF Recover, Statement
<1>2. CASE RenameBack(p)
  BY <1>2, StatementFrames DEF RenameBack, RenameBackupToTarget, Statement
<1>3. CASE ReopenRecovered(p)
  BY <1>3, StatementFrames DEF ReopenRecovered, SetAllowConnections, Statement
<1>4. CASE DropOrphan(p)
  BY <1>4, StatementFrames DEF DropOrphan, Statement
<1>5. CASE Check(p)
  BY <1>5, StatementFrames DEF Check, Statement
<1>6. CASE Expire(p)
  BY <1>6, StatementFrames DEF Expire, Statement
<1>7. CASE Create(p)
  BY <1>7, StatementFrames DEF Create, Statement
<1>8. CASE Load(p)
  BY <1>8, StatementFrames DEF Load, Statement
<1>9. CASE Close(p)
  BY <1>9, StatementFrames DEF Close, SetAllowConnections, Statement
<1>10. CASE Terminate(p)
  BY <1>10, StatementFrames DEF Terminate, Statement
<1>11. CASE TerminateStaging(p)
  BY <1>11, StatementFrames DEF TerminateStaging, Statement
<1>12. CASE PickBackupName(p)
  BY <1>12, StatementFrames DEF PickBackupName, Statement
<1>13. CASE RenameOut(p)
  BY <1>13, StatementFrames DEF RenameOut, RenameTargetToBackup, Statement
<1>14. CASE RenameIn(p)
  BY <1>14, StatementFrames DEF RenameIn, Statement
<1>15. CASE Rollback(p)
  BY <1>15, StatementFrames DEF Rollback, RenameBackupToTarget, Statement
<1>16. CASE ReopenUntouched(p)
  BY <1>16, StatementFrames DEF ReopenUntouched, SetAllowConnections, Statement
<1>17. CASE ReopenSwapped(p)
  BY <1>17, StatementFrames DEF ReopenSwapped, SetAllowConnections, Statement
<1>18. CASE Cleanup(p)
  BY <1>18 DEF Cleanup, Framed, Goto, TypeOK
<1> QED
  BY <1>1, <1>2, <1>3, <1>4, <1>5, <1>6, <1>7, <1>8, <1>9, <1>10, <1>11, <1>12,
     <1>13, <1>14, <1>15, <1>16, <1>17, <1>18 DEF Body

-----------------------------------------------------------------------------
(***************************************************************************)
(* Runs of one target exclude each other                                   *)
(***************************************************************************)

\* A run holds the lock of its target from its first step to its last.
LockHeld == \A p \in Procs : pc[p] # "idle" => lock[target(p)] = p

LEMMA LockHeldNext ==
  ASSUME TypeOK, LockHeld, [Next]_vars
  PROVE  LockHeld'
<1>1. ASSUME NEW p \in Procs, NEW t \in Targets, lock[t] = NoProc,
             lock' = [lock EXCEPT ![t] = p], Goto(p, "recover"),
             NEW j, job' = [job EXCEPT ![p] = j], j.target = t
      PROVE  LockHeld'
  <2>1. /\ pc'[p] = "recover" /\ job'[p] = j
        /\ \A q \in Procs \ {p} : pc'[q] = pc[q] /\ job'[q] = job[q]
    BY <1>1 DEF Goto, TypeOK
  <2>2. \A q \in Procs \ {p} : pc[q] # "idle" => target(q) # t /\ target(q) \in Targets
    BY <1>1, NoProcAssumption DEF LockHeld, TypeOK, LocalsOK
  <2> QED
    BY <1>1, <2>1, <2>2 DEF LockHeld, TypeOK, target
<1>2. CASE \E p \in Procs, t \in Targets : StartRestore(p, t)
  <2>1. PICK p \in Procs, t \in Targets : StartRestore(p, t)
    BY <1>2
  <2> DEFINE j == [Idle EXCEPT !.kind = "restore", !.target = t,
                               !.staging = nextId, !.since = now]
  <2>2. j.target = t
    BY DEF Idle
  <2>3. job' = [job EXCEPT ![p] = j]
    BY <2>1 DEF StartRestore
  <2> HIDE DEF j
  <2> QED
    BY <1>1, <2>1, <2>2, <2>3 DEF StartRestore
<1>3. CASE \E p \in Procs, t \in Targets : StartRepair(p, t)
  <2>1. PICK p \in Procs, t \in Targets : StartRepair(p, t)
    BY <1>3
  <2> DEFINE j == [Idle EXCEPT !.kind = "repair", !.target = t]
  <2>2. j.target = t
    BY DEF Idle
  <2>3. job' = [job EXCEPT ![p] = j]
    BY <2>1 DEF StartRepair
  <2> HIDE DEF j
  <2> QED
    BY <1>1, <2>1, <2>2, <2>3 DEF StartRepair
<1>4. CASE \E p \in Procs : Body(p)
  <2>1. PICK p \in Procs : Framed(p)
    BY <1>4, BodyFrames
  <2> QED
    BY <2>1 DEF Framed, LockHeld, target
<1>5. CASE \E p \in Procs : Unlock(p) \/ Crash(p)
  <2>1. PICK p \in Procs : Ends(p)
    BY <1>5 DEF Unlock, Crash
  <2>2. /\ pc'[p] = "idle"
        /\ \A q \in Procs \ {p} : pc'[q] = pc[q] /\ job'[q] = job[q]
    BY <2>1 DEF Ends, Goto, TypeOK
  <2>3. \A q \in Procs \ {p} : pc[q] # "idle" => lock'[target(q)] = q
    BY <2>1 DEF Ends, LockHeld, TypeOK, LocalsOK
  <2> QED
    BY <2>2, <2>3 DEF LockHeld, target
<1>6. CASE \E p \in Procs : Cancel(p)
  BY <1>6 DEF Cancel, LockHeld, target
<1>7. CASE \E t \in Targets : ClientConnect(t) \/ ClientDisconnect(t)
  BY <1>7 DEF ClientConnect, ClientDisconnect, LockHeld, target
<1>8. CASE StagingSession \/ Tick \/ StepBack \/ UNCHANGED vars
  BY <1>8 DEF StagingSession, StagingConnect, StagingDisconnect, Tick, StepBack, vars,
              LockHeld, target
<1> QED
  BY <1>2, <1>3, <1>4, <1>5, <1>6, <1>7, <1>8 DEF Next, Step, Body, StagingSession

LEMMA LockHeldInit == Init => LockHeld
BY DEF Init, LockHeld

LEMMA LockHeldExcludes == TypeOK /\ LockHeld => MutualExclusion
BY DEF LockHeld, MutualExclusion

\* As long as the session that holds the advisory lock lasts, no two runs of one target overlap, however many there are and
\* wherever they are cut off (Admin.Lock, Run).
THEOREM RestoresExclude == Spec => []MutualExclusion
<1>1. TypeOK /\ LockHeld /\ [Next]_vars => LockHeld'
  BY LockHeldNext
<1> QED
  BY <1>1, TypeCorrect, LockHeldInit, LockHeldExcludes, PTL DEF Spec

-----------------------------------------------------------------------------
(***************************************************************************)
(* What a step of one run does to the names of its target                  *)
(***************************************************************************)

\* The database under the target's name is opened, closed or disconnected.
Adjusts(p) ==
  LET t == target(p) IN
  /\ live[t] \in Database /\ live'[t] \in Database
  /\ live'[t].id = live[t].id
  /\ live'[t].open = live[t].open
       \/ pc[p] \in {"close", "reopen recovered", "reopen untouched",
                     "reopen swapped"}
  /\ UNCHANGED <<backups, last>>

\* A backup gets the target's name.
PutsBack(p) ==
  LET t == target(p) s == job[p].stamp IN
  /\ pc[p] \in {"rename back", "rollback"}
  /\ backups[t][s] \in Database
  /\ live'[t] = backups[t][s]
  /\ last'[t] = backups[t][s].id
  /\ backups'[t] = [backups[t] EXCEPT ![s] = NoDb]

\* A backup is dropped.
Drops(p) ==
  LET t == target(p) IN
  /\ pc[p] = "expire"
  /\ \E s : backups'[t] = [backups[t] EXCEPT ![s] = NoDb]
  /\ UNCHANGED <<live, last>>

\* The target becomes a backup.
Withdraws(p) ==
  LET t == target(p) s == job[p].stamp IN
  /\ pc[p] = "rename out"
  /\ live[t] \in Database /\ ~live[t].busy
  /\ live'[t] = NoDb
  /\ backups'[t] = [backups[t] EXCEPT ![s] = live[t]]
  /\ UNCHANGED last

\* A staging database gets the target's name.
PutsIn(p) ==
  LET t == target(p) IN
  /\ pc[p] = "rename in"
  /\ live'[t] \in Database
  /\ last'[t] = live'[t].id
  /\ UNCHANGED backups

KeepsOthers(p) ==
  \A u \in Targets \ {target(p)} :
    live'[u] = live[u] /\ backups'[u] = backups[u] /\ last'[u] = last[u]

ActsOnTarget(p) ==
  \/ UNCHANGED <<live, backups, last>>
  \/ /\ KeepsOthers(p)
     /\ Adjusts(p) \/ PutsBack(p) \/ Drops(p) \/ Withdraws(p) \/ PutsIn(p)

LEMMA SetAllowConnectionsActs ==
  ASSUME TypeOK, NEW p \in Procs, target(p) \in Targets,
         live[target(p)] # NoDb, NEW allow \in BOOLEAN,
         SetAllowConnections(p, allow),
         pc[p] \in {"close", "reopen recovered", "reopen untouched",
                    "reopen swapped"}
  PROVE  ActsOnTarget(p)
<1> DEFINE t == target(p)
           d == [live[t] EXCEPT !.open = allow]
<1>1. live[t] \in Database
  BY DEF TypeOK
<1>2. d \in Database /\ d.id = live[t].id
  BY <1>1 DEF Database
<1>3. live' = [live EXCEPT ![t] = d]
  BY DEF SetAllowConnections
<1> HIDE DEF d
<1>4. live'[t] = d /\ \A u \in Targets \ {t} : live'[u] = live[u]
  BY <1>3 DEF TypeOK
<1> QED
  BY <1>1, <1>2, <1>4
     DEF SetAllowConnections, ActsOnTarget, KeepsOthers, Adjusts

LEMMA RenameBackupActs ==
  ASSUME TypeOK, NEW p \in Procs, target(p) \in Targets,
         job[p].stamp \in Stamp, CanRenameBackup(p, job[p].stamp),
         RenameBackupToTarget(p, job[p].stamp),
         pc[p] \in {"rename back", "rollback"}
  PROVE  ActsOnTarget(p)
<1> DEFINE t == target(p)
           s == job[p].stamp
<1>1. backups[t][s] \in Database
  <2>1. backups[t] \in [Stamp -> Database \cup {NoDb}]
    BY DEF TypeOK
  <2>2. backups[t][s] # NoDb
    BY DEF CanRenameBackup
  <2> QED
    BY <2>1, <2>2
<1>2. /\ live'[t] = backups[t][s]
      /\ last'[t] = backups[t][s].id
      /\ backups'[t] = [backups[t] EXCEPT ![s] = NoDb]
      /\ KeepsOthers(p)
  BY DEF TypeOK, RenameBackupToTarget, KeepsOthers
<1> QED
  BY <1>1, <1>2 DEF ActsOnTarget, PutsBack

LEMMA BodyActs ==
  ASSUME TypeOK, NEW p \in Procs, Body(p)
  PROVE  ActsOnTarget(p)
<1>0. pc[p] # "idle"
  BY BodyFrames DEF Framed
<1>1. target(p) \in Targets
  BY <1>0 DEF TypeOK, LocalsOK
<1>2. CASE UNCHANGED <<live, backups, last>>
  BY <1>2 DEF ActsOnTarget
<1>3. CASE RenameBack(p) \/ Rollback(p)
  <2>1. job[p].stamp \in Stamp /\ pc[p] \in {"rename back", "rollback"}
    BY <1>3 DEF RenameBack, Rollback, TypeOK, LocalsOK, RenameLabels
  <2>2. \/ UNCHANGED catalog
        \/ /\ CanRenameBackup(p, job[p].stamp)
           /\ RenameBackupToTarget(p, job[p].stamp)
    BY <1>3 DEF RenameBack, Rollback, Statement
  <2> QED
    BY <1>1, <1>2, <2>1, <2>2, RenameBackupActs DEF catalog
<1>4. CASE Close(p) \/ ReopenRecovered(p) \/ ReopenUntouched(p) \/ ReopenSwapped(p)
  <2>1. pc[p] \in {"close", "reopen recovered", "reopen untouched",
                   "reopen swapped"}
    BY <1>4 DEF Close, ReopenRecovered, ReopenUntouched, ReopenSwapped
  <2>2. \/ UNCHANGED catalog
        \/ /\ live[target(p)] # NoDb
           /\ \E allow \in BOOLEAN : SetAllowConnections(p, allow)
    BY <1>4 DEF Close, ReopenRecovered, ReopenUntouched, ReopenSwapped, Statement
  <2> QED
    BY <1>1, <1>2, <2>1, <2>2, SetAllowConnectionsActs DEF catalog
<1>5. CASE Terminate(p)
  <2> DEFINE t == target(p)
             d == [live[t] EXCEPT !.busy = FALSE]
  <2>1. CASE UNCHANGED catalog \/ live[t] = NoDb
    <3>1. UNCHANGED <<live, backups, last>>
      BY <1>5, <2>1 DEF Terminate, Statement, catalog, TypeOK
    <3> QED
      BY <1>2, <3>1
  <2>2. CASE ~UNCHANGED catalog /\ live[t] # NoDb
    <3>1. live[t] \in Database
      BY <1>1, <2>2 DEF TypeOK
    <3>2. d \in Database /\ d.id = live[t].id /\ d.open = live[t].open
      BY <3>1 DEF Database
    <3>3. live' = [live EXCEPT ![t] = d] /\ UNCHANGED <<backups, last>>
      BY <1>5, <2>2 DEF Terminate, Statement
    <3> HIDE DEF d
    <3>4. live'[t] = d /\ \A u \in Targets \ {t} : live'[u] = live[u]
      BY <1>1, <3>3 DEF TypeOK
    <3> QED
      BY <3>1, <3>2, <3>3, <3>4 DEF ActsOnTarget, KeepsOthers, Adjusts
  <2> QED
    BY <2>1, <2>2
<1>6. CASE Expire(p)
  <2> DEFINE oldest == OldestBackup(job[p].doomed)
  <2>1. \/ UNCHANGED catalog
        \/ /\ backups' = [backups EXCEPT ![target(p)][oldest] = NoDb]
           /\ UNCHANGED <<live, last>>
    BY <1>6 DEF Expire, Statement
  <2>2. pc[p] = "expire"
    BY <1>6 DEF Expire
  <2> HIDE DEF oldest
  <2>3. CASE backups' = [backups EXCEPT ![target(p)][oldest] = NoDb]
             /\ UNCHANGED <<live, last>>
    <3>1. backups'[target(p)] = [backups[target(p)] EXCEPT ![oldest] = NoDb]
          /\ \A u \in Targets \ {target(p)} : backups'[u] = backups[u]
      BY <1>1, <2>3 DEF TypeOK
    <3> QED
      BY <2>2, <2>3, <3>1 DEF ActsOnTarget, KeepsOthers, Drops
  <2> QED
    BY <1>2, <2>1, <2>3 DEF catalog
<1>7. CASE RenameOut(p)
  <2>1. pc[p] = "rename out"
    BY <1>7 DEF RenameOut
  <2>2. CASE CanRenameOut(p) /\ RenameTargetToBackup(p, job[p].stamp)
    <3>1. live[target(p)] \in Database /\ ~live[target(p)].busy
      BY <1>1, <2>2 DEF CanRenameOut, TypeOK
    <3>2. /\ live'[target(p)] = NoDb
          /\ backups'[target(p)] =
               [backups[target(p)] EXCEPT ![job[p].stamp] = live[target(p)]]
          /\ KeepsOthers(p)
          /\ UNCHANGED last
      BY <1>1, <2>2 DEF RenameTargetToBackup, TypeOK, KeepsOthers
    <3> QED
      BY <2>1, <3>1, <3>2 DEF ActsOnTarget, Withdraws
  <2> QED
    BY <1>2, <1>7, <2>2 DEF RenameOut, Statement, catalog
<1>8. CASE RenameIn(p)
  <2> DEFINE r == job[p].staging
  <2>1. pc[p] = "rename in" /\ r \in Restores
    BY <1>8 DEF RenameIn, TypeOK, LocalsOK, RestoreLabels
  <2>2. CASE /\ CanRenameIn(p)
             /\ live' = [live EXCEPT ![target(p)] = staging[r]]
             /\ last' = [last EXCEPT ![target(p)] = staging[r].id]
             /\ UNCHANGED backups
    <3>1. staging[r] \in Database
      BY <2>1, <2>2 DEF CanRenameIn, TypeOK
    <3>2. /\ live'[target(p)] = staging[r]
          /\ last'[target(p)] = staging[r].id
          /\ KeepsOthers(p)
      BY <1>1, <2>2 DEF TypeOK, KeepsOthers
    <3> QED
      BY <2>1, <2>2, <3>1, <3>2 DEF ActsOnTarget, PutsIn
  <2> QED
    BY <1>2, <1>8, <2>2 DEF RenameIn, Statement, catalog
<1>9. CASE \/ Recover(p) \/ DropOrphan(p) \/ Check(p) \/ Create(p) \/ Load(p)
           \/ TerminateStaging(p) \/ PickBackupName(p) \/ Cleanup(p)
  <2>1. UNCHANGED <<live, backups, last>>
    BY <1>9 DEF Recover, DropOrphan, Check, Create, Load, TerminateStaging,
                PickBackupName, Cleanup, Statement, catalog
  <2> QED
    BY <1>2, <2>1
<1> QED
  BY <1>3, <1>4, <1>5, <1>6, <1>7, <1>8, <1>9 DEF Body

-----------------------------------------------------------------------------
(***************************************************************************)
(* The order of the statements of a run                                    *)
(***************************************************************************)

\* The labels at which the target is closed for the swap.
ClosedLabels == {"terminate", "terminate staging", "name", "rename out"}

\* The labels of a restore between its load and its first rename.
SwapLabels == ClosedLabels \cup {"close"}

\* The labels of a run up to its first rename.
BeforeSwap == SwapLabels \cup {"recover", "rename back", "reopen recovered",
  "drop orphans", "check", "expire", "create", "load"}

Ordered(p) ==
  /\ pc'[p] \in BeforeSwap => pc[p] \in BeforeSwap
  /\ pc'[p] \in SwapLabels =>
       \/ pc[p] \in SwapLabels
       \/ /\ pc[p] = "load"
          /\ MinRunTime > 0 => now >= job[p].since + MinRunTime
  /\ pc'[p] \in ClosedLabels =>
       \/ pc[p] \in ClosedLabels
       \/ pc[p] = "close" /\ ~live'[target(p)].open
  /\ pc'[p] = "rename in" => pc[p] = "rename out"
  /\ pc'[p] = "rename out" =>
       job'[p].stamp = UniqueBackupName(Backups(target(p)), now)
       /\ job'[p].stamp # NoStamp
  /\ pc'[p] = "expire" =>
       \/ pc[p] = "expire"
       \/ pc[p] = "check" /\ live[target(p)] # NoDb /\ UNCHANGED live
  /\ pc[p] \in {"rename out", "rename in"} =>
       pc'[p] \notin BeforeSwap

\* Where a statement leads.
LEMMA StatementLeads ==
  ASSUME TypeOK, NEW p \in Procs, NEW ok, NEW err,
         Executed(p, ok, err) \/ Refused(p, err) \/ Failed(p, err)
  PROVE  pc'[p] \in {ok, err}
BY DEF Executed, Refused, Failed, Goto, TypeOK

LEMMA BodyOrdered ==
  ASSUME TypeOK, NEW p \in Procs, Body(p)
  PROVE  Ordered(p)
<1> USE DEF ClosedLabels, SwapLabels, BeforeSwap
<1>0. target(p) \in Targets
  BY BodyFrames DEF Framed, TypeOK, LocalsOK
<1>1. CASE Close(p)
  <2>1. pc[p] = "close" /\ pc'[p] \in {"terminate", "cleanup"}
    BY <1>1, StatementLeads DEF Close, Statement
  <2>2. CASE pc'[p] = "terminate"
    <3>1. live[target(p)] # NoDb /\ SetAllowConnections(p, FALSE)
      BY <1>1, <2>2 DEF Close, Statement, Refused, Failed, Goto, TypeOK
    <3>2. live[target(p)] \in Database
      BY <1>0, <3>1 DEF TypeOK
    <3>3. live'[target(p)] = [live[target(p)] EXCEPT !.open = FALSE]
      BY <1>0, <3>1 DEF SetAllowConnections, TypeOK
    <3>4. ~live'[target(p)].open
      BY <3>2, <3>3 DEF Database
    <3> QED
      BY <2>1, <2>2, <3>4 DEF Ordered
  <2>3. CASE pc'[p] = "cleanup"
    BY <2>1, <2>3 DEF Ordered
  <2> QED
    BY <2>1, <2>2, <2>3
<1>2. CASE Terminate(p)
  <2>1. pc[p] = "terminate" /\ pc'[p] \in {"terminate staging", "cleanup"}
    BY <1>2, StatementLeads DEF Terminate, Statement
  <2> QED
    BY <2>1 DEF Ordered
<1>3. CASE TerminateStaging(p)
  <2>1. pc[p] = "terminate staging" /\ pc'[p] \in {"name", "cleanup"}
    BY <1>3, StatementLeads DEF TerminateStaging, Statement
  <2> QED
    BY <2>1 DEF Ordered
<1>4. CASE PickBackupName(p)
  <2> DEFINE s == UniqueBackupName(Backups(target(p)), now)
  <2>1. pc[p] = "name" /\ pc'[p] \in {"rename out", "cleanup"}
    BY <1>4, StatementLeads DEF PickBackupName, Statement
  <2>2. CASE pc'[p] = "rename out"
    <3>1. s # NoStamp /\ job' = [job EXCEPT ![p].stamp = s]
      BY <1>4, <2>2 DEF PickBackupName, Statement, Refused, Failed, Goto, TypeOK
    <3>2. job[p] \in Job
      BY DEF TypeOK
    <3> HIDE DEF s
    <3>3. job'[p] = [job[p] EXCEPT !.stamp = s]
      BY <3>1 DEF TypeOK
    <3>4. job'[p].stamp = s
      BY <3>2, <3>3 DEF Job
    <3> QED
      BY <2>1, <2>2, <3>1, <3>4 DEF Ordered, s
  <2>3. CASE pc'[p] = "cleanup"
    BY <2>1, <2>3 DEF Ordered
  <2> QED
    BY <2>1, <2>2, <2>3
<1>5. CASE RenameOut(p)
  <2>1. pc[p] = "rename out" /\ pc'[p] \in {"rename in", "reopen untouched"}
    BY <1>5, StatementLeads DEF RenameOut, Statement
  <2> QED
    BY <2>1 DEF Ordered
<1>6. CASE RenameIn(p)
  <2>1. pc'[p] \in {"reopen swapped", "rollback"}
    BY <1>6, StatementLeads DEF RenameIn, Statement
  <2> QED
    BY <2>1 DEF Ordered
<1>7. CASE Rollback(p) \/ ReopenUntouched(p) \/ ReopenSwapped(p) \/ Cleanup(p)
  <2>1. pc'[p] \in {"reopen untouched", "cleanup", "unlock"}
    BY <1>7, StatementLeads
       DEF Rollback, ReopenUntouched, ReopenSwapped, Cleanup, Statement, Goto,
           TypeOK
  <2>2. pc[p] \notin {"rename out", "rename in"}
    BY <1>7 DEF Rollback, ReopenUntouched, ReopenSwapped, Cleanup
  <2> QED
    BY <2>1, <2>2 DEF Ordered
<1>8. CASE Load(p)
  <2>1. /\ pc[p] = "load" /\ pc'[p] \in {"close", "cleanup"}
        /\ MinRunTime > 0 => now >= job[p].since + MinRunTime
    BY <1>8, StatementLeads DEF Load, Statement
  <2> QED
    BY <2>1 DEF Ordered
<1>9. CASE Check(p)
  <2> DEFINE t == target(p)
             doomed == ExpiredBackups(Backups(t), Retention)
             idle == Classify(live[t] # NoDb, Backups(t), Staging) = StateIdle
             next == IF ~idle THEN "unlock"
                     ELSE IF doomed = {} THEN "create" ELSE "expire"
  <2>1. pc[p] = "check" /\ pc'[p] \in {next, "unlock"} /\ UNCHANGED live
    BY <1>9, StatementLeads DEF Check, Statement, catalog
  <2>2. next = "expire" => live[t] # NoDb
    BY DEF Classify, StateIdle, StateMissing, StateCrashedMidSwap
  <2>3. next \in {"unlock", "create", "expire"}
    OBVIOUS
  <2> HIDE DEF next
  <2> QED
    BY <2>1, <2>2, <2>3 DEF Ordered
<1>10. CASE Expire(p)
  <2>1. pc[p] = "expire" /\ pc'[p] \in {"expire", "create", "unlock"}
    BY <1>10, StatementLeads DEF Expire, Statement
  <2> QED
    BY <2>1 DEF Ordered
<1>11. CASE Create(p)
  <2>1. pc[p] = "create" /\ pc'[p] \in {"load", "unlock"}
    BY <1>11, StatementLeads DEF Create, Statement
  <2> QED
    BY <2>1 DEF Ordered
<1>12. CASE RenameBack(p)
  <2>1. pc[p] = "rename back" /\ pc'[p] \in {"reopen recovered", "unlock"}
    BY <1>12, StatementLeads DEF RenameBack, Statement
  <2> QED
    BY <2>1 DEF Ordered
<1>13. CASE ReopenRecovered(p)
  <2> DEFINE next == IF job[p].orphans = {} THEN Recovered(p) ELSE "drop orphans"
  <2>1. next \in {"check", "unlock", "drop orphans"}
    BY DEF Recovered
  <2>2. pc[p] = "reopen recovered" /\ pc'[p] \in {next, "unlock"}
    BY <1>13, StatementLeads DEF ReopenRecovered, Statement
  <2> HIDE DEF next
  <2> QED
    BY <2>1, <2>2 DEF Ordered
<1>14. CASE DropOrphan(p)
  <2>1. PICK r \in job[p].orphans :
          LET next == IF job[p].orphans = {r} THEN Recovered(p) ELSE "drop orphans"
          IN Executed(p, next, "unlock") \/ Refused(p, "unlock") \/ Failed(p, "unlock")
    BY <1>14 DEF DropOrphan, Statement
  <2> DEFINE next == IF job[p].orphans = {r} THEN Recovered(p) ELSE "drop orphans"
  <2>2. next \in {"check", "unlock", "drop orphans"}
    BY DEF Recovered
  <2>3. pc[p] = "drop orphans" /\ pc'[p] \in {next, "unlock"}
    BY <1>14, <2>1, StatementLeads DEF DropOrphan
  <2> HIDE DEF next
  <2> QED
    BY <2>2, <2>3 DEF Ordered
<1>15. CASE Recover(p)
  <2> DEFINE t == target(p)
             state == Classify(live[t] # NoDb, Backups(t), Staging)
             next == CASE state = StateIdle            -> Recovered(p)
                       [] state = StateOrphanedStaging -> "drop orphans"
                       [] state = StateCrashedMidSwap  -> "rename back"
                       [] state = StateMissing         -> "unlock"
  <2>1. next \in {"check", "unlock", "drop orphans", "rename back"}
    BY DEF Recovered, Classify, StateIdle, StateOrphanedStaging,
           StateCrashedMidSwap, StateMissing
  <2>2. Executed(p, next, "unlock") \/ Refused(p, "unlock") \/ Failed(p, "unlock")
    BY <1>15 DEF Recover, Statement
  <2> HIDE DEF next
  <2>3. pc[p] = "recover" /\ pc'[p] \in {next, "unlock"}
    BY <1>15, <2>2, StatementLeads DEF Recover
  <2> QED
    BY <2>1, <2>3 DEF Ordered
<1> QED
  BY <1>1, <1>2, <1>3, <1>4, <1>5, <1>6, <1>7, <1>8, <1>9, <1>10, <1>11, <1>12,
     <1>13, <1>14, <1>15 DEF Body

-----------------------------------------------------------------------------
(***************************************************************************)
(* A backup refuses connections and has no session                         *)
(***************************************************************************)

\* Between the statement that closes a target and its rename nobody opens it.
ClosedForSwap ==
  \A p \in Procs :
    pc[p] \in ClosedLabels /\ live[target(p)] # NoDb => ~live[target(p)].open

SealInv == TypeOK /\ LockHeld /\ BackupsSealed /\ ClosedForSwap

LEMMA BodySeals ==
  ASSUME SealInv, NEW p \in Procs, Body(p)
  PROVE  BackupsSealed' /\ ClosedForSwap'
<1> DEFINE t == target(p)
<1>1. /\ Framed(p) /\ ActsOnTarget(p) /\ Ordered(p)
      /\ t \in Targets /\ pc[p] # "idle" /\ lock[t] = p
  BY BodyFrames, BodyActs, BodyOrdered
     DEF SealInv, Framed, TypeOK, LocalsOK, LockHeld
<1>2. TypeOK /\ BackupsSealed /\ ClosedForSwap
  BY DEF SealInv
<1>3. BackupsSealed'
  <2> SUFFICES ASSUME NEW u \in Targets, NEW s \in Stamp, backups'[u][s] # NoDb
               PROVE  ~backups'[u][s].open /\ ~backups'[u][s].busy
    BY DEF BackupsSealed, Backups
  <2>1. CASE backups'[u][s] = backups[u][s]
    BY <1>2, <2>1 DEF BackupsSealed, Backups
  <2>2. CASE u = t /\ Withdraws(p)
    <3>1. backups[t] \in [Stamp -> Database \cup {NoDb}]
      BY <1>1, <1>2 DEF TypeOK
    <3>2. CASE s = job[p].stamp
      <4>1. backups'[u][s] = live[t]
        BY <2>2, <3>1, <3>2 DEF Withdraws
      <4>2. ~live[t].busy /\ ~live[t].open
        BY <1>2, <2>2, NoDbAssumption DEF Withdraws, ClosedForSwap, ClosedLabels
      <4> QED
        BY <4>1, <4>2
    <3>3. CASE s # job[p].stamp
      <4>1. backups'[u][s] = backups[u][s]
        BY <2>2, <3>1, <3>3 DEF Withdraws
      <4> QED
        BY <2>1, <4>1
    <3> QED
      BY <3>2, <3>3
  <2>3. CASE u = t /\ (PutsBack(p) \/ Drops(p))
    <3>1. backups[t] \in [Stamp -> Database \cup {NoDb}]
      BY <1>1, <1>2 DEF TypeOK
    <3>2. PICK x : backups'[t] = [backups[t] EXCEPT ![x] = NoDb]
      BY <2>3 DEF PutsBack, Drops
    <3>3. backups'[u][s] = backups[u][s]
      BY <2>3, <3>1, <3>2
    <3> QED
      BY <2>1, <3>3
  <2> QED
    BY <1>1, <2>1, <2>2, <2>3
       DEF ActsOnTarget, KeepsOthers, Adjusts, PutsIn
<1>4. ClosedForSwap'
  <2> SUFFICES ASSUME NEW q \in Procs, pc'[q] \in ClosedLabels,
                      live'[target(q)'] # NoDb
               PROVE  ~live'[target(q)'].open
    BY DEF ClosedForSwap
  <2>1. target(q)' = target(q)
    BY <1>1 DEF Framed, target
  <2>2. CASE q # p
    <3>1. pc[q] \in ClosedLabels /\ pc[q] # "idle"
      BY <1>1, <2>2 DEF Framed, ClosedLabels
    <3>2. target(q) \in Targets \ {t}
      BY <1>1, <2>2, <3>1 DEF SealInv, LockHeld, TypeOK, LocalsOK
    <3>3. live'[target(q)] = live[target(q)]
      BY <1>1, <3>2 DEF ActsOnTarget, KeepsOthers
    <3> QED
      BY <1>2, <2>1, <3>1, <3>3 DEF ClosedForSwap
  <2>3. CASE q = p /\ pc[p] = "close"
    BY <1>1, <2>1, <2>3 DEF Ordered, ClosedLabels
  <2>4. CASE q = p /\ pc[p] \in ClosedLabels
    <3>1. pc[p] \notin {"close", "reopen recovered", "reopen untouched",
            "reopen swapped", "rename back", "rollback", "rename in", "expire"}
      BY <2>4 DEF ClosedLabels
    <3>2. \/ live'[t] = live[t]
          \/ live'[t].open = live[t].open /\ live[t] # NoDb
          \/ live'[t] = NoDb
      BY <1>1, <3>1, NoDbAssumption
         DEF ActsOnTarget, Adjusts, PutsBack, Drops, Withdraws, PutsIn
    <3> QED
      BY <1>2, <2>1, <2>4, <3>2 DEF ClosedForSwap
  <2> QED
    BY <1>1, <2>2, <2>3, <2>4 DEF Ordered
<1> QED
  BY <1>3, <1>4

\* The other steps open no closed database and touch no backup.
LEMMA OthersSeal ==
  ASSUME SealInv, [Next]_vars, ~ \E p \in Procs : Body(p)
  PROVE  BackupsSealed' /\ ClosedForSwap'
<1> USE DEF SealInv
<1>1. CASE \E p \in Procs, t \in Targets : StartRestore(p, t) \/ StartRepair(p, t)
  <2>1. PICK p \in Procs, t \in Targets : StartRestore(p, t) \/ StartRepair(p, t)
    BY <1>1
  <2>2. /\ pc'[p] = "recover" /\ UNCHANGED <<live, backups>>
        /\ \A q \in Procs \ {p} : pc'[q] = pc[q] /\ job'[q] = job[q]
    BY <2>1 DEF StartRestore, StartRepair, Goto, catalog, TypeOK
  <2> QED
    BY <2>2 DEF BackupsSealed, Backups, ClosedForSwap, ClosedLabels, target
<1>2. CASE \E p \in Procs : Unlock(p) \/ Crash(p)
  <2>1. PICK p \in Procs : Ends(p)
    BY <1>2 DEF Unlock, Crash
  <2>2. /\ pc'[p] = "idle" /\ UNCHANGED <<live, backups>>
        /\ \A q \in Procs \ {p} : pc'[q] = pc[q] /\ job'[q] = job[q]
    BY <2>1 DEF Ends, Goto, catalog, TypeOK
  <2> QED
    BY <2>2 DEF BackupsSealed, Backups, ClosedForSwap, ClosedLabels, target
<1>3. CASE \E p \in Procs : Cancel(p)
  BY <1>3 DEF Cancel, catalog, BackupsSealed, Backups,
              ClosedForSwap, target
<1>4. CASE \E t \in Targets : ClientConnect(t) \/ ClientDisconnect(t)
  <2>1. PICK t \in Targets : ClientConnect(t) \/ ClientDisconnect(t)
    BY <1>4
  <2>2. live[t] \in Database /\ live[t] # NoDb
    BY <2>1 DEF ClientConnect, ClientDisconnect, TypeOK
  <2>3. PICK b \in BOOLEAN : live' = [live EXCEPT ![t] = [live[t] EXCEPT !.busy = b]]
    BY <2>1 DEF ClientConnect, ClientDisconnect
  <2>4. live'[t].open = live[t].open /\ \A u \in Targets \ {t} : live'[u] = live[u]
    <3>1. [live[t] EXCEPT !.busy = b].open = live[t].open
      BY <2>2 DEF Database
    <3> QED
      BY <2>3, <3>1 DEF TypeOK
  <2>5. UNCHANGED <<backups, pc, job>>
    BY <2>1 DEF ClientConnect, ClientDisconnect
  <2>6. \A q \in Procs : pc[q] \in ClosedLabels => target(q) \in Targets
    BY DEF TypeOK, LocalsOK, ClosedLabels
  <2> QED
    BY <2>2, <2>4, <2>5, <2>6 DEF BackupsSealed, Backups, ClosedForSwap, target
<1>5. CASE StagingSession \/ Tick \/ StepBack \/ UNCHANGED vars
  BY <1>5 DEF StagingSession, StagingConnect, StagingDisconnect, Tick, StepBack, vars,
              catalog, BackupsSealed, Backups, ClosedForSwap, target
<1> QED
  BY <1>1, <1>2, <1>3, <1>4, <1>5 DEF Next, Step, Body, StagingSession

LEMMA SealInit == Init => BackupsSealed /\ ClosedForSwap
BY DEF Init, BackupsSealed, Backups, ClosedForSwap, ClosedLabels

\* Every database under a backup name refuses connections and has no session
\* attached, whatever is cut off, refused or retried and whichever clients
\* reconnect meanwhile: this is what makes the slots of the old database
\* droppable after a swap (Swap, Slots.Rebind).
THEOREM BackupsStaySealed == Spec => []BackupsSealed
<1>1. Init => SealInv
  BY InitType, LockHeldInit, SealInit DEF SealInv
<1>2. SealInv /\ [Next]_vars => SealInv'
  <2> SUFFICES ASSUME SealInv, [Next]_vars PROVE SealInv'
    OBVIOUS
  <2>1. TypeOK' /\ LockHeld'
    BY NextType, LockHeldNext DEF SealInv
  <2>2. BackupsSealed' /\ ClosedForSwap'
    BY BodySeals, OthersSeal
  <2> QED
    BY <2>1, <2>2 DEF SealInv
<1>3. SealInv => BackupsSealed
  BY DEF SealInv
<1> QED
  BY <1>1, <1>2, <1>3, PTL DEF Spec

-----------------------------------------------------------------------------
(***************************************************************************)
(* A missing target is recovered to the database that served last          *)
(***************************************************************************)

\* The history variable is the identity of the database in service.
ServedLast == \A t \in Targets : live[t] # NoDb => live[t].id = last[t]

\* No backup was named in the future.
PastStamps == \A t \in Targets : \A s \in Backups(t) : s[1] <= now

\* When a restore started every backup of its target already existed.
OlderStamps ==
  \A p \in Procs : job[p].kind = "restore" /\ pc[p] \in BeforeSwap =>
    /\ job[p].since <= now
    /\ \A s \in Backups(target(p)) : s[1] <= job[p].since

\* A restore takes at least a second before it swaps.
LateSwap == \A p \in Procs : pc[p] \in SwapLabels => job[p].since < now

\* Hence the name it picks sorts after every backup.
FreshStamp ==
  \A p \in Procs : pc[p] = "rename out" =>
    job[p].since < job[p].stamp[1] /\ job[p].stamp[1] <= now

\* Backups are dropped only beside a target.
ExpiresBeside ==
  \A p \in Procs : pc[p] = "expire" => live[target(p)] # NoDb

HistoryInv ==
  /\ TypeOK /\ LockHeld /\ ServedLast /\ PastStamps /\ OlderStamps /\ LateSwap
  /\ FreshStamp /\ ExpiresBeside /\ RecoverableTarget

\* Seconds are numbers.
LEMMA StampSecond == \A s \in Stamp : s[1] \in Int
BY MaxTimeAssumption DEF Stamp, Second

LEMMA SinceSecond ==
  ASSUME TypeOK, NEW p \in Procs
  PROVE  job[p].since \in Nat /\ now \in Nat
BY MaxTimeAssumption DEF TypeOK, Job, Second

\* No step but the first rename of a swap adds a backup.
LEMMA BackupsShrink ==
  ASSUME TypeOK, NEW p \in Procs, ActsOnTarget(p), target(p) \in Targets,
         ~Withdraws(p)
  PROVE  \A u \in Targets : Backups(u)' \subseteq Backups(u)
<1> SUFFICES ASSUME NEW u \in Targets, NEW s \in Stamp, backups'[u][s] # NoDb
             PROVE  backups[u][s] # NoDb
  BY DEF Backups
<1>1. CASE backups'[u] = backups[u]
  BY <1>1
<1>2. CASE u = target(p) /\ (PutsBack(p) \/ Drops(p))
  <2>1. backups[u] \in [Stamp -> Database \cup {NoDb}]
    BY DEF TypeOK
  <2>2. PICK x : backups'[u] = [backups[u] EXCEPT ![x] = NoDb]
    BY <1>2 DEF PutsBack, Drops
  <2> QED
    BY <2>1, <2>2
<1> QED
  BY <1>1, <1>2 DEF ActsOnTarget, KeepsOthers, Adjusts, PutsIn

\* That rename adds the stamp that the run picked.
LEMMA BackupsGrow ==
  ASSUME TypeOK, NEW p \in Procs, Withdraws(p), KeepsOthers(p),
         NEW t \in Targets, t = target(p), job[p].stamp \in Stamp
  PROVE  /\ Backups(t)' = Backups(t) \cup {job[p].stamp}
         /\ \A u \in Targets \ {t} : Backups(u)' = Backups(u)
<1> DEFINE k == job[p].stamp
<1>1. \A u \in Targets \ {t} : backups'[u] = backups[u]
  BY DEF KeepsOthers
<1>2. backups[t] \in [Stamp -> Database \cup {NoDb}]
  BY DEF TypeOK
<1>3. \A s \in Stamp : backups'[t][s] = IF s = k THEN live[t] ELSE backups[t][s]
  BY <1>2 DEF Withdraws
<1>4. live[t] # NoDb
  BY NoDbAssumption DEF Withdraws
<1>5. {s \in Stamp : backups'[t][s] # NoDb}
        = {s \in Stamp : backups[t][s] # NoDb} \cup {k}
  BY <1>3, <1>4
<1>6. /\ \A u : Backups(u)' = {s \in Stamp : backups'[u][s] # NoDb}
      /\ \A u : Backups(u) = {s \in Stamp : backups[u][s] # NoDb}
  BY DEF Backups
<1>7. Backups(t)' = Backups(t) \cup {k}
  BY <1>5, <1>6
<1>8. \A u \in Targets \ {t} : Backups(u)' = Backups(u)
  BY <1>1, <1>6
<1> QED
  BY <1>7, <1>8

LEMMA BodyKeepsStamps ==
  ASSUME MinRunTime # 0, HistoryInv, NEW p \in Procs, Body(p)
  PROVE  /\ PastStamps' /\ OlderStamps' /\ LateSwap' /\ FreshStamp'
         /\ ExpiresBeside'
<1>0. PICK t \in Targets : t = target(p)
  <2>1. target(p) \in Targets
    BY BodyFrames DEF HistoryInv, Framed, TypeOK, LocalsOK
  <2> QED
    BY <2>1
<1>1. /\ Framed(p) /\ ActsOnTarget(p) /\ Ordered(p)
      /\ t \in Targets /\ pc[p] # "idle"
  BY BodyFrames, BodyActs, BodyOrdered DEF HistoryInv, Framed
<1>2. /\ TypeOK /\ PastStamps /\ OlderStamps /\ LateSwap /\ FreshStamp
      /\ ExpiresBeside /\ LockHeld
  BY DEF HistoryInv
<1>3. \A q \in Procs \ {p} : pc[q] # "idle" => target(q) \in Targets \ {t}
  BY <1>0, <1>1, <1>2 DEF LockHeld, TypeOK, LocalsOK
<1>4. \A q \in Procs : target(q)' = target(q) /\ job'[q].since = job[q].since
                       /\ job'[q].kind = job[q].kind
  BY <1>0, <1>1 DEF Framed, target
<1>5. now' = now /\ now \in Nat /\ now <= now
  <2>1. now' = now /\ now \in Nat
    BY <1>1, <1>2 DEF Framed, TypeOK, Second
  <2> QED
    BY <2>1
<1>6. Withdraws(p) => pc[p] = "rename out" /\ job[p].stamp \in Stamp
                      /\ KeepsOthers(p)
  BY <1>0, <1>1, <1>2, NoDbAssumption
     DEF Withdraws, TypeOK, LocalsOK, RenameLabels, ActsOnTarget, KeepsOthers
<1>7. PastStamps'
  <2>1. CASE ~Withdraws(p)
    BY <1>0, <1>1, <1>2, <1>5, <2>1, BackupsShrink DEF PastStamps
  <2>2. CASE Withdraws(p)
    <3>1. /\ Backups(t)' = Backups(t) \cup {job[p].stamp}
          /\ \A u \in Targets \ {t} : Backups(u)' = Backups(u)
      BY <1>0, <1>1, <1>2, <1>6, <2>2, BackupsGrow
    <3>2. job[p].stamp[1] <= now
      BY <1>0, <1>2, <1>6, <2>2 DEF FreshStamp
    <3>3. \A u \in Targets : \A s \in Backups(u) : s[1] <= now
      BY <1>0, <1>2 DEF PastStamps
    <3>4. \A u \in Targets : \A s \in Backups(u)' : s[1] <= now
      BY <3>1, <3>2, <3>3, Zenon
    <3> QED
      BY <1>5, <3>4, Zenon DEF PastStamps
  <2> QED
    BY <2>1, <2>2
<1>8. OlderStamps'
  <2> SUFFICES ASSUME NEW q \in Procs, job'[q].kind = "restore",
                      pc'[q] \in BeforeSwap
               PROVE  /\ job'[q].since <= now'
                      /\ \A s \in Backups(target(q))' : s[1] <= job'[q].since
    BY DEF OlderStamps
  <2>1. /\ job[q].kind = "restore" /\ pc[q] \in BeforeSwap
        /\ target(q) \in Targets /\ (q = p => ~Withdraws(p))
    <3>1. pc[q] \in BeforeSwap /\ pc[q] # "idle"
      BY <1>0, <1>1 DEF Ordered, Framed, BeforeSwap, SwapLabels, ClosedLabels
    <3>2. q = p => ~Withdraws(p)
      BY <1>0, <1>1, <1>6 DEF Ordered
    <3> QED
      BY <1>0, <1>2, <1>4, <3>1, <3>2 DEF TypeOK, LocalsOK
  <2>2. Backups(target(q))' \subseteq Backups(target(q))
    <3>1. CASE ~Withdraws(p)
      BY <1>0, <1>1, <1>2, <1>4, <2>1, <3>1, BackupsShrink DEF Backups
    <3>2. CASE Withdraws(p)
      <4>1. target(q) \in Targets \ {t}
        BY <1>0, <1>3, <2>1, <3>2 DEF BeforeSwap, SwapLabels, ClosedLabels
      <4>2. backups'[target(q)] = backups[target(q)]
        BY <1>0, <1>6, <3>2, <4>1 DEF KeepsOthers
      <4> QED
        BY <1>4, <4>2 DEF Backups
    <3> QED
      BY <3>1, <3>2
  <2> QED
    BY <1>0, <1>2, <1>4, <1>5, <2>1, <2>2 DEF OlderStamps
<1>9. LateSwap'
  <2> SUFFICES ASSUME NEW q \in Procs, pc'[q] \in SwapLabels
               PROVE  job'[q].since < now'
    BY DEF LateSwap
  <2>1. CASE pc[q] \in SwapLabels
    BY <1>0, <1>2, <1>4, <1>5, <2>1 DEF LateSwap
  <2>2. CASE q = p /\ (MinRunTime > 0 => now >= job[p].since + MinRunTime)
    <3>1. job[p].since \in Nat /\ MinRunTime \in Nat
      BY <1>0, <1>2, BoundsAssumption DEF TypeOK, Job, Second
    <3> QED
      BY <1>4, <1>5, <2>2, <3>1
  <2> QED
    BY <1>0, <1>1, <2>1, <2>2 DEF Ordered, Framed
<1>10. FreshStamp'
  <2> SUFFICES ASSUME NEW q \in Procs, pc'[q] = "rename out"
               PROVE  job'[q].since < job'[q].stamp[1] /\ job'[q].stamp[1] <= now'
    BY DEF FreshStamp
  <2>1. CASE q # p
    <3>1. pc[q] = "rename out" /\ job'[q] = job[q]
      BY <1>0, <1>1, <2>1 DEF Framed
    <3> QED
      BY <1>0, <1>2, <1>5, <3>1 DEF FreshStamp
  <2>2. CASE q = p
    <3>1. /\ job'[p].stamp = UniqueBackupName(Backups(t), now)
          /\ job'[p].stamp # NoStamp
      BY <1>0, <1>1, <2>2 DEF Ordered
    <3>2. job'[p].stamp[1] = now
      <4>1. now \in Second
        BY <1>0, <1>2 DEF TypeOK
      <4>2. UniqueBackupName(Backups(t), now) = NoStamp
            \/ UniqueBackupName(Backups(t), now)[1] = now
        BY <4>1, UniqueBackupNameFree
      <4> QED
        BY <3>1, <4>2
    <3>3. pc'[p] \in SwapLabels
      BY <2>2 DEF SwapLabels, ClosedLabels
    <3>4. job'[p].since < now'
      BY <1>9, <3>3 DEF LateSwap
    <3> QED
      BY <1>5, <2>2, <3>2, <3>4, Zenon
  <2> QED
    BY <2>1, <2>2
<1>11. ExpiresBeside'
  <2> SUFFICES ASSUME NEW q \in Procs, pc'[q] = "expire"
               PROVE  live'[target(q)] # NoDb
    BY <1>4 DEF ExpiresBeside
  <2>1. CASE q # p
    <3>1. pc[q] = "expire" /\ target(q) \in Targets \ {t}
      BY <1>0, <1>1, <1>3, <2>1 DEF Framed
    <3>2. live'[target(q)] = live[target(q)]
      BY <1>0, <1>1, <3>1 DEF ActsOnTarget, KeepsOthers
    <3> QED
      BY <1>0, <1>2, <3>1, <3>2 DEF ExpiresBeside
  <2>2. CASE q = p /\ pc[p] = "expire"
    <3>1. live[target(p)] # NoDb
      BY <1>2, <2>2 DEF ExpiresBeside
    <3>2. Adjusts(p) => live'[target(p)] # NoDb
      BY NoDbAssumption DEF Adjusts
    <3>3. ~PutsBack(p) /\ ~Withdraws(p) /\ ~PutsIn(p)
      BY <2>2 DEF PutsBack, Withdraws, PutsIn
    <3> QED
      BY <1>1, <2>2, <3>1, <3>2, <3>3 DEF ActsOnTarget, Drops
  <2>3. CASE q = p /\ live[t] # NoDb /\ UNCHANGED live
    BY <1>0, <2>3
  <2> QED
    BY <1>0, <1>1, <2>1, <2>2, <2>3 DEF Ordered
<1> QED
  BY <1>7, <1>8, <1>9, <1>10, <1>11

LEMMA BodyRecoverable ==
  ASSUME HistoryInv, NEW p \in Procs, Body(p)
  PROVE  ServedLast' /\ RecoverableTarget'
<1>0. PICK t \in Targets : t = target(p)
  <2>1. target(p) \in Targets
    BY BodyFrames DEF HistoryInv, Framed, TypeOK, LocalsOK
  <2> QED
    BY <2>1
<1>1. /\ Framed(p) /\ ActsOnTarget(p)
      /\ t \in Targets /\ pc[p] # "idle"
  BY BodyFrames, BodyActs DEF HistoryInv, Framed
<1>2. /\ TypeOK /\ ServedLast /\ RecoverableTarget /\ OlderStamps /\ FreshStamp
      /\ ExpiresBeside
  BY DEF HistoryInv
<1>3. ASSUME NEW u \in Targets, live'[u] = live[u], backups'[u] = backups[u],
             last'[u] = last[u]
      PROVE  /\ live'[u] # NoDb => live'[u].id = last'[u]
             /\ live'[u] = NoDb =>
                  /\ Backups(u)' # {}
                  /\ backups'[u][NewestBackup(Backups(u)')].id = last'[u]
  <2>1. Backups(u)' = Backups(u)
    BY <1>0, <1>3 DEF Backups
  <2> QED
    BY <1>0, <1>2, <1>3, <2>1 DEF ServedLast, RecoverableTarget
<1>4. CASE UNCHANGED <<live, backups, last>>
  BY <1>0, <1>3, <1>4 DEF ServedLast, RecoverableTarget
<1>5. CASE KeepsOthers(p) /\ (Adjusts(p) \/ PutsBack(p) \/ PutsIn(p) \/ Drops(p))
  <2>1. live'[t] # NoDb /\ live'[t].id = last'[t]
    BY <1>0, <1>1, <1>2, <1>5, NoDbAssumption
       DEF Adjusts, PutsBack, PutsIn, Drops, ServedLast, ExpiresBeside
  <2> QED
    BY <1>0, <1>3, <1>5, <2>1 DEF KeepsOthers, ServedLast, RecoverableTarget
<1>6. CASE KeepsOthers(p) /\ Withdraws(p)
  <2> DEFINE k == job[p].stamp
  <2>1. pc[p] = "rename out" /\ k \in Stamp /\ job[p].kind = "restore"
    BY <1>0, <1>2, <1>6
       DEF Withdraws, TypeOK, LocalsOK, RenameLabels, RestoreLabels
  <2>2. Backups(t)' = Backups(t) \cup {k}
    BY <1>0, <1>1, <1>2, <1>6, <2>1, BackupsGrow
  <2>3. IsNewest(k, Backups(t)')
    <3> SUFFICES ASSUME NEW s \in Backups(t), s # k
                 PROVE  Before(s, k)
      BY <2>2 DEF IsNewest
    <3>1. s[1] <= job[p].since /\ job[p].since < k[1]
      BY <1>0, <1>2, <2>1 DEF OlderStamps, FreshStamp, BeforeSwap, SwapLabels, ClosedLabels
    <3>2. s \in Stamp
      BY DEF Backups
    <3>3. s[1] \in Int /\ k[1] \in Int
      BY <2>1, <3>2, StampSecond, Zenon
    <3>4. job[p].since \in Int
      BY <1>0, <1>2, SinceSecond
    <3> HIDE DEF k
    <3> QED
      BY <3>1, <3>3, <3>4 DEF Before
  <2>4. NewestBackup(Backups(t)') = k
    <3>1. Backups(t)' \in SUBSET Stamp
      BY DEF Backups
    <3> HIDE DEF k
    <3> QED
      BY <2>3, <3>1, NewestUnique
  <2>5. backups'[t][k] = live[t] /\ live[t] # NoDb
    <3>1. backups[t] \in [Stamp -> Database \cup {NoDb}]
      BY <1>0, <1>1, <1>2 DEF TypeOK
    <3> QED
      BY <1>0, <1>6, <2>1, <3>1, NoDbAssumption DEF Withdraws
  <2>6. live[t].id = last[t] /\ last'[t] = last[t] /\ live'[t] = NoDb
    BY <1>0, <1>1, <1>2, <1>6, <2>5 DEF ServedLast, Withdraws
  <2>7. /\ Backups(t)' # {}
        /\ backups'[t][NewestBackup(Backups(t)')].id = last'[t]
    BY <2>2, <2>4, <2>5, <2>6
  <2>8. \A u \in Targets \ {t} :
          /\ live'[u] # NoDb => live'[u].id = last'[u]
          /\ live'[u] = NoDb =>
               /\ Backups(u)' # {}
               /\ backups'[u][NewestBackup(Backups(u)')].id = last'[u]
    BY <1>0, <1>3, <1>6 DEF KeepsOthers
  <2>9. \A u : NewestBackup(Backups(u))' = NewestBackup(Backups(u)')
    BY DEF NewestBackup, IsNewest, Before
  <2>10. ServedLast'
    BY <2>6, <2>8 DEF ServedLast
  <2>11. RecoverableTarget'
    BY <2>7, <2>8, <2>9 DEF RecoverableTarget
  <2> QED
    BY <2>10, <2>11
<1> QED
  BY <1>0, <1>1, <1>4, <1>5, <1>6 DEF ActsOnTarget

\* The start of a run dates it after every backup.
LEMMA StartKeepsHistory ==
  ASSUME HistoryInv, NEW p \in Procs, NEW t \in Targets,
         StartRestore(p, t) \/ StartRepair(p, t)
  PROVE  /\ ServedLast' /\ PastStamps' /\ OlderStamps' /\ LateSwap' /\ FreshStamp'
         /\ ExpiresBeside' /\ RecoverableTarget'
<1> USE DEF HistoryInv
<1>1. UNCHANGED <<live, backups, last, now>>
  BY DEF StartRestore, StartRepair, catalog
<1>2. /\ pc'[p] = "recover"
      /\ \A q \in Procs \ {p} : pc'[q] = pc[q] /\ job'[q] = job[q]
  BY DEF StartRestore, StartRepair, Goto, TypeOK
<1>3. \A u : Backups(u)' = Backups(u)
  BY <1>1 DEF Backups
<1>4. ServedLast' /\ PastStamps' /\ RecoverableTarget'
  BY <1>1, <1>3 DEF ServedLast, PastStamps, RecoverableTarget
<1>5. LateSwap' /\ FreshStamp' /\ ExpiresBeside'
  <2>1. "recover" \notin SwapLabels
    BY DEF SwapLabels, ClosedLabels
  <2> QED
    BY <1>1, <1>2, <2>1 DEF LateSwap, FreshStamp, ExpiresBeside, target
<1>6. OlderStamps'
  <2>1. job'[p].kind = "restore" => job'[p].target = t /\ job'[p].since = now
    <3>1. CASE StartRestore(p, t)
      BY <3>1 DEF StartRestore, TypeOK, Idle
    <3>2. CASE StartRepair(p, t)
      BY <3>2 DEF StartRepair, TypeOK, Idle
    <3> QED
      BY <3>1, <3>2
  <2>2. now \in Nat
    BY DEF TypeOK, Second
  <2>3. \A s \in Backups(t) : s[1] <= now
    BY DEF PastStamps
  <2> QED
    BY <1>1, <1>2, <1>3, <2>1, <2>2, <2>3 DEF OlderStamps, target
<1> QED
  BY <1>4, <1>5, <1>6

\* Neither the end of a run, nor its environment, names a backup.
LEMMA OthersKeepHistory ==
  ASSUME HistoryInv, ~ClockSteps,
         \/ \E p \in Procs : Ends(p) \/ Cancel(p)
         \/ \E t \in Targets : ClientConnect(t) \/ ClientDisconnect(t)
         \/ StagingSession
         \/ Tick \/ StepBack \/ UNCHANGED vars
  PROVE  /\ ServedLast' /\ PastStamps' /\ OlderStamps' /\ LateSwap' /\ FreshStamp'
         /\ ExpiresBeside' /\ RecoverableTarget'
<1> USE DEF HistoryInv
<1>1. UNCHANGED <<backups, last>>
  BY DEF Ends, Cancel, ClientConnect, ClientDisconnect, StagingSession,
         StagingConnect, StagingDisconnect, Tick, StepBack, vars, catalog
<1>2. now' >= now /\ now \in Int /\ now' \in Int
  BY DEF Ends, Cancel, ClientConnect, ClientDisconnect, StagingSession,
         StagingConnect, StagingDisconnect, Tick, StepBack, vars, TypeOK, Second
<1>3. \A q \in Procs :
        (pc'[q] = pc[q] /\ job'[q] = job[q]) \/ pc'[q] = "idle"
  BY DEF Ends, Goto, Cancel, ClientConnect, ClientDisconnect, StagingSession,
         StagingConnect, StagingDisconnect, Tick, StepBack, vars, TypeOK
<1>4. \A t \in Targets :
        \/ live'[t] = live[t]
        \/ live[t] # NoDb /\ live'[t] # NoDb /\ live'[t].id = live[t].id
  <2>1. CASE UNCHANGED live
    BY <2>1
  <2>2. CASE \E t \in Targets : ClientConnect(t) \/ ClientDisconnect(t)
    <3>1. PICK t \in Targets : ClientConnect(t) \/ ClientDisconnect(t)
      BY <2>2
    <3>2. live[t] \in Database /\ live[t] # NoDb
      BY <3>1 DEF ClientConnect, ClientDisconnect, TypeOK
    <3>3. PICK b \in BOOLEAN : live' = [live EXCEPT ![t] = [live[t] EXCEPT !.busy = b]]
      BY <3>1 DEF ClientConnect, ClientDisconnect
    <3> DEFINE d == [live[t] EXCEPT !.busy = b]
    <3>4. d \in Database /\ d.id = live[t].id
      BY <3>2 DEF Database
    <3>5. d # NoDb
      BY <3>4, NoDbAssumption
    <3> HIDE DEF d
    <3> QED
      BY <3>2, <3>3, <3>4, <3>5 DEF TypeOK, d
  <2> QED
    BY <2>1, <2>2 DEF Ends, Cancel, StagingSession, StagingConnect, StagingDisconnect,
                      Tick, StepBack, vars, catalog
<1>5. \A u : Backups(u)' = Backups(u)
  BY <1>1 DEF Backups
<1>6. ServedLast' /\ RecoverableTarget'
  BY <1>1, <1>4, <1>5 DEF ServedLast, RecoverableTarget
<1>7. PastStamps'
  <2>1. \A t \in Targets : \A s \in Backups(t) : s[1] \in Int
    BY DEF Backups, Stamp, Second
  <2> QED
    BY <1>2, <1>5, <2>1 DEF PastStamps
<1>8. \A q \in Procs : job[q].since \in Int
  BY SinceSecond
<1>9. OlderStamps' /\ LateSwap'
  <2>1. "idle" \notin BeforeSwap /\ "idle" \notin SwapLabels
    BY DEF BeforeSwap, SwapLabels, ClosedLabels
  <2>2. LateSwap'
    BY <1>2, <1>3, <1>8, <2>1 DEF LateSwap
  <2>3. OlderStamps'
    BY <1>2, <1>3, <1>5, <1>8, <2>1 DEF OlderStamps, target
  <2> QED
    BY <2>2, <2>3
<1>10. \A k \in Int : k <= now => k <= now'
  BY <1>2
<1>11. FreshStamp'
  <2> SUFFICES ASSUME NEW q \in Procs, pc'[q] = "rename out"
               PROVE  job'[q].since < job'[q].stamp[1] /\ job'[q].stamp[1] <= now'
    BY DEF FreshStamp
  <2>1. pc[q] = "rename out" /\ job'[q] = job[q]
    BY <1>3
  <2>2. job[q].stamp[1] \in Int
    BY <2>1, StampSecond DEF TypeOK, LocalsOK, RenameLabels
  <2>3. job[q].since < job[q].stamp[1] /\ job[q].stamp[1] <= now
    BY <2>1 DEF FreshStamp
  <2> QED
    BY <1>10, <2>1, <2>2, <2>3, Zenon
<1>12. ExpiresBeside'
  <2> SUFFICES ASSUME NEW q \in Procs, pc'[q] = "expire"
               PROVE  live'[target(q)'] # NoDb
    BY DEF ExpiresBeside
  <2>1. pc[q] = "expire" /\ target(q)' = target(q) /\ target(q) \in Targets
    BY <1>3 DEF target, TypeOK, LocalsOK
  <2> QED
    BY <1>4, <2>1 DEF ExpiresBeside
<1> QED
  BY <1>6, <1>7, <1>9, <1>11, <1>12

LEMMA HistoryInit ==
  Init => /\ ServedLast /\ PastStamps /\ OlderStamps /\ LateSwap /\ FreshStamp
          /\ ExpiresBeside /\ RecoverableTarget
<1> SUFFICES ASSUME Init
             PROVE  /\ ServedLast /\ PastStamps /\ OlderStamps /\ LateSwap
                    /\ FreshStamp /\ ExpiresBeside /\ RecoverableTarget
  OBVIOUS
<1>1. Original \in Database
  BY BoundsAssumption DEF Original, Database
<1>2. \A t \in Targets : live[t] # NoDb /\ live[t].id = last[t] /\ Backups(t) = {}
  BY <1>1, NoDbAssumption DEF Init, Original, Backups
<1>3. \A p \in Procs : pc[p] = "idle"
  BY DEF Init
<1> QED
  BY <1>2, <1>3 DEF ServedLast, PastStamps, OlderStamps, LateSwap, FreshStamp,
       ExpiresBeside, RecoverableTarget, BeforeSwap, SwapLabels, ClosedLabels

\* Whenever the target's name holds nothing, the newest backup by name is the
\* database that had the name last: recovery is right with nothing but the
\* names, provided that the clock does not step back, that a restore takes a
\* second, and that the lock is kept (NewestBackup, Recover, Swap).
THEOREM RecoveryIsRight ==
  ASSUME ~ClockSteps, MinRunTime # 0
  PROVE  Spec => []RecoverableTarget
<1>1. Init => HistoryInv
  BY InitType, LockHeldInit, HistoryInit DEF HistoryInv
<1>2. HistoryInv /\ [Next]_vars => HistoryInv'
  <2> SUFFICES ASSUME HistoryInv, [Next]_vars PROVE HistoryInv'
    OBVIOUS
  <2>1. TypeOK' /\ LockHeld'
    BY NextType, LockHeldNext DEF HistoryInv
  <2>2. CASE \E p \in Procs : Body(p)
    BY <2>1, <2>2, BodyKeepsStamps, BodyRecoverable DEF HistoryInv
  <2>3. CASE \E p \in Procs, t \in Targets : StartRestore(p, t) \/ StartRepair(p, t)
    BY <2>1, <2>3, StartKeepsHistory DEF HistoryInv
  <2>4. CASE \/ \E p \in Procs : Ends(p) \/ Cancel(p)
             \/ \E t \in Targets : ClientConnect(t) \/ ClientDisconnect(t)
             \/ StagingSession
             \/ Tick \/ StepBack \/ UNCHANGED vars
    BY <2>1, <2>4, OthersKeepHistory DEF HistoryInv
  <2> QED
    BY <2>2, <2>3, <2>4 DEF Next, Step, Body, Unlock, Crash, StagingSession
<1>3. HistoryInv => RecoverableTarget
  BY DEF HistoryInv
<1> QED
  BY <1>1, <1>2, <1>3, PTL DEF Spec

-----------------------------------------------------------------------------
(***************************************************************************)
(* The number of backups                                                   *)
(***************************************************************************)

LEMMA StampsFinite ==
  ASSUME NEW B \in SUBSET Stamp
  PROVE  IsFiniteSet(B) /\ Cardinality(B) \in Nat
<1>1. IsFiniteSet(Second) /\ IsFiniteSet(0 .. MaxSuffix)
  BY MaxTimeAssumption, MaxSuffixAssumption, FS_Interval DEF Second
<1>2. IsFiniteSet(Stamp)
  BY <1>1, FS_Product DEF Stamp
<1> QED
  BY <1>2, FS_Subset, FS_CardinalityType

\* A set of backups has no more elements than one that it is part of.
LEMMA FewerBackups ==
  ASSUME NEW B \in SUBSET Stamp, NEW A \in SUBSET B
  PROVE  Cardinality(A) <= Cardinality(B)
  BY StampsFinite, FS_Subset

\* Of several backups one sorts first, and it is the one that is dropped first.
LEMMA OldestIsOldest ==
  ASSUME NEW B \in SUBSET Stamp, B # {}
  PROVE  /\ OldestBackup(B) \in B
         /\ \A r \in B : r # OldestBackup(B) => Before(OldestBackup(B), r)
<1> DEFINE Seconds == {s[1] : s \in B}
<1>1. Seconds \in SUBSET Nat /\ Seconds # {}
  BY MaxTimeAssumption DEF Stamp, Second
<1>2. PICK m \in Seconds : \A n \in Seconds : m <= n
  <2> HIDE DEF Seconds
  <2> QED BY <1>1, LeastExists
<1> DEFINE Suffixes == {s[2] : s \in {r \in B : r[1] = m}}
<1>3. Suffixes \in SUBSET Nat /\ Suffixes # {}
  BY <1>2, MaxSuffixAssumption DEF Stamp, Second
<1>4. PICK k \in Suffixes : \A n \in Suffixes : k <= n
  <2> HIDE DEF Suffixes
  <2> QED BY <1>3, LeastExists
<1>5. PICK s \in B : s[1] = m /\ s[2] = k
  BY <1>4
<1>6. \A r \in B : r # s => Before(s, r)
  <2> SUFFICES ASSUME NEW r \in B, r # s
               PROVE  Before(s, r)
    OBVIOUS
  <2>1. r \in Stamp /\ s \in Stamp
    OBVIOUS
  <2>2. r[1] \in Int /\ r[2] \in Int /\ s[1] \in Int /\ s[2] \in Int
    BY <2>1, MaxTimeAssumption, MaxSuffixAssumption DEF Stamp, Second
  <2>3. s[1] <= r[1]
    BY <1>2, <1>5
  <2>4. r[1] = s[1] => s[2] <= r[2]
    BY <1>4, <1>5
  <2>5. ~(r[1] = s[1] /\ r[2] = s[2])
    BY <2>1 DEF Stamp
  <2> QED
    BY <2>2, <2>3, <2>4, <2>5 DEF Before
<1>7. \E x \in B : \A r \in B : r # x => Before(x, r)
  BY <1>6
<1> QED
  BY <1>7 DEF OldestBackup

\* What does not expire is at most what the retention keeps: the oldest of
\* those backups has all the others after it.
LEMMA RetentionKeeps ==
  ASSUME NEW B \in SUBSET Stamp, NEW keep \in Nat
  PROVE  Cardinality(B \ ExpiredBackups(B, keep)) <= keep
<1> DEFINE T == B \ ExpiredBackups(B, keep)
           m == OldestBackup(T)
           Newer == {r \in B : Before(m, r)}
<1>1. CASE T = {}
  BY <1>1, FS_EmptySet
<1>2. CASE T # {}
  <2>1. T \in SUBSET Stamp /\ m \in T /\ \A r \in T : r # m => Before(m, r)
    <3>1. T \in SUBSET Stamp
      OBVIOUS
    <3> HIDE DEF T
    <3> QED
      BY <1>2, <3>1, OldestIsOldest
  <2>2. ~(Cardinality(Newer) >= keep)
    BY <2>1 DEF ExpiredBackups
  <2>3. T \ {m} \in SUBSET Newer /\ Newer \in SUBSET Stamp
    BY <2>1
  <2> HIDE DEF T, m, Newer
  <2>4. Cardinality(T \ {m}) <= Cardinality(Newer)
    BY <2>3, FewerBackups
  <2>5. Cardinality(T \ {m}) = Cardinality(T) - 1
    BY <2>1, StampsFinite, FS_RemoveElement
  <2>6. Cardinality(Newer) \in Nat /\ Cardinality(T) \in Nat
    BY <2>1, <2>3, StampsFinite
  <2>7. Cardinality(T) <= keep
    BY <2>2, <2>4, <2>5, <2>6
  <2> QED
    BY <2>7 DEF T
<1> QED
  BY <1>1, <1>2

\* A restore that has dropped the expired backups, and has not made one yet.
PrunedLabels == {"create", "load", "close", "terminate", "terminate staging",
                 "name", "rename out"}

PrunedInv ==
  \A p \in Procs :
    LET B == Backups(target(p)) D == job[p].doomed IN
    /\ pc[p] = "expire" => D # {} /\ Cardinality(B \ D) <= Retention
    /\ pc[p] \in PrunedLabels => Cardinality(B) <= Retention

BoundInv == TypeOK /\ LockHeld /\ BackupBound /\ PrunedInv

\* Where the statements before the first rename lead, and that rename.
LEMMA LeadsToPruned ==
  ASSUME TypeOK, NEW p \in Procs, Body(p)
  PROVE  /\ pc'[p] \in PrunedLabels =>
              pc[p] \in PrunedLabels \ {"rename out"} \/ Check(p) \/ Expire(p)
         /\ pc'[p] = "expire" => Check(p) \/ Expire(p)
<1>1. ASSUME Recover(p) PROVE pc'[p] \in {"check", "drop orphans", "rename back", "unlock"}
  BY <1>1, StatementLeads DEF Recover, Recovered, Statement, Classify, States, StateIdle,
     StateOrphanedStaging, StateCrashedMidSwap, StateMissing
<1>2. ASSUME RenameBack(p) PROVE pc'[p] \in {"reopen recovered", "unlock"}
  BY <1>2, StatementLeads DEF RenameBack, Statement
<1>3. ASSUME ReopenRecovered(p) PROVE pc'[p] \in {"check", "drop orphans", "unlock"}
  BY <1>3, StatementLeads DEF ReopenRecovered, Statement, Recovered
<1>4. ASSUME DropOrphan(p) PROVE pc'[p] \in {"check", "drop orphans", "unlock"}
  BY <1>4, StatementLeads DEF DropOrphan, Statement, Recovered
<1>5. ASSUME Create(p) PROVE pc[p] = "create" /\ pc'[p] \in {"load", "unlock"}
  BY <1>5, StatementLeads DEF Create, Statement
<1>6. ASSUME Load(p) PROVE pc[p] = "load" /\ pc'[p] \in {"close", "cleanup"}
  BY <1>6, StatementLeads DEF Load, Statement
<1>7. ASSUME Close(p) PROVE pc[p] = "close" /\ pc'[p] \in {"terminate", "cleanup"}
  BY <1>7, StatementLeads DEF Close, Statement
<1>8. ASSUME Terminate(p) PROVE pc[p] = "terminate" /\ pc'[p] \in {"terminate staging", "cleanup"}
  BY <1>8, StatementLeads DEF Terminate, Statement
<1>9. ASSUME TerminateStaging(p) PROVE pc[p] = "terminate staging" /\ pc'[p] \in {"name", "cleanup"}
  BY <1>9, StatementLeads DEF TerminateStaging, Statement
<1>10. ASSUME PickBackupName(p) PROVE pc[p] = "name" /\ pc'[p] \in {"rename out", "cleanup"}
  BY <1>10, StatementLeads DEF PickBackupName, Statement
<1>11. ASSUME RenameOut(p) PROVE pc'[p] \in {"rename in", "reopen untouched"}
  BY <1>11, StatementLeads DEF RenameOut, Statement
<1>12. ASSUME RenameIn(p) PROVE pc'[p] \in {"reopen swapped", "rollback"}
  BY <1>12, StatementLeads DEF RenameIn, Statement
<1>13. ASSUME Rollback(p) PROVE pc'[p] \in {"reopen untouched", "cleanup"}
  BY <1>13, StatementLeads DEF Rollback, Statement
<1>14. ASSUME ReopenUntouched(p) PROVE pc'[p] \in {"cleanup"}
  BY <1>14, StatementLeads DEF ReopenUntouched, Statement
<1>15. ASSUME ReopenSwapped(p) PROVE pc'[p] \in {"unlock", "cleanup"}
  BY <1>15, StatementLeads DEF ReopenSwapped, Statement
<1>16. ASSUME Cleanup(p) PROVE pc'[p] = "unlock"
  BY <1>16 DEF Cleanup, Goto, TypeOK
<1> QED
  BY <1>1, <1>2, <1>3, <1>4, <1>5, <1>6, <1>7, <1>8,
     <1>9, <1>10, <1>11, <1>12, <1>13, <1>14, <1>15, <1>16
     DEF Body, PrunedLabels

\* Check keeps at most the retention when nothing is doomed, and otherwise
\* dooms the rest.
LEMMA CheckPrunes ==
  ASSUME TypeOK, NEW p \in Procs, NEW t \in Targets, t = target(p), Check(p)
  PROVE  /\ UNCHANGED backups
         /\ pc'[p] = "expire" => job'[p].doomed # {} /\
              Cardinality(Backups(t) \ job'[p].doomed) <= Retention
         /\ pc'[p] \in PrunedLabels => Cardinality(Backups(t)) <= Retention
<1> DEFINE doomed == ExpiredBackups(Backups(t), Retention)
           idle == Classify(live[t] # NoDb, Backups(t), Staging) = StateIdle
           next == IF ~idle THEN "unlock" ELSE IF doomed = {} THEN "create" ELSE "expire"
<1>1. Cardinality(Backups(t) \ doomed) <= Retention
  BY RetentionKeeps, RetentionAssumption DEF Backups
<1>2. UNCHANGED backups
  BY DEF Check, Statement, catalog
<1>3. \/ pc'[p] = "unlock"
      \/ /\ job' = [job EXCEPT ![p].doomed = doomed]
         /\ pc'[p] = next
  BY DEF Check, Statement, Executed, Refused, Failed, Goto, TypeOK
<1>4. job' = [job EXCEPT ![p].doomed = doomed] => job'[p].doomed = doomed
  BY DEF TypeOK, Job
<1>5. pc'[p] = "expire" => doomed # {} /\ job'[p].doomed = doomed
  BY <1>3, <1>4
<1>6. pc'[p] \in PrunedLabels => doomed = {}
  BY <1>3 DEF PrunedLabels
<1> HIDE DEF doomed
<1>7. doomed = {} => Backups(t) \ doomed = Backups(t)
  OBVIOUS
<1> QED
  BY <1>1, <1>2, <1>5, <1>6, <1>7

\* Expire drops one of the doomed.
LEMMA ExpirePrunes ==
  ASSUME BoundInv, NEW p \in Procs, NEW t \in Targets, t = target(p), Expire(p)
  PROVE  /\ pc'[p] = "expire" => job'[p].doomed # {} /\
              Cardinality(Backups(t)' \ job'[p].doomed) <= Retention
         /\ pc'[p] \in PrunedLabels => Cardinality(Backups(t)') <= Retention
<1> DEFINE D == job[p].doomed
           o == OldestBackup(D)
<1>1. /\ pc[p] = "expire" /\ D # {} /\ Cardinality(Backups(t) \ D) <= Retention
      /\ TypeOK /\ job[p] \in Job /\ D \in SUBSET Stamp
  BY DEF BoundInv, PrunedInv, Expire, TypeOK, Job
<1>2. o \in D
  BY <1>1, OldestIsOldest
<1>3. \/ pc'[p] = "unlock"
      \/ /\ backups' = [backups EXCEPT ![t][o] = NoDb]
         /\ job' = [job EXCEPT ![p].doomed = @ \ {o}]
         /\ pc'[p] = IF D = {o} THEN "create" ELSE "expire"
  BY <1>1 DEF Expire, Statement, Executed, Refused, Failed, Goto, TypeOK
<1>4. CASE pc'[p] = "unlock"
  BY <1>4 DEF PrunedLabels
<1>5. CASE /\ backups' = [backups EXCEPT ![t][o] = NoDb]
           /\ job' = [job EXCEPT ![p].doomed = @ \ {o}]
           /\ pc'[p] = IF D = {o} THEN "create" ELSE "expire"
  <2>1. job'[p].doomed = D \ {o}
    BY <1>1, <1>5 DEF TypeOK, Job
  <2>2. Backups(t)' = Backups(t) \ {o}
    BY <1>1, <1>2, <1>5 DEF Backups, TypeOK
  <2>3. Backups(t)' \ (D \ {o}) \in SUBSET (Backups(t) \ D)
    BY <2>2
  <2>4. Backups(t) \ D \in SUBSET Stamp
    BY DEF Backups
  <2>5. Cardinality(Backups(t)' \ (D \ {o})) <= Cardinality(Backups(t) \ D)
    BY <2>3, <2>4, FewerBackups
  <2>6. Cardinality(Backups(t)' \ (D \ {o})) <= Retention
    <3>1. /\ Cardinality(Backups(t)' \ (D \ {o})) \in Nat
          /\ Cardinality(Backups(t) \ D) \in Nat
      BY <2>3, <2>4, StampsFinite
    <3> QED
      BY <1>1, <2>5, <3>1, RetentionAssumption
  <2>7. D = {o} => Backups(t)' \ (D \ {o}) = Backups(t)'
    OBVIOUS
  <2>8. D # {o} => D \ {o} # {}
    BY <1>2
  <2> HIDE DEF D, o
  <2> QED
    BY <1>5, <2>1, <2>6, <2>7, <2>8 DEF PrunedLabels
<1> QED
  BY <1>3, <1>4, <1>5

LEMMA BodyBounds ==
  ASSUME BoundInv, NEW p \in Procs, Body(p)
  PROVE  BackupBound' /\ PrunedInv'
<1>1. TypeOK /\ LockHeld /\ BackupBound /\ PrunedInv
  BY DEF BoundInv
<1>2. PICK t \in Targets : t = target(p)
  BY <1>1, BodyFrames DEF Framed, TypeOK, LocalsOK
<1>3. /\ Framed(p) /\ ActsOnTarget(p) /\ target(p)' = t
  BY <1>1, <1>2, BodyFrames, BodyActs DEF Framed, target
<1>4. \A u \in Targets : Backups(u) \in SUBSET Stamp
  BY DEF Backups
<1>5. \A q \in Procs \ {p} : pc[q] # "idle" =>
        target(q) \in Targets \ {t} /\ target(q)' = target(q)
  BY <1>1, <1>2, <1>3 DEF LockHeld, Framed, target, TypeOK, LocalsOK
<1>6. "idle" \notin PrunedLabels /\ "expire" \notin PrunedLabels
  BY DEF PrunedLabels
<1>7. CASE Withdraws(p)
  <2>1. pc[p] = "rename out" /\ job[p].stamp \in Stamp /\ KeepsOthers(p)
    BY <1>1, <1>3, <1>7, NoDbAssumption
       DEF Withdraws, TypeOK, LocalsOK, RenameLabels, ActsOnTarget
  <2>2. /\ Backups(t)' = Backups(t) \cup {job[p].stamp}
        /\ \A u \in Targets \ {t} : Backups(u)' = Backups(u)
    BY <1>1, <1>2, <1>7, <2>1, BackupsGrow
  <2>3. Cardinality(Backups(t)) <= Retention
    BY <1>1, <1>2, <2>1 DEF PrunedInv, PrunedLabels
  <2>4. Cardinality(Backups(t)') <= Retention + 1
    <3>1. IsFiniteSet(Backups(t)) /\ Cardinality(Backups(t)) \in Nat
      BY <1>4, StampsFinite
    <3>2. Cardinality(Backups(t)') \in {Cardinality(Backups(t)), Cardinality(Backups(t)) + 1}
      BY <2>2, <3>1, FS_AddElement
    <3> QED
      BY <2>3, <3>1, <3>2, RetentionAssumption
  <2>5. BackupBound'
    BY <1>1, <2>2, <2>4 DEF BackupBound
  <2>6. pc'[p] \notin PrunedLabels /\ pc'[p] # "expire"
    <3>1. ~Check(p) /\ ~Expire(p)
      BY <2>1 DEF Check, Expire
    <3> QED
      BY <1>1, <2>1, <3>1, LeadsToPruned DEF PrunedLabels
  <2>7. PrunedInv'
    <3> SUFFICES ASSUME NEW q \in Procs, pc'[q] \in PrunedLabels \cup {"expire"}
                 PROVE  /\ pc[q] = pc'[q] /\ job'[q] = job[q]
                        /\ target(q)' = target(q)
                        /\ Backups(target(q))' = Backups(target(q))
      BY <1>1 DEF PrunedInv
    <3> QED
      BY <1>3, <1>5, <1>6, <2>2, <2>6 DEF Framed
  <2> QED
    BY <2>5, <2>7
<1>8. CASE ~Withdraws(p)
  <2>1. \A u \in Targets : Backups(u)' \in SUBSET Backups(u)
    BY <1>1, <1>2, <1>3, <1>8, BackupsShrink
  <2>2. BackupBound'
    <3>1. \A u \in Targets : Cardinality(Backups(u)') <= Cardinality(Backups(u))
      BY <1>4, <2>1, FewerBackups
    <3>2. \A u \in Targets : Cardinality(Backups(u)') \in Nat /\ Cardinality(Backups(u)) \in Nat
      BY <1>4, <2>1, StampsFinite
    <3> QED
      BY <1>1, <3>1, <3>2, RetentionAssumption DEF BackupBound
  <2>3. ASSUME NEW u \in Targets, NEW D
        PROVE  /\ Cardinality(Backups(u)) <= Retention => Cardinality(Backups(u)') <= Retention
               /\ Cardinality(Backups(u) \ D) <= Retention =>
                    Cardinality(Backups(u)' \ D) <= Retention
    <3>1. /\ Backups(u) \ D \in SUBSET Stamp /\ Backups(u)' \ D \in SUBSET (Backups(u) \ D)
          /\ Backups(u) \in SUBSET Stamp /\ Backups(u)' \in SUBSET Backups(u)
      BY <1>4, <2>1
    <3>2. /\ Cardinality(Backups(u)') <= Cardinality(Backups(u))
          /\ Cardinality(Backups(u)' \ D) <= Cardinality(Backups(u) \ D)
      BY <3>1, FewerBackups
    <3>3. /\ Cardinality(Backups(u)) \in Nat /\ Cardinality(Backups(u)') \in Nat
          /\ Cardinality(Backups(u) \ D) \in Nat /\ Cardinality(Backups(u)' \ D) \in Nat
      BY <3>1, StampsFinite
    <3> QED
      BY <3>2, <3>3, RetentionAssumption
  <2>4. ASSUME NEW q \in Procs, NEW u \in Targets, u = target(q)'
        PROVE  /\ pc'[q] = "expire" => job'[q].doomed # {} /\
                    Cardinality(Backups(u)' \ job'[q].doomed) <= Retention
               /\ pc'[q] \in PrunedLabels => Cardinality(Backups(u)') <= Retention
    <3>1. CASE q # p
      BY <1>1, <1>3, <1>5, <1>6, <2>3, <2>4, <3>1 DEF Framed, PrunedInv
    <3>2. CASE q = p /\ Check(p)
      <4>1. Backups(t)' = Backups(t)
        BY <1>1, <1>2, <3>2, CheckPrunes DEF Backups
      <4> QED
        BY <1>1, <1>2, <1>3, <2>4, <3>2, <4>1, CheckPrunes
    <3>3. CASE q = p /\ Expire(p)
      BY <1>2, <1>3, <2>4, <3>3, ExpirePrunes
    <3>4. CASE q = p /\ ~Check(p) /\ ~Expire(p)
      BY <1>1, <1>2, <1>3, <2>3, <2>4, <3>4, LeadsToPruned DEF PrunedInv
    <3> QED
      BY <3>1, <3>2, <3>3, <3>4
  <2>5. PrunedInv'
    <3> SUFFICES ASSUME NEW q \in Procs, pc'[q] \in PrunedLabels \cup {"expire"}
                 PROVE  /\ pc'[q] = "expire" => job'[q].doomed # {} /\
                              Cardinality(Backups(target(q))' \ job'[q].doomed) <= Retention
                        /\ pc'[q] \in PrunedLabels =>
                              Cardinality(Backups(target(q))') <= Retention
      BY DEF PrunedInv
    <3>1. target(q)' \in Targets
      BY <1>3, <1>5, <1>6, <1>2 DEF Framed
    <3>2. PICK u \in Targets : u = target(q)'
      BY <3>1
    <3>3. Backups(target(q))' = Backups(u)'
      BY <3>2 DEF Backups
    <3> QED
      BY <2>4, <3>2, <3>3
  <2> QED
    BY <2>2, <2>5
<1> QED
  BY <1>7, <1>8

\* Nothing but the statements of a run touches the backups.
LEMMA OthersBound ==
  ASSUME BoundInv,
         \/ \E p \in Procs, t \in Targets : StartRestore(p, t) \/ StartRepair(p, t)
         \/ \E p \in Procs : Ends(p) \/ Cancel(p)
         \/ \E t \in Targets : ClientConnect(t) \/ ClientDisconnect(t)
         \/ StagingSession
         \/ Tick \/ StepBack \/ UNCHANGED vars
  PROVE  BackupBound' /\ PrunedInv'
<1>1. \A u : Backups(u)' = Backups(u)
  BY DEF Backups, StartRestore, StartRepair, Ends, Cancel, ClientConnect, ClientDisconnect,
     StagingSession, StagingConnect, StagingDisconnect, Tick, StepBack, vars, catalog
<1>2. \A q \in Procs : \/ pc'[q] \in {"idle", "recover"}
                       \/ pc'[q] = pc[q] /\ job'[q] = job[q]
  BY DEF BoundInv, StartRestore, StartRepair, Goto, Ends, Cancel, ClientConnect,
     ClientDisconnect, StagingSession, StagingConnect, StagingDisconnect, Tick, StepBack,
     vars, TypeOK
<1>3. BackupBound'
  BY <1>1 DEF BoundInv, BackupBound
<1>4. PrunedInv'
  <2> SUFFICES ASSUME NEW q \in Procs, pc'[q] = pc[q], job'[q] = job[q]
               PROVE  Backups(target(q))' = Backups(target(q))
    BY <1>2 DEF BoundInv, PrunedInv, PrunedLabels
  <2> QED
    BY <1>1 DEF target, Backups
<1> QED
  BY <1>3, <1>4

\* There is at most one backup more than the retention keeps, however many runs
\* fail between the drop of the expired ones and the swap (ExpiredBackups, Run):
\* a restore comes to its swap only after it has dropped what it found too many.
THEOREM BackupsAreBounded == Spec => []BackupBound
<1>1. Init => BoundInv
  <2> SUFFICES ASSUME Init PROVE BackupBound /\ PrunedInv
    BY InitType, LockHeldInit DEF BoundInv
  <2>1. \A t \in Targets : Backups(t) = {}
    BY DEF Init, Backups
  <2>2. Cardinality({}) <= Retention + 1
    BY FS_EmptySet, RetentionAssumption
  <2> QED
    BY <2>1, <2>2 DEF Init, BackupBound, PrunedInv, PrunedLabels
<1>2. BoundInv /\ [Next]_vars => BoundInv'
  <2> SUFFICES ASSUME BoundInv, [Next]_vars PROVE BoundInv'
    OBVIOUS
  <2>1. TypeOK' /\ LockHeld'
    BY NextType, LockHeldNext DEF BoundInv
  <2>2. BackupBound' /\ PrunedInv'
    <3>1. CASE \E p \in Procs : Body(p)
      BY <3>1, BodyBounds
    <3>2. CASE ~\E p \in Procs : Body(p)
      BY <3>2, OthersBound DEF Next, Step, Body, Unlock, Crash, StagingSession
    <3> QED
      BY <3>1, <3>2
  <2> QED
    BY <2>1, <2>2 DEF BoundInv
<1>3. BoundInv => BackupBound
  BY DEF BoundInv
<1> QED
  BY <1>1, <1>2, <1>3, PTL DEF Spec
=============================================================================
