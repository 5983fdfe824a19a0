----------------------------- MODULE Swap_proofs -----------------------------
(***************************************************************************)
(* The swap of a restore: the names of the backups sort as the databases   *)
(* served, and where an instance has one target no swap gets stuck half    *)
(* way, for every value of the constants.                                  *)
(***************************************************************************)
EXTENDS LostLock, RestoreSafety_proofs

\* A staging database has the number of its restore.
Numbered == \A r \in Restores : staging[r] # NoDb => staging[r].id = r

\* Everything of a target is older than `n`.
OlderThan(t, n) ==
  /\ live[t] # NoDb => live[t].id < n
  /\ \A s \in Backups(t) : backups[t][s].id < n

\* Numbers are given in order.
Counted ==
  /\ \A t \in Targets : OlderThan(t, nextId)
  /\ \A p \in Procs : job[p].kind = "restore" => job[p].staging < nextId

\* The labels of a restore until its staging database gets the target's name.
YoungLabels == BeforeSwap \cup {"rename in"}

\* A restore builds a younger database than any that its target has.
BuildsYoungest ==
  \A p \in Procs :
    job[p].kind = "restore" /\ pc[p] \in YoungLabels =>
      OlderThan(target(p), job[p].staging)

\* What a run may put back is the newest backup.
ReturnLabels == {"rename back", "rename in", "rollback"}

PutsBackNewest ==
  \A p \in Procs : pc[p] \in ReturnLabels =>
    \A s \in Backups(target(p)) : s # job[p].stamp => Before(s, job[p].stamp)

OrderInv ==
  /\ HistoryInv /\ BackupsInOrder
  /\ Numbered /\ Counted /\ BuildsYoungest /\ PutsBackNewest

-----------------------------------------------------------------------------
LEMMA NumberedStep ==
  ASSUME TypeOK, Numbered, NEW p \in Procs, Body(p)
  PROVE  Numbered'
<1> DEFINE r == job[p].staging
<1>1. CASE UNCHANGED staging
  BY <1>1 DEF Numbered
<1>2. ASSUME NEW x, staging' = [staging EXCEPT ![x] = NoDb] PROVE Numbered'
  BY <1>2 DEF Numbered, TypeOK
<1>3. ASSUME NEW d, d.id = r, staging' = [staging EXCEPT ![r] = d] PROVE Numbered'
  BY <1>3 DEF Numbered, TypeOK
<1>4. CASE Create(p)
  BY <1>1, <1>3, <1>4 DEF Create, Statement, catalog
<1>5. CASE Load(p)
  <2>1. r \in Restores
    BY <1>5 DEF Load, TypeOK, LocalsOK, RestoreLabels
  <2>2. \/ UNCHANGED staging
        \/ staging[r] # NoDb /\ staging' = [staging EXCEPT ![r].ready = TRUE]
    BY <1>5 DEF Load, Statement, catalog
  <2>3. ASSUME staging[r] # NoDb, staging' = [staging EXCEPT ![r].ready = TRUE]
        PROVE  Numbered'
    <3> DEFINE d == [staging[r] EXCEPT !.ready = TRUE]
    <3>1. staging[r] \in Database /\ staging[r].id = r
      BY <2>1, <2>3 DEF TypeOK, Numbered
    <3>2. d.id = r
      BY <3>1 DEF Database
    <3>3. staging' = [staging EXCEPT ![r] = d]
      BY <2>3
    <3> HIDE DEF d, r
    <3> QED
      BY <1>3, <3>2, <3>3
  <2> QED
    BY <1>1, <2>2, <2>3
<1>6. CASE TerminateStaging(p)
  <2>1. r \in Restores
    BY <1>6 DEF TerminateStaging, TypeOK, LocalsOK, RestoreLabels
  <2>2. \/ UNCHANGED staging
        \/ staging' = [staging EXCEPT ![r] = IF @ = NoDb THEN NoDb
                                              ELSE [@ EXCEPT !.busy = FALSE]]
    BY <1>6 DEF TerminateStaging, Statement, catalog
  <2>3. CASE staging[r] = NoDb
    <3>1. UNCHANGED staging
      BY <2>2, <2>3 DEF TypeOK
    <3> QED
      BY <1>1, <3>1
  <2>4. CASE staging[r] # NoDb /\ ~UNCHANGED staging
    <3> DEFINE d == [staging[r] EXCEPT !.busy = FALSE]
    <3>1. staging[r] \in Database /\ staging[r].id = r
      BY <2>1, <2>4 DEF TypeOK, Numbered
    <3>2. d.id = r
      BY <3>1 DEF Database
    <3>3. staging' = [staging EXCEPT ![r] = d]
      BY <2>2, <2>4
    <3> HIDE DEF d, r
    <3> QED
      BY <1>3, <3>2, <3>3
  <2> QED
    BY <1>1, <2>3, <2>4
<1>7. CASE DropOrphan(p) \/ RenameIn(p) \/ Cleanup(p)
  BY <1>1, <1>2, <1>7 DEF DropOrphan, RenameIn, Cleanup, Statement, catalog
<1>8. CASE \/ Recover(p) \/ Check(p) \/ RenameBack(p) \/ Rollback(p) \/ Expire(p)
           \/ ReopenRecovered(p) \/ ReopenUntouched(p) \/ ReopenSwapped(p)
           \/ Close(p) \/ Terminate(p) \/ PickBackupName(p) \/ RenameOut(p)
  <2>1. UNCHANGED staging
    BY <1>8 DEF Recover, Check, RenameBack, Rollback, ReopenRecovered, ReopenUntouched,
                ReopenSwapped, Expire, Statement, catalog, RenameBackupToTarget,
                SetAllowConnections, Close, Terminate, PickBackupName, RenameOut,
                RenameTargetToBackup
  <2> QED
    BY <1>1, <2>1
<1> QED
  BY <1>4, <1>5, <1>6, <1>7, <1>8 DEF Body

\* The database that a swap brings in has the number of the restore.
LEMMA BroughtIn ==
  ASSUME TypeOK, Numbered, NEW p \in Procs, Body(p), PutsIn(p), ~UNCHANGED live
  PROVE  live'[target(p)].id = job[p].staging
<1>1. pc[p] = "rename in" /\ RenameIn(p)
  BY DEF PutsIn, Body, Recover, RenameBack, ReopenRecovered, DropOrphan, Check, Expire,
         Create, Load, Close, Terminate, TerminateStaging, PickBackupName, RenameOut,
         Rollback, ReopenUntouched, ReopenSwapped, Cleanup
<1>2. target(p) \in Targets /\ job[p].staging \in Restores
  BY <1>1 DEF TypeOK, LocalsOK, RestoreLabels
<1>3. CanRenameIn(p) /\ live' = [live EXCEPT ![target(p)] = staging[job[p].staging]]
  BY <1>1 DEF RenameIn, Statement, catalog
<1> QED
  BY <1>2, <1>3 DEF CanRenameIn, Numbered, TypeOK

\* Recover looks for the newest backup.
LEMMA SeenNewest ==
  ASSUME TypeOK, NEW p \in Procs, Recover(p), pc'[p] = "rename back"
  PROVE  /\ UNCHANGED <<live, backups>>
         /\ \A s \in Backups(target(p)) : s # job'[p].stamp => Before(s, job'[p].stamp)
<1> DEFINE t == target(p)
           state == Classify(live[t] # NoDb, Backups(t), Staging)
           goes == CASE state = StateIdle            -> Recovered(p)
                     [] state = StateOrphanedStaging -> "drop orphans"
                     [] state = StateCrashedMidSwap  -> "rename back"
                     [] state = StateMissing         -> "unlock"
           seen == [job[p] EXCEPT !.orphans = Staging, !.stamp = NewestBackup(Backups(t))]
<1>1. job[p] \in Job
  BY DEF TypeOK
<1>2. \/ /\ job' = [job EXCEPT ![p].orphans = Staging, ![p].stamp = NewestBackup(Backups(t))]
         /\ UNCHANGED catalog
      \/ pc'[p] = "unlock"
  <2> HIDE DEF goes
  <2>1. Statement(p, TRUE,
          /\ job' = [job EXCEPT ![p].orphans = Staging,
                                ![p].stamp = NewestBackup(Backups(t))]
          /\ UNCHANGED catalog,
          goes, "unlock")
    BY DEF Recover, goes
  <2> QED
    BY <2>1 DEF Statement, Refused, Failed, Goto, TypeOK
<1>3. job' = [job EXCEPT ![p] = seen] /\ UNCHANGED catalog
  BY <1>2 DEF TypeOK
<1>4. job'[p].stamp = NewestBackup(Backups(t))
  <2> HIDE DEF t
  <2> QED
    BY <1>1, <1>3 DEF Job, TypeOK
<1>5. Backups(t) \in SUBSET Stamp
  BY DEF Backups
<1>6. CASE Backups(t) = {}
  BY <1>3, <1>6 DEF catalog
<1>7. CASE Backups(t) # {}
  <2>1. IsNewest(NewestBackup(Backups(t)), Backups(t))
    BY <1>5, <1>7, NewestBackupIsNewest
  <2> QED
    BY <1>3, <1>4, <2>1 DEF catalog, IsNewest
<1> QED
  BY <1>6, <1>7

\* How a run gets to the statements that may put a backup back.
LEMMA Arrivals ==
  ASSUME TypeOK, NEW p \in Procs, Body(p)
  PROVE  /\ pc'[p] = "rename back" => Recover(p)
         /\ pc'[p] = "rename in" => RenameOut(p) /\ Withdraws(p) /\ UNCHANGED job
         /\ pc'[p] = "rollback" => pc[p] = "rename in" /\ UNCHANGED <<job, backups>>
<1>0. target(p) \in Targets
  BY BodyFrames DEF Framed, TypeOK, LocalsOK
<1>1. CASE Recover(p)
  <2>1. UNCHANGED <<live, backups>>
    BY <1>1 DEF Recover, Statement, catalog
  <2>2. pc[p] = "recover"
    BY <1>1 DEF Recover
  <2>3. Ordered(p)
    BY BodyOrdered
  <2>4. pc'[p] \notin {"rename in", "rollback"}
    <3> DEFINE t == target(p)
               state == Classify(live[t] # NoDb, Backups(t), Staging)
               goes == CASE state = StateIdle            -> Recovered(p)
                         [] state = StateOrphanedStaging -> "drop orphans"
                         [] state = StateCrashedMidSwap  -> "rename back"
                         [] state = StateMissing         -> "unlock"
    <3>1. goes \in {"check", "unlock", "drop orphans", "rename back"}
      BY DEF Recovered, Classify, StateIdle, StateOrphanedStaging,
             StateCrashedMidSwap, StateMissing
    <3>2. Executed(p, goes, "unlock") \/ Refused(p, "unlock") \/ Failed(p, "unlock")
      BY <1>1 DEF Recover, Statement
    <3> HIDE DEF goes
    <3>3. pc'[p] \in {goes, "unlock"}
      BY <3>2, StatementLeads
    <3> QED
      BY <3>1, <3>3
  <2> QED
    BY <1>1, <2>4
<1>2. CASE RenameOut(p)
  <2>1. pc'[p] \in {"rename in", "reopen untouched"}
    BY <1>2, StatementLeads DEF RenameOut, Statement
  <2>2. CASE pc'[p] = "rename in"
    <3>1. CanRenameOut(p) /\ RenameTargetToBackup(p, job[p].stamp)
      BY <1>2, <2>2 DEF RenameOut, Statement, Refused, Failed, Goto, TypeOK
    <3>2. live[target(p)] \in Database /\ ~live[target(p)].busy
      BY <1>0, <3>1 DEF CanRenameOut, TypeOK
    <3>3. /\ live'[target(p)] = NoDb
          /\ backups'[target(p)] =
               [backups[target(p)] EXCEPT ![job[p].stamp] = live[target(p)]]
          /\ UNCHANGED <<last, job>>
      BY <1>0, <3>1 DEF RenameTargetToBackup, TypeOK
    <3> QED
      BY <1>2, <2>2, <3>2, <3>3 DEF Withdraws, RenameOut
  <2> QED
    BY <2>1, <2>2
<1>3. CASE RenameIn(p)
  <2>1. pc'[p] \in {"reopen swapped", "rollback"}
    BY <1>3, StatementLeads DEF RenameIn, Statement
  <2>2. UNCHANGED <<job, backups>> /\ pc[p] = "rename in"
    BY <1>3 DEF RenameIn, Statement, catalog
  <2> QED
    BY <2>1, <2>2
<1>4. CASE \/ Rollback(p) \/ ReopenUntouched(p) \/ ReopenSwapped(p) \/ Cleanup(p)
           \/ Close(p) \/ Terminate(p) \/ TerminateStaging(p) \/ PickBackupName(p)
           \/ Load(p) \/ Expire(p) \/ Create(p) \/ RenameBack(p)
  <2>1. pc'[p] \in {"reopen untouched", "cleanup", "unlock", "terminate",
          "terminate staging", "name", "rename out", "close", "expire", "create",
          "load", "reopen recovered"}
    BY <1>4, StatementLeads
       DEF Rollback, ReopenUntouched, ReopenSwapped, Cleanup, Close, Terminate,
           TerminateStaging, PickBackupName, Load, Expire, Create, RenameBack,
           Statement, Goto, TypeOK
  <2> QED
    BY <2>1
<1>5. CASE Check(p)
  <2> DEFINE t == target(p)
             doomed == ExpiredBackups(Backups(t), Retention)
             idle == Classify(live[t] # NoDb, Backups(t), Staging) = StateIdle
             next == IF ~idle THEN "unlock"
                     ELSE IF doomed = {} THEN "create" ELSE "expire"
  <2>1. pc'[p] \in {next, "unlock"}
    BY <1>5, StatementLeads DEF Check, Statement
  <2>2. next \in {"unlock", "create", "expire"}
    OBVIOUS
  <2> HIDE DEF next
  <2> QED
    BY <2>1, <2>2
<1>6. CASE ReopenRecovered(p)
  <2> DEFINE next == IF job[p].orphans = {} THEN Recovered(p) ELSE "drop orphans"
  <2>1. next \in {"check", "unlock", "drop orphans"}
    BY DEF Recovered
  <2>2. pc'[p] \in {next, "unlock"}
    BY <1>6, StatementLeads DEF ReopenRecovered, Statement
  <2> HIDE DEF next
  <2> QED
    BY <2>1, <2>2
<1>7. CASE DropOrphan(p)
  <2>1. PICK r \in job[p].orphans :
          LET next == IF job[p].orphans = {r} THEN Recovered(p) ELSE "drop orphans"
          IN Executed(p, next, "unlock") \/ Refused(p, "unlock") \/ Failed(p, "unlock")
    BY <1>7 DEF DropOrphan, Statement
  <2> DEFINE next == IF job[p].orphans = {r} THEN Recovered(p) ELSE "drop orphans"
  <2>2. next \in {"check", "unlock", "drop orphans"}
    BY DEF Recovered
  <2>3. pc'[p] \in {next, "unlock"}
    BY <2>1, StatementLeads
  <2> HIDE DEF next
  <2> QED
    BY <2>2, <2>3
<1> QED
  BY <1>1, <1>2, <1>3, <1>4, <1>5, <1>6, <1>7 DEF Body

\* A step other than the second rename brings in no younger database.
LEMMA KeepsOlder ==
  ASSUME TypeOK, NEW p \in Procs, target(p) \in Targets, ActsOnTarget(p),
         Withdraws(p) => job[p].stamp \in Stamp,
         UNCHANGED live \/ ~PutsIn(p),
         PutsBack(p) => job[p].stamp \in Stamp,
         NEW u \in Targets, NEW n, OlderThan(u, n)
  PROVE  /\ live'[u] # NoDb => live'[u].id < n
         /\ \A s \in Backups(u)' : backups'[u][s].id < n
<1> DEFINE t == target(p)
<1>1. backups[u] \in [Stamp -> Database \cup {NoDb}]
  BY DEF TypeOK
<1>2. /\ live[u] # NoDb => live[u].id < n
      /\ \A s \in Stamp : backups[u][s] # NoDb => backups[u][s].id < n
  BY DEF OlderThan, Backups
<1> SUFFICES /\ live'[u] # NoDb => live'[u].id < n
             /\ \A s \in Stamp : backups'[u][s] # NoDb => backups'[u][s].id < n
  BY DEF Backups
<1>3. CASE live'[u] = live[u] /\ backups'[u] = backups[u]
  BY <1>2, <1>3
<1>4. CASE u = t /\ Adjusts(p)
  BY <1>2, <1>4, NoDbAssumption DEF Adjusts
<1>5. CASE u = t /\ Drops(p)
  <2>1. PICK x : backups'[u] = [backups[u] EXCEPT ![x] = NoDb]
    BY <1>5 DEF Drops
  <2> QED
    BY <1>1, <1>2, <1>5, <2>1 DEF Drops
<1>6. CASE u = t /\ PutsBack(p)
  <2>1. /\ backups'[u] = [backups[u] EXCEPT ![job[p].stamp] = NoDb]
        /\ live'[u] = backups[u][job[p].stamp] /\ live'[u] # NoDb
    BY <1>6, NoDbAssumption DEF PutsBack
  <2> QED
    BY <1>1, <1>2, <1>6, <2>1
<1>7. CASE u = t /\ Withdraws(p)
  <2>1. /\ live[u] # NoDb /\ live'[u] = NoDb
        /\ backups'[u] = [backups[u] EXCEPT ![job[p].stamp] = live[u]]
    BY <1>7, NoDbAssumption DEF Withdraws
  <2> QED
    BY <1>1, <1>2, <1>7, <2>1
<1>8. CASE u = t /\ PutsIn(p) /\ UNCHANGED live
  BY <1>3, <1>8 DEF PutsIn
<1> QED
  BY <1>3, <1>4, <1>5, <1>6, <1>7, <1>8 DEF ActsOnTarget, KeepsOthers

\* The name that a swap picks sorts after every backup.
LEMMA NameIsNewest ==
  ASSUME HistoryInv, NEW p \in Procs, Withdraws(p)
  PROVE  /\ job[p].stamp \in Stamp
         /\ \A s \in Backups(target(p)) :
              Before(s, job[p].stamp) /\ ~Before(job[p].stamp, s)
<1> DEFINE k == job[p].stamp
<1>0. TypeOK /\ OlderStamps /\ FreshStamp
  BY DEF HistoryInv
<1>1. k \in Stamp /\ job[p].kind = "restore" /\ job[p].since \in Int
  <2>1. job[p].since \in Nat
    BY <1>0, SinceSecond
  <2>2. pc[p] \in RestoreLabels /\ pc[p] \in RenameLabels
    BY DEF Withdraws, RenameLabels, RestoreLabels
  <2>3. k \in Stamp /\ job[p].kind = "restore"
    BY <1>0, <2>2 DEF TypeOK, LocalsOK
  <2> QED
    BY <2>1, <2>3
<1>2. SUFFICES ASSUME NEW s \in Backups(target(p))
               PROVE  Before(s, k) /\ ~Before(k, s)
  BY <1>1
<1>3. s[1] <= job[p].since /\ job[p].since < k[1]
  BY <1>0, <1>1
     DEF Withdraws, OlderStamps, FreshStamp, BeforeSwap, SwapLabels, ClosedLabels
<1>4. s \in Stamp
  BY DEF Backups
<1>5. s[1] \in Int /\ k[1] \in Int
  BY <1>1, <1>4, StampSecond, Zenon
<1>6. s[1] < k[1] /\ ~(k[1] < s[1]) /\ s[1] # k[1]
  <2> DEFINE a == s[1]
             b == job[p].since
             c == k[1]
  <2>1. a \in Int /\ b \in Int /\ c \in Int /\ a <= b /\ b < c
    BY <1>1, <1>3, <1>5
  <2> HIDE DEF a, b, c
  <2>2. a < c /\ ~(c < a) /\ a # c
    BY <2>1
  <2> QED
    BY <2>2 DEF a, b, c
<1> HIDE DEF k
<1> QED
  BY <1>6 DEF Before

\* The facts about a step that the following lemmas share.
LEMMA BodyFacts ==
  ASSUME OrderInv, NEW p \in Procs, Body(p)
  PROVE  /\ TypeOK /\ Framed(p) /\ ActsOnTarget(p) /\ Ordered(p)
         /\ target(p) \in Targets
         /\ Withdraws(p) \/ PutsBack(p) => job[p].stamp \in Stamp
         /\ \A q \in Procs : target(q)' = target(q) /\ job'[q].kind = job[q].kind
                              /\ job'[q].staging = job[q].staging
         /\ \A q \in Procs \ {p} : pc[q] # "idle" =>
              /\ target(q) \in Targets
              /\ live'[target(q)] = live[target(q)]
              /\ backups'[target(q)] = backups[target(q)]
<1>1. TypeOK /\ LockHeld
  BY DEF OrderInv, HistoryInv
<1>2. Framed(p) /\ ActsOnTarget(p) /\ Ordered(p)
  BY <1>1, BodyFrames, BodyActs, BodyOrdered
<1>3. pc[p] # "idle" /\ target(p) \in Targets
  BY <1>1, <1>2 DEF Framed, TypeOK, LocalsOK
<1>4. Withdraws(p) \/ PutsBack(p) => job[p].stamp \in Stamp
  BY <1>1 DEF Withdraws, PutsBack, TypeOK, LocalsOK, RenameLabels
<1>5. \A q \in Procs \ {p} : pc[q] # "idle" => target(q) \in Targets \ {target(p)}
  BY <1>1, <1>3 DEF LockHeld, TypeOK, LocalsOK
<1>6. \A q \in Procs : target(q)' = target(q) /\ job'[q].kind = job[q].kind
                       /\ job'[q].staging = job[q].staging
  BY <1>2 DEF Framed, target
<1> QED
  BY <1>1, <1>2, <1>3, <1>4, <1>5, <1>6 DEF ActsOnTarget, KeepsOthers

LEMMA BodyKeepsOrder ==
  ASSUME OrderInv, NEW p \in Procs, Body(p)
  PROVE  BackupsInOrder'
<1> DEFINE t == target(p)
           k == job[p].stamp
<1>1. /\ TypeOK /\ ActsOnTarget(p) /\ t \in Targets
      /\ Withdraws(p) \/ PutsBack(p) => k \in Stamp
  BY BodyFacts
<1>2. BackupsInOrder /\ Numbered /\ BuildsYoungest /\ PutsBackNewest
  BY DEF OrderInv
<1> SUFFICES ASSUME NEW u \in Targets
             PROVE  /\ \A s, r \in Backups(u)' :
                         Before(s, r) => backups'[u][s].id < backups'[u][r].id
                    /\ live'[u] # NoDb =>
                         \A s \in Backups(u)' : backups'[u][s].id < live'[u].id
  BY DEF BackupsInOrder, Before
<1>3. backups[u] \in [Stamp -> Database \cup {NoDb}]
  BY <1>1 DEF TypeOK
<1>4. /\ Backups(u) = {s \in Stamp : backups[u][s] # NoDb}
      /\ Backups(u)' = {s \in Stamp : backups'[u][s] # NoDb}
  BY DEF Backups
<1>5. /\ \A s, r \in Backups(u) :
           Before(s, r) => backups[u][s].id < backups[u][r].id
      /\ live[u] # NoDb => \A s \in Backups(u) : backups[u][s].id < live[u].id
  BY <1>2 DEF BackupsInOrder
<1>6. CASE live'[u] = live[u] /\ backups'[u] = backups[u]
  BY <1>4, <1>5, <1>6
<1>7. CASE u = t /\ Adjusts(p)
  BY <1>4, <1>5, <1>7, NoDbAssumption DEF Adjusts
<1>8. CASE u = t /\ Drops(p)
  <2>1. PICK x : backups'[u] = [backups[u] EXCEPT ![x] = NoDb]
    BY <1>8 DEF Drops
  <2>2. \A s \in Backups(u)' : s \in Backups(u) /\ backups'[u][s] = backups[u][s]
    BY <1>3, <1>4, <2>1
  <2>3. live'[u] = live[u]
    BY <1>8 DEF Drops
  <2> QED
    BY <1>5, <2>2, <2>3
<1>9. CASE u = t /\ PutsBack(p)
  <2>1. /\ backups'[u] = [backups[u] EXCEPT ![k] = NoDb]
        /\ live'[u] = backups[u][k] /\ live'[u] # NoDb /\ k \in Backups(u)
    BY <1>1, <1>4, <1>9, NoDbAssumption DEF PutsBack
  <2>2. \A s \in Backups(u)' :
          s \in Backups(u) /\ s # k /\ backups'[u][s] = backups[u][s]
    BY <1>1, <1>3, <1>4, <1>9, <2>1
  <2>3. \A s \in Backups(u) : s # k => Before(s, k)
    BY <1>2, <1>9 DEF PutsBack, PutsBackNewest, ReturnLabels
  <2> QED
    BY <1>5, <2>1, <2>2, <2>3
<1>10. CASE u = t /\ Withdraws(p)
  <2>1. /\ live[u] # NoDb /\ live'[u] = NoDb
        /\ backups'[u] = [backups[u] EXCEPT ![k] = live[u]]
    BY <1>10, NoDbAssumption DEF Withdraws
  <2>2. \A s \in Backups(u) : Before(s, k) /\ ~Before(k, s)
    BY <1>10, NameIsNewest DEF OrderInv
  <2>3. \A s \in Backups(u)' :
          \/ s = k /\ backups'[u][s] = live[u]
          \/ s # k /\ s \in Backups(u) /\ backups'[u][s] = backups[u][s]
    BY <1>1, <1>3, <1>4, <1>10, <2>1
  <2>4. ~Before(k, k)
    <3>1. k[1] \in Int /\ k[2] \in Int
      BY <1>1, <1>10, StampSecond, MaxSuffixAssumption DEF Stamp
    <3> HIDE DEF k
    <3> QED
      BY <3>1 DEF Before
  <2> QED
    BY <1>5, <2>1, <2>2, <2>3, <2>4
<1>11. CASE u = t /\ PutsIn(p) /\ ~UNCHANGED live
  <2>1. live'[u].id = job[p].staging
    BY <1>1, <1>2, <1>11, BroughtIn
  <2>2. backups'[u] = backups[u] /\ OlderThan(u, job[p].staging)
    <3>1. pc[p] = "rename in" /\ UNCHANGED backups
      BY <1>11 DEF PutsIn
    <3>2. job[p].kind = "restore"
      BY <1>1, <3>1 DEF TypeOK, LocalsOK, RestoreLabels
    <3> QED
      BY <1>2, <1>11, <3>1, <3>2 DEF BuildsYoungest, YoungLabels
  <2> QED
    BY <1>4, <1>5, <2>1, <2>2 DEF OlderThan
<1>12. CASE u = t /\ PutsIn(p) /\ UNCHANGED live
  BY <1>6, <1>12 DEF PutsIn
<1> QED
  BY <1>1, <1>6, <1>7, <1>8, <1>9, <1>10, <1>11, <1>12 DEF ActsOnTarget, KeepsOthers

LEMMA BodyKeepsYoungest ==
  ASSUME OrderInv, NEW p \in Procs, Body(p)
  PROVE  BuildsYoungest'
<1>1. /\ TypeOK /\ Framed(p) /\ ActsOnTarget(p) /\ Ordered(p)
      /\ target(p) \in Targets
      /\ Withdraws(p) \/ PutsBack(p) => job[p].stamp \in Stamp
  BY BodyFacts
<1>2. BuildsYoungest
  BY DEF OrderInv
<1> SUFFICES ASSUME NEW q \in Procs, job'[q].kind = "restore", pc'[q] \in YoungLabels
             PROVE  OlderThan(target(q), job[q].staging)'
  BY DEF BuildsYoungest, target
<1>3. /\ target(q)' = target(q) /\ job'[q].staging = job[q].staging
      /\ job[q].kind = "restore"
  BY BodyFacts
<1>4. pc[q] \in YoungLabels /\ (q = p => pc[p] # "rename in")
  BY <1>1 DEF Framed, Ordered, YoungLabels, BeforeSwap, SwapLabels, ClosedLabels
<1>5. OlderThan(target(q), job[q].staging)
  BY <1>2, <1>3, <1>4 DEF BuildsYoungest
<1>6. /\ live'[target(q)] # NoDb => live'[target(q)].id < job[q].staging
      /\ \A s \in Backups(target(q))' : backups'[target(q)][s].id < job[q].staging
  <2>1. CASE q = p
    <3>1. ~PutsIn(p)
      BY <1>4, <2>1 DEF PutsIn
    <3>2. Backups(target(q))' = {s \in Stamp : backups'[target(q)][s] # NoDb}
      BY <1>3 DEF Backups
    <3>3. PICK u \in Targets : u = target(q)
      BY <1>1, <2>1
    <3>5. PICK n : n = job[q].staging
      OBVIOUS
    <3>4. /\ live'[u] # NoDb => live'[u].id < n
          /\ \A s \in Backups(u)' : backups'[u][s].id < n
      BY <1>1, <1>5, <3>1, <3>3, <3>5, KeepsOlder
    <3> QED
      BY <3>2, <3>3, <3>4, <3>5 DEF Backups
  <2>2. CASE q # p
    <3>1. pc[q] # "idle"
      BY <1>4 DEF YoungLabels, BeforeSwap, SwapLabels, ClosedLabels
    <3>2. live'[target(q)] = live[target(q)] /\ backups'[target(q)] = backups[target(q)]
      BY <2>2, <3>1, BodyFacts
    <3> QED
      BY <1>3, <1>5, <3>2 DEF OlderThan, Backups
  <2> QED
    BY <2>1, <2>2
<1> QED
  BY <1>3, <1>6 DEF OlderThan, Backups, target

LEMMA BodyKeepsCount ==
  ASSUME OrderInv, NEW p \in Procs, Body(p)
  PROVE  Counted'
<1>1. /\ TypeOK /\ Framed(p) /\ ActsOnTarget(p)
      /\ target(p) \in Targets
      /\ Withdraws(p) \/ PutsBack(p) => job[p].stamp \in Stamp
  BY BodyFacts
<1>2. Counted /\ Numbered /\ nextId' = nextId
  BY <1>1 DEF OrderInv, Framed
<1>3. \A q \in Procs : job'[q].kind = "restore" => job'[q].staging < nextId
  <2>1. \A q \in Procs : job'[q].kind = job[q].kind /\ job'[q].staging = job[q].staging
    BY BodyFacts
  <2> QED
    BY <1>2, <2>1 DEF Counted
<1>4. ASSUME NEW u \in Targets
      PROVE  /\ live'[u] # NoDb => live'[u].id < nextId
             /\ \A s \in Backups(u)' : backups'[u][s].id < nextId
  <2>1. OlderThan(u, nextId)
    BY <1>2 DEF Counted
  <2>2. CASE UNCHANGED live \/ ~PutsIn(p)
    <3>1. PICK n : n = nextId
      OBVIOUS
    <3>2. OlderThan(u, n)
      BY <2>1, <3>1
    <3>3. /\ live'[u] # NoDb => live'[u].id < n
          /\ \A s \in Backups(u)' : backups'[u][s].id < n
      BY <1>1, <2>2, <3>2, KeepsOlder
    <3> QED
      BY <3>1, <3>3 DEF Backups
  <2>3. CASE PutsIn(p) /\ ~UNCHANGED live
    <3>1. KeepsOthers(p) /\ UNCHANGED backups
      BY <1>1, <2>3 DEF ActsOnTarget, PutsIn
    <3>2. live'[target(p)].id = job[p].staging
      BY <1>1, <1>2, <2>3, BroughtIn
    <3>3. job[p].kind = "restore"
      BY <1>1, <2>3 DEF PutsIn, TypeOK, LocalsOK, RestoreLabels
    <3>4. job[p].staging < nextId
      BY <1>2, <3>3 DEF Counted
    <3> QED
      BY <2>1, <3>1, <3>2, <3>4 DEF OlderThan, KeepsOthers, Backups
  <2> QED
    BY <2>2, <2>3
<1> QED
  BY <1>2, <1>3, <1>4 DEF Counted, OlderThan, Backups

LEMMA BodyKeepsNewest ==
  ASSUME OrderInv, NEW p \in Procs, Body(p)
  PROVE  PutsBackNewest'
<1>1. TypeOK /\ Framed(p) /\ ActsOnTarget(p) /\ target(p) \in Targets
  BY BodyFacts
<1>2. PutsBackNewest
  BY DEF OrderInv
<1> SUFFICES ASSUME NEW q \in Procs, pc'[q] \in ReturnLabels
             PROVE  \A s \in Backups(target(q))' :
                      s # job'[q].stamp => Before(s, job'[q].stamp)
  BY DEF PutsBackNewest, target, Before
<1>3. target(q)' = target(q)
  BY BodyFacts
<1>4. CASE q # p
  <2>1. job'[q] = job[q] /\ pc[q] \in ReturnLabels /\ pc[q] # "idle"
    BY <1>1, <1>4 DEF Framed, ReturnLabels
  <2>2. backups'[target(q)] = backups[target(q)]
    BY <1>4, <2>1, BodyFacts
  <2> QED
    BY <1>2, <1>3, <2>1, <2>2 DEF PutsBackNewest, Backups
<1>5. CASE q = p /\ pc'[p] = "rename back"
  <2>1. Recover(p)
    BY <1>1, <1>5, Arrivals
  <2>2. /\ UNCHANGED backups
        /\ \A s \in Backups(target(p)) : s # job'[p].stamp => Before(s, job'[p].stamp)
    BY <1>1, <1>5, <2>1, SeenNewest
  <2> QED
    BY <1>3, <1>5, <2>2 DEF Backups
<1>6. CASE q = p /\ pc'[p] = "rename in"
  <2>1. Withdraws(p) /\ UNCHANGED job
    BY <1>1, <1>6, Arrivals
  <2>2. /\ job[p].stamp \in Stamp
        /\ \A s \in Backups(target(p)) : Before(s, job[p].stamp)
    BY <2>1, NameIsNewest DEF OrderInv
  <2>3. backups[target(p)] \in [Stamp -> Database \cup {NoDb}]
    BY <1>1 DEF TypeOK
  <2>4. \A s \in Stamp : s # job[p].stamp =>
          backups'[target(p)][s] = backups[target(p)][s]
    BY <2>1, <2>3 DEF Withdraws
  <2> QED
    BY <1>3, <1>6, <2>1, <2>2, <2>4 DEF Backups
<1>7. CASE q = p /\ pc'[p] = "rollback"
  <2>1. pc[p] = "rename in" /\ UNCHANGED <<job, backups>>
    BY <1>1, <1>7, Arrivals
  <2> QED
    BY <1>2, <1>3, <1>7, <2>1 DEF PutsBackNewest, ReturnLabels, Backups
<1> QED
  BY <1>4, <1>5, <1>6, <1>7 DEF ReturnLabels

\* A restore that starts is the youngest.
LEMMA StartKeepsOrder ==
  ASSUME OrderInv, NEW p \in Procs, NEW t \in Targets,
         StartRestore(p, t) \/ StartRepair(p, t)
  PROVE  /\ BackupsInOrder' /\ Numbered' /\ Counted'
         /\ BuildsYoungest' /\ PutsBackNewest'
<1>1. TypeOK /\ BackupsInOrder /\ Numbered /\ Counted /\ BuildsYoungest /\ PutsBackNewest
  BY DEF OrderInv, HistoryInv
<1>2. UNCHANGED <<live, backups, staging>>
  BY DEF StartRestore, StartRepair, catalog
<1>3. /\ pc'[p] = "recover"
      /\ \A q \in Procs \ {p} : pc'[q] = pc[q] /\ job'[q] = job[q]
  BY <1>1 DEF StartRestore, StartRepair, Goto, TypeOK
<1>4. /\ job'[p].target = t
      /\ job'[p].kind = "restore" => job'[p].staging = nextId /\ nextId' = nextId + 1
  <2>1. CASE StartRestore(p, t)
    BY <1>1, <2>1 DEF StartRestore, TypeOK, Idle
  <2>2. CASE StartRepair(p, t)
    BY <1>1, <2>2 DEF StartRepair, TypeOK, Idle
  <2> QED
    BY <2>1, <2>2
<1>5. nextId \in Int /\ (nextId' = nextId \/ nextId' = nextId + 1)
  BY <1>1, BoundsAssumption DEF TypeOK, StartRestore, StartRepair
<1>6. BackupsInOrder' /\ Numbered'
  BY <1>1, <1>2 DEF BackupsInOrder, Numbered, Backups, Before
<1>7. Counted'
  <2>1. ASSUME NEW u \in Targets PROVE OlderThan(u, nextId)'
    <3>1. OlderThan(u, nextId)
      BY <1>1 DEF Counted
    <3>2. \A k \in Int : k < nextId => k < nextId'
      BY <1>5
    <3>3. /\ live[u] # NoDb => live[u].id \in Int
          /\ \A s \in Backups(u) : backups[u][s].id \in Int
      <4>1. \A d \in Database : d.id \in Int
        BY BoundsAssumption DEF Database
      <4> QED
        BY <1>1, <4>1 DEF TypeOK, Backups
    <3> QED
      BY <1>2, <3>1, <3>2, <3>3 DEF OlderThan, Backups
  <2>2. ASSUME NEW q \in Procs, job'[q].kind = "restore"
        PROVE  job'[q].staging < nextId'
    <3>1. CASE q = p
      BY <1>4, <1>5, <2>2, <3>1
    <3>2. CASE q # p
      <4>1. job[q].staging < nextId /\ job[q].staging \in Int
        BY <1>1, <1>3, <2>2, <3>2 DEF Counted, TypeOK, LocalsOK, Restores
      <4> QED
        BY <1>3, <1>5, <3>2, <4>1
    <3> QED
      BY <3>1, <3>2
  <2> QED
    BY <2>1, <2>2 DEF Counted
<1>8. BuildsYoungest'
  <2>1. OlderThan(t, nextId)
    BY <1>1 DEF Counted
  <2> QED
    BY <1>1, <1>2, <1>3, <1>4, <2>1 DEF BuildsYoungest, OlderThan, Backups, target
<1>9. PutsBackNewest'
  <2>1. "recover" \notin ReturnLabels
    BY DEF ReturnLabels
  <2> QED
    BY <1>1, <1>2, <1>3, <2>1 DEF PutsBackNewest, Backups, target, Before
<1> QED
  BY <1>6, <1>7, <1>8, <1>9

\* The end of a run and its environment leave every number alone.
LEMMA OthersKeepOrder ==
  ASSUME OrderInv,
         \/ \E p \in Procs : Ends(p) \/ Cancel(p)
         \/ \E t \in Targets : ClientConnect(t) \/ ClientDisconnect(t)
         \/ StagingSession
         \/ Tick \/ StepBack \/ UNCHANGED vars
  PROVE  /\ BackupsInOrder' /\ Numbered' /\ Counted'
         /\ BuildsYoungest' /\ PutsBackNewest'
<1>1. TypeOK /\ BackupsInOrder /\ Numbered /\ Counted /\ BuildsYoungest /\ PutsBackNewest
  BY DEF OrderInv, HistoryInv
<1>2. /\ UNCHANGED <<backups, nextId>>
      /\ \A r \in Restores :
           \/ staging'[r] = staging[r]
           \/ staging[r] # NoDb /\ staging'[r].id = staging[r].id
  <2>1. CASE StagingSession
    BY <1>1, <2>1, StagingSessionKeeps
  <2>2. CASE ~StagingSession
    BY <2>2 DEF Ends, Cancel, ClientConnect, ClientDisconnect, Tick, StepBack, vars, catalog
  <2> QED
    BY <2>1, <2>2
<1>3. \A q \in Procs :
        \/ pc'[q] = pc[q] /\ job'[q] = job[q]
        \/ pc'[q] = "idle" /\ job'[q].kind = "none"
  BY <1>1 DEF Ends, Goto, Cancel, ClientConnect, ClientDisconnect, StagingSession,
              StagingConnect, StagingDisconnect, Tick, StepBack, vars, TypeOK, Idle
<1>4. \A t \in Targets :
        \/ live'[t] = live[t]
        \/ live[t] # NoDb /\ live'[t].id = live[t].id
  <2>1. CASE UNCHANGED live
    BY <2>1
  <2>2. CASE \E t \in Targets : ClientConnect(t) \/ ClientDisconnect(t)
    <3>1. PICK t \in Targets : ClientConnect(t) \/ ClientDisconnect(t)
      BY <2>2
    <3>2. live[t] \in Database /\ live[t] # NoDb
      BY <1>1, <3>1 DEF ClientConnect, ClientDisconnect, TypeOK
    <3>3. PICK b \in BOOLEAN : live' = [live EXCEPT ![t] = [live[t] EXCEPT !.busy = b]]
      BY <3>1 DEF ClientConnect, ClientDisconnect
    <3> DEFINE d == [live[t] EXCEPT !.busy = b]
    <3>4. d.id = live[t].id
      BY <3>2 DEF Database
    <3> HIDE DEF d
    <3> QED
      BY <1>1, <3>2, <3>3, <3>4 DEF TypeOK, d
  <2> QED
    BY <2>1, <2>2 DEF Ends, Cancel, StagingSession, StagingConnect, StagingDisconnect,
                      Tick, StepBack, vars, catalog
<1>5. BackupsInOrder' /\ Numbered'
  BY <1>1, <1>2, <1>4 DEF BackupsInOrder, Numbered, Backups, Before
<1>6. \A u \in Targets : \A n : OlderThan(u, n) =>
        /\ live'[u] # NoDb => live'[u].id < n
        /\ \A s \in Backups(u)' : backups'[u][s].id < n
  BY <1>2, <1>4 DEF OlderThan, Backups
<1>7. Counted'
  <2>1. \A u \in Targets : OlderThan(u, nextId)'
    BY <1>1, <1>2, <1>6 DEF Counted, OlderThan, Backups
  <2>2. \A q \in Procs : job'[q].kind = "restore" => job'[q].staging < nextId'
    BY <1>1, <1>2, <1>3 DEF Counted
  <2> QED
    BY <2>1, <2>2 DEF Counted
<1>8. BuildsYoungest'
  <2> SUFFICES ASSUME NEW q \in Procs, job'[q].kind = "restore",
                      pc'[q] \in YoungLabels
               PROVE  OlderThan(target(q), job[q].staging)'
    BY DEF BuildsYoungest, target
  <2>1. pc[q] \in YoungLabels /\ job'[q] = job[q]
    BY <1>3 DEF YoungLabels, BeforeSwap, SwapLabels, ClosedLabels
  <2>2. target(q) \in Targets /\ target(q)' = target(q)
    BY <1>1, <2>1
       DEF TypeOK, LocalsOK, YoungLabels, BeforeSwap, SwapLabels, ClosedLabels, target
  <2>3. OlderThan(target(q), job[q].staging)
    BY <1>1, <2>1 DEF BuildsYoungest
  <2> QED
    BY <1>6, <2>1, <2>2, <2>3 DEF OlderThan, Backups
<1>9. PutsBackNewest'
  <2>1. "idle" \notin ReturnLabels
    BY DEF ReturnLabels
  <2> QED
    BY <1>1, <1>2, <1>3, <2>1 DEF PutsBackNewest, Backups, target, Before
<1> QED
  BY <1>5, <1>7, <1>8, <1>9

LEMMA OrderInit ==
  Init => BackupsInOrder /\ Numbered /\ Counted /\ BuildsYoungest /\ PutsBackNewest
<1> SUFFICES ASSUME Init
             PROVE  BackupsInOrder /\ Numbered /\ Counted /\ BuildsYoungest
                    /\ PutsBackNewest
  OBVIOUS
<1>1. \A t \in Targets : live[t].id = 0 /\ Backups(t) = {}
  BY DEF Init, Original, Backups
<1>2. \A p \in Procs : pc[p] = "idle" /\ job[p].kind = "none"
  BY DEF Init, Idle
<1>3. \A r \in Restores : staging[r] = NoDb
  BY DEF Init
<1>4. nextId = 1
  BY DEF Init
<1>5. \A t \in Targets : OlderThan(t, nextId)
  BY <1>1, <1>4 DEF OlderThan
<1> QED
  BY <1>1, <1>2, <1>3, <1>5
     DEF BackupsInOrder, Numbered, Counted, BuildsYoungest, PutsBackNewest, ReturnLabels

LEMMA OrderHolds ==
  ASSUME ~ClockSteps, MinRunTime # 0
  PROVE  Spec => []OrderInv
<1>1. Init => OrderInv
  BY InitType, LockHeldInit, HistoryInit, OrderInit DEF OrderInv, HistoryInv
<1>2. OrderInv /\ [Next]_vars => OrderInv'
  <2> SUFFICES ASSUME OrderInv, [Next]_vars PROVE OrderInv'
    OBVIOUS
  <2>1. HistoryInv
    BY DEF OrderInv
  <2>2. TypeOK' /\ LockHeld'
    BY <2>1, NextType, LockHeldNext DEF HistoryInv
  <2>3. CASE \E p \in Procs : Body(p)
    <3>1. PICK p \in Procs : Body(p)
      BY <2>3
    <3>2. HistoryInv'
      BY <2>1, <2>2, <3>1, BodyKeepsStamps, BodyRecoverable DEF HistoryInv
    <3>3. Numbered'
      BY <3>1, NumberedStep DEF OrderInv, HistoryInv
    <3> QED
      BY <3>1, <3>2, <3>3, BodyKeepsOrder, BodyKeepsCount, BodyKeepsYoungest,
         BodyKeepsNewest DEF OrderInv
  <2>4. CASE \E p \in Procs, t \in Targets : StartRestore(p, t) \/ StartRepair(p, t)
    <3>1. HistoryInv'
      BY <2>1, <2>2, <2>4, StartKeepsHistory DEF HistoryInv
    <3> QED
      BY <2>4, <3>1, StartKeepsOrder DEF OrderInv
  <2>5. CASE \/ \E p \in Procs : Ends(p) \/ Cancel(p)
             \/ \E t \in Targets : ClientConnect(t) \/ ClientDisconnect(t)
             \/ StagingSession
             \/ Tick \/ StepBack \/ UNCHANGED vars
    <3>1. HistoryInv'
      BY <2>1, <2>2, <2>5, OthersKeepHistory DEF HistoryInv
    <3> QED
      BY <2>5, <3>1, OthersKeepOrder DEF OrderInv
  <2> QED
    BY <2>3, <2>4, <2>5 DEF Next, Step, Body, Unlock, Crash, StagingSession
<1> QED
  BY <1>1, <1>2, PTL DEF Spec

\* The names of the backups sort in the order in which the databases served,
\* and the target is younger than all of them: what keep-the-newest drops is
\* the oldest, and what a recovery restores is the newest (uniqueBackupName,
\* ExpiredBackups, NewestBackup).  The proof needs a clock that does not step
\* back and a restore that lasts a second.
THEOREM BackupNamesInOrder ==
  ASSUME ~ClockSteps, MinRunTime # 0
  PROVE  Spec => []BackupsInOrder
<1>1. OrderInv => BackupsInOrder
  BY DEF OrderInv
<1> QED
  BY <1>1, OrderHolds, PTL

-----------------------------------------------------------------------------
(***************************************************************************)
(* An instance with one target                                             *)
(***************************************************************************)

OneTarget == \A t, u \in Targets : t = u

\* The labels of a restore that has a staging database.
BuiltLabels == {"load", "close", "terminate", "terminate staging", "name",
                "rename out", "rename in"}

\* The labels for which a run prepares: those, and that of the rollback.
PreparedLabels == BuiltLabels \cup {"rollback"}

\* What the statements sent so far have prepared for the renames.
PreparedFor(p) ==
  LET t == target(p)
      r == job[p].staging
  IN
  /\ pc[p] \in BuiltLabels => staging[r] # NoDb
  /\ pc[p] \in ClosedLabels => live[t] # NoDb
  /\ pc[p] \in {"terminate staging", "name", "rename out"} => ~live[t].busy
  /\ pc[p] = "rename out" => backups[t][job[p].stamp] = NoDb
  /\ pc[p] = "rename in" => live[t] = NoDb /\ backups[t][job[p].stamp] # NoDb
  /\ pc[p] = "rollback" =>
       \/ live[t] = NoDb /\ backups[t][job[p].stamp] # NoDb
       \/ live[t] # NoDb /\ live[t].id = r

SwapInv == SealInv /\ Numbered /\ \A p \in Procs : PreparedFor(p)

LEMMA NothingToPrepare ==
  ASSUME NEW p \in Procs, pc'[p] \notin PreparedLabels
  PROVE  PreparedFor(p)'
BY DEF PreparedFor, PreparedLabels, BuiltLabels, ClosedLabels

\* Recover and the check before a restore lead to no statement of the swap.
LEMMA LeadsElsewhere ==
  ASSUME TypeOK, NEW p \in Procs,
         Recover(p) \/ Check(p) \/ ReopenRecovered(p) \/ DropOrphan(p)
  PROVE  pc'[p] \notin PreparedLabels
<1> DEFINE t == target(p)
           state == Classify(live[t] # NoDb, Backups(t), Staging)
<1>1. CASE Recover(p)
  <2> DEFINE goes == CASE state = StateIdle            -> Recovered(p)
                       [] state = StateOrphanedStaging -> "drop orphans"
                       [] state = StateCrashedMidSwap  -> "rename back"
                       [] state = StateMissing         -> "unlock"
  <2>1. goes \in {"check", "unlock", "drop orphans", "rename back"}
    BY DEF Recovered, Classify, StateIdle, StateOrphanedStaging,
           StateCrashedMidSwap, StateMissing
  <2>2. Executed(p, goes, "unlock") \/ Refused(p, "unlock") \/ Failed(p, "unlock")
    BY <1>1 DEF Recover, Statement
  <2> HIDE DEF goes
  <2>3. pc'[p] \in {goes, "unlock"}
    BY <2>2, StatementLeads
  <2> QED
    BY <2>1, <2>3 DEF PreparedLabels, BuiltLabels
<1>2. CASE Check(p)
  <2> DEFINE doomed == ExpiredBackups(Backups(t), Retention)
             next == IF ~(state = StateIdle) THEN "unlock"
                     ELSE IF doomed = {} THEN "create" ELSE "expire"
  <2>1. pc'[p] \in {next, "unlock"}
    BY <1>2, StatementLeads DEF Check, Statement
  <2>2. next \in {"unlock", "create", "expire"}
    OBVIOUS
  <2> HIDE DEF next
  <2> QED
    BY <2>1, <2>2 DEF PreparedLabels, BuiltLabels
<1> DEFINE after == IF job[p].orphans = {} THEN Recovered(p) ELSE "drop orphans"
<1>3. CASE ReopenRecovered(p)
  <2>1. after \in {"check", "unlock", "drop orphans"}
    BY DEF Recovered
  <2>2. pc'[p] \in {after, "unlock"}
    BY <1>3, StatementLeads DEF ReopenRecovered, Statement
  <2> HIDE DEF after
  <2> QED
    BY <2>1, <2>2 DEF PreparedLabels, BuiltLabels
<1>4. CASE DropOrphan(p)
  <2>1. PICK x \in job[p].orphans :
          LET next == IF job[p].orphans = {x} THEN Recovered(p) ELSE "drop orphans"
          IN Executed(p, next, "unlock") \/ Refused(p, "unlock") \/ Failed(p, "unlock")
    BY <1>4 DEF DropOrphan, Statement
  <2> DEFINE next == IF job[p].orphans = {x} THEN Recovered(p) ELSE "drop orphans"
  <2>2. next \in {"check", "unlock", "drop orphans"}
    BY DEF Recovered
  <2>3. pc'[p] \in {next, "unlock"}
    BY <2>1, StatementLeads
  <2> HIDE DEF next
  <2> QED
    BY <2>2, <2>3 DEF PreparedLabels, BuiltLabels
<1> QED
  BY <1>1, <1>2, <1>3, <1>4

\* The databases that a statement changes.
LEMMA ChangesDatabase ==
  ASSUME NEW d \in Database, NEW b \in BOOLEAN
  PROVE  /\ [d EXCEPT !.open = b] \in Database /\ [d EXCEPT !.open = b].busy = d.busy
         /\ [d EXCEPT !.busy = b] \in Database /\ [d EXCEPT !.busy = b].busy = b
         /\ [d EXCEPT !.ready = TRUE] \in Database
BY DEF Database

LEMMA BodyPrepares ==
  ASSUME SwapInv, NEW p \in Procs, Body(p)
  PROVE  PreparedFor(p)'
<1> DEFINE t == target(p)
           r == job[p].staging
<1>1. TypeOK /\ BackupsSealed /\ ClosedForSwap /\ Numbered /\ PreparedFor(p)
  BY DEF SwapInv, SealInv
<1>2. t \in Targets /\ target(p)' = t /\ job'[p].staging = r
  BY <1>1, BodyFrames DEF Framed, TypeOK, LocalsOK, target
<1>3. pc[p] \in RestoreLabels => r \in Restores
  BY <1>1 DEF TypeOK, LocalsOK
<1>4. CASE Create(p)
  <2>1. r \in Restores
    BY <1>3, <1>4 DEF Create, RestoreLabels
  <2>2. pc'[p] \in {"load", "unlock"}
    BY <1>4, StatementLeads, <1>1 DEF Create, Statement
  <2>3. CASE pc'[p] = "load"
    <3> DEFINE d == [id |-> r, open |-> TRUE, busy |-> FALSE, ready |-> FALSE]
    <3>1. staging' = [staging EXCEPT ![r] = d]
      BY <1>1, <1>4, <2>3 DEF Create, Statement, Refused, Failed, Goto, TypeOK
    <3>2. d \in Database
      BY <2>1 DEF Database, Restores
    <3> HIDE DEF d
    <3>3. staging'[r] # NoDb
      BY <1>1, <2>1, <3>1, <3>2, NoDbAssumption DEF TypeOK
    <3> QED
      BY <1>2, <2>3, <3>3 DEF PreparedFor, ClosedLabels
  <2> QED
    BY <2>2, <2>3, NothingToPrepare DEF PreparedLabels, BuiltLabels
<1>5. CASE Load(p)
  <2>1. r \in Restores
    BY <1>3, <1>5 DEF Load, RestoreLabels
  <2>2. pc'[p] \in {"close", "cleanup"}
    BY <1>5, StatementLeads, <1>1 DEF Load, Statement
  <2>3. CASE pc'[p] = "close"
    <3>1. staging[r] # NoDb /\ staging' = [staging EXCEPT ![r].ready = TRUE]
      BY <1>1, <1>5, <2>3 DEF Load, Statement, Refused, Failed, Goto, TypeOK
    <3>2. staging[r] \in Database
      BY <1>1, <2>1, <3>1 DEF TypeOK
    <3> DEFINE d == [staging[r] EXCEPT !.ready = TRUE]
    <3>3. d \in Database
      BY <3>2, ChangesDatabase
    <3>4. staging' = [staging EXCEPT ![r] = d]
      BY <3>1
    <3> HIDE DEF d
    <3>5. staging'[r] # NoDb
      BY <1>1, <2>1, <3>3, <3>4, NoDbAssumption DEF TypeOK
    <3> QED
      BY <1>2, <2>3, <3>5 DEF PreparedFor, ClosedLabels
  <2> QED
    BY <2>2, <2>3, NothingToPrepare DEF PreparedLabels, BuiltLabels
<1>6. CASE Close(p)
  <2>1. pc[p] = "close" /\ pc'[p] \in {"terminate", "cleanup"}
    BY <1>6, StatementLeads, <1>1 DEF Close, Statement
  <2>2. CASE pc'[p] = "terminate"
    <3>1. /\ live[t] # NoDb /\ UNCHANGED staging
          /\ live' = [live EXCEPT ![t] = [live[t] EXCEPT !.open = FALSE]]
      BY <1>1, <1>6, <2>2
         DEF Close, SetAllowConnections, Statement, Refused, Failed, Goto, TypeOK
    <3>2. live[t] \in Database
      BY <1>1, <1>2, <3>1 DEF TypeOK
    <3> DEFINE d == [live[t] EXCEPT !.open = FALSE]
    <3>3. d \in Database
      BY <3>2, ChangesDatabase
    <3> HIDE DEF d
    <3>4. live'[t] # NoDb
      BY <1>1, <1>2, <3>1, <3>3, NoDbAssumption DEF TypeOK, d
    <3>5. staging'[r] # NoDb
      BY <1>1, <2>1, <3>1 DEF PreparedFor, BuiltLabels
    <3> QED
      BY <1>2, <2>2, <3>4, <3>5 DEF PreparedFor
  <2> QED
    BY <2>1, <2>2, NothingToPrepare DEF PreparedLabels, BuiltLabels
<1>7. CASE Terminate(p)
  <2>1. pc[p] = "terminate" /\ pc'[p] \in {"terminate staging", "cleanup"}
    BY <1>7, StatementLeads, <1>1 DEF Terminate, Statement
  <2>2. CASE pc'[p] = "terminate staging"
    <3>1. live[t] # NoDb /\ staging[r] # NoDb
      BY <1>1, <2>1 DEF PreparedFor, BuiltLabels, ClosedLabels
    <3>2. /\ UNCHANGED staging
          /\ live' = [live EXCEPT ![t] = [live[t] EXCEPT !.busy = FALSE]]
      BY <1>1, <1>7, <2>2, <3>1 DEF Terminate, Statement, Refused, Failed, Goto, TypeOK
    <3>3. live[t] \in Database
      BY <1>1, <1>2, <3>1 DEF TypeOK
    <3> DEFINE d == [live[t] EXCEPT !.busy = FALSE]
    <3>4. d \in Database /\ ~d.busy
      BY <3>3, ChangesDatabase
    <3> HIDE DEF d
    <3>5. live'[t] # NoDb /\ ~live'[t].busy
      BY <1>1, <1>2, <3>2, <3>4, NoDbAssumption DEF TypeOK, d
    <3> QED
      BY <1>2, <2>2, <3>1, <3>2, <3>5 DEF PreparedFor
  <2> QED
    BY <2>1, <2>2, NothingToPrepare DEF PreparedLabels, BuiltLabels
<1>8. CASE TerminateStaging(p)
  <2>1. pc[p] = "terminate staging" /\ pc'[p] \in {"name", "cleanup"}
    BY <1>8, StatementLeads, <1>1 DEF TerminateStaging, Statement
  <2>2. CASE pc'[p] = "name"
    <3>1. live[t] # NoDb /\ ~live[t].busy /\ staging[r] # NoDb /\ r \in Restores
      BY <1>1, <1>3, <2>1 DEF PreparedFor, BuiltLabels, ClosedLabels, RestoreLabels
    <3>2. /\ UNCHANGED live
          /\ staging' = [staging EXCEPT ![r] = [staging[r] EXCEPT !.busy = FALSE]]
      BY <1>1, <1>8, <2>2, <3>1
         DEF TerminateStaging, Statement, Refused, Failed, Goto, TypeOK
    <3>3. staging[r] \in Database
      BY <1>1, <3>1 DEF TypeOK
    <3> DEFINE d == [staging[r] EXCEPT !.busy = FALSE]
    <3>4. d \in Database
      BY <3>3, ChangesDatabase
    <3> HIDE DEF d
    <3>5. staging'[r] # NoDb
      BY <1>1, <3>1, <3>2, <3>4, NoDbAssumption DEF TypeOK, d
    <3> QED
      BY <1>2, <2>2, <3>1, <3>2, <3>5 DEF PreparedFor
  <2> QED
    BY <2>1, <2>2, NothingToPrepare DEF PreparedLabels, BuiltLabels
<1>9. CASE PickBackupName(p)
  <2>1. pc[p] = "name" /\ pc'[p] \in {"rename out", "cleanup"}
    BY <1>9, StatementLeads, <1>1 DEF PickBackupName, Statement
  <2>2. CASE pc'[p] = "rename out"
    <3>1. /\ live[t] # NoDb /\ ~live[t].busy
          /\ staging[r] # NoDb
      BY <1>1, <2>1 DEF PreparedFor, BuiltLabels, ClosedLabels
    <3>2. UNCHANGED <<live, staging, backups>>
      BY <1>9 DEF PickBackupName, Statement, catalog
    <3>3. /\ job'[p].stamp = UniqueBackupName(Backups(t), now)
          /\ job'[p].stamp # NoStamp
      BY <1>1, <2>2, BodyOrdered DEF Ordered
    <3>4. job'[p].stamp \in Stamp \ Backups(t)
      <4>1. now \in Second
        BY <1>1 DEF TypeOK
      <4> QED
        BY <3>3, <4>1, UniqueBackupNameFree
    <3>5. backups[t][job'[p].stamp] = NoDb
      BY <3>4 DEF Backups
    <3> QED
      BY <1>2, <2>2, <3>1, <3>2, <3>5 DEF PreparedFor
  <2> QED
    BY <2>1, <2>2, NothingToPrepare DEF PreparedLabels, BuiltLabels
<1>10. CASE RenameOut(p)
  <2>1. pc[p] = "rename out" /\ pc'[p] \in {"rename in", "reopen untouched"}
    BY <1>10, StatementLeads, <1>1 DEF RenameOut, Statement
  <2>2. CASE pc'[p] = "rename in"
    <3>1. staging[r] # NoDb /\ live[t] # NoDb
      BY <1>1, <2>1 DEF PreparedFor, BuiltLabels, ClosedLabels
    <3>2. /\ live'[t] = NoDb /\ UNCHANGED job
          /\ backups'[t] = [backups[t] EXCEPT ![job[p].stamp] = live[t]]
      BY <1>1, <2>2, Arrivals DEF Withdraws
    <3>3. UNCHANGED staging
      BY <1>10 DEF RenameOut, RenameTargetToBackup, Statement, catalog
    <3>4. job[p].stamp \in Stamp
      BY <1>1, <2>1 DEF TypeOK, LocalsOK, RenameLabels
    <3>5. backups'[t][job[p].stamp] # NoDb
      BY <1>1, <1>2, <3>1, <3>2, <3>4 DEF TypeOK
    <3> QED
      BY <1>2, <2>2, <3>1, <3>2, <3>3, <3>5 DEF PreparedFor, ClosedLabels
  <2> QED
    BY <2>1, <2>2, NothingToPrepare DEF PreparedLabels, BuiltLabels
<1>11. CASE RenameIn(p)
  <2>1. pc[p] = "rename in" /\ pc'[p] \in {"reopen swapped", "rollback"}
    BY <1>11, StatementLeads, <1>1 DEF RenameIn, Statement
  <2>2. live[t] = NoDb /\ backups[t][job[p].stamp] # NoDb /\ staging[r] # NoDb
    BY <1>1, <2>1 DEF PreparedFor, BuiltLabels
  <2>3. /\ UNCHANGED <<job, backups>>
        /\ UNCHANGED live \/ live' = [live EXCEPT ![t] = staging[r]]
    BY <1>11 DEF RenameIn, Statement, catalog
  <2>4. staging[r].id = r
    BY <1>1, <1>3, <2>1, <2>2 DEF Numbered, RestoreLabels
  <2>5. CASE pc'[p] = "rollback" /\ UNCHANGED live
    BY <1>2, <2>2, <2>3, <2>5 DEF PreparedFor, BuiltLabels, ClosedLabels
  <2>6. CASE pc'[p] = "rollback" /\ live' = [live EXCEPT ![t] = staging[r]]
    <3>1. live'[t] = staging[r]
      BY <1>1, <1>2, <2>6 DEF TypeOK
    <3> QED
      BY <1>2, <2>2, <2>4, <2>6, <3>1 DEF PreparedFor, BuiltLabels, ClosedLabels
  <2> QED
    BY <2>1, <2>3, <2>5, <2>6, NothingToPrepare DEF PreparedLabels, BuiltLabels
<1>12. CASE \/ Rollback(p) \/ ReopenUntouched(p) \/ ReopenSwapped(p)
            \/ Cleanup(p) \/ RenameBack(p) \/ Expire(p)
  <2>1. pc'[p] \in {"reopen untouched", "cleanup", "unlock", "reopen recovered", "expire",
          "create"}
    BY <1>1, <1>12, StatementLeads
       DEF Rollback, ReopenUntouched, ReopenSwapped, Cleanup, RenameBack, Expire,
           Statement, Goto, TypeOK
  <2> QED
    BY <2>1, NothingToPrepare DEF PreparedLabels, BuiltLabels
<1>13. CASE Recover(p) \/ Check(p) \/ ReopenRecovered(p) \/ DropOrphan(p)
  <2>1. pc'[p] \notin PreparedLabels
    BY <1>1, <1>13, LeadsElsewhere
  <2> QED
    BY <2>1, NothingToPrepare
<1> QED
  BY <1>4, <1>5, <1>6, <1>7, <1>8, <1>9, <1>10, <1>11, <1>12, <1>13 DEF Body

\* No step but a statement undoes what a run has prepared.
LEMMA OthersLeavePrepared ==
  ASSUME SwapInv, [Next]_vars, ~ \E p \in Procs : Body(p), NEW q \in Procs
  PROVE  PreparedFor(q)'
<1>1. TypeOK /\ ClosedForSwap /\ PreparedFor(q)
  BY DEF SwapInv, SealInv
<1>2. CASE pc'[q] \notin PreparedLabels
  BY <1>2, NothingToPrepare
<1>3. ASSUME UNCHANGED <<live, backups, staging>>, pc'[q] = pc[q], job'[q] = job[q]
      PROVE  PreparedFor(q)'
  BY <1>1, <1>3 DEF PreparedFor, target
<1>4. CASE \E p \in Procs, t \in Targets : StartRestore(p, t) \/ StartRepair(p, t)
  <2>1. PICK p \in Procs, t \in Targets : StartRestore(p, t) \/ StartRepair(p, t)
    BY <1>4
  <2>2. /\ pc'[p] = "recover" /\ UNCHANGED <<live, backups, staging>>
        /\ q # p => pc'[q] = pc[q] /\ job'[q] = job[q]
    BY <1>1, <2>1 DEF StartRestore, StartRepair, Goto, catalog, TypeOK
  <2> QED
    BY <1>2, <1>3, <2>2 DEF PreparedLabels, BuiltLabels
<1>5. CASE \E p \in Procs : Unlock(p) \/ Crash(p)
  <2>1. PICK p \in Procs : Ends(p)
    BY <1>5 DEF Unlock, Crash
  <2>2. /\ pc'[p] = "idle" /\ UNCHANGED <<live, backups, staging>>
        /\ q # p => pc'[q] = pc[q] /\ job'[q] = job[q]
    BY <1>1, <2>1 DEF Ends, Goto, catalog, TypeOK
  <2> QED
    BY <1>2, <1>3, <2>2 DEF PreparedLabels, BuiltLabels
<1>6. CASE (\E p \in Procs : Cancel(p)) \/ Tick \/ StepBack \/ UNCHANGED vars
  BY <1>3, <1>6 DEF Cancel, Tick, StepBack, vars, catalog
<1>7. CASE /\ \E t \in Targets : ClientConnect(t) \/ ClientDisconnect(t)
           /\ pc'[q] \in PreparedLabels
  <2>1. PICK t \in Targets : ClientConnect(t) \/ ClientDisconnect(t)
    BY <1>7
  <2>2. UNCHANGED <<backups, staging, pc, job>>
    BY <2>1 DEF ClientConnect, ClientDisconnect
  <2>3. live[t] \in Database /\ live[t] # NoDb
    BY <1>1, <2>1 DEF ClientConnect, ClientDisconnect, TypeOK
  <2>4. CASE target(q) # t
    <3>0. target(q) \in Targets
      BY <1>1, <1>7, <2>2 DEF TypeOK, LocalsOK, PreparedLabels, BuiltLabels
    <3>1. live'[target(q)] = live[target(q)]
      BY <1>1, <2>1, <2>4, <3>0 DEF ClientConnect, ClientDisconnect, TypeOK
    <3> QED
      BY <1>1, <2>2, <3>1 DEF PreparedFor, target
  <2>5. CASE target(q) = t
    <3>1. PICK b \in BOOLEAN : live' = [live EXCEPT ![t] = [live[t] EXCEPT !.busy = b]]
      BY <2>1 DEF ClientConnect, ClientDisconnect
    <3> DEFINE d == [live[t] EXCEPT !.busy = b]
    <3>2. d \in Database /\ d.busy = b /\ d.id = live[t].id
      BY <2>3 DEF Database
    <3>3. live' = [live EXCEPT ![t] = d]
      BY <3>1
    <3> HIDE DEF d
    <3>4. live'[t] # NoDb /\ live'[t].id = live[t].id /\ live'[t].busy = b
      BY <1>1, <3>2, <3>3, NoDbAssumption DEF TypeOK
    <3>5. live[t].open \/ ~live'[t].busy
      <4>1. CASE ClientConnect(t)
        BY <4>1 DEF ClientConnect
      <4>2. CASE ClientDisconnect(t)
        <5>1. live'[t] = [live[t] EXCEPT !.busy = FALSE]
          BY <1>1, <4>2 DEF ClientDisconnect, TypeOK
        <5> QED
          BY <2>3, <5>1 DEF Database
      <4> QED
        BY <2>1, <4>1, <4>2
    <3>6. pc[q] \in ClosedLabels => ~live[t].open
      BY <1>1, <2>3, <2>5 DEF ClosedForSwap
    <3>7. pc[q] # "rename in"
      BY <1>1, <2>3, <2>5 DEF PreparedFor
    <3> QED
      BY <1>1, <2>2, <2>3, <2>5, <3>4, <3>5, <3>6, <3>7 DEF PreparedFor, ClosedLabels, target
  <2> QED
    BY <2>1, <2>4, <2>5
<1>8. CASE StagingSession /\ pc'[q] \in PreparedLabels
  <2>1. /\ UNCHANGED <<live, backups, pc, job>>
        /\ \A r \in Restores : staging[r] # NoDb => staging'[r] # NoDb
    BY <1>1, <1>8, StagingSessionKeeps
  <2>2. job[q].staging \in Restores
    BY <1>1, <1>8, <2>1 DEF TypeOK, LocalsOK, PreparedLabels, BuiltLabels, RestoreLabels
  <2> QED
    BY <1>1, <2>1, <2>2 DEF PreparedFor, target
<1> QED
  BY <1>2, <1>4, <1>5, <1>6, <1>7, <1>8 DEF Next, Step, Body, StagingSession

\* Staging databases keep their numbers when a session comes or goes.
LEMMA OthersKeepNumbers ==
  ASSUME TypeOK, Numbered, [Next]_vars, ~ \E p \in Procs : Body(p)
  PROVE  Numbered'
<1>1. CASE StagingSession
  BY <1>1, StagingSessionKeeps DEF Numbered
<1>2. CASE ~StagingSession
  <2>1. UNCHANGED staging
    BY <1>2 DEF Next, Step, Body, StagingSession, StartRestore, StartRepair, Unlock, Crash,
       Ends, Cancel, ClientConnect, ClientDisconnect, Tick, StepBack, vars, catalog
  <2> QED
    BY <2>1 DEF Numbered
<1> QED
  BY <1>1, <1>2

LEMMA SwapInvariant ==
  ASSUME OneTarget
  PROVE  Spec => []SwapInv
<1>1. Init => SwapInv
  <2> SUFFICES ASSUME Init PROVE SwapInv
    OBVIOUS
  <2>1. SealInv
    BY InitType, LockHeldInit, SealInit DEF SealInv
  <2>2. \A p \in Procs : pc[p] = "idle"
    BY DEF Init
  <2> QED
    BY <2>1, <2>2 DEF Init, Numbered, SwapInv, PreparedFor, BuiltLabels, ClosedLabels
<1>2. SwapInv /\ [Next]_vars => SwapInv'
  <2> SUFFICES ASSUME SwapInv, [Next]_vars PROVE SwapInv'
    OBVIOUS
  <2>1. SealInv'
    BY NextType, LockHeldNext, BodySeals, OthersSeal DEF SwapInv, SealInv
  <2>2. ASSUME NEW q \in Procs PROVE PreparedFor(q)'
    <3>1. CASE Body(q)
      BY <3>1, BodyPrepares
    <3>2. CASE \E p \in Procs \ {q} : Body(p)
      <4>1. PICK p \in Procs \ {q} : Body(p)
        BY <3>2
      <4>2. Framed(p) /\ TypeOK /\ LockHeld
        BY <4>1, BodyFrames DEF SwapInv, SealInv
      <4>3. pc[q] = "idle"
        BY <4>2 DEF Framed, LockHeld, TypeOK, LocalsOK, OneTarget
      <4>4. pc'[q] = "idle"
        BY <4>2, <4>3 DEF Framed
      <4> QED
        BY <4>4, NothingToPrepare DEF PreparedLabels, BuiltLabels
    <3>3. CASE ~ \E p \in Procs : Body(p)
      BY <3>3, OthersLeavePrepared
    <3> QED
      BY <3>1, <3>2, <3>3
  <2>3. Numbered'
    BY NumberedStep, OthersKeepNumbers DEF SwapInv, SealInv
  <2> QED
    BY <2>1, <2>2, <2>3 DEF SwapInv
<1> QED
  BY <1>1, <1>2, PTL DEF Spec

\* Where an instance has one target, nobody drops the staging database of a
\* run before its swap: other runs wait for the lock of that target, and the
\* orphans of Recover are no run's (Recover, Admin.Lock).
THEOREM StagingStaysMine ==
  ASSUME OneTarget
  PROVE  Spec => []StagingIsMine
<1>1. SwapInv => StagingIsMine
  BY DEF SwapInv, PreparedFor, StagingIsMine, BuiltLabels
<1> QED
  BY <1>1, SwapInvariant, PTL

\* And once the swap has closed the target and disconnected everybody, the
\* server cannot refuse its first rename; it can refuse the second only because
\* a session is attached to the staging database, which stays open; and then it
\* cannot refuse the rollback, whichever sessions come back and whatever the
\* clock does (Swap, uniqueBackupName).
THEOREM NoSwapIsStuck ==
  ASSUME OneTarget
  PROVE  Spec => []NoSwapStuck
<1>1. SwapInv => NoSwapStuck
  <2> SUFFICES ASSUME SwapInv, NEW p \in Procs
               PROVE  /\ pc[p] = "rename out" => CanRenameOut(p)
                      /\ pc[p] = "rename in" =>
                           live[target(p)] = NoDb /\ staging[job[p].staging] # NoDb
                      /\ pc[p] = "rollback" =>
                           \/ CanRenameBackup(p, job[p].stamp)
                           \/ /\ live[target(p)] # NoDb
                              /\ live[target(p)].id = job[p].staging
    BY DEF NoSwapStuck
  <2>1. PreparedFor(p) /\ TypeOK /\ BackupsSealed
    BY DEF SwapInv, SealInv
  <2>2. pc[p] = "rollback" => target(p) \in Targets /\ job[p].stamp \in Stamp
    BY <2>1 DEF TypeOK, LocalsOK, RenameLabels
  <2> QED
    BY <2>1, <2>2 DEF PreparedFor, BuiltLabels, ClosedLabels, CanRenameOut,
       CanRenameBackup, BackupsSealed, Backups
<1> QED
  BY <1>1, SwapInvariant, PTL

-----------------------------------------------------------------------------
(***************************************************************************)
(* What holds even of runs that overlap, since the pool has closed the     *)
(* session that holds the advisory lock: a half loaded database never gets *)
(* the name of a target or of a backup.                                    *)
(***************************************************************************)

Good(d) == d # NoDb => d.ready

\* The labels of a restore from the end of its load to its second rename.
LoadedLabels == {"close", "terminate", "terminate staging", "name", "rename out",
  "rename in"}

NamesGood ==
  \A t \in Targets : Good(live[t]) /\ \A s \in Stamp : Good(backups[t][s])

\* After its load a restore finds its staging database loaded, or gone.
LoadedGood ==
  \A p \in Procs : pc[p] \in LoadedLabels => Good(staging[job[p].staging])

\* No two restores ever have the same staging name.
OwnNames ==
  \A p \in Procs : job[p].kind = "restore" =>
    /\ job[p].staging < nextId
    /\ \A q \in Procs \ {p} : job[q].kind = "restore" => job[q].staging # job[p].staging

FilledInv == TypeOK /\ NamesGood /\ LoadedGood /\ OwnNames

-----------------------------------------------------------------------------
\* Opening, closing or disconnecting the target leaves its load as it was.
LEMMA AdjustedGood ==
  ASSUME TypeOK, NamesGood, NEW t \in Targets, live[t] # NoDb, NEW b \in BOOLEAN,
         \/ live' = [live EXCEPT ![t] = [live[t] EXCEPT !.open = b]]
         \/ live' = [live EXCEPT ![t] = [live[t] EXCEPT !.busy = b]],
         UNCHANGED backups
  PROVE  NamesGood'
<1>1. live[t] \in Database /\ live[t].ready
  BY DEF TypeOK, NamesGood, Good
<1>2. /\ [live[t] EXCEPT !.open = b].ready = live[t].ready
      /\ [live[t] EXCEPT !.busy = b].ready = live[t].ready
  BY <1>1 DEF Database
<1>3. PICK d : live' = [live EXCEPT ![t] = d] /\ d.ready
  BY <1>1, <1>2
<1> QED
  BY <1>3 DEF TypeOK, NamesGood, Good

LEMMA PutBackGood ==
  ASSUME TypeOK, NamesGood, NEW p \in Procs, target(p) \in Targets,
         NEW s \in Stamp, RenameBackupToTarget(p, s)
  PROVE  NamesGood'
<1>1. Good(backups[target(p)][s])
  BY DEF NamesGood
<1>2. /\ live' = [live EXCEPT ![target(p)] = backups[target(p)][s]]
      /\ backups' = [backups EXCEPT ![target(p)][s] = NoDb]
  BY DEF RenameBackupToTarget
<1>3. \A t \in Targets : live'[t] = live[t] \/ Good(live'[t])
  BY <1>1, <1>2 DEF TypeOK
<1>4. \A t \in Targets : \A r \in Stamp : backups'[t][r] \in {backups[t][r], NoDb}
  BY <1>2 DEF TypeOK
<1> QED
  BY <1>3, <1>4 DEF NamesGood, Good

\* A name of a target or backup gets only what was loaded.
LEMMA BodyNames ==
  ASSUME FilledInv, NEW p \in Procs, Body(p)
  PROVE  NamesGood'
<1> USE DEF FilledInv
<1>0. target(p) \in Targets
  BY BodyFrames DEF Framed, TypeOK, LocalsOK
<1>1. CASE UNCHANGED <<live, backups>>
  BY <1>1 DEF NamesGood
<1>2. CASE Close(p) \/ ReopenRecovered(p) \/ ReopenUntouched(p) \/ ReopenSwapped(p)
  <2>1. \/ UNCHANGED catalog
        \/ /\ live[target(p)] # NoDb
           /\ \E allow \in BOOLEAN : SetAllowConnections(p, allow)
    BY <1>2 DEF Close, ReopenRecovered, ReopenUntouched, ReopenSwapped, Statement
  <2>2. ASSUME live[target(p)] # NoDb, NEW allow \in BOOLEAN, SetAllowConnections(p, allow)
        PROVE  NamesGood'
    BY <1>0, <2>2, AdjustedGood DEF SetAllowConnections
  <2> QED
    BY <1>1, <2>1, <2>2 DEF catalog
<1>3. CASE Terminate(p)
  <2>1. CASE live[target(p)] = NoDb \/ UNCHANGED catalog
    <3>1. UNCHANGED <<live, backups>>
      BY <1>3, <2>1 DEF Terminate, Statement, catalog, TypeOK
    <3> QED
      BY <1>1, <3>1
  <2>2. CASE live[target(p)] # NoDb /\ ~UNCHANGED catalog
    <3>1. /\ live' = [live EXCEPT ![target(p)] = [live[target(p)] EXCEPT !.busy = FALSE]]
          /\ UNCHANGED backups
      BY <1>3, <2>2 DEF Terminate, Statement
    <3> QED
      BY <1>0, <2>2, <3>1, AdjustedGood
  <2> QED
    BY <2>1, <2>2
<1>4. CASE RenameBack(p) \/ Rollback(p)
  <2>1. job[p].stamp \in Stamp
    BY <1>4 DEF RenameBack, Rollback, TypeOK, LocalsOK, RenameLabels
  <2>2. UNCHANGED catalog \/ RenameBackupToTarget(p, job[p].stamp)
    BY <1>4 DEF RenameBack, Rollback, Statement
  <2> QED
    BY <1>0, <1>1, <2>1, <2>2, PutBackGood DEF catalog
<1>5. CASE Expire(p)
  <2> DEFINE oldest == OldestBackup(job[p].doomed)
  <2>1. \/ UNCHANGED catalog
        \/ backups' = [backups EXCEPT ![target(p)][oldest] = NoDb] /\ UNCHANGED live
    BY <1>5 DEF Expire, Statement
  <2> HIDE DEF oldest
  <2>2. ASSUME backups' = [backups EXCEPT ![target(p)][oldest] = NoDb], UNCHANGED live
        PROVE  NamesGood'
    <3>1. \A t \in Targets : \A s \in Stamp : backups'[t][s] \in {backups[t][s], NoDb}
      BY <2>2 DEF TypeOK
    <3> QED
      BY <2>2, <3>1 DEF NamesGood, Good
  <2> QED
    BY <1>1, <2>1, <2>2 DEF catalog
<1>6. CASE RenameOut(p)
  <2>1. UNCHANGED catalog \/ RenameTargetToBackup(p, job[p].stamp)
    BY <1>6 DEF RenameOut, Statement
  <2>2. ASSUME RenameTargetToBackup(p, job[p].stamp) PROVE NamesGood'
    <3>1. /\ backups' = [backups EXCEPT ![target(p)][job[p].stamp] = live[target(p)]]
          /\ live' = [live EXCEPT ![target(p)] = NoDb]
      BY <2>2 DEF RenameTargetToBackup
    <3>2. \A t \in Targets : live'[t] \in {live[t], NoDb}
      BY <3>1 DEF TypeOK
    <3>3. \A t \in Targets : \A s \in Stamp :
            backups'[t][s] = backups[t][s] \/ backups'[t][s] = live[target(p)]
      BY <3>1 DEF TypeOK
    <3> QED
      BY <1>0, <3>2, <3>3 DEF NamesGood, Good
  <2> QED
    BY <1>1, <2>1, <2>2 DEF catalog
<1>7. CASE RenameIn(p)
  <2>1. pc[p] = "rename in"
    BY <1>7 DEF RenameIn
  <2>2. \/ UNCHANGED <<live, backups>>
        \/ /\ live' = [live EXCEPT ![target(p)] = staging[job[p].staging]]
           /\ UNCHANGED backups
    BY <1>7 DEF RenameIn, Statement, catalog
  <2>3. Good(staging[job[p].staging])
    BY <2>1 DEF LoadedGood, LoadedLabels
  <2>4. \A t \in Targets : live'[t] = live[t] \/ Good(live'[t])
    BY <2>2, <2>3 DEF TypeOK
  <2> QED
    BY <2>2, <2>4 DEF NamesGood
<1>8. CASE \/ Recover(p) \/ DropOrphan(p) \/ Check(p) \/ Create(p) \/ Load(p)
           \/ TerminateStaging(p) \/ PickBackupName(p) \/ Cleanup(p)
  <2>1. UNCHANGED <<live, backups>>
    BY <1>8 DEF Recover, DropOrphan, Check, Create, Load, TerminateStaging,
                PickBackupName, Cleanup, Statement, catalog
  <2> QED
    BY <1>1, <2>1
<1> QED
  BY <1>2, <1>3, <1>4, <1>5, <1>6, <1>7, <1>8 DEF Body

-----------------------------------------------------------------------------
\* What a step of a run does to the staging databases.
Empties == \E r : staging' = [staging EXCEPT ![r] = NoDb]

Fills(p) ==
  /\ job[p].kind = "restore"
  /\ \E d : /\ staging' = [staging EXCEPT ![job[p].staging] = d]
            /\ pc'[p] \in LoadedLabels => Good(d)

StagingMoves(p) ==
  \/ UNCHANGED staging /\ (pc'[p] \in LoadedLabels => pc[p] \in LoadedLabels)
  \/ Empties /\ (pc'[p] \in LoadedLabels => pc[p] \in LoadedLabels)
  \/ Fills(p)

LEMMA BodyStaging ==
  ASSUME FilledInv, NEW p \in Procs, Body(p)
  PROVE  StagingMoves(p)
<1> USE DEF FilledInv
<1> DEFINE r == job[p].staging
<1>1. CASE DropOrphan(p)
  <2>1. pc'[p] \notin LoadedLabels
    BY <1>1, BodyOrdered DEF DropOrphan, Ordered, LoadedLabels, SwapLabels, ClosedLabels
  <2>2. UNCHANGED staging \/ Empties
    BY <1>1 DEF DropOrphan, Statement, catalog, Empties
  <2> QED
    BY <2>1, <2>2 DEF StagingMoves
<1>2. CASE Create(p)
  <2>1. pc'[p] \in {"load", "unlock"} /\ job[p].kind = "restore"
    BY <1>2, StatementLeads DEF Create, Statement, TypeOK, LocalsOK, RestoreLabels
  <2>2. UNCHANGED staging \/ \E d : staging' = [staging EXCEPT ![r] = d]
    BY <1>2 DEF Create, Statement, catalog
  <2> QED
    BY <2>1, <2>2 DEF StagingMoves, Fills, LoadedLabels
<1>3. CASE Load(p)
  <2>1. job[p].kind = "restore" /\ r \in Restores
    BY <1>3 DEF Load, TypeOK, LocalsOK, RestoreLabels
  <2>2. \/ UNCHANGED staging /\ pc'[p] = "cleanup"
        \/ staging[r] # NoDb /\ staging' = [staging EXCEPT ![r].ready = TRUE]
    BY <1>3 DEF Load, Statement, Refused, Failed, Goto, catalog, TypeOK
  <2>3. ASSUME staging[r] # NoDb, staging' = [staging EXCEPT ![r].ready = TRUE]
        PROVE  Fills(p)
    <3> DEFINE d == [staging[r] EXCEPT !.ready = TRUE]
    <3>1. staging[r] \in Database
      BY <2>1, <2>3 DEF TypeOK
    <3>2. d.ready
      BY <3>1 DEF Database
    <3>3. staging' = [staging EXCEPT ![r] = d]
      BY <2>3
    <3> HIDE DEF d
    <3> QED
      BY <2>1, <3>2, <3>3 DEF Fills, Good
  <2> QED
    BY <2>2, <2>3 DEF StagingMoves, LoadedLabels
<1>4. CASE TerminateStaging(p)
  <2>1. /\ job[p].kind = "restore" /\ r \in Restores /\ pc[p] = "terminate staging"
        /\ Good(staging[r])
    BY <1>4 DEF TerminateStaging, TypeOK, LocalsOK, RestoreLabels, LoadedGood, LoadedLabels
  <2>2. \/ UNCHANGED staging
        \/ staging' = [staging EXCEPT ![r] = IF @ = NoDb THEN NoDb
                                              ELSE [@ EXCEPT !.busy = FALSE]]
    BY <1>4 DEF TerminateStaging, Statement, catalog
  <2>3. CASE staging[r] = NoDb
    <3>1. UNCHANGED staging
      BY <2>2, <2>3 DEF TypeOK
    <3> QED
      BY <2>1, <3>1 DEF StagingMoves, LoadedLabels
  <2>4. CASE staging[r] # NoDb /\ ~UNCHANGED staging
    <3> DEFINE d == [staging[r] EXCEPT !.busy = FALSE]
    <3>1. staging[r] \in Database /\ staging[r].ready
      BY <2>1, <2>4 DEF TypeOK, Good
    <3>2. d.ready
      BY <3>1 DEF Database
    <3>3. staging' = [staging EXCEPT ![r] = d]
      BY <2>2, <2>4
    <3> HIDE DEF d
    <3> QED
      BY <2>1, <3>2, <3>3 DEF StagingMoves, Fills, Good
  <2> QED
    BY <2>1, <2>3, <2>4 DEF StagingMoves, LoadedLabels
<1>5. CASE RenameIn(p) \/ Cleanup(p)
  <2>1. pc'[p] \notin LoadedLabels
    <3>1. CASE RenameIn(p)
      BY <3>1, BodyOrdered
         DEF RenameIn, Ordered, LoadedLabels, SwapLabels, ClosedLabels, BeforeSwap
    <3>2. CASE Cleanup(p)
      BY <3>2 DEF Cleanup, Goto, TypeOK, LoadedLabels
    <3> QED
      BY <1>5, <3>1, <3>2
  <2>2. UNCHANGED staging \/ Empties
    BY <1>5 DEF RenameIn, Cleanup, Statement, catalog, Empties
  <2> QED
    BY <2>1, <2>2 DEF StagingMoves
<1>6. CASE Recover(p) \/ Check(p) \/ RenameBack(p) \/ Rollback(p)
           \/ ReopenRecovered(p) \/ ReopenUntouched(p) \/ ReopenSwapped(p) \/ Expire(p)
  <2>1. UNCHANGED staging
    BY <1>6 DEF Recover, Check, RenameBack, Rollback, ReopenRecovered, ReopenUntouched,
                ReopenSwapped, Expire, Statement, catalog, RenameBackupToTarget,
                SetAllowConnections
  <2>2. pc[p] \in {"recover", "check", "rename back", "rollback", "reopen recovered",
                   "reopen untouched", "reopen swapped", "expire"}
    BY <1>6 DEF Recover, Check, RenameBack, Rollback, ReopenRecovered, ReopenUntouched,
                ReopenSwapped, Expire
  <2>3. pc'[p] \notin LoadedLabels
    BY <2>2, BodyOrdered DEF Ordered, LoadedLabels, SwapLabels, ClosedLabels
  <2> QED
    BY <2>1, <2>3 DEF StagingMoves
<1>7. CASE Close(p) \/ Terminate(p) \/ PickBackupName(p) \/ RenameOut(p)
  <2>1. UNCHANGED staging
    BY <1>7 DEF Close, Terminate, PickBackupName, RenameOut, Statement, catalog,
                RenameTargetToBackup, SetAllowConnections
  <2>2. pc[p] \in LoadedLabels
    BY <1>7 DEF Close, Terminate, PickBackupName, RenameOut, LoadedLabels
  <2> QED
    BY <2>1, <2>2 DEF StagingMoves
<1> QED
  BY <1>1, <1>2, <1>3, <1>4, <1>5, <1>6, <1>7 DEF Body

-----------------------------------------------------------------------------
LEMMA BodyKeeps ==
  ASSUME FilledInv, NEW p \in Procs, Body(p)
  PROVE  LoadedGood' /\ OwnNames'
<1> USE DEF FilledInv
<1>1. Framed(p) /\ StagingMoves(p)
  BY BodyFrames, BodyStaging
<1>2. OwnNames'
  BY <1>1 DEF Framed, OwnNames
<1>3. ASSUME NEW q \in Procs, pc'[q] \in LoadedLabels
      PROVE  Good(staging'[job[q].staging])
  <2>1. CASE q # p
    <3>1. pc[q] \in LoadedLabels /\ job[q].kind = "restore" /\ job[q].staging \in Restores
      BY <1>1, <1>3, <2>1 DEF Framed, TypeOK, LocalsOK, RestoreLabels, LoadedLabels
    <3>2. \/ staging'[job[q].staging] = staging[job[q].staging]
          \/ staging'[job[q].staging] = NoDb
      BY <1>1, <2>1, <3>1 DEF StagingMoves, Empties, Fills, OwnNames, TypeOK
    <3> QED
      BY <3>1, <3>2 DEF LoadedGood, Good
  <2>2. CASE q = p
    <3>1. CASE Fills(p)
      <4>1. job[p].staging \in Restores
        BY <3>1 DEF Fills, TypeOK, LocalsOK, Framed, Job
      <4> QED
        BY <1>3, <2>2, <3>1, <4>1 DEF Fills, TypeOK
    <3>2. CASE UNCHANGED staging /\ pc[p] \in LoadedLabels
      BY <2>2, <3>2 DEF LoadedGood
    <3>3. CASE Empties /\ pc[p] \in LoadedLabels
      <4>1. job[p].staging \in Restores
        BY <3>3 DEF TypeOK, LocalsOK, RestoreLabels, LoadedLabels
      <4>2. staging'[job[p].staging] \in {staging[job[p].staging], NoDb}
        BY <3>3, <4>1 DEF Empties, TypeOK
      <4> QED
        BY <2>2, <3>3, <4>2 DEF LoadedGood, Good
    <3> QED
      BY <1>1, <1>3, <2>2, <3>1, <3>2, <3>3 DEF StagingMoves
  <2> QED
    BY <2>1, <2>2
<1>4. \A q \in Procs : job'[q].staging = job[q].staging
  BY <1>1 DEF Framed
<1> QED
  BY <1>2, <1>3, <1>4 DEF LoadedGood, Good

LEMMA StartKeeps ==
  ASSUME FilledInv, NEW p \in Procs, NEW t \in Targets,
         StartRestore(p, t) \/ StartRepair(p, t)
  PROVE  NamesGood' /\ LoadedGood' /\ OwnNames'
<1> USE DEF FilledInv
<1>1. /\ UNCHANGED catalog /\ pc[p] = "idle" /\ pc'[p] = "recover"
      /\ \A q \in Procs \ {p} : pc'[q] = pc[q] /\ job'[q] = job[q]
  BY DEF StartRestore, StartRepair, Goto, TypeOK
<1>2. NamesGood'
  BY <1>1 DEF NamesGood, catalog
<1>3. LoadedGood'
  BY <1>1 DEF LoadedGood, LoadedLabels, catalog
<1>4. CASE StartRestore(p, t)
  <2>1. /\ job'[p].kind = "restore" /\ job'[p].staging = nextId
        /\ nextId' = nextId + 1 /\ nextId \in Int
    BY <1>4 DEF StartRestore, Idle, TypeOK
  <2>2. \A q \in Procs : job[q].staging \in Int
    BY DEF TypeOK, Job
  <2> QED
    BY <1>1, <1>2, <1>3, <2>1, <2>2 DEF OwnNames
<1>5. CASE StartRepair(p, t)
  <2>1. job'[p].kind = "repair" /\ nextId' = nextId
    BY <1>5 DEF StartRepair, Idle, TypeOK
  <2> QED
    BY <1>1, <1>2, <1>3, <2>1 DEF OwnNames
<1> QED
  BY <1>4, <1>5

\* The end of a run, its environment, and the loss of its lock.
LEMMA OthersKeep ==
  ASSUME FilledInv,
         \/ \E p \in Procs : Ends(p) \/ Cancel(p) \/ ReapLockSession(p)
         \/ \E t \in Targets : ClientConnect(t) \/ ClientDisconnect(t)
         \/ StagingSession
         \/ Tick \/ StepBack \/ UNCHANGED vars
  PROVE  NamesGood' /\ LoadedGood' /\ OwnNames'
<1> USE DEF FilledInv
<1>1. /\ UNCHANGED <<backups, nextId>>
      /\ \A r \in Restores :
           \/ staging'[r] = staging[r]
           \/ staging[r] # NoDb /\ staging'[r].ready = staging[r].ready
  <2>1. CASE StagingSession
    BY <2>1, StagingSessionKeeps
  <2>2. CASE ~StagingSession
    BY <2>2 DEF Ends, Cancel, ReapLockSession, ClientConnect, ClientDisconnect, Tick,
       StepBack, vars, catalog
  <2> QED
    BY <2>1, <2>2
<1>2. \A q \in Procs : \/ pc'[q] = pc[q] /\ job'[q] = job[q]
                       \/ pc'[q] = "idle" /\ job'[q] = Idle
  BY DEF Ends, Goto, Cancel, ReapLockSession, ClientConnect, ClientDisconnect,
         StagingSession, StagingConnect, StagingDisconnect, Tick, StepBack, vars, TypeOK
<1>3. LoadedGood'
  <2> SUFFICES ASSUME NEW q \in Procs, pc'[q] \in LoadedLabels
               PROVE  Good(staging'[job'[q].staging])
    BY DEF LoadedGood, Good
  <2>1. pc[q] \in LoadedLabels /\ job'[q] = job[q]
    BY <1>2 DEF LoadedLabels
  <2>2. job[q].staging \in Restores
    BY <2>1 DEF TypeOK, LocalsOK, LoadedLabels, RestoreLabels
  <2> QED
    BY <1>1, <2>1, <2>2 DEF LoadedGood, Good
<1>4. OwnNames'
  BY <1>1, <1>2 DEF OwnNames, Idle
<1>5. NamesGood'
  <2>1. CASE UNCHANGED live
    BY <1>1, <2>1 DEF NamesGood
  <2>2. CASE \E t \in Targets : ClientConnect(t) \/ ClientDisconnect(t)
    <3>1. PICK t \in Targets : ClientConnect(t) \/ ClientDisconnect(t)
      BY <2>2
    <3>2. PICK b \in BOOLEAN : live' = [live EXCEPT ![t] = [live[t] EXCEPT !.busy = b]]
      BY <3>1 DEF ClientConnect, ClientDisconnect
    <3> QED
      BY <1>1, <3>1, <3>2, AdjustedGood DEF ClientConnect, ClientDisconnect
  <2> QED
    BY <2>1, <2>2 DEF Ends, Cancel, ReapLockSession, StagingSession, StagingConnect,
       StagingDisconnect, Tick, StepBack, vars, catalog
<1> QED
  BY <1>3, <1>4, <1>5

\* The loss of a lock leaves the types as they are.
LEMMA ReapType ==
  ASSUME TypeOK, NEW p \in Procs, ReapLockSession(p)
  PROVE  TypeOK'
<1>1. lock' \in [Targets -> Procs \cup {NoProc}]
  BY DEF ReapLockSession, TypeOK
<1> QED
  BY <1>1 DEF ReapLockSession, TypeOK, LocalsOK, target, catalog

LEMMA InvNext == FilledInv /\ [ReapingNext]_vars => FilledInv'
<1> SUFFICES ASSUME FilledInv, [ReapingNext]_vars PROVE FilledInv'
  OBVIOUS
<1>1. TypeOK'
  BY NextType, ReapType DEF FilledInv, ReapingNext
<1>2. CASE \E p \in Procs : Body(p)
  BY <1>1, <1>2, BodyNames, BodyKeeps DEF FilledInv
<1>3. CASE \E p \in Procs, t \in Targets : StartRestore(p, t) \/ StartRepair(p, t)
  BY <1>1, <1>3, StartKeeps DEF FilledInv
<1>4. CASE \/ \E p \in Procs : Ends(p) \/ Cancel(p) \/ ReapLockSession(p)
           \/ \E t \in Targets : ClientConnect(t) \/ ClientDisconnect(t)
           \/ StagingSession
           \/ Tick \/ StepBack \/ UNCHANGED vars
  BY <1>1, <1>4, OthersKeep DEF FilledInv
<1> QED
  BY <1>2, <1>3, <1>4 DEF ReapingNext, Next, Step, Body, Unlock, Crash, StagingSession

LEMMA InvInit == Init => FilledInv
<1> SUFFICES ASSUME Init PROVE FilledInv
  OBVIOUS
<1>1. TypeOK
  BY InitType
<1>2. NamesGood /\ LoadedGood /\ OwnNames
  BY DEF Init, NamesGood, LoadedGood, OwnNames, Good, Original, Idle, LoadedLabels
<1> QED
  BY <1>1, <1>2 DEF FilledInv

LEMMA InvCompletes == FilledInv => CompleteTarget
BY DEF FilledInv, NamesGood, Good, CompleteTarget, Backups

\* The target's name, and that of a backup, never holds a database whose load
\* was not completed, whatever fails and however many runs overlap, since the
\* pool closed the session that holds the lock (Run, its deferred cleanup).
THEOREM CompleteWithoutLock == ReapingSpec => []CompleteTarget
BY InvInit, InvNext, InvCompletes, PTL DEF ReapingSpec

LEMMA FilledHolds == Spec => []FilledInv
<1>1. FilledInv /\ [Next]_vars => FilledInv'
  BY InvNext DEF ReapingNext
<1> QED
  BY <1>1, InvInit, PTL DEF Spec

\* The same of runs that keep their locks.
THEOREM TargetsAreComplete == Spec => []CompleteTarget
  BY FilledHolds, InvCompletes, PTL

-----------------------------------------------------------------------------
(***************************************************************************)
(* What users see of a target is a behaviour of Cutover                    *)
(***************************************************************************)

Present == [t \in Targets |-> live[t] # NoDb]
Ready == {r \in Restores : staging[r] # NoDb /\ staging[r].ready}

\* Nothing that users see happens: databases are prepared or discarded.
LEMMA Unseen ==
  ASSUME Present' = Present, UNCHANGED last
  PROVE  Promise!Next
<1>1. Ready' \in SUBSET (1 .. MaxRestores)
  BY DEF Ready, Restores
<1>2. Promise!Prepare
  BY <1>1 DEF Promise!Prepare, Present, Ready
<1> QED
  BY <1>2 DEF Promise!Next

\* A backup that gets the target's name is the database that had it last.
LEMMA ReturnsTheLast ==
  ASSUME OrderInv, NEW p \in Procs, NEW t \in Targets, t = target(p),
         pc[p] \in ReturnLabels, live[t] = NoDb, job[p].stamp \in Stamp,
         backups[t][job[p].stamp] # NoDb
  PROVE  backups[t][job[p].stamp].id = last[t]
<1> DEFINE s == job[p].stamp
<1>1. s \in Backups(t) /\ Backups(t) \in SUBSET Stamp
  BY DEF Backups
<1>2. IsNewest(s, Backups(t))
  BY <1>1 DEF OrderInv, PutsBackNewest, IsNewest
<1>3. NewestBackup(Backups(t)) = s
  BY <1>1, <1>2, NewestUnique
<1> QED
  BY <1>3 DEF OrderInv, HistoryInv, RecoverableTarget

\* A restore brings in a younger database than the target ever held.
LEMMA BringsYounger ==
  ASSUME OrderInv, NEW p \in Procs, NEW t \in Targets, t = target(p),
         pc[p] = "rename in", live[t] = NoDb
  PROVE  job[p].staging > last[t]
<1> DEFINE s == NewestBackup(Backups(t))
<1>1. Backups(t) # {} /\ backups[t][s].id = last[t]
  BY DEF OrderInv, HistoryInv, RecoverableTarget
<1>2. s \in Backups(t)
  BY <1>1, NewestBackupIsNewest DEF IsNewest, Backups
<1>3. OlderThan(t, job[p].staging)
  BY DEF OrderInv, BuildsYoungest, YoungLabels, HistoryInv, TypeOK, LocalsOK, RestoreLabels
<1>4. backups[t][s].id < job[p].staging
  BY <1>2, <1>3 DEF OlderThan
<1>5. last[t] \in 0 .. MaxRestores /\ job[p].staging \in 0 .. MaxRestores
  BY DEF OrderInv, HistoryInv, TypeOK, Job
<1> HIDE DEF s
<1> QED
  BY <1>1, <1>4, <1>5, BoundsAssumption

LEMMA WithdrawsSeen ==
  ASSUME OrderInv, NEW p \in Procs, NEW t \in Targets, t = target(p),
         CanRenameOut(p), RenameTargetToBackup(p, job[p].stamp)
  PROVE  Promise!Next
<1>1. live[t] # NoDb /\ live' = [live EXCEPT ![t] = NoDb] /\ UNCHANGED <<staging, last>>
  BY DEF CanRenameOut, RenameTargetToBackup
<1>2. live \in [Targets -> Database \cup {NoDb}]
  BY DEF OrderInv, HistoryInv, TypeOK
<1>3. Present[t] /\ Present' = [Present EXCEPT ![t] = FALSE]
  BY <1>1, <1>2 DEF Present
<1>4. Ready' = Ready
  BY <1>1 DEF Ready
<1>5. Promise!Withdraw(t)
  BY <1>1, <1>3, <1>4 DEF Promise!Withdraw, Present, Ready
<1> QED
  BY <1>5 DEF Promise!Next

LEMMA PutsBackSeen ==
  ASSUME OrderInv, NEW p \in Procs, NEW t \in Targets, t = target(p),
         pc[p] \in {"rename back", "rollback"},
         CanRenameBackup(p, job[p].stamp), RenameBackupToTarget(p, job[p].stamp)
  PROVE  Promise!Next
<1> DEFINE d == backups[t][job[p].stamp]
<1>1. /\ live[t] = NoDb /\ d # NoDb /\ live' = [live EXCEPT ![t] = d]
      /\ last' = [last EXCEPT ![t] = d.id] /\ UNCHANGED staging
  BY DEF CanRenameBackup, RenameBackupToTarget
<1>2. /\ live \in [Targets -> Database \cup {NoDb}]
      /\ last \in [Targets -> 0 .. MaxRestores]
      /\ job[p].stamp \in Stamp
  BY DEF OrderInv, HistoryInv, TypeOK, LocalsOK, RenameLabels
<1>3. d.id = last[t]
  BY <1>1, <1>2, ReturnsTheLast DEF ReturnLabels
<1>4. UNCHANGED last
  BY <1>1, <1>2, <1>3
<1> HIDE DEF d
<1>5. ~Present[t] /\ Present' = [Present EXCEPT ![t] = TRUE]
  BY <1>1, <1>2 DEF Present
<1>6. Ready' = Ready
  BY <1>1 DEF Ready
<1>7. Promise!PutBack(t)
  BY <1>4, <1>5, <1>6 DEF Promise!PutBack, Present, Ready
<1> QED
  BY <1>7 DEF Promise!Next

LEMMA PutsInSeen ==
  ASSUME OrderInv, FilledInv, NEW p \in Procs, NEW t \in Targets, t = target(p),
         pc[p] = "rename in", CanRenameIn(p),
         live' = [live EXCEPT ![t] = staging[job[p].staging]],
         staging' = [staging EXCEPT ![job[p].staging] = NoDb],
         last' = [last EXCEPT ![t] = staging[job[p].staging].id]
  PROVE  Promise!Next
<1> DEFINE r == job[p].staging
<1>1. /\ live \in [Targets -> Database \cup {NoDb}]
      /\ last \in [Targets -> 0 .. MaxRestores]
      /\ staging \in [Restores -> Database \cup {NoDb}]
      /\ r \in Restores
  BY DEF OrderInv, HistoryInv, TypeOK, LocalsOK, RestoreLabels
<1>2. live[t] = NoDb /\ staging[r] # NoDb
  BY DEF CanRenameIn
<1>3. staging[r].id = r /\ staging[r].ready
  BY <1>1, <1>2 DEF OrderInv, Numbered, FilledInv, LoadedGood, LoadedLabels, Good
<1>4. r > last[t]
  BY <1>2, BringsYounger
<1>5. ~Present[t] /\ Present' = [Present EXCEPT ![t] = TRUE]
  BY <1>1, <1>2 DEF Present
<1>6. r \in Ready /\ Ready' = Ready \ {r}
  BY <1>1, <1>2, <1>3 DEF Ready
<1>7. last' = [last EXCEPT ![t] = r]
  BY <1>3
<1> HIDE DEF r
<1>8. Promise!Replace(t)
  BY <1>4, <1>5, <1>6, <1>7 DEF Promise!Replace, Present, Ready
<1> QED
  BY <1>8 DEF Promise!Next

LEMMA BodySeen ==
  ASSUME OrderInv, FilledInv, NEW p \in Procs, Body(p)
  PROVE  Promise!Next
<1>1. ActsOnTarget(p) /\ TypeOK /\ Framed(p)
  BY BodyActs, BodyFrames DEF OrderInv, HistoryInv
<1>2. PICK t \in Targets : t = target(p)
  BY <1>1 DEF TypeOK, LocalsOK, Framed
<1>3. CASE UNCHANGED <<live, last>>
  BY <1>3, Unseen DEF Present
<1>4. CASE KeepsOthers(p) /\ Adjusts(p)
  <2>1. \A u \in Targets : (live'[u] # NoDb) = (live[u] # NoDb)
    BY <1>2, <1>4, NoDbAssumption DEF KeepsOthers, Adjusts
  <2> QED
    BY <1>4, <2>1, Unseen DEF Present, Adjusts
<1>5. CASE PutsBack(p)
  <2>1. RenameBack(p) \/ Rollback(p)
    BY <1>5 DEF PutsBack, Body, Recover, ReopenRecovered, DropOrphan, Check, Expire,
       Create, Load, Close, Terminate, TerminateStaging, PickBackupName, RenameOut,
       RenameIn, ReopenUntouched, ReopenSwapped, Cleanup
  <2>2. \/ UNCHANGED <<live, last>>
        \/ CanRenameBackup(p, job[p].stamp) /\ RenameBackupToTarget(p, job[p].stamp)
    BY <2>1 DEF RenameBack, Rollback, Statement, catalog
  <2> QED
    BY <1>2, <1>3, <1>5, <2>2, PutsBackSeen DEF PutsBack
<1>6. CASE Withdraws(p)
  <2>1. RenameOut(p)
    BY <1>6 DEF Withdraws, Body, Recover, RenameBack, ReopenRecovered, DropOrphan, Check,
       Expire, Create, Load, Close, Terminate, TerminateStaging, PickBackupName,
       RenameIn, Rollback, ReopenUntouched, ReopenSwapped, Cleanup
  <2>2. \/ UNCHANGED <<live, last>>
        \/ CanRenameOut(p) /\ RenameTargetToBackup(p, job[p].stamp)
    BY <2>1 DEF RenameOut, Statement, catalog
  <2> QED
    BY <1>2, <1>3, <2>2, WithdrawsSeen
<1>7. CASE PutsIn(p)
  <2>1. RenameIn(p)
    BY <1>7 DEF PutsIn, Body, Recover, RenameBack, ReopenRecovered, DropOrphan, Check,
       Expire, Create, Load, Close, Terminate, TerminateStaging, PickBackupName,
       RenameOut, Rollback, ReopenUntouched, ReopenSwapped, Cleanup
  <2>2. \/ UNCHANGED <<live, last>>
        \/ /\ CanRenameIn(p)
           /\ live' = [live EXCEPT ![target(p)] = staging[job[p].staging]]
           /\ staging' = [staging EXCEPT ![job[p].staging] = NoDb]
           /\ last' = [last EXCEPT ![target(p)] = staging[job[p].staging].id]
    BY <2>1 DEF RenameIn, Statement, catalog
  <2> QED
    BY <1>2, <1>3, <1>7, <2>2, PutsInSeen DEF PutsIn
<1> QED
  BY <1>1, <1>3, <1>4, <1>5, <1>6, <1>7 DEF ActsOnTarget, Drops

LEMMA OthersUnseen ==
  ASSUME TypeOK,
         \/ \E p \in Procs, t \in Targets : StartRestore(p, t) \/ StartRepair(p, t)
         \/ \E p \in Procs : Ends(p) \/ Cancel(p)
         \/ \E t \in Targets : ClientConnect(t) \/ ClientDisconnect(t)
         \/ StagingSession
         \/ Tick \/ StepBack \/ UNCHANGED vars
  PROVE  Promise!Next
<1>1. UNCHANGED last
  BY DEF StartRestore, StartRepair, Ends, Cancel, ClientConnect, ClientDisconnect,
     StagingSession, StagingConnect, StagingDisconnect, Tick, StepBack, vars, catalog
<1>2. CASE UNCHANGED live
  BY <1>1, <1>2, Unseen DEF Present
<1>3. CASE \E t \in Targets : ClientConnect(t) \/ ClientDisconnect(t)
  <2>1. PICK t \in Targets, b \in BOOLEAN :
          live[t] # NoDb /\ live' = [live EXCEPT ![t] = [live[t] EXCEPT !.busy = b]]
    BY <1>3 DEF ClientConnect, ClientDisconnect
  <2>2. [live[t] EXCEPT !.busy = b] # NoDb
    BY <2>1, NoDbAssumption DEF TypeOK, Database
  <2>3. \A u \in Targets : (live'[u] # NoDb) = (live[u] # NoDb)
    BY <2>1, <2>2 DEF TypeOK
  <2> QED
    BY <1>1, <2>3, Unseen DEF Present
<1> QED
  BY <1>2, <1>3 DEF StartRestore, StartRepair, Ends, Cancel, StagingSession,
     StagingConnect, StagingDisconnect, Tick, StepBack, vars, catalog

\* Users of a target see one database at a time: its name is away only during a
\* switch, and when it is back it holds the database that it held before, or a
\* younger one that was completely loaded first (Swap, Recover).  Each of the
\* renames of Restore is a step of Cutover, and every other statement, failure
\* and crash happens aside.
THEOREM RestoreImplementsCutover ==
  ASSUME ~ClockSteps, MinRunTime # 0
  PROVE  Spec => ImplementsCutover
<1>1. Init => Promise!Init
  <2> SUFFICES ASSUME Init PROVE Promise!Init
    OBVIOUS
  <2>1. Original # NoDb
    <3>1. Original \in Database
      BY BoundsAssumption DEF Original, Database
    <3> QED
      BY <3>1, NoDbAssumption
  <2> QED
    BY <2>1 DEF Init, Promise!Init
<1>2. OrderInv /\ FilledInv /\ [Next]_vars => [Promise!Next]_(Promise!vars)
  <2> SUFFICES ASSUME OrderInv, FilledInv, [Next]_vars PROVE Promise!Next
    OBVIOUS
  <2>1. CASE \E p \in Procs : Body(p)
    BY <2>1, BodySeen
  <2>2. CASE ~\E p \in Procs : Body(p)
    BY <2>2, OthersUnseen DEF FilledInv, Next, Step, Body, Unlock, Crash, StagingSession
  <2> QED
    BY <2>1, <2>2
<1>3. Spec => []OrderInv
  BY OrderHolds
<1> QED
  BY <1>1, <1>2, <1>3, FilledHolds, PTL DEF Spec, ImplementsCutover, Promise!Spec
=============================================================================
