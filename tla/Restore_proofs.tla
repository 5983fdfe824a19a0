--------------------------- MODULE Restore_proofs ---------------------------
(***************************************************************************)
(* Proofs about Restore, for every value of its constants.                 *)
(***************************************************************************)
EXTENDS Restore, TLAPS, WellFoundedInduction

-----------------------------------------------------------------------------
(***************************************************************************)
(* Facts about the choices that a restore makes from the catalog           *)
(***************************************************************************)

\* A non-empty set of numbers that are at most `top` has a greatest element.
LEMMA GreatestExists ==
  ASSUME NEW top \in Nat, NEW S \in SUBSET (0 .. top), S # {}
  PROVE  \E m \in S : \A n \in S : n <= m
<1> DEFINE T == {n \in Nat : \E m \in S : n = top - m}
<1>1. T \in SUBSET Nat /\ T # {}
  <2>1. PICK m \in S : TRUE
    OBVIOUS
  <2>2. m \in Nat /\ m <= top
    OBVIOUS
  <2>3. top - m \in T
    BY <2>2
  <2> QED
    BY <2>3
<1>2. PICK x \in T : \A y \in T : ~(<<y, x>> \in OpToRel(<, Nat))
  <2> HIDE DEF T
  <2> QED
    BY <1>1, NatLessThanWellFounded, WFMin
<1>3. \A y \in T : x <= y
  <2> TAKE y \in T
  <2>1. x \in Nat /\ y \in Nat
    OBVIOUS
  <2>2. ~(<<y, x>> \in {ss \in Nat \X Nat : ss[1] < ss[2]})
    BY <1>2 DEF OpToRel
  <2>3. y < x => <<y, x>> \in {ss \in Nat \X Nat : ss[1] < ss[2]}
    BY <2>1
  <2> QED
    BY <2>1, <2>2, <2>3
<1>4. PICK m \in S : x = top - m
  OBVIOUS
<1>5. \A n \in S : n <= m
  <2> TAKE n \in S
  <2>1. n \in Nat /\ m \in Nat /\ n <= top /\ m <= top
    OBVIOUS
  <2>2. top - n \in T
    BY <2>1
  <2>3. top - m <= top - n
    BY <1>3, <1>4, <2>2
  <2> QED
    BY <2>1, <2>3
<1> QED
  BY <1>5

\* Of the backups of a target one sorts last, and it is the one that
\* NewestBackup returns.
LEMMA NewestBackupIsNewest ==
  ASSUME NEW B \in SUBSET Stamp, B # {}
  PROVE  IsNewest(NewestBackup(B), B)
<1> USE MaxTimeAssumption, MaxSuffixAssumption
<1> DEFINE Seconds == {s[1] : s \in B}
<1>1. Seconds \in SUBSET (0 .. MaxTime) /\ Seconds # {}
  BY DEF Stamp, Second
<1>2. PICK m \in Seconds : \A n \in Seconds : n <= m
  <2> HIDE DEF Seconds
  <2> QED BY <1>1, GreatestExists
<1> DEFINE Suffixes == {s[2] : s \in {r \in B : r[1] = m}}
<1>3. Suffixes \in SUBSET (0 .. MaxSuffix) /\ Suffixes # {}
  BY <1>2 DEF Stamp, Second
<1>4. PICK k \in Suffixes : \A n \in Suffixes : n <= k
  <2> HIDE DEF Suffixes
  <2> QED BY <1>3, GreatestExists
<1>5. PICK s \in B : s[1] = m /\ s[2] = k
  BY <1>4
<1>6. \A r \in B : r # s => Before(r, s)
  <2> SUFFICES ASSUME NEW r \in B, r # s
               PROVE  Before(r, s)
    OBVIOUS
  <2>1. r \in Stamp /\ s \in Stamp
    OBVIOUS
  <2>2. r[1] \in Int /\ r[2] \in Int /\ s[1] \in Int /\ s[2] \in Int
    BY <2>1 DEF Stamp, Second
  <2>3. r[1] <= s[1]
    BY <1>2, <1>5
  <2>4. r[1] = s[1] => r[2] <= s[2]
    BY <1>4, <1>5
  <2>5. ~(r[1] = s[1] /\ r[2] = s[2])
    BY <2>1 DEF Stamp
  <2> QED
    BY <2>2, <2>3, <2>4, <2>5 DEF Before
<1>7. IsNewest(s, B)
  BY <1>5, <1>6 DEF IsNewest
<1> QED
  BY <1>7 DEF NewestBackup

\* The newest backup is unique.
LEMMA NewestUnique ==
  ASSUME NEW B \in SUBSET Stamp, NEW s, IsNewest(s, B)
  PROVE  NewestBackup(B) = s
<1>1. IsNewest(NewestBackup(B), B)
  BY NewestBackupIsNewest DEF IsNewest
<1> DEFINE n == NewestBackup(B)
<1>2. n \in Stamp /\ s \in Stamp
  BY <1>1 DEF IsNewest
<1>3. n # s => Before(n, s) /\ Before(s, n)
  BY <1>1 DEF IsNewest
<1> QED
  BY <1>2, <1>3, MaxTimeAssumption, MaxSuffixAssumption DEF Before, Stamp, Second
\* A non-empty set of numbers has a least element.
LEMMA LeastExists ==
  ASSUME NEW S \in SUBSET Nat, S # {}
  PROVE  \E m \in S : \A n \in S : m <= n
<1>1. PICK x \in S : \A y \in S : ~(<<y, x>> \in OpToRel(<, Nat))
  BY NatLessThanWellFounded, WFMin
<1>2. \A y \in S : x <= y
  <2> TAKE y \in S
  <2>1. x \in Nat /\ y \in Nat
    OBVIOUS
  <2>2. ~(<<y, x>> \in {ss \in Nat \X Nat : ss[1] < ss[2]})
    BY <1>1 DEF OpToRel
  <2>3. y < x => <<y, x>> \in {ss \in Nat \X Nat : ss[1] < ss[2]}
    BY <2>1
  <2> QED
    BY <2>1, <2>2, <2>3
<1> QED
  BY <1>2

\* The name picked for a backup is free and of the current second, unless
\* every suffix of the second is taken.
LEMMA UniqueBackupNameFree ==
  ASSUME NEW B, NEW n \in Second
  PROVE  \/ UniqueBackupName(B, n) = NoStamp
         \/ /\ UniqueBackupName(B, n) \in Stamp \ B
            /\ UniqueBackupName(B, n)[1] = n
<1> DEFINE base == BackupName(n)
           free == {i \in 1 .. MaxSuffix : <<base[1], i>> \notin B}
<1>1. base \in Stamp /\ base[1] = n
  BY MaxSuffixAssumption DEF BackupName, Stamp
<1>2. CASE base \notin B
  BY <1>1, <1>2 DEF UniqueBackupName
<1>3. CASE base \in B /\ free = {}
  BY <1>3 DEF UniqueBackupName
<1>4. CASE base \in B /\ free # {}
  <2> DEFINE least == CHOOSE i \in free : \A k \in free : i <= k
  <2>1. \E i \in free : \A k \in free : i <= k
    <3>1. free \in SUBSET Nat
      OBVIOUS
    <3> HIDE DEF free
    <3> QED
      BY <1>4, <3>1, LeastExists
  <2>2. least \in free
    BY <2>1
  <2>3. least \in 0 .. MaxSuffix /\ <<n, least>> \notin B
    BY <1>1, <2>2, MaxSuffixAssumption
  <2>4. UniqueBackupName(B, n) = <<n, least>>
    BY <1>1, <1>4 DEF UniqueBackupName
  <2> HIDE DEF least
  <2>5. <<n, least>> \in Stamp
    BY <2>3 DEF Stamp
  <2> QED
    BY <2>3, <2>4, <2>5
<1> QED
  BY <1>2, <1>3, <1>4

-----------------------------------------------------------------------------
(***************************************************************************)
(* The types                                                               *)
(***************************************************************************)

-----------------------------------------------------------------------------
(***************************************************************************)
(* How a statement ends                                                    *)
(***************************************************************************)

ControlType ==
  /\ pc \in [Procs -> Labels]
  /\ cancelled \in [Procs -> BOOLEAN]
  /\ faults \in 0 .. MaxFaults

CatalogType ==
  /\ live \in [Targets -> Database \cup {NoDb}]
  /\ backups \in [Targets -> [Stamp -> Database \cup {NoDb}]]
  /\ staging \in [Restores -> Database \cup {NoDb}]
  /\ last \in [Targets -> 0 .. MaxRestores]

\* A statement of p moves p to one of two labels and no other process.
LEMMA ControlKept ==
  ASSUME TypeOK, NEW p \in Procs, NEW ok \in Labels, NEW err \in Labels,
         Executed(p, ok, err) \/ Refused(p, err) \/ Failed(p, err)
  PROVE  /\ ControlType'
         /\ pc'[p] \in {ok, err}
         /\ \A q \in Procs \ {p} : pc'[q] = pc[q]
<1>1. CASE Executed(p, ok, err)
  <2>1. /\ pc' \in [Procs -> Labels]
        /\ pc'[p] \in {ok, err}
        /\ \A q \in Procs \ {p} : pc'[q] = pc[q]
    BY <1>1 DEF Executed, Goto, TypeOK
  <2>2. cancelled' \in [Procs -> BOOLEAN]
    BY <1>1 DEF Executed, TypeOK
  <2>3. faults' \in 0 .. MaxFaults
    BY <1>1, BoundsAssumption DEF Executed, Fault, TypeOK
  <2> QED
    BY <2>1, <2>2, <2>3 DEF ControlType
<1>2. CASE Refused(p, err)
  BY <1>2 DEF Refused, Goto, TypeOK, ControlType
<1>3. CASE Failed(p, err)
  <2>1. /\ pc' \in [Procs -> Labels]
        /\ pc'[p] \in {ok, err}
        /\ \A q \in Procs \ {p} : pc'[q] = pc[q]
    BY <1>3 DEF Failed, Goto, TypeOK
  <2>2. cancelled' \in [Procs -> BOOLEAN]
    BY <1>3 DEF Failed, TypeOK
  <2>3. faults' \in 0 .. MaxFaults
    BY <1>3, BoundsAssumption DEF Failed, Fault, TypeOK
  <2> QED
    BY <2>1, <2>2, <2>3 DEF ControlType
<1> QED
  BY <1>1, <1>2, <1>3

\* Opening, closing, disconnecting or loading a database leaves a database.
LEMMA DatabaseUpdates ==
  ASSUME NEW d \in Database, NEW b \in BOOLEAN
  PROVE  /\ [d EXCEPT !.open = b] \in Database
         /\ [d EXCEPT !.busy = b] \in Database
         /\ [d EXCEPT !.ready = TRUE] \in Database
BY DEF Database

\* Every update of the locals of one run leaves locals, and its target.
LEMMA JobUpdates ==
  ASSUME NEW j \in Job, NEW s \in Stamp \cup {NoStamp},
         NEW D \in SUBSET Stamp, NEW O \in SUBSET Restores
  PROVE  /\ [j EXCEPT !.stamp = s] \in Job
         /\ [j EXCEPT !.doomed = D] \in Job
         /\ [j EXCEPT !.orphans = O] \in Job
         /\ [j EXCEPT !.orphans = O, !.stamp = s] \in Job
BY DEF Job

-----------------------------------------------------------------------------
(***************************************************************************)
(* Effects on the catalog                                                  *)
(***************************************************************************)

LEMMA UnchangedCatalogType ==
  ASSUME TypeOK, UNCHANGED catalog
  PROVE  CatalogType'
BY DEF TypeOK, catalog, CatalogType

LEMMA SetAllowConnectionsType ==
  ASSUME TypeOK, NEW p \in Procs, target(p) \in Targets,
         live[target(p)] # NoDb, NEW allow \in BOOLEAN,
         SetAllowConnections(p, allow)
  PROVE  CatalogType'
<1>1. live[target(p)] \in Database
  BY DEF TypeOK
<1>2. [live[target(p)] EXCEPT !.open = allow] \in Database
  BY <1>1, DatabaseUpdates
<1>3. live' = [live EXCEPT ![target(p)] = [live[target(p)] EXCEPT !.open = allow]]
  BY DEF SetAllowConnections
<1>4. live' \in [Targets -> Database \cup {NoDb}]
  BY <1>2, <1>3 DEF TypeOK
<1> QED
  BY <1>4 DEF SetAllowConnections, TypeOK, CatalogType

LEMMA RenameTargetToBackupType ==
  ASSUME TypeOK, NEW p \in Procs, target(p) \in Targets, NEW s \in Stamp,
         RenameTargetToBackup(p, s)
  PROVE  CatalogType'
<1>1. live' \in [Targets -> Database \cup {NoDb}]
  BY DEF TypeOK, RenameTargetToBackup
<1>2. backups' \in [Targets -> [Stamp -> Database \cup {NoDb}]]
  <2>1. [backups[target(p)] EXCEPT ![s] = live[target(p)]]
          \in [Stamp -> Database \cup {NoDb}]
    BY DEF TypeOK
  <2> QED
    BY <2>1 DEF TypeOK, RenameTargetToBackup
<1> QED
  BY <1>1, <1>2 DEF RenameTargetToBackup, TypeOK, CatalogType

LEMMA RenameBackupToTargetType ==
  ASSUME TypeOK, NEW p \in Procs, target(p) \in Targets, NEW s \in Stamp,
         CanRenameBackup(p, s), RenameBackupToTarget(p, s)
  PROVE  CatalogType'
<1>1. backups[target(p)][s] \in Database
  BY DEF TypeOK, CanRenameBackup
<1>2. live' \in [Targets -> Database \cup {NoDb}]
  BY <1>1 DEF TypeOK, RenameBackupToTarget
<1>3. backups' \in [Targets -> [Stamp -> Database \cup {NoDb}]]
  <2>1. [backups[target(p)] EXCEPT ![s] = NoDb] \in [Stamp -> Database \cup {NoDb}]
    BY DEF TypeOK
  <2> QED
    BY <2>1 DEF TypeOK, RenameBackupToTarget
<1>4. last' \in [Targets -> 0 .. MaxRestores]
  BY <1>1 DEF TypeOK, RenameBackupToTarget, Database
<1> QED
  BY <1>2, <1>3, <1>4 DEF RenameBackupToTarget, TypeOK, CatalogType

\* What a statement of p has to establish for the types of the next state.
LEMMA StatementType ==
  ASSUME TypeOK, NEW p \in Procs, pc[p] # "idle",
         ControlType', CatalogType', UNCHANGED <<lock, nextId, now>>,
         \A q \in Procs \ {p} : pc'[q] = pc[q],
         NEW j \in Job, job' = [job EXCEPT ![p] = j],
         j.target = job[p].target, j.kind = job[p].kind,
         j.staging = job[p].staging,
         pc'[p] \in RestoreLabels => job[p].kind = "restore",
         pc'[p] \in RenameLabels => j.stamp \in Stamp
  PROVE  TypeOK'
<1>1. job' \in [Procs -> Job]
  BY DEF TypeOK
<1>2. job'[p] = j /\ \A q \in Procs \ {p} : job'[q] = job[q]
  BY DEF TypeOK
<1>3. LocalsOK'
  BY <1>2 DEF TypeOK, LocalsOK, target
<1> QED
  BY <1>1, <1>3 DEF TypeOK, ControlType, CatalogType
-----------------------------------------------------------------------------
(***************************************************************************)
(* The statements of a run, one after the other                            *)
(***************************************************************************)

LEMMA CloseType ==
  ASSUME TypeOK, NEW p \in Procs, Close(p)
  PROVE  TypeOK'
<1>1. /\ ControlType'
      /\ pc'[p] \in {"terminate", "cleanup"}
      /\ \A q \in Procs \ {p} : pc'[q] = pc[q]
  BY ControlKept DEF Close, Statement, Labels
<1>2. target(p) \in Targets /\ job[p] \in Job
  BY DEF TypeOK, LocalsOK, Close
<1>3. CatalogType'
  BY <1>2, UnchangedCatalogType, SetAllowConnectionsType DEF Close, Statement
<1>4. job' = [job EXCEPT ![p] = job[p]]
  BY DEF Close, Statement, SetAllowConnections, TypeOK
<1> QED
  BY <1>1, <1>2, <1>3, <1>4, StatementType
     DEF Close, Statement, TypeOK, LocalsOK, RestoreLabels, RenameLabels

LEMMA ReopenUntouchedType ==
  ASSUME TypeOK, NEW p \in Procs, ReopenUntouched(p)
  PROVE  TypeOK'
<1>1. /\ ControlType'
      /\ pc'[p] \in {"cleanup", "cleanup"}
      /\ \A q \in Procs \ {p} : pc'[q] = pc[q]
  BY ControlKept DEF ReopenUntouched, Statement, Labels
<1>2. target(p) \in Targets /\ job[p] \in Job
  BY DEF TypeOK, LocalsOK, ReopenUntouched
<1>3. CatalogType'
  BY <1>2, UnchangedCatalogType, SetAllowConnectionsType DEF ReopenUntouched, Statement
<1>4. job' = [job EXCEPT ![p] = job[p]]
  BY DEF ReopenUntouched, Statement, SetAllowConnections, TypeOK
<1> QED
  BY <1>1, <1>2, <1>3, <1>4, StatementType
     DEF ReopenUntouched, Statement, TypeOK, LocalsOK, RestoreLabels, RenameLabels

LEMMA ReopenSwappedType ==
  ASSUME TypeOK, NEW p \in Procs, ReopenSwapped(p)
  PROVE  TypeOK'
<1>1. /\ ControlType'
      /\ pc'[p] \in {"unlock", "cleanup"}
      /\ \A q \in Procs \ {p} : pc'[q] = pc[q]
  BY ControlKept DEF ReopenSwapped, Statement, Labels
<1>2. target(p) \in Targets /\ job[p] \in Job
  BY DEF TypeOK, LocalsOK, ReopenSwapped
<1>3. CatalogType'
  BY <1>2, UnchangedCatalogType, SetAllowConnectionsType DEF ReopenSwapped, Statement
<1>4. job' = [job EXCEPT ![p] = job[p]]
  BY DEF ReopenSwapped, Statement, SetAllowConnections, TypeOK
<1> QED
  BY <1>1, <1>2, <1>3, <1>4, StatementType
     DEF ReopenSwapped, Statement, TypeOK, LocalsOK, RestoreLabels, RenameLabels

LEMMA RenameBackType ==
  ASSUME TypeOK, NEW p \in Procs, RenameBack(p)
  PROVE  TypeOK'
<1>1. /\ ControlType'
      /\ pc'[p] \in {"reopen recovered", "unlock"}
      /\ \A q \in Procs \ {p} : pc'[q] = pc[q]
  BY ControlKept DEF RenameBack, Statement, Labels
<1>2. target(p) \in Targets /\ job[p] \in Job
  BY DEF TypeOK, LocalsOK, RenameBack
<1>3. CatalogType'
  BY <1>2, UnchangedCatalogType, RenameBackupToTargetType
     DEF RenameBack, Statement, TypeOK, LocalsOK, RenameLabels
<1>4. job' = [job EXCEPT ![p] = job[p]]
  BY DEF RenameBack, Statement, RenameBackupToTarget, TypeOK
<1> QED
  BY <1>1, <1>2, <1>3, <1>4, StatementType
     DEF RenameBack, Statement, TypeOK, LocalsOK, RestoreLabels, RenameLabels

LEMMA RollbackType ==
  ASSUME TypeOK, NEW p \in Procs, Rollback(p)
  PROVE  TypeOK'
<1>1. /\ ControlType'
      /\ pc'[p] \in {"reopen untouched", "cleanup"}
      /\ \A q \in Procs \ {p} : pc'[q] = pc[q]
  BY ControlKept DEF Rollback, Statement, Labels
<1>2. target(p) \in Targets /\ job[p] \in Job
  BY DEF TypeOK, LocalsOK, Rollback
<1>3. CatalogType'
  BY <1>2, UnchangedCatalogType, RenameBackupToTargetType
     DEF Rollback, Statement, TypeOK, LocalsOK, RenameLabels
<1>4. job' = [job EXCEPT ![p] = job[p]]
  BY DEF Rollback, Statement, RenameBackupToTarget, TypeOK
<1> QED
  BY <1>1, <1>2, <1>3, <1>4, StatementType
     DEF Rollback, Statement, TypeOK, LocalsOK, RestoreLabels, RenameLabels

LEMMA RenameOutType ==
  ASSUME TypeOK, NEW p \in Procs, RenameOut(p)
  PROVE  TypeOK'
<1>1. /\ ControlType'
      /\ pc'[p] \in {"rename in", "reopen untouched"}
      /\ \A q \in Procs \ {p} : pc'[q] = pc[q]
  BY ControlKept DEF RenameOut, Statement, Labels
<1>2. target(p) \in Targets /\ job[p] \in Job
  BY DEF TypeOK, LocalsOK, RenameOut
<1>3. CatalogType'
  BY <1>2, UnchangedCatalogType, RenameTargetToBackupType
     DEF RenameOut, Statement, TypeOK, LocalsOK, RenameLabels
<1>4. job' = [job EXCEPT ![p] = job[p]]
  BY DEF RenameOut, Statement, RenameTargetToBackup, TypeOK
<1> QED
  BY <1>1, <1>2, <1>3, <1>4, StatementType
     DEF RenameOut, Statement, TypeOK, LocalsOK, RestoreLabels, RenameLabels

LEMMA RenameInType ==
  ASSUME TypeOK, NEW p \in Procs, RenameIn(p)
  PROVE  TypeOK'
<1>1. /\ ControlType'
      /\ pc'[p] \in {"reopen swapped", "rollback"}
      /\ \A q \in Procs \ {p} : pc'[q] = pc[q]
  BY ControlKept DEF RenameIn, Statement, Labels
<1>2. target(p) \in Targets /\ job[p] \in Job
  BY DEF TypeOK, LocalsOK, RenameIn
<1>3. CatalogType'
  <2>1. CASE UNCHANGED catalog
    BY <2>1, UnchangedCatalogType
  <2> DEFINE r == job[p].staging
  <2>2. CASE /\ CanRenameIn(p)
             /\ live' = [live EXCEPT ![target(p)] = staging[r]]
             /\ staging' = [staging EXCEPT ![r] = NoDb]
             /\ last' = [last EXCEPT ![target(p)] = staging[r].id]
             /\ UNCHANGED backups
    <3>1. r \in Restores
      BY DEF RenameIn, TypeOK, LocalsOK, RestoreLabels
    <3>2. staging[r] \in Database
      BY <2>2, <3>1 DEF CanRenameIn, TypeOK
    <3>3. staging[r].id \in 0 .. MaxRestores
      BY <3>2 DEF Database
    <3> QED
      BY <1>2, <2>2, <3>2, <3>3 DEF TypeOK, CatalogType
  <2> QED
    BY <2>1, <2>2 DEF RenameIn, Statement
<1>4. job' = [job EXCEPT ![p] = job[p]]
  BY DEF RenameIn, Statement, TypeOK
<1> QED
  BY <1>1, <1>2, <1>3, <1>4, StatementType
     DEF RenameIn, Statement, TypeOK, LocalsOK, RestoreLabels, RenameLabels

LEMMA TerminateType ==
  ASSUME TypeOK, NEW p \in Procs, Terminate(p)
  PROVE  TypeOK'
<1>1. /\ ControlType'
      /\ pc'[p] \in {"terminate staging", "cleanup"}
      /\ \A q \in Procs \ {p} : pc'[q] = pc[q]
  BY ControlKept DEF Terminate, Statement, Labels
<1>2. target(p) \in Targets /\ job[p] \in Job
  BY DEF TypeOK, LocalsOK, Terminate
<1>3. CatalogType'
  <2>1. CASE UNCHANGED catalog
    BY <2>1, UnchangedCatalogType
  <2> DEFINE d == live[target(p)]
             e == IF d = NoDb THEN NoDb ELSE [d EXCEPT !.busy = FALSE]
  <2>2. CASE /\ live' = [live EXCEPT ![target(p)] = e]
             /\ UNCHANGED <<backups, staging, last>>
    <3>1. e \in Database \cup {NoDb}
      BY <1>2, DatabaseUpdates DEF TypeOK
    <3> QED
      BY <2>2, <3>1 DEF TypeOK, CatalogType
  <2> QED
    BY <2>1, <2>2 DEF Terminate, Statement
<1>4. job' = [job EXCEPT ![p] = job[p]]
  BY DEF Terminate, Statement, TypeOK
<1> QED
  BY <1>1, <1>2, <1>3, <1>4, StatementType
     DEF Terminate, Statement, TypeOK, LocalsOK, RestoreLabels, RenameLabels

LEMMA TerminateStagingType ==
  ASSUME TypeOK, NEW p \in Procs, TerminateStaging(p)
  PROVE  TypeOK'
<1>1. /\ ControlType'
      /\ pc'[p] \in {"name", "cleanup"}
      /\ \A q \in Procs \ {p} : pc'[q] = pc[q]
  BY ControlKept DEF TerminateStaging, Statement, Labels
<1>2. target(p) \in Targets /\ job[p] \in Job
  BY DEF TypeOK, LocalsOK, TerminateStaging
<1>3. CatalogType'
  <2>1. CASE UNCHANGED catalog
    BY <2>1, UnchangedCatalogType
  <2> DEFINE r == job[p].staging
             d == staging[r]
             e == IF d = NoDb THEN NoDb ELSE [d EXCEPT !.busy = FALSE]
  <2>2. CASE /\ staging' = [staging EXCEPT ![r] = e]
             /\ UNCHANGED <<live, backups, last>>
    <3>1. r \in Restores
      BY DEF TerminateStaging, TypeOK, LocalsOK, RestoreLabels
    <3>2. e \in Database \cup {NoDb}
      BY <3>1, DatabaseUpdates DEF TypeOK
    <3> QED
      BY <2>2, <3>2 DEF TypeOK, CatalogType
  <2> QED
    BY <2>1, <2>2 DEF TerminateStaging, Statement
<1>4. job' = [job EXCEPT ![p] = job[p]]
  BY DEF TerminateStaging, Statement, TypeOK
<1> QED
  BY <1>1, <1>2, <1>3, <1>4, StatementType
     DEF TerminateStaging, Statement, TypeOK, LocalsOK, RestoreLabels, RenameLabels

LEMMA CreateType ==
  ASSUME TypeOK, NEW p \in Procs, Create(p)
  PROVE  TypeOK'
<1>1. /\ ControlType'
      /\ pc'[p] \in {"load", "unlock"}
      /\ \A q \in Procs \ {p} : pc'[q] = pc[q]
  BY ControlKept DEF Create, Statement, Labels
<1>2. target(p) \in Targets /\ job[p] \in Job
  BY DEF TypeOK, LocalsOK, Create
<1>3. CatalogType'
  <2>1. CASE UNCHANGED catalog
    BY <2>1, UnchangedCatalogType
  <2> DEFINE r == job[p].staging
             e == [id |-> r, open |-> TRUE, busy |-> FALSE, ready |-> FALSE]
  <2>2. CASE /\ staging' = [staging EXCEPT ![r] = e]
             /\ UNCHANGED <<live, backups, last>>
    <3>1. r \in Restores
      BY DEF Create, TypeOK, LocalsOK, RestoreLabels
    <3>2. r \in 0 .. MaxRestores
      BY <3>1, BoundsAssumption DEF Restores
    <3>3. e \in Database
      BY <3>2 DEF Database
    <3> QED
      BY <2>2, <3>1, <3>3 DEF TypeOK, CatalogType
  <2> QED
    BY <2>1, <2>2 DEF Create, Statement
<1>4. job' = [job EXCEPT ![p] = job[p]]
  BY DEF Create, Statement, TypeOK
<1> QED
  BY <1>1, <1>2, <1>3, <1>4, StatementType
     DEF Create, Statement, TypeOK, LocalsOK, RestoreLabels, RenameLabels

LEMMA LoadType ==
  ASSUME TypeOK, NEW p \in Procs, Load(p)
  PROVE  TypeOK'
<1>1. /\ ControlType'
      /\ pc'[p] \in {"close", "cleanup"}
      /\ \A q \in Procs \ {p} : pc'[q] = pc[q]
  BY ControlKept DEF Load, Statement, Labels
<1>2. target(p) \in Targets /\ job[p] \in Job
  BY DEF TypeOK, LocalsOK, Load
<1>3. CatalogType'
  <2>1. CASE UNCHANGED catalog
    BY <2>1, UnchangedCatalogType
  <2> DEFINE r == job[p].staging
  <2>2. CASE /\ staging[r] # NoDb
             /\ staging' = [staging EXCEPT ![r].ready = TRUE]
             /\ UNCHANGED <<live, backups, last>>
    <3>1. r \in Restores
      BY DEF Load, TypeOK, LocalsOK, RestoreLabels
    <3> DEFINE e == [staging[r] EXCEPT !.ready = TRUE]
    <3>2. e \in Database
      BY <2>2, <3>1, DatabaseUpdates DEF TypeOK
    <3>3. staging' = [staging EXCEPT ![r] = e]
      BY <2>2, <3>1 DEF TypeOK
    <3> QED
      BY <2>2, <3>2, <3>3 DEF TypeOK, CatalogType
  <2> QED
    BY <2>1, <2>2 DEF Load, Statement
<1>4. job' = [job EXCEPT ![p] = job[p]]
  BY DEF Load, Statement, TypeOK
<1> QED
  BY <1>1, <1>2, <1>3, <1>4, StatementType
     DEF Load, Statement, TypeOK, LocalsOK, RestoreLabels, RenameLabels

\* Steps that only look at the catalog.
LEMMA ReopenRecoveredType ==
  ASSUME TypeOK, NEW p \in Procs, ReopenRecovered(p)
  PROVE  TypeOK'
<1> DEFINE next == IF job[p].orphans = {} THEN Recovered(p) ELSE "drop orphans"
<1>1. next \in {"check", "unlock", "drop orphans"}
      /\ (next = "check" => job[p].kind = "restore")
  BY DEF Recovered
<1>2. /\ ControlType'
      /\ pc'[p] \in {next, "unlock"}
      /\ \A q \in Procs \ {p} : pc'[q] = pc[q]
  <2>1. next \in Labels /\ "unlock" \in Labels
    BY <1>1 DEF Labels
  <2>2. Executed(p, next, "unlock") \/ Refused(p, "unlock") \/ Failed(p, "unlock")
    BY DEF ReopenRecovered, Statement
  <2> HIDE DEF next
  <2> QED
    BY <2>1, <2>2, ControlKept
<1>3. target(p) \in Targets /\ job[p] \in Job
  BY DEF TypeOK, LocalsOK, ReopenRecovered
<1>4. CatalogType'
  BY <1>3, UnchangedCatalogType, SetAllowConnectionsType
     DEF ReopenRecovered, Statement
<1>5. job' = [job EXCEPT ![p] = job[p]]
  BY DEF ReopenRecovered, Statement, SetAllowConnections, TypeOK
<1>6. /\ pc'[p] \in RestoreLabels => job[p].kind = "restore"
      /\ pc'[p] \notin RenameLabels
  BY <1>1, <1>2 DEF RestoreLabels, RenameLabels
<1>7. pc[p] # "idle" /\ UNCHANGED <<lock, nextId, now>>
  BY DEF ReopenRecovered, Statement
<1> HIDE DEF next
<1> QED
  BY <1>2, <1>3, <1>4, <1>5, <1>6, <1>7, StatementType

LEMMA NewestBackupStamp ==
  ASSUME TypeOK, NEW t \in Targets
  PROVE  /\ NewestBackup(Backups(t)) \in Stamp \cup {NoStamp}
         /\ Backups(t) # {} => NewestBackup(Backups(t)) \in Stamp
<1>1. Backups(t) \subseteq Stamp
  BY DEF Backups
<1>2. CASE Backups(t) = {}
  BY <1>2 DEF NewestBackup
<1>3. CASE Backups(t) # {}
  BY <1>1, <1>3, NewestBackupIsNewest DEF IsNewest
<1> QED
  BY <1>2, <1>3

LEMMA RecoverType ==
  ASSUME TypeOK, NEW p \in Procs, Recover(p)
  PROVE  TypeOK'
<1> DEFINE t == target(p)
           state == Classify(live[t] # NoDb, Backups(t), Staging)
           next == CASE state = StateIdle            -> Recovered(p)
                     [] state = StateOrphanedStaging -> "drop orphans"
                     [] state = StateCrashedMidSwap  -> "rename back"
                     [] state = StateMissing         -> "unlock"
           j == [job[p] EXCEPT !.orphans = Staging,
                               !.stamp = NewestBackup(Backups(t))]
<1>1. t \in Targets /\ job[p] \in Job /\ pc[p] = "recover"
  BY DEF TypeOK, LocalsOK, Recover
<1>2. /\ next \in {"check", "unlock", "drop orphans", "rename back"}
      /\ next = "check" => job[p].kind = "restore"
      /\ next = "rename back" => Backups(t) # {}
  BY DEF Recovered, Classify, StateIdle, StateOrphanedStaging,
         StateCrashedMidSwap, StateMissing
<1>3. Statement(p, TRUE,
        /\ job' = [job EXCEPT ![p].orphans = Staging,
                              ![p].stamp = NewestBackup(Backups(t))]
        /\ UNCHANGED catalog,
        next, "unlock")
  BY DEF Recover
<1> HIDE DEF next
<1>4. /\ ControlType'
      /\ pc'[p] \in {next, "unlock"}
      /\ \A q \in Procs \ {p} : pc'[q] = pc[q]
      /\ CatalogType'
      /\ UNCHANGED <<lock, nextId, now>>
  <2>1. next \in Labels
    BY <1>2 DEF Labels
  <2>2. "unlock" \in Labels
    BY DEF Labels
  <2> QED
    BY <1>3, <2>1, <2>2, ControlKept, UnchangedCatalogType DEF Statement
<1>5. j \in Job /\ j.target = job[p].target /\ j.kind = job[p].kind
      /\ j.staging = job[p].staging /\ j.stamp = NewestBackup(Backups(t))
  <2>1. Staging \in SUBSET Restores
    BY DEF Staging
  <2>2. j \in Job
    BY <1>1, <2>1, NewestBackupStamp, JobUpdates
  <2> QED
    BY <1>1, <2>2 DEF Job
<1>6. CASE job' = [job EXCEPT ![p] = j] /\ pc'[p] = next
  <2>1. /\ pc'[p] \in RestoreLabels => job[p].kind = "restore"
        /\ pc'[p] \in RenameLabels => j.stamp \in Stamp
    BY <1>1, <1>2, <1>5, <1>6, NewestBackupStamp DEF RestoreLabels, RenameLabels
  <2> HIDE DEF j
  <2> QED
    BY <1>1, <1>4, <1>5, <1>6, <2>1, StatementType
<1>7. CASE job' = [job EXCEPT ![p] = j] /\ pc'[p] = "unlock"
  <2>1. pc'[p] \notin RestoreLabels /\ pc'[p] \notin RenameLabels
    BY <1>7 DEF RestoreLabels, RenameLabels
  <2> HIDE DEF j
  <2> QED
    BY <1>1, <1>4, <1>5, <1>7, <2>1, StatementType
<1>8. CASE UNCHANGED job /\ pc'[p] = "unlock"
  <2>1. pc'[p] \notin RestoreLabels /\ pc'[p] \notin RenameLabels
    BY <1>8 DEF RestoreLabels, RenameLabels
  <2>2. job' = [job EXCEPT ![p] = job[p]]
    BY <1>8 DEF TypeOK
  <2> QED
    BY <1>1, <1>4, <2>1, <2>2, StatementType
<1> QED
  <2>1. job' = [job EXCEPT ![p] = j] \/ (UNCHANGED job /\ pc'[p] = "unlock")
    BY <1>3, <1>1 DEF Statement, Refused, Failed, Goto, TypeOK
  <2> QED
    BY <1>4, <1>6, <1>7, <1>8, <2>1

LEMMA DropOrphanType ==
  ASSUME TypeOK, NEW p \in Procs, DropOrphan(p)
  PROVE  TypeOK'
<1>1. target(p) \in Targets /\ job[p] \in Job /\ pc[p] = "drop orphans"
  BY DEF TypeOK, LocalsOK, DropOrphan
<1>2. job[p].orphans \subseteq Restores
  BY <1>1 DEF Job
<1>3. PICK r \in job[p].orphans :
        Statement(p, TRUE,
          /\ staging' = [staging EXCEPT ![r] = NoDb]
          /\ job' = [job EXCEPT ![p].orphans = @ \ {r}]
          /\ UNCHANGED <<live, backups, last>>,
          IF job[p].orphans = {r} THEN Recovered(p) ELSE "drop orphans",
          "unlock")
  BY DEF DropOrphan
<1> DEFINE next == IF job[p].orphans = {r} THEN Recovered(p) ELSE "drop orphans"
           j == [job[p] EXCEPT !.orphans = job[p].orphans \ {r}]
<1>4. /\ next \in {"check", "unlock", "drop orphans"}
      /\ next = "check" => job[p].kind = "restore"
  BY DEF Recovered
<1>5. /\ Executed(p, next, "unlock") \/ Refused(p, "unlock") \/ Failed(p, "unlock")
      /\ UNCHANGED <<lock, nextId, now>>
      /\ \/ /\ staging' = [staging EXCEPT ![r] = NoDb]
            /\ job' = [job EXCEPT ![p] = j]
            /\ UNCHANGED <<live, backups, last>>
         \/ UNCHANGED <<catalog, job>>
  BY <1>1, <1>3 DEF Statement, TypeOK
<1> HIDE DEF next
<1>6. /\ ControlType'
      /\ pc'[p] \in {next, "unlock"}
      /\ \A q \in Procs \ {p} : pc'[q] = pc[q]
  <2>1. next \in Labels /\ "unlock" \in Labels
    BY <1>4 DEF Labels
  <2> QED
    BY <1>5, <2>1, ControlKept
<1>7. CatalogType'
  BY <1>2, <1>5, UnchangedCatalogType DEF TypeOK, CatalogType
<1>8. j \in Job /\ j.target = job[p].target /\ j.kind = job[p].kind
      /\ j.staging = job[p].staging
  <2>1. j \in Job
    BY <1>1, <1>2, JobUpdates
  <2> QED
    BY <1>1, <2>1 DEF Job
<1>9. /\ pc'[p] \in RestoreLabels => job[p].kind = "restore"
      /\ pc'[p] \notin RenameLabels
  BY <1>4, <1>6 DEF RestoreLabels, RenameLabels
<1>10. CASE job' = [job EXCEPT ![p] = j]
  <2> HIDE DEF j
  <2> QED
    BY <1>1, <1>5, <1>6, <1>7, <1>8, <1>9, <1>10, StatementType
<1>11. CASE UNCHANGED job
  <2>1. job' = [job EXCEPT ![p] = job[p]]
    BY <1>11 DEF TypeOK
  <2> QED
    BY <1>1, <1>5, <1>6, <1>7, <1>9, <2>1, StatementType
<1> QED
  BY <1>5, <1>10, <1>11

LEMMA CheckType ==
  ASSUME TypeOK, NEW p \in Procs, Check(p)
  PROVE  TypeOK'
<1> DEFINE t == target(p)
           doomed == ExpiredBackups(Backups(t), Retention)
           idle == Classify(live[t] # NoDb, Backups(t), Staging) = StateIdle
           next == IF ~idle THEN "unlock"
                   ELSE IF doomed = {} THEN "create" ELSE "expire"
           j == [job[p] EXCEPT !.doomed = doomed]
<1>1. /\ t \in Targets /\ job[p] \in Job /\ pc[p] = "check"
      /\ job[p].kind = "restore"
  BY DEF TypeOK, LocalsOK, Check, RestoreLabels
<1>2. next \in {"unlock", "create", "expire"}
  OBVIOUS
<1>3. /\ Executed(p, next, "unlock") \/ Refused(p, "unlock") \/ Failed(p, "unlock")
      /\ UNCHANGED <<lock, nextId, now>>
      /\ UNCHANGED catalog
      /\ job' = [job EXCEPT ![p] = j] \/ UNCHANGED job
  BY <1>1 DEF Check, Statement, TypeOK
<1> HIDE DEF next
<1>4. /\ ControlType'
      /\ pc'[p] \in {next, "unlock"}
      /\ \A q \in Procs \ {p} : pc'[q] = pc[q]
  <2>1. next \in Labels /\ "unlock" \in Labels
    BY <1>2 DEF Labels
  <2> QED
    BY <1>3, <2>1, ControlKept
<1>5. CatalogType'
  BY <1>3, UnchangedCatalogType
<1>6. j \in Job /\ j.target = job[p].target /\ j.kind = job[p].kind
      /\ j.staging = job[p].staging
  <2>1. doomed \in SUBSET Stamp
    BY DEF ExpiredBackups, Backups
  <2>2. j \in Job
    BY <1>1, <2>1, JobUpdates
  <2> QED
    BY <1>1, <2>2 DEF Job
<1>7. pc'[p] \notin RenameLabels
  BY <1>2, <1>4 DEF RenameLabels
<1>8. CASE job' = [job EXCEPT ![p] = j]
  <2> HIDE DEF j
  <2> QED
    BY <1>1, <1>3, <1>4, <1>5, <1>6, <1>7, <1>8, StatementType
<1>9. CASE UNCHANGED job
  <2>1. job' = [job EXCEPT ![p] = job[p]]
    BY <1>9 DEF TypeOK
  <2> QED
    BY <1>1, <1>3, <1>4, <1>5, <1>7, <2>1, StatementType
<1> QED
  BY <1>3, <1>8, <1>9

LEMMA ExpireType ==
  ASSUME TypeOK, NEW p \in Procs, Expire(p)
  PROVE  TypeOK'
<1> DEFINE oldest == OldestBackup(job[p].doomed)
           next == IF job[p].doomed = {oldest} THEN "create" ELSE "expire"
           j == [job[p] EXCEPT !.doomed = job[p].doomed \ {oldest}]
<1>1. /\ target(p) \in Targets /\ job[p] \in Job /\ pc[p] = "expire"
      /\ job[p].kind = "restore"
  BY DEF TypeOK, LocalsOK, Expire, RestoreLabels
<1>2. next \in {"create", "expire"}
  OBVIOUS
<1>3. /\ Executed(p, next, "unlock") \/ Refused(p, "unlock") \/ Failed(p, "unlock")
      /\ UNCHANGED <<lock, nextId, now>>
      /\ \/ /\ backups' = [backups EXCEPT ![target(p)][oldest] = NoDb]
            /\ job' = [job EXCEPT ![p] = j]
            /\ UNCHANGED <<live, staging, last>>
         \/ UNCHANGED <<catalog, job>>
  BY <1>1 DEF Expire, Statement, TypeOK
<1>4. j \in Job /\ j.target = job[p].target /\ j.kind = job[p].kind
      /\ j.staging = job[p].staging
  <2>1. job[p].doomed \ {oldest} \in SUBSET Stamp
    BY <1>1 DEF Job
  <2>2. j \in Job
    BY <1>1, <2>1, JobUpdates
  <2> QED
    BY <1>1, <2>2 DEF Job
<1> HIDE DEF next, oldest, j
<1>5. /\ ControlType'
      /\ pc'[p] \in {next, "unlock"}
      /\ \A q \in Procs \ {p} : pc'[q] = pc[q]
  <2>1. next \in Labels /\ "unlock" \in Labels
    BY <1>2 DEF Labels
  <2> QED
    BY <1>3, <2>1, ControlKept
<1>6. CatalogType'
  <2>1. CASE backups' = [backups EXCEPT ![target(p)][oldest] = NoDb]
             /\ UNCHANGED <<live, staging, last>>
    <3>1. [backups[target(p)] EXCEPT ![oldest] = NoDb]
            \in [Stamp -> Database \cup {NoDb}]
      BY <1>1 DEF TypeOK
    <3> QED
      BY <2>1, <3>1 DEF TypeOK, CatalogType
  <2> QED
    BY <1>3, <2>1, UnchangedCatalogType
<1>7. pc'[p] \notin RenameLabels
  BY <1>2, <1>5 DEF RenameLabels
<1>8. CASE job' = [job EXCEPT ![p] = j]
  BY <1>1, <1>3, <1>4, <1>5, <1>6, <1>7, <1>8, StatementType
<1>9. CASE UNCHANGED job
  <2>1. job' = [job EXCEPT ![p] = job[p]]
    BY <1>9 DEF TypeOK
  <2> QED
    BY <1>1, <1>3, <1>5, <1>6, <1>7, <2>1, StatementType
<1> QED
  BY <1>3, <1>8, <1>9

LEMMA PickBackupNameType ==
  ASSUME TypeOK, NEW p \in Procs, PickBackupName(p)
  PROVE  TypeOK'
<1> DEFINE s == UniqueBackupName(Backups(target(p)), now)
           j == [job[p] EXCEPT !.stamp = s]
<1>1. /\ target(p) \in Targets /\ job[p] \in Job /\ pc[p] = "name"
      /\ job[p].kind = "restore"
  BY DEF TypeOK, LocalsOK, PickBackupName, RestoreLabels
<1>2. s \in Stamp \cup {NoStamp}
  BY UniqueBackupNameFree DEF TypeOK
<1>3. /\ \/ Executed(p, "rename out", "cleanup")
         \/ Refused(p, "cleanup")
         \/ Failed(p, "cleanup")
      /\ UNCHANGED <<lock, nextId, now>>
      /\ UNCHANGED catalog
      /\ \/ job' = [job EXCEPT ![p] = j] /\ s # NoStamp
         \/ UNCHANGED job /\ pc'[p] = "cleanup"
  BY <1>1 DEF PickBackupName, Statement, TypeOK, Refused, Failed, Goto
<1>4. j \in Job /\ j.target = job[p].target /\ j.kind = job[p].kind
      /\ j.staging = job[p].staging /\ j.stamp = s
  <2>1. j \in Job
    BY <1>1, <1>2, JobUpdates
  <2> QED
    BY <1>1, <2>1 DEF Job
<1> HIDE DEF s, j
<1>5. /\ ControlType'
      /\ pc'[p] \in {"rename out", "cleanup"}
      /\ \A q \in Procs \ {p} : pc'[q] = pc[q]
  BY <1>3, ControlKept DEF Labels
<1>6. CatalogType'
  BY <1>3, UnchangedCatalogType
<1>7. CASE job' = [job EXCEPT ![p] = j] /\ s # NoStamp
  <2>1. j.stamp \in Stamp
    BY <1>2, <1>4, <1>7
  <2> QED
    BY <1>1, <1>3, <1>4, <1>5, <1>6, <1>7, <2>1, StatementType
<1>8. CASE UNCHANGED job /\ pc'[p] = "cleanup"
  <2>1. job' = [job EXCEPT ![p] = job[p]]
    BY <1>8 DEF TypeOK
  <2>2. pc'[p] \notin RenameLabels
    BY <1>8 DEF RenameLabels
  <2> QED
    BY <1>1, <1>3, <1>5, <1>6, <2>1, <2>2, StatementType
<1> QED
  BY <1>3, <1>7, <1>8

LEMMA CleanupType ==
  ASSUME TypeOK, NEW p \in Procs, Cleanup(p)
  PROVE  TypeOK'
<1>1. /\ staging' \in [Restores -> Database \cup {NoDb}]
      /\ faults' \in 0 .. MaxFaults
      /\ pc' \in [Procs -> Labels]
  <2>1. staging' \in [Restores -> Database \cup {NoDb}]
    BY DEF Cleanup, TypeOK
  <2>2. faults' \in 0 .. MaxFaults
    BY BoundsAssumption DEF Cleanup, Fault, TypeOK
  <2>3. pc' \in [Procs -> Labels]
    BY DEF Cleanup, Goto, TypeOK, Labels
  <2> QED
    BY <2>1, <2>2, <2>3
<1>2. pc'[p] = "unlock" /\ \A q \in Procs \ {p} : pc'[q] = pc[q]
  BY DEF Cleanup, Goto, TypeOK
<1>3. LocalsOK'
  BY <1>2 DEF Cleanup, TypeOK, LocalsOK, target, RestoreLabels, RenameLabels
<1> QED
  BY <1>1, <1>3 DEF Cleanup, TypeOK

-----------------------------------------------------------------------------
(***************************************************************************)
(* The beginning and the end of a run, and its environment                 *)
(***************************************************************************)

LEMMA IdleJob == Idle \in Job
BY BoundsAssumption, MaxTimeAssumption DEF Idle, Job, Kinds, Second

LEMMA InitType == Init => TypeOK
<1> SUFFICES ASSUME Init PROVE TypeOK
  OBVIOUS
<1>1. Original \in Database
  BY BoundsAssumption DEF Original, Database
<1>2. /\ live \in [Targets -> Database \cup {NoDb}]
      /\ backups \in [Targets -> [Stamp -> Database \cup {NoDb}]]
      /\ staging \in [Restores -> Database \cup {NoDb}]
  BY <1>1 DEF Init
<1>3. /\ last \in [Targets -> 0 .. MaxRestores]
      /\ lock \in [Targets -> Procs \cup {NoProc}]
      /\ cancelled \in [Procs -> BOOLEAN]
      /\ nextId \in 1 .. MaxRestores + 1
      /\ now \in Second
      /\ faults \in 0 .. MaxFaults
  BY BoundsAssumption, MaxTimeAssumption DEF Init, Second
<1>4. pc \in [Procs -> Labels] /\ job \in [Procs -> Job]
  BY IdleJob DEF Init, Labels
<1>5. LocalsOK
  BY DEF Init, LocalsOK, Idle, target, RestoreLabels, RenameLabels
<1> QED
  BY <1>2, <1>3, <1>4, <1>5 DEF TypeOK

LEMMA StartType ==
  ASSUME TypeOK, NEW p \in Procs, NEW t \in Targets,
         StartRestore(p, t) \/ StartRepair(p, t)
  PROVE  TypeOK'
<1>1. CASE StartRestore(p, t)
  <2> DEFINE j == [Idle EXCEPT !.kind = "restore", !.target = t,
                               !.staging = nextId, !.since = now]
  <2>1. nextId \in Restores /\ nextId' \in 1 .. MaxRestores + 1
    BY <1>1, BoundsAssumption DEF StartRestore, TypeOK, Restores
  <2>2. j \in Job
    <3>1. nextId \in 0 .. MaxRestores /\ now \in Second
      BY <2>1, BoundsAssumption DEF TypeOK, Restores
    <3>2. "restore" \in Kinds
      BY DEF Kinds
    <3> QED
      BY <3>1, <3>2, IdleJob DEF Job
  <2>3. /\ job' = [job EXCEPT ![p] = j]
        /\ job'[p] = j
        /\ \A q \in Procs \ {p} : job'[q] = job[q]
    BY <1>1 DEF StartRestore, TypeOK
  <2>4. /\ pc' \in [Procs -> Labels] /\ pc'[p] = "recover"
        /\ \A q \in Procs \ {p} : pc'[q] = pc[q]
    BY <1>1 DEF StartRestore, Goto, TypeOK, Labels
  <2>5. j.target = t /\ j.kind = "restore" /\ j.staging \in Restores
    BY <2>1 DEF Idle
  <2> HIDE DEF j
  <2>6. LocalsOK'
    BY <2>3, <2>4, <2>5 DEF TypeOK, LocalsOK, target, RestoreLabels, RenameLabels
  <2>7. job' \in [Procs -> Job] /\ lock' \in [Targets -> Procs \cup {NoProc}]
    BY <1>1, <2>2, <2>3 DEF StartRestore, TypeOK
  <2> QED
    BY <1>1, <2>1, <2>4, <2>6, <2>7 DEF StartRestore, TypeOK, catalog
<1>2. CASE StartRepair(p, t)
  <2> DEFINE j == [Idle EXCEPT !.kind = "repair", !.target = t]
  <2>1. j \in Job
    BY IdleJob DEF Idle, Job, Kinds
  <2>2. /\ job' = [job EXCEPT ![p] = j]
        /\ job'[p] = j
        /\ \A q \in Procs \ {p} : job'[q] = job[q]
    BY <1>2 DEF StartRepair, TypeOK
  <2>3. /\ pc' \in [Procs -> Labels] /\ pc'[p] = "recover"
        /\ \A q \in Procs \ {p} : pc'[q] = pc[q]
    BY <1>2 DEF StartRepair, Goto, TypeOK, Labels
  <2>4. j.target = t /\ j.kind = "repair"
    BY DEF Idle
  <2> HIDE DEF j
  <2>5. LocalsOK'
    BY <2>2, <2>3, <2>4 DEF TypeOK, LocalsOK, target, RestoreLabels, RenameLabels
  <2>6. job' \in [Procs -> Job] /\ lock' \in [Targets -> Procs \cup {NoProc}]
    BY <1>2, <2>1, <2>2 DEF StartRepair, TypeOK
  <2> QED
    BY <1>2, <2>3, <2>5, <2>6 DEF StartRepair, TypeOK, catalog
<1> QED
  BY <1>1, <1>2

LEMMA EndType ==
  ASSUME TypeOK, NEW p \in Procs, Unlock(p) \/ Crash(p)
  PROVE  TypeOK'
<1>1. Ends(p) /\ faults' \in 0 .. MaxFaults
  BY BoundsAssumption DEF Unlock, Crash, Fault, TypeOK
<1>2. /\ job' \in [Procs -> Job] /\ job'[p] = Idle
      /\ \A q \in Procs \ {p} : job'[q] = job[q]
  BY <1>1, IdleJob DEF Ends, TypeOK
<1>3. /\ pc' \in [Procs -> Labels] /\ pc'[p] = "idle"
      /\ \A q \in Procs \ {p} : pc'[q] = pc[q]
  BY <1>1 DEF Ends, Goto, TypeOK, Labels
<1>4. LocalsOK'
  <2>1. Idle.kind # "restore"
    BY DEF Idle
  <2>2. "idle" \notin RestoreLabels /\ "idle" \notin RenameLabels
    BY DEF RestoreLabels, RenameLabels
  <2> QED
    BY <1>2, <1>3, <2>1, <2>2 DEF TypeOK, LocalsOK, target
<1>5. lock' \in [Targets -> Procs \cup {NoProc}] /\ cancelled' \in [Procs -> BOOLEAN]
  BY <1>1 DEF Ends, TypeOK
<1> QED
  BY <1>1, <1>2, <1>3, <1>4, <1>5 DEF Ends, TypeOK, catalog

LEMMA CancelType ==
  ASSUME TypeOK, NEW p \in Procs, Cancel(p)
  PROVE  TypeOK'
<1>1. faults' \in 0 .. MaxFaults /\ cancelled' \in [Procs -> BOOLEAN]
  BY BoundsAssumption DEF Cancel, Fault, TypeOK
<1> QED
  BY <1>1 DEF Cancel, TypeOK, LocalsOK, target, catalog

LEMMA ClientType ==
  ASSUME TypeOK, NEW t \in Targets, ClientConnect(t) \/ ClientDisconnect(t)
  PROVE  TypeOK'
<1>1. live[t] \in Database
  BY DEF ClientConnect, ClientDisconnect, TypeOK
<1>2. PICK b \in BOOLEAN : live' = [live EXCEPT ![t] = [live[t] EXCEPT !.busy = b]]
  BY DEF ClientConnect, ClientDisconnect
<1>3. live' \in [Targets -> Database \cup {NoDb}]
  <2>1. [live[t] EXCEPT !.busy = b] \in Database
    BY <1>1, DatabaseUpdates
  <2> QED
    BY <1>2, <2>1 DEF TypeOK
<1> QED
  BY <1>3 DEF ClientConnect, ClientDisconnect, TypeOK, LocalsOK, target

\* A session comes to a staging database, or leaves it.
StagingSession == \E r \in Restores : StagingConnect(r) \/ StagingDisconnect(r)

LEMMA StagingSessionKeeps ==
  ASSUME TypeOK, StagingSession
  PROVE  /\ UNCHANGED <<live, backups, last, lock, pc, job, cancelled, nextId, now, faults>>
         /\ staging' \in [Restores -> Database \cup {NoDb}]
         /\ \A r \in Restores :
              \/ staging'[r] = staging[r]
              \/ /\ staging[r] # NoDb /\ staging'[r] # NoDb
                 /\ staging'[r].id = staging[r].id
                 /\ staging'[r].ready = staging[r].ready
<1>1. PICK r \in Restores : StagingConnect(r) \/ StagingDisconnect(r)
  BY DEF StagingSession
<1>2. staging[r] \in Database
  BY <1>1 DEF StagingConnect, StagingDisconnect, TypeOK
<1>3. PICK b \in BOOLEAN :
        staging' = [staging EXCEPT ![r] = [staging[r] EXCEPT !.busy = b]]
  BY <1>1 DEF StagingConnect, StagingDisconnect
<1> DEFINE e == [staging[r] EXCEPT !.busy = b]
<1>4. e \in Database /\ e.id = staging[r].id /\ e.ready = staging[r].ready
  BY <1>2 DEF Database
<1>5. e # NoDb /\ staging[r] # NoDb
  BY <1>2, <1>4, NoDbAssumption
<1>6. staging' = [staging EXCEPT ![r] = e]
  BY <1>3
<1> HIDE DEF e
<1>7. UNCHANGED <<live, backups, last, lock, pc, job, cancelled, nextId, now, faults>>
  BY <1>1 DEF StagingConnect, StagingDisconnect
<1> QED
  BY <1>4, <1>5, <1>6, <1>7 DEF TypeOK

LEMMA StagingSessionType ==
  ASSUME TypeOK, StagingSession
  PROVE  TypeOK'
BY StagingSessionKeeps DEF TypeOK, LocalsOK, target

LEMMA ClockType ==
  ASSUME TypeOK, Tick \/ StepBack
  PROVE  TypeOK'
<1>1. now' \in Second
  BY MaxTimeAssumption DEF Tick, StepBack, TypeOK, Second
<1> QED
  BY <1>1 DEF Tick, StepBack, TypeOK, LocalsOK, target, catalog

LEMMA NextType == TypeOK /\ [Next]_vars => TypeOK'
<1> SUFFICES ASSUME TypeOK, [Next]_vars
             PROVE  TypeOK'
  OBVIOUS
<1>1. CASE \E p \in Procs, t \in Targets : StartRestore(p, t) \/ StartRepair(p, t)
  BY <1>1, StartType
<1>2. CASE \E p \in Procs : Step(p)
  BY <1>2, RecoverType, RenameBackType, ReopenRecoveredType, DropOrphanType,
     CheckType, ExpireType, CreateType, LoadType, CloseType, TerminateType,
     TerminateStagingType, PickBackupNameType, RenameOutType, RenameInType,
     RollbackType, ReopenUntouchedType, ReopenSwappedType, CleanupType, EndType
     DEF Step
<1>3. CASE \E p \in Procs : Crash(p) \/ Cancel(p)
  BY <1>3, EndType, CancelType
<1>4. CASE \E t \in Targets : ClientConnect(t) \/ ClientDisconnect(t)
  BY <1>4, ClientType
<1>5. CASE Tick \/ StepBack
  BY <1>5, ClockType
<1>6. CASE StagingSession
  BY <1>6, StagingSessionType
<1>7. CASE UNCHANGED vars
  BY <1>7 DEF vars, TypeOK, LocalsOK, target
<1> QED
  BY <1>1, <1>2, <1>3, <1>4, <1>5, <1>6, <1>7 DEF Next, StagingSession

\* The variables of a restore hold values of their types, and every run has
\* the locals that its next statement uses: no statement is built from a
\* name that was not chosen (Run, Swap, Recover).
THEOREM TypeCorrect == Spec => []TypeOK
BY InitType, NextType, PTL DEF Spec

=============================================================================
