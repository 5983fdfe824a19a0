-------------------------- MODULE TempGrant_proofs --------------------------
(***************************************************************************)
(* What is borrowed is given back: without faults a membership is there    *)
(* only while a run that has the lock of its database is to revoke it, for *)
(* any number of restores, roles and databases.                            *)
(***************************************************************************)
EXTENDS TempGrant, TLAPS

Job == [step : {"idle", "check", "lock", "grant", "act", "release", "revoke"},
        whole : BOOLEAN, check : SUBSET Roles, needed : SUBSET Roles,
        held : SUBSET Roles, refused : SUBSET Roles, todo : SUBSET Roles,
        stopped : BOOLEAN]

\* Only a signal stops a run.
Undisturbed == faults = 0 => \A r \in Runs : ~job[r].stopped

Inv == TypeOK /\ Undisturbed /\ GivenBack

LEMMA NoJobFacts ==
  /\ NoJob \in Job /\ NoJob.step = "idle" /\ NoJob.held = {} /\ ~NoJob.stopped
  BY DEF NoJob, Job

LEMMA JobFacts ==
  ASSUME Inv, NEW r \in Runs
  PROVE  /\ job[r] \in Job /\ DatabaseOf[r] \in Databases
         /\ job[r].step \in {"grant", "revoke"} => lock[DatabaseOf[r]] = r
         /\ job[r].held # {} => lock[DatabaseOf[r]] = r
         /\ job[r].step \in {"idle", "check", "lock"} =>
              lock[DatabaseOf[r]] # r /\ job[r].held = {}
         /\ faults = 0 => ~job[r].stopped
<1>1. job[r] \in Job /\ DatabaseOf[r] \in Databases
  BY RunsAssumption DEF Inv, TypeOK, Job
<1>2. LockHeld
  BY DEF Inv, TypeOK
<1> QED
  BY <1>1, <1>2 DEF LockHeld, Inv, Undisturbed

LEMMA FaultCounts ==
  ASSUME Inv
  PROVE  /\ Fault => faults' \in 0 .. MaxFaults /\ faults' # 0
         /\ UNCHANGED faults => faults' \in 0 .. MaxFaults
<1>1. faults \in 0 .. MaxFaults /\ MaxFaults \in Nat
  BY FaultsAssumption DEF Inv, TypeOK
<1> QED
  BY <1>1 DEF Fault

\* The locals of one run change, and with them what was granted and the locks:
\* the invariant holds if this run has the lock when it must, and neither
\* grants what it does not hold nor stops holding what is granted.
LEMMA MoveKeeps ==
  ASSUME Inv, NEW r \in Runs, NEW new \in Job, Set(r, new), UNCHANGED standing,
         UNCHANGED faults \/ Fault,
         granted' \subseteq Roles \ Reserved,
         lock' \in [Databases -> Runs \cup {Nobody}],
         \A q \in Runs \ {r} : lock'[DatabaseOf[q]] = q <=> lock[DatabaseOf[q]] = q,
         new.step \in {"grant", "revoke"} \/ new.held # {} => lock'[DatabaseOf[r]] = r,
         new.step \in {"idle", "check", "lock"} => lock'[DatabaseOf[r]] # r,
         faults' = 0 => /\ ~new.stopped
                        /\ granted' \ granted \subseteq new.held
                        /\ (job[r].held \ new.held) \cap granted' = {}
  PROVE  Inv'
<1>1. job' = [job EXCEPT ![r] = new] /\ job \in [Runs -> Job]
  BY DEF Set, Inv, TypeOK, Job
<1>2. job' \in [Runs -> Job] /\ job'[r] = new /\ \A q \in Runs \ {r} : job'[q] = job[q]
  BY <1>1
<1>3. LockHeld'
  BY <1>2 DEF LockHeld, Inv, TypeOK
<1>4. TypeOK'
  BY <1>2, <1>3, FaultCounts DEF Inv, TypeOK, Job
<1>5. faults' = 0 => faults = 0
  BY FaultCounts
<1>6. Undisturbed'
  BY <1>2, <1>5 DEF Undisturbed, Inv
<1>7. GivenBack'
  <2> SUFFICES ASSUME faults' = 0, NEW o \in granted'
               PROVE  \E q \in Runs : o \in job'[q].held
    BY DEF GivenBack
  <2>1. CASE o \notin granted
    BY <2>1, <1>2
  <2>2. CASE o \in granted
    <3>1. PICK q \in Runs : o \in job[q].held
      BY <2>2, <1>5 DEF Inv, GivenBack
    <3> QED
      BY <3>1, <1>2
  <2> QED
    BY <2>1, <2>2
<1> QED
  BY <1>4, <1>6, <1>7 DEF Inv

\* A step that touches neither grants nor locks.
LEMMA QuietKeeps ==
  ASSUME Inv, NEW r \in Runs, NEW new \in Job, Set(r, new),
         UNCHANGED <<standing, granted, lock>>, UNCHANGED faults \/ Fault,
         new.held = job[r].held, faults' = 0 => ~new.stopped,
         new.step \in {"grant", "revoke"} => lock[DatabaseOf[r]] = r,
         new.step \in {"idle", "check", "lock"} => lock[DatabaseOf[r]] # r
  PROVE  Inv'
<1>1. granted \subseteq Roles \ Reserved /\ lock \in [Databases -> Runs \cup {Nobody}]
  BY DEF Inv, TypeOK
<1>2. new.held # {} => lock[DatabaseOf[r]] = r
  BY JobFacts
<1> QED
  BY <1>1, <1>2, MoveKeeps

-----------------------------------------------------------------------------
(***************************************************************************)
(* The steps of a run                                                      *)
(***************************************************************************)

LEMMA BeginKeeps ==
  ASSUME Inv, NEW r \in Runs, BeginGrants(r) \/ BeginPublication(r) PROVE Inv'
<1>1. PICK whole \in BOOLEAN, owners \in SUBSET Roles : Begin(r, whole, owners)
  BY DEF BeginGrants, BeginPublication
<1> DEFINE new == [NoJob EXCEPT !.step = "check", !.whole = whole,
                                !.check = owners, !.todo = owners]
<1>2. /\ new \in Job /\ new.step = "check" /\ new.held = {} /\ ~new.stopped
  BY DEF NoJob, Job
<1>3. /\ Set(r, new) /\ UNCHANGED <<standing, granted, lock, faults>>
      /\ job[r].step = "idle"
  BY <1>1 DEF Begin
<1>4. job[r].held = {} /\ lock[DatabaseOf[r]] # r
  BY <1>3, JobFacts
<1> HIDE DEF new
<1> QED
  BY <1>2, <1>3, <1>4, QuietKeeps

LEMMA CheckKeeps == ASSUME Inv, NEW r \in Runs, Check(r) \/ Checked(r) PROVE Inv'
<1>1. /\ job[r].step = "check" /\ job[r] \in Job /\ job[r].held = {}
      /\ lock[DatabaseOf[r]] # r
      /\ faults = 0 => ~job[r].stopped
      /\ UNCHANGED <<standing, granted, lock>>
  BY JobFacts DEF Check, Checked
<1>2. CASE Check(r)
  <2>1. PICK o \in job[r].check :
          \/ /\ Sent(r)
             /\ Set(r, [job[r] EXCEPT
                  !.check = @ \ {o},
                  !.needed = IF HasPrivileges(o) THEN @ ELSE @ \cup {o}])
          \/ Fails(r) /\ Set(r, NoJob)
    BY <1>2 DEF Check
  <2> DEFINE new == [job[r] EXCEPT
                  !.check = @ \ {o},
                  !.needed = IF HasPrivileges(o) THEN @ ELSE @ \cup {o}]
  <2>2. new \in Job /\ new.step = "check" /\ new.held = {} /\ new.stopped = job[r].stopped
    BY <1>1 DEF Job
  <2>3. CASE Sent(r) /\ Set(r, new)
    <3> HIDE DEF new
    <3> QED
      BY <1>1, <2>2, <2>3, QuietKeeps DEF Sent
  <2>4. CASE Fails(r) /\ Set(r, NoJob)
    BY <1>1, <2>4, NoJobFacts, QuietKeeps DEF Fails
  <2> QED
    BY <2>1, <2>3, <2>4
<1>3. CASE Checked(r)
  <2> DEFINE new == [job[r] EXCEPT !.step = IF job[r].needed = {} THEN "act" ELSE "lock"]
  <2>1. /\ new \in Job /\ new.step \in {"act", "lock"} /\ new.held = {}
        /\ new.stopped = job[r].stopped
    BY <1>1 DEF Job
  <2>2. Set(r, new) /\ UNCHANGED faults
    BY <1>3 DEF Checked
  <2> HIDE DEF new
  <2> QED
    BY <1>1, <2>1, <2>2, QuietKeeps
<1> QED
  BY <1>2, <1>3

LEMMA LockKeeps == ASSUME Inv, NEW r \in Runs, Lock(r) PROVE Inv'
<1>1. /\ job[r].step = "lock" /\ job[r] \in Job /\ job[r].held = {}
      /\ lock[DatabaseOf[r]] # r /\ DatabaseOf[r] \in Databases
      /\ faults = 0 => ~job[r].stopped
      /\ UNCHANGED <<standing, granted>>
  BY JobFacts DEF Lock
<1> DEFINE to(s) == [job[r] EXCEPT !.step = s]
<1>2. \A s \in {"grant", "release"} :
        to(s) \in Job /\ to(s).step = s /\ to(s).held = {} /\ to(s).stopped = job[r].stopped
  BY <1>1 DEF Job
<1>3. CASE /\ Sent(r) /\ lock[DatabaseOf[r]] = Nobody
           /\ lock' = [lock EXCEPT ![DatabaseOf[r]] = r] /\ Set(r, to("grant"))
  <2>1. lock \in [Databases -> Runs \cup {Nobody}] /\ granted \subseteq Roles \ Reserved
    BY DEF Inv, TypeOK
  <2>2. /\ lock' \in [Databases -> Runs \cup {Nobody}] /\ lock'[DatabaseOf[r]] = r
        /\ \A q \in Runs \ {r} : lock'[DatabaseOf[q]] = q <=> lock[DatabaseOf[q]] = q
    BY <1>1, <1>3, <2>1, RunsAssumption
  <2> HIDE DEF to
  <2> QED
    BY <1>1, <1>2, <1>3, <2>1, <2>2, MoveKeeps DEF Sent
<1>4. CASE Fails(r) /\ Set(r, to("release")) /\ UNCHANGED lock
  <2> HIDE DEF to
  <2> QED
    BY <1>1, <1>2, <1>4, FaultCounts, QuietKeeps DEF Fails
<1> QED
  BY <1>3, <1>4 DEF Lock

\* Without faults what is granted is also held.
LEMMA GrantKeeps == ASSUME Inv, NEW r \in Runs, Grant(r) PROVE Inv'
<1>1. /\ job[r].step = "grant" /\ job[r] \in Job /\ lock[DatabaseOf[r]] = r
      /\ faults = 0 => ~job[r].stopped
      /\ UNCHANGED <<standing, lock>>
  BY JobFacts DEF Grant
<1>2. lock \in [Databases -> Runs \cup {Nobody}] /\ granted \subseteq Roles \ Reserved
  BY DEF Inv, TypeOK
<1>3. PICK o \in job[r].needed :
       \/ /\ Sent(r)
          /\ IF o \in Reserved
               THEN /\ Set(r, [job[r] EXCEPT !.needed = @ \ {o},
                                             !.refused = @ \cup {o}])
                    /\ UNCHANGED granted
               ELSE /\ Set(r, [job[r] EXCEPT !.needed = @ \ {o},
                                             !.held = @ \cup {o}])
                    /\ granted' = granted \cup {o}
       \/ /\ Fails(r)
          /\ Set(r, [job[r] EXCEPT !.step = "release"])
          /\ \/ ~job[r].stopped /\ granted' = granted \cup ({o} \ Reserved)
             \/ UNCHANGED granted
  BY DEF Grant
<1> DEFINE refused == [job[r] EXCEPT !.needed = @ \ {o}, !.refused = @ \cup {o}]
           borrowed == [job[r] EXCEPT !.needed = @ \ {o}, !.held = @ \cup {o}]
           failed == [job[r] EXCEPT !.step = "release"]
<1>4. o \in Roles
  BY <1>1, <1>3 DEF Job
<1>5. /\ refused \in Job /\ refused.step = "grant" /\ refused.held = job[r].held
      /\ borrowed \in Job /\ borrowed.step = "grant" /\ borrowed.held = job[r].held \cup {o}
      /\ failed \in Job /\ failed.step = "release" /\ failed.held = job[r].held
      /\ refused.stopped = job[r].stopped /\ borrowed.stopped = job[r].stopped
      /\ failed.stopped = job[r].stopped
  BY <1>1, <1>4 DEF Job
<1>6. CASE Sent(r) /\ o \in Reserved /\ Set(r, refused) /\ UNCHANGED granted
  <2> HIDE DEF refused, borrowed, failed
  <2> QED
    BY <1>1, <1>5, <1>6, QuietKeeps DEF Sent
<1>7. CASE /\ Sent(r) /\ o \notin Reserved /\ Set(r, borrowed)
           /\ granted' = granted \cup {o}
  <2> HIDE DEF refused, borrowed, failed
  <2> QED
    BY <1>1, <1>2, <1>4, <1>5, <1>7, MoveKeeps DEF Sent
<1>8. CASE /\ Fails(r) /\ Set(r, failed)
           /\ \/ ~job[r].stopped /\ granted' = granted \cup ({o} \ Reserved)
              \/ UNCHANGED granted
  <2> HIDE DEF refused, borrowed, failed
  <2>1. faults' # 0
    BY <1>1, <1>8, FaultCounts DEF Fails
  <2>2. granted' \subseteq Roles \ Reserved
    BY <1>2, <1>4, <1>8
  <2>3. job[r].held # {} => lock[DatabaseOf[r]] = r
    BY <1>1
  <2> QED
    BY <1>1, <1>2, <1>5, <1>8, <2>1, <2>2, <2>3, MoveKeeps DEF Fails
<1> QED
  BY <1>3, <1>6, <1>7, <1>8

LEMMA ActKeeps ==
  ASSUME Inv, NEW r \in Runs, Granted(r) \/ Act(r) \/ Acted(r) PROVE Inv'
<1>1. PICK s \in {"act", "release"}, t \in SUBSET Roles :
        Set(r, [job[r] EXCEPT !.step = s, !.todo = t])
  <2>1. job[r] \in Job
    BY JobFacts
  <2>2. \A s : [job[r] EXCEPT !.step = s] = [job[r] EXCEPT !.step = s, !.todo = job[r].todo]
    BY <2>1 DEF Job
  <2>3. \A t : [job[r] EXCEPT !.todo = t] = [job[r] EXCEPT !.step = job[r].step, !.todo = t]
    BY <2>1 DEF Job
  <2>4. job[r].todo \in SUBSET Roles
    BY <2>1 DEF Job
  <2>5. CASE Granted(r)
    BY <2>4, <2>5 DEF Granted
  <2>6. CASE Act(r)
    BY <2>2, <2>3, <2>4, <2>6 DEF Act
  <2>7. CASE Acted(r)
    BY <2>2, <2>4, <2>7 DEF Acted
  <2> QED
    BY <2>5, <2>6, <2>7
<1> DEFINE new == [job[r] EXCEPT !.step = s, !.todo = t]
<1>2. new \in Job /\ new.step = s /\ new.held = job[r].held /\ new.stopped = job[r].stopped
  <2>1. job[r] \in Job
    BY JobFacts
  <2> HIDE DEF Inv
  <2> QED
    BY <1>1, <2>1 DEF Job
<1>3. UNCHANGED <<standing, granted, lock>> /\ (UNCHANGED faults \/ Fault)
  BY DEF Granted, Act, Acted, Sent, Fails
<1>4. faults' = 0 => ~job[r].stopped
  BY <1>3, JobFacts, FaultCounts
<1> HIDE DEF new
<1> QED
  BY <1>1, <1>2, <1>3, <1>4, QuietKeeps DEF new

\* Without faults a role is passed over only if it is not granted.
LEMMA ReleaseKeeps == ASSUME Inv, NEW r \in Runs, ReleaseCheck(r) PROVE Inv'
<1>1. /\ job[r].step = "release" /\ job[r] \in Job
      /\ job[r].held # {} => lock[DatabaseOf[r]] = r
      /\ faults = 0 => ~job[r].stopped
      /\ UNCHANGED <<standing, granted, lock>>
  BY JobFacts DEF ReleaseCheck
<1>2. lock \in [Databases -> Runs \cup {Nobody}] /\ granted \subseteq Roles \ Reserved
  BY DEF Inv, TypeOK
<1>3. PICK o \in job[r].held :
       \/ /\ Sent(r)
          /\ Set(r, IF HasPrivileges(o)
                      THEN [job[r] EXCEPT !.step = "revoke", !.needed = {o}]
                      ELSE [job[r] EXCEPT !.held = @ \ {o}])
       \/ Fails(r) /\ Set(r, [job[r] EXCEPT !.held = @ \ {o}])
  BY DEF ReleaseCheck
<1> DEFINE back == [job[r] EXCEPT !.step = "revoke", !.needed = {o}]
           gone == [job[r] EXCEPT !.held = @ \ {o}]
<1>4. /\ back \in Job /\ back.step = "revoke" /\ back.held = job[r].held
      /\ gone \in Job /\ gone.step = "release" /\ gone.held = job[r].held \ {o}
      /\ back.stopped = job[r].stopped /\ gone.stopped = job[r].stopped
  BY <1>1 DEF Job
<1>5. CASE Sent(r) /\ Set(r, back)
  <2> HIDE DEF back, gone
  <2> QED
    BY <1>1, <1>3, <1>4, <1>5, QuietKeeps DEF Sent
<1>6. CASE /\ (Sent(r) /\ ~HasPrivileges(o)) \/ Fails(r)
           /\ Set(r, gone)
  <2> HIDE DEF back, gone
  <2>1. faults' = 0 => o \notin granted
    BY <1>1, <1>6, FaultCounts DEF Fails, HasPrivileges
  <2>2. faults' = 0 => ~job[r].stopped
    BY <1>1, <1>6, FaultCounts DEF Fails, Sent
  <2> QED
    BY <1>1, <1>2, <1>4, <1>6, <2>1, <2>2, MoveKeeps DEF Sent, Fails
<1> QED
  BY <1>3, <1>5, <1>6

LEMMA RevokeKeeps == ASSUME Inv, NEW r \in Runs, Revoke(r) PROVE Inv'
<1> DEFINE new == [job[r] EXCEPT !.step = "release", !.held = @ \ job[r].needed]
<1>1. /\ job[r].step = "revoke" /\ job[r] \in Job /\ lock[DatabaseOf[r]] = r
      /\ faults = 0 => ~job[r].stopped
      /\ UNCHANGED <<standing, lock>> /\ Set(r, new)
  BY JobFacts DEF Revoke
<1>2. lock \in [Databases -> Runs \cup {Nobody}] /\ granted \subseteq Roles \ Reserved
  BY DEF Inv, TypeOK
<1>3. /\ new \in Job /\ new.step = "release" /\ new.held = job[r].held \ job[r].needed
      /\ new.stopped = job[r].stopped
  BY <1>1 DEF Job
<1>4. granted' = granted \ job[r].needed \/ (granted' = granted /\ faults' # 0)
  BY <1>1, FaultCounts DEF Revoke, Fails
<1>5. UNCHANGED faults \/ Fault
  BY DEF Revoke, Sent, Fails
<1>6. faults' = 0 => ~job[r].stopped
  BY <1>1, <1>5, FaultCounts
<1>7. granted' \subseteq Roles \ Reserved
  BY <1>2, <1>4
<1> HIDE DEF new
<1> QED
  BY <1>1, <1>2, <1>3, <1>4, <1>5, <1>6, <1>7, MoveKeeps

\* Only a crash leaves something behind.
LEMMA OverKeeps == ASSUME Inv, NEW r \in Runs, Released(r) \/ Crash(r) PROVE Inv'
<1>1. /\ Over(r) /\ (UNCHANGED faults \/ Fault)
      /\ faults' = 0 => job[r].held = {}
  BY FaultCounts DEF Released, Crash
<1>2. /\ lock \in [Databases -> Runs \cup {Nobody}] /\ granted \subseteq Roles \ Reserved
      /\ \A q \in Runs : DatabaseOf[q] \in Databases /\ q # Nobody
  BY RunsAssumption DEF Inv, TypeOK
<1>3. /\ lock' \in [Databases -> Runs \cup {Nobody}] /\ lock'[DatabaseOf[r]] # r
      /\ \A q \in Runs \ {r} : lock'[DatabaseOf[q]] = q <=> lock[DatabaseOf[q]] = q
  BY <1>1, <1>2 DEF Over
<1>4. Set(r, NoJob) /\ UNCHANGED <<standing, granted>>
  BY <1>1 DEF Over
<1> QED
  BY <1>1, <1>2, <1>3, <1>4, NoJobFacts, MoveKeeps

LEMMA SignalKeeps == ASSUME Inv, NEW r \in Runs, Signal(r) PROVE Inv'
<1> DEFINE new == [job[r] EXCEPT !.stopped = TRUE]
<1>1. new \in Job /\ new.step = job[r].step /\ new.held = job[r].held
  <2>1. job[r] \in Job
    BY JobFacts
  <2> QED
    BY <2>1 DEF Job
<1>2. Set(r, new) /\ UNCHANGED <<standing, granted, lock>> /\ Fault /\ faults' # 0
  <2>1. Set(r, new) /\ UNCHANGED <<standing, granted, lock>> /\ Fault
    BY DEF Signal
  <2> QED
    BY <2>1, FaultCounts
<1> HIDE DEF new
<1> QED
  BY <1>1, <1>2, JobFacts, QuietKeeps

-----------------------------------------------------------------------------
LEMMA InvInit == Init => Inv
<1> SUFFICES ASSUME Init PROVE Inv
  OBVIOUS
<1>1. job \in [Runs -> Job] /\ \A r \in Runs : job[r] = NoJob
  BY NoJobFacts DEF Init
<1>2. LockHeld
  BY <1>1, NoJobFacts, RunsAssumption DEF Init, LockHeld
<1>3. TypeOK
  BY <1>1, <1>2, FaultsAssumption DEF Init, TypeOK, Job
<1>4. Undisturbed /\ GivenBack
  BY <1>1, NoJobFacts DEF Init, Undisturbed, GivenBack
<1> QED
  BY <1>3, <1>4 DEF Inv

LEMMA InvNext == Inv /\ [Next]_vars => Inv'
<1> SUFFICES ASSUME Inv, [Next]_vars PROVE Inv'
  OBVIOUS
<1>1. CASE UNCHANGED vars
  BY <1>1 DEF vars, Inv, TypeOK, LockHeld, Undisturbed, GivenBack
<1>2. CASE Next
  BY <1>2, BeginKeeps, CheckKeeps, LockKeeps, GrantKeeps, ActKeeps, ReleaseKeeps,
     RevokeKeeps, OverKeeps, SignalKeeps DEF Next, Step
<1> QED
  BY <1>1, <1>2

LEMMA BorrowInv == Spec => []Inv
  BY InvInit, InvNext, PTL DEF Spec

\* Every variable has its type, and a run that grants or has something to give
\* back holds the lock of its database (restore/tempgrant.go).
THEOREM BorrowTypes == Spec => []TypeOK
<1>1. Inv => TypeOK
  BY DEF Inv
<1> QED
  BY <1>1, BorrowInv, PTL

\* Without faults nothing stays borrowed: every membership that was granted is
\* on the list of a run that is still to revoke it, also where two runs borrow
\* the same role under the locks of different databases.
THEOREM BorrowsAreGivenBack == Spec => []GivenBack
<1>1. Inv => GivenBack
  BY DEF Inv
<1> QED
  BY <1>1, BorrowInv, PTL
=============================================================================
