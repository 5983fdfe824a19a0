----------------------------- MODULE TempGrant -----------------------------
(***************************************************************************)
(* Borrowing the privileges of other roles (restore/tempgrant.go) for the  *)
(* statements of Privileges.apply (restore/privileges.go) and of           *)
(* Publications.create (restore/publications.go), by restores of different *)
(* targets that run at the same time as the same user.                     *)
(*                                                                         *)
(* Memberships are one catalog of the whole instance.  The advisory lock   *)
(* meant to serialise the borrowers is taken in the database a restore is  *)
(* connected to, and an advisory lock is local to its database.            *)
(***************************************************************************)
EXTENDS FiniteSets, Integers

CONSTANTS
  Runs,        \* restores, each connected to a staging database
  Databases,   \* the staging databases
  DatabaseOf,  \* the staging database of each run
  Roles,       \* owners of objects, other than the user itself
  Superusers,  \* roles that the catalog shows to be superusers
  Reserved,    \* roles that the server refuses to grant
  Nobody,      \* nobody holds the lock
  MaxFaults    \* bound on failed statements, signals and crashes

ASSUME RolesAssumption == Superusers \subseteq Reserved /\ Reserved \subseteq Roles
ASSUME RunsAssumption == DatabaseOf \in [Runs -> Databases] /\ Nobody \notin Runs
ASSUME FaultsAssumption == MaxFaults \in Nat

VARIABLES
  standing,  \* the roles whose privileges the user has for good
  granted,   \* the memberships granted by borrowers
  lock,      \* the holder of the lock in each database
  job,       \* the locals of each run
  faults     \* faults so far

vars == <<standing, granted, lock, job, faults>>

\* whole: one statement needs all the owners (a publication) rather than one
\* statement each (grants); check, needed: the owners still to be checked and
\* those to borrow, or the one to give back; held, refused: what the server
\* granted and refused; todo: the owners whose statements are still to run.
NoJob == [step |-> "idle", whole |-> FALSE, check |-> {}, needed |-> {},
          held |-> {}, refused |-> {}, todo |-> {}, stopped |-> FALSE]

Init ==
  /\ standing \in SUBSET (Roles \ Reserved)
  /\ granted = {}
  /\ lock = [d \in Databases |-> Nobody]
  /\ job = [r \in Runs |-> NoJob]
  /\ faults = 0

\* pg_has_role(user, role, 'USAGE')
HasPrivileges(o) == o \in standing \cup granted

Fault == faults < MaxFaults /\ faults' = faults + 1

Set(r, new) == job' = [job EXCEPT ![r] = new]

\* A statement with the context of the run fails when the context is done or
\* by a fault.
Sent(r) == ~job[r].stopped /\ UNCHANGED faults
Fails(r) == (job[r].stopped /\ UNCHANGED faults) \/ Fault

-----------------------------------------------------------------------------
Begin(r, whole, owners) ==
  /\ job[r].step = "idle"
  /\ Set(r, [NoJob EXCEPT !.step = "check", !.whole = whole,
                          !.check = owners, !.todo = owners])
  /\ UNCHANGED <<standing, granted, lock, faults>>

\* A plan with statements for some owners; of the superusers among them the
\* statements are dropped before anything is borrowed.
BeginGrants(r) ==
  \E owners \in SUBSET Roles \ {{}} : Begin(r, FALSE, owners \ Superusers)

\* CREATE PUBLICATION, by the owners of the database and of the tables in it.
BeginPublication(r) ==
  \E owners \in SUBSET Roles \ {{}} : Begin(r, TRUE, owners)

\* The first loop of borrowRoles, one query for each role.
Check(r) ==
  /\ job[r].step = "check"
  /\ \E o \in job[r].check :
       \/ /\ Sent(r)
          /\ Set(r, [job[r] EXCEPT
               !.check = @ \ {o},
               !.needed = IF HasPrivileges(o) THEN @ ELSE @ \cup {o}])
       \/ Fails(r) /\ Set(r, NoJob)
  /\ UNCHANGED <<standing, granted, lock>>

\* Slip: nothing is locked.
SlipGrantsUnlocked(r) ==
  /\ job[r].step = "check"
  /\ job[r].check = {}
  /\ Set(r, [job[r] EXCEPT !.step = IF job[r].needed = {} THEN "act" ELSE "grant"])
  /\ UNCHANGED <<standing, granted, lock, faults>>

\* Only what has to be borrowed is worth the lock.
Checked(r) ==
  /\ job[r].step = "check"
  /\ job[r].check = {}
  /\ Set(r, [job[r] EXCEPT !.step = IF job[r].needed = {} THEN "act" ELSE "lock"])
  /\ UNCHANGED <<standing, granted, lock, faults>>

\* lockRole, in a transaction of a connection kept until the release.
Lock(r) ==
  /\ job[r].step = "lock"
  /\ \/ /\ Sent(r)
        /\ lock[DatabaseOf[r]] = Nobody
        /\ lock' = [lock EXCEPT ![DatabaseOf[r]] = r]
        /\ Set(r, [job[r] EXCEPT !.step = "grant"])
     \/ Fails(r) /\ Set(r, [job[r] EXCEPT !.step = "release"]) /\ UNCHANGED lock
  /\ UNCHANGED <<standing, granted>>

\* Slip: every role is locked and granted on its own.
SlipLocksEachRole(r) ==
  /\ job[r].step = "grant"
  /\ \E o \in job[r].needed :
       /\ granted' = granted \cup {o}
       /\ Set(r, [job[r] EXCEPT !.needed = @ \ {o}, !.held = @ \cup {o},
                    !.step = IF job[r].needed = {o} THEN "act" ELSE "lock"])
  /\ UNCHANGED <<standing, lock, faults>>

\* GRANT, with a statement on any connection of the pool.  Granting again what
\* is granted is no error.  A role that the server refuses is recorded; any
\* other failure, whether or not the membership was granted, ends the borrow.
Grant(r) ==
  /\ job[r].step = "grant"
  /\ \E o \in job[r].needed :
       \/ /\ Sent(r)
          /\ IF o \in Reserved
               THEN /\ Set(r, [job[r] EXCEPT !.needed = @ \ {o},
                                             !.refused = @ \cup {o}])
                    /\ UNCHANGED granted
               ELSE /\ Set(r, [job[r] EXCEPT !.needed = @ \ {o},
                                             !.held = @ \cup {o}])
                    /\ granted' = granted \cup {o}
       \/ /\ Fails(r)
          /\ Set(r, [job[r] EXCEPT !.step = "release"])
          /\ \/ ~job[r].stopped /\ granted' = granted \cup ({o} \ Reserved)
             \/ UNCHANGED granted
  /\ UNCHANGED <<standing, lock>>

\* What was refused costs a plan its statements, and a publication itself.
Granted(r) ==
  /\ job[r].step = "grant"
  /\ job[r].needed = {}
  /\ Set(r, [job[r] EXCEPT
       !.step = IF job[r].whole /\ job[r].refused # {} THEN "release" ELSE "act",
       !.todo = @ \ job[r].refused])
  /\ UNCHANGED <<standing, granted, lock, faults>>

\* A statement needs the privileges of its owner, a publication those of all.
\* An error ends the loop.
Act(r) ==
  LET x == job[r] IN
  /\ x.step = "act"
  /\ \E o \in x.todo :
       LET needs == IF x.whole THEN x.todo ELSE {o} IN
       \/ /\ Sent(r)
          /\ Set(r, IF \A n \in needs : HasPrivileges(n)
                      THEN [x EXCEPT !.todo = @ \ needs]
                      ELSE [x EXCEPT !.step = "release"])
       \/ Fails(r) /\ Set(r, [x EXCEPT !.step = "release"])
  /\ UNCHANGED <<standing, granted, lock>>

Acted(r) ==
  /\ job[r].step = "act"
  /\ job[r].todo = {}
  /\ Set(r, [job[r] EXCEPT !.step = "release"])
  /\ UNCHANGED <<standing, granted, lock, faults>>

\* Slip: a membership is given back only by a run whose statements succeeded.
SlipKeepsAfterError(r) ==
  /\ job[r].step = "release"
  /\ \E o \in job[r].held :
       /\ Set(r, [job[r] EXCEPT !.held = @ \ {o}])
       /\ granted' = IF job[r].todo = {} THEN granted \ {o} ELSE granted
  /\ UNCHANGED <<standing, lock, faults>>

\* The query of release: a role the user no longer has is passed over, and so
\* is one for which the query fails.
ReleaseCheck(r) ==
  /\ job[r].step = "release"
  /\ \E o \in job[r].held :
       \/ /\ Sent(r)
          /\ Set(r, IF HasPrivileges(o)
                      THEN [job[r] EXCEPT !.step = "revoke", !.needed = {o}]
                      ELSE [job[r] EXCEPT !.held = @ \ {o}])
       \/ Fails(r) /\ Set(r, [job[r] EXCEPT !.held = @ \ {o}])
  /\ UNCHANGED <<standing, granted, lock>>

\* REVOKE; its failure is logged.
Revoke(r) ==
  /\ job[r].step = "revoke"
  /\ \/ Sent(r) /\ granted' = granted \ job[r].needed
     \/ /\ Fails(r)
        /\ \/ ~job[r].stopped /\ granted' = granted \ job[r].needed
           \/ UNCHANGED granted
  /\ Set(r, [job[r] EXCEPT !.step = "release", !.held = @ \ job[r].needed])
  /\ UNCHANGED <<standing, lock>>

\* The transaction ends and the lock with it, and the connection is returned.
Over(r) ==
  /\ lock' = [d \in Databases |-> IF lock[d] = r THEN Nobody ELSE lock[d]]
  /\ Set(r, NoJob)
  /\ UNCHANGED <<standing, granted>>

Released(r) ==
  /\ job[r].step = "release"
  /\ job[r].held = {}
  /\ Over(r)
  /\ UNCHANGED faults

Crash(r) == job[r].step # "idle" /\ Fault /\ Over(r)

Signal(r) ==
  /\ job[r].step # "idle"
  /\ ~job[r].stopped
  /\ Fault
  /\ Set(r, [job[r] EXCEPT !.stopped = TRUE])
  /\ UNCHANGED <<standing, granted, lock>>

Step(r) ==
  \/ Check(r) \/ Checked(r) \/ Lock(r) \/ Grant(r) \/ Granted(r)
  \/ Act(r) \/ Acted(r) \/ ReleaseCheck(r) \/ Revoke(r) \/ Released(r)

Next ==
  \E r \in Runs :
    BeginGrants(r) \/ BeginPublication(r) \/ Step(r) \/ Crash(r) \/ Signal(r)

Spec == Init /\ [][Next]_vars

\* A run that is not killed goes on.
FairSpec == Spec /\ \A r \in Runs : WF_vars(Step(r))

-----------------------------------------------------------------------------
\* A run that grants, or has something to give back, has the lock; one that
\* has not asked for it yet has not.
LockHeld ==
  \A r \in Runs :
    /\ job[r].step \in {"grant", "revoke"} \/ job[r].held # {}
         => lock[DatabaseOf[r]] = r
    /\ job[r].step \in {"idle", "check", "lock"} => lock[DatabaseOf[r]] # r

\* The variables hold values of their types, and the lock is where the locals
\* of the runs say.
TypeOK ==
  /\ standing \in SUBSET (Roles \ Reserved)
  /\ granted \in SUBSET (Roles \ Reserved)
  /\ lock \in [Databases -> Runs \cup {Nobody}]
  /\ job \in [Runs -> [step : {"idle", "check", "lock", "grant", "act",
                               "release", "revoke"},
                       whole : BOOLEAN, check : SUBSET Roles,
                       needed : SUBSET Roles, held : SUBSET Roles,
                       refused : SUBSET Roles, todo : SUBSET Roles,
                       stopped : BOOLEAN]]
  /\ faults \in 0 .. MaxFaults
  /\ LockHeld

\* Without faults, a membership is there only while some run that was granted
\* it has not given it back: nothing stays borrowed, however the runs overlap
\* and whichever of their statements are denied.
GivenBack ==
  faults = 0 => \A o \in granted : \E r \in Runs : o \in job[r].held

\* No run waits for ever: not for the lock, and not for itself.
CarryEnds == \A r \in Runs : job[r].step # "idle" ~> job[r].step = "idle"

\* A run "borrows the privileges of other roles for the length of one
\* statement": it has them until its statements have run.
PrivilegesLast ==
  \A r \in Runs : job[r].step = "act" => \A o \in job[r].todo : HasPrivileges(o)
=============================================================================
