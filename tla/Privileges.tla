----------------------------- MODULE Privileges -----------------------------
(***************************************************************************)
(* What the objects of the staging database grant to whom: the rules that  *)
(* CarryDefaults replays before anything is created, the objects that      *)
(* pg_restore and the migration create and drop, and the grants and rules  *)
(* that Carry replays afterwards (restore/privileges.go).  The target      *)
(* stays in service, and its grants may change until Carry reads them.     *)
(*                                                                         *)
(* An ACL is what each grantee holds of one privilege: nothing, the        *)
(* privilege, or the privilege WITH GRANT OPTION.  A GRANT only adds, so   *)
(* the order of the statements makes no difference; and what postgres      *)
(* grants by itself to PUBLIC stays, also where the target had revoked it. *)
(***************************************************************************)
EXTENDS Integers

CONSTANTS
  Objects,      \* schemas, relations, columns and routines
  Kinds,        \* the kinds of objects that rules tell apart
  KindOf,       \* the kind of each object
  SchemaOf,     \* the schema of each object, a schema's being itself
  Holders,      \* the schema and the relation that an object is in
  Template,     \* the objects that CREATE DATABASE copies from the template
  InTemplate,   \* what is granted on these
  Roles,        \* owners of objects and roles of rules
  Grantees,     \* the roles, and whoever else is granted a privilege
  Public,       \* the grantee PUBLIC
  PublicKinds,  \* the kinds that PUBLIC is granted on, unless a rule revokes it
  Creators,     \* the roles as which pg_restore and the migration create
  Unreachable,  \* roles that the user of the restore cannot act for
  PgDatabaseOwner,  \* the owner of what is in the template
  DatabaseOwner,    \* the role that it stands for
  NoRole,       \* the owner of nothing
  Global,       \* the scope of a rule for every schema
  Acls,         \* the ACLs that the target may have
  Rules         \* the rules that it may have, by role, scope and kind

Acl == [Grantees -> 0 .. 2]
None == [g \in Grantees |-> 0]
Keys == Roles \X (Objects \cup {Global}) \X Kinds

ASSUME ObjectsAssumption ==
  /\ KindOf \in [Objects -> Kinds] /\ SchemaOf \in [Objects -> Objects]
  /\ Holders \in [Objects -> SUBSET Objects] /\ Template \subseteq Objects
  /\ PublicKinds \subseteq Kinds /\ Global \notin Objects
  /\ \A o \in Objects :
       /\ SchemaOf[o] \in Holders[o] \cup {o} /\ o \notin Holders[o]
       /\ \A h \in Holders[o] : Holders[h] \subseteq Holders[o]
  /\ \A o \in Template : Holders[o] \subseteq Template
ASSUME RolesAssumption ==
  /\ Roles \subseteq Grantees /\ NoRole \notin Grantees
  /\ Public \in Grantees \ Roles
  /\ Creators \subseteq Roles /\ {PgDatabaseOwner, DatabaseOwner} \subseteq Roles
ASSUME AclsAssumption ==
  /\ Acls \subseteq Acl /\ None \in Acls
  /\ InTemplate \in Acl /\ InTemplate[PgDatabaseOwner] = 0
ASSUME RulesAssumption == Rules \subseteq [Keys -> Acl]

VARIABLES
  phase,   \* "begin", "build", "done" or "failed"
  target,  \* the objects, their ACLs and the rules of the target
  staging  \* the same, with the owners, of the staging database

vars == <<phase, target, staging>>

Join(a, b) == [g \in Grantees |-> IF a[g] > b[g] THEN a[g] ELSE b[g]]

\* What postgres itself grants on a new object of a kind: EXECUTE on a routine
\* to PUBLIC, and nothing on a table.
BuiltIn(kind) ==
  [g \in Grantees |-> IF g = Public /\ kind \in PublicKinds THEN 1 ELSE 0]

\* The rules that are in force where nobody has altered any.  A rule for every
\* schema takes the place of what is built in, and may grant less.
Unaltered == [k \in Keys |-> IF k[2] = Global THEN BuiltIn(k[3]) ELSE None]

Init ==
  /\ phase = "begin"
  /\ \E have \in {h \in SUBSET Objects : \A o \in h : Holders[o] \subseteq h},
        acl \in [Objects -> Acls], rules \in Rules :
       /\ \A o \in Objects \ have : acl[o] = None
       /\ target = [have |-> have, acl |-> acl, rules |-> rules]
  /\ staging = [have |-> Template,
                owner |-> [o \in Objects |-> IF o \in Template THEN PgDatabaseOwner
                                                               ELSE NoRole],
                acl |-> [o \in Objects |-> IF o \in Template THEN InTemplate ELSE None],
                rules |-> Unaltered]

-----------------------------------------------------------------------------
\* Slip: the option is lost.
SlipOptionLost(acl, owner) ==
  [g \in Grantees |-> IF g = owner \/ acl[g] = 0 THEN 0 ELSE 1]

\* Slip: the entry of the owner is granted as well.
SlipOwnEntry(acl, owner) == acl

\* The GRANTs that an ACL amounts to; the owner's own entry is skipped.
Grants(acl, owner) == [g \in Grantees |-> IF g = owner THEN 0 ELSE acl[g]]

\* A statement needs the privileges of the owner of its object, or of the role
\* of its rule; what the user cannot act for is dropped.
Reachable(role) ==
  (IF role = PgDatabaseOwner THEN DatabaseOwner ELSE role) \notin Unreachable

\* Slip: the schema-scoped rules are only applied by hand.
SlipRulesByHand(global) ==
  [k \in Keys |->
     IF global /\ k[2] = Global /\ Reachable(k[1])
       THEN Join(staging.rules[k], Grants(target.rules[k], k[1]))
       ELSE staging.rules[k]]

\* The rules of staging after the global ones, or the others, were replayed.
Replayed(global) ==
  [k \in Keys |->
     IF (k[2] = Global) = global /\ Reachable(k[1])
       THEN Join(staging.rules[k], Grants(target.rules[k], k[1]))
       ELSE staging.rules[k]]

\* What postgres grants on an object at its creation: a rule for its schema
\* adds to the one for every schema.
AtCreation(rules, role, o) ==
  Join(rules[<<role, Global, KindOf[o]>>], rules[<<role, SchemaOf[o], KindOf[o]>>])

\* Slip: the global rules are skipped, and not the scoped ones.
SlipNoDefaults ==
  /\ phase = "begin"
  /\ phase' = "build"
  /\ UNCHANGED <<target, staging>>

CarryDefaults ==
  /\ phase = "begin"
  /\ phase' = "build"
  /\ staging' = [staging EXCEPT !.rules = Replayed(TRUE)]
  /\ UNCHANGED target

\* pg_restore or the migration creates an object; what is created in a
\* relation has its owner.
Create(o) ==
  /\ phase = "build"
  /\ o \notin staging.have
  /\ Holders[o] \subseteq staging.have
  /\ \E role \in Creators :
       /\ \A h \in Holders[o] \ {SchemaOf[o]} : role = staging.owner[h]
       /\ staging' = [staging EXCEPT
            !.have = @ \cup {o},
            !.owner[o] = role,
            !.acl[o] = AtCreation(staging.rules, role, o)]
  /\ UNCHANGED <<phase, target>>

\* The migration drops an object and what is in it.
Drop(o) ==
  LET gone == {x \in Objects : x = o \/ o \in Holders[x]} IN
  /\ phase = "build"
  /\ o \in staging.have
  /\ staging' = [staging EXCEPT
       !.have = @ \ gone,
       !.owner = [x \in Objects |-> IF x \in gone THEN NoRole ELSE @[x]],
       !.acl = [x \in Objects |-> IF x \in gone THEN None ELSE @[x]]]
  /\ UNCHANGED <<phase, target>>

\* Someone grants on, or revokes from, an object of the target.
Regrant(o) ==
  /\ phase \in {"begin", "build"}
  /\ o \in target.have
  /\ \E acl \in Acls : target' = [target EXCEPT !.acl[o] = acl]
  /\ UNCHANGED <<phase, staging>>

\* Slip: the rule of the schema is applied to what both databases have.
SlipRuleWidens(o) ==
  LET role == staging.owner[o]
      rule == Grants(target.rules[<<role, SchemaOf[o], KindOf[o]>>], role) IN
  IF ~Reachable(role) THEN None
  ELSE IF o \in target.have THEN Join(Grants(target.acl[o], role), rule)
  ELSE rule

\* What Carry grants on an object of staging: what the target grants on it or,
\* if a migration created it, the rule of its schema applied by hand.
Carries(o) ==
  LET role == staging.owner[o] IN
  IF ~Reachable(role) THEN None
  ELSE IF o \in target.have THEN Grants(target.acl[o], role)
  ELSE Grants(target.rules[<<role, SchemaOf[o], KindOf[o]>>], role)

\* A rule for a schema that staging does not have is an error of the server.
RuleRefused(k) ==
  /\ k[2] \notin staging.have \cup {Global}
  /\ Reachable(k[1])
  /\ Grants(target.rules[k], k[1]) # None

Carry ==
  /\ phase = "build"
  /\ \A k \in Keys : ~RuleRefused(k)
  /\ phase' = "done"
  /\ staging' = [staging EXCEPT
       !.acl = [o \in Objects |->
                  IF o \in staging.have THEN Join(@[o], Carries(o)) ELSE None],
       !.rules = Replayed(FALSE)]
  /\ UNCHANGED target

\* The server refuses a rule, or a statement or program of the run fails: the
\* run ends before the swap, and drops staging.
Fail ==
  /\ phase \in {"begin", "build"}
  /\ phase' = "failed"
  /\ UNCHANGED <<target, staging>>

Next ==
  \/ CarryDefaults \/ Carry \/ Fail
  \/ \E o \in Objects : Create(o) \/ Drop(o) \/ Regrant(o)

Spec == Init /\ [][Next]_vars

-----------------------------------------------------------------------------
\* The parts of a database: what is in it is in what holds it, what it does
\* not have grants nothing.
DatabaseOK(d) ==
  /\ d.have \in SUBSET Objects
  /\ d.acl \in [Objects -> Acl]
  /\ d.rules \in [Keys -> Acl]
  /\ \A o \in d.have : Holders[o] \subseteq d.have
  /\ \A o \in Objects \ d.have : d.acl[o] = None

\* Only what exists has an owner, and neither an owner nor the role of a rule
\* is granted anything explicitly in staging.
StagingOK ==
  /\ staging.owner \in [Objects -> Roles \cup {NoRole}]
  /\ \A o \in Objects : staging.owner[o] = NoRole <=> o \notin staging.have
  /\ \A o \in staging.have : staging.acl[o][staging.owner[o]] = 0
  /\ \A k \in Keys : staging.rules[k][k[1]] = 0

\* The variables hold values of their types, and the two databases are well
\* formed.
TypeOK ==
  /\ phase \in {"begin", "build", "done", "failed"}
  /\ target = [have |-> target.have, acl |-> target.acl, rules |-> target.rules]
  /\ staging = [have |-> staging.have, owner |-> staging.owner,
                acl |-> staging.acl, rules |-> staging.rules]
  /\ DatabaseOK(target)
  /\ DatabaseOK(staging)
  /\ StagingOK

Both == target.have \cap staging.have

\* Whoever held a privilege on an object of the target holds it on the object
\* of the restored database, with its grant option, unless the restore cannot
\* act for its owner.
Carried ==
  phase = "done" =>
    \A o \in Both : Reachable(staging.owner[o]) =>
      \A g \in Grantees \ {staging.owner[o]} :
        staging.acl[o][g] >= target.acl[o][g]

\* "Applying the rule to them as well would widen a deliberately narrower
\* grant", and "Grants are copied, revocations are not": on an object of both
\* databases nobody holds more than in the target, or than it came into being
\* with, by the target's global rule for its owner, by what postgres grants to
\* PUBLIC or in the template.
NothingWidened ==
  phase = "done" =>
    \A o \in Both, g \in Grantees :
      \/ staging.acl[o][g] <= target.acl[o][g]
      \/ staging.acl[o][g] <= target.rules[<<staging.owner[o], Global, KindOf[o]>>][g]
      \/ staging.acl[o][g] <= BuiltIn(KindOf[o])[g]
      \/ o \in Template /\ staging.acl[o][g] <= InTemplate[g]

\* "An object that exists only in staging gets what the target's default
\* privileges would have given it at creation", whichever of the two carries
\* brings which rule.  What the target's rules revoke of what postgres grants
\* comes back, and is all that does.
NewAsDefault ==
  phase = "done" =>
    \A o \in staging.have \ (target.have \cup Template) :
      Reachable(staging.owner[o]) =>
        \A g \in Grantees \ {staging.owner[o]} :
          staging.acl[o][g] =
            Join(BuiltIn(KindOf[o]), AtCreation(target.rules, staging.owner[o], o))[g]

\* "Objects created after the restore keep working": whatever a role creates
\* in the restored database is granted as it would be in the target, and what
\* postgres grants to PUBLIC, revoked in the target or not.
CreatedLater ==
  phase = "done" =>
    \A o \in Objects, role \in Roles : Reachable(role) =>
      \A g \in Grantees \ {role} :
        AtCreation(staging.rules, role, o)[g] =
          Join(BuiltIn(KindOf[o]), AtCreation(target.rules, role, o))[g]
=============================================================================
