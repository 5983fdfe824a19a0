------------------------- MODULE Privileges_proofs -------------------------
(***************************************************************************)
(* What the carrying of the privileges, of the settings of the database    *)
(* and of its publications achieves, whatever the target grants and        *)
(* whatever is created and dropped in staging.                             *)
(***************************************************************************)
EXTENDS Carryover, TLAPS

\* Joining two ACLs gives each grantee the larger of what they give it.
LEMMA JoinIsAcl ==
  ASSUME NEW a \in Acl, NEW b \in Acl
  PROVE  /\ Join(a, b) \in Acl
         /\ \A g \in Grantees : /\ Join(a, b)[g] \in {a[g], b[g]}
                                /\ Join(a, b)[g] >= a[g] /\ Join(a, b)[g] >= b[g]
                                /\ a[g] = 0 => Join(a, b)[g] = b[g]
                                /\ b[g] = 0 => Join(a, b)[g] = a[g]
  BY DEF Acl, Join

\* The empty ACL grants nothing.
LEMMA NoneIsAcl == None \in Acl /\ \A g \in Grantees : None[g] = 0
  BY DEF Acl, None

\* The GRANTs of an ACL are the ACL without the owner's entry.
LEMMA GrantsIsAcl ==
  ASSUME NEW a \in Acl, NEW owner
  PROVE  /\ Grants(a, owner) \in Acl
         /\ \A g \in Grantees : Grants(a, owner)[g] = IF g = owner THEN 0 ELSE a[g]
  BY DEF Acl, Grants

\* What postgres grants on its own is an ACL, in which no role has an entry.
LEMMA BuiltInIsAcl ==
  ASSUME NEW kind
  PROVE  /\ BuiltIn(kind) \in Acl
         /\ \A g \in Grantees : BuiltIn(kind)[g] \in 0 .. 1
         /\ \A role \in Roles : BuiltIn(kind)[role] = 0
  BY RolesAssumption DEF BuiltIn, Acl

LEMMA UnalteredRules ==
  /\ Unaltered \in [Keys -> Acl]
  /\ \A k \in Keys : Unaltered[k][k[1]] = 0
<1> SUFFICES ASSUME NEW k \in Keys PROVE Unaltered[k] \in Acl /\ Unaltered[k][k[1]] = 0
  BY DEF Unaltered
<1>1. k[1] \in Roles /\ k[1] \in Grantees
  BY RolesAssumption DEF Keys
<1> QED
  BY <1>1, BuiltInIsAcl, NoneIsAcl DEF Unaltered

\* The keys of the rules for an object.
LEMMA RuleKeysOf ==
  ASSUME NEW role \in Roles, NEW o \in Objects
  PROVE  /\ <<role, Global, KindOf[o]>> \in Keys
         /\ <<role, SchemaOf[o], KindOf[o]>> \in Keys
         /\ SchemaOf[o] # Global
  BY ObjectsAssumption DEF Keys

\* What rules grant on a new object is an ACL.
LEMMA AtCreationIsAcl ==
  ASSUME NEW rules \in [Keys -> Acl], NEW role \in Roles, NEW o \in Objects
  PROVE  /\ AtCreation(rules, role, o) \in Acl
         /\ rules[<<role, Global, KindOf[o]>>] \in Acl
         /\ rules[<<role, SchemaOf[o], KindOf[o]>>] \in Acl
  BY RuleKeysOf, JoinIsAcl DEF AtCreation

-----------------------------------------------------------------------------
\* Before Carry, staging has the global rules that CarryDefaults replayed on
\* what is built in and no others, and an object has what these gave it when it
\* was created; what comes from the template was created before.
RulesSoFar ==
  phase \in {"begin", "build"} =>
    \A k \in Keys :
      staging.rules[k] =
        IF phase = "build" /\ k[2] = Global /\ Reachable(k[1])
          THEN Join(Unaltered[k], Grants(target.rules[k], k[1])) ELSE Unaltered[k]

CreatedAs(o) ==
  \/ staging.acl[o] = AtCreation(staging.rules, staging.owner[o], o)
  \/ o \in Template /\ staging.acl[o] = InTemplate

ObjectsSoFar ==
  /\ phase = "begin" => staging.have = Template /\ \A o \in Template : staging.acl[o] = InTemplate
  /\ phase = "build" => \A o \in staging.have : CreatedAs(o)

Inv == TypeOK /\ RulesSoFar /\ ObjectsSoFar

\* What Carry leaves behind.
Promises == Carried /\ NothingWidened /\ NewAsDefault /\ CreatedLater

\* The invariant holds at the start.
LEMMA InitInv == Init => Inv
<1> SUFFICES ASSUME Init PROVE Inv
  OBVIOUS
<1>1. PICK have \in SUBSET Objects, acl \in [Objects -> Acls], rules \in Rules :
        /\ \A o \in have : Holders[o] \subseteq have
        /\ \A o \in Objects \ have : acl[o] = None
        /\ target = [have |-> have, acl |-> acl, rules |-> rules]
  BY DEF Init
<1>2. DatabaseOK(target)
  BY <1>1, NoneIsAcl, AclsAssumption, RulesAssumption DEF DatabaseOK
<1>3. DatabaseOK(staging)
  BY NoneIsAcl, UnalteredRules, AclsAssumption, ObjectsAssumption DEF Init, DatabaseOK
<1>4. StagingOK
  <2>1. staging.owner \in [Objects -> Roles \cup {NoRole}]
    BY RolesAssumption DEF Init
  <2>2. \A o \in Objects : staging.owner[o] = NoRole <=> o \notin staging.have
    BY RolesAssumption DEF Init
  <2>3. \A o \in staging.have : staging.acl[o][staging.owner[o]] = 0
    BY ObjectsAssumption, AclsAssumption DEF Init
  <2>4. \A k \in Keys : staging.rules[k][k[1]] = 0
    BY UnalteredRules DEF Init
  <2> QED
    BY <2>1, <2>2, <2>3, <2>4 DEF StagingOK
<1>5. TypeOK
  BY <1>1, <1>2, <1>3, <1>4 DEF TypeOK, Init
<1>6. RulesSoFar /\ ObjectsSoFar
  BY ObjectsAssumption DEF Init, RulesSoFar, ObjectsSoFar
<1> QED
  BY <1>5, <1>6 DEF Inv

\* Replaying rules gives rules, without an entry of their own role.
LEMMA ReplayedRules ==
  ASSUME TypeOK, NEW global \in BOOLEAN
  PROVE  /\ Replayed(global) \in [Keys -> Acl]
         /\ \A k \in Keys : Replayed(global)[k][k[1]] = 0
<1> SUFFICES ASSUME NEW k \in Keys
             PROVE  Replayed(global)[k] \in Acl /\ Replayed(global)[k][k[1]] = 0
  BY DEF Replayed
<1>1. /\ target.rules[k] \in Acl /\ staging.rules[k] \in Acl
      /\ staging.rules[k][k[1]] = 0 /\ k[1] \in Grantees
  BY RolesAssumption DEF TypeOK, DatabaseOK, StagingOK, Keys
<1>2. /\ Grants(target.rules[k], k[1]) \in Acl
      /\ Grants(target.rules[k], k[1])[k[1]] = 0
  BY <1>1, GrantsIsAcl
<1>3. /\ Join(staging.rules[k], Grants(target.rules[k], k[1])) \in Acl
      /\ Join(staging.rules[k], Grants(target.rules[k], k[1]))[k[1]] = 0
  BY <1>1, <1>2, JoinIsAcl
<1> QED
  BY <1>1, <1>3 DEF Replayed

\* CarryDefaults replays exactly the global rules.
LEMMA CarryDefaultsInv == Inv /\ CarryDefaults => Inv'
<1> SUFFICES ASSUME Inv, CarryDefaults PROVE Inv'
  OBVIOUS
<1>0. TypeOK
  BY DEF Inv
<1>1. staging' = [have |-> staging.have, owner |-> staging.owner,
                  acl |-> staging.acl, rules |-> Replayed(TRUE)]
  BY <1>0 DEF TypeOK, CarryDefaults
<1>2. /\ Replayed(TRUE) \in [Keys -> Acl]
      /\ \A k \in Keys : Replayed(TRUE)[k][k[1]] = 0
  BY <1>0, ReplayedRules
<1>3. DatabaseOK(staging') /\ StagingOK'
  BY <1>0, <1>1, <1>2 DEF TypeOK, DatabaseOK, StagingOK
<1>4. TypeOK'
  BY <1>0, <1>1, <1>3 DEF TypeOK, CarryDefaults
<1>5. RulesSoFar'
  <2> SUFFICES ASSUME NEW k \in Keys
               PROVE  staging'.rules[k] =
                        IF k[2] = Global /\ Reachable(k[1])
                          THEN Join(Unaltered[k], Grants(target.rules[k], k[1]))
                          ELSE Unaltered[k]
    BY DEF RulesSoFar, CarryDefaults
  <2>1. staging.rules[k] = Unaltered[k]
    BY DEF Inv, RulesSoFar, CarryDefaults
  <2> QED
    BY <1>1, <2>1 DEF Replayed
<1>6. ObjectsSoFar'
  <2>1. phase' = "build"
    BY DEF CarryDefaults
  <2>2. staging.have = Template /\ \A o \in Template : staging.acl[o] = InTemplate
    BY DEF Inv, ObjectsSoFar, CarryDefaults
  <2> QED
    BY <1>1, <2>1, <2>2, ObjectsAssumption DEF ObjectsSoFar, CreatedAs
<1> QED
  BY <1>4, <1>5, <1>6 DEF Inv

\* A new object has what the rules so far give it.
LEMMA CreateInv == ASSUME NEW o \in Objects PROVE Inv /\ Create(o) => Inv'
<1> SUFFICES ASSUME Inv, Create(o) PROVE Inv'
  OBVIOUS
<1>0. TypeOK
  BY DEF Inv
<1>1. PICK role \in Creators :
        staging' = [staging EXCEPT !.have = @ \cup {o}, !.owner[o] = role,
                                   !.acl[o] = AtCreation(staging.rules, role, o)]
  BY DEF Create
<1>2. staging' = [have |-> staging.have \cup {o},
                  owner |-> [staging.owner EXCEPT ![o] = role],
                  acl |-> [staging.acl EXCEPT ![o] = AtCreation(staging.rules, role, o)],
                  rules |-> staging.rules]
  BY <1>0, <1>1 DEF TypeOK
<1>3. role \in Roles /\ role \in Grantees /\ role # NoRole
  BY RolesAssumption
<1>4. /\ AtCreation(staging.rules, role, o) \in Acl
      /\ AtCreation(staging.rules, role, o)[role] = 0
  <2>1. staging.rules \in [Keys -> Acl] /\ \A k \in Keys : staging.rules[k][k[1]] = 0
    BY <1>0 DEF TypeOK, DatabaseOK, StagingOK
  <2>2. /\ staging.rules[<<role, Global, KindOf[o]>>][role] = 0
        /\ staging.rules[<<role, SchemaOf[o], KindOf[o]>>][role] = 0
    BY <1>3, <2>1, RuleKeysOf
  <2> QED
    BY <1>3, <2>1, <2>2, AtCreationIsAcl, JoinIsAcl DEF AtCreation
<1>5. DatabaseOK(staging')
  BY <1>0, <1>2, <1>4 DEF TypeOK, DatabaseOK, Create
<1>6. StagingOK'
  BY <1>0, <1>2, <1>3, <1>4 DEF TypeOK, DatabaseOK, StagingOK
<1>7. TypeOK'
  BY <1>0, <1>2, <1>5, <1>6 DEF TypeOK, Create
<1>8. RulesSoFar'
  BY <1>2 DEF Inv, RulesSoFar, Create, Reachable
<1>9. ObjectsSoFar'
  <2>1. phase = "build" /\ phase' = "build"
    BY DEF Create
  <2>2. \A x \in staging.have : CreatedAs(x)
    BY <2>1 DEF Inv, ObjectsSoFar
  <2>3. ASSUME NEW x \in staging'.have PROVE CreatedAs(x)'
    <3>1. CASE x = o
      BY <1>0, <1>2, <3>1 DEF CreatedAs, TypeOK, DatabaseOK, StagingOK
    <3>2. CASE x # o
      BY <1>0, <1>2, <2>2, <3>2 DEF CreatedAs, TypeOK, DatabaseOK, StagingOK
    <3> QED
      BY <3>1, <3>2
  <2> QED
    BY <2>1, <2>3 DEF ObjectsSoFar
<1> QED
  BY <1>7, <1>8, <1>9 DEF Inv

\* Dropping an object takes what is in it along, and touches no other.
LEMMA DropInv == ASSUME NEW o \in Objects PROVE Inv /\ Drop(o) => Inv'
<1> SUFFICES ASSUME Inv, Drop(o) PROVE Inv'
  OBVIOUS
<1> DEFINE gone == {x \in Objects : x = o \/ o \in Holders[x]}
<1>0. TypeOK
  BY DEF Inv
<1>1. staging' = [have |-> staging.have \ gone,
                  owner |-> [x \in Objects |-> IF x \in gone THEN NoRole
                                                             ELSE staging.owner[x]],
                  acl |-> [x \in Objects |-> IF x \in gone THEN None
                                                           ELSE staging.acl[x]],
                  rules |-> staging.rules]
  BY <1>0 DEF TypeOK, Drop
<1>2. \A x \in staging.have \ gone : Holders[x] \subseteq staging.have \ gone
  <2> SUFFICES ASSUME NEW x \in staging.have \ gone, NEW h \in Holders[x]
               PROVE  h \in staging.have \ gone
    OBVIOUS
  <2>1. x \in Objects /\ h \in staging.have /\ h \in Objects
    BY <1>0, ObjectsAssumption DEF TypeOK, DatabaseOK
  <2>2. o \notin Holders[x]
    BY <2>1
  <2>3. o \notin Holders[h]
    BY <2>1, <2>2, ObjectsAssumption
  <2> QED
    BY <2>1, <2>2, <2>3
<1> HIDE DEF gone
<1>3. DatabaseOK(staging')
  BY <1>0, <1>1, <1>2, NoneIsAcl DEF TypeOK, DatabaseOK
<1>4. StagingOK'
  BY <1>0, <1>1 DEF TypeOK, DatabaseOK, StagingOK
<1>5. TypeOK'
  BY <1>0, <1>1, <1>3, <1>4 DEF TypeOK, Drop
<1>6. RulesSoFar'
  BY <1>1 DEF Inv, RulesSoFar, Drop
<1>7. ObjectsSoFar'
  <2>1. phase = "build" /\ phase' = "build"
    BY DEF Drop
  <2>2. ASSUME NEW x \in staging'.have PROVE CreatedAs(x)'
    <3>1. x \in staging.have /\ x \in Objects /\ x \notin gone
      BY <1>0, <1>1 DEF TypeOK, DatabaseOK
    <3>2. CreatedAs(x)
      BY <2>1, <3>1 DEF Inv, ObjectsSoFar
    <3> QED
      BY <1>1, <3>1, <3>2 DEF CreatedAs
  <2> QED
    BY <2>1, <2>2 DEF ObjectsSoFar
<1> QED
  BY <1>5, <1>6, <1>7 DEF Inv

\* A grant in the target does not disturb staging.
LEMMA RegrantInv == ASSUME NEW o \in Objects PROVE Inv /\ Regrant(o) => Inv'
<1> SUFFICES ASSUME Inv, Regrant(o) PROVE Inv'
  OBVIOUS
<1>0. TypeOK
  BY DEF Inv
<1>1. PICK acl \in Acls : target' = [target EXCEPT !.acl[o] = acl]
  BY DEF Regrant
<1>2. target' = [have |-> target.have, acl |-> [target.acl EXCEPT ![o] = acl],
                 rules |-> target.rules]
  BY <1>0, <1>1 DEF TypeOK
<1>3. DatabaseOK(target')
  BY <1>0, <1>2, AclsAssumption DEF TypeOK, DatabaseOK, Regrant
<1>4. TypeOK'
  BY <1>0, <1>2, <1>3 DEF TypeOK, DatabaseOK, StagingOK, Regrant
<1>5. RulesSoFar' /\ ObjectsSoFar'
  BY <1>2 DEF Inv, RulesSoFar, ObjectsSoFar, CreatedAs, Regrant
<1> QED
  BY <1>4, <1>5 DEF Inv

\* The fields of staging after Carry, and what Carry grants.
LEMMA CarryFields ==
  ASSUME Inv, Carry
  PROVE  /\ staging' = [have |-> staging.have, owner |-> staging.owner,
                        acl |-> [o \in Objects |->
                                   IF o \in staging.have
                                     THEN Join(staging.acl[o], Carries(o)) ELSE None],
                        rules |-> Replayed(FALSE)]
         /\ \A o \in staging.have :
              /\ o \in Objects /\ staging.owner[o] \in Roles
              /\ staging.acl[o] \in Acl /\ target.acl[o] \in Acl
              /\ Carries(o) \in Acl /\ Carries(o)[staging.owner[o]] = 0
<1>0. TypeOK
  BY DEF Inv
<1>1. staging' = [staging EXCEPT
        !.acl = [o \in Objects |-> IF o \in staging.have
                                     THEN Join(staging.acl[o], Carries(o)) ELSE None],
        !.rules = Replayed(FALSE)]
  BY DEF Carry
<1>2. ASSUME NEW o \in staging.have
      PROVE  /\ o \in Objects /\ staging.owner[o] \in Roles
             /\ staging.acl[o] \in Acl /\ target.acl[o] \in Acl
             /\ Carries(o) \in Acl /\ Carries(o)[staging.owner[o]] = 0
  <2>1. /\ o \in Objects /\ staging.owner[o] \in Roles
        /\ staging.acl[o] \in Acl /\ target.acl[o] \in Acl
        /\ target.rules \in [Keys -> Acl]
    BY <1>0 DEF TypeOK, DatabaseOK, StagingOK
  <2>2. target.rules[<<staging.owner[o], SchemaOf[o], KindOf[o]>>] \in Acl
    BY <2>1, RuleKeysOf
  <2>3. staging.owner[o] \in Grantees
    BY <2>1, RolesAssumption
  <2> QED
    BY <2>1, <2>2, <2>3, GrantsIsAcl, NoneIsAcl DEF Carries
<1> QED
  BY <1>0, <1>1, <1>2 DEF TypeOK

\* After Carry the databases are well formed.
LEMMA CarryInv == Inv /\ Carry => Inv'
<1> SUFFICES ASSUME Inv, Carry PROVE Inv'
  OBVIOUS
<1>0. TypeOK
  BY DEF Inv
<1> DEFINE acl == [o \in Objects |-> IF o \in staging.have
                                       THEN Join(staging.acl[o], Carries(o)) ELSE None]
<1>1. staging' = [have |-> staging.have, owner |-> staging.owner,
                  acl |-> acl, rules |-> Replayed(FALSE)]
  BY CarryFields
<1>2. /\ acl \in [Objects -> Acl]
      /\ \A o \in Objects \ staging.have : acl[o] = None
      /\ \A o \in staging.have : acl[o][staging.owner[o]] = 0
  <2>1. ASSUME NEW o \in staging.have
        PROVE  /\ o \in Objects
               /\ Join(staging.acl[o], Carries(o)) \in Acl
               /\ Join(staging.acl[o], Carries(o))[staging.owner[o]] = 0
    <3>1. staging.acl[o][staging.owner[o]] = 0
      BY <1>0 DEF TypeOK, StagingOK
    <3> QED
      BY <3>1, CarryFields, JoinIsAcl, RolesAssumption
  <2> QED
    BY <2>1, NoneIsAcl
<1>3. /\ Replayed(FALSE) \in [Keys -> Acl]
      /\ \A k \in Keys : Replayed(FALSE)[k][k[1]] = 0
  BY <1>0, ReplayedRules
<1> HIDE DEF acl
<1>4. DatabaseOK(staging') /\ StagingOK'
  BY <1>0, <1>1, <1>2, <1>3 DEF TypeOK, DatabaseOK, StagingOK
<1>5. TypeOK'
  BY <1>0, <1>1, <1>4 DEF TypeOK, Carry
<1>6. RulesSoFar' /\ ObjectsSoFar'
  BY DEF RulesSoFar, ObjectsSoFar, Carry
<1> QED
  BY <1>5, <1>6 DEF Inv

\* Every step preserves the invariant.
LEMMA NextInv == Inv /\ [Next]_vars => Inv'
<1> SUFFICES ASSUME Inv, [Next]_vars PROVE Inv'
  OBVIOUS
<1>1. CASE CarryDefaults
  BY <1>1, CarryDefaultsInv
<1>2. CASE Carry
  BY <1>2, CarryInv
<1>3. CASE Fail
  BY <1>3 DEF Inv, TypeOK, DatabaseOK, StagingOK, RulesSoFar, ObjectsSoFar, Fail
<1>4. CASE \E o \in Objects : Create(o) \/ Drop(o) \/ Regrant(o)
  BY <1>4, CreateInv, DropInv, RegrantInv
<1>5. CASE UNCHANGED vars
  BY <1>5 DEF Inv, TypeOK, DatabaseOK, StagingOK, RulesSoFar, ObjectsSoFar,
              CreatedAs, vars
<1> QED
  BY <1>1, <1>2, <1>3, <1>4, <1>5 DEF Next

-----------------------------------------------------------------------------
\* Before Carry: the rules for what a role creates.
LEMMA RulesBeforeCarry ==
  ASSUME Inv, phase = "build", NEW role \in Roles, NEW o \in Objects
  PROVE  /\ staging.rules[<<role, Global, KindOf[o]>>] =
              IF Reachable(role)
                THEN Join(BuiltIn(KindOf[o]),
                          Grants(target.rules[<<role, Global, KindOf[o]>>], role))
                ELSE BuiltIn(KindOf[o])
         /\ staging.rules[<<role, SchemaOf[o], KindOf[o]>>] = None
         /\ target.rules[<<role, Global, KindOf[o]>>] \in Acl
         /\ target.rules[<<role, SchemaOf[o], KindOf[o]>>] \in Acl
<1>1. target.rules \in [Keys -> Acl]
  BY DEF Inv, TypeOK, DatabaseOK
<1>2. /\ Unaltered[<<role, Global, KindOf[o]>>] = BuiltIn(KindOf[o])
      /\ Unaltered[<<role, SchemaOf[o], KindOf[o]>>] = None
  BY RuleKeysOf DEF Unaltered
<1> QED
  BY <1>1, <1>2, RuleKeysOf DEF Inv, RulesSoFar

\* Before Carry: what the rules for a role's creation give one grantee.
LEMMA GranteeBeforeCarry ==
  ASSUME Inv, phase = "build", NEW role \in Roles, NEW o \in Objects,
         NEW g \in Grantees
  PROVE  /\ staging.rules[<<role, Global, KindOf[o]>>][g] =
              IF /\ Reachable(role) /\ g # role
                 /\ target.rules[<<role, Global, KindOf[o]>>][g] > BuiltIn(KindOf[o])[g]
                THEN target.rules[<<role, Global, KindOf[o]>>][g] ELSE BuiltIn(KindOf[o])[g]
         /\ staging.rules[<<role, SchemaOf[o], KindOf[o]>>][g] = 0
         /\ target.rules[<<role, Global, KindOf[o]>>][g] \in 0 .. 2
         /\ target.rules[<<role, SchemaOf[o], KindOf[o]>>][g] \in 0 .. 2
         /\ BuiltIn(KindOf[o])[g] \in 0 .. 1
<1> DEFINE G == <<role, Global, KindOf[o]>>
           S == <<role, SchemaOf[o], KindOf[o]>>
           B == BuiltIn(KindOf[o])
<1>1. /\ staging.rules[G] = IF Reachable(role) THEN Join(B, Grants(target.rules[G], role))
                                               ELSE B
      /\ staging.rules[S] = None
      /\ target.rules[G] \in Acl /\ target.rules[S] \in Acl
  BY RulesBeforeCarry
<1>2. B[g] \in 0 .. 1 /\ B[role] = 0
  BY BuiltInIsAcl
<1> HIDE DEF G, S, B
<1>3. target.rules[G][g] \in 0 .. 2 /\ target.rules[S][g] \in 0 .. 2
  BY <1>1 DEF Acl
<1>4. Grants(target.rules[G], role)[g] = IF g = role THEN 0 ELSE target.rules[G][g]
  BY DEF Grants
<1>5. None[g] = 0
  BY DEF None
<1>6. Join(B, Grants(target.rules[G], role))[g] =
        IF g # role /\ target.rules[G][g] > B[g] THEN target.rules[G][g] ELSE B[g]
  BY <1>2, <1>3, <1>4 DEF Join
<1>7. staging.rules[G][g] =
        IF Reachable(role) /\ g # role /\ target.rules[G][g] > B[g]
          THEN target.rules[G][g] ELSE B[g]
  BY <1>1, <1>6
<1> QED
  BY <1>1, <1>2, <1>3, <1>5, <1>7 DEF G, S, B

\* Carry makes Carried true.
LEMMA CarryKeepsGrants == Inv /\ Carry => Carried'
<1> SUFFICES ASSUME Inv, Carry, NEW o \in Both', Reachable(staging'.owner[o]),
                    NEW g \in Grantees \ {staging'.owner[o]}
             PROVE  staging'.acl[o][g] >= target'.acl[o][g]
  BY DEF Carried, Reachable
<1>1. /\ o \in target.have /\ o \in staging.have /\ target' = target
      /\ o \in Objects /\ staging'.owner[o] = staging.owner[o]
      /\ staging'.acl[o] = Join(staging.acl[o], Carries(o))
  BY CarryFields DEF Both, Carry
<1>2. Carries(o)[g] = target.acl[o][g]
  BY <1>1 DEF Carries, Grants
<1> QED
  BY <1>1, <1>2, CarryFields, JoinIsAcl

\* What an object got at its creation is at most the global rule, what is built
\* in or what is in the template.
LEMMA CreationBound ==
  ASSUME Inv, phase = "build", NEW o \in staging.have, NEW g \in Grantees
  PROVE  \/ staging.acl[o][g] <= target.rules[<<staging.owner[o], Global, KindOf[o]>>][g]
         \/ staging.acl[o][g] <= BuiltIn(KindOf[o])[g]
         \/ o \in Template /\ staging.acl[o][g] <= InTemplate[g]
<1> DEFINE role == staging.owner[o]
<1>1. o \in Objects /\ role \in Roles
  BY DEF Inv, TypeOK, DatabaseOK, StagingOK
<1> HIDE DEF role
<1>2. CASE o \in Template /\ staging.acl[o] = InTemplate
  <2>1. InTemplate[g] \in 0 .. 2
    BY AclsAssumption DEF Acl
  <2> QED
    BY <1>2, <2>1
<1>3. CASE staging.acl[o] = AtCreation(staging.rules, role, o)
  <2> DEFINE now == staging.rules[<<role, Global, KindOf[o]>>][g]
             rule == target.rules[<<role, Global, KindOf[o]>>][g]
             own == BuiltIn(KindOf[o])[g]
  <2>1. /\ now \in {own, rule} /\ rule \in 0 .. 2 /\ own \in 0 .. 1
        /\ staging.rules[<<role, SchemaOf[o], KindOf[o]>>][g] = 0
    BY <1>1, GranteeBeforeCarry
  <2>2. staging.acl[o][g] \in {0, now}
    BY <1>3, <2>1 DEF AtCreation, Join
  <2> HIDE DEF now, rule, own
  <2>3. staging.acl[o][g] <= rule \/ staging.acl[o][g] <= own
    BY <2>1, <2>2
  <2> QED
    BY <2>3 DEF rule, own, role
<1> QED
  BY <1>2, <1>3 DEF Inv, ObjectsSoFar, CreatedAs, role

\* Carry makes NothingWidened true.
LEMMA CarryWidensNothing == Inv /\ Carry => NothingWidened'
<1> SUFFICES ASSUME Inv, Carry, NEW o \in Both', NEW g \in Grantees
             PROVE  \/ staging'.acl[o][g] <= target'.acl[o][g]
                    \/ staging'.acl[o][g] <=
                         target'.rules[<<staging'.owner[o], Global, KindOf[o]>>][g]
                    \/ staging'.acl[o][g] <= BuiltIn(KindOf[o])[g]
                    \/ o \in Template /\ staging'.acl[o][g] <= InTemplate[g]
  BY DEF NothingWidened
<1>1. /\ o \in target.have /\ o \in staging.have /\ target' = target
      /\ o \in Objects /\ staging'.owner[o] = staging.owner[o]
      /\ staging'.acl[o] = Join(staging.acl[o], Carries(o))
      /\ phase = "build"
  BY CarryFields DEF Both, Carry
<1>2. Carries(o)[g] <= target.acl[o][g]
  <2>1. target.acl[o][g] \in 0 .. 2
    BY <1>1, CarryFields DEF Acl
  <2>2. Carries(o)[g] \in {0, target.acl[o][g]}
    BY <1>1 DEF Carries, Grants, None
  <2> QED
    BY <2>1, <2>2
<1>3. Join(staging.acl[o], Carries(o))[g] \in {staging.acl[o][g], Carries(o)[g]}
  BY <1>1, CarryFields, JoinIsAcl
<1> QED
  BY <1>1, <1>2, <1>3, CreationBound

\* Carry makes NewAsDefault true.
LEMMA CarryGrantsNewAsDefault == Inv /\ Carry => NewAsDefault'
<1> SUFFICES ASSUME Inv, Carry,
                    NEW o \in staging'.have \ (target'.have \cup Template),
                    Reachable(staging'.owner[o]),
                    NEW g \in Grantees \ {staging'.owner[o]}
             PROVE  staging'.acl[o][g] =
                      Join(BuiltIn(KindOf[o]),
                           AtCreation(target'.rules, staging'.owner[o], o))[g]
  BY DEF NewAsDefault, Reachable
<1> DEFINE role == staging.owner[o]
<1>1. /\ o \in staging.have /\ o \notin target.have /\ o \notin Template
      /\ o \in Objects /\ role \in Roles
      /\ target' = target /\ staging'.owner[o] = role /\ phase = "build"
      /\ staging'.acl[o] = Join(staging.acl[o], Carries(o))
  BY CarryFields DEF Carry
<1>2. staging.acl[o] = AtCreation(staging.rules, role, o)
  BY <1>1 DEF Inv, ObjectsSoFar, CreatedAs
<1> HIDE DEF role
<1>3. g # role /\ g \in Grantees /\ Reachable(role)
  BY <1>1
<1>4. Carries(o)[g] = target.rules[<<role, SchemaOf[o], KindOf[o]>>][g]
  BY <1>1, <1>3 DEF Carries, Grants, role
<1> DEFINE now == staging.rules[<<role, Global, KindOf[o]>>][g]
           rule == target.rules[<<role, Global, KindOf[o]>>][g]
           scoped == target.rules[<<role, SchemaOf[o], KindOf[o]>>][g]
           own == BuiltIn(KindOf[o])[g]
<1>5. /\ now = IF rule > own THEN rule ELSE own
      /\ staging.rules[<<role, SchemaOf[o], KindOf[o]>>][g] = 0
      /\ rule \in 0 .. 2 /\ scoped \in 0 .. 2 /\ own \in 0 .. 1
  BY <1>1, <1>3, GranteeBeforeCarry
<1>6. staging.acl[o][g] = now
  BY <1>2, <1>3, <1>5 DEF AtCreation, Join
<1>7. AtCreation(target.rules, role, o)[g] = IF rule > scoped THEN rule ELSE scoped
  BY <1>3 DEF AtCreation, Join
<1>8. Join(BuiltIn(KindOf[o]), AtCreation(target.rules, role, o))[g] =
        IF own > AtCreation(target.rules, role, o)[g]
          THEN own ELSE AtCreation(target.rules, role, o)[g]
  BY <1>3 DEF Join
<1>9. staging'.acl[o][g] = IF now > scoped THEN now ELSE scoped
  BY <1>1, <1>3, <1>4, <1>6 DEF Join
<1> HIDE DEF now, rule, scoped, own
<1> QED
  BY <1>1, <1>5, <1>7, <1>8, <1>9

\* Carry makes CreatedLater true.
LEMMA CarryGrantsLater == Inv /\ Carry => CreatedLater'
<1> SUFFICES ASSUME Inv, Carry, NEW o \in Objects, NEW role \in Roles,
                    Reachable(role), NEW g \in Grantees \ {role}
             PROVE  AtCreation(staging'.rules, role, o)[g] =
                      Join(BuiltIn(KindOf[o]), AtCreation(target'.rules, role, o))[g]
  BY DEF CreatedLater, Reachable
<1> DEFINE G == <<role, Global, KindOf[o]>>
           S == <<role, SchemaOf[o], KindOf[o]>>
           own == BuiltIn(KindOf[o])[g]
<1>1. target' = target /\ phase = "build" /\ staging'.rules = Replayed(FALSE)
  BY CarryFields DEF Carry
<1>2. /\ G \in Keys /\ G[1] = role /\ G[2] = Global
      /\ S \in Keys /\ S[1] = role /\ S[2] # Global
  BY RuleKeysOf
<1>3. staging.rules[S] = None
  BY <1>1, RulesBeforeCarry
<1>4. /\ staging.rules[G][g] = IF target.rules[G][g] > own THEN target.rules[G][g] ELSE own
      /\ target.rules[G][g] \in 0 .. 2 /\ target.rules[S][g] \in 0 .. 2
      /\ own \in 0 .. 1
  BY <1>1, GranteeBeforeCarry
<1> HIDE DEF G, S, own
<1>5. Replayed(FALSE)[G] = staging.rules[G]
  BY <1>2 DEF Replayed
<1>6. Replayed(FALSE)[S] = Join(None, Grants(target.rules[S], role))
  BY <1>2, <1>3 DEF Replayed
<1> DEFINE now == staging.rules[G][g]
           rule == target.rules[G][g]
           scoped == target.rules[S][g]
<1>7. Replayed(FALSE)[S][g] = scoped
  <2>1. Grants(target.rules[S], role)[g] = scoped /\ None[g] = 0
    BY DEF Grants, None
  <2>2. scoped \in 0 .. 2
    BY <1>4
  <2>3. Join(None, Grants(target.rules[S], role))[g] = scoped
    BY <2>1, <2>2 DEF Join
  <2> QED
    BY <1>6, <2>3
<1>8. AtCreation(staging'.rules, role, o)[g] = IF now > scoped THEN now ELSE scoped
  BY <1>1, <1>5, <1>7 DEF AtCreation, Join, G, S
<1>9. AtCreation(target'.rules, role, o)[g] = IF rule > scoped THEN rule ELSE scoped
  BY <1>1 DEF AtCreation, Join, G, S
<1>10. Join(BuiltIn(KindOf[o]), AtCreation(target'.rules, role, o))[g] =
         IF own > AtCreation(target'.rules, role, o)[g]
           THEN own ELSE AtCreation(target'.rules, role, o)[g]
  BY DEF Join, own
<1> HIDE DEF now, rule, scoped
<1>11. /\ now = IF rule > own THEN rule ELSE own
       /\ rule \in 0 .. 2 /\ scoped \in 0 .. 2 /\ own \in 0 .. 1
  BY <1>4 DEF now, rule, scoped
<1> QED
  BY <1>8, <1>9, <1>10, <1>11

\* What Carry achieves lasts until the swap.
LEMMA PromisesStep == Inv /\ Promises /\ [Next]_vars => Promises'
<1> SUFFICES ASSUME Inv, Promises, [Next]_vars PROVE Promises'
  OBVIOUS
<1>1. CASE Carry
  BY <1>1, CarryKeepsGrants, CarryWidensNothing, CarryGrantsNewAsDefault,
     CarryGrantsLater DEF Promises
<1>2. CASE CarryDefaults \/ Fail \/ \E o \in Objects : Create(o) \/ Drop(o) \/ Regrant(o)
  <2>1. phase' # "done"
    BY <1>2 DEF CarryDefaults, Fail, Create, Drop, Regrant
  <2> QED
    BY <2>1 DEF Promises, Carried, NothingWidened, NewAsDefault, CreatedLater
<1>3. CASE UNCHANGED vars
  BY <1>3 DEF Promises, Carried, NothingWidened, NewAsDefault, CreatedLater,
              Both, Reachable, vars
<1> QED
  BY <1>1, <1>2, <1>3 DEF Next

-----------------------------------------------------------------------------
\* The carryover as a whole: each of its steps is one of the privileges, or
\* leaves them alone and at most ends the run.

\* A publication that cannot be created ends the run.
Refused == phase' = "failed" /\ UNCHANGED <<target, staging>>

LEMMA CarryoverSteps == [CarryoverNext]_allVars => [Next]_vars \/ Refused
  BY DEF CarryoverNext, CarryDatabase, Build, CarryPublications, Next, Refused,
         allVars, vars

\* A run that ended keeps what is said of the privileges: nothing is promised.
LEMMA RefusedInv == Inv /\ Refused => Inv' /\ Promises'
<1> SUFFICES ASSUME Inv, Refused PROVE Inv' /\ Promises'
  OBVIOUS
<1>1. TypeOK'
  BY DEF Inv, TypeOK, Refused, DatabaseOK, StagingOK
<1>2. RulesSoFar' /\ ObjectsSoFar' /\ Promises'
  BY DEF Refused, RulesSoFar, ObjectsSoFar, Promises, Carried, NothingWidened,
         NewAsDefault, CreatedLater
<1> QED
  BY <1>1, <1>2 DEF Inv

\* A publication is created only after the migration, as the target has it.
PublishedAsOffered ==
  offered # NoPublication => phase = "done" /\ published = offered

\* The definition that is read of a publication is all of it.
LEMMA DefinitionIsWhole == ASSUME NEW p \in Offers PROVE Definition(p) = p
  BY OffersAssumption DEF Definition, Publication

LEMMA PublishedStep ==
  PublishedAsOffered /\ [CarryoverNext]_allVars => PublishedAsOffered'
<1> SUFFICES ASSUME PublishedAsOffered, [CarryoverNext]_allVars
             PROVE  PublishedAsOffered'
  OBVIOUS
<1>1. CASE Build
  <2>1. phase' = "build" /\ phase = "build" /\ offered' = offered
    BY <1>1 DEF Build, Create, Drop, Unpublish, publicationVars
  <2> QED
    BY <2>1 DEF PublishedAsOffered
<1>2. CASE CarryPublications
  <2>1. CASE UNCHANGED phase
    BY <1>2, <2>1, DefinitionIsWhole DEF CarryPublications, PublishedAsOffered
  <2>2. CASE UNCHANGED publicationVars
    BY <1>2, <2>2 DEF CarryPublications, PublishedAsOffered, publicationVars
  <2> QED
    BY <1>2, <2>1, <2>2 DEF CarryPublications
<1>3. CASE ~Build /\ ~CarryPublications
  <2>1. UNCHANGED publicationVars
    BY <1>3 DEF CarryoverNext, CarryDatabase, allVars
  <2>2. phase' = phase \/ phase \in {"begin", "build"}
    BY <1>3 DEF CarryoverNext, CarryDatabase, CarryDefaults, Carry, Fail, Regrant,
                allVars, vars
  <2> QED
    BY <2>1, <2>2 DEF PublishedAsOffered, publicationVars
<1> QED
  BY <1>1, <1>2, <1>3

\* What the target's database may be.
LEMMA DatabaseTyped ==
  ASSUME NEW d \in Databases
  PROVE  /\ d # Unread
         /\ d.acl \in [Others \cup {Public} -> [OnDatabase -> 0 .. 2]]
         /\ d.settings \in [Settings -> Values \cup {NoValue}]
         /\ \A p \in OnDatabase : d.acl[Public][p] < 2
<1>1. /\ d.acl \in [Others \cup {Public} -> [OnDatabase -> 0 .. 2]]
      /\ d.settings \in [Settings -> Values \cup {NoValue}]
      /\ \A p \in OnDatabase : d.acl[Public][p] < 2
  BY DatabasesAssumption DEF Database, DatabaseAcl
<1>2. Public \notin DOMAIN Unread.acl
  BY DEF Unread
<1> QED
  BY <1>1, <1>2

\* What DatabaseCarried says of the target's database as it was read.
AsRead ==
  /\ \A g \in DOMAIN read.acl, p \in OnDatabase :
       /\ database.acl[g][p] >= read.acl[g][p]
       /\ \/ database.acl[g][p] = read.acl[g][p]
          \/ database.acl[g][p] = Fresh.acl[g][p]
          \/ /\ read.acl[g][p] = 1 /\ database.acl[g][p] = 2
             /\ \E q \in OnDatabase : read.acl[g][q] = 2
  /\ \A s \in Settings :
       read.settings[s] \notin {v \in Values : Quoted[v] # v} =>
         database.settings[s] = read.settings[s]

\* The database is new until the target's was read, and the migration does not
\* end before.
DatabaseSoFar ==
  \/ read = Unread /\ database = Fresh /\ phase # "done"
  \/ read # Unread /\ AsRead

\* The statements leave on a new database what was read of the target's.
LEMMA CarryDatabaseReads == DatabaseSoFar /\ CarryDatabase => read' # Unread /\ AsRead'
<1> SUFFICES ASSUME DatabaseSoFar, CarryDatabase PROVE read' # Unread /\ AsRead'
  OBVIOUS
<1>1. PICK d \in Databases :
        /\ read' = d
        /\ database' =
             [acl |-> [g \in DOMAIN d.acl |->
                         [p \in OnDatabase |->
                            IF GrantOf(d.acl[g])[p] > Fresh.acl[g][p]
                              THEN GrantOf(d.acl[g])[p] ELSE Fresh.acl[g][p]]],
              settings |-> [s \in Settings |->
                              IF d.settings[s] = NoValue THEN Fresh.settings[s]
                                                         ELSE Quoted[d.settings[s]]]]
  BY DEF DatabaseSoFar, CarryDatabase
<1>2. /\ d # Unread
      /\ d.acl \in [Others \cup {Public} -> [OnDatabase -> 0 .. 2]]
      /\ d.settings \in [Settings -> Values \cup {NoValue}]
      /\ \A p \in OnDatabase : d.acl[Public][p] < 2
  BY DatabaseTyped
<1>3. ASSUME NEW g \in DOMAIN d.acl, NEW p \in OnDatabase
      PROVE  /\ database'.acl[g][p] >= d.acl[g][p]
             /\ \/ database'.acl[g][p] = d.acl[g][p]
                \/ database'.acl[g][p] = Fresh.acl[g][p]
                \/ /\ d.acl[g][p] = 1 /\ database'.acl[g][p] = 2
                   /\ \E q \in OnDatabase : d.acl[g][q] = 2
  <2> DEFINE old == Fresh.acl[g][p]
             new == GrantOf(d.acl[g])[p]
             was == d.acl[g][p]
  <2>1. old \in 0 .. 1
    BY <1>2 DEF Fresh
  <2>2. was \in 0 .. 2
    BY <1>2
  <2>3. \/ new = was
        \/ was = 1 /\ new = 2 /\ \E q \in OnDatabase : d.acl[g][q] = 2
    BY <1>2, <2>2 DEF GrantOf
  <2>4. database'.acl[g][p] = IF new > old THEN new ELSE old
    BY <1>1
  <2> HIDE DEF old, new, was
  <2>5. /\ database'.acl[g][p] >= was
        /\ \/ database'.acl[g][p] = was
           \/ database'.acl[g][p] = old
           \/ was = 1 /\ database'.acl[g][p] = 2 /\ \E q \in OnDatabase : d.acl[g][q] = 2
    BY <2>1, <2>2, <2>3, <2>4
  <2> QED
    BY <2>5 DEF old, was
<1>4. ASSUME NEW s \in Settings, d.settings[s] \notin {v \in Values : Quoted[v] # v}
      PROVE  database'.settings[s] = d.settings[s]
  <2>1. database'.settings[s] = IF d.settings[s] = NoValue THEN NoValue
                                                           ELSE Quoted[d.settings[s]]
    BY <1>1 DEF Fresh
  <2> QED
    BY <1>2, <1>4, <2>1
<1> QED
  BY <1>1, <1>2, <1>3, <1>4 DEF AsRead

LEMMA DatabaseStep == DatabaseSoFar /\ [CarryoverNext]_allVars => DatabaseSoFar'
<1> SUFFICES ASSUME DatabaseSoFar, [CarryoverNext]_allVars PROVE DatabaseSoFar'
  OBVIOUS
<1>1. CASE CarryDatabase
  BY <1>1, CarryDatabaseReads DEF DatabaseSoFar
<1>2. CASE UNCHANGED databaseVars /\ (phase' = "done" => phase = "done" \/ read # Unread)
  BY <1>2 DEF DatabaseSoFar, AsRead, databaseVars
<1>3. CASE ~CarryDatabase
  <2>1. UNCHANGED databaseVars
    BY <1>3 DEF CarryoverNext, Build, allVars
  <2>2. phase' = "done" => phase = "done" \/ read # Unread
    BY <1>3 DEF CarryoverNext, Build, CarryDefaults, Create, Drop, Regrant, Fail,
                CarryPublications, allVars, vars
  <2> QED
    BY <1>2, <2>1, <2>2
<1> QED
  BY <1>1, <1>3

-----------------------------------------------------------------------------
\* The invariant of the carryover, whose parts do not depend on one another.
CarryoverInv == Inv /\ Promises /\ PublishedAsOffered /\ DatabaseSoFar

LEMMA CarryoverHolds == CarryoverSpec => []CarryoverInv
<1>1. CarryoverInit => CarryoverInv
  <2> SUFFICES ASSUME CarryoverInit PROVE CarryoverInv
    OBVIOUS
  <2>1. Init /\ Inv
    BY InitInv DEF CarryoverInit
  <2>2. Promises
    BY <2>1 DEF Init, Promises, Carried, NothingWidened, NewAsDefault, CreatedLater
  <2>3. PublishedAsOffered /\ DatabaseSoFar
    BY <2>1 DEF CarryoverInit, Init, PublicationsInit, PublishedAsOffered, DatabaseSoFar
  <2> QED
    BY <2>1, <2>2, <2>3 DEF CarryoverInv
<1>2. CarryoverInv /\ [CarryoverNext]_allVars => CarryoverInv'
  BY CarryoverSteps, NextInv, PromisesStep, RefusedInv, PublishedStep, DatabaseStep
     DEF CarryoverInv
<1> QED
  BY <1>1, <1>2, PTL DEF CarryoverSpec

\* What the invariant says of the promises, one by one.
LEMMA CarryoverPromises ==
  CarryoverInv => /\ TypeOK /\ Carried /\ NothingWidened /\ NewAsDefault /\ CreatedLater
                  /\ PublicationsKept /\ DatabaseCarried
<1> SUFFICES ASSUME CarryoverInv
             PROVE  /\ TypeOK /\ Carried /\ NothingWidened /\ NewAsDefault /\ CreatedLater
                    /\ PublicationsKept /\ DatabaseCarried
  OBVIOUS
<1>1. TypeOK /\ Carried /\ NothingWidened /\ NewAsDefault /\ CreatedLater
  BY DEF CarryoverInv, Inv, Promises
<1>2. PublicationsKept
  BY DEF CarryoverInv, PublishedAsOffered, PublicationsKept
<1>3. DatabaseCarried
  BY DEF CarryoverInv, DatabaseSoFar, AsRead, DatabaseCarried
<1> QED
  BY <1>1, <1>2, <1>3

\* Well-formedness: the restore never grants on what is not there, leaves no
\* object without a container and grants nothing to an owner.
THEOREM WellFormed == CarryoverSpec => []TypeOK
  BY CarryoverHolds, CarryoverPromises, PTL

\* No grant on an object of both databases is lost at the restore, whatever
\* was dropped and created again on the way.
THEOREM GrantsAreCarried == CarryoverSpec => []Carried
  BY CarryoverHolds, CarryoverPromises, PTL

\* No grant on an object of both databases is widened, except by what it came
\* into being with: the target's global rule, what postgres grants to PUBLIC
\* (revoked in the target or not) or in the template.
THEOREM GrantsAreNotWidened == CarryoverSpec => []NothingWidened
  BY CarryoverHolds, CarryoverPromises, PTL

\* The two carries together give a new object what the target's rules would,
\* and of what these revoke exactly what postgres grants to PUBLIC.
THEOREM NewObjectsAsDefault == CarryoverSpec => []NewAsDefault
  BY CarryoverHolds, CarryoverPromises, PTL

\* The restored database has the rules of the target, except that none of them
\* revokes what postgres grants to PUBLIC.
THEOREM RulesAreCarried == CarryoverSpec => []CreatedLater
  BY CarryoverHolds, CarryoverPromises, PTL

\* A publication selects, of whatever the database comes to hold, what that of
\* the target would: nothing that the migration drops can narrow it.
THEOREM PublicationsAreKept == CarryoverSpec => []PublicationsKept
  BY CarryoverHolds, CarryoverPromises, PTL

\* The restored database grants and sets what the target did.
THEOREM DatabaseIsCarried == CarryoverSpec => []DatabaseCarried
  BY CarryoverHolds, CarryoverPromises, PTL
=============================================================================
