----------------------------- MODULE Carryover -----------------------------
(***************************************************************************)
(* All that a restore carries from the target to the staging database, in  *)
(* its order (restore/run.go): the global default privileges before the    *)
(* schema; after the migration the ACL and the settings of the database    *)
(* itself (restore/carryover.go), the grants and the other rules in it;    *)
(* then the publications.                                                  *)
(***************************************************************************)
EXTENDS Publications

CONSTANTS
  Others,      \* the other roles that are granted something on the database
  Settings,    \* names of settings, each of the database or of a role in it
  Values,      \* their values
  Quoted,      \* what each value becomes when it is set as one literal
  NoValue,     \* of a setting that is not set
  Databases    \* the ACL and the settings that the target may have

OnDatabase == {"create", "temporary", "connect"}
DatabaseAcl == [Others \cup {Public} -> [OnDatabase -> 0 .. 2]]
Database == [acl : DatabaseAcl, settings : [Settings -> Values \cup {NoValue}]]

ASSUME DatabasesAssumption ==
  /\ Public \notin Others /\ NoValue \notin Values
  /\ Quoted \in [Values -> Values]
  /\ Databases \subseteq Database
  \* the server grants no option to PUBLIC
  /\ \A d \in Databases, p \in OnDatabase : d.acl[Public][p] < 2

VARIABLES
  read,     \* the ACL and the settings of the target, once they were read
  database  \* those of the staging database

databaseVars == <<read, database>>
allVars == <<vars, publicationVars, databaseVars>>

Unread == [acl |-> <<>>, settings |-> <<>>]

\* CREATE DATABASE: PUBLIC connects and makes temporary tables.
Fresh ==
  [acl |-> [g \in Others \cup {Public} |->
              [p \in OnDatabase |-> IF g = Public /\ p # "create" THEN 1 ELSE 0]],
   settings |-> [s \in Settings |-> NoValue]]

\* Slip: the stars of an entry are not read.
SlipNoStars(entry) == [p \in OnDatabase |-> IF entry[p] = 0 THEN 0 ELSE 1]

\* grantFromAclItem: one statement for an entry, with the option for all of it
\* if any privilege has it.
GrantOf(entry) ==
  LET option == \E p \in OnDatabase : entry[p] = 2 IN
  [p \in OnDatabase |-> IF entry[p] # 0 /\ option THEN 2 ELSE entry[p]]

\* Apply: the GRANTs add to what a new database grants, and each setting is set
\* to its value as one literal.
CarryDatabase ==
  /\ phase = "build"
  /\ read = Unread
  /\ \E d \in Databases :
       /\ read' = d
       /\ database' =
            [acl |-> [g \in DOMAIN d.acl |->
                        [p \in OnDatabase |->
                           LET old == database.acl[g][p]
                               new == GrantOf(d.acl[g])[p]
                           IN IF new > old THEN new ELSE old]],
             settings |-> [s \in Settings |->
                             IF d.settings[s] = NoValue THEN database.settings[s]
                                                        ELSE Quoted[d.settings[s]]]]
  /\ UNCHANGED <<vars, publicationVars>>

\* What is in staging changes until the migration has ended.
Build ==
  /\ read = Unread
  /\ \E o \in Objects :
       \/ Create(o) /\ UNCHANGED publicationVars
       \/ Drop(o) /\ Unpublish(o)
  /\ UNCHANGED databaseVars

CarryoverInit ==
  /\ Init
  /\ PublicationsInit
  /\ read = Unread
  /\ database = Fresh

CarryoverNext ==
  \/ CarryDatabase
  \/ Build
  \/ /\ \/ CarryDefaults
        \/ \E o \in Objects : Regrant(o)
        \/ read # Unread /\ Carry
        \/ Fail
     /\ UNCHANGED <<publicationVars, databaseVars>>
  \/ CarryPublications /\ UNCHANGED databaseVars

CarryoverSpec == CarryoverInit /\ [][CarryoverNext]_allVars

-----------------------------------------------------------------------------
\* "The restored environment comes up with its CONNECT grants and its timezone
\* missing" without it: what the database granted is granted, with its option;
\* nobody is granted what a new database does not grant and the target did not,
\* but the option may reach the other privileges of its entry; and a value that
\* one literal can carry is carried.
DatabaseCarried ==
  phase = "done" =>
    /\ \A g \in DOMAIN read.acl, p \in OnDatabase :
         /\ database.acl[g][p] >= read.acl[g][p]
         /\ \/ database.acl[g][p] = read.acl[g][p]
            \/ database.acl[g][p] = Fresh.acl[g][p]
            \/ /\ read.acl[g][p] = 1 /\ database.acl[g][p] = 2
               /\ \E q \in OnDatabase : read.acl[g][q] = 2
    /\ \A s \in Settings :
         read.settings[s] \notin {v \in Values : Quoted[v] # v} =>
           database.settings[s] = read.settings[s]
=============================================================================
