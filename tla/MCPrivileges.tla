---------------------------- MODULE MCPrivileges ----------------------------
(***************************************************************************)
(* An instance of Carryover for TLC: a schema of the template, a table, a  *)
(* column and a routine, on which PUBLIC is granted unless a rule revokes  *)
(* it; two roles that create, for one of which the restore cannot act; a   *)
(* publication of each form; a database with and without grants and        *)
(* settings of its own.                                                    *)
(***************************************************************************)
EXTENDS Carryover, TLC

CONSTANTS schema, table, column, routine, owner, root, pgowner, reader, utc, path, literal

Kind == (schema :> "n") @@ (table :> "r") @@ (column :> "c") @@ (routine :> "f")
Place == [o \in Objects |-> schema]
Inside == (schema :> {}) @@ (table :> {schema}) @@ (column :> {schema, table}) @@
          (routine :> {schema})

Grant(g, n) == [None EXCEPT ![g] = n]

\* USAGE of the schema to PUBLIC.
OnPublicSchema == Grant(Public, 1)

\* Nothing, where PUBLIC is revoked what it had; the entry that postgres makes
\* of the owner's own, with a reader's and that of PUBLIC; the grant option,
\* and an entry of a role.
SomeAcls == {None,
             Join(Grant(owner, 2), Join(Grant(reader, 1), Grant(Public, 1))),
             Join(Grant(root, 1), Grant(reader, 2))}

\* The rules of a role for a kind in every schema, and in this one.
InForce(role, kind, global, scoped) ==
  [Unaltered EXCEPT ![<<role, Global, kind>>] = global, ![<<role, schema, kind>>] = scoped]

\* None; those of a role for tables, with its own entry, and of the role that
\* the restore cannot act for; those for routines, which revoke what PUBLIC had.
SomeRules ==
  {Unaltered,
   InForce(owner, "r", Grant(reader, 1), Join(Grant(owner, 2), Grant(reader, 2))),
   InForce(root, "r", Grant(reader, 1), Grant(reader, 2))} \cup
  {InForce(owner, "f", global, scoped) :
     global \in {None, Grant(reader, 1)}, scoped \in {None, Grant(reader, 2)}}

\* The table with all of its columns, with the one, its schema, or everything.
SomeOffers ==
  {[NoPublication EXCEPT !.tables = table :> {}],
   [NoPublication EXCEPT !.tables = table :> {column}],
   [NoPublication EXCEPT !.schemas = {schema}],
   [NoPublication EXCEPT !.all = TRUE]}

\* A path of two names is one name when it is set as one literal.
InQuotes == (utc :> utc) @@ (path :> literal) @@ (literal :> literal)

\* A database that grants what a new one does; and one that PUBLIC is revoked
\* from, and that a reader may pass on in part.
SomeDatabases ==
  {Fresh,
   [acl |-> (Public :> [p \in OnDatabase |-> 0]) @@
            (reader :> [p \in OnDatabase |->
                          CASE p = "connect" -> 2 [] p = "temporary" -> 1 [] OTHER -> 0]),
    settings |-> ("timezone" :> utc) @@ ("search_path" :> path)]}
=============================================================================
