---------------------------- MODULE Publications ----------------------------
(***************************************************************************)
(* A publication of the target, which the restore creates again in the     *)
(* staging database once the migration is over (restore/publications.go).  *)
(* Its row filters and parameters are carried as they are and left out.    *)
(***************************************************************************)
EXTENDS Privileges

CONSTANTS
  Schemas,    \* the objects that are schemas
  Relations,  \* the objects that are tables
  Offers,     \* the publications that the target may have
  ConfersAll  \* the user of the restore may publish what is not listed

\* Every table, the tables of schemas, and listed tables with the columns that
\* are listed of them, or with all columns.
Publication ==
  [all : BOOLEAN, schemas : SUBSET Schemas,
   tables : UNION {[R -> SUBSET Objects] : R \in SUBSET Relations}]
NoPublication == [all |-> FALSE, schemas |-> {}, tables |-> [r \in {} |-> {}]]

ASSUME OffersAssumption == Offers \subseteq Publication

VARIABLES
  offered,   \* the publication of the target that was created again
  published  \* that of the staging database

publicationVars == <<offered, published>>

PublicationsInit == offered = NoPublication /\ published = NoPublication

\* What the definition of a publication names.
Named(p) ==
  p.schemas \cup DOMAIN p.tables \cup UNION {p.tables[r] : r \in DOMAIN p.tables}

ColumnsOf(r) == {o \in Objects : r \in Holders[o]}

\* What a publication selects, table by table, of a database that has the given
\* objects: all columns, those of tomorrow as well, unless it lists them.
Selects(p, have) ==
  [r \in {t \in Relations \cap have :
            p.all \/ SchemaOf[t] \in p.schemas \/ t \in DOMAIN p.tables} |->
     IF r \in DOMAIN p.tables /\ p.tables[r] # {} THEN p.tables[r] ELSE ColumnsOf(r) \cap have]

\* publicationOwners: the owners of all tables in the schemas of those listed.
Owners(p) ==
  {DatabaseOwner} \cup
  {staging.owner[r] : r \in {t \in Relations \cap staging.have :
                               \E l \in DOMAIN p.tables : SchemaOf[l] = SchemaOf[t]}}

\* No role that is needed is out of reach, and what is named exists.
Creatable(p) ==
  /\ \A role \in Owners(p) : Reachable(role)
  /\ p.all \/ p.schemas # {} => ConfersAll
  /\ Named(p) \subseteq staging.have

\* Slip: the publication is read from the view, which expands it.
SlipExpanded(p) ==
  [all |-> FALSE, schemas |-> {}, tables |-> Selects(p, target.have)]

\* ReadPublications: the definition, and not the tables and columns that it
\* comes to today.
Definition(p) == [all |-> p.all, schemas |-> p.schemas, tables |-> p.tables]

\* Slip: the publications are carried before the migration has ended.
SlipBeforeMigration ==
  /\ phase = "build"
  /\ offered = NoPublication
  /\ \E p \in Offers :
       /\ Named(p) \subseteq target.have
       /\ Creatable(p)
       /\ offered' = p
       /\ published' = p
  /\ UNCHANGED vars

\* Carry: a publication that cannot be created ends the run, before the swap.
CarryPublications ==
  /\ phase = "done"
  /\ offered = NoPublication
  /\ \E p \in Offers :
       /\ Named(p) \subseteq target.have
       /\ IF Creatable(Definition(p))
            THEN /\ offered' = p
                 /\ published' = Definition(p)
                 /\ UNCHANGED phase
            ELSE phase' = "failed" /\ UNCHANGED publicationVars
  /\ UNCHANGED <<target, staging>>

\* A dropped table leaves its publication silently; a listed column cannot be
\* dropped alone.
Unpublish(o) ==
  LET gone == {x \in Objects : x = o \/ o \in Holders[x]}
      kept == DOMAIN published.tables \ gone
  IN /\ \A r \in kept : published.tables[r] \cap gone = {}
     /\ published' = [published EXCEPT !.schemas = @ \ gone,
                                       !.tables = [r \in kept |-> @[r]]]
     /\ UNCHANGED offered

-----------------------------------------------------------------------------
\* "A publication applied before migrations is not merely premature, it is
\* destructive", and one read from the view is "a frozen list": whatever the
\* database comes to hold, what was created selects of it, table by table and
\* column by column, what the publication of the target would.
PublicationsKept ==
  offered # NoPublication =>
    \A have \in SUBSET Objects : Selects(published, have) = Selects(offered, have)
=============================================================================
