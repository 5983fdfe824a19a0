------------------------------ MODULE Cutover ------------------------------
(***************************************************************************)
(* What a restore promises to the users of a target database, without      *)
(* staging databases, backups or locks: the target's name holds one        *)
(* database at a time; it may be away for a moment; and when it is back it *)
(* holds either the very database it held before, or a younger one that    *)
(* was ready before the switch.                                            *)
(***************************************************************************)
EXTENDS Integers

CONSTANTS
  Targets,
  MaxRestores

VARIABLES
  holds,    \* the database that has, or had last, the target's name
  present,  \* whether the name exists
  ready     \* the databases that are completely loaded and not yet in use

vars == <<holds, present, ready>>

Init ==
  /\ holds = [t \in Targets |-> 0]
  /\ present = [t \in Targets |-> TRUE]
  /\ ready = {}

\* Databases are prepared and discarded aside, without the users noticing.
Prepare ==
  /\ ready' \in SUBSET (1 .. MaxRestores)
  /\ UNCHANGED <<holds, present>>

Withdraw(t) ==
  /\ present[t]
  /\ present' = [present EXCEPT ![t] = FALSE]
  /\ UNCHANGED <<holds, ready>>

PutBack(t) ==
  /\ ~present[t]
  /\ present' = [present EXCEPT ![t] = TRUE]
  /\ UNCHANGED <<holds, ready>>

Replace(t) ==
  /\ ~present[t]
  /\ \E r \in ready :
       /\ r > holds[t]
       /\ holds' = [holds EXCEPT ![t] = r]
       /\ ready' = ready \ {r}
  /\ present' = [present EXCEPT ![t] = TRUE]

Next ==
  \/ Prepare
  \/ \E t \in Targets : Withdraw(t) \/ PutBack(t) \/ Replace(t)

Spec == Init /\ [][Next]_vars
=============================================================================
