------------------------------- MODULE Slots -------------------------------
(***************************************************************************)
(* Logical replication slots across the swap (restore/slots.go, and the    *)
(* end of Run in restore/run.go).  A slot belongs to one database and stays *)
(* with it when the database is renamed; its name is unique in the         *)
(* instance.  A restore captures the slots of its target by the target's   *)
(* name, swaps, and then drops and recreates each one in the new database. *)
(* Consumers of the target attach, detach, create and drop slots at any    *)
(* time.  The statements of the swap are those of module Restore, of which *)
(* only what matters to slots is kept: closing, disconnecting, renaming.   *)
(***************************************************************************)
EXTENDS Integers

CONSTANTS
  Names,      \* names of slots
  Absent,     \* no slot has the name
  MaxSwaps,   \* bound on the swaps
  MaxFaults   \* bound on failed statements and crashes

ASSUME SlotsAssumption == MaxSwaps \in Nat /\ MaxFaults \in Nat

\* The databases that had the target's name, in order; all but the last are
\* backups.
Databases == 0 .. MaxSwaps

Slot == [db : Databases, active : BOOLEAN]

ASSUME AbsentAssumption == Absent \notin Slot

VARIABLES
  current,   \* the database that has the target's name
  open,      \* whether it allows connections
  slot,      \* [Names -> Slot or Absent]
  step,      \* the next statement of the restore
  captured,  \* the slots it captured
  todo,      \* those it has not dealt with yet
  at,        \* the one it is dealing with
  faults     \* faults so far

vars == <<current, open, slot, step, captured, todo, at, faults>>

Init ==
  /\ current = 0
  /\ open = TRUE
  /\ slot \in [Names -> [db : {0}, active : BOOLEAN] \cup {Absent}]
  /\ step = "capture"
  /\ captured = {}
  /\ todo = {}
  /\ at \in Names
  /\ faults = 0

Fault == faults < MaxFaults /\ faults' = faults + 1

SlotsOf(d) == {n \in Names : slot[n] # Absent /\ slot[n].db = d}

\* A statement is executed, or fails by a fault with or without its effect.
Statement(effect, unchanged, ok, err) ==
  \/ effect /\ step' = ok /\ UNCHANGED faults
  \/ (effect \/ UNCHANGED unchanged) /\ step' = err /\ Fault

-----------------------------------------------------------------------------
(***************************************************************************)
(* The restore                                                             *)
(***************************************************************************)

\* Slots.Capture, through the name of the target.  The restore needs a
\* connection to the target.  CanCreate, which follows, only warns.
Capture ==
  /\ step = "capture"
  /\ open
  /\ current < MaxSwaps
  /\ \/ captured' = SlotsOf(current) /\ step' = "close" /\ UNCHANGED faults
     \/ captured' = {} /\ step' = "capture" /\ Fault
  /\ todo' = captured'
  /\ UNCHANGED <<current, open, slot, at>>

Close ==
  /\ step = "close"
  /\ Statement(open' = FALSE, open, "terminate", "capture")
  /\ UNCHANGED <<current, slot, captured, todo, at>>

\* Slip: the sessions of the target are not disconnected.
SlipNotTerminated ==
  /\ step = "terminate"
  /\ step' = "rename"
  /\ UNCHANGED <<current, open, slot, captured, todo, at, faults>>

\* The sessions of the target end, those that stream from a slot with them.
Terminate ==
  /\ step = "terminate"
  /\ Statement(
       slot' = [n \in Names |-> IF n \in SlotsOf(current)
                                  THEN [slot[n] EXCEPT !.active = FALSE]
                                  ELSE slot[n]],
       slot, "rename", "capture")
  /\ UNCHANGED <<current, open, captured, todo, at>>

\* Both renames, or neither; or both, with an error, which ends the run.
Rename ==
  /\ step = "rename"
  /\ \/ current' = current + 1 /\ step' = "reopen swapped" /\ UNCHANGED faults
     \/ current' = current + 1 /\ step' = "capture" /\ Fault
     \/ UNCHANGED current /\ step' = "reopen untouched" /\ Fault
  /\ UNCHANGED <<open, slot, captured, todo, at>>

\* Without this statement the run ends with an error and rebinds nothing.
ReopenSwapped ==
  /\ step = "reopen swapped"
  /\ Statement(open' = TRUE, open, "rebind", "capture")
  /\ UNCHANGED <<current, slot, captured, todo, at>>

ReopenUntouched ==
  /\ step = "reopen untouched"
  /\ Statement(open' = TRUE, open, "capture", "capture")
  /\ UNCHANGED <<current, slot, captured, todo, at>>

\* rebindOne: look the name up.  A slot in use is an error, which is logged;
\* the failure to connect to the target, too, and it ends the loop.
Inspect ==
  /\ step = "rebind"
  /\ \/ \E n \in todo :
          /\ at' = n
          /\ todo' = todo \ {n}
          /\ \/ /\ step' = IF slot[n] = Absent THEN "create"
                           ELSE IF slot[n].active THEN "rebind"
                           ELSE "drop"
                /\ UNCHANGED faults
             \/ step' = "rebind" /\ Fault
     \/ todo = captured /\ Fault /\ step' = "done" /\ UNCHANGED <<at, todo>>
  /\ UNCHANGED <<current, open, slot, captured>>

\* Slip: the orphan is not dropped, so its name stays taken.
SlipKeepsOrphan ==
  /\ step = "drop"
  /\ step' = "create"
  /\ UNCHANGED <<current, open, slot, captured, todo, at, faults>>

\* Dropping a slot that is active, or gone, is refused.
Drop ==
  /\ step = "drop"
  /\ IF slot[at] = Absent \/ slot[at].active
       THEN step' = "rebind" /\ UNCHANGED <<slot, faults>>
       ELSE Statement(slot' = [slot EXCEPT ![at] = Absent], slot,
                      "create", "rebind")
  /\ UNCHANGED <<current, open, captured, todo, at>>

\* Creating a slot whose name is taken is refused.
Create ==
  /\ step = "create"
  /\ IF slot[at] # Absent
       THEN step' = "rebind" /\ UNCHANGED <<slot, faults>>
       ELSE Statement(
              slot' = [slot EXCEPT ![at] = [db |-> current, active |-> FALSE]],
              slot, "rebind", "rebind")
  /\ UNCHANGED <<current, open, captured, todo, at>>

RebindReturns ==
  /\ step = "rebind"
  /\ todo = {}
  /\ step' = "done"
  /\ UNCHANGED <<current, open, slot, captured, todo, at, faults>>

\* Slip: what one run did not deal with is left to the next.
SlipKeepsTodo ==
  /\ step = "done"
  /\ step' = "capture"
  /\ captured' = {}
  /\ UNCHANGED <<current, open, slot, todo, at, faults>>

\* The list of captured slots is a local of one run.
NextRestore ==
  /\ step = "done"
  /\ step' = "capture"
  /\ captured' = {}
  /\ todo' = {}
  /\ UNCHANGED <<current, open, slot, at, faults>>

\* The run is killed; the next one starts from the beginning.
Crash ==
  /\ step # "capture"
  /\ Fault
  /\ step' = "capture"
  /\ captured' = {}
  /\ todo' = {}
  /\ UNCHANGED <<current, open, slot, at>>

\* A repair, or the operator, opens the target again.
OperatorOpens ==
  /\ step = "capture"
  /\ ~open
  /\ open' = TRUE
  /\ UNCHANGED <<current, slot, step, captured, todo, at, faults>>

\* The retention drops a backup, and its slots go with it.
ExpireBackup(d) ==
  /\ step = "capture"
  /\ d < current
  /\ SlotsOf(d) # {}
  /\ slot' = [n \in Names |-> IF n \in SlotsOf(d) THEN Absent ELSE slot[n]]
  /\ UNCHANGED <<current, open, step, captured, todo, at, faults>>

-----------------------------------------------------------------------------
(***************************************************************************)
(* The consumers.  They connect to the target by name.                     *)
(***************************************************************************)

Change(n, value) ==
  /\ slot' = [slot EXCEPT ![n] = value]
  /\ UNCHANGED <<current, open, step, captured, todo, at, faults>>

Attach(n) ==
  /\ n \in SlotsOf(current) /\ open /\ ~slot[n].active
  /\ Change(n, [slot[n] EXCEPT !.active = TRUE])

Detach(n) ==
  /\ slot[n] # Absent /\ slot[n].active
  /\ Change(n, [slot[n] EXCEPT !.active = FALSE])

CreateSlot(n) ==
  /\ slot[n] = Absent /\ open
  /\ Change(n, [db |-> current, active |-> FALSE])

\* A slot can be dropped from any database.
DropSlot(n) ==
  /\ slot[n] # Absent /\ ~slot[n].active
  /\ Change(n, Absent)

Next ==
  \/ Capture \/ Close \/ Terminate \/ Rename
  \/ ReopenSwapped \/ ReopenUntouched
  \/ Inspect \/ Drop \/ Create \/ RebindReturns
  \/ NextRestore \/ Crash \/ OperatorOpens
  \/ \E d \in Databases : ExpireBackup(d)
  \/ \E n \in Names : Attach(n) \/ Detach(n) \/ CreateSlot(n) \/ DropSlot(n)

Spec == Init /\ [][Next]_vars

-----------------------------------------------------------------------------
\* The variables hold values of their types.
TypeOK ==
  /\ current \in Databases
  /\ open \in BOOLEAN
  /\ slot \in [Names -> Slot \cup {Absent}]
  /\ step \in {"capture", "close", "terminate", "rename", "reopen swapped",
               "reopen untouched", "rebind", "drop", "create", "done"}
  /\ captured \subseteq Names
  /\ todo \subseteq captured
  /\ at \in Names
  /\ faults \in 0 .. MaxFaults

\* A slot of a backup has no consumer: the swap left the backup closed, "so
\* nothing can have reattached".
OrphansInactive ==
  \A n \in Names :
    slot[n] # Absent /\ slot[n].db # current => ~slot[n].active

\* After a restore without faults no captured slot is left on a backup,
\* whatever its consumer did in the meantime: it is in the new database, or
\* its consumer dropped it.
RebindComplete ==
  step = "done" /\ faults = 0 =>
    \A n \in captured : slot[n] = Absent \/ slot[n].db = current
=============================================================================
