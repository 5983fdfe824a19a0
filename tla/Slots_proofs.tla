---------------------------- MODULE Slots_proofs ----------------------------
(***************************************************************************)
(* The slots that a swap leaves on a backup have no consumer, and a        *)
(* restore without faults leaves none of those it captured there: for any  *)
(* number of slots and of swaps, whatever the consumers do meanwhile.      *)
(***************************************************************************)
EXTENDS Slots, TLAPS

\* The statements from the capture to the swap, and those after it.
Before == {"close", "terminate", "rename", "reopen swapped"}
Rebinding == {"rebind", "drop", "create", "done"}

\* The target is closed before its sessions end, so that none comes back
\* before the renames, which happen at most MaxSwaps times.
ClosedInv ==
  /\ step \in {"close", "terminate", "rename"} => current < MaxSwaps
  /\ step \in {"terminate", "rename"} => ~open
  /\ step = "rename" => \A n \in SlotsOf(current) : ~slot[n].active

\* A slot that the rebind has dealt with is not on a backup, except for the
\* one that it found there and is about to drop.
Bound(n) == slot[n] = Absent \/ slot[n].db = current

DealtInv ==
  faults = 0 =>
    /\ step \in Before => todo = captured
    /\ step \in Rebinding =>
         \A n \in captured \ todo : Bound(n) \/ (step = "drop" /\ n = at)
    /\ step = "done" => todo = {}

Inv == TypeOK /\ ClosedInv /\ OrphansInactive /\ DealtInv

-----------------------------------------------------------------------------
(***************************************************************************)
(* What may happen to the slots                                            *)
(***************************************************************************)

LEMMA SlotTypes ==
  ASSUME TypeOK, NEW n \in Names, slot[n] # Absent
  PROVE  /\ slot[n] \in Slot /\ slot[n].db \in Databases /\ slot[n].active \in BOOLEAN
         /\ \A b \in BOOLEAN : /\ [slot[n] EXCEPT !.active = b] \in Slot
                               /\ [slot[n] EXCEPT !.active = b].db = slot[n].db
                               /\ [slot[n] EXCEPT !.active = b].active = b
  BY DEF TypeOK, Slot

LEMMA FreshSlot ==
  ASSUME TypeOK, NEW d \in Databases
  PROVE  /\ [db |-> d, active |-> FALSE] \in Slot
         /\ [db |-> d, active |-> FALSE] # Absent
<1>1. [db |-> d, active |-> FALSE] \in Slot
  BY DEF Slot
<1> QED
  BY <1>1, AbsentAssumption

\* One slot is changed: it is dropped, or it is of the current database, or
\* its consumer leaves it.
LEMMA ChangeKeeps ==
  ASSUME Inv, NEW n \in Names, NEW value \in Slot \cup {Absent},
         slot' = [slot EXCEPT ![n] = value], UNCHANGED current,
         \/ value = Absent
         \/ value.db = current /\ (value.active => open)
         \/ slot[n] # Absent /\ value.db = slot[n].db /\ ~value.active
  PROVE  /\ slot' \in [Names -> Slot \cup {Absent}]
         /\ OrphansInactive'
         /\ \A m \in Names : Bound(m) => Bound(m)'
         /\ ~open /\ (\A m \in SlotsOf(current) : ~slot[m].active)
              => (\A m \in SlotsOf(current) : ~slot[m].active)'
<1>1. slot \in [Names -> Slot \cup {Absent}]
  BY DEF Inv, TypeOK
<1>2. slot'[n] = value /\ \A m \in Names \ {n} : slot'[m] = slot[m]
  BY <1>1
<1>3. OrphansInactive
  BY DEF Inv
<1>4. OrphansInactive'
  BY <1>2, <1>3 DEF OrphansInactive
<1>5. ASSUME NEW m \in Names, Bound(m) PROVE Bound(m)'
  BY <1>2, <1>5 DEF Bound
<1>6. ASSUME ~open, \A m \in SlotsOf(current) : ~slot[m].active
      PROVE  (\A m \in SlotsOf(current) : ~slot[m].active)'
  BY <1>2, <1>6 DEF SlotsOf
<1> QED
  BY <1>1, <1>4, <1>5, <1>6

\* A fault counts.
LEMMA FaultCounts ==
  ASSUME TypeOK
  PROVE  /\ Fault => faults' \in 0 .. MaxFaults /\ faults' # 0
         /\ UNCHANGED faults => faults' \in 0 .. MaxFaults
<1>1. faults \in 0 .. MaxFaults /\ MaxFaults \in Nat
  BY SlotsAssumption DEF TypeOK
<1> QED
  BY <1>1 DEF Fault

-----------------------------------------------------------------------------
(***************************************************************************)
(* The restore                                                             *)
(***************************************************************************)

LEMMA CaptureKeeps == ASSUME Inv, Capture PROVE Inv'
<1>1. TypeOK'
  BY FaultCounts DEF Inv, TypeOK, Capture, SlotsOf
<1>2. ClosedInv'
  BY DEF Inv, ClosedInv, Capture
<1>3. OrphansInactive'
  BY DEF Inv, OrphansInactive, Capture
<1>4. DealtInv'
  BY FaultCounts DEF Inv, DealtInv, Before, Rebinding, Capture
<1> QED
  BY <1>1, <1>2, <1>3, <1>4 DEF Inv

LEMMA CloseKeeps == ASSUME Inv, Close PROVE Inv'
<1>1. TypeOK'
  BY FaultCounts DEF Inv, TypeOK, Close, Statement
<1>2. ClosedInv'
  BY DEF Inv, ClosedInv, Close, Statement
<1>3. OrphansInactive'
  BY DEF Inv, OrphansInactive, Close
<1>4. DealtInv'
  BY FaultCounts DEF Inv, DealtInv, Before, Rebinding, Close, Statement
<1> QED
  BY <1>1, <1>2, <1>3, <1>4 DEF Inv

LEMMA TerminateKeeps == ASSUME Inv, Terminate PROVE Inv'
<1> DEFINE ended == [n \in Names |-> IF n \in SlotsOf(current)
                                       THEN [slot[n] EXCEPT !.active = FALSE]
                                       ELSE slot[n]]
<1>1. \A n \in Names : /\ ended[n] \in Slot \cup {Absent}
                       /\ ended[n] # Absent =>
                            /\ slot[n] # Absent /\ ended[n].db = slot[n].db
                            /\ n \in SlotsOf(current) => ~ended[n].active
                            /\ n \notin SlotsOf(current) => ended[n] = slot[n]
  BY SlotTypes, AbsentAssumption DEF Inv, TypeOK, SlotsOf
<1>2. /\ ended \in [Names -> Slot \cup {Absent}]
      /\ slot \in [Names -> Slot \cup {Absent}]
  BY <1>1 DEF Inv, TypeOK
<1>3. slot' = ended \/ (slot' = slot /\ step' = "capture")
  BY DEF Terminate, Statement
<1>4. TypeOK'
  BY <1>2, <1>3, FaultCounts DEF Inv, TypeOK, Terminate, Statement
<1>5. ClosedInv'
  <2>1. slot' = ended => \A n \in SlotsOf(current)' : ~slot'[n].active
    BY <1>1 DEF SlotsOf, Terminate
  <2> QED
    BY <2>1, <1>3 DEF Inv, ClosedInv, Terminate, Statement
<1>6. OrphansInactive'
  BY <1>1, <1>3 DEF Inv, OrphansInactive, SlotsOf, Terminate
<1>7. DealtInv'
  BY FaultCounts DEF Inv, DealtInv, Before, Rebinding, Terminate, Statement
<1> QED
  BY <1>4, <1>5, <1>6, <1>7 DEF Inv

\* The slots of the target become slots of a backup; they have no consumer.
LEMMA RenameKeeps == ASSUME Inv, Rename PROVE Inv'
<1>1. current \in 0 .. MaxSwaps /\ current < MaxSwaps
  BY DEF Inv, TypeOK, Databases, ClosedInv, Rename
<1>2. TypeOK'
  <2>1. current' \in {current, current + 1}
    BY DEF Rename
  <2>2. current' \in Databases
    BY <1>1, <2>1, SlotsAssumption DEF Databases
  <2> QED
    BY <2>2, FaultCounts DEF Inv, TypeOK, Rename
<1>3. ClosedInv'
  BY DEF Inv, ClosedInv, Rename
<1>4. \A n \in Names : slot[n] # Absent => ~slot[n].active
  BY DEF Inv, ClosedInv, OrphansInactive, SlotsOf, Rename
<1>5. OrphansInactive'
  BY <1>4 DEF OrphansInactive, Rename
<1>6. DealtInv'
  BY FaultCounts DEF Inv, DealtInv, Before, Rebinding, Rename
<1> QED
  BY <1>2, <1>3, <1>5, <1>6 DEF Inv

LEMMA ReopenKeeps == ASSUME Inv, ReopenSwapped \/ ReopenUntouched PROVE Inv'
<1>1. TypeOK'
  BY FaultCounts DEF Inv, TypeOK, ReopenSwapped, ReopenUntouched, Statement
<1>2. ClosedInv'
  BY DEF Inv, ClosedInv, ReopenSwapped, ReopenUntouched, Statement
<1>3. OrphansInactive'
  BY DEF Inv, OrphansInactive, ReopenSwapped, ReopenUntouched
<1>4. DealtInv'
  BY FaultCounts DEF Inv, DealtInv, Before, Rebinding, ReopenSwapped, ReopenUntouched,
     Statement
<1> QED
  BY <1>1, <1>2, <1>3, <1>4 DEF Inv

\* A slot in use is passed over: it is of the current database.
LEMMA InspectKeeps == ASSUME Inv, Inspect PROVE Inv'
<1>1. TypeOK'
  BY FaultCounts DEF Inv, TypeOK, Inspect
<1>2. ClosedInv'
  BY DEF Inv, ClosedInv, Inspect
<1>3. OrphansInactive'
  BY DEF Inv, OrphansInactive, Inspect
<1>4. DealtInv'
  <2> SUFFICES ASSUME faults' = 0 PROVE DealtInv'
    BY DEF DealtInv
  <2>1. UNCHANGED faults
    BY FaultCounts DEF Inv, Inspect
  <2>2. PICK n \in todo : /\ at' = n /\ todo' = todo \ {n}
                          /\ step' = IF slot[n] = Absent THEN "create"
                                     ELSE IF slot[n].active THEN "rebind" ELSE "drop"
    BY <2>1, FaultCounts DEF Inv, Inspect
  <2>3. n \in Names /\ UNCHANGED <<current, slot, captured>>
    BY DEF Inv, TypeOK, Inspect
  <2>4. step' # "drop" => Bound(n)
    BY <2>2, <2>3 DEF Inv, OrphansInactive, Bound
  <2>5. \A m \in captured \ todo : Bound(m)
    BY <2>1 DEF Inv, DealtInv, Rebinding, Inspect
  <2>6. \A m \in captured : Bound(m)' <=> Bound(m)
    BY <2>3 DEF Bound
  <2>7. \A m \in captured' \ todo' : Bound(m)' \/ (step' = "drop" /\ m = at')
    BY <2>2, <2>3, <2>4, <2>5, <2>6
  <2> QED
    BY <2>2, <2>7 DEF DealtInv, Before
<1> QED
  BY <1>1, <1>2, <1>3, <1>4 DEF Inv

\* A statement that changes one slot as in ChangeKeeps keeps the first three
\* parts of the invariant, and what it was of the rest.
LEMMA RebindStep ==
  ASSUME Inv, UNCHANGED <<current, open, captured, todo, at>>,
         step \in {"drop", "create"}, step' \in {"rebind", "create"},
         UNCHANGED faults \/ Fault,
         slot' \in [Names -> Slot \cup {Absent}], OrphansInactive',
         \A m \in Names : Bound(m) => Bound(m)',
         faults' = 0 /\ at \in captured \ todo => Bound(at)'
  PROVE  Inv'
<1>1. TypeOK'
  BY FaultCounts DEF Inv, TypeOK
<1>2. ClosedInv'
  BY DEF ClosedInv
<1>3. DealtInv'
  <2> SUFFICES ASSUME faults' = 0, NEW m \in captured \ todo PROVE Bound(m)'
    BY DEF DealtInv, Before, Rebinding
  <2>1. faults = 0
    BY FaultCounts DEF Inv
  <2>2. Bound(m) \/ m = at
    BY <2>1 DEF Inv, DealtInv, Rebinding
  <2> QED
    BY <2>2 DEF Inv, TypeOK
<1> QED
  BY <1>1, <1>2, <1>3 DEF Inv

LEMMA DropKeeps == ASSUME Inv, Drop PROVE Inv'
<1>1. at \in Names
  BY DEF Inv, TypeOK
<1>2. CASE UNCHANGED slot
  <2>1. faults' = 0 => slot[at] = Absent \/ slot[at].active
    BY <1>2, FaultCounts, <1>1 DEF Inv, Drop, Statement, TypeOK
  <2>2. faults' = 0 => Bound(at)'
    BY <1>1, <1>2, <2>1 DEF Inv, OrphansInactive, Bound, Drop
  <2>3. \A m \in Names : Bound(m) => Bound(m)'
    BY <1>2 DEF Bound, Drop
  <2>4. OrphansInactive' /\ slot' \in [Names -> Slot \cup {Absent}]
    BY <1>2 DEF Inv, TypeOK, OrphansInactive, Drop
  <2> QED
    BY <2>2, <2>3, <2>4, RebindStep DEF Drop, Statement, Rebinding
<1>3. CASE slot' = [slot EXCEPT ![at] = Absent]
  <2>1. Bound(at)'
    BY <1>1, <1>3 DEF Inv, TypeOK, Bound, Drop
  <2> QED
    BY <1>1, <1>3, <2>1, ChangeKeeps, RebindStep DEF Drop, Statement, Rebinding
<1> QED
  BY <1>2, <1>3 DEF Drop, Statement

LEMMA CreateKeeps == ASSUME Inv, Create PROVE Inv'
<1> DEFINE new == [db |-> current, active |-> FALSE]
<1>1. at \in Names /\ new \in Slot
  BY FreshSlot DEF Inv, TypeOK
<1>2. CASE UNCHANGED slot
  <2>1. faults' = 0 /\ at \in captured \ todo => Bound(at)
    BY FaultCounts DEF Inv, DealtInv, Rebinding, Create, Statement
  <2>3. \A m \in Names : Bound(m) => Bound(m)'
    BY <1>2 DEF Bound, Create
  <2>4. OrphansInactive' /\ slot' \in [Names -> Slot \cup {Absent}]
    BY <1>2 DEF Inv, TypeOK, OrphansInactive, Create
  <2> QED
    BY <1>1, <2>1, <2>3, <2>4, RebindStep DEF Create, Statement, Rebinding
<1>3. CASE slot' = [slot EXCEPT ![at] = new]
  <2>1. Bound(at)'
    BY <1>1, <1>3 DEF Inv, TypeOK, Bound, Create
  <2> QED
    BY <1>1, <1>3, <2>1, ChangeKeeps, RebindStep DEF Create, Statement, Rebinding
<1> QED
  BY <1>2, <1>3 DEF Create, Statement

LEMMA EndsKeep == ASSUME Inv, RebindReturns \/ NextRestore \/ Crash PROVE Inv'
<1>1. TypeOK'
  BY FaultCounts DEF Inv, TypeOK, RebindReturns, NextRestore, Crash
<1>2. ClosedInv'
  BY DEF ClosedInv, RebindReturns, NextRestore, Crash
<1>3. OrphansInactive'
  BY DEF Inv, OrphansInactive, RebindReturns, NextRestore, Crash
<1>4. DealtInv'
  <2>1. CASE RebindReturns
    <3>1. \A m \in captured : Bound(m)' <=> Bound(m)
      BY <2>1 DEF Bound, RebindReturns
    <3> QED
      BY <2>1, <3>1 DEF Inv, DealtInv, Before, Rebinding, RebindReturns
  <2>2. CASE NextRestore \/ Crash
    BY <2>2, FaultCounts DEF Inv, DealtInv, Before, Rebinding, NextRestore, Crash
  <2> QED
    BY <2>1, <2>2
<1> QED
  BY <1>1, <1>2, <1>3, <1>4 DEF Inv

-----------------------------------------------------------------------------
(***************************************************************************)
(* The operator, the retention and the consumers                           *)
(***************************************************************************)

LEMMA OpenKeeps == ASSUME Inv, OperatorOpens PROVE Inv'
<1>1. TypeOK'
  BY DEF Inv, TypeOK, OperatorOpens
<1>2. ClosedInv' /\ OrphansInactive'
  BY DEF Inv, ClosedInv, OrphansInactive, OperatorOpens
<1>3. DealtInv'
  BY DEF Inv, DealtInv, Before, Rebinding, OperatorOpens
<1> QED
  BY <1>1, <1>2, <1>3 DEF Inv

LEMMA ExpireKeeps ==
  ASSUME Inv, NEW d \in Databases, ExpireBackup(d) PROVE Inv'
<1>1. /\ slot' \in [Names -> Slot \cup {Absent}]
      /\ \A n \in Names : slot'[n] = Absent \/ slot'[n] = slot[n]
  BY DEF Inv, TypeOK, ExpireBackup
<1>2. TypeOK'
  BY <1>1 DEF Inv, TypeOK, ExpireBackup
<1>3. ClosedInv'
  BY DEF ClosedInv, ExpireBackup
<1>4. OrphansInactive'
  BY <1>1 DEF Inv, OrphansInactive, ExpireBackup
<1>5. DealtInv'
  BY DEF Inv, DealtInv, Before, Rebinding, ExpireBackup
<1> QED
  BY <1>2, <1>3, <1>4, <1>5 DEF Inv

LEMMA ConsumerKeeps ==
  ASSUME Inv, NEW n \in Names,
         Attach(n) \/ Detach(n) \/ CreateSlot(n) \/ DropSlot(n)
  PROVE  Inv'
<1> DEFINE Allowed(v) ==
      \/ v = Absent
      \/ v.db = current /\ (v.active => open)
      \/ slot[n] # Absent /\ v.db = slot[n].db /\ ~v.active
<1>1. UNCHANGED <<current, open, step, captured, todo, at, faults>>
  BY DEF Attach, Detach, CreateSlot, DropSlot, Change
<1>2. PICK value \in Slot \cup {Absent} :
        slot' = [slot EXCEPT ![n] = value] /\ Allowed(value)
  <2>1. CASE Attach(n)
    <3> DEFINE new == [slot[n] EXCEPT !.active = TRUE]
    <3>1. slot[n] # Absent /\ slot[n].db = current /\ open /\ slot' = [slot EXCEPT ![n] = new]
      BY <2>1 DEF Attach, Change, SlotsOf
    <3>2. new \in Slot /\ new.db = slot[n].db
      BY <3>1, SlotTypes DEF Inv
    <3> HIDE DEF new
    <3>3. Allowed(new)
      BY <3>1, <3>2
    <3> QED
      BY <3>1, <3>2, <3>3
  <2>2. CASE Detach(n)
    <3> DEFINE new == [slot[n] EXCEPT !.active = FALSE]
    <3>1. slot[n] # Absent /\ slot' = [slot EXCEPT ![n] = new]
      BY <2>2 DEF Detach, Change
    <3>2. new \in Slot /\ new.db = slot[n].db /\ ~new.active
      BY <3>1, SlotTypes DEF Inv
    <3> HIDE DEF new
    <3>3. Allowed(new)
      BY <3>1, <3>2
    <3> QED
      BY <3>1, <3>2, <3>3
  <2>3. CASE CreateSlot(n)
    <3> DEFINE new == [db |-> current, active |-> FALSE]
    <3>1. new \in Slot /\ new.db = current /\ ~new.active
      BY FreshSlot DEF Inv, TypeOK
    <3>2. slot' = [slot EXCEPT ![n] = new]
      BY <2>3 DEF CreateSlot, Change
    <3> QED
      BY <3>1, <3>2
  <2>4. CASE DropSlot(n)
    BY <2>4 DEF DropSlot, Change
  <2> QED
    BY <2>1, <2>2, <2>3, <2>4
<1>3. /\ slot' \in [Names -> Slot \cup {Absent}]
      /\ OrphansInactive'
      /\ \A m \in Names : Bound(m) => Bound(m)'
      /\ ~open /\ (\A m \in SlotsOf(current) : ~slot[m].active)
           => (\A m \in SlotsOf(current) : ~slot[m].active)'
  BY <1>1, <1>2, ChangeKeeps
<1>4. TypeOK'
  BY <1>1, <1>3 DEF Inv, TypeOK
<1>5. ClosedInv'
  BY <1>1, <1>3 DEF Inv, ClosedInv
<1>6. DealtInv'
  <2>1. captured \subseteq Names
    BY DEF Inv, TypeOK
  <2> QED
    BY <1>1, <1>3, <2>1 DEF Inv, DealtInv
<1> QED
  BY <1>3, <1>4, <1>5, <1>6 DEF Inv

-----------------------------------------------------------------------------
LEMMA InvInit == Init => Inv
<1> SUFFICES ASSUME Init PROVE Inv
  OBVIOUS
<1>1. TypeOK
  BY SlotsAssumption DEF Init, TypeOK, Slot, Databases
<1>2. ClosedInv /\ DealtInv
  BY DEF Init, ClosedInv, DealtInv, Before, Rebinding
<1>3. OrphansInactive
  BY DEF Init, OrphansInactive
<1> QED
  BY <1>1, <1>2, <1>3 DEF Inv

LEMMA InvNext == Inv /\ [Next]_vars => Inv'
<1> SUFFICES ASSUME Inv, [Next]_vars PROVE Inv'
  OBVIOUS
<1>1. CASE UNCHANGED vars
  BY <1>1 DEF vars, Inv, TypeOK, ClosedInv, OrphansInactive, DealtInv, Bound, SlotsOf
<1>2. CASE Next
  BY <1>2, CaptureKeeps, CloseKeeps, TerminateKeeps, RenameKeeps, ReopenKeeps,
     InspectKeeps, DropKeeps, CreateKeeps, EndsKeep, OpenKeeps, ExpireKeeps,
     ConsumerKeeps DEF Next
<1> QED
  BY <1>1, <1>2

LEMMA SlotsInv == Spec => []Inv
  BY InvInit, InvNext, PTL DEF Spec

\* Every variable of the slots has its type (restore/slots.go).
THEOREM SlotsTyped == Spec => []TypeOK
<1>1. Inv => TypeOK
  BY DEF Inv
<1> QED
  BY <1>1, SlotsInv, PTL

\* A slot left on a backup has no consumer, so that the rebind can drop it: the
\* target is closed before its sessions end, and stays closed until it has its
\* new name.  No failure of the restore changes that.
THEOREM OrphansHaveNoConsumer == Spec => []OrphansInactive
<1>1. Inv => OrphansInactive
  BY DEF Inv
<1> QED
  BY <1>1, SlotsInv, PTL

\* When a restore without faults is done, every slot it captured is in the new
\* database or was dropped by its consumer, also one that its consumer took
\* over or recreated between two statements of the rebind.
THEOREM RebindsAreComplete == Spec => []RebindComplete
<1>1. Inv => RebindComplete
  BY DEF Inv, DealtInv, Rebinding, Bound, RebindComplete
<1> QED
  BY <1>1, SlotsInv, PTL
=============================================================================
