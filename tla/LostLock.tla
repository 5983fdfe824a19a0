------------------------------ MODULE LostLock ------------------------------
(***************************************************************************)
(* Restores whose advisory lock may be lost: it belongs to a session of    *)
(* the admin pool, and the pool closes sessions that are idle, or old,     *)
(* while the data is loading (pg/conn.go opens it with its defaults).      *)
(***************************************************************************)
EXTENDS Restore

\* The lock is free again, and the run that had it does not know.
ReapLockSession(p) ==
  /\ pc[p] = "load"
  /\ lock[target(p)] = p
  /\ lock' = [lock EXCEPT ![target(p)] = NoProc]
  /\ UNCHANGED <<catalog, pc, job, cancelled, nextId, now, faults>>

ReapingNext == Next \/ \E p \in Procs : ReapLockSession(p)

ReapingSpec == Init /\ [][ReapingNext]_vars
=============================================================================
