-------------------------------- MODULE Boot --------------------------------
(***************************************************************************)
(* BootInitializer.initialize and reset_failed (database/bootstrap.py)     *)
(* over the reconciliation of module Reconciliation. Threads of a process  *)
(* share one boot state per identity; the processes share the database.    *)
(*                                                                         *)
(* The migration runner is taken by what initialize uses of it: one        *)
(* transaction that brings the schema to the expected revision or fails.   *)
(***************************************************************************)
EXTENDS Reconciliation

CONSTANTS
  Processes,
  ProcessOf,   \* the process of a thread
  MaxCrashes   \* bound: crashes of a process

\* What the module takes for granted of its constants.
BootConstants ==
  /\ ProcessOf \in [Runners -> Processes]
  /\ MaxCrashes \in Nat

VARIABLES
  boot,      \* _SharedBootState of every process
  thread,    \* the callers of initialize
  notified,  \* waiters that notify_all has woken
  migrated,  \* the schema is at the expected revision
  crashes

bootVars == <<boot, thread, notified, migrated, crashes>>
allVars == <<vars, bootVars>>

Shared ==
  [status : {"new", "running", "ready", "failed"}, plan : Plans \cup {Null}]

NewBoot == [status |-> "new", plan |-> Null]

\* Between calls, inside initialize, and the ways in which it ends.
Ended == {"idle", "report", "refused", "failed"}
ThreadStates == Ended \cup {"waiting", "migrating", "reconciling"}

\* The boot state names a plan exactly when an attempt was made.
BootTypeOK ==
  /\ TypeOK
  /\ boot \in [Processes -> Shared]
  /\ \A p \in Processes : boot[p].plan = Null <=> boot[p].status = "new"
  /\ thread \in [Runners -> ThreadStates]
  /\ notified \subseteq Runners
  /\ migrated \in BOOLEAN
  /\ crashes \in 0 .. MaxCrashes

BootInit ==
  /\ Init
  /\ boot = [p \in Processes |-> NewBoot]
  /\ thread = [t \in Runners |-> "idle"]
  /\ notified = {}
  /\ migrated = FALSE
  /\ crashes = 0

StateOf(t) == boot[ProcessOf[t]]

Waiters(p) == {t \in Runners : ProcessOf[t] = p /\ thread[t] = "waiting"}

\* The part of initialize under the condition, for a caller that arrives or wakes up:
\* wait, refuse another plan, return the report, raise, or become the one that boots.
Enter(t) ==
  LET b == StateOf(t)
      same == b.plan = Plan[t]
  IN  /\ thread' = [thread EXCEPT ![t] =
           CASE b.status = "new" -> "migrating"
             [] b.status = "running" /\ same -> "waiting"
             [] b.status = "ready" /\ same -> "report"
             [] b.status = "failed" -> "failed"
             [] OTHER -> "refused"]
      /\ boot' = IF b.status = "new"
                 THEN [boot EXCEPT ![ProcessOf[t]] = [status |-> "running", plan |-> Plan[t]]]
                 ELSE boot

Initialize(t) ==
  /\ thread[t] \in Ended
  /\ run[t].pc = "idle"
  /\ calls < MaxCalls
  /\ calls' = calls + 1
  /\ Enter(t)
  /\ UNCHANGED <<marker, lock, run, finished, drops, notified, migrated, crashes>>

Wake(t) ==
  /\ thread[t] = "waiting"
  /\ t \in notified
  /\ notified' = notified \ {t}
  /\ Enter(t)
  /\ UNCHANGED <<vars, migrated, crashes>>

\* Mutant: waiters are not notified.
PublishSilent(t, status) ==
  /\ boot' = [boot EXCEPT ![ProcessOf[t]].status = status]
  /\ notified' = notified

\* The status is published and all waiters are notified.
Publish(t, status) ==
  /\ boot' = [boot EXCEPT ![ProcessOf[t]].status = status]
  /\ notified' = notified \cup Waiters(ProcessOf[t])

\* The migration commits, and reconciliation is called.
Migrate(t) ==
  /\ thread[t] = "migrating"
  /\ migrated' = TRUE
  /\ thread' = [thread EXCEPT ![t] = "reconciling"]
  /\ run' = [run EXCEPT ![t] = [NoRun EXCEPT !.pc = "lock", !.conn = "open", !.active = TRUE]]
  /\ UNCHANGED <<marker, lock, finished, calls, drops, boot, notified, crashes>>

\* The migration raises, perhaps after a commit whose acknowledgement was lost.
MigrateRaises(t) ==
  /\ thread[t] = "migrating"
  /\ migrated' \in {migrated, TRUE}
  /\ thread' = [thread EXCEPT ![t] = "failed"]
  /\ Publish(t, "failed")
  /\ UNCHANGED <<vars, crashes>>

\* run has returned a report, or raised (an interrupt reaches the finally clause).
Conclude(t) ==
  /\ thread[t] = "reconciling"
  /\ run[t].pc = "idle"
  /\ LET ok == run[t].result = "report" IN
     /\ Publish(t, IF ok THEN "ready" ELSE "failed")
     /\ thread' = [thread EXCEPT ![t] = IF ok THEN "report" ELSE "failed"]
  /\ UNCHANGED <<vars, migrated, crashes>>

\* reset_failed: only a failed boot state is reset, and nobody is notified.
ResetFailed(p) ==
  /\ boot[p].status = "failed"
  /\ boot' = [boot EXCEPT ![p] = NewBoot]
  /\ UNCHANGED <<vars, thread, notified, migrated, crashes>>

\* The process ends and starts again: its sessions end and its boot state is new.
Crash(p) ==
  /\ crashes < MaxCrashes
  /\ crashes' = crashes + 1
  /\ boot' = [boot EXCEPT ![p] = NewBoot]
  /\ LET here == {t \in Runners : ProcessOf[t] = p} IN
     /\ thread' = [t \in Runners |-> IF t \in here THEN "idle" ELSE thread[t]]
     /\ run' = [t \in Runners |-> IF t \in here THEN NoRun ELSE run[t]]
     /\ notified' = notified \ here
     /\ lock' = IF lock \in here THEN Null ELSE lock
  /\ UNCHANGED <<marker, finished, calls, drops, migrated>>

Reconcile(t) ==
  /\ thread[t] = "reconciling"
  /\ Steps(t) \/ Faults(t)
  /\ UNCHANGED bootVars

BootNext ==
  \/ \E t \in Runners :
       \/ Initialize(t) \/ Wake(t)
       \/ Migrate(t) \/ MigrateRaises(t)
       \/ Reconcile(t) \/ Conclude(t)
  \/ \E p \in Processes : ResetFailed(p) \/ Crash(p)

BootSpec == BootInit /\ [][BootNext]_allVars

\* Threads that can go on do, as in LiveSpec, and a migration commits or raises.
BootGoesOn(t) ==
  \/ Wake(t) \/ Migrate(t) \/ Conclude(t)
  \/ thread[t] = "reconciling" /\ GoesOn(t) /\ UNCHANGED bootVars

BootLiveSpec == BootSpec /\ \A t \in Runners : WF_allVars(BootGoesOn(t))

-----------------------------------------------------------------------------
\* Every hook of a plan is durably completed.
PlanComplete(plan) ==
  \A i \in DOMAIN PlanHooks[plan] : marker[plan][PlanHooks[plan][i]].state = "completed"

\* A process that is ready has a migrated schema and a durably completed plan.
ReadySound ==
  \A p \in Processes : boot[p].status = "ready" => migrated /\ PlanComplete(boot[p].plan)

\* initialize returns a report only to a caller whose own plan is complete, also to one
\* that waited for an attempt that failed and was replaced by another plan's.
ReportMatchesPlan ==
  \A t \in Runners : thread[t] = "report" => migrated /\ PlanComplete(Plan[t])

\* A waiter that was not notified waits for a thread that is still booting its plan:
\* none is left behind by a failure, a reset or another plan's attempt.
NoLostWaiter ==
  \A t \in Runners : thread[t] = "waiting" /\ t \notin notified =>
    /\ StateOf(t) = [status |-> "running", plan |-> Plan[t]]
    /\ \E u \in Runners : ProcessOf[u] = ProcessOf[t] /\ thread[u] \in {"migrating", "reconciling"}

\* One thread of a process boots at a time, and only while the state says running.
OneBooter ==
  \A t, u \in Runners :
    /\ thread[t] \in {"migrating", "reconciling"} => StateOf(t) =
         [status |-> "running", plan |-> Plan[t]]
    /\ /\ ProcessOf[t] = ProcessOf[u]
       /\ thread[t] \in {"migrating", "reconciling"}
       /\ thread[u] \in {"migrating", "reconciling"}
       => t = u

\* Every call of initialize ends, in a process that waits for another one's lock and
\* for a thread that waits for another one's attempt.
InitializeReturns == \A t \in Runners : thread[t] \notin Ended ~> thread[t] \in Ended

=============================================================================
