--------------------------- MODULE Reconciliation ---------------------------
(***************************************************************************)
(* Reconciliation of a database after migration: ReconciliationRunner.run  *)
(* (reconciliation.py) over PostgresReconciliationCoordinator and its      *)
(* session (reconciliation_store.py).                                      *)
(*                                                                         *)
(* A runner takes a session advisory lock on a connection of its own,      *)
(* then starts, executes and completes the hooks of its plan one by one.   *)
(* Every transition of a marker commits on that same connection, so it     *)
(* can only happen while the server still holds the lock for it.           *)
(*                                                                         *)
(* The server may drop a connection anywhere (Drop), a commit may lose     *)
(* its acknowledgement, a statement may fail on a healthy connection, and  *)
(* KeyboardInterrupt or SystemExit may arrive anywhere (Interrupt).        *)
(*                                                                         *)
(* A result digest stands for the attempt that computed it.                *)
(***************************************************************************)
EXTENDS Naturals, Sequences, FiniteSets

CONSTANTS
  Runners,    \* threads that call run
  Plans,      \* plan digests (with their schema revision)
  Hooks,      \* hook identities: name and version
  Plan,       \* the plan of a runner
  PlanHooks,  \* the hooks of a plan, in order
  Null,
  MaxCalls,   \* bound: calls of run
  MaxDrops    \* bound: connections the server drops

\* What the module takes for granted of its constants.
ReconciliationConstants ==
  /\ Plan \in [Runners -> Plans]
  /\ \A p \in Plans : PlanHooks[p] \in Seq(Hooks) /\ PlanHooks[p] # <<>>
  /\ Null \notin Runners
  /\ MaxCalls \in Nat
  /\ MaxDrops \in Nat

VARIABLES
  marker,    \* the table astralplane_reconciliation_marker
  lock,      \* the runner whose session holds the advisory lock
  run,       \* the runners
  finished,  \* history: the attempts whose hook returned a result
  calls,     \* calls of run so far
  drops      \* dropped connections so far

vars == <<marker, lock, run, finished, calls, drops>>

Attempts == 0 .. MaxCalls

Marker ==
  [state : {"none", "started", "failed", "completed"}, attempt : Attempts, digest : Attempts,
   error : BOOLEAN]

NoMarker == [state |-> "none", attempt |-> 0, digest |-> 0, error |-> FALSE]

\* What _marker_from_row accepts: the state decides which columns are set.
WellFormed(m) ==
  /\ m.attempt = 0 <=> m.state = "none"
  /\ m.digest # 0 <=> m.state = "completed"
  /\ m.error <=> m.state = "failed"

Run ==
  [pc : {"idle", "lock", "read", "start", "hook", "complete", "completed", "fail", "verify",
         "release"},
   i : Nat,                            \* the hook at work
   seen : Attempts,                    \* attempt of the marker as read, 0 without one
   attempt : Attempts,                 \* attempt started by this run
   conn : {"none", "open", "lost"},    \* the borrowed connection
   active : BOOLEAN,                   \* PostgresReconciliationSession._active
   result : {"none", "report", "error"}]

NoRun ==
  [pc |-> "idle", i |-> 1, seen |-> 0, attempt |-> 0, conn |-> "none", active |-> FALSE,
   result |-> "none"]

\* The table only ever holds markers that _marker_from_row reads back without an error,
\* so that no run is stuck on a row an earlier one left.
TypeOK ==
  /\ marker \in [Plans -> [Hooks -> Marker]]
  /\ \A p \in Plans, h \in Hooks : WellFormed(marker[p][h])
  /\ lock \in Runners \cup {Null}
  /\ run \in [Runners -> Run]
  /\ finished \in [Plans -> [Hooks -> SUBSET Attempts]]
  /\ calls \in 0 .. MaxCalls
  /\ drops \in 0 .. MaxDrops

Init ==
  /\ marker = [p \in Plans |-> [h \in Hooks |-> NoMarker]]
  /\ lock = Null
  /\ run = [t \in Runners |-> NoRun]
  /\ finished = [p \in Plans |-> [h \in Hooks |-> {}]]
  /\ calls = 0
  /\ drops = 0

Hook(t) == PlanHooks[Plan[t]][run[t].i]

Row(t) == marker[Plan[t]][Hook(t)]

AtLast(t) == run[t].i = Len(PlanHooks[Plan[t]])

\* The server ends the session of t: its lock goes with it.
FreedBy(t) == IF lock = t THEN Null ELSE lock

\* The run goes on to `pc' and leaves the connection alone.
Goto(t, pc) == run' = [run EXCEPT ![t].pc = pc]

-----------------------------------------------------------------------------
\* run: the plan is fixed and a connection is borrowed from the pool.
Call(t) ==
  /\ run[t].pc = "idle"
  /\ calls < MaxCalls
  /\ calls' = calls + 1
  /\ run' = [run EXCEPT ![t] = [NoRun EXCEPT !.pc = "lock", !.conn = "open", !.active = TRUE]]
  /\ UNCHANGED <<marker, lock, finished, drops>>

\* Mutant: the lock is not exclusive.
AcquireShared(t) ==
  /\ run[t].pc = "lock"
  /\ run[t].conn = "open"
  /\ lock' = t
  /\ Goto(t, "read")
  /\ UNCHANGED <<marker, finished, calls, drops>>

\* pg_advisory_lock returns.
Acquire(t) ==
  /\ run[t].pc = "lock"
  /\ run[t].conn = "open"
  /\ lock = Null
  /\ lock' = t
  /\ Goto(t, "read")
  /\ UNCHANGED <<marker, finished, calls, drops>>

\* _acquire fails: the connection is closed, which frees a lock it may hold.
AcquireFails(t) ==
  /\ run[t].pc = "lock"
  /\ run' = [run EXCEPT ![t] = [NoRun EXCEPT !.result = "error"]]
  /\ lock' = FreedBy(t)
  /\ UNCHANGED <<marker, finished, calls, drops>>

\* get_marker for the next hook; a completed one is skipped.
ReadMarker(t) ==
  /\ run[t].pc = "read"
  /\ run[t].conn = "open"
  /\ LET done == Row(t).state = "completed" IN
     run' = [run EXCEPT ![t] =
       [@ EXCEPT !.pc   = CASE ~done -> "start"
                            [] done /\ AtLast(t) -> "verify"
                            [] OTHER -> "read",
                 !.i    = CASE ~done -> @
                            [] done /\ AtLast(t) -> 1
                            [] OTHER -> @ + 1,
                 !.seen = IF done THEN 0 ELSE Row(t).attempt]]
  /\ UNCHANGED <<marker, lock, finished, calls, drops>>

\* The effects of the three statements on a row: the WHERE clause and the SET list.
Startable(m) == m.state \in {"none", "started", "failed"}
Started(m) == [state |-> "started", attempt |-> m.attempt + 1, digest |-> 0, error |-> FALSE]

Settleable(m) == m.state = "started"
Completed(m, digest) ==
  [m EXCEPT !.state = "completed", !.digest = digest, !.error = FALSE]
Failed(m) == [m EXCEPT !.state = "failed", !.digest = 0, !.error = TRUE]

\* The session can execute a statement.
Usable(t) == run[t].active /\ run[t].conn = "open"

\* _commit_marker succeeds.
Commits(t, m) == marker' = [marker EXCEPT ![Plan[t]][Hook(t)] = m]

\* _commit_marker raises. A commit that fails may have happened or not; the session
\* is closed. A failed statement on a healthy connection is rolled back and leaves
\* the session usable, and so does an UPDATE that matches no row. Otherwise the
\* session was gone already.
CommitRaises(t, m, allowed, pc) ==
  \/ /\ Usable(t) /\ allowed
     /\ Commits(t, m) \/ UNCHANGED marker
     /\ run' = [run EXCEPT ![t].pc = pc, ![t].conn = "lost", ![t].active = FALSE]
     /\ lock' = FreedBy(t)
  \/ /\ Usable(t)
     /\ Goto(t, pc)
     /\ UNCHANGED <<marker, lock>>
  \/ /\ ~Usable(t)
     /\ run' = [run EXCEPT ![t].pc = pc, ![t].active = FALSE]
     /\ UNCHANGED <<marker, lock>>

\* mark_started, and the check that the attempt follows the one that was read.
MarkStarted(t) ==
  /\ run[t].pc = "start"
  /\ Usable(t)
  /\ Startable(Row(t))
  /\ Commits(t, Started(Row(t)))
  /\ run' = [run EXCEPT
       ![t].pc = IF Started(Row(t)).attempt = run[t].seen + 1 THEN "hook" ELSE "fail",
       ![t].attempt = Started(Row(t)).attempt]
  /\ UNCHANGED <<lock, finished, calls, drops>>

\* A failing mark_started ends the run without a failure marker.
MarkStartedRaises(t) ==
  /\ run[t].pc = "start"
  /\ CommitRaises(t, Started(Row(t)), Startable(Row(t)), "release")
  /\ UNCHANGED <<finished, calls, drops>>

\* The hook of the product returns a result, or raises (or returns no mapping).
HookReturns(t) ==
  /\ run[t].pc = "hook"
  /\ Goto(t, "complete")
  /\ finished' = [finished EXCEPT ![Plan[t]][Hook(t)] = @ \cup {run[t].attempt}]
  /\ UNCHANGED <<marker, lock, calls, drops>>

HookRaises(t) ==
  /\ run[t].pc = "hook"
  /\ Goto(t, "fail")
  /\ UNCHANGED <<marker, lock, finished, calls, drops>>

\* mark_completed, and the check that the attempt is the one that was started.
MarkCompleted(t) ==
  /\ run[t].pc = "complete"
  /\ Usable(t)
  /\ Settleable(Row(t))
  /\ Commits(t, Completed(Row(t), run[t].attempt))
  /\ Goto(t, IF Row(t).attempt = run[t].attempt THEN "completed" ELSE "fail")
  /\ UNCHANGED <<lock, finished, calls, drops>>

MarkCompletedRaises(t) ==
  /\ run[t].pc = "complete"
  /\ CommitRaises(t, Completed(Row(t), run[t].attempt), Settleable(Row(t)), "fail")
  /\ UNCHANGED <<finished, calls, drops>>

\* completed = True: on to the next hook, or to the final look at all markers.
NextHook(t) ==
  /\ run[t].pc = "completed"
  /\ run' = [run EXCEPT ![t].pc = IF AtLast(t) THEN "verify" ELSE "read",
                        ![t].i = IF AtLast(t) THEN 1 ELSE @ + 1]
  /\ UNCHANGED <<marker, lock, finished, calls, drops>>

\* _durable_failure; whether or not it succeeds, the run ends with an error.
MarkFailed(t) ==
  /\ run[t].pc = "fail"
  /\ Usable(t)
  /\ Settleable(Row(t))
  /\ Commits(t, Failed(Row(t)))
  /\ Goto(t, "release")
  /\ UNCHANGED <<lock, finished, calls, drops>>

MarkFailedRaises(t) ==
  /\ run[t].pc = "fail"
  /\ CommitRaises(t, Failed(Row(t)), Settleable(Row(t)), "release")
  /\ UNCHANGED <<finished, calls, drops>>

\* The markers are read once more. A marker that is not completed would fail the run.
Verify(t) ==
  /\ run[t].pc = "verify"
  /\ run[t].conn = "open"
  /\ IF Row(t).state # "completed" THEN Goto(t, "fail")
     ELSE IF AtLast(t)
       THEN run' = [run EXCEPT ![t].pc = "release", ![t].result = "report"]
       ELSE run' = [run EXCEPT ![t].i = @ + 1]
  /\ UNCHANGED <<marker, lock, finished, calls, drops>>

\* get_marker raises: on a lost connection, or on a healthy one.
ReadRaises(t) ==
  /\ run[t].pc \in {"read", "verify"}
  /\ run' = [run EXCEPT ![t].pc = "release", ![t].active = @ /\ run[t].conn = "open"]
  /\ UNCHANGED <<marker, lock, finished, calls, drops>>

\* _release: unlock and give the connection back.
Release(t) ==
  /\ run[t].pc = "release"
  /\ run[t].conn = "open"
  /\ lock' = FreedBy(t)
  /\ run' = [run EXCEPT ![t] = [NoRun EXCEPT !.result =
               IF run[t].result = "report" THEN "report" ELSE "error"]]
  /\ UNCHANGED <<marker, finished, calls, drops>>

\* _release raises and closes the connection; the report is lost, an error is kept.
ReleaseRaises(t) ==
  /\ run[t].pc = "release"
  /\ lock' = FreedBy(t)
  /\ run' = [run EXCEPT ![t] = [NoRun EXCEPT !.result = "error"]]
  /\ UNCHANGED <<marker, finished, calls, drops>>

\* KeyboardInterrupt or SystemExit. Between mark_started and completed = True the
\* finally clause still tries to write a failure marker. In _acquire and _release it
\* has the effect of AcquireFails and ReleaseRaises.
Interrupt(t) ==
  /\ run[t].pc \in {"read", "start", "hook", "complete", "completed", "fail", "verify"}
  /\ Goto(t, IF run[t].pc \in {"hook", "complete", "completed"} THEN "fail" ELSE "release")
  /\ UNCHANGED <<marker, lock, finished, calls, drops>>

\* The server or the network ends a session.
Drop(t) ==
  /\ run[t].conn = "open"
  /\ drops < MaxDrops
  /\ drops' = drops + 1
  /\ run' = [run EXCEPT ![t].conn = "lost"]
  /\ lock' = FreedBy(t)
  /\ UNCHANGED <<marker, finished, calls>>

\* The steps of a run that the thread takes by itself.
Steps(t) ==
  \/ Acquire(t) \/ ReadMarker(t)
  \/ MarkStarted(t) \/ HookReturns(t)
  \/ MarkCompleted(t) \/ NextHook(t)
  \/ MarkFailed(t) \/ Verify(t)
  \/ Release(t)

Faults(t) ==
  \/ AcquireFails(t) \/ ReadRaises(t)
  \/ MarkStartedRaises(t) \/ HookRaises(t)
  \/ MarkCompletedRaises(t)
  \/ MarkFailedRaises(t)
  \/ ReleaseRaises(t)
  \/ Interrupt(t) \/ Drop(t)

Next == \E t \in Runners : Call(t) \/ Steps(t) \/ Faults(t)

Spec == Init /\ [][Next]_vars

\* What has to raise: a statement on a lost connection, and an UPDATE without a row.
Forced(t) ==
  /\ run[t].conn = "lost" \/ (run[t].pc \in {"complete", "fail"} /\ ~Settleable(Row(t)))
  /\ Faults(t)
  /\ drops' = drops

\* A thread that can go on does: the driver answers, or raises when it cannot, and
\* hooks return or raise. Nothing makes the host call run again, a waiter need not
\* give up by itself, and nothing makes the server fail.
GoesOn(t) == Steps(t) \/ Forced(t)

LiveSpec == Spec /\ \A t \in Runners : WF_vars(GoesOn(t))

-----------------------------------------------------------------------------
\* A completed marker carries the result of the very attempt it names, and the hook
\* did return in that attempt, although mark_completed does not compare attempts: a
\* runner that lost its lock cannot complete the attempt of its successor.
CompletedTruthful ==
  \A p \in Plans, h \in Hooks : LET m == marker[p][h] IN
    m.state = "completed" => m.digest = m.attempt /\ m.attempt \in finished[p][h]

\* What was completed stays completed, with the same attempt and digest, also when an
\* interrupt arrives between the commit of mark_completed and the code's note of it.
CompletedKept ==
  \A p \in Plans, h \in Hooks :
    marker[p][h].state = "completed" => marker'[p][h] = marker[p][h]

CompletedFinal == [][CompletedKept]_vars

\* A run that returns a report leaves every hook of its plan durably completed.
ReportDurable ==
  \A t \in Runners : run[t].result = "report" =>
    \A i \in DOMAIN PlanHooks[Plan[t]] :
      marker[Plan[t]][PlanHooks[Plan[t]][i]].state = "completed"

\* Two runners with live sessions are never past the lock together, whatever the path
\* by which an earlier holder lost or gave back the lock.
SessionsSerial ==
  \A t, u \in Runners :
    /\ run[t].conn = "open" /\ run[t].pc \notin {"idle", "lock"}
    /\ run[u].conn = "open" /\ run[u].pc \notin {"idle", "lock"}
    => t = u

\* Every run ends, also for runners queued behind one that fails, is interrupted or
\* loses its connection: no path keeps the advisory lock.
RunsEnd == \A t \in Runners : run[t].pc # "idle" ~> run[t].pc = "idle"

=============================================================================
