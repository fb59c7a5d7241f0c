----------------------------- MODULE MCRuntime ------------------------------
(***************************************************************************)
(* Instances for TLC of the components a process is built from:            *)
(* PlaneDatabase, AsyncPlaneRuntime, Reconciliation, Boot, OwnerExclusion  *)
(* and AttachmentStorage.  A scenario is one of them with constants of its *)
(* own; Scenarios says where a run starts.  The state of the component     *)
(* that runs is in v1, v2, ..., in the order in which its module declares  *)
(* it.                                                                     *)
(***************************************************************************)
EXTENDS Integers, TLC

CONSTANTS Scenarios, Null

VARIABLES scenario, v1, v2, v3, v4, v5, v6, v7, v8, v9, v10, v11, v12

vars == <<scenario, v1, v2, v3, v4, v5, v6, v7, v8, v9, v10, v11, v12>>

-----------------------------------------------------------------------------
(* The constants of the scenarios, by name so that TLC computes them once. *)
OneConn == {"c1"}
TwoWrites == {"w1", "w2"}
Three == {1, 2, 3}

\* A rolling upgrade: runner 3 has a later plan that shares a hook with the others'.
Upgrade == [t \in Three |-> IF t = 3 THEN "new" ELSE "old"]
SharedHook == [p \in {"old", "new"} |-> IF p = "old" THEN <<"h1", "h2">> ELSE <<"h2">>]

OneHook == [p \in {"old", "new"} |-> <<"h1">>]
Apart == [t \in {1, 3} |-> IF t = 3 THEN "p2" ELSE "p1"]
ApartPlan == [t \in {1, 3} |-> "old"]
Together == [t \in Three |-> "p1"]
Rival == [t \in Three |-> IF t = 2 THEN "new" ELSE "old"]

TwoInOne == [t \in {1, 2, 3} |-> IF t = 3 THEN 2 ELSE 1]
SameLease == [x \in {"x1", "x2"} |-> "lease"]
OneLease == [x \in {"x1"} |-> "lease"]

(* The constants of the scenarios, by name so that TLC computes them once. *)
Threads1 == {"t1", "t2", "t3"}
Threads2 == {"t1", "t2"}
Writes1 == {"w1"}
Threads3 == {"t"}
Drains1 == {1}
Plans1 == {"old", "new"}
Hooks1 == {"h1", "h2"}
Runners1 == {1, 3}
Plans2 == {"old"}
Hooks2 == {"h1"}
Processes1 == {"p1", "p2"}
Processes2 == {"p1"}
Threads4 == {1, 2, 3}
Stores1 == {1, 2}
Owners1 == {"o"}
Attachments1 == {"a"}
Writers1 == {"x1", "x2"}
Purgers1 == {"y1"}
Contents1 == {"c", "d"}
Writers2 == {"x1"}
Purgers2 == {"y1", "y2"}
Contents2 == {"c"}
Attachments2 == {"a", "b"}
Readers1 == {"z"}
Legacy1 == {"k"}
Evidence1 == {"e", "f"}

\* Three threads, one connection: borrows, losses, close and its cleanup.
Pool == INSTANCE PlaneDatabase WITH
  borrowed <- v1, closed <- v2, cleanup <- v3, cleaner <- v4, discarded <- v5, permits <- v6, place
  <- v7, session <- v8, unsafe <- v9, losses <- v10, th <- v11,
  Threads <- Threads1, Conns <- OneConn, Writes <- {}, MaxDepth <- 0, MaxLosses <- 1,
  MaxCleanups <- 2

\* Two threads that write over the same connection.
Reuse == INSTANCE PlaneDatabase WITH
  borrowed <- v1, closed <- v2, cleanup <- v3, cleaner <- v4, discarded <- v5, permits <- v6, place
  <- v7, session <- v8, unsafe <- v9, losses <- v10, th <- v11,
  Threads <- Threads2, Conns <- OneConn, Writes <- Writes1, MaxDepth <- 0, MaxLosses <- 1,
  MaxCleanups <- 2

\* One thread with nested savepoints.
Body == INSTANCE PlaneDatabase WITH
  borrowed <- v1, closed <- v2, cleanup <- v3, cleaner <- v4, discarded <- v5, permits <- v6, place
  <- v7, session <- v8, unsafe <- v9, losses <- v10, th <- v11,
  Threads <- Threads3, Conns <- OneConn, Writes <- TwoWrites, MaxDepth <- 2, MaxLosses <- 1,
  MaxCleanups <- 1

\* Three calls over two permits, and a drain.
Loop == INSTANCE AsyncPlaneRuntime WITH
  free <- v1, waiters <- v2, active <- v3, idle <- v4, closed <- v5, call <- v6, worker <- v7, drain
  <- v8,
  Calls <- Three, Drains <- Drains1, Capacity <- 2

\* Three calls over one permit, and a drain.
Narrow == INSTANCE AsyncPlaneRuntime WITH
  free <- v1, waiters <- v2, active <- v3, idle <- v4, closed <- v5, call <- v6, worker <- v7, drain
  <- v8,
  Calls <- Three, Drains <- Drains1, Capacity <- 1

\* Three runners, two plans.
Markers == INSTANCE Reconciliation WITH
  marker <- v1, lock <- v2, run <- v3, finished <- v4, calls <- v5, drops <- v6,
  Runners <- Three, Plans <- Plans1, Hooks <- Hooks1, Plan <- Upgrade, PlanHooks <- SharedHook,
  MaxCalls <- 3, MaxDrops <- 0

\* Two processes, one of which may crash and boot again.
Restart == INSTANCE Boot WITH
  marker <- v1, lock <- v2, run <- v3, finished <- v4, calls <- v5, drops <- v6, boot <- v7, thread
  <- v8, notified <- v9, migrated <- v10, crashes <- v11,
  Runners <- Runners1, Plans <- Plans2, Hooks <- Hooks2, Plan <- ApartPlan, PlanHooks <- OneHook,
  MaxCalls <- 3, MaxDrops <- 1, Processes <- Processes1, ProcessOf <- Apart, MaxCrashes <- 1

\* Three threads of one process, one of them with another plan.
OneProcess == INSTANCE Boot WITH
  marker <- v1, lock <- v2, run <- v3, finished <- v4, calls <- v5, drops <- v6, boot <- v7, thread
  <- v8, notified <- v9, migrated <- v10, crashes <- v11,
  Runners <- Three, Plans <- Plans1, Hooks <- Hooks2, Plan <- Rival, PlanHooks <- OneHook,
  MaxCalls <- 4, MaxDrops <- 0, Processes <- Processes2, ProcessOf <- Together, MaxCrashes <- 0

\* Two threads of one process and one of another, a lock file that fails, a crash.
Exclusion == INSTANCE OwnerExclusion WITH
  failures <- v1, crashes <- v2, closed <- v3, pending <- v4, entries <- v5, taken <- v6, flock <-
  v7, th <- v8, corrupted <- v9,
  Threads <- Threads4, Stores <- Stores1, StoreOf <- TwoInOne, Owners <- Owners1, MaxFailures <- 1,
  MaxCrashes <- 1

\* An upload that is tried by two callers with the same lease, and purged.
Uploads == INSTANCE AttachmentStorage WITH
  failures <- v1, crashes <- v2, rows <- v3, owner <- v4, tombs <- v5, disk <- v6, ownerDir <- v7,
  excl <- v8, tx <- v9, w <- v10, p <- v11, r <- v12,
  Attachments <- Attachments1, Legacy <- {}, Writers <- Writers1, Purgers <- Purgers1,
  Readers <- {}, LeaseOf <- SameLease, Contents <- Contents1, Evidence <- {}, SweepLimit <- 1,
  MaxVersion <- 1, MaxFailures <- 1, MaxCrashes <- 0

\* One upload, dying or failing anywhere, and two processes that purge.
Purges == INSTANCE AttachmentStorage WITH
  failures <- v1, crashes <- v2, rows <- v3, owner <- v4, tombs <- v5, disk <- v6, ownerDir <- v7,
  excl <- v8, tx <- v9, w <- v10, p <- v11, r <- v12,
  Attachments <- Attachments1, Legacy <- {}, Writers <- Writers2, Purgers <- Purgers2,
  Readers <- {}, LeaseOf <- OneLease, Contents <- Contents2, Evidence <- {}, SweepLimit <- 1,
  MaxVersion <- 0, MaxFailures <- 1, MaxCrashes <- 1

\* Two attachments of an owner, and a reader.
Siblings == INSTANCE AttachmentStorage WITH
  failures <- v1, crashes <- v2, rows <- v3, owner <- v4, tombs <- v5, disk <- v6, ownerDir <- v7,
  excl <- v8, tx <- v9, w <- v10, p <- v11, r <- v12,
  Attachments <- Attachments2, Legacy <- {}, Writers <- Writers2, Purgers <- Purgers1,
  Readers <- Readers1, LeaseOf <- OneLease, Contents <- Contents2, Evidence <- {}, SweepLimit <- 1,
  MaxVersion <- 0, MaxFailures <- 0, MaxCrashes <- 0

\* A migrated tombstone that two operators resolve.
Review == INSTANCE AttachmentStorage WITH
  failures <- v1, crashes <- v2, rows <- v3, owner <- v4, tombs <- v5, disk <- v6, ownerDir <- v7,
  excl <- v8, tx <- v9, w <- v10, p <- v11, r <- v12,
  Attachments <- {}, Legacy <- Legacy1, Writers <- Writers2, Purgers <- Purgers2, Readers <- {},
  LeaseOf <- OneLease, Contents <- Contents2, Evidence <- Evidence1, SweepLimit <- 1,
  MaxVersion <- 0, MaxFailures <- 0, MaxCrashes <- 1

ASSUME Pool!PoolConstants /\ Reuse!PoolConstants /\ Body!PoolConstants
ASSUME Loop!CapacityPositive /\ Narrow!CapacityPositive
ASSUME Markers!ReconciliationConstants
ASSUME Restart!BootConstants /\ OneProcess!BootConstants
ASSUME Exclusion!ExclusionConstants
ASSUME Uploads!StorageConstants /\ Purges!StorageConstants /\ Siblings!StorageConstants /\ Review!StorageConstants

-----------------------------------------------------------------------------
Init ==
  /\ scenario \in Scenarios
  /\ \/ scenario = "pool" /\ Pool!Init /\ v12 = Null
     \/ scenario = "reuse" /\ Reuse!Init /\ v12 = Null
     \/ scenario = "body" /\ Body!Init /\ v12 = Null
     \/ scenario = "loop" /\ Loop!Init /\ v9 = Null /\ v10 = Null /\ v11 = Null /\ v12 = Null
     \/ scenario = "narrow" /\ Narrow!Init /\ v9 = Null /\ v10 = Null /\ v11 = Null /\ v12 = Null
     \/ scenario = "markers" /\ Markers!Init /\ v7 = Null /\ v8 = Null /\ v9 = Null /\ v10 = Null /\ v11 = Null /\ v12 = Null
     \/ scenario = "restart" /\ Restart!BootInit /\ v12 = Null
     \/ scenario = "threads" /\ OneProcess!BootInit /\ v12 = Null
     \/ scenario = "exclusion" /\ Exclusion!Init /\ v10 = Null /\ v11 = Null /\ v12 = Null
     \/ scenario = "uploads" /\ Uploads!Init
     \/ scenario = "purges" /\ Purges!Init
     \/ scenario = "siblings" /\ Siblings!Init
     \/ scenario = "review" /\ Review!Init

Next ==
  /\ UNCHANGED scenario
  /\ \/ scenario = "pool" /\ Pool!Next /\ UNCHANGED <<v12>>
     \/ scenario = "reuse" /\ Reuse!Next /\ UNCHANGED <<v12>>
     \/ scenario = "body" /\ Body!Next /\ UNCHANGED <<v12>>
     \/ scenario = "loop" /\ Loop!Next /\ UNCHANGED <<v9, v10, v11, v12>>
     \/ scenario = "narrow" /\ Narrow!Next /\ UNCHANGED <<v9, v10, v11, v12>>
     \/ scenario = "markers" /\ Markers!Next /\ UNCHANGED <<v7, v8, v9, v10, v11, v12>>
     \/ scenario = "restart" /\ Restart!BootNext /\ UNCHANGED <<v12>>
     \/ scenario = "threads" /\ OneProcess!BootNext /\ UNCHANGED <<v12>>
     \/ scenario = "exclusion" /\ Exclusion!Next /\ UNCHANGED <<v10, v11, v12>>
     \/ scenario = "uploads" /\ Uploads!Next
     \/ scenario = "purges" /\ Purges!Next
     \/ scenario = "siblings" /\ Siblings!Next
     \/ scenario = "review" /\ Review!Next

Spec == Init /\ [][Next]_vars

-----------------------------------------------------------------------------
\* What a transaction tells its caller is true of the server, however many statements,
\* savepoints and acknowledgements were lost; a transaction that cannot commit any more
\* is marked as failed; every way out of a borrow gives back its slot and its permit
\* once; an unsafe connection never returns to the pool; closing the pool and borrowing
\* exclude each other (Transaction._finish, savepoint, ConnectionPool,
\* _BoundedDriverPool).
DatabaseSound ==
  /\ scenario = "pool" => Pool!TypeOK /\ Pool!CustodyBalanced /\ Pool!CloseExcludesBorrow
  /\ scenario = "reuse" => Reuse!OutcomeTruthful /\ Reuse!UnsafeNeverReused
  /\ scenario = "body" => Body!OutcomeTruthful /\ Body!FailureTracked /\ Body!UnsafeNeverReused

\* Permits are held by granted calls and running workers only, after a successful drain
\* no worker runs or starts, and an answer agrees with what its worker did, whenever
\* timeouts, cancellations and close arrive (AsyncPlaneRuntime).
LoopSound ==
  /\ scenario = "loop" => Loop!TypeOK /\ Loop!PermitsBalanced /\ Loop!DrainedIsFinal /\ Loop!ResultTruthful
  /\ scenario = "narrow" => Narrow!TypeOK /\ Narrow!PermitsBalanced /\ Narrow!DrainedIsFinal /\ Narrow!ResultTruthful

\* A completed marker carries the result of the attempt it names, a report means that
\* every hook of the plan is durably completed, and sessions past the advisory lock
\* exclude each other; a ready process has a migrated schema and a completed plan, one
\* thread of a process boots at a time, a report is about the caller's own plan, and a
\* waiter that was not notified waits for a thread that boots its plan
\* (ReconciliationRunner.run, coordinate, BootInitializer.initialize).
StartupSound ==
  /\ scenario = "markers" => Markers!TypeOK /\ Markers!CompletedTruthful /\ Markers!ReportDurable /\ Markers!SessionsSerial
  /\ scenario = "restart" => Restart!BootTypeOK /\ Restart!ReadySound
  /\ scenario = "threads" => OneProcess!OneBooter /\ OneProcess!ReportMatchesPlan /\ OneProcess!NoLostWaiter

\* One thread of a store is past an owner's lock however often the lock object is
\* replaced, one thread of all stores has an owner's token, the table counts its users
\* exactly and no release corrupts it, a closed store has no user left, and no taken
\* lock is without a thread that gives it back (_OwnerLockTable, _CrossProcessOwnerLock,
\* _begin_owner_acquisition, close).
ExclusionSound ==
  /\ scenario = "exclusion" => Exclusion!TypeOK /\ Exclusion!OneInside /\ Exclusion!EntriesExact /\ Exclusion!OneHolder /\ Exclusion!ClosedIsQuiet /\ Exclusion!NoOrphanLock

\* A ready attachment has the bytes its row names, whichever of its writers staged them
\* and whatever failed, and an open reader keeps its bytes under a purge
\* (publish_pending_materialization, open_reader).
BytesSound ==
  /\ scenario = "uploads" => Uploads!TypeOK /\ Uploads!ReadyHasBytes
  /\ scenario = "purges" => Purges!TypeOK /\ Purges!ReadyHasBytes
  /\ scenario = "siblings" => Siblings!TypeOK /\ Siblings!ReadyHasBytes /\ Siblings!ReaderKeepsBytes

\* A purged object stays gone, a reported purge has happened, deletions and tombstones
\* name the same attachments, and no file is left that nobody will remove (the ways of
\* scheduling, execute, has_incomplete_for_administration).
PurgeSound ==
  /\ scenario = "uploads" => Uploads!PurgedIsGone /\ Uploads!DeletionsTracked /\ Uploads!NothingForgotten
  /\ scenario = "purges" => Purges!PurgedIsGone /\ Purges!ReportsTrue /\ Purges!DeletionsTracked /\ Purges!NothingForgotten
  /\ scenario = "siblings" => Siblings!PurgedIsGone /\ Siblings!NothingForgotten
  /\ scenario = "review" => Review!ReportsTrue

RuntimeKeptStep ==
  /\ scenario = "markers" => Markers!CompletedKept
  /\ scenario = "uploads" => Uploads!OutcomesKept
  /\ scenario = "purges" => Purges!OutcomesKept
  /\ scenario = "review" => Review!OutcomesKept

\* What was completed stays completed, with its digest; a purged tombstone keeps its
\* evidence, a ready row its bytes, and a deleted row stays deleted, also when two
\* executors or operators meet (mark_completed, mark_failed, _fence_tombstone, the mark
\* methods).
RuntimeKept == [][RuntimeKeptStep]_vars

=============================================================================
