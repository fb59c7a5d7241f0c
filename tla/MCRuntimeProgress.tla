------------------------- MODULE MCRuntimeProgress -------------------------
(***************************************************************************)
(* Instances for TLC of the components of a process whose calls must come  *)
(* to an end: PlaneDatabase, AsyncPlaneRuntime, Reconciliation and Boot.   *)
(* A scenario is one of them with the fairness of its threads; the others  *)
(* stay in an initial state.                                               *)
(***************************************************************************)
EXTENDS Naturals

CONSTANTS Scenarios, Null

VARIABLES
  scenario,
  borrowed, closed, cleanup, cleaner, discarded, permits, place, session, unsafe, losses, th,
  free, waiters, active, idle, shut, call, worker, drain,
  marker, lock, run, finished, calls, drops,
  boot, thread, notified, migrated, crashes

dbVars == <<borrowed, closed, cleanup, cleaner, discarded, permits, place, session, unsafe,
            losses, th>>
loopVars == <<free, waiters, active, idle, shut, call, worker, drain>>
runVars == <<marker, lock, run, finished, calls, drops>>
bootVars == <<boot, thread, notified, migrated, crashes>>
vars == <<scenario, dbVars, loopVars, runVars, bootVars>>

-----------------------------------------------------------------------------
(* The constants of the scenarios, by name so that TLC computes them once. *)
Three == {1, 2, 3}
OldPlan == [t \in Three |-> "old"]
SameTwo == [t \in {1, 2} |-> "old"]
OneHook == [p \in {"old"} |-> <<"h1">>]
TwoHooks == [p \in {"old"} |-> <<"h1", "h2">>]
Mixed == [t \in Three |-> IF t = 3 THEN "p2" ELSE "p1"]

\* Two threads, one connection, and a close.
Pool == INSTANCE PlaneDatabase WITH Threads <- {"a", "b"}, Conns <- {"c1"},
  Writes <- {}, MaxDepth <- 0, MaxLosses <- 1, MaxCleanups <- 1

\* Three calls over one permit, and a drain.
Loop == INSTANCE AsyncPlaneRuntime WITH Calls <- Three, Drains <- {1}, Capacity <- 1,
  closed <- shut

\* Two runners of one plan, and a connection that is lost.
Markers == INSTANCE Reconciliation WITH Runners <- {1, 2}, Plans <- {"old"},
  Hooks <- {"h1", "h2"}, Plan <- SameTwo, PlanHooks <- TwoHooks, MaxCalls <- 2, MaxDrops <- 1

\* Two threads of one process and one of another.
Startup == INSTANCE Boot WITH Runners <- Three, Plans <- {"old"}, Hooks <- {"h1"},
  Plan <- OldPlan, PlanHooks <- OneHook, MaxCalls <- 2, MaxDrops <- 0,
  Processes <- {"p1", "p2"}, ProcessOf <- Mixed, MaxCrashes <- 0

ASSUME Pool!PoolConstants /\ Loop!CapacityPositive
ASSUME Markers!ReconciliationConstants /\ Startup!BootConstants

-----------------------------------------------------------------------------
NoBoot ==
  /\ thread = [t \in Three |-> "idle"]
  /\ boot = Null /\ notified = Null /\ migrated = Null /\ crashes = Null

Init ==
  /\ scenario \in Scenarios
  /\ Pool!Init /\ Loop!Init
  /\ IF scenario = "markers" THEN Markers!Init /\ NoBoot ELSE Startup!BootInit

\* A step of a component in its scenario.
PoolStep(A) == scenario = "pool" /\ A /\ UNCHANGED <<scenario, loopVars, runVars, bootVars>>
LoopStep(A) == scenario = "loop" /\ A /\ UNCHANGED <<scenario, dbVars, runVars, bootVars>>
RunStep(A) == scenario = "markers" /\ A /\ UNCHANGED <<scenario, dbVars, loopVars, bootVars>>
BootStep(A) == scenario = "boot" /\ A /\ UNCHANGED <<scenario, dbVars, loopVars>>

Next ==
  \/ PoolStep(Pool!Next)
  \/ LoopStep(Loop!Next)
  \/ RunStep(Markers!Next)
  \/ BootStep(Startup!BootNext)

Spec == Init /\ [][Next]_vars

\* Threads go on; the body of a borrow ends though its connection may be lost meanwhile.
LiveSpec ==
  /\ Spec
  /\ \A t \in {"a", "b"} :
       /\ WF_dbVars(PoolStep(Pool!GoesOn(t)))
       /\ SF_dbVars(PoolStep(Pool!BodyEnds(t)))
  /\ \A t \in {1, 2} : WF_runVars(RunStep(Markers!GoesOn(t)))
  /\ \A c \in Three :
       /\ WF_loopVars(LoopStep(Loop!Answered(c)))
       /\ WF_loopVars(LoopStep(Loop!ThreadEnds(c)))
       /\ WF_loopVars(LoopStep(Loop!ReleaseSlot(c)))
       /\ WF_<<runVars, bootVars>>(BootStep(Startup!BootGoesOn(c)))

-----------------------------------------------------------------------------
\* Every borrow ends, every caller of the async adapter gets an answer, and once
\* admission is closed its workers run out (pool.py, run_in_transaction, drain).
CallsEnd ==
  /\ scenario = "pool" => Pool!BorrowEnds
  /\ scenario = "loop" => Loop!CallsAnswered /\ Loop!CloseQuiesces

\* Every reconciliation run ends, also behind one that failed or lost its connection,
\* and so does every call of initialize (coordinate, BootInitializer.initialize).
StartupEnds ==
  /\ scenario = "markers" => Markers!RunsEnd
  /\ scenario = "boot" => Startup!InitializeReturns
=============================================================================
