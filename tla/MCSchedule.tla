----------------------------- MODULE MCSchedule -----------------------------
(***************************************************************************)
(* Instances of Scheduler, Assignments, Maintenance and Guidance for TLC.  *)
(* A scenario is one of them with constants of its own; Scenarios says     *)
(* where a run starts.  The state of the component that runs is in v1, v2, *)
(* ..., in the order in which its module declares it.                      *)
(***************************************************************************)
EXTENDS Integers

CONSTANTS Scenarios, Null

VARIABLES scenario, v1, v2, v3, v4, v5, v6, v7, v8, v9, v10, v11, v12, v13

vars == <<scenario, v1, v2, v3, v4, v5, v6, v7, v8, v9, v10, v11, v12, v13>>

-----------------------------------------------------------------------------
Two == [j \in {1, 2} |-> j]
Intervals == [j \in {1, 2} |-> "interval"]
Once == [j \in {1} |-> "one_shot"]
One(x) == [a \in {"a"} |-> x]
Chain == [t \in {"t", "u"} |-> IF t = "u" THEN {"t"} ELSE {}]

(* The constants of the scenarios, by name so that TLC computes them once. *)
Jobs1 == {1, 2}
Ids1 == 1 .. 3
Pollers1 == {"w"}
Statuses1 == {"paused"}
Refusals1 == {{}, {1}}
Busy1 == {{}}
Jobs2 == {1}
Workers1 == {"x"}
Operations1 == {"o"}
Keys1 == {"chat"}
Payloads1 == {"a"}
Delays1 == {0}
Submissions1 == {"s"}
Assignments1 == {"a", "b"}
Policies1 == {[max |-> 1, outstanding |-> 2], [max |-> 2, outstanding |-> 1]}
Keys2 == {"key"}
LegacyRuns1 == {"r"}
KindOf1 == One("ordinary")
Boundary1 == One("unreplayable")
TaskOf1 == One(Null)
Controls1 == {"pause", "resume", "stop"}
Phases1 == {"waiting", "failed"}
Outcomes1 == {"succeeded", "failed", "uncertain"}
Costs1 == {2}
Guidance1 == {"none"}
Controls2 == {"revise", "revoke", "stop"}
Phases2 == {"awaiting_event", "budget_exhausted"}
Outcomes2 == {"uncertain"}
Guidance2 == {"none", "bound"}
KindOf2 == One("interactive")
Boundary2 == One("downstream_key")
Controls3 == {"pause", "resume"}
Phases3 == {"waiting_approval"}
Outcomes3 == {"failed"}
Boundary3 == One("read_only")
TaskOf2 == One("t")
EventOf1 == One("e")
Tasks1 == {"t", "u"}
Plans1 == {{"t", "u"}}
Events1 == {"e"}
Batches1 == {[from |-> 0, to |-> 1, events |-> {"e"}]}
Controls4 == {"revise"}
Phases4 == {"reconciliation"}
Outcomes4 == {"succeeded"}
Units1 == {"u"}
Inputs1 == {"i", "j"}
Workers2 == {"w", "x"}
Operations2 == {"o", "p"}
Skills1 == {"s", "t", "u"}
Slugs1 == {"p", "q"}
Captures1 == {[s \in {"s"} |-> "p"]}
Flags1 == {TRUE}
Slugs2 == {"p"}
Hosts1 == {"g", "h"}
Hosts2 == {"g"}

\* Two owners whose jobs a poller materializes and claims in turn; one of them may be refused.
Cadence == INSTANCE Scheduler WITH
  clock <- v1, jobs <- v2, occs <- v3, scan <- v4, claims <- v5, runs <- v6, effects <- v7, told <-
  v8, chat <- v9, policy <- v10, episodes <- v11,
  Jobs <- Jobs1, OwnerOf <- Two, KindOf <- Intervals, Ids <- Ids1, Pollers <- Pollers1,
  Workers <- {}, Submissions <- {}, Operations <- {}, Keys <- {}, Chat <- "chat", Payloads <- {},
  Assignments <- {}, Spends <- {}, Policies <- {}, Statuses <- Statuses1, Projections <- {},
  LegacyRuns <- {}, Refusals <- Refusals1, Busy <- Busy1, Limit <- 1, ScanLimit <- 3, Lease <- 1,
  Interval <- 1, Skew <- 0, Delays <- {}, MaxTime <- 1, MaxGen <- 1, MaxRevision <- 0,
  MaxVersion <- 0

\* Two workers over one occurrence, its leases, its operation and its staged conversation.
Attempts == INSTANCE Scheduler WITH
  clock <- v1, jobs <- v2, occs <- v3, scan <- v4, claims <- v5, runs <- v6, effects <- v7, told <-
  v8, chat <- v9, policy <- v10, episodes <- v11,
  Jobs <- Jobs2, OwnerOf <- Two, KindOf <- Once, Ids <- Jobs2, Pollers <- Pollers1,
  Workers <- Workers1, Submissions <- {}, Operations <- Operations1, Keys <- Keys1, Chat <- "chat",
  Payloads <- Payloads1, Assignments <- {}, Spends <- {}, Policies <- {}, Statuses <- {},
  Projections <- {}, LegacyRuns <- {}, Refusals <- Busy1, Busy <- Busy1, Limit <- 1,
  ScanLimit <- 1, Lease <- 1, Interval <- 1, Skew <- 1, Delays <- Delays1, MaxTime <- 2,
  MaxGen <- 2, MaxRevision <- 1, MaxVersion <- 0

\* Allowances that are charged, lowered and stopped while episodes run.
Episodes == INSTANCE Scheduler WITH
  clock <- v1, jobs <- v2, occs <- v3, scan <- v4, claims <- v5, runs <- v6, effects <- v7, told <-
  v8, chat <- v9, policy <- v10, episodes <- v11,
  Jobs <- Jobs2, OwnerOf <- Two, KindOf <- Intervals, Ids <- Jobs1, Pollers <- Pollers1,
  Workers <- {}, Submissions <- Submissions1, Operations <- {}, Keys <- {}, Chat <- "chat",
  Payloads <- {}, Assignments <- Assignments1, Spends <- Jobs2, Policies <- Policies1,
  Statuses <- {}, Projections <- Jobs2, LegacyRuns <- {}, Refusals <- Busy1, Busy <- Busy1,
  Limit <- 2, ScanLimit <- 2, Lease <- 1, Interval <- 1, Skew <- 0, Delays <- {}, MaxTime <- 1,
  MaxGen <- 1, MaxRevision <- 0, MaxVersion <- 1

\* Runs without an occurrence beside an effect other than the conversation.
Legacy == INSTANCE Scheduler WITH
  clock <- v1, jobs <- v2, occs <- v3, scan <- v4, claims <- v5, runs <- v6, effects <- v7, told <-
  v8, chat <- v9, policy <- v10, episodes <- v11,
  Jobs <- Jobs2, OwnerOf <- Two, KindOf <- Once, Ids <- Jobs2, Pollers <- Pollers1, Workers <- {},
  Submissions <- {}, Operations <- Operations1, Keys <- Keys2, Chat <- "chat",
  Payloads <- Assignments1, Assignments <- {}, Spends <- {}, Policies <- {}, Statuses <- {},
  Projections <- {}, LegacyRuns <- LegacyRuns1, Refusals <- Busy1, Busy <- Refusals1, Limit <- 1,
  ScanLimit <- 1, Lease <- 1, Interval <- 1, Skew <- 0, Delays <- Jobs2, MaxTime <- 1, MaxGen <- 1,
  MaxRevision <- 0, MaxVersion <- 0

\* One unreplayable effect of an operation that is paused, resumed, stopped, recovered, reconciled
\* and tried again.
Effect == INSTANCE Assignments WITH
  clock <- v1, env <- v2, row <- v3, fence <- v4, acts <- v5, usage <- v6, tasks <- v7, events <-
  v8, props <- v9,
  OneShot <- TRUE, Guarded <- TRUE, Actions <- Payloads1, KindOf <- KindOf1, Boundary <- Boundary1,
  TaskOf <- TaskOf1, EventOf <- TaskOf1, Tasks <- {}, Deps <- <<>>, Plans <- {}, Events <- {},
  Batches <- {}, Controls <- Controls1, Phases <- Phases1, Outcomes <- Outcomes1, Costs <- Costs1,
  Revisions <- {}, Guidance <- Guidance1, Limit <- 3, MaxRetries <- 1, MaxRunning <- 1, Lease <- 1,
  ApprovalEnds <- 2, AuthorityEnds <- 4, Deadline <- 2, MaxTime <- 2, MaxGen <- 2, MaxEpoch <- 3

\* Event waits, guidance that changes, a session that ends.
Waits == INSTANCE Assignments WITH
  clock <- v1, env <- v2, row <- v3, fence <- v4, acts <- v5, usage <- v6, tasks <- v7, events <-
  v8, props <- v9,
  OneShot <- TRUE, Guarded <- TRUE, Actions <- Payloads1, KindOf <- KindOf1, Boundary <- Boundary1,
  TaskOf <- TaskOf1, EventOf <- TaskOf1, Tasks <- {}, Deps <- <<>>, Plans <- {}, Events <- {},
  Batches <- {}, Controls <- Controls2, Phases <- Phases2, Outcomes <- Outcomes2, Costs <- Jobs2,
  Revisions <- Jobs2, Guidance <- Guidance2, Limit <- 3, MaxRetries <- 0, MaxRunning <- 1,
  Lease <- 1, ApprovalEnds <- 2, AuthorityEnds <- 2, Deadline <- 3, MaxTime <- 1, MaxGen <- 2,
  MaxEpoch <- 2

\* An interactive action of a persistent assignment, from its proposal to its dispatch.
Approval == INSTANCE Assignments WITH
  clock <- v1, env <- v2, row <- v3, fence <- v4, acts <- v5, usage <- v6, tasks <- v7, events <-
  v8, props <- v9,
  OneShot <- FALSE, Guarded <- FALSE, Actions <- Payloads1, KindOf <- KindOf2,
  Boundary <- Boundary2, TaskOf <- TaskOf1, EventOf <- TaskOf1, Tasks <- {}, Deps <- <<>>,
  Plans <- {}, Events <- {}, Batches <- {}, Controls <- Controls3, Phases <- Phases3,
  Outcomes <- Outcomes3, Costs <- Jobs2, Revisions <- {}, Guidance <- Guidance1, Limit <- 3,
  MaxRetries <- 1, MaxRunning <- 1, Lease <- 1, ApprovalEnds <- 2, AuthorityEnds <- 4,
  Deadline <- 3, MaxTime <- 2, MaxGen <- 2, MaxEpoch <- 3

\* Source events and dependent tasks of a persistent assignment.
Work == INSTANCE Assignments WITH
  clock <- v1, env <- v2, row <- v3, fence <- v4, acts <- v5, usage <- v6, tasks <- v7, events <-
  v8, props <- v9,
  OneShot <- FALSE, Guarded <- FALSE, Actions <- Payloads1, KindOf <- KindOf1,
  Boundary <- Boundary3, TaskOf <- TaskOf2, EventOf <- EventOf1, Tasks <- Tasks1, Deps <- Chain,
  Plans <- Plans1, Events <- Events1, Batches <- Batches1, Controls <- Controls4,
  Phases <- Phases4, Outcomes <- Outcomes4, Costs <- Jobs2, Revisions <- {}, Guidance <- Guidance1,
  Limit <- 3, MaxRetries <- 0, MaxRunning <- 1, Lease <- 1, ApprovalEnds <- 2, AuthorityEnds <- 4,
  Deadline <- 3, MaxTime <- 1, MaxGen <- 2, MaxEpoch <- 2

\* Two workers over one maintenance unit with two inputs, its leases and its retries.
Upkeep == INSTANCE Maintenance WITH
  now <- v1, unit <- v2, input <- v3, held <- v4, writing <- v5, bound <- v6, done <- v7,
  Units <- Units1, Inputs <- Inputs1, Workers <- Workers2, Operations <- Operations2,
  MaxAttempts <- 2, MaxTime <- 2, Lease <- 1, RenewUntil <- 4

\* Commands over three skills, and a legacy capture.
Skilled == INSTANCE Guidance WITH
  now <- v1, turned <- v2, retired <- v3, sent <- v4, skill <- v5, revs <- v6, catalog <- v7, note
  <- v8, prep <- v9, asked <- v10, sweep <- v11, owed <- v12, asg <- v13,
  Skills <- Skills1, Slugs <- Slugs1, Aliases <- Workers1, Commands <- Ids1, Captures <- Captures1,
  Notes <- {}, Hosts <- {}, Assignments <- {}, Capacity <- 2, MaxRevision <- 3, PageSize <- 1,
  Lives <- Jobs2, Flags <- Flags1, MaxTime <- 0

\* Commands over one skill that an assignment selected, up to its last revision.
Guided == INSTANCE Guidance WITH
  now <- v1, turned <- v2, retired <- v3, sent <- v4, skill <- v5, revs <- v6, catalog <- v7, note
  <- v8, prep <- v9, asked <- v10, sweep <- v11, owed <- v12, asg <- v13,
  Skills <- Submissions1, Slugs <- Slugs2, Aliases <- {}, Commands <- Ids1, Captures <- {},
  Notes <- {}, Hosts <- {}, Assignments <- Payloads1, Capacity <- 2, MaxRevision <- 3,
  PageSize <- 1, Lives <- Jobs2, Flags <- BOOLEAN, MaxTime <- 1

\* A note that two hosts change and an assignment selected.
Noted == INSTANCE Guidance WITH
  now <- v1, turned <- v2, retired <- v3, sent <- v4, skill <- v5, revs <- v6, catalog <- v7, note
  <- v8, prep <- v9, asked <- v10, sweep <- v11, owed <- v12, asg <- v13,
  Skills <- {}, Slugs <- Slugs2, Aliases <- Workers1, Commands <- {}, Captures <- {},
  Notes <- Jobs2, Hosts <- Hosts1, Assignments <- Payloads1, Capacity <- 2, MaxRevision <- 3,
  PageSize <- 1, Lives <- Jobs2, Flags <- BOOLEAN, MaxTime <- 1

\* Two notes that expire while pages of them are read.
Swept == INSTANCE Guidance WITH
  now <- v1, turned <- v2, retired <- v3, sent <- v4, skill <- v5, revs <- v6, catalog <- v7, note
  <- v8, prep <- v9, asked <- v10, sweep <- v11, owed <- v12, asg <- v13,
  Skills <- {}, Slugs <- Slugs2, Aliases <- Workers1, Commands <- {}, Captures <- {},
  Notes <- Jobs1, Hosts <- Hosts2, Assignments <- {}, Capacity <- 2, MaxRevision <- 3,
  PageSize <- 1, Lives <- Jobs2, Flags <- Flags1, MaxTime <- 1

ASSUME Upkeep!MaintenanceConstants

-----------------------------------------------------------------------------
Init ==
  /\ scenario \in Scenarios
  /\ \/ scenario = "cadence" /\ Cadence!Init /\ v12 = Null /\ v13 = Null
     \/ scenario = "attempts" /\ Attempts!Init /\ v12 = Null /\ v13 = Null
     \/ scenario = "episodes" /\ Episodes!Init /\ v12 = Null /\ v13 = Null
     \/ scenario = "legacy" /\ Legacy!Init /\ v12 = Null /\ v13 = Null
     \/ scenario = "effect" /\ Effect!Init /\ v10 = Null /\ v11 = Null /\ v12 = Null /\ v13 = Null
     \/ scenario = "waits" /\ Waits!Init /\ v10 = Null /\ v11 = Null /\ v12 = Null /\ v13 = Null
     \/ scenario = "approval" /\ Approval!Init /\ v10 = Null /\ v11 = Null /\ v12 = Null /\ v13 = Null
     \/ scenario = "work" /\ Work!Init /\ v10 = Null /\ v11 = Null /\ v12 = Null /\ v13 = Null
     \/ scenario = "upkeep" /\ Upkeep!Init /\ v8 = Null /\ v9 = Null /\ v10 = Null /\ v11 = Null /\ v12 = Null /\ v13 = Null
     \/ scenario = "skills" /\ Skilled!Init
     \/ scenario = "guided" /\ Guided!Init
     \/ scenario = "notes" /\ Noted!Init
     \/ scenario = "swept" /\ Swept!Init

Next ==
  /\ UNCHANGED scenario
  /\ \/ scenario = "cadence" /\ Cadence!Next /\ UNCHANGED <<v12, v13>>
     \/ scenario = "attempts" /\ Attempts!Next /\ UNCHANGED <<v12, v13>>
     \/ scenario = "episodes" /\ Episodes!Next /\ UNCHANGED <<v12, v13>>
     \/ scenario = "legacy" /\ Legacy!Next /\ UNCHANGED <<v12, v13>>
     \/ scenario = "effect" /\ Effect!Next /\ UNCHANGED <<v10, v11, v12, v13>>
     \/ scenario = "waits" /\ Waits!Next /\ UNCHANGED <<v10, v11, v12, v13>>
     \/ scenario = "approval" /\ Approval!Next /\ UNCHANGED <<v10, v11, v12, v13>>
     \/ scenario = "work" /\ Work!Next /\ UNCHANGED <<v10, v11, v12, v13>>
     \/ scenario = "upkeep" /\ Upkeep!Next /\ UNCHANGED <<v8, v9, v10, v11, v12, v13>>
     \/ scenario = "skills" /\ Skilled!Next
     \/ scenario = "guided" /\ Guided!Next
     \/ scenario = "notes" /\ Noted!Next
     \/ scenario = "swept" /\ Swept!Next

Spec == Init /\ [][Next]_vars

-----------------------------------------------------------------------------
\* Occurrences are exact for the cadence and their attempts coherent; an effect is
\* handed out once, and charges are what was admitted (scheduler.py).
ScheduleSound ==
  /\ scenario = "cadence" => Cadence!ScheduleSound
  /\ scenario = "attempts" => Attempts!ScheduleSound
  /\ scenario = "episodes" => Episodes!ScheduleSound
  /\ scenario = "legacy" => Legacy!ScheduleSound
  /\ scenario = "upkeep" => Upkeep!MaintenanceSound

\* The budget of an assignment is what its attempts say, an action has one open attempt,
\* an approval lets out one request, and claims, waits and tasks are current
\* (assignments.py).
AssignmentSound ==
  /\ scenario = "effect" => Effect!AssignmentSound
  /\ scenario = "waits" => Waits!AssignmentSound
  /\ scenario = "approval" => Approval!AssignmentSound
  /\ scenario = "work" => Work!AssignmentSound

\* An assignment that may run holds the revisions it selected, a history is exact, the
\* catalog keeps its limits, and a sweep finds every expired note (guidance.py).
GuidanceSound ==
  /\ scenario = "skills" => Skilled!GuidanceSound
  /\ scenario = "guided" => Guided!GuidanceSound
  /\ scenario = "notes" => Noted!GuidanceSound
  /\ scenario = "swept" => Swept!GuidanceSound

ScheduleKeptStep ==
  /\ scenario = "cadence" => Cadence!ScheduleKept
  /\ scenario = "attempts" => Attempts!ScheduleKept
  /\ scenario = "episodes" => Episodes!ScheduleKept
  /\ scenario = "legacy" => Legacy!ScheduleKept
  /\ scenario = "effect" => Effect!AssignmentKept
  /\ scenario = "waits" => Waits!AssignmentKept
  /\ scenario = "approval" => Approval!AssignmentKept
  /\ scenario = "work" => Work!AssignmentKept
  /\ scenario = "upkeep" => Upkeep!MaintenanceStays
  /\ scenario = "skills" => Skilled!GuidanceStays
  /\ scenario = "guided" => Guided!GuidanceStays
  /\ scenario = "notes" => Noted!GuidanceStays
  /\ scenario = "swept" => Swept!GuidanceStays

\* Nothing that is settled, published, stopped or finished comes back, owners take
\* turns, and a request leaves only under the claim of the current epoch; a unit
\* completes only under a live claim, and guidance changes only by a host that saw it
\* (scheduler.py, assignments.py, maintenance.py, guidance.py).
ScheduleKept == [][ScheduleKeptStep]_vars

=============================================================================
