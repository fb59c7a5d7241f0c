---------------------------- MODULE MCProgress -----------------------------
(***************************************************************************)
(* Instances for TLC of the components whose progress depends on what a    *)
(* host repeats: audit delivery, work admission, attachment storage and    *)
(* push deliveries.  A scenario is one of them with the fairness that the  *)
(* host provides; the others stay in an initial state.                     *)
(***************************************************************************)
EXTENDS Integers

CONSTANTS Scenarios, Null

VARIABLES
  scenario,
  clock, crashes, failures,
  rows, request, claimTx, claims, published, reports,
  config, bound, written, ops, slots, submissions, held, replay, sweep, purge,
  stored, owner, tombs, disk, ownerDir, excl, tx, w, p, r,
  dest, row, taken, sent, polls, refused, now

deliveryVars == <<rows, request, claimTx, claims, published, reports>>
admissionVars == <<config, bound, written, ops, slots, submissions, held, replay, sweep, purge>>
storeVars == <<stored, owner, tombs, disk, ownerDir, excl, tx, w, p, r>>
pushVars == <<dest, row, taken, sent, polls, refused, now>>
vars == <<scenario, clock, crashes, failures, deliveryVars, admissionVars, storeVars, pushVars>>

-----------------------------------------------------------------------------
(* The constants of the scenarios, by name so that TLC computes them once. *)
Topics == {"audit.publish"}
Canonical == {[topic |-> "audit.publish", payload |-> "canonical", available_at |-> at] :
                at \in {0, 1}}

Parents == [c \in {"global", "interactive"} |-> IF c = "global" THEN Null ELSE "global"]
OneSlot == {[active |-> [c \in DOMAIN Parents |-> 1],
             queue |-> [c \in DOMAIN Parents |-> IF c = "interactive" THEN 2 ELSE 0],
             wait |-> [c \in DOMAIN Parents |-> IF c = "interactive" THEN 1 ELSE 0]]}
TwoWorks == {[submission |-> s, owner |-> "u", class |-> "interactive",
              key |-> [kind |-> "none", of |-> 0], input |-> "", parent |-> Null] : s \in {1, 2}}

OneLease == [x \in {"x1"} |-> "lease"]

\* One audit entry, two workers.
Delivery == INSTANCE AuditDelivery WITH
  Entries <- {1}, Workers <- {1, 2}, Topics <- Topics, Requests <- Canonical,
  ClaimTopics <- Topics, Limits <- {1}, Lease <- 1, MaxAttempts <- 2, BaseDelay <- 1,
  MaxDelay <- 3, Skew <- 0, MaxTime <- 2, MaxCrashes <- 0, MaxBackoff <- 40

\* One slot, two operations, and time for every deadline of theirs.
Admission == INSTANCE WorkAdmission WITH
  Ops <- {1, 2}, Workers <- {1}, SubmissionIds <- {1, 2},
  Classes <- DOMAIN Parents, Parent <- Parents, VoiceClasses <- {}, Configs <- OneSlot,
  Requests <- TwoWorks, Outcomes <- {},
  MaxSlots <- 1, VoiceLimit <- 1, SlotLease <- 1, Retention <- 5, PurgeLimit <- 1,
  Lag <- 0, MaxTime <- 2, Horizon <- 1, MaxGeneration <- 1, MaxConfigure <- 0

\* One upload and its purges, with a failure and a crash.
Storage == INSTANCE AttachmentStorage WITH
  Attachments <- {"a"}, Legacy <- {}, Writers <- {"x1"}, Purgers <- {"y1"}, Readers <- {},
  LeaseOf <- OneLease, Contents <- {"c"}, Evidence <- {},
  SweepLimit <- 1, MaxVersion <- 0, MaxFailures <- 1, MaxCrashes <- 1,
  rows <- stored

\* Two deliveries that are claimed one at a time, by one worker that may crash.
Push == INSTANCE PushDeliveries WITH
  Deliveries <- {1, 2}, Destinations <- {"phone"}, Workers <- {1}, Limits <- {1},
  MaxAttempts <- 1, Lease <- 1, Lag <- 0, MaxTime <- 1, MaxRevision <- 1, MaxCrashes <- 1,
  held <- taken, claims <- polls

ASSUME Admission!AdmissionConstants
ASSUME Storage!StorageConstants
ASSUME Push!PushConstants

-----------------------------------------------------------------------------
Init ==
  /\ scenario \in Scenarios
  /\ Delivery!Init /\ Admission!Init /\ Storage!Init /\ Push!Init

\* A step of a component in its scenario.
In(name, A, rest) == scenario = name /\ A /\ UNCHANGED <<scenario, rest>>
DeliveryRest == <<failures, admissionVars, storeVars, pushVars>>
AdmissionRest == <<crashes, failures, deliveryVars, storeVars, pushVars>>
StorageRest == <<clock, deliveryVars, admissionVars, pushVars>>
PushRest == <<clock, failures, deliveryVars, admissionVars, storeVars>>

Next ==
  \/ In("delivery", Delivery!Next, DeliveryRest)
  \/ In("admission", Admission!Next, AdmissionRest)
  \/ In("storage", Storage!Next, StorageRest)
  \/ In("push", Push!Next, PushRest)

Spec == Init /\ [][Next]_vars

(* What the host repeats.  The scenario never changes, so one fairness condition serves   *)
(* an action of each scenario: it says of each what it would say on its own.              *)

\* Time passes; leases and deadlines come.
TimePasses ==
  \/ In("delivery", Delivery!Tick, DeliveryRest)
  \/ In("admission", Admission!Tick, AdmissionRest)
  \/ In("storage", Storage!Expire("a"), StorageRest)
  \/ In("push", Push!Tick, PushRest)

\* The host keeps sweeping.
HostSweeps ==
  \/ In("delivery", Delivery!ReclaimExpired(1), DeliveryRest)
  \/ In("admission", Admission!ExpireQueuedStep, AdmissionRest)
  \/ In("storage", Storage!Sweep, StorageRest)
  \/ In("push", Push!Swept, PushRest)

\* Its workers keep claiming, it keeps opening the sweep of slots, and retry times come.
HostPolls(x) ==
  \/ In("delivery", Delivery!OpenClaim(x, 1), DeliveryRest)
  \/ x = 1 /\ In("admission", Admission!OpenSweep, AdmissionRest)
  \/ In("storage", Storage!RetryDue(IF x = 1 THEN "a" ELSE "namespace"), StorageRest)
  \/ x = 1 /\ In("push", Push!Polled, PushRest)

\* Calls that were started come to an end.
CallsGoOn(x) ==
  \/ In("delivery", Delivery!CommitClaim(x) \/ Delivery!AbortClaim(x), DeliveryRest)
  \/ In("admission", (x = 1 /\ Admission!CloseReplay) \/ (x = 2 /\ Admission!CloseSweep),
        AdmissionRest)
  \/ x = 1 /\ In("storage", Storage!WriterSteps("x1"), StorageRest)

\* A free exclusion is obtained in the end though others take it in between, and the host
\* keeps running the tombstones that are due.
StorageFair ==
  /\ SF_vars(In("storage", Storage!PurgerSteps("y1"), StorageRest))
  /\ \A k \in {"a", "namespace"} : SF_vars(In("storage", Storage!RunsDue("y1", k), StorageRest))

LiveSpec ==
  /\ Spec
  /\ WF_vars(TimePasses) /\ WF_vars(HostSweeps)
  /\ \A x \in {1, 2} : WF_vars(HostPolls(x)) /\ WF_vars(CallsGoOn(x))
  /\ StorageFair

-----------------------------------------------------------------------------
\* While the host keeps reclaiming and claiming, no entry is stuck: an expired lease is
\* released and available canonical work is claimed (reclaim_expired, claim).
EntriesMove == scenario = "delivery" => Delivery!EntriesMove

\* Queued work does not wait for ever, and the capacity of a silent worker comes back
\* (expire_queued and the queue deadline, slot leases and their sweep).
WorkMoves == scenario = "admission" => Admission!QueuedLeaves /\ Admission!CapacityReturns

\* Files of an interrupted upload become a ready attachment or are removed, and every
\* scheduled purge is done (the recovery sweep, execute).
StorageMoves == scenario = "storage" => Storage!UploadsEnd

\* Polling hosts move every owed delivery on, also one behind another (_CLAIM_SQL).
DeliveriesMove == scenario = "push" => Push!DeliveriesMove
=============================================================================
