-------------------------- MODULE MCWorkAdmission ---------------------------
(***************************************************************************)
(* Instances of WorkAdmission, PushDeliveries and AtlasPages for TLC.  A   *)
(* scenario is one of them with constants of its own; Scenarios says where *)
(* a run starts.  The state of the component that runs is in v1, v2, ...,  *)
(* in the order in which its module declares it.                           *)
(***************************************************************************)
EXTENDS Integers

CONSTANTS Scenarios, Null

VARIABLES scenario, v1, v2, v3, v4, v5, v6, v7, v8, v9, v10, v11

vars == <<scenario, v1, v2, v3, v4, v5, v6, v7, v8, v9, v10, v11>>

-----------------------------------------------------------------------------
\* voice below interactive below global
Leaf == [c \in {"interactive"} |-> Null]
Pair == [c \in {"global", "interactive"} |-> IF c = "global" THEN Null ELSE "global"]
Line == [c \in {"global", "interactive", "voice"} |->
           CASE c = "global" -> Null [] c = "interactive" -> "global" [] c = "voice" -> "interactive"]

\* The same active limit for every class; only interactive has a queue.
Config(parent, active, queue, wait) ==
  [active |-> [c \in DOMAIN parent |-> active],
   queue |-> [c \in DOMAIN parent |-> IF c = "interactive" THEN queue ELSE 0],
   wait |-> [c \in DOMAIN parent |-> IF c = "interactive" THEN wait ELSE 0]]

\* More slots in the class than in its parent.
Wide == [Config(Pair, 1, 2, 1) EXCEPT !.active["interactive"] = 2]

Ask(s, owner, class, key, input, parent) ==
  [submission |-> s, owner |-> owner, class |-> class, key |-> key, input |-> input,
   parent |-> parent]

NoKey == [kind |-> "none", of |-> 0]
Plain(n) == [kind |-> "plain", of |-> n]
Retry(o) == [kind |-> "retry", of |-> o]

Work(s) == Ask(s, "u", "interactive", NoKey, "", Null)
Keyed(s, n, input) == Ask(s, "u", "interactive", Plain(n), input, Null)

-----------------------------------------------------------------------------
(* The constants of the scenarios, by name so that TLC computes them once. *)
LeafClasses == DOMAIN Leaf
PairClasses == DOMAIN Pair
LineClasses == DOMAIN Line
Narrow == {Config(Leaf, 1, 2, 2)}

WideConfigs == {Wide}
TwoWorks == {Work(s) : s \in {1, 2}}
GrowingQueues == {Config(Leaf, 1, n, 2) : n \in {1, 2}}
ThreeWorks == {Work(s) : s \in {1, 2, 3}}
Doubled == {Work(1), Keyed(2, 2, "x"), Keyed(3, 1, "x"), Keyed(4, 1, "x")}
Shrinking == {Config(Line, n, 1, 1) : n \in {1, 2}}
VoiceWork == {Ask(s, "u", "voice", NoKey, "", Null) : s \in {1, 2}} \cup
             {Ask(3, "v", "interactive", NoKey, "", Null)}
Replays == {Keyed(1, 1, "x"), Keyed(2, 1, "x"), Keyed(3, 1, "y")}
RetriedTwice == {Keyed(1, 1, "x")} \cup
                {Ask(s, "u", "interactive", Retry(1), "x", 1) : s \in {2, 3}}

(* The constants of the scenarios, by name so that TLC computes them once. *)
Ops1 == {1, 2}
Outcomes1 == {"completed"}
Ops2 == {1, 2, 3}
Workers1 == {1}
SubmissionIds1 == {1, 2, 3, 4}
VoiceClasses1 == {"voice"}
Destinations1 == {"phone"}
Pages1 == 1 .. 2
Commands1 == 1 .. 4
Operations1 == {"create", "edit", "delete"}
Pages2 == 1 .. 3
Operations2 == {"delete", "link"}
Operations3 == {"link"}
Directions1 == {"outbound", "backlink"}

\* Two workers, a queue, leases that run out.
Execution == INSTANCE WorkAdmission WITH
  clock <- v1, config <- v2, bound <- v3, written <- v4, ops <- v5, slots <- v6, submissions <- v7,
  held <- v8, replay <- v9, sweep <- v10, purge <- v11,
  Ops <- Ops1, Workers <- Ops1, SubmissionIds <- Ops1, Classes <- PairClasses, Parent <- Pair,
  VoiceClasses <- {}, Configs <- WideConfigs, Requests <- TwoWorks, Outcomes <- Outcomes1,
  MaxSlots <- 2, VoiceLimit <- 1, SlotLease <- 1, Retention <- 3, PurgeLimit <- 1, Lag <- 0,
  MaxTime <- 2, Horizon <- 1, MaxGeneration <- 2, MaxConfigure <- 0

\* A queue that three operations fill and, after configure, one that they overrun.
QueueLimit == INSTANCE WorkAdmission WITH
  clock <- v1, config <- v2, bound <- v3, written <- v4, ops <- v5, slots <- v6, submissions <- v7,
  held <- v8, replay <- v9, sweep <- v10, purge <- v11,
  Ops <- Ops2, Workers <- Workers1, SubmissionIds <- Ops2, Classes <- LeafClasses, Parent <- Leaf,
  VoiceClasses <- {}, Configs <- GrowingQueues, Requests <- ThreeWorks, Outcomes <- {},
  MaxSlots <- 1, VoiceLimit <- 1, SlotLease <- 1, Retention <- 3, PurgeLimit <- 1, Lag <- 0,
  MaxTime <- 0, Horizon <- 0, MaxGeneration <- 1, MaxConfigure <- 1

\* One slot and three pieces of work, one of them submitted twice under its key.
Order == INSTANCE WorkAdmission WITH
  clock <- v1, config <- v2, bound <- v3, written <- v4, ops <- v5, slots <- v6, submissions <- v7,
  held <- v8, replay <- v9, sweep <- v10, purge <- v11,
  Ops <- Ops2, Workers <- Workers1, SubmissionIds <- SubmissionIds1, Classes <- LeafClasses,
  Parent <- Leaf, VoiceClasses <- {}, Configs <- Narrow, Requests <- Doubled, Outcomes <- {},
  MaxSlots <- 1, VoiceLimit <- 1, SlotLease <- 1, Retention <- 3, PurgeLimit <- 1, Lag <- 0,
  MaxTime <- 0, Horizon <- 0, MaxGeneration <- 1, MaxConfigure <- 0

\* One slot and two pieces of work that arrive at two times.
Arrival == INSTANCE WorkAdmission WITH
  clock <- v1, config <- v2, bound <- v3, written <- v4, ops <- v5, slots <- v6, submissions <- v7,
  held <- v8, replay <- v9, sweep <- v10, purge <- v11,
  Ops <- Ops1, Workers <- Workers1, SubmissionIds <- Ops1, Classes <- LeafClasses, Parent <- Leaf,
  VoiceClasses <- {}, Configs <- Narrow, Requests <- TwoWorks, Outcomes <- {}, MaxSlots <- 1,
  VoiceLimit <- 1, SlotLease <- 1, Retention <- 3, PurgeLimit <- 1, Lag <- 0, MaxTime <- 1,
  Horizon <- 1, MaxGeneration <- 1, MaxConfigure <- 0

\* Voice work of two users, and limits that shrink below what is in use.
Capacity == INSTANCE WorkAdmission WITH
  clock <- v1, config <- v2, bound <- v3, written <- v4, ops <- v5, slots <- v6, submissions <- v7,
  held <- v8, replay <- v9, sweep <- v10, purge <- v11,
  Ops <- Ops1, Workers <- Workers1, SubmissionIds <- Ops2, Classes <- LineClasses, Parent <- Line,
  VoiceClasses <- VoiceClasses1, Configs <- Shrinking, Requests <- VoiceWork,
  Outcomes <- Outcomes1, MaxSlots <- 2, VoiceLimit <- 1, SlotLease <- 1, Retention <- 3,
  PurgeLimit <- 1, Lag <- 0, MaxTime <- 0, Horizon <- 0, MaxGeneration <- 1, MaxConfigure <- 1

\* One key under several submissions, once with other work, past its retention.
Replay == INSTANCE WorkAdmission WITH
  clock <- v1, config <- v2, bound <- v3, written <- v4, ops <- v5, slots <- v6, submissions <- v7,
  held <- v8, replay <- v9, sweep <- v10, purge <- v11,
  Ops <- Ops1, Workers <- Workers1, SubmissionIds <- Ops2, Classes <- LeafClasses, Parent <- Leaf,
  VoiceClasses <- {}, Configs <- Narrow, Requests <- Replays, Outcomes <- Outcomes1, MaxSlots <- 1,
  VoiceLimit <- 1, SlotLease <- 1, Retention <- 1, PurgeLimit <- 1, Lag <- 0, MaxTime <- 3,
  Horizon <- 2, MaxGeneration <- 1, MaxConfigure <- 0

\* A retry of retryable work, asked for twice, and retention.
Retries == INSTANCE WorkAdmission WITH
  clock <- v1, config <- v2, bound <- v3, written <- v4, ops <- v5, slots <- v6, submissions <- v7,
  held <- v8, replay <- v9, sweep <- v10, purge <- v11,
  Ops <- Ops2, Workers <- Workers1, SubmissionIds <- Ops2, Classes <- LeafClasses, Parent <- Leaf,
  VoiceClasses <- {}, Configs <- Narrow, Requests <- RetriedTwice, Outcomes <- Outcomes1,
  MaxSlots <- 1, VoiceLimit <- 1, SlotLease <- 1, Retention <- 1, PurgeLimit <- 2, Lag <- 0,
  MaxTime <- 2, Horizon <- 1, MaxGeneration <- 1, MaxConfigure <- 0

\* One delivery, two workers of which one may crash, clocks that lag.
Fenced == INSTANCE PushDeliveries WITH
  dest <- v1, row <- v2, held <- v3, sent <- v4, claims <- v5, refused <- v6, now <- v7, crashes <-
  v8,
  Deliveries <- Workers1, Destinations <- Destinations1, Workers <- Ops1, Limits <- Workers1,
  MaxAttempts <- 2, Lease <- 1, Lag <- 1, MaxTime <- 3, MaxRevision <- 2, MaxCrashes <- 1

\* The same with clocks that agree.
Agreed == INSTANCE PushDeliveries WITH
  dest <- v1, row <- v2, held <- v3, sent <- v4, claims <- v5, refused <- v6, now <- v7, crashes <-
  v8,
  Deliveries <- Workers1, Destinations <- Destinations1, Workers <- Ops1, Limits <- Workers1,
  MaxAttempts <- 2, Lease <- 1, Lag <- 0, MaxTime <- 3, MaxRevision <- 3, MaxCrashes <- 0

\* Two deliveries that are claimed one at a time, by one worker.
Turns == INSTANCE PushDeliveries WITH
  dest <- v1, row <- v2, held <- v3, sent <- v4, claims <- v5, refused <- v6, now <- v7, crashes <-
  v8,
  Deliveries <- Ops1, Destinations <- Destinations1, Workers <- Workers1, Limits <- Workers1,
  MaxAttempts <- 1, Lease <- 1, Lag <- 0, MaxTime <- 2, MaxRevision <- 1, MaxCrashes <- 0

\* Pages that are created, edited and deleted under one name.
Edited == INSTANCE AtlasPages WITH
  page <- v1, revs <- v2, head <- v3, links <- v4, command <- v5, receipt <- v6, walk <- v7,
  Pages <- Pages1, Existing <- {}, Names <- Workers1, Commands <- Commands1,
  Operations <- Operations1, MaxRevision <- 4, MaxTime <- 1, PageSize <- 1, Directions <- {}

\* Links that are replaced while their targets are deleted.
Linked == INSTANCE AtlasPages WITH
  page <- v1, revs <- v2, head <- v3, links <- v4, command <- v5, receipt <- v6, walk <- v7,
  Pages <- Pages2, Existing <- Pages2, Names <- Pages2, Commands <- Pages2,
  Operations <- Operations2, MaxRevision <- 3, MaxTime <- 0, PageSize <- 1, Directions <- {}

\* Links that are read page by page while they are replaced.
Listed == INSTANCE AtlasPages WITH
  page <- v1, revs <- v2, head <- v3, links <- v4, command <- v5, receipt <- v6, walk <- v7,
  Pages <- Pages2, Existing <- Pages2, Names <- Pages2, Commands <- Pages1,
  Operations <- Operations3, MaxRevision <- 4, MaxTime <- 1, PageSize <- 1,
  Directions <- Directions1

ASSUME Execution!AdmissionConstants /\ QueueLimit!AdmissionConstants /\ Order!AdmissionConstants /\ Arrival!AdmissionConstants /\ Capacity!AdmissionConstants /\ Replay!AdmissionConstants /\ Retries!AdmissionConstants
ASSUME Fenced!PushConstants /\ Agreed!PushConstants /\ Turns!PushConstants
ASSUME Edited!AtlasConstants /\ Linked!AtlasConstants /\ Listed!AtlasConstants

-----------------------------------------------------------------------------
Init ==
  /\ scenario \in Scenarios
  /\ \/ scenario = "execution" /\ Execution!Init
     \/ scenario = "limit" /\ QueueLimit!Init
     \/ scenario = "order" /\ Order!Init
     \/ scenario = "arrival" /\ Arrival!Init
     \/ scenario = "capacity" /\ Capacity!Init
     \/ scenario = "replay" /\ Replay!Init
     \/ scenario = "retries" /\ Retries!Init
     \/ scenario = "fenced" /\ Fenced!Init /\ v9 = Null /\ v10 = Null /\ v11 = Null
     \/ scenario = "agreed" /\ Agreed!Init /\ v9 = Null /\ v10 = Null /\ v11 = Null
     \/ scenario = "turns" /\ Turns!Init /\ v9 = Null /\ v10 = Null /\ v11 = Null
     \/ scenario = "edited" /\ Edited!Init /\ v8 = Null /\ v9 = Null /\ v10 = Null /\ v11 = Null
     \/ scenario = "linked" /\ Linked!Init /\ v8 = Null /\ v9 = Null /\ v10 = Null /\ v11 = Null
     \/ scenario = "listed" /\ Listed!Init /\ v8 = Null /\ v9 = Null /\ v10 = Null /\ v11 = Null

Next ==
  /\ UNCHANGED scenario
  /\ \/ scenario = "execution" /\ Execution!Next
     \/ scenario = "limit" /\ QueueLimit!Next
     \/ scenario = "order" /\ Order!Next
     \/ scenario = "arrival" /\ Arrival!Next
     \/ scenario = "capacity" /\ Capacity!Next
     \/ scenario = "replay" /\ Replay!Next
     \/ scenario = "retries" /\ Retries!Next
     \/ scenario = "fenced" /\ Fenced!Next /\ UNCHANGED <<v9, v10, v11>>
     \/ scenario = "agreed" /\ Agreed!Next /\ UNCHANGED <<v9, v10, v11>>
     \/ scenario = "turns" /\ Turns!Next /\ UNCHANGED <<v9, v10, v11>>
     \/ scenario = "edited" /\ Edited!Next /\ UNCHANGED <<v8, v9, v10, v11>>
     \/ scenario = "linked" /\ Linked!Next /\ UNCHANGED <<v8, v9, v10, v11>>
     \/ scenario = "listed" /\ Listed!Next /\ UNCHANGED <<v8, v9, v10, v11>>

Spec == Init /\ [][Next]_vars

-----------------------------------------------------------------------------
\* A running operation holds one slot in each class of its chain and nothing else holds
\* one, with workers that time out and under limits that shrink; the slots are those of
\* the committed configuration or still in use; running voice work stays within the
\* limit per user, and queues within a limit that some instance has bound
\* (_occupy_slots, configure, submit).
CapacitySound ==
  /\ scenario = "execution" => Execution!TypeOK /\ Execution!CapacityCustody
  /\ scenario = "capacity" => Capacity!CapacityCustody /\ Capacity!SlotTableExact /\ Capacity!VoicePerUser
  /\ scenario = "limit" => QueueLimit!TypeOK /\ QueueLimit!QueueBounded

\* No two workers have the current fence of an operation, and cancelled work is never
\* handed to a worker afterwards (claim_next, claim_operation, cancel).
ExecutionSound ==
  /\ scenario = "execution" => Execution!ExclusiveExecution /\ Execution!CancelReachesWorker

\* An accepted submission can be answered while it is retained, an owner and a key name
\* one operation, and retryable work is retried at most once, retention included
\* (submit, submit_retry, purge_expired).
IdempotencySound ==
  /\ scenario = "replay" => Replay!TypeOK /\ Replay!AcceptedAnswerable /\ Replay!OneOperationPerKey
  /\ scenario = "retries" => Retries!RetriedOnce

\* What is recorded as delivered was sent under the recorded claim, the provider is
\* called under at most max_attempts claims and with the token the delivery was enqueued
\* for, and no claim, acknowledgement or failure breaks a CHECK constraint (_CLAIM_SQL,
\* _ACK_SQL).
DeliveriesSound ==
  /\ scenario = "fenced" => Fenced!TypeOK /\ Fenced!DeliveredWasSent /\ Fenced!SendsBounded /\ Fenced!TokenIsTheBoundOne /\ Fenced!StatementsAccepted
  /\ scenario = "turns" => Turns!TypeOK /\ Turns!SendsBounded

\* A live page is exactly its last revision, links join live pages only, a receipt can
\* be answered again, and a listing shows what was there throughout, once (create_page,
\* edit_page, delete_page, set_links, _list).
AtlasSound ==
  /\ scenario = "edited" => Edited!AtlasSound
  /\ scenario = "linked" => Linked!AtlasSound
  /\ scenario = "listed" => Listed!AtlasSound

\* A current execution has one coherent slot token (assert_current_execution_lease).
LeaseCoherent ==
  /\ scenario = "execution" => Execution!LeaseCoherent

\* With clocks that agree the sweep is not refused (expire_stale_deliveries).
SweepAccepted ==
  /\ scenario = "agreed" => Agreed!SweepAccepted

AdmissionKeptStep ==
  /\ scenario = "order" => Order!StartsInOrder
  /\ scenario = "arrival" => Arrival!StartsInOrder
  /\ scenario = "execution" => Execution!OutcomesKept
  /\ scenario = "replay" => Replay!ResultsKept
  /\ scenario = "fenced" => Fenced!FinishedKept
  /\ scenario = "turns" => Turns!FinishedKept
  /\ scenario = "edited" => Edited!AtlasStays
  /\ scenario = "linked" => Linked!AtlasStays
  /\ scenario = "listed" => Listed!AtlasStays

\* Queued work of a class starts in the order of acceptance, a terminal outcome is never
\* rewritten, a recorded submission result is immutable until retention removes it, a
\* finished delivery changes only by the late acknowledgement of its claim, and a page
\* or a set of links is overwritten only by a host that saw it (claim_next, terminalize,
\* cancel, the sweeps, submit, _ACK_SQL, edit_page, set_links).
AdmissionKept == [][AdmissionKeptStep]_vars

=============================================================================
