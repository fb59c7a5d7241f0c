---------------------------- MODULE AuditDelivery ----------------------------
(***************************************************************************)
(* AuditOutboxDelivery over the outbox: workers claim audit entries in one *)
(* transaction, call the sink outside any transaction, and settle the      *)
(* claim in a second, fenced transaction.  A worker may crash anywhere, a  *)
(* commit acknowledgement may be lost, the sink may publish and still      *)
(* raise, and `now` is whatever the caller read before the call.           *)
(***************************************************************************)
EXTENDS Outbox

CONSTANTS
  Requests,       \* the entries' requests that producers make, a set of Work
  ClaimTopics,    \* the topics a delivery worker claims: (AUDIT_OUTBOX_TOPIC,)
  Limits,         \* the batch sizes callers pass to claim and reclaim_expired
  Lease,          \* lease_duration
  MaxAttempts,    \* max_attempts
  BaseDelay,      \* base_retry_delay
  MaxDelay,       \* max_retry_delay
  Skew,           \* how far a caller's reading of the time is from the clock
  MaxTime,        \* datetime.max, and the bound of the clock
  MaxCrashes,     \* bound on worker crashes
  MaxBackoff      \* bound on the attempts BackoffDoubles looks at

ASSUME DeliveryConstants ==
  /\ Requests \subseteq Work
  /\ ClaimTopics \subseteq Topics
  /\ Limits \subseteq Nat \ {0}
  /\ Lease \in Nat \ {0}
  /\ MaxAttempts \in Nat \ {0}
  /\ BaseDelay \in Nat \ {0}
  /\ MaxDelay \in Nat /\ MaxDelay >= BaseDelay
  /\ Skew \in Nat
  /\ MaxTime \in Nat
  /\ MaxCrashes \in Nat
  /\ MaxBackoff \in Nat

VARIABLES
  clock,          \* the time
  crashes,        \* the number of crashes so far
  request,        \* [Entries -> Work or Null], the request that inserted the row
  claimTx,        \* [Workers -> the open claim transaction of a worker]
  claims,         \* the set of claims in the hands of workers
  published,      \* [Entries -> number of sink calls that took effect]
  reports         \* the set of AuditDeliveryResults returned to callers

vars == <<rows, clock, crashes, request, claimTx, claims, published, reports>>

\* A ClaimedOutboxEntry and how far its deliver call has come.  `now` is the
\* caller's reading: the claim's until deliver starts, then deliver's.
Claim == [worker : Workers, entry : Entries, version : Nat, attempt : Nat,
          expires : Int, now : Int,
          stage : {"held", "publishing", "published", "failed"}]

Report == [entry : Entries, version : Nat, state : {"delivered", "retry_scheduled", "dead_lettered"}]

NoTx == [entries |-> {}, now |-> 0]

Times == 0 .. MaxTime

Readings == {t \in Times : clock - Skew <= t /\ t <= clock + Skew}

TypeOK ==
  /\ OutboxTypeOK
  /\ clock \in Times
  /\ crashes \in 0 .. MaxCrashes
  /\ request \in [Entries -> Work \cup {Null}]
  /\ claimTx \in [Workers -> [entries : SUBSET Entries, now : Int]]
  /\ claims \subseteq Claim
  /\ published \in [Entries -> Nat]
  /\ reports \subseteq Report

Init ==
  /\ OutboxInit
  /\ clock = 0
  /\ crashes = 0
  /\ request = [e \in Entries |-> Null]
  /\ claimTx = [w \in Workers |-> NoTx]
  /\ claims = {}
  /\ published = [e \in Entries |-> 0]
  /\ reports = {}

Locked == UNION {claimTx[w].entries : w \in Workers}

-----------------------------------------------------------------------------
\* Time passes.
Tick ==
  /\ clock < MaxTime
  /\ clock' = clock + 1
  /\ UNCHANGED <<rows, crashes, request, claimTx, claims, published, reports>>

\* A producer's transaction enqueues an entry and commits.  A replay, a conflict
\* and a transaction that rolls back leave the table as it was.
Enqueue(e, work) ==
  /\ EnqueueRow(e, work)
  /\ request' = IF EnqueueResult(e, work) = "inserted"
                THEN [request EXCEPT ![e] = work] ELSE request
  /\ UNCHANGED <<clock, crashes, claimTx, claims, published, reports>>

\* claim: SELECT ... FOR UPDATE SKIP LOCKED inside a transaction not yet committed.
OpenClaim(w, limit) ==
  /\ claimTx[w] = NoTx
  /\ \E now \in Readings, chosen \in SUBSET Entries :
       /\ chosen # {}
       /\ FirstBy(AvailableAt, Available(ClaimTopics, now, Locked), limit, chosen)
       /\ claimTx' = [claimTx EXCEPT ![w] = [entries |-> chosen, now |-> now]]
  /\ UNCHANGED <<rows, clock, crashes, request, claims, published, reports>>

ValidClaims(w) == \A e \in claimTx[w].entries : rows[e].payload = "canonical"

NewClaims(w) ==
  {[worker |-> w, entry |-> e, version |-> rows[e].version + 1,
    attempt |-> rows[e].attempt_count + 1, expires |-> claimTx[w].now + Lease,
    now |-> claimTx[w].now, stage |-> "held"] : e \in claimTx[w].entries}

\* Every claimed payload is valid and the transaction commits.  When the commit
\* acknowledgement is lost the rows are claimed and the worker has no claim.
CommitClaim(w) ==
  /\ claimTx[w] # NoTx
  /\ ValidClaims(w)
  /\ ClaimRows(claimTx[w].entries, w, claimTx[w].now + Lease)
  /\ \E acknowledged \in BOOLEAN :
       claims' = IF acknowledged THEN claims \cup NewClaims(w) ELSE claims
  /\ claimTx' = [claimTx EXCEPT ![w] = NoTx]
  /\ UNCHANGED <<clock, crashes, request, published, reports>>

\* _validate_claim raises on one of the payloads: the transaction rolls back.
AbortClaim(w) ==
  /\ claimTx[w] # NoTx
  /\ ~ValidClaims(w)
  /\ claimTx' = [claimTx EXCEPT ![w] = NoTx]
  /\ UNCHANGED <<rows, clock, crashes, request, claims, published, reports>>

Restage(c, stage, now) ==
  claims' = (claims \ {c}) \cup
              {[worker |-> c.worker, entry |-> c.entry, version |-> c.version,
                attempt |-> c.attempt, expires |-> c.expires, now |-> now,
                stage |-> stage]}

\* deliver checks the lease against its own `now`: a new reading, or the one
\* the claim was made with (deliver_one).
Deliver(c) ==
  /\ c.stage = "held"
  /\ \E now \in Readings \cup {c.now} :
       IF now >= c.expires
       THEN claims' = claims \ {c}
       ELSE Restage(c, "publishing", now)
  /\ UNCHANGED <<rows, clock, crashes, request, claimTx, published, reports>>

\* The sink call: it takes effect or not, and it returns or raises.
Publish(c) ==
  /\ c.stage = "publishing"
  /\ \E effect \in BOOLEAN, stage \in {"published", "failed"} :
       /\ stage = "published" => effect
       /\ published' = [published EXCEPT ![c.entry] = IF effect THEN @ + 1 ELSE @]
       /\ Restage(c, stage, c.now)
  /\ UNCHANGED <<rows, clock, crashes, request, claimTx, reports>>

\* A settlement commits and is reported; or it commits, the acknowledgement is
\* lost and nothing is reported.
Settled(c, state) ==
  /\ claims' = claims \ {c}
  /\ \E acknowledged \in BOOLEAN :
       reports' = IF acknowledged
                  THEN reports \cup {[entry |-> c.entry, version |-> c.version, state |-> state]}
                  ELSE reports
  /\ UNCHANGED <<clock, crashes, request, claimTx, published>>

Fenced(c) == Fence(c.entry, c.worker, c.version, c.now)

\* Mutant: a sink failure is acknowledged as well.
AckFailed(c) ==
  /\ c.stage \in {"published", "failed"}
  /\ Fenced(c)
  /\ AckRow(c.entry)
  /\ Settled(c, "delivered")

Ack(c) ==
  /\ c.stage = "published"
  /\ Fenced(c)
  /\ AckRow(c.entry)
  /\ Settled(c, "delivered")

RetryDelay(attempt) ==
  LET exponent   == IF attempt - 1 < 30 THEN attempt - 1 ELSE 30
      multiplier == 2 ^ exponent
  IN  IF BaseDelay > MaxDelay \div multiplier THEN MaxDelay ELSE BaseDelay * multiplier

\* Mutant: the entry is given up one attempt early.
DeadLetterEarly(c) ==
  /\ c.stage = "failed"
  /\ c.attempt + 1 >= MaxAttempts
  /\ Fenced(c)
  /\ DeadLetterRow(c.entry, "audit_sink_unavailable")
  /\ Settled(c, "dead_lettered")

DeadLetter(c) ==
  /\ c.stage = "failed"
  /\ c.attempt >= MaxAttempts
  /\ Fenced(c)
  /\ DeadLetterRow(c.entry, "audit_sink_unavailable")
  /\ Settled(c, "dead_lettered")

Retry(c) ==
  /\ c.stage = "failed"
  /\ c.attempt < MaxAttempts
  /\ RetryDelay(c.attempt) <= MaxTime - c.now
  /\ Fenced(c)
  /\ RetryRow(c.entry, c.now + RetryDelay(c.attempt), "audit_sink_unavailable")
  /\ Settled(c, "retry_scheduled")

\* The settlement raises: the fence matches no row, the retry time is not
\* representable, or the transaction rolls back.  The caller has no result.
SettleRaises(c) ==
  /\ c.stage \in {"published", "failed"}
  /\ claims' = claims \ {c}
  /\ UNCHANGED <<rows, clock, crashes, request, claimTx, published, reports>>

\* reclaim_expired, called by any process of the host.
ReclaimExpired(limit) ==
  /\ \A e \in Entries : ~MalformedLease(e)
  /\ \E now \in Readings, chosen \in SUBSET Entries :
       /\ chosen # {}
       /\ FirstBy(LeaseExpiresAt, Expired(now), limit, chosen)
       /\ ReclaimRows(chosen, now)
  /\ UNCHANGED <<clock, crashes, request, claimTx, claims, published, reports>>

\* A worker process dies: its open transaction rolls back, its claims are lost.
Crash(w) ==
  /\ crashes < MaxCrashes
  /\ crashes' = crashes + 1
  /\ claimTx' = [claimTx EXCEPT ![w] = NoTx]
  /\ claims' = {c \in claims : c.worker # w}
  /\ UNCHANGED <<rows, clock, request, published, reports>>

Next ==
  \/ Tick
  \/ \E e \in Entries, work \in Requests : Enqueue(e, work)
  \/ \E w \in Workers, limit \in Limits : OpenClaim(w, limit)
  \/ \E w \in Workers : CommitClaim(w) \/ AbortClaim(w) \/ Crash(w)
  \/ \E c \in claims : Deliver(c) \/ Publish(c) \/ Ack(c) \/ DeadLetter(c)
                        \/ Retry(c) \/ SettleRaises(c)
  \/ \E limit \in Limits : ReclaimExpired(limit)

Spec == Init /\ [][Next]_vars

\* A host that runs delivery keeps running it: time passes, some process calls
\* reclaim_expired, and each worker keeps claiming and finishes its transaction.
LiveSpec ==
  /\ Spec
  /\ WF_vars(Tick)
  /\ WF_vars(\E limit \in Limits : ReclaimExpired(limit))
  /\ \A w \in Workers :
       /\ WF_vars(\E limit \in Limits : OpenClaim(w, limit))
       /\ WF_vars(CommitClaim(w) \/ AbortClaim(w))

-----------------------------------------------------------------------------
(* Properties *)

\* The lease columns are set exactly on claimed rows, so reclaim_expired never
\* meets the malformed lease it refuses to work with.
LeaseShape ==
  \A e \in Entries : Present(e) =>
    /\ rows[e].status = "claimed" <=> rows[e].lease_owner # Null
    /\ rows[e].status = "claimed" <=> rows[e].lease_expires_at # Null

\* FOR UPDATE SKIP LOCKED: two open claim transactions never hold the same
\* entry, and an entry they hold is still waiting when they commit.
OpenClaimsDisjoint ==
  \A w \in Workers : \A e \in claimTx[w].entries :
    /\ Present(e)
    /\ rows[e].status \in {"pending", "retry"}
    /\ \A v \in Workers \ {w} : e \notin claimTx[v].entries

\* A claim in a worker's hands is at most as new as its row, and if it is as
\* new then the row is still leased to that worker for that attempt.
ClaimFenced(c) ==
  /\ Present(c.entry)
  /\ c.version <= rows[c.entry].version
  /\ c.version = rows[c.entry].version =>
       /\ rows[c.entry].status = "claimed"
       /\ rows[c.entry].lease_owner = c.worker
       /\ rows[c.entry].lease_expires_at = c.expires
       /\ rows[c.entry].attempt_count = c.attempt

\* Every claim is fenced, and no two claims carry the same version of an entry.
\* This is what makes the version fence of ack, retry and dead_letter safe after
\* a reclaim, although deliver settles with a reading of the time taken before
\* the sink call.
ClaimsFenced ==
  /\ \A c \in claims : ClaimFenced(c)
  /\ \A c, d \in claims : c.entry = d.entry /\ c.version = d.version => c = d

\* What deliver reported to its caller is durable: a delivered or dead-lettered
\* result names a row that is in that state for good, one version after the
\* claim, and a scheduled retry is never undone by a late settlement.
ReportsDurable ==
  \A r \in reports :
    /\ Present(r.entry)
    /\ r.state = "delivered" =>
         rows[r.entry].status = "succeeded" /\ rows[r.entry].version = r.version + 1
    /\ r.state = "dead_lettered" =>
         rows[r.entry].status = "dead_letter" /\ rows[r.entry].version = r.version + 1
    /\ r.state = "retry_scheduled" => rows[r.entry].version > r.version

\* A claim whose sink call returned was published.
StagePublished ==
  \A c \in claims : c.stage = "published" => published[c.entry] > 0

\* At least once: a succeeded row was published to the sink.
SucceededWasPublished ==
  \A e \in Entries : Present(e) /\ rows[e].status = "succeeded" => published[e] > 0

Attempts(e) == IF Present(e) THEN rows[e].attempt_count ELSE 0

\* Duplicates are bounded: each attempt calls the sink at most once, so an
\* entry takes effect at most attempt_count times.
PublishBudget ==
  \A e \in Entries : published[e] <= Attempts(e)

\* An entry is given up only when its attempts are exhausted and the last of
\* them ended in a sink failure, never because a lease expired.
DeadLetterExhausted ==
  \A e \in Entries : Present(e) /\ rows[e].status = "dead_letter" =>
    /\ rows[e].attempt_count >= MaxAttempts
    /\ rows[e].last_error_code = "audit_sink_unavailable"

\* The validation inside the claim transaction: a payload that is not canonical
\* is never leased, even when it shares a batch with canonical ones.
MalformedNeverLeased ==
  \A e \in Entries : Present(e) /\ rows[e].payload = "malformed" =>
    rows[e].status = "pending" /\ rows[e].version = 0

\* From the attempt of a failed delivery on, each further failure doubles the
\* backoff until it meets max_retry_delay, also where the exponent is capped and
\* where the division truncates.
BackoffDoubles ==
  \A c \in claims : c.stage = "failed" =>
    \A attempt \in c.attempt .. MaxBackoff :
       RetryDelay(attempt + 1) =
         IF 2 * RetryDelay(attempt) < MaxDelay THEN 2 * RetryDelay(attempt) ELSE MaxDelay

\* What the table says of an entry is what happened to it: a succeeded entry was
\* published, at most once per counted attempt; a dead-lettered one had all its
\* attempts and a failing sink; a malformed one was never leased, and the delay of a
\* retry doubles up to its limit (deliver, claim, _settle_failure).
OutcomesHonest ==
  /\ SucceededWasPublished
  /\ PublishBudget
  /\ DeadLetterExhausted
  /\ MalformedNeverLeased
  /\ BackoffDoubles

\* Every change of a row bumps its version by one, only a claim counts an
\* attempt, a terminal row never changes, and the request columns other than
\* available_at are never rewritten.
RowStep(e) ==
  Present(e) /\ rows'[e] # rows[e] =>
    /\ rows[e].status \notin {"succeeded", "dead_letter"}
    /\ rows'[e].version = rows[e].version + 1
    /\ rows'[e].attempt_count =
         rows[e].attempt_count + (IF rows'[e].status = "claimed" THEN 1 ELSE 0)
    /\ rows'[e].topic = rows[e].topic
    /\ rows'[e].payload = rows[e].payload

RowsAdvance == [][\A e \in Entries : RowStep(e)]_rows

\* The entries as a producer knows them.
StateOf(status) ==
  CASE status = "absent" -> "absent"
    [] status \in {"pending", "retry"} -> "waiting"
    [] status = "claimed" -> "taken"
    [] status = "succeeded" -> "done"
    [] status = "dead_letter" -> "dead"

Contract == INSTANCE DeliveryContract WITH
  state <- [e \in Entries |-> StateOf(rows[e].status)],
  tries <- [e \in Entries |-> Attempts(e)],
  effects <- published

\* The store, its workers and its sweeper implement the delivery contract: with all
\* leases, fences, reclaims, crashes and lost acknowledgements a producer sees entries
\* that wait, are taken, given back, finished after the sink took them at most once
\* per attempt, or given up when their attempts are spent (outbox.py, audit_delivery.py).
ContractKept == Contract!Spec

\* Under LiveSpec a lease that expires within the clock's range is released.
ExpiredLeaseReleased ==
  \A e \in Entries :
    (Present(e) /\ rows[e].status = "claimed" /\ rows[e].lease_expires_at <= MaxTime)
      ~> (rows[e].status # "claimed" \/ rows[e].lease_expires_at > MaxTime)

\* Under LiveSpec a canonical audit entry that is available is claimed: claim
\* validates payloads before it commits so that a bad one does not loop forever.
AvailableWorkClaimed ==
  \A e \in Entries :
    (/\ Present(e)
     /\ rows[e].status \in {"pending", "retry"}
     /\ rows[e].topic \in ClaimTopics
     /\ rows[e].payload = "canonical"
     /\ rows[e].available_at <= MaxTime)
      ~> (rows[e].status \notin {"pending", "retry"})

\* While the host keeps reclaiming and claiming, no entry is stuck: an expired lease is
\* released and available canonical work is claimed (reclaim_expired, claim).
EntriesMove == ExpiredLeaseReleased /\ AvailableWorkClaimed

\* Repeating the enqueue that created a row is a no-op, as the tests of
\* PostgresOutboxStore.enqueue state.
ReplayIsNoop ==
  \A e \in Entries : Present(e) => EnqueueResult(e, request[e]) = "replayed"
=============================================================================
