------------------------------- MODULE Outbox -------------------------------
(***************************************************************************)
(* The transactional outbox table, as PostgresOutboxStore keeps it: rows   *)
(* that are enqueued once per idempotency key, claimed under a lease,      *)
(* settled under a (worker, version) fence and reclaimed when their lease  *)
(* expires.  Each operator below is the effect of one SQL statement; the   *)
(* module AuditDelivery runs them inside the transactions of its workers.  *)
(*                                                                         *)
(* An entry is named by a number: entry_id and idempotency_key are the     *)
(* same text for AuditOutboxDelivery.enqueue, and the table orders         *)
(* entries by it.  A payload is "canonical" or "malformed"; its bytes and  *)
(* digest are not modelled.                                                *)
(***************************************************************************)
EXTENDS Integers, FiniteSets

CONSTANTS
  Entries,        \* the entry identifiers, ordered as numbers
  Workers,        \* the worker identifiers
  Topics,         \* the topics of the table
  Null            \* SQL NULL

ASSUME EntriesAreNumbers == Entries \subseteq Nat
ASSUME NullIsNoWorker == Null \notin Workers
ASSUME NullIsNoNumber == Null \notin Int

VARIABLE
  rows            \* [Entries -> Row or Absent], the committed table

Absent == [status |-> "absent"]

Payloads == {"canonical", "malformed"}

\* What a producer asks for: the columns an idempotent replay is compared on.
Work == [topic : Topics, payload : Payloads, available_at : Int]

Row == [status : {"pending", "retry", "claimed", "succeeded", "dead_letter"},
        topic : Topics,
        payload : Payloads,
        available_at : Int,
        lease_owner : Workers \cup {Null},
        lease_expires_at : Int \cup {Null},
        version : Nat,
        attempt_count : Nat,
        last_error_code : {Null, "audit_sink_unavailable", "lease_expired"}]

OutboxTypeOK == rows \in [Entries -> Row \cup {Absent}]

OutboxInit == rows = [e \in Entries |-> Absent]

Present(e) == rows[e] # Absent

-----------------------------------------------------------------------------
(* enqueue: insert unless the idempotency key exists; an existing row must *)
(* equal the request, column by column, or the call fails.                 *)

NewRow(work) ==
  [status |-> "pending", topic |-> work.topic, payload |-> work.payload,
   available_at |-> work.available_at, lease_owner |-> Null,
   lease_expires_at |-> Null, version |-> 0, attempt_count |-> 0,
   last_error_code |-> Null]

SameWork(row, work) ==
  /\ row.topic = work.topic
  /\ row.payload = work.payload
  /\ row.available_at = work.available_at

EnqueueResult(e, work) ==
  IF ~Present(e) THEN "inserted"
  ELSE IF SameWork(rows[e], work) THEN "replayed" ELSE "conflict"

EnqueueRow(e, work) ==
  rows' = IF Present(e) THEN rows ELSE [rows EXCEPT ![e] = NewRow(work)]

-----------------------------------------------------------------------------
(* claim: the first `limit` available rows that no open claim has locked.  *)

\* Mutant: a candidate is any row that is not claimed.
AvailableUnclaimed(topics, now, locked) ==
  {e \in Entries \ locked : /\ Present(e)
                            /\ rows[e].status # "claimed"
                            /\ rows[e].topic \in topics
                            /\ rows[e].available_at <= now}

Available(topics, now, locked) ==
  {e \in Entries \ locked :
     /\ Present(e)
     /\ rows[e].status \in {"pending", "retry"}
     /\ rows[e].topic \in topics
     /\ rows[e].available_at <= now}

\* chosen is the result of ORDER BY key, entry_id LIMIT limit over the rows of S.
FirstBy(key, S, limit, chosen) ==
  /\ chosen \subseteq S
  /\ Cardinality(chosen) = IF Cardinality(S) < limit THEN Cardinality(S) ELSE limit
  /\ \A e \in chosen, f \in S \ chosen :
       key[e] < key[f] \/ (key[e] = key[f] /\ e < f)

AvailableAt == [e \in {f \in Entries : Present(f)} |-> rows[e].available_at]

LeaseExpiresAt == [e \in {f \in Entries : Present(f)} |-> rows[e].lease_expires_at]

ClaimedRow(row, worker, expires) ==
  [status |-> "claimed", topic |-> row.topic, payload |-> row.payload,
   available_at |-> row.available_at, lease_owner |-> worker,
   lease_expires_at |-> expires, version |-> row.version + 1,
   attempt_count |-> row.attempt_count + 1, last_error_code |-> Null]

ClaimRows(chosen, worker, expires) ==
  rows' = [e \in Entries |->
             IF e \in chosen THEN ClaimedRow(rows[e], worker, expires) ELSE rows[e]]

-----------------------------------------------------------------------------
(* ack, retry and dead_letter share one fence: the row is claimed, by this *)
(* worker, at this version, under a lease that `now` has not reached.      *)

\* Mutant: the fence without the version.
FenceUnversioned(e, worker, version, now) ==
  /\ Present(e)
  /\ rows[e].status = "claimed"
  /\ rows[e].lease_owner = worker
  /\ rows[e].lease_expires_at > now

Fence(e, worker, version, now) ==
  /\ Present(e)
  /\ rows[e].status = "claimed"
  /\ rows[e].lease_owner = worker
  /\ rows[e].version = version
  /\ rows[e].lease_expires_at > now

\* Mutant: the version is not advanced.
ReleasedSameVersion(row, status, available_at, code) ==
  [status |-> status, topic |-> row.topic, payload |-> row.payload,
   available_at |-> available_at, lease_owner |-> Null,
   lease_expires_at |-> Null, version |-> row.version,
   attempt_count |-> row.attempt_count, last_error_code |-> code]

Released(row, status, available_at, code) ==
  [status |-> status, topic |-> row.topic, payload |-> row.payload,
   available_at |-> available_at, lease_owner |-> Null,
   lease_expires_at |-> Null, version |-> row.version + 1,
   attempt_count |-> row.attempt_count, last_error_code |-> code]

AckRow(e) ==
  rows' = [rows EXCEPT ![e] =
             Released(rows[e], "succeeded", rows[e].available_at, Null)]

RetryRow(e, available_at, code) ==
  rows' = [rows EXCEPT ![e] = Released(rows[e], "retry", available_at, code)]

DeadLetterRow(e, code) ==
  rows' = [rows EXCEPT ![e] =
             Released(rows[e], "dead_letter", rows[e].available_at, code)]

-----------------------------------------------------------------------------
(* reclaim_expired: refuse when a claimed row has no lease, else return    *)
(* the first `limit` expired claims, of any topic, to the retry state.     *)

MalformedLease(e) ==
  /\ Present(e)
  /\ rows[e].status = "claimed"
  /\ rows[e].lease_owner = Null \/ rows[e].lease_expires_at = Null

\* Mutant: lease_expires_at < now.
ExpiredLater(now) ==
  {e \in Entries : Present(e) /\ rows[e].status = "claimed" /\ rows[e].lease_expires_at < now}

Expired(now) ==
  {e \in Entries :
     /\ Present(e)
     /\ rows[e].status = "claimed"
     /\ rows[e].lease_expires_at <= now}

ReclaimRows(chosen, now) ==
  rows' = [e \in Entries |->
             IF e \in chosen THEN Released(rows[e], "retry", now, "lease_expired")
             ELSE rows[e]]

=============================================================================
