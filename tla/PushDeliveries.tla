--------------------------- MODULE PushDeliveries ---------------------------
(***************************************************************************)
(* PushDeliveryRepository (repositories/push_deliveries.py): opaque device *)
(* destinations and the claimed delivery outbox, with the CHECK            *)
(* constraints of database/push_delivery_schema.py.                        *)
(*                                                                         *)
(* Every operation is one statement on rows it locks, so it is one step.   *)
(* A statement that would leave a row the table refuses fails as a whole.  *)
(* Workers call the provider outside a transaction; their clocks may lag,  *)
(* their answers come late or twice, and they may crash. Rows locked by    *)
(* another transaction are skipped.                                        *)
(***************************************************************************)
EXTENDS Naturals, FiniteSets, TLC

CONSTANTS
  Deliveries,    \* delivery ids, numbers in their order
  Destinations,
  Workers,
  Null,
  Limits,        \* values of `limit'
  MaxAttempts,   \* max_attempts of a delivery
  Lease,         \* lease duration
  Lag,           \* how far the clock of a caller may be behind
  MaxTime,       \* bound: the clock
  MaxRevision,   \* bound: revisions of a destination
  MaxCrashes     \* bound: crashes of workers

\* What the module takes for granted of its constants.
PushConstants ==
  /\ Deliveries \subseteq Nat
  /\ Null \notin Workers
  /\ Limits \subseteq Nat \ {0}
  /\ MaxAttempts \in Nat \ {0}
  /\ Lease \in Nat \ {0}
  /\ {Lag, MaxTime, MaxRevision, MaxCrashes} \subseteq Nat

VARIABLES
  dest,     \* notification_device_destination
  row,      \* notification_push_delivery
  held,     \* what the workers hold: claimed deliveries, not yet answered for
  sent,     \* history: the claims under which a delivery reached the provider
  claims,   \* claim ids given out so far
  refused,  \* history: statements that a CHECK constraint made fail
  now,
  crashes

vars == <<dest, row, held, sent, claims, refused, now, crashes>>

Statuses == {"none", "pending", "claimed", "retry", "delivered", "dead_letter", "superseded"}

Destination ==
  [state : {"none", "live", "revoked", "deleted"}, token : Nat, revision : Nat]

NoRow ==
  [status |-> "none", dest |-> Null, token |-> 0, revision |-> 0, attempts |-> 0,
   available |-> 0, owner |-> Null, claim |-> 0, expires |-> 0, claimed |-> 0,
   error |-> FALSE, created |-> 0, updated |-> 0]

\* The CHECK constraints status_shape, claim_shape, error_shape and time_order.
Valid(r) ==
  /\ r.status = "claimed" <=> r.owner # Null
  /\ r.status = "claimed" => r.expires > r.claimed
  /\ r.attempts <= MaxAttempts
  /\ r.attempts = 0 <=> r.claim = 0
  /\ r.error <=> r.status \in {"retry", "dead_letter"}
  /\ r.updated >= r.created
  /\ r.available >= r.created
  /\ r.attempts > 0 => r.claimed >= r.created
  /\ r.status \in {"delivered", "retry", "dead_letter"} => r.updated >= r.claimed

\* Rows satisfy the constraints of their table; claims are numbered and held by workers.
TypeOK ==
  /\ dest \in [Destinations -> Destination]
  /\ DOMAIN row = Deliveries
  /\ \A d \in Deliveries :
       /\ DOMAIN row[d] = DOMAIN NoRow
       /\ row[d].status \in Statuses
       /\ row[d].owner \in Workers \cup {Null}
       /\ row[d].claim \in 0 .. claims
       /\ Valid(row[d])
  /\ held \in [Workers -> SUBSET [delivery : Deliveries, claim : 1 .. claims, token : Nat]]
  /\ sent \in [Deliveries -> SUBSET (1 .. claims)]
  /\ refused \subseteq {"claim", "acknowledge", "fail", "sweep"}
  /\ now \in 0 .. MaxTime
  /\ crashes \in 0 .. MaxCrashes

Init ==
  /\ dest = [x \in Destinations |-> [state |-> "none", token |-> 0, revision |-> 0]]
  /\ row = [d \in Deliveries |-> NoRow]
  /\ held = [w \in Workers |-> {}]
  /\ sent = [d \in Deliveries |-> {}]
  /\ claims = 0
  /\ refused = {}
  /\ now = 0
  /\ crashes = 0

\* What a caller may take for the current time.
Readings == {t \in 0 .. now : t + Lag >= now}

Tick ==
  /\ now < MaxTime
  /\ now' = now + 1
  /\ UNCHANGED <<dest, row, held, sent, claims, refused, crashes>>

\* A statement replaces rows, unless the table refuses one of them.
Write(rows, name) ==
  IF \A d \in DOMAIN rows : Valid(rows[d])
  THEN row' = [d \in Deliveries |-> IF d \in DOMAIN rows THEN rows[d] ELSE row[d]]
       /\ UNCHANGED refused
  ELSE refused' = refused \cup {name} /\ UNCHANGED row

\* Mutant: rows with the same time come in no order, each after the other.
FirstByUntied(key, S, limit) ==
  {d \in S : Cardinality({e \in S : e # d /\ key[e] <= key[d]}) < limit}

\* The first `limit' of a set of deliveries, ordered by a column and the id.
FirstBy(key, S, limit) ==
  {d \in S : Cardinality({e \in S : key[e] < key[d] \/ (key[e] = key[d] /\ e < d)}) < limit}

-----------------------------------------------------------------------------
\* register_destination, rotate_destination_token, revoke_destination and
\* delete_destination: each is fenced by the current revision, so a caller with
\* an older one changes nothing.
RegisterDestination(x) ==
  /\ dest[x].state = "none"
  /\ dest' = [dest EXCEPT ![x] = [state |-> "live", token |-> 1, revision |-> 1]]
  /\ UNCHANGED <<row, held, sent, claims, refused, now, crashes>>

RotateDestinationToken(x) ==
  /\ dest[x].state = "live"
  /\ dest[x].revision < MaxRevision
  /\ dest' = [dest EXCEPT ![x].token = @ + 1, ![x].revision = @ + 1]
  /\ UNCHANGED <<row, held, sent, claims, refused, now, crashes>>

RevokeDestination(x) ==
  /\ dest[x].state = "live"
  /\ dest[x].revision < MaxRevision
  /\ dest' = [dest EXCEPT ![x].state = "revoked", ![x].revision = @ + 1]
  /\ UNCHANGED <<row, held, sent, claims, refused, now, crashes>>

DeleteDestination(x) ==
  /\ dest[x].state \in {"live", "revoked"}
  /\ dest[x].revision < MaxRevision
  /\ dest' = [dest EXCEPT ![x].state = "deleted", ![x].revision = @ + 1]
  /\ UNCHANGED <<row, held, sent, claims, refused, now, crashes>>

\* enqueue_delivery: the caller expects the current token version and revision of a
\* live destination; a replay of the key changes nothing.
EnqueueDelivery(d, x) ==
  /\ row[d].status = "none"
  /\ dest[x].state = "live"
  /\ \E t \in Readings, delay \in {0, 1} :
       row' = [row EXCEPT ![d] =
         [NoRow EXCEPT !.status = "pending", !.dest = x, !.token = dest[x].token,
                       !.revision = dest[x].revision, !.available = t + delay,
                       !.created = t, !.updated = t]]
  /\ UNCHANGED <<dest, held, sent, claims, refused, now, crashes>>

\* The destination is still the one that the delivery was bound to.
Current(d) ==
  LET x == dest[row[d].dest] IN
  x.state = "live" /\ x.token = row[d].token /\ x.revision = row[d].revision

Due(d, t) == row[d].status \in {"pending", "retry"} /\ row[d].available <= t
LeaseOver(d, t) == row[d].status = "claimed" /\ row[d].expires <= t

\* The two sides of the claim statement: expired claims without attempts left, and
\* due or expired work that may be tried again.
Exhausted(t) == {d \in Deliveries : LeaseOver(d, t) /\ row[d].attempts >= MaxAttempts}

Claimable(t) ==
  {d \in Deliveries :
     /\ row[d].attempts < MaxAttempts
     /\ Due(d, t) \/ LeaseOver(d, t)
     /\ Current(d)}

DeadLettered(d, t) ==
  [row[d] EXCEPT !.status = "dead_letter", !.owner = Null, !.expires = 0, !.error = TRUE,
                 !.updated = t]

Claimed(d, w, t) ==
  [row[d] EXCEPT !.status = "claimed", !.owner = w, !.claim = claims + 1,
                 !.expires = t + Lease, !.claimed = t, !.attempts = @ + 1,
                 !.error = FALSE, !.updated = t]

\* claim_deliveries. When the answer to the commit is lost the worker holds nothing.
ClaimDeliveries(w, limit, skipped) ==
  \E t \in Readings :
    LET available == [d \in Deliveries |-> row[d].available]
        over  == Exhausted(t)
        batch == FirstBy(available, Claimable(t) \ skipped, limit)
    IN  /\ over \cup batch # {}
        /\ Write([d \in over \cup batch |->
                    IF d \in over THEN DeadLettered(d, t) ELSE Claimed(d, w, t)], "claim")
        /\ claims' = claims + 1
        /\ \E answered \in BOOLEAN :
             held' = [held EXCEPT ![w] = @ \cup
                        IF answered /\ row' # row
                        THEN {[delivery |-> d, claim |-> claims + 1,
                               token |-> dest[row[d].dest].token] : d \in batch}
                        ELSE {}]
        /\ UNCHANGED <<dest, sent, now, crashes>>

\* The worker calls the provider, which may take the message and still fail the call.
CallProvider(w, h) ==
  /\ h.claim \notin sent[h.delivery]
  /\ sent' = [sent EXCEPT ![h.delivery] = @ \cup {h.claim}]
  /\ UNCHANGED <<dest, row, held, claims, refused, now, crashes>>

\* The worker is done with a delivery, or asks again later.
Answer(w, h) == held' = [held EXCEPT ![w] = @ \ {h}] \/ UNCHANGED held

\* Mutant: the acknowledgement does not compare the claim.
AcknowledgeableAnyClaim(h, t) ==
  LET r == row[h.delivery] IN
  /\ r.claim # 0
  /\ r.status \in {"claimed", "retry", "dead_letter", "superseded"}
  /\ r.claimed <= t
  /\ r.updated <= t

\* acknowledge_delivery, for a message that the provider took. Exact replays and
\* conflicts change no row.
Acknowledgeable(h, t) ==
  LET r == row[h.delivery] IN
  /\ r.claim = h.claim
  /\ r.status \in {"claimed", "retry", "dead_letter", "superseded"}
  /\ r.claimed <= t
  /\ r.updated <= t

Delivered(d, t) ==
  [row[d] EXCEPT !.status = "delivered", !.owner = Null, !.expires = 0, !.error = FALSE,
                 !.updated = t]

AcknowledgeDelivery(w, h) ==
  /\ h.claim \in sent[h.delivery]
  /\ \E t \in Readings :
       IF Acknowledgeable(h, t)
       THEN Write(h.delivery :> Delivered(h.delivery, t), "acknowledge")
       ELSE UNCHANGED <<row, refused>>
  /\ Answer(w, h)
  /\ UNCHANGED <<dest, sent, claims, now, crashes>>

\* fail_delivery, with a time for the next attempt or none.
Failable(h, t) ==
  LET r == row[h.delivery] IN
  /\ r.claim = h.claim
  /\ r.status \in {"claimed", "retry"}
  /\ r.claimed <= t
  /\ r.updated < t

Failed(d, t, retry) ==
  LET dead == row[d].attempts >= MaxAttempts \/ retry = Null IN
  [row[d] EXCEPT !.status = IF dead THEN "dead_letter" ELSE "retry",
                 !.available = IF dead THEN @ ELSE retry,
                 !.owner = Null, !.expires = 0, !.error = TRUE, !.updated = t]

FailDelivery(w, h) ==
  /\ \E t \in Readings : \E retry \in {Null, t, t + 1} :
       IF Failable(h, t)
       THEN Write(h.delivery :> Failed(h.delivery, t, retry), "fail")
       ELSE UNCHANGED <<row, refused>>
  /\ Answer(w, h)
  /\ UNCHANGED <<dest, sent, claims, now, crashes>>

\* expire_stale_deliveries: waiting work whose destination has moved on.
Stale == {d \in Deliveries : row[d].status \in {"pending", "retry"} /\ ~Current(d)}

Superseded(d, t) ==
  [row[d] EXCEPT !.status = "superseded", !.owner = Null, !.expires = 0, !.updated = t]

ExpireStaleDeliveries(limit, skipped) ==
  \E t \in Readings :
    LET created == [d \in Deliveries |-> row[d].created]
        batch == FirstBy(created, Stale \ skipped, limit)
    IN  /\ batch # {}
        /\ Write([d \in batch |-> Superseded(d, t)], "sweep")
        /\ UNCHANGED <<dest, held, sent, claims, now, crashes>>

Crash(w) ==
  /\ crashes < MaxCrashes
  /\ held[w] # {}
  /\ crashes' = crashes + 1
  /\ held' = [held EXCEPT ![w] = {}]
  /\ UNCHANGED <<dest, row, sent, claims, refused, now>>

Next ==
  \/ Tick
  \/ \E x \in Destinations :
       \/ RegisterDestination(x) \/ RotateDestinationToken(x)
       \/ RevokeDestination(x) \/ DeleteDestination(x)
       \/ \E d \in Deliveries : EnqueueDelivery(d, x)
  \/ \E limit \in Limits, skipped \in SUBSET Deliveries :
       \/ \E w \in Workers : ClaimDeliveries(w, limit, skipped)
       \/ ExpireStaleDeliveries(limit, skipped)
  \/ \E w \in Workers :
       \/ \E h \in held[w] :
            CallProvider(w, h) \/ AcknowledgeDelivery(w, h) \/ FailDelivery(w, h)
       \/ Crash(w)

Spec == Init /\ [][Next]_vars

\* Hosts keep polling, in some process at least, and no row stays locked for ever;
\* workers and the provider owe nothing.
Polled == \E w \in Workers, limit \in Limits : ClaimDeliveries(w, limit, {})

Swept == \E limit \in Limits : ExpireStaleDeliveries(limit, {})

LiveSpec == Spec /\ WF_vars(Tick) /\ WF_vars(Polled) /\ WF_vars(Swept)

-----------------------------------------------------------------------------
\* A delivery recorded as delivered reached the provider under the very claim that the
\* row records (_ACK_SQL compares claim_id): an older worker cannot settle a newer claim.
DeliveredWasSent ==
  \A d \in Deliveries : row[d].status = "delivered" => row[d].claim \in sent[d]

\* However workers crash, answer late or lose answers, the provider is called for a
\* delivery under at most max_attempts claims (attempt_count of _CLAIM_SQL).
SendsBounded == \A d \in Deliveries : Cardinality(sent[d]) <= MaxAttempts

\* A worker never holds a token other than the one its delivery was enqueued for: the
\* claim reads the token of the destination and compares its version with the delivery.
TokenIsTheBoundOne ==
  \A w \in Workers : \A h \in held[w] : h.token = row[h.delivery].token

\* No claim, acknowledgement or failure, from a clock that lags or a late worker, makes
\* a row that the CHECK constraints refuse: these statements never fail.
StatementsAccepted == refused \subseteq {"sweep"}

\* With clocks that agree, the sweep is not refused either: it "marks pending/retry work
\* superseded" (docs/push-delivery-records.md).
SweepAccepted == "sweep" \notin refused

\* A delivered row never changes, and a dead letter or superseded row changes only when
\* its own claim is acknowledged late.
FinishedKept ==
  \A d \in Deliveries :
    row[d].status \in {"delivered", "dead_letter", "superseded"} /\ row'[d] # row[d]
      => /\ row[d].status # "delivered"
         /\ row'[d].status = "delivered"
         /\ row'[d].claim = row[d].claim

FinishedStays == [][FinishedKept]_vars

\* Waiting work for the destination it was bound to, and claims whose lease runs out
\* while that destination stands or without attempts left, do not stay as they are.
Owed(d) ==
  \/ /\ row[d].status \in {"pending", "retry"}
     /\ row[d].available <= MaxTime
     /\ Current(d)
  \/ /\ row[d].status = "claimed"
     /\ row[d].expires <= MaxTime
     /\ row[d].attempts >= MaxAttempts \/ Current(d)

\* Polling hosts move every such delivery on, whatever its worker does.
DeliveriesMove == \A d \in Deliveries : Owed(d) ~> ~Owed(d)

=============================================================================
