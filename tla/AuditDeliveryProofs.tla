------------------------- MODULE AuditDeliveryProofs -------------------------
(***************************************************************************)
(* Proofs about AuditDelivery, for any number of entries and workers, any  *)
(* lease, backoff and clock skew, and any number of crashes.               *)
(*                                                                         *)
(* The inductive invariant is the conjunction of the type invariant, the   *)
(* lease shape, the disjointness of open claims, the claim fence, the      *)
(* durability of reports, and that a claim past its sink call and a        *)
(* succeeded row were published. ReportsDurable alone is not inductive:    *)
(* that a late worker cannot overturn a reported delivery rests on         *)
(* ClaimsFenced (an old claim has an old version), which in turn rests on  *)
(* OpenClaimsDisjoint (a claim that commits finds its rows still waiting). *)
(***************************************************************************)
EXTENDS AuditDelivery, FiniteSetTheorems, TLAPS

\* A leaf that names no backend is for the SMT solver.
USE SMTT(30)

LEMMA ReadingsAreInts == Readings \subseteq Int
BY DEF Readings, Times

LEMMA RetryDelayInt == ASSUME NEW a \in Nat PROVE RetryDelay(a) \in Int
BY DeliveryConstants DEF RetryDelay

LEMMA PresentRow ==
  ASSUME TypeOK, NEW e \in Entries, Present(e) PROVE rows[e] \in Row
BY Zenon DEF TypeOK, OutboxTypeOK, Present

\* The fields of a released and of a claimed row that the fences are about.
LEMMA ReleasedFields ==
  ASSUME NEW r, NEW s, NEW t, NEW k
  PROVE  /\ Released(r, s, t, k).version = r.version + 1 /\ Released(r, s, t, k).status = s
         /\ Released(r, s, t, k).payload = r.payload
         /\ Released(r, s, t, k).attempt_count = r.attempt_count
         /\ Released(r, s, t, k).last_error_code = k
BY Zenon DEF Released

LEMMA ClaimedFields ==
  ASSUME NEW r, NEW w, NEW t
  PROVE  /\ ClaimedRow(r, w, t).version = r.version + 1
         /\ ClaimedRow(r, w, t).attempt_count = r.attempt_count + 1
         /\ ClaimedRow(r, w, t).status = "claimed"
         /\ ClaimedRow(r, w, t).lease_owner = w
         /\ ClaimedRow(r, w, t).lease_expires_at = t
         /\ ClaimedRow(r, w, t).topic = r.topic
         /\ ClaimedRow(r, w, t).payload = r.payload
BY Zenon DEF ClaimedRow

LEMMA NewRowStatus == ASSUME NEW work PROVE NewRow(work).status = "pending"
BY Zenon DEF NewRow

LEMMA RowIsPresent == ASSUME NEW r \in Row PROVE r # Absent
BY DEF Row, Absent

LEMMA NewRowType == ASSUME NEW work \in Work PROVE NewRow(work) \in Row
BY Zenon DEF Row, Work, NewRow

LEMMA ClaimedRowType ==
  ASSUME NEW r \in Row, NEW w \in Workers, NEW t \in Int
  PROVE  ClaimedRow(r, w, t) \in Row
BY DEF Row, ClaimedRow

LEMMA ReleasedType ==
  ASSUME NEW r \in Row, NEW s \in {"retry", "succeeded", "dead_letter"}, NEW t \in Int,
         NEW c \in {Null, "audit_sink_unavailable", "lease_expired"}
  PROVE  Released(r, s, t, c) \in Row
BY DEF Row, Released

\* The claims a committed claim transaction hands out are well typed.
LEMMA NewClaimsType ==
  ASSUME TypeOK, NEW w \in Workers, \A e \in claimTx[w].entries : Present(e)
  PROVE  NewClaims(w) \subseteq Claim
<1> SUFFICES ASSUME NEW e \in claimTx[w].entries
             PROVE  [worker |-> w, entry |-> e, version |-> rows[e].version + 1,
                     attempt |-> rows[e].attempt_count + 1,
                     expires |-> claimTx[w].now + Lease,
                     now |-> claimTx[w].now, stage |-> "held"] \in Claim
  BY Zenon DEF NewClaims
<1>1. e \in Entries /\ claimTx[w].now \in Int
  BY Zenon DEF TypeOK
<1>2. rows[e] \in Row
  BY <1>1, PresentRow, Zenon
<1>3. rows[e].version + 1 \in Nat /\ rows[e].attempt_count + 1 \in Nat
  BY <1>2 DEF Row
<1>4. claimTx[w].now + Lease \in Int
  BY <1>1, DeliveryConstants
<1> QED BY <1>1, <1>3, <1>4, Zenon DEF Claim

LEMMA RestageType ==
  ASSUME TypeOK, NEW c \in claims, NEW now \in Int,
         NEW stage \in {"held", "publishing", "published", "failed"},
         Restage(c, stage, now)
  PROVE  claims' \subseteq Claim
<1>1. c \in Claim
  BY Zenon DEF TypeOK
<1> QED BY <1>1 DEF TypeOK, Restage, Claim

LEMMA SettledType ==
  ASSUME TypeOK, NEW c \in claims,
         NEW state \in {"delivered", "retry_scheduled", "dead_lettered"},
         Settled(c, state)
  PROVE  claims' \subseteq Claim /\ reports' \subseteq Report
<1>1. c \in Claim
  BY Zenon DEF TypeOK
<1>2. [entry |-> c.entry, version |-> c.version, state |-> state] \in Report
  BY <1>1, Zenon DEF Claim, Report
<1> QED BY <1>2, Zenon DEF TypeOK, Settled

-----------------------------------------------------------------------------
(* Type correctness *)

LEMMA InitTypeOK == Init => TypeOK
BY DeliveryConstants
   DEF Init, TypeOK, OutboxInit, OutboxTypeOK, NoTx, Times

\* Each action preserves the types.
LEMMA NextTypeOK == TypeOK /\ OpenClaimsDisjoint /\ [Next]_vars => TypeOK'
<1> SUFFICES ASSUME TypeOK, OpenClaimsDisjoint, [Next]_vars PROVE TypeOK'
  BY Zenon
<1>u. USE DEF TypeOK, OutboxTypeOK
<1>1. CASE Tick
  BY <1>1, DeliveryConstants DEF Tick, Times
<1>2. ASSUME NEW e \in Entries, NEW work \in Requests, Enqueue(e, work) PROVE TypeOK'
  <2>1. work \in Work
    BY DeliveryConstants, Zenon
  <2>2. rows' \in [Entries -> Row \cup {Absent}]
    BY <1>2, <2>1, NewRowType, Zenon DEF Enqueue, EnqueueRow
  <2>3. request' \in [Entries -> Work \cup {Null}]
    BY <1>2, <2>1, Zenon DEF Enqueue
  <2> QED BY <1>2, <2>2, <2>3, Zenon DEF Enqueue
<1>3. ASSUME NEW w \in Workers, NEW limit \in Limits, OpenClaim(w, limit) PROVE TypeOK'
  <2>1. claimTx' \in [Workers -> [entries : SUBSET Entries, now : Int]]
    BY <1>3, ReadingsAreInts DEF OpenClaim
  <2> QED BY <1>3, <2>1, Zenon DEF OpenClaim
<1>4. ASSUME NEW w \in Workers, CommitClaim(w) PROVE TypeOK'
  <2>1. \A e \in claimTx[w].entries : e \in Entries /\ Present(e) /\ rows[e] \in Row
    BY PresentRow, Zenon DEF OpenClaimsDisjoint
  <2>2. claimTx[w].now + Lease \in Int
    BY DeliveryConstants
  <2>3. rows' \in [Entries -> Row \cup {Absent}]
    BY <1>4, <2>1, <2>2, ClaimedRowType, Zenon DEF CommitClaim, ClaimRows
  <2>4. claims' \subseteq Claim
    BY <1>4, <2>1, NewClaimsType, Zenon DEF CommitClaim
  <2>5. claimTx' \in [Workers -> [entries : SUBSET Entries, now : Int]]
    BY <1>4 DEF CommitClaim, NoTx
  <2> QED BY <1>4, <2>3, <2>4, <2>5, Zenon DEF CommitClaim
<1>5. ASSUME NEW w \in Workers, AbortClaim(w) PROVE TypeOK'
  BY <1>5 DEF AbortClaim, NoTx
<1>6. ASSUME NEW w \in Workers, Crash(w) PROVE TypeOK'
  <2>1. claimTx' \in [Workers -> [entries : SUBSET Entries, now : Int]]
    BY <1>6 DEF Crash, NoTx
  <2>2. crashes' \in 0 .. MaxCrashes
    BY <1>6, DeliveryConstants DEF Crash
  <2> QED BY <1>6, <2>1, <2>2, Zenon DEF Crash
<1>7. ASSUME NEW c \in claims, Deliver(c) PROVE TypeOK'
  <2>1. c.now \in Int
    BY Zenon DEF Claim
  <2>2. claims' \subseteq Claim
    BY <1>7, <2>1, ReadingsAreInts, RestageType, Zenon DEF Deliver
  <2> QED BY <1>7, <2>2, Zenon DEF Deliver
<1>8. ASSUME NEW c \in claims, Publish(c) PROVE TypeOK'
  <2>1. c.now \in Int /\ c.entry \in Entries
    BY Zenon DEF Claim
  <2>2. claims' \subseteq Claim
    BY <1>8, <2>1, RestageType DEF Publish
  <2>3. published' \in [Entries -> Nat]
    BY <1>8, <2>1 DEF Publish
  <2> QED BY <1>8, <2>2, <2>3, Zenon DEF Publish
<1>9. ASSUME NEW c \in claims, Ack(c) \/ DeadLetter(c) \/ Retry(c) PROVE TypeOK'
  <2>1. c.entry \in Entries /\ rows[c.entry] \in Row /\ c.now \in Int /\ c.attempt \in Nat
    BY <1>9, PresentRow, Zenon DEF Ack, DeadLetter, Retry, Fenced, Fence, Claim
  <2>2. rows[c.entry].available_at \in Int /\ c.now + RetryDelay(c.attempt) \in Int
    BY <2>1, RetryDelayInt DEF Row
  <2>3. claims' \subseteq Claim /\ reports' \subseteq Report
    BY <1>9, SettledType, Zenon DEF Ack, DeadLetter, Retry
  <2>4. rows' \in [Entries -> Row \cup {Absent}]
    <3>1. CASE Ack(c)
      BY <3>1, <2>1, <2>2, ReleasedType, Zenon DEF Ack, AckRow
    <3>2. CASE DeadLetter(c)
      BY <3>2, <2>1, <2>2, ReleasedType, Zenon DEF DeadLetter, DeadLetterRow
    <3>3. CASE Retry(c)
      BY <3>3, <2>1, <2>2, ReleasedType, Zenon DEF Retry, RetryRow
    <3> QED BY <1>9, <3>1, <3>2, <3>3, Zenon
  <2> QED BY <1>9, <2>3, <2>4, Zenon DEF Ack, DeadLetter, Retry, Settled
<1>10. ASSUME NEW c \in claims, SettleRaises(c) PROVE TypeOK'
  BY <1>10, Zenon DEF SettleRaises
<1>11. ASSUME NEW limit \in Limits, ReclaimExpired(limit) PROVE TypeOK'
  <2>1. PICK now \in Readings, chosen \in SUBSET Entries :
          chosen \subseteq Expired(now) /\ ReclaimRows(chosen, now)
    BY <1>11, Zenon DEF ReclaimExpired, FirstBy
  <2>2. \A e \in chosen : rows[e] \in Row
    BY <2>1, PresentRow, Zenon DEF Expired
  <2>3. rows' \in [Entries -> Row \cup {Absent}]
    BY <2>1, <2>2, ReleasedType, ReadingsAreInts, Zenon DEF ReclaimRows
  <2> QED BY <1>11, <2>3, Zenon DEF ReclaimExpired
<1>12. CASE UNCHANGED vars
  BY <1>12, Zenon DEF vars
<1> QED
  BY <1>1, <1>2, <1>3, <1>4, <1>5, <1>6, <1>7, <1>8, <1>9, <1>10, <1>11, <1>12, Zenon DEF Next

-----------------------------------------------------------------------------
(* What a step may do to one row: insert it, claim it while it waits, or    *)
(* release it while it is claimed.                                         *)

RowInserted(e) == ~Present(e) /\ \E work \in Work : rows'[e] = NewRow(work)

RowClaimed(e) ==
  /\ Present(e) /\ rows[e].status \in {"pending", "retry"}
  /\ \E w \in Workers, t \in Int : rows'[e] = ClaimedRow(rows[e], w, t)

RowReleased(e) ==
  /\ Present(e) /\ rows[e].status = "claimed"
  /\ \E s \in {"retry", "succeeded", "dead_letter"}, t \in Int,
        c \in {Null, "audit_sink_unavailable", "lease_expired"} :
       rows'[e] = Released(rows[e], s, t, c)

RowChange(e) ==
  rows'[e] = rows[e] \/ RowInserted(e) \/ RowClaimed(e) \/ RowReleased(e)

LEMMA EnqueueRowChange ==
  ASSUME TypeOK, NEW x \in Entries, NEW work \in Requests, Enqueue(x, work),
         NEW e \in Entries
  PROVE  rows'[e] = rows[e] \/ RowInserted(e)
BY DeliveryConstants, Zenon
   DEF TypeOK, OutboxTypeOK, Enqueue, EnqueueRow, RowInserted

LEMMA CommitRowChange ==
  ASSUME TypeOK, OpenClaimsDisjoint, NEW w \in Workers, CommitClaim(w), NEW e \in Entries
  PROVE  IF e \in claimTx[w].entries
         THEN /\ Present(e) /\ rows[e].status \in {"pending", "retry"}
              /\ rows'[e] = ClaimedRow(rows[e], w, claimTx[w].now + Lease)
              /\ claimTx[w].now + Lease \in Int
         ELSE rows'[e] = rows[e]
BY DeliveryConstants DEF TypeOK, OpenClaimsDisjoint, CommitClaim, ClaimRows

\* The settlement of a claim releases its row and no other.
LEMMA SettleRowChange ==
  ASSUME TypeOK, NEW c \in claims, Ack(c) \/ DeadLetter(c) \/ Retry(c), NEW e \in Entries
  PROVE  /\ c.entry \in Entries
         /\ IF e = c.entry THEN RowReleased(e) ELSE rows'[e] = rows[e]
<1>1. c.entry \in Entries /\ c.now \in Int /\ c.attempt \in Nat
  BY Zenon DEF TypeOK, Claim
<1>2. Present(c.entry) /\ rows[c.entry].status = "claimed" /\ rows[c.entry] \in Row
  BY <1>1, PresentRow, Zenon DEF Ack, DeadLetter, Retry, Fenced, Fence
<1>3. rows[c.entry].available_at \in Int /\ c.now + RetryDelay(c.attempt) \in Int
  BY <1>1, <1>2, RetryDelayInt DEF Row
<1>4. rows \in [Entries -> Row \cup {Absent}]
  BY Zenon DEF TypeOK, OutboxTypeOK
<1>5. CASE Ack(c)
  BY <1>5, <1>1, <1>2, <1>3, <1>4, Zenon DEF Ack, AckRow, RowReleased
<1>6. CASE DeadLetter(c)
  BY <1>6, <1>1, <1>2, <1>3, <1>4, Zenon DEF DeadLetter, DeadLetterRow, RowReleased
<1>7. CASE Retry(c)
  BY <1>7, <1>1, <1>2, <1>3, <1>4, Zenon DEF Retry, RetryRow, RowReleased
<1> QED BY <1>5, <1>6, <1>7, Zenon

LEMMA ReclaimRowChange ==
  ASSUME TypeOK, NEW limit \in Limits, ReclaimExpired(limit), NEW e \in Entries
  PROVE  rows'[e] = rows[e] \/ RowReleased(e)
<1>1. PICK now \in Readings, chosen \in SUBSET Entries :
        chosen \subseteq Expired(now) /\ ReclaimRows(chosen, now)
  BY Zenon DEF ReclaimExpired, FirstBy
<1>2. now \in Int
  BY ReadingsAreInts, Zenon
<1> QED BY <1>1, <1>2, Zenon DEF ReclaimRows, Expired, RowReleased

LEMMA NextRowChange ==
  ASSUME TypeOK, OpenClaimsDisjoint, [Next]_vars, NEW e \in Entries
  PROVE  RowChange(e)
<1>1. CASE Tick \/ UNCHANGED vars
  BY <1>1, Zenon DEF Tick, vars, RowChange
<1>2. ASSUME NEW x \in Entries, NEW work \in Requests, Enqueue(x, work) PROVE RowChange(e)
  BY <1>2, EnqueueRowChange, Zenon DEF RowChange
<1>3. ASSUME NEW w \in Workers, NEW limit \in Limits, OpenClaim(w, limit) PROVE RowChange(e)
  BY <1>3, Zenon DEF OpenClaim, RowChange
<1>4. ASSUME NEW w \in Workers, CommitClaim(w) PROVE RowChange(e)
  BY <1>4, CommitRowChange, Zenon DEF RowChange, RowClaimed
<1>5. ASSUME NEW w \in Workers, AbortClaim(w) \/ Crash(w) PROVE RowChange(e)
  BY <1>5, Zenon DEF AbortClaim, Crash, RowChange
<1>6. ASSUME NEW c \in claims, Deliver(c) \/ Publish(c) \/ SettleRaises(c) PROVE RowChange(e)
  BY <1>6, Zenon DEF Deliver, Publish, SettleRaises, RowChange
<1>7. ASSUME NEW c \in claims, Ack(c) \/ DeadLetter(c) \/ Retry(c) PROVE RowChange(e)
  BY <1>7, SettleRowChange, Zenon DEF RowChange
<1>8. ASSUME NEW limit \in Limits, ReclaimExpired(limit) PROVE RowChange(e)
  BY <1>8, ReclaimRowChange, Zenon DEF RowChange
<1> QED
  BY <1>1, <1>2, <1>3, <1>4, <1>5, <1>6, <1>7, <1>8, Zenon DEF Next

\* A row that exists keeps existing, its version grows by one whenever it
\* changes, and a row in a terminal state does not change.
LEMMA RowChangeEffect ==
  ASSUME TypeOK, NEW e \in Entries, Present(e), RowChange(e)
  PROVE  /\ Present(e)'
         /\ rows'[e] = rows[e] \/ rows'[e].version = rows[e].version + 1
         /\ rows[e].status \in {"succeeded", "dead_letter"} => rows'[e] = rows[e]
         /\ RowStep(e)
<1>1. rows[e] \in Row
  BY PresentRow, Zenon
<1>2. CASE rows'[e] = rows[e]
  BY <1>2, Zenon DEF Present, RowStep
<1>3. CASE RowClaimed(e)
  <2>1. PICK w \in Workers, t \in Int : rows'[e] = ClaimedRow(rows[e], w, t)
    BY <1>3, Zenon DEF RowClaimed
  <2>2. rows'[e] # Absent
    BY <1>1, <2>1, ClaimedRowType, RowIsPresent, Zenon
  <2>3. /\ rows'[e].status = "claimed"
        /\ rows'[e].version = rows[e].version + 1
        /\ rows'[e].attempt_count = rows[e].attempt_count + 1
        /\ rows'[e].topic = rows[e].topic
        /\ rows'[e].payload = rows[e].payload
    BY <2>1, ClaimedFields
  <2>4. rows[e].status \in {"pending", "retry"}
    BY <1>3, Zenon DEF RowClaimed
  <2> QED BY <2>2, <2>3, <2>4, Zenon DEF Present, RowStep
<1>4. CASE RowReleased(e)
  <2>1. PICK s \in {"retry", "succeeded", "dead_letter"}, t \in Int,
             c \in {Null, "audit_sink_unavailable", "lease_expired"} :
          rows'[e] = Released(rows[e], s, t, c)
    BY <1>4, Zenon DEF RowReleased
  <2>2. rows'[e] # Absent
    BY <1>1, <2>1, ReleasedType, RowIsPresent, Zenon
  <2>3. rows[e].attempt_count \in Nat
    BY <1>1, Zenon DEF Row
  <2> QED BY <1>4, <2>1, <2>2, <2>3 DEF RowReleased, Released, Present, RowStep
<1> QED BY <1>2, <1>3, <1>4, Zenon DEF RowChange, RowInserted

LEMMA LeaseShapeStep ==
  ASSUME TypeOK, OpenClaimsDisjoint, LeaseShape, [Next]_vars
  PROVE  LeaseShape'
<1> SUFFICES ASSUME NEW e \in Entries, Present(e)'
             PROVE  (/\ rows[e].status = "claimed" <=> rows[e].lease_owner # Null
                     /\ rows[e].status = "claimed" <=> rows[e].lease_expires_at # Null)'
  BY Zenon DEF LeaseShape
<1>1. CASE rows'[e] = rows[e]
  BY <1>1, Zenon DEF LeaseShape, Present
<1>2. CASE RowInserted(e)
  BY <1>2 DEF RowInserted, NewRow
<1>3. CASE RowClaimed(e)
  BY <1>3, NullIsNoWorker, NullIsNoNumber DEF RowClaimed, ClaimedRow
<1>4. CASE RowReleased(e)
  BY <1>4 DEF RowReleased, Released
<1> QED BY <1>1, <1>2, <1>3, <1>4, NextRowChange, Zenon DEF RowChange

\* SKIP LOCKED: the rows of an open claim stay waiting until it ends.
LEMMA OpenClaimsDisjointStep ==
  ASSUME TypeOK, OpenClaimsDisjoint, [Next]_vars
  PROVE  OpenClaimsDisjoint'
<1>1. ASSUME NEW w \in Workers, NEW limit \in Limits, OpenClaim(w, limit)
      PROVE  OpenClaimsDisjoint'
  <2>1. PICK now \in Readings, chosen \in SUBSET Entries :
          /\ chosen \subseteq Available(ClaimTopics, now, Locked)
          /\ claimTx' = [claimTx EXCEPT ![w] = [entries |-> chosen, now |-> now]]
    BY <1>1, Zenon DEF OpenClaim, FirstBy
  <2>2. rows' = rows
    BY <1>1, Zenon DEF OpenClaim
  <2>3. \A e \in chosen :
          /\ Present(e)
          /\ rows[e].status \in {"pending", "retry"}
          /\ \A v \in Workers : e \notin claimTx[v].entries
    BY <2>1 DEF Available, Locked
  <2>4. claimTx'[w].entries = chosen /\ \A v \in Workers \ {w} : claimTx'[v] = claimTx[v]
    BY <2>1, Zenon DEF TypeOK
  <2> QED BY <2>2, <2>3, <2>4 DEF OpenClaimsDisjoint, Present
<1>2. ASSUME NEW w \in Workers, CommitClaim(w) PROVE OpenClaimsDisjoint'
  <2>1. claimTx'[w].entries = {} /\ \A v \in Workers \ {w} : claimTx'[v] = claimTx[v]
    BY <1>2, Zenon DEF CommitClaim, TypeOK, NoTx
  <2>2. \A v \in Workers \ {w} : \A e \in claimTx[v].entries :
          e \in Entries /\ e \notin claimTx[w].entries
    BY Zenon DEF OpenClaimsDisjoint, TypeOK
  <2>3. \A v \in Workers \ {w} : \A e \in claimTx[v].entries : rows'[e] = rows[e]
    BY <1>2, <2>2, CommitRowChange, Zenon
  <2> QED BY <2>1, <2>2, <2>3, Zenon DEF OpenClaimsDisjoint, Present
<1>3. ASSUME NEW w \in Workers, AbortClaim(w) \/ Crash(w) PROVE OpenClaimsDisjoint'
  <2>1. claimTx'[w].entries = {} /\ \A v \in Workers \ {w} : claimTx'[v] = claimTx[v]
    BY <1>3 DEF AbortClaim, Crash, TypeOK, NoTx
  <2>2. rows' = rows
    BY <1>3, Zenon DEF AbortClaim, Crash
  <2> QED BY <2>1, <2>2, Zenon DEF OpenClaimsDisjoint, Present
<1>4. ASSUME claimTx' = claimTx,
             \A e \in Entries : Present(e) /\ rows[e].status # "claimed" => rows'[e] = rows[e]
      PROVE  OpenClaimsDisjoint'
  <2>1. \A w \in Workers : \A e \in claimTx[w].entries : e \in Entries /\ rows'[e] = rows[e]
    BY <1>4, Zenon DEF OpenClaimsDisjoint, TypeOK
  <2> QED BY <1>4, <2>1, Zenon DEF OpenClaimsDisjoint, Present
<1>5. CASE Tick \/ UNCHANGED vars
  BY <1>5, <1>4, Zenon DEF Tick, vars
<1>6. ASSUME NEW x \in Entries, NEW work \in Requests, Enqueue(x, work) PROVE OpenClaimsDisjoint'
  BY <1>6, <1>4, EnqueueRowChange, Zenon DEF Enqueue, RowInserted
<1>7. ASSUME NEW c \in claims, Deliver(c) \/ Publish(c) \/ SettleRaises(c) PROVE OpenClaimsDisjoint'
  BY <1>7, <1>4, Zenon DEF Deliver, Publish, SettleRaises
<1>8. ASSUME NEW c \in claims, Ack(c) \/ DeadLetter(c) \/ Retry(c) PROVE OpenClaimsDisjoint'
  <2>1. \A e \in Entries : rows'[e] = rows[e] \/ RowReleased(e)
    BY <1>8, SettleRowChange, Zenon
  <2> QED BY <1>8, <1>4, <2>1, Zenon DEF Ack, DeadLetter, Retry, Settled, RowReleased
<1>9. ASSUME NEW limit \in Limits, ReclaimExpired(limit) PROVE OpenClaimsDisjoint'
  <2>1. \A e \in Entries : rows'[e] = rows[e] \/ RowReleased(e)
    BY <1>9, ReclaimRowChange, Zenon
  <2> QED BY <1>9, <1>4, <2>1, Zenon DEF ReclaimExpired, RowReleased
<1> QED
  BY <1>1, <1>2, <1>3, <1>5, <1>6, <1>7, <1>8, <1>9, Zenon DEF Next

\* Whatever a step does to its row, a claim that is neither new nor restaged
\* stays fenced: a changed row has a higher version than every claim of it.
LEMMA OldClaimFenced ==
  ASSUME TypeOK, OpenClaimsDisjoint, [Next]_vars, NEW c \in claims, ClaimFenced(c)
  PROVE  ClaimFenced(c)' /\ c.version <= rows[c.entry].version
<1>1. c.entry \in Entries /\ c.version \in Nat
  BY Zenon DEF TypeOK, Claim
<1>2. Present(c.entry) /\ RowChange(c.entry)
  BY <1>1, NextRowChange, Zenon DEF ClaimFenced
<1>3. rows[c.entry].version \in Nat
  BY <1>1, <1>2, PresentRow, Zenon DEF Row
<1>4. Present(c.entry)' /\ (rows'[c.entry] = rows[c.entry]
                            \/ rows'[c.entry].version = rows[c.entry].version + 1)
  BY <1>1, <1>2, RowChangeEffect, Zenon
<1> QED BY <1>1, <1>3, <1>4 DEF ClaimFenced

\* A restaged claim keeps the fields the fence is about.
LEMMA RestageFenced ==
  ASSUME TypeOK, ClaimsFenced, rows' = rows, NEW c \in claims, NEW stage, NEW now,
         Restage(c, stage, now)
  PROVE  ClaimsFenced'
<1> DEFINE d == [worker |-> c.worker, entry |-> c.entry, version |-> c.version,
                 attempt |-> c.attempt, expires |-> c.expires, now |-> now,
                 stage |-> stage]
<1>1. claims' = (claims \ {c}) \cup {d}
  BY Zenon DEF Restage
<1>2. /\ d.worker = c.worker /\ d.entry = c.entry /\ d.version = c.version
      /\ d.attempt = c.attempt /\ d.expires = c.expires
  BY Zenon
<1> HIDE DEF d
<1>3. \A x \in claims : ClaimFenced(x)'
  BY Zenon DEF ClaimsFenced, ClaimFenced, Present
<1>4. ClaimFenced(d)'
  BY <1>2, <1>3, Zenon DEF ClaimFenced, Present
<1>5. \A x \in claims \ {c} : ~(x.entry = d.entry /\ x.version = d.version)
  BY <1>2, Zenon DEF ClaimsFenced
<1> QED BY <1>1, <1>3, <1>4, <1>5, Zenon DEF ClaimsFenced

LEMMA ClaimsFencedStep ==
  ASSUME TypeOK, OpenClaimsDisjoint, ClaimsFenced, [Next]_vars
  PROVE  ClaimsFenced'
<1>1. \A c \in claims : ClaimFenced(c)'
  BY OldClaimFenced, Zenon DEF ClaimsFenced
<1>2. ASSUME claims' \subseteq claims PROVE ClaimsFenced'
  BY <1>1, <1>2, Zenon DEF ClaimsFenced
<1>3. ASSUME NEW w \in Workers, CommitClaim(w) PROVE ClaimsFenced'
  <2>1. claims' \subseteq claims \cup NewClaims(w)
    BY <1>3, Zenon DEF CommitClaim
  <2>2. ASSUME NEW d \in NewClaims(w)
        PROVE  /\ d.entry \in claimTx[w].entries /\ d.entry \in Entries
               /\ rows[d.entry].version \in Nat
               /\ d.version = rows[d.entry].version + 1
               /\ ClaimFenced(d)'
    <3>1. PICK e \in claimTx[w].entries :
            d = [worker |-> w, entry |-> e, version |-> rows[e].version + 1,
                 attempt |-> rows[e].attempt_count + 1,
                 expires |-> claimTx[w].now + Lease,
                 now |-> claimTx[w].now, stage |-> "held"]
      BY Zenon DEF NewClaims
    <3>2. e \in Entries
      BY Zenon DEF TypeOK
    <3>3. Present(e) /\ rows'[e] = ClaimedRow(rows[e], w, claimTx[w].now + Lease)
      BY <1>3, <3>2, CommitRowChange, Zenon
    <3>4. rows[e] \in Row
      BY <3>2, <3>3, PresentRow, Zenon
    <3>5. rows[e].version \in Nat
      BY <3>4, Zenon DEF Row
    <3>6. Present(e)'
      BY <3>2, <3>3, NextRowChange, RowChangeEffect, Zenon
    <3>7. /\ d.worker = w /\ d.entry = e /\ d.version = rows[e].version + 1
          /\ d.attempt = rows[e].attempt_count + 1 /\ d.expires = claimTx[w].now + Lease
      BY <3>1, Zenon
    <3>8. ClaimFenced(d)'
      <4> DEFINE t == claimTx[w].now + Lease
      <4>1. /\ rows'[e].version = rows[e].version + 1
            /\ rows'[e].attempt_count = rows[e].attempt_count + 1
            /\ rows'[e].status = "claimed"
            /\ rows'[e].lease_owner = w
            /\ rows'[e].lease_expires_at = t
        BY <3>3, ClaimedFields
      <4> HIDE DEF t
      <4>2. d.version <= rows'[d.entry].version
        BY <4>1, <3>5, <3>7
      <4>3. d.expires = t
        BY <3>7, Zenon DEF t
      <4> QED BY <4>1, <4>2, <4>3, <3>6, <3>7, Zenon DEF ClaimFenced
    <3> QED BY <3>2, <3>5, <3>7, <3>8, Zenon
  <2>3. ASSUME NEW c \in claims, NEW d \in NewClaims(w), c.entry = d.entry
        PROVE  c.version # d.version
    <3>1. c.version <= rows[d.entry].version /\ c.version \in Nat
      BY <2>3, Zenon DEF ClaimsFenced, ClaimFenced, TypeOK, Claim
    <3> QED BY <2>2, <3>1
  <2>4. ASSUME NEW c \in NewClaims(w), NEW d \in NewClaims(w), c.entry = d.entry
        PROVE  c = d
    <3> DEFINE Held(e) == [worker |-> w, entry |-> e, version |-> rows[e].version + 1,
                           attempt |-> rows[e].attempt_count + 1,
                           expires |-> claimTx[w].now + Lease,
                           now |-> claimTx[w].now, stage |-> "held"]
    <3>1. PICK e \in claimTx[w].entries : c = Held(e)
      BY Zenon DEF NewClaims
    <3>2. PICK g \in claimTx[w].entries : d = Held(g)
      BY Zenon DEF NewClaims
    <3>3. e = g
      BY <2>4, <3>1, <3>2, Zenon
    <3> QED BY <3>1, <3>2, <3>3, Zenon
  <2> QED BY <1>1, <2>1, <2>2, <2>3, <2>4, Zenon DEF ClaimsFenced
<1>4. ASSUME NEW c \in claims, Deliver(c) \/ Publish(c) PROVE ClaimsFenced'
  <2>1. rows' = rows /\ (claims' = claims \ {c} \/ \E stage, now : Restage(c, stage, now))
    BY <1>4, Zenon DEF Deliver, Publish
  <2> QED BY <1>2, <2>1, RestageFenced, Zenon
<1>5. CASE Tick \/ UNCHANGED vars
  BY <1>5, <1>2, Zenon DEF Tick, vars
<1>6. ASSUME NEW x \in Entries, NEW work \in Requests, Enqueue(x, work) PROVE ClaimsFenced'
  BY <1>6, <1>2, Zenon DEF Enqueue
<1>7. ASSUME NEW w \in Workers, NEW limit \in Limits, OpenClaim(w, limit) PROVE ClaimsFenced'
  BY <1>7, <1>2, Zenon DEF OpenClaim
<1>8. ASSUME NEW w \in Workers, AbortClaim(w) \/ Crash(w) PROVE ClaimsFenced'
  BY <1>8, <1>2, Zenon DEF AbortClaim, Crash
<1>9. ASSUME NEW c \in claims, Ack(c) \/ DeadLetter(c) \/ Retry(c) \/ SettleRaises(c)
      PROVE ClaimsFenced'
  BY <1>9, <1>2, Zenon DEF Ack, DeadLetter, Retry, Settled, SettleRaises
<1>10. ASSUME NEW limit \in Limits, ReclaimExpired(limit) PROVE ClaimsFenced'
  BY <1>10, <1>2, Zenon DEF ReclaimExpired
<1> QED
  BY <1>3, <1>4, <1>5, <1>6, <1>7, <1>8, <1>9, <1>10, Zenon DEF Next

\* The reports of one entry: the part of ReportsDurable about one report.
ReportHolds(r) ==
  /\ Present(r.entry)
  /\ r.state = "delivered" =>
       rows[r.entry].status = "succeeded" /\ rows[r.entry].version = r.version + 1
  /\ r.state = "dead_lettered" =>
       rows[r.entry].status = "dead_letter" /\ rows[r.entry].version = r.version + 1
  /\ r.state = "retry_scheduled" => rows[r.entry].version > r.version

LEMMA ReportsDurableStep ==
  ASSUME TypeOK, OpenClaimsDisjoint, ReportsDurable, [Next]_vars
  PROVE  ReportsDurable'
<1>1. ASSUME NEW r \in reports PROVE ReportHolds(r)'
  <2>1. r.entry \in Entries /\ r.version \in Nat /\ ReportHolds(r)
    BY Zenon DEF TypeOK, Report, ReportsDurable, ReportHolds
  <2>2. Present(r.entry) /\ RowChange(r.entry) /\ rows[r.entry].version \in Nat
    BY <2>1, NextRowChange, PresentRow, Zenon DEF ReportHolds, Row
  <2>3. /\ Present(r.entry)'
        /\ rows'[r.entry] = rows[r.entry] \/ rows'[r.entry].version = rows[r.entry].version + 1
        /\ rows[r.entry].status \in {"succeeded", "dead_letter"} => rows'[r.entry] = rows[r.entry]
    BY <2>1, <2>2, RowChangeEffect, Zenon
  <2>4. r.state \in {"delivered", "dead_lettered"} => rows'[r.entry] = rows[r.entry]
    BY <2>1, <2>3, Zenon DEF ReportHolds
  <2>5. r.state = "retry_scheduled" => rows'[r.entry].version > r.version
    <3>1. CASE rows'[r.entry] = rows[r.entry]
      BY <3>1, <2>1, Zenon DEF ReportHolds
    <3>2. CASE rows'[r.entry].version = rows[r.entry].version + 1
      BY <3>2, <2>1, <2>2 DEF ReportHolds
    <3> QED BY <3>1, <3>2, <2>3, Zenon
  <2> QED BY <2>1, <2>3, <2>4, <2>5, Zenon DEF ReportHolds
<1>2. ASSUME reports' = reports PROVE ReportsDurable'
  BY <1>1, <1>2, Zenon DEF ReportsDurable, ReportHolds
<1>3. ASSUME NEW c \in claims, Ack(c) \/ DeadLetter(c) \/ Retry(c) PROVE ReportsDurable'
  <2>0. c.entry \in Entries /\ rows \in [Entries -> Row \cup {Absent}]
    BY Zenon DEF TypeOK, OutboxTypeOK, Claim
  <2>1. PICK state \in {"delivered", "dead_lettered", "retry_scheduled"} :
          /\ Settled(c, state)
          /\ state = "delivered" => rows'[c.entry].status = "succeeded"
          /\ state = "dead_lettered" => rows'[c.entry].status = "dead_letter"
          /\ Fenced(c)
    <3>1. CASE Ack(c)
      BY <3>1, <2>0, Zenon DEF Ack, AckRow, Released
    <3>2. CASE DeadLetter(c)
      BY <3>2, <2>0, Zenon DEF DeadLetter, DeadLetterRow, Released
    <3>3. CASE Retry(c)
      BY <3>3, Zenon DEF Retry
    <3> QED BY <1>3, <3>1, <3>2, <3>3, Zenon
  <2>2. c.entry \in Entries /\ c.version \in Nat /\ c.version = rows[c.entry].version
    BY <2>1, Zenon DEF TypeOK, Claim, Fenced, Fence
  <2>3. RowReleased(c.entry)
    BY <1>3, <2>2, SettleRowChange, Zenon
  <2>4. Present(c.entry)' /\ rows'[c.entry].version = c.version + 1
    <3>1. rows'[c.entry].version = c.version + 1
      <4>1. PICK s \in {"retry", "succeeded", "dead_letter"}, t \in Int,
                 e \in {Null, "audit_sink_unavailable", "lease_expired"} :
              rows'[c.entry] = Released(rows[c.entry], s, t, e)
        BY <2>3, Zenon DEF RowReleased
      <4>2. rows'[c.entry].version = rows[c.entry].version + 1
        BY <4>1, ReleasedFields
      <4> QED BY <4>2, <2>2, Zenon
    <3>2. Present(c.entry)'
      BY <2>2, <2>3, RowChangeEffect, Zenon DEF RowChange, RowReleased
    <3> QED BY <3>1, <3>2, Zenon
  <2>5. \A r \in reports' : r \in reports
          \/ r = [entry |-> c.entry, version |-> c.version, state |-> state]
    BY <2>1, Zenon DEF Settled
  <2>6. ASSUME NEW r \in reports' PROVE ReportHolds(r)'
    <3>1. CASE r = [entry |-> c.entry, version |-> c.version, state |-> state]
      BY <3>1, <2>1, <2>2, <2>4 DEF ReportHolds
    <3> QED BY <3>1, <2>5, <1>1, Zenon
  <2> QED BY <2>6, Zenon DEF ReportsDurable, ReportHolds
<1> QED
  BY <1>2, <1>3, Zenon DEF Next, vars, Tick, Enqueue, OpenClaim, CommitClaim, AbortClaim, Crash,
                    Deliver, Publish, SettleRaises, ReclaimExpired

LEMMA StagePublishedStep ==
  ASSUME TypeOK, StagePublished, [Next]_vars
  PROVE  StagePublished'
<1>1. ASSUME claims' \subseteq claims, published' = published PROVE StagePublished'
  BY <1>1, Zenon DEF StagePublished
<1>2. ASSUME NEW w \in Workers, CommitClaim(w) PROVE StagePublished'
  <2>1. published' = published /\ claims' \subseteq claims \cup NewClaims(w)
    BY <1>2, Zenon DEF CommitClaim
  <2>2. ASSUME NEW d \in NewClaims(w) PROVE d.stage = "held"
    <3>1. PICK e \in claimTx[w].entries :
            d = [worker |-> w, entry |-> e, version |-> rows[e].version + 1,
                 attempt |-> rows[e].attempt_count + 1,
                 expires |-> claimTx[w].now + Lease,
                 now |-> claimTx[w].now, stage |-> "held"]
      BY Zenon DEF NewClaims
    <3> QED BY <3>1, Zenon
  <2> QED BY <2>1, <2>2, Zenon DEF StagePublished
<1>3. ASSUME NEW c \in claims, Deliver(c) PROVE StagePublished'
  <2>1. published' = published
    BY <1>3, Zenon DEF Deliver
  <2>2. \A d \in claims' : d \in claims \/ d.stage = "publishing"
    BY <1>3 DEF Deliver, Restage
  <2> QED BY <2>1, <2>2, Zenon DEF StagePublished
<1>4. ASSUME NEW c \in claims, Publish(c) PROVE StagePublished'
  <2>1. PICK effect \in BOOLEAN, stage \in {"published", "failed"} :
          /\ stage = "published" => effect
          /\ published' = [published EXCEPT ![c.entry] = IF effect THEN @ + 1 ELSE @]
          /\ Restage(c, stage, c.now)
    BY <1>4, Zenon DEF Publish
  <2>2. c.entry \in Entries /\ published \in [Entries -> Nat]
    BY Zenon DEF TypeOK, Claim
  <2>3. /\ \A e \in Entries : /\ published[e] \in Nat /\ published'[e] \in Nat
                             /\ published'[e] >= published[e]
        /\ effect => published'[c.entry] > 0
    BY <2>1, <2>2
  <2>4. \A x \in claims : x.entry \in Entries
    BY Zenon DEF TypeOK, Claim
  <2>5. ASSUME NEW x \in claims', x.stage = "published" PROVE published'[x.entry] > 0
    <3>1. CASE x \in claims
      BY <3>1, <2>3, <2>4, <2>5 DEF StagePublished
    <3>2. CASE x \notin claims
      <4>1. x.entry = c.entry /\ x.stage = stage
        BY <3>2, <2>1 DEF Restage
      <4> QED BY <4>1, <2>1, <2>3, <2>5, Zenon
    <3> QED BY <3>1, <3>2, Zenon
  <2> QED BY <2>5, Zenon DEF StagePublished
<1> QED
  BY <1>1, <1>2, <1>3, <1>4, Zenon
     DEF Next, vars, Tick, Enqueue, OpenClaim, AbortClaim, Crash, Ack, DeadLetter, Retry,
         Settled, SettleRaises, ReclaimExpired

\* An ack finds its claim published; nothing else makes a row succeeded, and
\* the number of sink effects never goes down.
LEMMA SucceededStep ==
  ASSUME TypeOK, OpenClaimsDisjoint, StagePublished, SucceededWasPublished, [Next]_vars
  PROVE  SucceededWasPublished'
<1>1. ASSUME NEW e \in Entries
      PROVE  published[e] \in Nat /\ published'[e] \in Nat /\ published'[e] >= published[e]
  <2>1. published[e] \in Nat
    BY Zenon DEF TypeOK
  <2>2. published' = published \/ \E c \in claims : Publish(c)
    BY Zenon DEF Next, vars, Tick, Enqueue, OpenClaim, CommitClaim, AbortClaim, Crash, Deliver,
           Ack, DeadLetter, Retry, Settled, SettleRaises, ReclaimExpired
  <2>3. CASE published' = published
    BY <2>1, <2>3
  <2>4. ASSUME NEW c \in claims, Publish(c)
        PROVE  published'[e] \in Nat /\ published'[e] >= published[e]
    BY <2>4 DEF Publish, TypeOK
  <2> QED BY <2>1, <2>2, <2>3, <2>4, Zenon
<1>2. ASSUME NEW e \in Entries, Present(e)', rows'[e].status = "succeeded"
      PROVE  published'[e] > 0
  <2>1. CASE Present(e) /\ rows[e].status = "succeeded"
    BY <2>1, <1>1 DEF SucceededWasPublished
  <2>2. CASE ~(Present(e) /\ rows[e].status = "succeeded")
    <3>1. ASSUME NEW c \in claims, Ack(c) PROVE published'[e] > 0
      <4>1. e = c.entry
        BY <3>1, <2>2, <1>2, SettleRowChange, Zenon DEF Present
      <4>2. published[c.entry] > 0
        BY <3>1, Zenon DEF Ack, StagePublished
      <4> QED BY <4>1, <4>2, <1>1
    <3>2. rows'[e] # rows[e]
      BY <2>2, <1>2, Zenon DEF Present
    <3>3. ASSUME NEW c \in claims, DeadLetter(c) PROVE FALSE
      <4>1. c.entry = e
        BY <3>3, <3>2, SettleRowChange, Zenon
      <4> QED BY <4>1, <3>3, <1>2, Zenon DEF DeadLetter, DeadLetterRow, Released, TypeOK, OutboxTypeOK
    <3>4. ASSUME NEW c \in claims, Retry(c) PROVE FALSE
      <4>1. c.entry = e
        BY <3>4, <3>2, SettleRowChange, Zenon
      <4> QED BY <4>1, <3>4, <1>2, Zenon DEF Retry, RetryRow, Released, TypeOK, OutboxTypeOK
    <3>5. ASSUME NEW limit \in Limits, ReclaimExpired(limit) PROVE FALSE
      <4>1. PICK now, chosen : ReclaimRows(chosen, now)
        BY <3>5, Zenon DEF ReclaimExpired
      <4>2. rows'[e] = Released(rows[e], "retry", now, "lease_expired")
        BY <4>1, <3>2, Zenon DEF ReclaimRows
      <4>3. rows'[e].status = "retry"
        BY <4>2, ReleasedFields
      <4> QED BY <4>3, <1>2, Zenon
    <3>6. ASSUME NEW w \in Workers, CommitClaim(w) PROVE FALSE
      <4>1. rows'[e] = ClaimedRow(rows[e], w, claimTx[w].now + Lease)
        BY <3>6, <3>2, Zenon DEF CommitClaim, ClaimRows
      <4>2. rows'[e].status = "claimed"
        BY <4>1, ClaimedFields
      <4> QED BY <4>2, <1>2, Zenon
    <3>7. ASSUME NEW x \in Entries, NEW work \in Requests, Enqueue(x, work) PROVE FALSE
      <4>1. RowInserted(e)
        BY <3>7, <3>2, EnqueueRowChange, Zenon
      <4>2. PICK q \in Work : rows'[e] = NewRow(q)
        BY <4>1, Zenon DEF RowInserted
      <4>3. rows'[e].status = "pending"
        BY <4>2, NewRowStatus, Zenon
      <4> QED BY <4>3, <1>2, Zenon
    <3> QED
      BY <3>1, <3>2, <3>3, <3>4, <3>5, <3>6, <3>7, Zenon
         DEF Next, vars, Tick, OpenClaim, AbortClaim, Crash, Deliver, Publish, SettleRaises
  <2> QED BY <2>1, <2>2, Zenon
<1> QED BY <1>2, Zenon DEF SucceededWasPublished

-----------------------------------------------------------------------------
(* The theorems *)

IInv ==
  /\ TypeOK
  /\ LeaseShape
  /\ OpenClaimsDisjoint
  /\ ClaimsFenced
  /\ ReportsDurable
  /\ StagePublished
  /\ SucceededWasPublished

LEMMA InitIInv == Init => IInv
<1> SUFFICES ASSUME Init PROVE IInv
  BY Zenon
<1>1. TypeOK
  BY InitTypeOK, Zenon
<1>2. \A e \in Entries : ~Present(e)
  BY Zenon DEF Init, OutboxInit, Present
<1>3. \A w \in Workers : claimTx[w].entries = {}
  BY Zenon DEF Init, NoTx
<1> QED
  BY <1>1, <1>2, <1>3, Zenon
     DEF Init, IInv, LeaseShape, OpenClaimsDisjoint, ClaimsFenced, ReportsDurable,
         StagePublished, SucceededWasPublished

LEMMA NextIInv == IInv /\ [Next]_vars => IInv'
BY NextTypeOK, LeaseShapeStep, OpenClaimsDisjointStep, ClaimsFencedStep,
   ReportsDurableStep, StagePublishedStep, SucceededStep, Zenon DEF IInv

LEMMA Inductive == Spec => []IInv
BY InitIInv, NextIInv, PTL DEF Spec

\* The table, the claims and the reports stay well typed, whatever claims,
\* settlements, reclaims and crashes do.
THEOREM TypeCorrect == Spec => []TypeOK
<1>1. IInv => TypeOK
  BY Zenon DEF IInv
<1> QED BY Inductive, <1>1, PTL

\* The (worker, version) fence of ack, retry and dead_letter is sound: a claim
\* overtaken by a reclaim is strictly older than its row, for any number of
\* workers, crashes, lost acknowledgements and any clock skew.
THEOREM FencingSound == Spec => []ClaimsFenced
<1>1. IInv => ClaimsFenced
  BY Zenon DEF IInv
<1> QED BY Inductive, <1>1, PTL

\* A result that deliver returned to its caller is never overturned.
THEOREM ReportsAreDurable == Spec => []ReportsDurable
<1>1. IInv => ReportsDurable
  BY Zenon DEF IInv
<1> QED BY Inductive, <1>1, PTL

\* Delivery is at least once: a row is marked succeeded only after the sink
\* took the entry.
THEOREM AtLeastOnce == Spec => []SucceededWasPublished
<1>1. IInv => SucceededWasPublished
  BY Zenon DEF IInv
<1> QED BY Inductive, <1>1, PTL

\* reclaim_expired never refuses with a malformed lease: the statements of the
\* store keep the lease columns in step with the status.
THEOREM NoMalformedLease == Spec => []LeaseShape
<1>1. IInv => LeaseShape
  BY Zenon DEF IInv
<1> QED BY Inductive, <1>1, PTL

\* Rows only move forward, one version at a time, and terminal rows never move.
THEOREM RowsOnlyAdvance == Spec => RowsAdvance
<1>1. IInv /\ [Next]_vars => [\A e \in Entries : RowStep(e)]_rows
  <2> SUFFICES ASSUME IInv, [Next]_vars, NEW e \in Entries PROVE RowStep(e)
    BY Zenon
  <2>1. CASE Present(e)
    BY <2>1, NextRowChange, RowChangeEffect, Zenon DEF IInv
  <2>2. CASE ~Present(e)
    BY <2>2, Zenon DEF RowStep
  <2> QED BY <2>1, <2>2, Zenon
<1> QED BY Inductive, <1>1, PTL DEF Spec, RowsAdvance

-----------------------------------------------------------------------------
(***************************************************************************)
(* Audit delivery implements DeliveryContract.                             *)
(*                                                                         *)
(* Every step of AuditDelivery is a step of the contract or leaves what    *)
(* the contract speaks of alone.  Three of the contract's guards need an   *)
(* invariant: an ack finds its entry published (StagePublished), a dead    *)
(* letter finds the attempts of its row spent (ClaimsFenced: a fenced      *)
(* claim carries the row's attempt), and a sink call stays within the      *)
(* attempts.  The last is Budget: the claims that have not called the sink *)
(* yet and the calls that took effect are together no more than the        *)
(* attempts of the row.                                                    *)
(*                                                                         *)
(* OutcomesHonest follows with three more invariants: what a dead letter,  *)
(* a malformed payload and the attempt of a claim say.                     *)
(***************************************************************************)

Unsent(e) == {c \in claims : c.entry = e /\ c.stage \in {"held", "publishing"}}

Budget ==
  \A e \in Entries : /\ IsFiniteSet(Unsent(e))
                     /\ published[e] + Cardinality(Unsent(e)) <= Attempts(e)

LEMMA AttemptsType ==
  ASSUME TypeOK, NEW e \in Entries PROVE Attempts(e) \in Nat
BY PresentRow, Zenon DEF Attempts, Row

LEMMA AttemptsPrimeType ==
  ASSUME TypeOK', NEW e \in Entries PROVE Attempts(e)' \in Nat
<1>1. CASE Present(e)'
  <2>1. rows'[e] \in Row
    BY <1>1, Zenon DEF TypeOK, OutboxTypeOK, Present
  <2> QED BY <1>1, <2>1, Zenon DEF Attempts, Row
<1>2. CASE ~Present(e)'
  BY <1>2, Zenon DEF Attempts
<1> QED BY <1>1, <1>2, Zenon

\* The attempts of a row never go down, and a claim counts one.
LEMMA AttemptsGrow ==
  ASSUME TypeOK, TypeOK', OpenClaimsDisjoint, [Next]_vars, NEW e \in Entries
  PROVE  Attempts(e)' >= Attempts(e)
<1>1. Attempts(e) \in Nat /\ Attempts(e)' \in Nat
  BY AttemptsType, AttemptsPrimeType, Zenon
<1>2. CASE ~Present(e)
  BY <1>1, <1>2 DEF Attempts
<1>3. CASE Present(e)
  <2>1. Present(e)' /\ RowStep(e)
    BY <1>3, NextRowChange, RowChangeEffect, Zenon
  <2>2. rows[e].attempt_count \in Nat
    BY <1>3, PresentRow, Zenon DEF Row
  <2> QED BY <1>3, <2>1, <2>2 DEF RowStep, Attempts
<1> QED BY <1>2, <1>3, Zenon

LEMMA CommitCounts ==
  ASSUME TypeOK, TypeOK', OpenClaimsDisjoint, NEW w \in Workers, CommitClaim(w),
         NEW e \in Entries
  PROVE  Attempts(e)' = IF e \in claimTx[w].entries THEN Attempts(e) + 1 ELSE Attempts(e)
<1>1. CASE e \in claimTx[w].entries
  <2>1. Present(e) /\ rows'[e] = ClaimedRow(rows[e], w, claimTx[w].now + Lease)
        /\ claimTx[w].now + Lease \in Int
    BY <1>1, CommitRowChange, Zenon
  <2>2. rows'[e].attempt_count = rows[e].attempt_count + 1
    BY <2>1, ClaimedFields
  <2>3. Present(e)'
    BY <2>1, PresentRow, ClaimedRowType, RowIsPresent, Zenon DEF Present
  <2> QED BY <1>1, <2>1, <2>2, <2>3, Zenon DEF Attempts
<1>2. CASE e \notin claimTx[w].entries
  BY <1>2, CommitRowChange, Zenon DEF Attempts, Present
<1> QED BY <1>1, <1>2, Zenon

-----------------------------------------------------------------------------

\* Fewer claims and no sink call keep the budget.
LEMMA BudgetShrinks ==
  ASSUME TypeOK, TypeOK', OpenClaimsDisjoint, Budget, [Next]_vars, NEW e \in Entries,
         Unsent(e)' \subseteq Unsent(e), published'[e] = published[e]
  PROVE  IsFiniteSet(Unsent(e)') /\ published'[e] + Cardinality(Unsent(e)') <= Attempts(e)'
<1> DEFINE S == Unsent(e)
           T == Unsent(e)'
<1>1. IsFiniteSet(S) /\ published[e] + Cardinality(S) <= Attempts(e) /\ T \in SUBSET S
  BY Zenon DEF Budget
<1>2. Attempts(e)' >= Attempts(e) /\ Attempts(e) \in Nat
  BY AttemptsGrow, AttemptsType, Zenon
<1>3. published[e] \in Nat
  BY Zenon DEF TypeOK
<1>4. Attempts(e)' \in Int
  BY <1>2, AttemptsPrimeType
<1> HIDE DEF S, T
<1>5. /\ IsFiniteSet(T) /\ Cardinality(T) <= Cardinality(S)
      /\ Cardinality(S) \in Nat /\ Cardinality(T) \in Nat
  BY <1>1, FS_Subset, FS_CardinalityType, Zenon
<1>6. published'[e] + Cardinality(T) <= Attempts(e)'
  BY <1>1, <1>2, <1>3, <1>4, <1>5
<1> QED BY <1>5, <1>6, Zenon DEF T

\* A claim that committed adds one claim per attempt it counted.
LEMMA BudgetCommit ==
  ASSUME TypeOK, TypeOK', OpenClaimsDisjoint, Budget, [Next]_vars,
         NEW w \in Workers, CommitClaim(w), NEW e \in Entries
  PROVE  IsFiniteSet(Unsent(e)') /\ published'[e] + Cardinality(Unsent(e)') <= Attempts(e)'
<1> DEFINE d == [worker |-> w, entry |-> e, version |-> rows[e].version + 1,
                 attempt |-> rows[e].attempt_count + 1, expires |-> claimTx[w].now + Lease,
                 now |-> claimTx[w].now, stage |-> "held"]
           S == Unsent(e)
           T == Unsent(e)'
<1>1. published' = published /\ claims' \subseteq claims \cup NewClaims(w)
  BY Zenon DEF CommitClaim
<1>2. \A x \in NewClaims(w) : x.entry = e => x = d /\ e \in claimTx[w].entries
  BY DEF NewClaims
<1>3. CASE e \notin claimTx[w].entries
  <2>1. T \subseteq S
    BY <1>1, <1>2, <1>3, Zenon DEF Unsent
  <2> QED BY <1>1, <2>1, BudgetShrinks, Zenon
<1>4. CASE e \in claimTx[w].entries
  <2>1. T \subseteq S \cup {d}
    BY <1>1, <1>2, Zenon DEF Unsent
  <2>2. Attempts(e)' = Attempts(e) + 1 /\ Attempts(e) \in Nat
    BY <1>4, CommitCounts, AttemptsType, Zenon
  <2>3. published[e] \in Nat /\ published'[e] = published[e]
    BY <1>1, Zenon DEF TypeOK
  <2>4. IsFiniteSet(S) /\ published[e] + Cardinality(S) <= Attempts(e)
    BY Zenon DEF Budget
  <2> HIDE DEF S, T, d
  <2>5. /\ IsFiniteSet(S \cup {d}) /\ Cardinality(S) \in Nat
        /\ Cardinality(S \cup {d}) \in Nat /\ Cardinality(S \cup {d}) <= Cardinality(S) + 1
    <3>1. IsFiniteSet(S \cup {d}) /\ Cardinality(S) \in Nat
      BY <2>4, FS_AddElement, FS_CardinalityType, Zenon
    <3>2. Cardinality(S \cup {d}) = IF d \in S THEN Cardinality(S) ELSE Cardinality(S) + 1
      BY <2>4, FS_AddElement, Zenon
    <3> QED BY <3>1, <3>2
  <2>6. IsFiniteSet(T) /\ Cardinality(T) <= Cardinality(S \cup {d}) /\ Cardinality(T) \in Nat
    BY <2>1, <2>5, FS_Subset, FS_CardinalityType, Zenon
  <2>7. published'[e] + Cardinality(T) <= Attempts(e)'
    BY <2>2, <2>3, <2>4, <2>5, <2>6
  <2> QED BY <2>6, <2>7, Zenon DEF T
<1> QED BY <1>3, <1>4, Zenon

\* A claim that is restaged is one claim still; once it has called the sink it is
\* no longer among those that have not.
LEMMA BudgetRestage ==
  ASSUME TypeOK, TypeOK', Budget, rows' = rows, NEW c \in claims, NEW stage, NEW now,
         c.stage \in {"held", "publishing"}, Restage(c, stage, now), NEW e \in Entries,
         published'[e] \in Nat,
         published'[e] <= published[e] + (IF e = c.entry /\ stage \notin {"held", "publishing"}
                                          THEN 1 ELSE 0)
  PROVE  IsFiniteSet(Unsent(e)') /\ published'[e] + Cardinality(Unsent(e)') <= Attempts(e)'
<1> DEFINE d == [worker |-> c.worker, entry |-> c.entry, version |-> c.version,
                 attempt |-> c.attempt, expires |-> c.expires, now |-> now, stage |-> stage]
           S == Unsent(e)
           T == Unsent(e)'
<1>1. claims' = (claims \ {c}) \cup {d} /\ d.entry = c.entry /\ d.stage = stage
  BY Zenon DEF Restage
<1>2. /\ IsFiniteSet(S) /\ published[e] + Cardinality(S) <= Attempts(e)
      /\ Attempts(e)' = Attempts(e) /\ Attempts(e) \in Nat /\ published[e] \in Nat
  BY AttemptsType, Zenon DEF Budget, Attempts, Present, TypeOK
<1>3. c \in S <=> c.entry = e
  BY Zenon DEF Unsent
<1>4. /\ T \subseteq (S \ {c}) \cup {d}
      /\ stage \notin {"held", "publishing"} \/ e # c.entry => T \subseteq S \ {c}
  BY <1>1, Zenon DEF Unsent
<1> HIDE DEF S, T, d
<1>5. /\ IsFiniteSet(S \ {c}) /\ Cardinality(S) \in Nat /\ Cardinality(S \ {c}) \in Nat
      /\ Cardinality(S \ {c}) = IF c \in S THEN Cardinality(S) - 1 ELSE Cardinality(S)
  BY <1>2, FS_RemoveElement, FS_CardinalityType, Zenon
<1>6. /\ IsFiniteSet((S \ {c}) \cup {d}) /\ Cardinality((S \ {c}) \cup {d}) \in Nat
      /\ Cardinality((S \ {c}) \cup {d}) <= Cardinality(S \ {c}) + 1
  <2>1. /\ IsFiniteSet((S \ {c}) \cup {d})
        /\ Cardinality((S \ {c}) \cup {d}) =
              IF d \in S \ {c} THEN Cardinality(S \ {c}) ELSE Cardinality(S \ {c}) + 1
    BY <1>5, FS_AddElement, Zenon
  <2> QED BY <1>5, <2>1
<1>7. CASE stage \notin {"held", "publishing"} \/ e # c.entry
  <2>1. IsFiniteSet(T) /\ Cardinality(T) \in Nat /\ Cardinality(T) <= Cardinality(S \ {c})
    BY <1>4, <1>5, <1>7, FS_Subset, FS_CardinalityType, Zenon
  <2>2. published'[e] + Cardinality(T) <= Attempts(e)'
    BY <1>2, <1>3, <1>5, <1>7, <2>1
  <2> QED BY <2>1, <2>2, Zenon DEF T
<1>8. CASE stage \in {"held", "publishing"} /\ e = c.entry
  <2>1. IsFiniteSet(T) /\ Cardinality(T) \in Nat /\ Cardinality(T) <= Cardinality((S \ {c}) \cup {d})
    BY <1>4, <1>6, FS_Subset, FS_CardinalityType, Zenon
  <2>2. published'[e] + Cardinality(T) <= Attempts(e)'
    BY <1>2, <1>3, <1>5, <1>6, <1>8, <2>1
  <2> QED BY <2>1, <2>2, Zenon DEF T
<1> QED BY <1>7, <1>8, Zenon

LEMMA BudgetStep ==
  ASSUME TypeOK, TypeOK', OpenClaimsDisjoint, Budget, [Next]_vars
  PROVE  Budget'
<1> SUFFICES ASSUME NEW e \in Entries
             PROVE  IsFiniteSet(Unsent(e)') /\ published'[e] + Cardinality(Unsent(e)') <= Attempts(e)'
  BY Zenon DEF Budget
<1>1. ASSUME claims' \subseteq claims, published' = published
      PROVE  IsFiniteSet(Unsent(e)') /\ published'[e] + Cardinality(Unsent(e)') <= Attempts(e)'
  <2>1. Unsent(e)' \subseteq Unsent(e)
    BY <1>1, Zenon DEF Unsent
  <2> QED BY <1>1, <2>1, BudgetShrinks, Zenon
<1>2. ASSUME NEW w \in Workers, CommitClaim(w)
      PROVE  IsFiniteSet(Unsent(e)') /\ published'[e] + Cardinality(Unsent(e)') <= Attempts(e)'
  BY <1>2, BudgetCommit, Zenon
<1>3. ASSUME NEW c \in claims, Deliver(c)
      PROVE  IsFiniteSet(Unsent(e)') /\ published'[e] + Cardinality(Unsent(e)') <= Attempts(e)'
  <2>1. /\ rows' = rows /\ published' = published /\ c.stage = "held" /\ published[e] \in Nat
        /\ claims' = claims \ {c} \/ \E now : Restage(c, "publishing", now)
    BY <1>3, Zenon DEF Deliver, TypeOK
  <2>2. ASSUME NEW now, Restage(c, "publishing", now)
        PROVE  IsFiniteSet(Unsent(e)') /\ published'[e] + Cardinality(Unsent(e)') <= Attempts(e)'
    <3>1. published'[e] <= published[e] + (IF e = c.entry /\ "publishing" \notin {"held", "publishing"}
                                           THEN 1 ELSE 0)
      BY <2>1
    <3> QED BY <2>1, <2>2, <3>1, BudgetRestage
  <2> QED BY <1>1, <2>1, <2>2, Zenon
<1>4. ASSUME NEW c \in claims, Publish(c)
      PROVE  IsFiniteSet(Unsent(e)') /\ published'[e] + Cardinality(Unsent(e)') <= Attempts(e)'
  <2>1. PICK effect \in BOOLEAN, stage \in {"published", "failed"} :
          /\ published' = [published EXCEPT ![c.entry] = IF effect THEN @ + 1 ELSE @]
          /\ Restage(c, stage, c.now)
    BY <1>4, Zenon DEF Publish
  <2>2. rows' = rows /\ c.stage = "publishing" /\ stage \notin {"held", "publishing"}
    BY <1>4, Zenon DEF Publish
  <2>3. /\ published'[e] \in Nat
        /\ published'[e] <= published[e] + (IF e = c.entry /\ stage \notin {"held", "publishing"}
                                            THEN 1 ELSE 0)
    BY <2>1, <2>2 DEF TypeOK
  <2> QED BY <2>1, <2>2, <2>3, BudgetRestage
<1> QED
  BY <1>1, <1>2, <1>3, <1>4, Zenon
     DEF Next, vars, Tick, Enqueue, OpenClaim, AbortClaim, Crash, Ack, DeadLetter, Retry,
         Settled, SettleRaises, ReclaimExpired

-----------------------------------------------------------------------------
(* The refinement *)

LEMMA StateOfValues ==
  /\ StateOf("absent") = "absent"
  /\ StateOf("pending") = "waiting" /\ StateOf("retry") = "waiting"
  /\ StateOf("claimed") = "taken"
  /\ StateOf("succeeded") = "done" /\ StateOf("dead_letter") = "dead"
BY Zenon DEF StateOf

\* Rows of S that go from one state to another while all other rows stay.
LEMMA MoveStep ==
  ASSUME NEW S \in SUBSET Entries, S # {}, NEW from, NEW to,
         \A e \in S : StateOf(rows[e].status) = from /\ StateOf(rows'[e].status) = to,
         \A e \in Entries \ S : rows'[e] = rows[e]
  PROVE  Contract!Move(S, from, to)
<1>1. \A e \in S : [x \in Entries |-> StateOf(rows[x].status)][e] = from
  BY Zenon
<1>2. [x \in Entries |-> StateOf(rows'[x].status)] =
        [e \in Entries |-> IF e \in S THEN to ELSE [x \in Entries |-> StateOf(rows[x].status)][e]]
  BY Zenon
<1> QED BY <1>1, <1>2, Zenon DEF Contract!Move

LEMMA StatusIsPresent == ASSUME NEW r, r.status # "absent" PROVE r # Absent
BY DEF Absent

\* The settlement of a claim moves its row alone and counts no attempt.
LEMMA SettleMoves ==
  ASSUME IInv, NEW c \in claims, NEW status \in {"retry", "succeeded", "dead_letter"},
         NEW at, NEW code, Fenced(c),
         rows' = [rows EXCEPT ![c.entry] = Released(rows[c.entry], status, at, code)]
  PROVE  /\ c.entry \in Entries
         /\ Contract!Move({c.entry}, "taken", StateOf(status))
         /\ \A e \in Entries : Attempts(e)' = Attempts(e)
         /\ Attempts(c.entry) = c.attempt
<1>1. c.entry \in Entries /\ rows \in [Entries -> Row \cup {Absent}]
  BY Zenon DEF IInv, TypeOK, OutboxTypeOK, Claim
<1>2. /\ Present(c.entry) /\ rows[c.entry].status = "claimed"
      /\ rows[c.entry].attempt_count = c.attempt
  BY Zenon DEF Fenced, Fence, IInv, ClaimsFenced, ClaimFenced
<1>3. /\ rows'[c.entry].status = status
      /\ rows'[c.entry].attempt_count = rows[c.entry].attempt_count
      /\ \A e \in Entries \ {c.entry} : rows'[e] = rows[e]
  BY <1>1, Zenon DEF Released
<1>4. rows'[c.entry] # Absent
  BY <1>3, StatusIsPresent
<1>5. Contract!Move({c.entry}, "taken", StateOf(status))
  BY <1>1, <1>2, <1>3, MoveStep, StateOfValues
<1>6. \A e \in Entries : Attempts(e)' = Attempts(e)
  BY <1>1, <1>2, <1>3, <1>4, Zenon DEF Attempts, Present
<1> QED BY <1>1, <1>2, <1>5, <1>6, Zenon DEF Attempts

LEMMA StepKept ==
  ASSUME IInv, IInv', Budget, [Next]_vars
  PROVE  [Contract!Next]_Contract!vars
<1> USE DEF IInv
<1>0. rows \in [Entries -> Row \cup {Absent}] /\ rows' \in [Entries -> Row \cup {Absent}]
  BY Zenon DEF TypeOK, OutboxTypeOK
<1>1. ASSUME rows' = rows, published' = published PROVE UNCHANGED Contract!vars
  BY <1>1, Zenon DEF Contract!vars, Attempts, Present
<1>2. ASSUME NEW x \in Entries, NEW work \in Requests, Enqueue(x, work)
      PROVE  [Contract!Next]_Contract!vars
  <2>1. published' = published
    BY <1>2, Zenon DEF Enqueue
  <2>2. CASE Present(x)
    BY <1>1, <1>2, <2>1, <2>2, Zenon DEF Enqueue, EnqueueRow
  <2>3. CASE ~Present(x)
    <3>1. /\ rows[x] = Absent /\ rows'[x] = NewRow(work)
          /\ \A e \in Entries \ {x} : rows'[e] = rows[e]
      BY <1>0, <1>2, <2>3, Zenon DEF Enqueue, EnqueueRow, Present
    <3>2. rows[x].status = "absent" /\ rows'[x].status = "pending" /\ rows'[x].attempt_count = 0
      BY <3>1 DEF Absent, NewRow
    <3>3. Contract!Move({x}, "absent", "waiting")
      BY <3>1, <3>2, MoveStep, StateOfValues, Zenon
    <3>4. \A e \in Entries : Attempts(e)' = Attempts(e)
      BY <3>1, <3>2, Zenon DEF Attempts, Present
    <3>5. Contract!Accept(x)
      BY <2>1, <3>3, <3>4, Zenon DEF Contract!Accept
    <3> QED BY <3>5, Zenon DEF Contract!Next
  <2> QED BY <2>2, <2>3, Zenon
<1>3. ASSUME NEW w \in Workers, CommitClaim(w) PROVE [Contract!Next]_Contract!vars
  <2> DEFINE S == claimTx[w].entries
  <2>1. S \in SUBSET Entries /\ published' = published
    BY <1>3, Zenon DEF CommitClaim, TypeOK
  <2>2. \A e \in Entries \ S : rows'[e] = rows[e]
    BY <1>3, CommitRowChange, Zenon
  <2>3. \A e \in S : rows[e].status \in {"pending", "retry"} /\ rows'[e].status = "claimed"
    BY <1>3, <2>1, CommitRowChange, ClaimedFields
  <2>4. \A e \in Entries : Attempts(e)' = IF e \in S THEN Attempts(e) + 1 ELSE Attempts(e)
    BY <1>3, CommitCounts, Zenon
  <2> HIDE DEF S
  <2>5. CASE S = {}
    <3>1. rows' = rows
      BY <1>0, <2>2, <2>5
    <3> QED BY <1>1, <2>1, <3>1, Zenon
  <2>6. CASE S # {}
    <3>1. Contract!Move(S, "waiting", "taken")
      BY <2>1, <2>2, <2>3, <2>6, MoveStep, StateOfValues, Zenon
    <3>2. [e \in Entries |-> Attempts(e)'] =
            [e \in Entries |-> IF e \in S THEN [x \in Entries |-> Attempts(x)][e] + 1
                                          ELSE [x \in Entries |-> Attempts(x)][e]]
      BY <2>4, Zenon
    <3>3. Contract!Take(S)
      BY <2>1, <3>1, <3>2, Zenon DEF Contract!Take
    <3> QED BY <2>1, <3>3, Zenon DEF Contract!Next
  <2> QED BY <2>5, <2>6, Zenon
<1>4. ASSUME NEW c \in claims, Publish(c) PROVE [Contract!Next]_Contract!vars
  <2>1. PICK effect \in BOOLEAN :
          published' = [published EXCEPT ![c.entry] = IF effect THEN @ + 1 ELSE @]
    BY <1>4, Zenon DEF Publish
  <2>2. rows' = rows /\ c.entry \in Entries /\ published \in [Entries -> Nat] /\ c.stage = "publishing"
    BY <1>4, Zenon DEF Publish, TypeOK, Claim
  <2>3. CASE ~effect
    <3>1. published' = published
      BY <2>1, <2>2, <2>3, Zenon
    <3> QED BY <1>1, <2>2, <3>1, Zenon
  <2>4. CASE effect
    <3> DEFINE S == Unsent(c.entry)
    <3>1. /\ c \in S /\ IsFiniteSet(S) /\ published[c.entry] + Cardinality(S) <= Attempts(c.entry)
          /\ Attempts(c.entry) \in Nat
      BY <2>2, AttemptsType, Zenon DEF Budget, Unsent
    <3> HIDE DEF S
    <3>2. Cardinality(S) \in Nat /\ Cardinality(S) # 0
      BY <3>1, FS_EmptySet, FS_CardinalityType, Zenon
    <3>3. published[c.entry] < Attempts(c.entry)
      BY <2>2, <3>1, <3>2
    <3>4. published' = [published EXCEPT ![c.entry] = @ + 1]
      BY <2>1, <2>4, Zenon
    <3>5. Contract!TakeEffect(c.entry)
      BY <2>2, <3>3, <3>4, Zenon DEF Contract!TakeEffect, Attempts, Present
    <3> QED BY <2>2, <3>5, Zenon DEF Contract!Next
  <2> QED BY <2>3, <2>4, Zenon
<1>5. ASSUME NEW c \in claims, Ack(c) PROVE [Contract!Next]_Contract!vars
  <2>1. /\ Fenced(c) /\ published' = published
        /\ rows' = [rows EXCEPT ![c.entry] =
                      Released(rows[c.entry], "succeeded", rows[c.entry].available_at, Null)]
    BY <1>5, Zenon DEF Ack, AckRow, Settled
  <2>2. /\ c.entry \in Entries /\ Contract!Move({c.entry}, "taken", "done")
        /\ \A e \in Entries : Attempts(e)' = Attempts(e)
    BY <2>1, SettleMoves, StateOfValues, Zenon
  <2>3. published[c.entry] > 0
    BY <1>5, Zenon DEF Ack, StagePublished
  <2>4. Contract!Finish(c.entry)
    BY <2>1, <2>2, <2>3, Zenon DEF Contract!Finish
  <2> QED BY <2>2, <2>4, Zenon DEF Contract!Next
<1>6. ASSUME NEW c \in claims, DeadLetter(c) PROVE [Contract!Next]_Contract!vars
  <2>1. /\ Fenced(c) /\ published' = published /\ c.attempt >= MaxAttempts
        /\ rows' = [rows EXCEPT ![c.entry] = Released(rows[c.entry], "dead_letter",
                                rows[c.entry].available_at, "audit_sink_unavailable")]
    BY <1>6, Zenon DEF DeadLetter, DeadLetterRow, Settled
  <2>2. /\ c.entry \in Entries /\ Contract!Move({c.entry}, "taken", "dead")
        /\ \A e \in Entries : Attempts(e)' = Attempts(e)
        /\ Attempts(c.entry) = c.attempt
    BY <2>1, SettleMoves, StateOfValues, Zenon
  <2>3. Contract!GiveUp(c.entry)
    BY <2>1, <2>2, Zenon DEF Contract!GiveUp
  <2> QED BY <2>2, <2>3, Zenon DEF Contract!Next
<1>7. ASSUME NEW c \in claims, Retry(c) PROVE [Contract!Next]_Contract!vars
  <2>1. /\ Fenced(c) /\ published' = published
        /\ rows' = [rows EXCEPT ![c.entry] = Released(rows[c.entry], "retry",
                                c.now + RetryDelay(c.attempt), "audit_sink_unavailable")]
    BY <1>7, Zenon DEF Retry, RetryRow, Settled
  <2>2. /\ c.entry \in Entries /\ Contract!Move({c.entry}, "taken", "waiting")
        /\ \A e \in Entries : Attempts(e)' = Attempts(e)
    BY <2>1, SettleMoves, StateOfValues, Zenon
  <2>3. Contract!GiveBack({c.entry})
    BY <2>1, <2>2, Zenon DEF Contract!GiveBack
  <2> QED BY <2>2, <2>3, Zenon DEF Contract!Next
<1>8. ASSUME NEW limit \in Limits, ReclaimExpired(limit) PROVE [Contract!Next]_Contract!vars
  <2>1. PICK now \in Readings, S \in SUBSET Entries :
          S # {} /\ S \subseteq Expired(now) /\ ReclaimRows(S, now)
    BY <1>8, Zenon DEF ReclaimExpired, FirstBy
  <2>2. /\ \A e \in S : /\ Present(e) /\ rows[e].status = "claimed"
                        /\ rows'[e] = Released(rows[e], "retry", now, "lease_expired")
        /\ \A e \in Entries \ S : rows'[e] = rows[e]
        /\ published' = published
    BY <1>8, <2>1, Zenon DEF ReclaimRows, Expired, ReclaimExpired
  <2>3. \A e \in S : /\ rows'[e].status = "retry" /\ rows'[e] # Absent
                      /\ rows'[e].attempt_count = rows[e].attempt_count
    <3> SUFFICES ASSUME NEW e \in S
                 PROVE  /\ rows'[e].status = "retry" /\ rows'[e] # Absent
                        /\ rows'[e].attempt_count = rows[e].attempt_count
      BY Zenon
    <3>1. rows'[e] = Released(rows[e], "retry", now, "lease_expired")
      BY <2>2, Zenon
    <3>2. rows'[e].status = "retry" /\ rows'[e].attempt_count = rows[e].attempt_count
      BY <3>1 DEF Released
    <3> QED BY <3>2, StatusIsPresent, Zenon
  <2>4. Contract!Move(S, "taken", "waiting")
    BY <2>1, <2>2, <2>3, MoveStep, StateOfValues, Zenon
  <2>5. \A e \in Entries : Attempts(e)' = Attempts(e)
    BY <2>2, <2>3, Zenon DEF Attempts, Present
  <2>6. Contract!GiveBack(S)
    BY <2>2, <2>4, <2>5, Zenon DEF Contract!GiveBack
  <2> QED BY <2>6, Zenon DEF Contract!Next
<1> QED
  BY <1>1, <1>2, <1>3, <1>4, <1>5, <1>6, <1>7, <1>8, Zenon
     DEF Next, vars, Tick, OpenClaim, AbortClaim, Crash, Deliver, SettleRaises

-----------------------------------------------------------------------------
(* The theorems *)

LEMMA BudgetInductive == Spec => [](IInv /\ Budget)
<1>1. Init => Budget
  <2> SUFFICES ASSUME Init, NEW e \in Entries
               PROVE  IsFiniteSet(Unsent(e)) /\ published[e] + Cardinality(Unsent(e)) <= Attempts(e)
    BY Zenon DEF Budget
  <2>1. Unsent(e) = {} /\ published[e] = 0 /\ Attempts(e) = 0
    BY Zenon DEF Init, OutboxInit, Unsent, Attempts, Present
  <2>2. IsFiniteSet({}) /\ Cardinality({}) = 0
    BY FS_EmptySet, Zenon
  <2> QED BY <2>1, <2>2
<1>2. IInv /\ IInv' /\ Budget /\ [Next]_vars => Budget'
  BY BudgetStep, Zenon DEF IInv
<1> QED BY <1>1, <1>2, Inductive, PTL DEF Spec

\* Duplicates are bounded: however often a lease expires while a sink call is
\* under way, an entry takes effect at most once per counted attempt (deliver).
THEOREM DuplicatesBounded == Spec => []PublishBudget
<1>1. IInv /\ Budget => PublishBudget
  <2> SUFFICES ASSUME IInv, Budget, NEW e \in Entries PROVE published[e] <= Attempts(e)
    BY Zenon DEF PublishBudget
  <2>1. Attempts(e) \in Nat /\ published[e] \in Nat
    BY AttemptsType, Zenon DEF IInv, TypeOK
  <2>2. Cardinality(Unsent(e)) \in Nat /\ published[e] + Cardinality(Unsent(e)) <= Attempts(e)
    BY FS_CardinalityType, Zenon DEF Budget
  <2> QED BY <2>1, <2>2
<1> QED BY <1>1, BudgetInductive, PTL

\* The store, its workers and its sweeper implement the delivery contract, for every
\* number of entries, workers and crashes and every clock skew: leases, fences, late
\* settlements, reclaims and lost acknowledgements never show a producer anything
\* but entries that wait, are taken, given back, finished or given up as promised.
THEOREM KeepsContract == Spec => ContractKept
<1>1. Init => Contract!Init
  <2> SUFFICES ASSUME Init PROVE Contract!Init
    BY Zenon
  <2>1. \A e \in Entries : rows[e].status = "absent" /\ Attempts(e) = 0
    BY Zenon DEF Init, OutboxInit, Absent, Attempts, Present
  <2> QED BY <2>1, StateOfValues, Zenon DEF Init, Contract!Init
<1>2. IInv /\ IInv' /\ Budget /\ [Next]_vars => [Contract!Next]_Contract!vars
  BY StepKept, Zenon
<1> QED BY <1>1, <1>2, BudgetInductive, PTL DEF Spec, ContractKept, Contract!Spec

-----------------------------------------------------------------------------
(* What the table says of an entry.                                        *)

\* Attempts are counted from one.
AttemptsPositive == \A c \in claims : c.attempt >= 1

LEMMA AttemptsPositiveStep ==
  ASSUME TypeOK, OpenClaimsDisjoint, AttemptsPositive, [Next]_vars
  PROVE  AttemptsPositive'
<1>1. ASSUME claims' \subseteq claims PROVE AttemptsPositive'
  BY <1>1, Zenon DEF AttemptsPositive
<1>2. ASSUME NEW w \in Workers, CommitClaim(w) PROVE AttemptsPositive'
  <2>1. ASSUME NEW d \in NewClaims(w) PROVE d.attempt >= 1
    <3>1. PICK e \in claimTx[w].entries :
            d = [worker |-> w, entry |-> e, version |-> rows[e].version + 1,
                 attempt |-> rows[e].attempt_count + 1, expires |-> claimTx[w].now + Lease,
                 now |-> claimTx[w].now, stage |-> "held"]
      BY <2>1, Zenon DEF NewClaims
    <3>2. e \in Entries /\ Present(e)
      BY Zenon DEF TypeOK, OpenClaimsDisjoint
    <3>3. rows[e].attempt_count \in Nat
      BY <3>2, PresentRow, Zenon DEF Row
    <3>4. d.attempt = rows[e].attempt_count + 1
      BY <3>1, Zenon
    <3> QED BY <3>3, <3>4
  <2> QED BY <1>2, <2>1, Zenon DEF CommitClaim, AttemptsPositive
<1>3. ASSUME NEW c \in claims, NEW stage, NEW now, Restage(c, stage, now) PROVE AttemptsPositive'
  BY <1>3 DEF Restage, AttemptsPositive
<1> QED
  BY <1>1, <1>2, <1>3, Zenon
     DEF Next, vars, Tick, Enqueue, OpenClaim, AbortClaim, Crash, Deliver, Publish, Ack,
         DeadLetter, Retry, Settled, SettleRaises, ReclaimExpired

\* A payload that is not canonical never leaves the state it was enqueued in.
LEMMA MalformedStep ==
  ASSUME TypeOK, OpenClaimsDisjoint, MalformedNeverLeased, [Next]_vars
  PROVE  MalformedNeverLeased'
<1> SUFFICES ASSUME NEW e \in Entries, Present(e)', rows'[e].payload = "malformed"
             PROVE  rows'[e].status = "pending" /\ rows'[e].version = 0
  BY Zenon DEF MalformedNeverLeased
<1>1. CASE rows'[e] = rows[e]
  BY <1>1, Zenon DEF MalformedNeverLeased, Present
<1>2. CASE RowInserted(e)
  BY <1>2 DEF RowInserted, NewRow
<1>3. CASE RowReleased(e)
  <2>1. PICK s, t, k : rows'[e] = Released(rows[e], s, t, k)
    BY <1>3, Zenon DEF RowReleased
  <2>2. rows[e].payload = "malformed"
    BY <2>1, ReleasedFields
  <2> QED BY <1>3, <2>2, Zenon DEF RowReleased, MalformedNeverLeased
<1>4. CASE RowClaimed(e) /\ rows'[e] # rows[e]
  <2>1. PICK v, t : rows'[e] = ClaimedRow(rows[e], v, t)
    BY <1>4, Zenon DEF RowClaimed
  <2>2. rows[e].payload = "malformed" /\ rows'[e].status = "claimed" /\ Present(e)
    <3>1. rows'[e].payload = rows[e].payload /\ rows'[e].status = "claimed"
      BY <2>1, ClaimedFields
    <3> QED BY <1>4, <3>1, Zenon DEF RowClaimed
  <2>3. ASSUME NEW w \in Workers, CommitClaim(w) PROVE FALSE
    <3>1. e \in claimTx[w].entries
      BY <1>4, <2>3, CommitRowChange, Zenon
    <3> QED BY <2>2, <2>3, <3>1, Zenon DEF CommitClaim, ValidClaims
  <2>4. ASSUME NEW c \in claims, Ack(c) \/ DeadLetter(c) \/ Retry(c) PROVE FALSE
    <3>1. RowReleased(e)
      BY <1>4, <2>4, SettleRowChange, Zenon
    <3> QED BY <1>4, <3>1, Zenon DEF RowReleased, RowClaimed
  <2>5. ASSUME NEW limit \in Limits, ReclaimExpired(limit) PROVE FALSE
    <3>1. RowReleased(e)
      BY <1>4, <2>5, ReclaimRowChange, Zenon
    <3> QED BY <1>4, <3>1, Zenon DEF RowReleased, RowClaimed
  <2>6. ASSUME NEW x \in Entries, NEW work \in Requests, Enqueue(x, work) PROVE FALSE
    <3>1. RowInserted(e)
      BY <1>4, <2>6, EnqueueRowChange, Zenon
    <3> QED BY <1>4, <3>1, Zenon DEF RowInserted, RowClaimed
  <2> QED
    BY <1>4, <2>3, <2>4, <2>5, <2>6, Zenon
       DEF Next, vars, Tick, OpenClaim, AbortClaim, Crash, Deliver, Publish, SettleRaises
<1> QED BY <1>1, <1>2, <1>3, <1>4, NextRowChange, Zenon DEF RowChange

\* Only a fenced settlement of the last attempt gives an entry up.
LEMMA DeadLetterStep ==
  ASSUME TypeOK, OpenClaimsDisjoint, ClaimsFenced, DeadLetterExhausted, [Next]_vars
  PROVE  DeadLetterExhausted'
<1> SUFFICES ASSUME NEW e \in Entries, Present(e)', rows'[e].status = "dead_letter"
             PROVE  /\ rows'[e].attempt_count >= MaxAttempts
                    /\ rows'[e].last_error_code = "audit_sink_unavailable"
  BY Zenon DEF DeadLetterExhausted
<1>1. CASE rows'[e] = rows[e]
  BY <1>1, Zenon DEF DeadLetterExhausted, Present
<1>2. CASE rows'[e] # rows[e]
  <2>1. rows \in [Entries -> Row \cup {Absent}]
    BY Zenon DEF TypeOK, OutboxTypeOK
  <2>2. ASSUME NEW c \in claims, DeadLetter(c)
        PROVE  /\ rows'[e].attempt_count >= MaxAttempts
               /\ rows'[e].last_error_code = "audit_sink_unavailable"
    <3>1. c.entry = e
      BY <1>2, <2>2, SettleRowChange, Zenon
    <3>2. rows[e].attempt_count = c.attempt /\ c.attempt >= MaxAttempts
      BY <2>2, <3>1, Zenon DEF DeadLetter, Fenced, Fence, ClaimsFenced, ClaimFenced
    <3>3. rows'[e] = Released(rows[e], "dead_letter", rows[e].available_at, "audit_sink_unavailable")
      BY <2>1, <2>2, <3>1, Zenon DEF DeadLetter, DeadLetterRow
    <3> QED BY <3>2, <3>3, ReleasedFields
  <2>3. ASSUME NEW c \in claims, Ack(c) PROVE FALSE
    <3>1. c.entry = e
      BY <1>2, <2>3, SettleRowChange, Zenon
    <3> QED BY <2>1, <2>3, <3>1, Zenon DEF Ack, AckRow, Released
  <2>4. ASSUME NEW c \in claims, Retry(c) PROVE FALSE
    <3>1. c.entry = e
      BY <1>2, <2>4, SettleRowChange, Zenon
    <3> QED BY <2>1, <2>4, <3>1, Zenon DEF Retry, RetryRow, Released
  <2>5. ASSUME NEW limit \in Limits, ReclaimExpired(limit) PROVE FALSE
    <3>1. PICK now, chosen : ReclaimRows(chosen, now)
      BY <2>5, Zenon DEF ReclaimExpired
    <3>2. rows'[e] = Released(rows[e], "retry", now, "lease_expired")
      BY <1>2, <3>1, Zenon DEF ReclaimRows
    <3> QED BY <3>2, ReleasedFields
  <2>6. ASSUME NEW w \in Workers, CommitClaim(w) PROVE FALSE
    <3>1. rows'[e] = ClaimedRow(rows[e], w, claimTx[w].now + Lease)
      BY <1>2, <2>6, CommitRowChange, Zenon
    <3>2. rows'[e].status = "claimed"
      BY <3>1, ClaimedFields
    <3> QED BY <3>2, Zenon
  <2>7. ASSUME NEW x \in Entries, NEW work \in Requests, Enqueue(x, work) PROVE FALSE
    BY <1>2, <2>7, EnqueueRowChange, NewRowStatus, Zenon DEF RowInserted
  <2> QED
    BY <1>2, <2>2, <2>3, <2>4, <2>5, <2>6, <2>7, Zenon
       DEF Next, vars, Tick, OpenClaim, AbortClaim, Crash, Deliver, Publish, SettleRaises
<1> QED BY <1>1, <1>2, Zenon

LEMMA OutcomesInductive == Spec => [](IInv /\ AttemptsPositive /\ MalformedNeverLeased /\ DeadLetterExhausted)
<1>1. Init => AttemptsPositive /\ MalformedNeverLeased /\ DeadLetterExhausted
  BY DEF Init, OutboxInit, Present, AttemptsPositive, MalformedNeverLeased, DeadLetterExhausted
<1>2. IInv /\ AttemptsPositive /\ MalformedNeverLeased /\ DeadLetterExhausted /\ [Next]_vars
        => (AttemptsPositive /\ MalformedNeverLeased /\ DeadLetterExhausted)'
  BY AttemptsPositiveStep, MalformedStep, DeadLetterStep, Zenon DEF IInv
<1> QED BY <1>1, <1>2, Inductive, PTL DEF Spec

\* The exponent is capped at 30: max_retry_delay is reached by then.
CapReached == MaxDelay <= BaseDelay * 2^30

\* The powers of two that _retry_delay uses.
LEMMA Powers ==
  ASSUME NEW n \in 0 .. 29
  PROVE  2^n \in Nat \ {0} /\ 2^(n + 1) = 2 * 2^n
<1>0. CASE n = 0
  BY <1>0
<1>1. CASE n = 1
  BY <1>1
<1>2. CASE n = 2
  BY <1>2
<1>3. CASE n = 3
  BY <1>3
<1>4. CASE n = 4
  BY <1>4
<1>5. CASE n = 5
  BY <1>5
<1>6. CASE n = 6
  BY <1>6
<1>7. CASE n = 7
  BY <1>7
<1>8. CASE n = 8
  BY <1>8
<1>9. CASE n = 9
  BY <1>9
<1>10. CASE n = 10
  BY <1>10
<1>11. CASE n = 11
  BY <1>11
<1>12. CASE n = 12
  BY <1>12
<1>13. CASE n = 13
  BY <1>13
<1>14. CASE n = 14
  BY <1>14
<1>15. CASE n = 15
  BY <1>15
<1>16. CASE n = 16
  BY <1>16
<1>17. CASE n = 17
  BY <1>17
<1>18. CASE n = 18
  BY <1>18
<1>19. CASE n = 19
  BY <1>19
<1>20. CASE n = 20
  BY <1>20
<1>21. CASE n = 21
  BY <1>21
<1>22. CASE n = 22
  BY <1>22
<1>23. CASE n = 23
  BY <1>23
<1>24. CASE n = 24
  BY <1>24
<1>25. CASE n = 25
  BY <1>25
<1>26. CASE n = 26
  BY <1>26
<1>27. CASE n = 27
  BY <1>27
<1>28. CASE n = 28
  BY <1>28
<1>29. CASE n = 29
  BY <1>29
<1>30. n \in {0, 1, 2, 3, 4, 5, 6, 7, 8, 9, 10, 11, 12, 13, 14, 15, 16, 17, 18, 19, 20, 21, 22, 23, 24, 25, 26, 27, 28, 29}
  BY SMT
<1> QED
  BY <1>30, <1>0, <1>1, <1>2, <1>3, <1>4, <1>5, <1>6, <1>7, <1>8, <1>9, <1>10, <1>11, <1>12, <1>13, <1>14,
     <1>15, <1>16, <1>17, <1>18, <1>19, <1>20, <1>21, <1>22, <1>23, <1>24, <1>25, <1>26, <1>27, <1>28, <1>29, Zenon

LEMMA DelayIsMinimum ==
  ASSUME NEW m \in Nat \ {0}
  PROVE  (BaseDelay > MaxDelay \div m) <=> BaseDelay * m > MaxDelay
BY DeliveryConstants

\* One more failure doubles the delay, up to max_retry_delay.
LEMMA DelayDoubles ==
  ASSUME CapReached, NEW a \in Nat, a >= 1
  PROVE  RetryDelay(a + 1) = IF 2 * RetryDelay(a) < MaxDelay THEN 2 * RetryDelay(a) ELSE MaxDelay
<1>1. CASE a <= 30
  <2>1. PICK m \in Nat \ {0} : m = 2^(a - 1) /\ 2^a = 2 * m
    <3>1. a - 1 \in 0 .. 29 /\ (a - 1) + 1 = a
      BY <1>1
    <3> QED BY <3>1, Powers, Zenon
  <2>2. RetryDelay(a) = IF BaseDelay * m > MaxDelay THEN MaxDelay ELSE BaseDelay * m
    <3>1. (IF a - 1 < 30 THEN a - 1 ELSE 30) = a - 1
      BY <1>1
    <3> QED BY <2>1, <3>1, DelayIsMinimum, Zenon DEF RetryDelay
  <2>3. RetryDelay(a + 1) = IF BaseDelay * (2 * m) > MaxDelay THEN MaxDelay ELSE BaseDelay * (2 * m)
    <3>1. (IF (a + 1) - 1 < 30 THEN (a + 1) - 1 ELSE 30) = a
      BY <1>1
    <3>2. 2 * m \in Nat \ {0}
      OBVIOUS
    <3> QED BY <2>1, <3>1, <3>2, DelayIsMinimum, Zenon DEF RetryDelay
  <2>4. PICK b \in Nat \ {0} : b = BaseDelay * m /\ BaseDelay * (2 * m) = 2 * b
    BY DeliveryConstants
  <2> QED BY <2>2, <2>3, <2>4, DeliveryConstants
<1>2. CASE a > 30
  <2>1. 2^30 \in Nat \ {0}
    OBVIOUS
  <2>2. RetryDelay(a) = IF BaseDelay * 2^30 > MaxDelay THEN MaxDelay ELSE BaseDelay * 2^30
    <3>1. (IF a - 1 < 30 THEN a - 1 ELSE 30) = 30
      BY <1>2
    <3> QED BY <2>1, <3>1, DelayIsMinimum, Zenon DEF RetryDelay
  <2>3. RetryDelay(a + 1) = IF BaseDelay * 2^30 > MaxDelay THEN MaxDelay ELSE BaseDelay * 2^30
    <3>1. (IF (a + 1) - 1 < 30 THEN (a + 1) - 1 ELSE 30) = 30
      BY <1>2
    <3> QED BY <2>1, <3>1, DelayIsMinimum, Zenon DEF RetryDelay
  <2>4. RetryDelay(a) = MaxDelay /\ RetryDelay(a + 1) = MaxDelay
    BY <2>2, <2>3, DeliveryConstants DEF CapReached
  <2> QED BY <2>4, DeliveryConstants
<1> QED BY <1>1, <1>2

\* What the table says of an entry is what happened to it, for any number of entries,
\* workers and crashes and any clock skew: a succeeded entry was published, at most
\* once per counted attempt; a dead-lettered one had all its attempts and a failing
\* sink; a malformed one was never leased.  The delay of a retry doubles up to its
\* limit, provided the limit is reached within the 30 doublings of _retry_delay.
THEOREM OutcomesAreHonest ==
  ASSUME CapReached
  PROVE  Spec => []OutcomesHonest
<1>1. TypeOK /\ AttemptsPositive => BackoffDoubles
  <2> SUFFICES ASSUME TypeOK, AttemptsPositive, NEW c \in claims, NEW a \in c.attempt .. MaxBackoff
               PROVE  RetryDelay(a + 1) = IF 2 * RetryDelay(a) < MaxDelay THEN 2 * RetryDelay(a) ELSE MaxDelay
    BY Zenon DEF BackoffDoubles
  <2>1. c.attempt \in Nat /\ c.attempt >= 1
    BY Zenon DEF TypeOK, Claim, AttemptsPositive
  <2>2. a \in Nat /\ a >= 1
    BY <2>1
  <2> QED BY <2>2, DelayDoubles, Zenon
<1>2. IInv /\ AttemptsPositive /\ MalformedNeverLeased /\ DeadLetterExhausted /\ PublishBudget => OutcomesHonest
  BY <1>1, Zenon DEF IInv, OutcomesHonest
<1> QED BY <1>2, OutcomesInductive, DuplicatesBounded, PTL
=============================================================================
