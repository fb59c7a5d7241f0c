---------------------------- MODULE WorkAdmission ----------------------------
(***************************************************************************)
(* WorkAdmissionRepository: bounded classes of work with hierarchical      *)
(* capacity slots, immutable submission results, a FIFO queue with a       *)
(* deadline, execution fences, slot leases, cancellation and retention.    *)
(*                                                                         *)
(* A method runs in one caller-owned transaction and is one step, because  *)
(* the class chain, the operation row or an advisory lock serialises it.   *)
(* Three methods read rows that they lock only later, and take two steps:  *)
(* the replay by idempotency key, the lease sweep and the purge.           *)
(***************************************************************************)
EXTENDS Integers, FiniteSets, FiniteSetsExt

CONSTANTS
  Ops,            \* operation ids: uuid4 values, ordered as PostgreSQL orders them
  Workers,        \* holders of an execution fence
  Classes,        \* admission classes
  Parent,         \* [Classes -> Classes \cup {Null}], parent_class_name
  VoiceClasses,   \* {voice_interactive}, or {} where it is not configured
  Configs,        \* configurations that may be written: [active, queue, wait] by class
  Requests,       \* the requests that clients submit
  Outcomes,       \* the terminal states that workers report
  SubmissionIds,  \* their submission ids, each with its owner partition
  Null,
  MaxSlots,       \* bound on the active limits of Configs
  VoiceLimit,     \* VOICE_INTERACTIVE_PER_USER_ACTIVE_LIMIT
  SlotLease,      \* slot_lease
  Retention,      \* retention
  PurgeLimit,     \* limit of purge_expired
  Lag,            \* how long a transaction may have waited since CURRENT_TIMESTAMP
  MaxTime,        \* bound of the clock
  Horizon,        \* bound on the time of submissions, claims and renewals
  MaxGeneration,  \* bound on execution_generation
  MaxConfigure    \* bound on the number of configurations written

Limits == [active : [Classes -> 1 .. MaxSlots], queue : [Classes -> Nat], wait : [Classes -> Nat]]

Key == [kind : {"none", "plain", "retry"}, of : Nat]

NoKey == [kind |-> "none", of |-> 0]

RetryKey(o) == [kind |-> "retry", of |-> o]

Request == [submission : SubmissionIds, owner : STRING, class : Classes, key : Key,
            input : STRING, parent : Ops \cup {Null}]

Owners == {r.owner : r \in Requests} \cup {""}

Inputs == {r.input : r \in Requests} \cup {""}

\* The state codes of rows and results; "host" stands for those that the host gives.
Codes == {"", "queue_wait_expired", "execution_lease_expired", "host", "capacity_exceeded",
          "idempotency_conflict"}

\* The class and its ancestors: the classes in which an execution holds a slot.
Chain[c \in Classes] == {c} \cup IF Parent[c] = Null THEN {} ELSE Chain[Parent[c]]

\* What the module takes for granted of its constants.  _validate_admission_graph
\* refuses classes whose parents form a cycle, AdmissionClassConfig a voice class
\* that queues.
AdmissionConstants ==
  /\ Ops \subseteq Nat
  /\ IsFiniteSet(Ops) /\ IsFiniteSet(Classes) /\ Classes # {}
  /\ Chain \in [Classes -> SUBSET Classes]
  /\ \A c \in Classes : c \in Chain[c]
  /\ \A cfg \in Configs, c \in VoiceClasses : cfg.queue[c] = 0
  /\ Null \notin Ops /\ Null \notin Classes
  /\ Parent \in [Classes -> Classes \cup {Null}]
  /\ VoiceClasses \subseteq Classes
  /\ MaxSlots \in Nat
  /\ Configs \subseteq Limits
  /\ Requests \subseteq Request
  /\ Outcomes \subseteq {"completed", "failed", "cancelled", "retryable"}
  /\ \A r \in Requests : r.key.kind = "retry" <=> r.parent # Null
  /\ \A r \in Requests : r.parent # Null => r.key = RetryKey(r.parent)
  /\ {VoiceLimit, SlotLease, Retention, PurgeLimit} \subseteq Nat \ {0}
  /\ {Lag, MaxTime, Horizon, MaxGeneration, MaxConfigure} \subseteq Nat

VARIABLES
  clock,
  config,       \* operation_admission_class: the committed configuration
  bound,        \* the configurations that some repository instance has bound
  written,      \* number of configurations written
  ops,          \* operation_record
  slots,        \* operation_admission_slot
  submissions,  \* operation_submission_result
  held,         \* [Workers -> the ExecutionFence a worker holds]
  replay,       \* the request of an open replay transaction, or Null
  sweep,        \* the scan of an open expire_execution_leases transaction
  purge         \* the candidates of an open purge_expired transaction

vars == <<clock, config, bound, written, ops, slots, submissions, held, replay, sweep, purge>>

Terminal == {"completed", "failed", "cancelled", "retryable"}

Times == 0 .. MaxTime

\* An operation_record row.  A fresh execution_lease_token is minted exactly when
\* execution_generation grows and is NULL unless the row is running, so the
\* generation stands for both.  "absent" and "purged" are rows not in the table.
Row == [state : {"absent", "queued", "running", "purged"} \cup Terminal,
        class : Classes, owner : Owners, key : Key, input : Inputs,
        parent : Ops \cup {Null}, gen : Nat, accepted : Int, deadline : Int,
        cancel : BOOLEAN, code : Codes, purge : Int]

\* lease_token: "marker" equals the row's execution_lease_token, "common" is one
\* token on all slots of the operation, "own" differs from slot to slot.
Slot == [present : BOOLEAN, op : Ops \cup {Null},
         token : {"none", "marker", "common", "own"}, expires : Int]

FreeSlot == [present |-> TRUE, op |-> Null, token |-> "none", expires |-> 0]

NoSlot == [present |-> FALSE, op |-> Null, token |-> "none", expires |-> 0]

Submission == [status : {"none", "accepted", "refused"}, op : Ops \cup {Null},
               code : Codes, purge : Int]

NoSubmission == [status |-> "none", op |-> Null, code |-> "", purge |-> 0]

Fence == [op : Ops, gen : Nat]

NoFence == [op |-> Null, gen |-> 0]

Idle == [ids |-> {}, now |-> -1]

TypeOK ==
  /\ clock \in Times
  /\ config \in Configs
  /\ bound \subseteq Configs
  /\ written \in 0 .. MaxConfigure
  /\ ops \in [Ops -> Row]
  /\ slots \in [Classes -> [1 .. MaxSlots -> Slot]]
  /\ submissions \in [SubmissionIds -> Submission]
  /\ held \in [Workers -> Fence \cup {NoFence}]
  /\ replay \in Requests \cup {Null}
  /\ sweep \in [ids : SUBSET Ops, now : Int]
  /\ purge \in [ids : SUBSET Ops, now : Int]

AbsentRow == [state |-> "absent", class |-> CHOOSE c \in Classes : TRUE, owner |-> "",
              key |-> NoKey, input |-> "", parent |-> Null, gen |-> 0, accepted |-> 0,
              deadline |-> 0, cancel |-> FALSE, code |-> "", purge |-> 0]

Provisioned(cfg) ==
  [c \in Classes |-> [n \in 1 .. MaxSlots |-> IF n <= cfg.active[c] THEN FreeSlot ELSE NoSlot]]

Init ==
  /\ clock = 0
  /\ config \in Configs
  /\ bound = {config}
  /\ written = 0
  /\ ops = [o \in Ops |-> AbsentRow]
  /\ slots = Provisioned(config)
  /\ submissions = [s \in SubmissionIds |-> NoSubmission]
  /\ held = [w \in Workers |-> NoFence]
  /\ replay = Null
  /\ sweep = Idle
  /\ purge = Idle

-----------------------------------------------------------------------------
\* The transaction's time: CURRENT_TIMESTAMP when it began.
Readings == {t \in Times : clock - Lag <= t /\ t <= clock}

SlotIds == {<<c, n>> : c \in Classes, n \in 1 .. MaxSlots}

\* The slots of sl that operation o holds.
SlotsOf(sl, o) == {k \in SlotIds : sl[k[1]][k[2]].op = o}

Ended(row, state, code, now) ==
  [row EXCEPT !.state = state, !.code = code, !.purge = now + Retention]

Vacated(c, n) == IF n > config.active[c] THEN NoSlot ELSE FreeSlot

\* The slots of the operations are cleared; free slots above the limit go.
ReleaseSlots(sl, ids) ==
  [c \in Classes |-> [n \in 1 .. MaxSlots |->
     IF sl[c][n].op \in ids \/ (sl[c][n].present /\ sl[c][n].op = Null)
     THEN Vacated(c, n) ELSE sl[c][n]]]

ExpireQueued(rs, now) ==
  [o \in Ops |-> IF rs[o].state = "queued" /\ rs[o].deadline <= now
                 THEN Ended(rs[o], "retryable", "queue_wait_expired", now) ELSE rs[o]]

\* The operations with a slot whose lease has run out.
LeaseOver(sl, now) == {o \in Ops : \E k \in SlotsOf(sl, o) : sl[k[1]][k[2]].expires <= now}

\* The scanned operations are processed: the lease is read again under the row
\* lock; a row that no longer runs only gives up its slots.
Swept(ids, now) == {o \in ids : ops[o].state # "running" \/ o \in LeaseOver(slots, now)}

ExpireLeases(rs, ids, now) ==
  [o \in Ops |-> IF o \in ids /\ rs[o].state = "running"
                 THEN Ended(rs[o], "retryable", "execution_lease_expired", now) ELSE rs[o]]

\* The rows and the slots after both sweeps at the head of a submission or claim.
SweptOps(now) == ExpireLeases(ExpireQueued(ops, now), LeaseOver(slots, now), now)

SweptSlots(now) ==
  IF LeaseOver(slots, now) = {} THEN slots ELSE ReleaseSlots(slots, LeaseOver(slots, now))

\* The row that an open replay transaction has locked.
KeyHolders(r) == {o \in Ops : /\ ops[o].state \notin {"absent", "purged"}
                              /\ ops[o].owner = r.owner
                              /\ r.key # NoKey
                              /\ ops[o].key = r.key}

Locked == IF replay = Null THEN {} ELSE KeyHolders(replay)

\* No row that the sweeps at time now would lock is locked by somebody else.
SweepsFree(now) ==
  \A o \in Locked : o \notin LeaseOver(slots, now) /\ ExpireQueued(ops, now)[o] = ops[o]

-----------------------------------------------------------------------------
Tick ==
  /\ clock < MaxTime
  /\ clock' = clock + 1
  /\ UNCHANGED <<config, bound, written, ops, slots, submissions, held, replay, sweep, purge>>

\* configure, committed: limits are replaced, missing slots are inserted and free
\* slots above the limit deleted.  bind_configs follows in some instances only.
Configure(cfg) ==
  /\ written < MaxConfigure
  /\ cfg # config
  /\ written' = written + 1
  /\ config' = cfg
  /\ slots' = [c \in Classes |-> [n \in 1 .. MaxSlots |->
                 IF slots[c][n].op # Null THEN slots[c][n]
                 ELSE IF n <= cfg.active[c] THEN FreeSlot ELSE NoSlot]]
  /\ UNCHANGED <<clock, bound, ops, submissions, held, replay, sweep, purge>>

\* bind_configs: an instance publishes the committed configuration to itself.
BindConfigs ==
  /\ config \notin bound
  /\ bound' = bound \cup {config}
  /\ UNCHANGED <<clock, config, written, ops, slots, submissions, held, replay, sweep, purge>>

\* _lock_request_identities: two transactions on one submission or one key wait.
IdentityFree(r) ==
  replay # Null =>
    /\ replay.submission # r.submission
    /\ replay.owner # r.owner \/ replay.key # r.key

Recorded(r, status, o, code, now) ==
  submissions' = [submissions EXCEPT ![r.submission] =
                    [status |-> status, op |-> o, code |-> code, purge |-> now + Retention]]

\* A new submission finds its idempotency key taken and locks that row.
OpenReplay(r) ==
  /\ replay = Null
  /\ submissions[r.submission].status = "none"
  /\ KeyHolders(r) # {}
  /\ replay' = r
  /\ UNCHANGED <<clock, config, bound, written, ops, slots, submissions, held, sweep, purge>>

\* The same work is accepted as a replay; different work under the key is refused.
CloseReplay ==
  /\ replay # Null
  /\ \E now \in Readings, o \in KeyHolders(replay) :
       IF ops[o].class = replay.class /\ ops[o].input = replay.input
       THEN Recorded(replay, "accepted", o, "", now)
       ELSE Recorded(replay, "refused", Null, "idempotency_conflict", now)
  /\ replay' = Null
  /\ UNCHANGED <<clock, config, bound, written, ops, slots, held, sweep, purge>>

\* The numbers of the free slots of class c that an instance bound to cfg selects from.
FreeNumbers(sl, cfg, c) ==
  {n \in 1 .. MaxSlots : n <= cfg.active[c] /\ sl[c][n].present /\ sl[c][n].op = Null}

SlotsFree(sl, cfg, c) == \A d \in Chain[c] : FreeNumbers(sl, cfg, d) # {}

\* One free slot in every class of the chain, the lowest number first.
Occupied(sl, cfg, c, o, token, expires) ==
  [d \in Classes |->
     IF d \in Chain[c]
     THEN [sl[d] EXCEPT ![Min(FreeNumbers(sl, cfg, d))] =
             [present |-> TRUE, op |-> o, token |-> token, expires |-> expires]]
     ELSE sl[d]]

InState(rs, c, state) == {o \in Ops : rs[o].class = c /\ rs[o].state = state}

QueueRoom(rs, cfg, c) == Cardinality(InState(rs, c, "queued")) < cfg.queue[c]

\* submit_retry: the parent is still retained and retryable, for the same work.
RetryAllowed(r, now) ==
  LET p == ops[r.parent]
  IN  /\ p.state = "retryable"
      /\ p.owner = r.owner
      /\ p.purge > now
      /\ p.class = r.class
      /\ p.key # NoKey
      /\ p.input = r.input

\* The per-user check of voice_interactive.
VoiceFull(rs, r) ==
  /\ r.class \in VoiceClasses
  /\ Cardinality({o \in InState(rs, r.class, "running") : rs[o].owner = r.owner}) >= VoiceLimit

NewRow(r, state, now, deadline) ==
  [state |-> state, class |-> r.class, owner |-> r.owner, key |-> r.key, input |-> r.input,
   parent |-> r.parent, gen |-> IF state = "running" THEN 1 ELSE 0, accepted |-> now,
   deadline |-> deadline, cancel |-> FALSE, code |-> "", purge |-> 0]

\* submit and submit_retry of a new identity, by an instance bound to cfg: expired
\* queue entries and leases are swept, then the work runs, waits or is refused.
Submit(r, o, cfg) ==
  /\ clock <= Horizon
  /\ submissions[r.submission].status = "none"
  /\ KeyHolders(r) = {}
  /\ IdentityFree(r)
  /\ ops[o].state = "absent"
  /\ \E now \in Readings :
       LET rs     == SweptOps(now)
           sl     == SweptSlots(now)
           free   == SlotsFree(sl, cfg, r.class)
           Refuse == /\ Recorded(r, "refused", Null, "capacity_exceeded", now)
                     /\ ops' = rs
                     /\ slots' = sl
       IN  /\ SweepsFree(now)
           /\ r.parent # Null => r.parent \notin Locked /\ RetryAllowed(r, now)
           /\ CASE VoiceFull(rs, r) -> Refuse
                [] ~VoiceFull(rs, r) /\ free ->
                     /\ ops' = [rs EXCEPT ![o] = NewRow(r, "running", now, 0)]
                     /\ slots' = Occupied(sl, cfg, r.class, o, "marker", now + SlotLease)
                     /\ Recorded(r, "accepted", o, "", now)
                [] ~VoiceFull(rs, r) /\ ~free /\ QueueRoom(rs, cfg, r.class) ->
                     /\ cfg.wait[r.class] > 0
                     /\ ops' = [rs EXCEPT ![o] =
                                  NewRow(r, "queued", now, now + cfg.wait[r.class])]
                     /\ slots' = sl
                     /\ Recorded(r, "accepted", o, "", now)
                [] OTHER -> Refuse
  /\ UNCHANGED <<clock, config, bound, written, held, replay, sweep, purge>>

-----------------------------------------------------------------------------
\* accepted_at, operation_id
Before(rs, o, p) ==
  rs[o].accepted < rs[p].accepted \/ (rs[o].accepted = rs[p].accepted /\ o < p)

\* Mutant: the newest first.
FirstNewest(rs, S) == CHOOSE o \in S : \A p \in S \ {o} : Before(rs, p, o)

First(rs, S) == CHOOSE o \in S : \A p \in S \ {o} : Before(rs, o, p)

MarkerSlots(sl, o) == {k \in SlotsOf(sl, o) : sl[k[1]][k[2]].token = "marker"}

\* Operations admitted to a slot by submit and not yet handed to a worker.
Preselected(rs, sl, c) ==
  {o \in InState(rs, c, "running") : ~rs[o].cancel /\ \E k \in MarkerSlots(sl, o) : k[1] = c}

Restamped(sl, ids, token, expires) ==
  [c \in Classes |-> [n \in 1 .. MaxSlots |->
     IF <<c, n>> \in ids
     THEN [present |-> sl[c][n].present, op |-> sl[c][n].op, token |-> token, expires |-> expires]
     ELSE sl[c][n]]]

\* Mutant: the markers stay.
ClaimPreselectedKeepsMarkers(w, rs, sl, o, now) ==
  /\ Cardinality(MarkerSlots(sl, o)) = Cardinality(Chain[rs[o].class])
  /\ ops' = rs
  /\ slots' = Restamped(sl, MarkerSlots(sl, o), "marker", now + SlotLease)
  /\ held' = [held EXCEPT ![w] = [op |-> o, gen |-> rs[o].gen]]

\* Every marker is replaced, so nobody is handed the operation again; an
\* incomplete set of markers raises and the transaction rolls back.
ClaimPreselected(w, rs, sl, o, now) ==
  /\ Cardinality(MarkerSlots(sl, o)) = Cardinality(Chain[rs[o].class])
  /\ ops' = rs
  /\ slots' = Restamped(sl, MarkerSlots(sl, o), "common", now + SlotLease)
  /\ held' = [held EXCEPT ![w] = [op |-> o, gen |-> rs[o].gen]]

\* Each slot gets a token of its own (_occupy_slots without a lease_token).
ClaimQueued(w, cfg, rs, sl, o, now) ==
  IF SlotsFree(sl, cfg, rs[o].class)
  THEN /\ ops' = [rs EXCEPT ![o] = [rs[o] EXCEPT !.state = "running", !.gen = rs[o].gen + 1]]
       /\ slots' = Occupied(sl, cfg, rs[o].class, o, "own", now + SlotLease)
       /\ held' = [held EXCEPT ![w] = [op |-> o, gen |-> rs[o].gen + 1]]
  ELSE /\ ops' = rs
       /\ slots' = sl
       /\ UNCHANGED held

\* claim_next: the oldest preselected operation, else the oldest queued one; rows
\* that another transaction has locked are skipped.
ClaimNext(w, c, cfg) ==
  /\ clock <= Horizon
  /\ held[w] = NoFence
  /\ \E now \in Readings :
       LET rs    == SweptOps(now)
           sl    == SweptSlots(now)
           ready == Preselected(rs, sl, c) \ Locked
           queue == InState(rs, c, "queued") \ Locked
       IN  /\ SweepsFree(now)
           /\ CASE ready # {} -> ClaimPreselected(w, rs, sl, First(rs, ready), now)
                [] ready = {} /\ queue # {} -> ClaimQueued(w, cfg, rs, sl, First(rs, queue), now)
                [] OTHER -> ops' = rs /\ slots' = sl /\ UNCHANGED held
  /\ UNCHANGED <<clock, config, bound, written, submissions, replay, sweep, purge>>

\* claim_operation: this operation, if it is preselected or the head of the queue.
ClaimOperation(w, o, cfg) ==
  /\ clock <= Horizon
  /\ held[w] = NoFence
  /\ o \notin Locked
  /\ ops[o].state \notin {"absent", "purged"}
  /\ \E now \in Readings :
       LET rs    == SweptOps(now)
           sl    == SweptSlots(now)
           c     == ops[o].class
           queue == InState(rs, c, "queued")
       IN  /\ SweepsFree(now)
           /\ CASE o \in Preselected(rs, sl, c) -> ClaimPreselected(w, rs, sl, o, now)
                [] o \in queue /\ o = First(rs, queue) -> ClaimQueued(w, cfg, rs, sl, o, now)
                [] OTHER -> ops' = rs /\ slots' = sl /\ UNCHANGED held
  /\ UNCHANGED <<clock, config, bound, written, submissions, replay, sweep, purge>>

\* _fence_matches
FenceMatches(f) == f # NoFence /\ ops[f.op].state = "running" /\ ops[f.op].gen = f.gen

HoldsChain(o) == Cardinality(SlotsOf(slots, o)) = Cardinality(Chain[ops[o].class])

\* renew_execution_lease: all slots get one new token and a new expiry.
RenewExecutionLease(w) ==
  LET o == held[w].op
  IN  /\ clock <= Horizon
      /\ FenceMatches(held[w])
      /\ o \notin Locked
      /\ HoldsChain(o)
      /\ \E now \in Readings :
           slots' = Restamped(slots, SlotsOf(slots, o), "common", now + SlotLease)
      /\ UNCHANGED <<clock, config, bound, written, ops, submissions, held, replay, sweep, purge>>

\* reselect_execution: worker v continues the execution under a new fence and the
\* fence of w is dead.
ReselectExecution(w, v) ==
  LET o == held[w].op
  IN  /\ clock <= Horizon
      /\ FenceMatches(held[w])
      /\ v = w \/ held[v] = NoFence
      /\ o \notin Locked
      /\ ops[o].gen < MaxGeneration
      /\ HoldsChain(o)
      /\ ops' = [ops EXCEPT ![o] = [ops[o] EXCEPT !.gen = ops[o].gen + 1]]
      /\ \E now \in Readings :
           slots' = Restamped(slots, SlotsOf(slots, o), "common", now + SlotLease)
      /\ held' = [held EXCEPT ![v] = [op |-> o, gen |-> ops[o].gen + 1]]
      /\ UNCHANGED <<clock, config, bound, written, submissions, replay, sweep, purge>>

\* Mutant: the slots are not released.
TerminalizeKeepsSlots(w, state) ==
  LET o == held[w].op
  IN  /\ FenceMatches(held[w])
      /\ o \notin Locked
      /\ \E now \in Readings : ops' = [ops EXCEPT ![o] = Ended(ops[o], state, "host", now)]
      /\ slots' = slots
      /\ UNCHANGED <<clock, config, bound, written, submissions, held, replay, sweep, purge>>

\* terminalize: a terminal row is returned as it is, a stale fence raises, and the
\* current fence ends the execution and gives back its slots.
Terminalize(w, state) ==
  LET o == held[w].op
  IN  /\ FenceMatches(held[w])
      /\ o \notin Locked
      /\ \E now \in Readings : ops' = [ops EXCEPT ![o] = Ended(ops[o], state, "host", now)]
      /\ slots' = ReleaseSlots(slots, {o})
      /\ UNCHANGED <<clock, config, bound, written, submissions, held, replay, sweep, purge>>

\* A worker lets go of its fence, finished, refused or dead.
Drop(w) ==
  /\ held[w] # NoFence
  /\ held' = [held EXCEPT ![w] = NoFence]
  /\ UNCHANGED <<clock, config, bound, written, ops, slots, submissions, replay, sweep, purge>>

\* All slots of the chain still carry the marker of submit.
AllMarkers(o) == HoldsChain(o) /\ MarkerSlots(slots, o) = SlotsOf(slots, o)

\* cancel: work that no worker has is cancelled at once, running work is asked to
\* stop and keeps its slots.
Cancel(o) ==
  /\ ops[o].state \in {"queued", "running"}
  /\ ~ops[o].cancel
  /\ o \notin Locked
  /\ \E now \in Readings :
       IF ops[o].state = "queued" \/ AllMarkers(o)
       THEN /\ ops' = [ops EXCEPT ![o] = Ended([ops[o] EXCEPT !.cancel = TRUE], "cancelled", "host", now)]
            /\ slots' = ReleaseSlots(slots, {o})
       ELSE /\ ops' = [ops EXCEPT ![o] = [ops[o] EXCEPT !.cancel = TRUE]]
            /\ UNCHANGED slots
  /\ UNCHANGED <<clock, config, bound, written, submissions, held, replay, sweep, purge>>

\* terminalize_unselected: work that no worker has becomes retryable.
TerminalizeUnselected(o) ==
  /\ o \notin Locked
  /\ \/ ops[o].state = "queued"
     \/ ops[o].state = "running" /\ ~ops[o].cancel /\ AllMarkers(o)
  /\ \E now \in Readings : ops' = [ops EXCEPT ![o] = Ended(ops[o], "retryable", "host", now)]
  /\ slots' = ReleaseSlots(slots, {o})
  /\ UNCHANGED <<clock, config, bound, written, submissions, held, replay, sweep, purge>>

\* expire_queued
ExpireQueuedStep ==
  /\ \E now \in Readings :
       /\ \A o \in Locked : ExpireQueued(ops, now)[o] = ops[o]
       /\ ops' = ExpireQueued(ops, now)
  /\ ops' # ops
  /\ UNCHANGED <<clock, config, bound, written, slots, submissions, held, replay, sweep, purge>>

\* expire_execution_leases reads the expired slots without a lock ...
OpenSweep ==
  /\ sweep = Idle
  /\ \E now \in Readings :
       /\ LeaseOver(slots, now) # {}
       /\ sweep' = [ids |-> LeaseOver(slots, now), now |-> now]
  /\ UNCHANGED <<clock, config, bound, written, ops, slots, submissions, held, replay, purge>>

\* Mutant: the slots are not released.
CloseSweepKeepsSlots ==
  LET ids == Swept(sweep.ids, sweep.now)
  IN  /\ sweep # Idle
      /\ sweep.ids \cap Locked = {}
      /\ ops' = ExpireLeases(ops, ids, sweep.now)
      /\ slots' = slots
      /\ sweep' = Idle
      /\ UNCHANGED <<clock, config, bound, written, submissions, held, replay, purge>>

\* ... and locks and reads again every operation it found.
CloseSweep ==
  LET ids == Swept(sweep.ids, sweep.now)
  IN  /\ sweep # Idle
      /\ sweep.ids \cap Locked = {}
      /\ ops' = ExpireLeases(ops, ids, sweep.now)
      /\ slots' = IF ids = {} THEN slots ELSE ReleaseSlots(slots, ids)
      /\ sweep' = Idle
      /\ UNCHANGED <<clock, config, bound, written, submissions, held, replay, purge>>

-----------------------------------------------------------------------------
\* The choices of the first PurgeLimit members of S in the order of due.
FirstDue(due, S) ==
  {T \in SUBSET S : /\ Cardinality(T) = Min({PurgeLimit, Cardinality(S)})
                    /\ \A x \in T, y \in S \ T : due[x] <= due[y]}

PurgeableOp(o, now) == ops[o].state \in Terminal /\ ops[o].purge < now

PurgeableSubmissions(now) ==
  {s \in SubmissionIds :
     /\ submissions[s].status # "none"
     /\ submissions[s].purge < now
     /\ \/ submissions[s].status = "refused"
        \/ submissions[s].op = Null
        \/ PurgeableOp(submissions[s].op, now)}

Referenced(subs, o) == \E s \in SubmissionIds : subs[s].status = "accepted" /\ subs[s].op = o

\* purge_expired deletes expired submission results and selects the operations
\* that no result refers to ...
OpenPurge ==
  /\ purge = Idle
  /\ \E now \in Readings :
     \E gone \in FirstDue([s \in SubmissionIds |-> submissions[s].purge],
                          PurgeableSubmissions(now)) :
     LET subs == [s \in SubmissionIds |-> IF s \in gone THEN NoSubmission ELSE submissions[s]]
         left == {o \in Ops \ Locked : PurgeableOp(o, now) /\ ~Referenced(subs, o)}
     IN  \E ids \in FirstDue([o \in Ops |-> ops[o].purge], left) :
           /\ gone # {} \/ ids # {}
           /\ submissions' = subs
           /\ purge' = IF ids = {} THEN Idle ELSE [ids |-> ids, now |-> now]
  /\ UNCHANGED <<clock, config, bound, written, ops, slots, held, replay, sweep>>

\* Mutant: references are not read again.
ClosePurgeUnchecked ==
  LET gone == purge.ids
  IN  /\ purge # Idle
      /\ purge.ids \cap Locked = {}
      /\ ops' = [o \in Ops |->
                   IF o \in gone THEN [ops[o] EXCEPT !.state = "purged"]
                   ELSE IF ops[o].parent \in gone THEN [ops[o] EXCEPT !.parent = Null] ELSE ops[o]]
      /\ submissions' = [s \in SubmissionIds |->
                           IF submissions[s].op \in gone THEN [submissions[s] EXCEPT !.op = Null]
                           ELSE submissions[s]]
      /\ purge' = Idle
      /\ UNCHANGED <<clock, config, bound, written, slots, held, replay, sweep>>

\* ... and deletes those that still have none.  References to a deleted row become NULL.
ClosePurge ==
  LET gone == {o \in purge.ids : ~Referenced(submissions, o)}
  IN  /\ purge # Idle
      /\ purge.ids \cap Locked = {}
      /\ ops' = [o \in Ops |->
                   IF o \in gone THEN [ops[o] EXCEPT !.state = "purged"]
                   ELSE IF ops[o].parent \in gone THEN [ops[o] EXCEPT !.parent = Null] ELSE ops[o]]
      /\ submissions' = [s \in SubmissionIds |->
                           IF submissions[s].op \in gone THEN [submissions[s] EXCEPT !.op = Null]
                           ELSE submissions[s]]
      /\ purge' = Idle
      /\ UNCHANGED <<clock, config, bound, written, slots, held, replay, sweep>>

Next ==
  \/ Tick
  \/ \E cfg \in Configs : Configure(cfg)
  \/ BindConfigs
  \/ \E r \in Requests : OpenReplay(r)
  \/ CloseReplay
  \/ \E r \in Requests, o \in Ops, cfg \in bound : Submit(r, o, cfg)
  \/ \E w \in Workers, c \in Classes, cfg \in bound : ClaimNext(w, c, cfg)
  \/ \E w \in Workers, o \in Ops, cfg \in bound : ClaimOperation(w, o, cfg)
  \/ \E w \in Workers : RenewExecutionLease(w)
  \/ \E w, v \in Workers : ReselectExecution(w, v)
  \/ \E w \in Workers, state \in Outcomes : Terminalize(w, state)
  \/ \E w \in Workers : Drop(w)
  \/ \E o \in Ops : Cancel(o)
  \/ \E o \in Ops : TerminalizeUnselected(o)
  \/ ExpireQueuedStep
  \/ OpenSweep
  \/ CloseSweep
  \/ OpenPurge
  \/ ClosePurge

Spec == Init /\ [][Next]_vars

\* The host's maintenance loop keeps calling the expiries, open transactions end
\* and time passes.
LiveSpec ==
  /\ Spec
  /\ WF_vars(Tick)
  /\ WF_vars(CloseReplay)
  /\ WF_vars(ExpireQueuedStep)
  /\ WF_vars(OpenSweep)
  /\ WF_vars(CloseSweep)

-----------------------------------------------------------------------------
\* Capacity is in custody of running work: a running operation holds exactly one
\* slot in every class of its chain, and nothing else holds a slot (_occupy_slots,
\* _release_slots and every path that ends an execution).
CapacityCustody ==
  \A o \in Ops :
    IF ops[o].state = "running"
    THEN /\ \A c \in Chain[ops[o].class] : Cardinality({n \in 1 .. MaxSlots : slots[c][n].op = o}) = 1
         /\ \A k \in SlotsOf(slots, o) : k[1] \in Chain[ops[o].class]
    ELSE SlotsOf(slots, o) = {}

\* The slot table follows the committed configuration: a slot exists if and only if
\* it is within the limit or still occupied, so an instance bound to an older
\* configuration cannot admit above the committed limit (configure, _release_slots).
SlotTableExact ==
  \A c \in Classes, n \in 1 .. MaxSlots :
    slots[c][n].present <=> (n <= config.active[c] \/ slots[c][n].op # Null)

\* At most one worker has the current fence of an operation (the marker handed over
\* by claim_next and claim_operation, the new fence of reselect_execution).
ExclusiveExecution ==
  \A w, v \in Workers :
    w # v /\ FenceMatches(held[w]) /\ FenceMatches(held[v]) => held[w].op # held[v].op

\* A cancellation that is only requested is known to a worker: work still waiting
\* for a worker is cancelled at once and never handed out (cancel, claim_next).
CancelReachesWorker ==
  \A o \in Ops : ops[o].state = "running" /\ ops[o].cancel => MarkerSlots(slots, o) = {}

\* One user's running voice work stays within the per-user limit (submit).
VoicePerUser ==
  \A o \in Ops : ops[o].state = "running" /\ ops[o].class \in VoiceClasses =>
    Cardinality({p \in InState(ops, ops[o].class, "running") : ops[p].owner = ops[o].owner})
      <= VoiceLimit

\* No class has more queued work than some bound configuration allows (submit).
QueueBounded ==
  \A c \in Classes : \E cfg \in bound : Cardinality(InState(ops, c, "queued")) <= cfg.queue[c]

\* An accepted submission can be answered: its operation is still there as long as
\* the result is (purge_expired against a concurrent replay; reconcile_submission).
AcceptedAnswerable ==
  \A s \in SubmissionIds : submissions[s].status = "accepted" =>
    submissions[s].op # Null /\ ops[submissions[s].op].state \notin {"absent", "purged"}

\* One operation per owner and idempotency key (_lock_request_identities).
OneOperationPerKey ==
  \A o, p \in Ops :
    /\ o # p
    /\ ops[o].key # NoKey
    /\ {ops[o].state, ops[p].state} \cap {"absent", "purged"} = {}
    => ops[o].owner # ops[p].owner \/ ops[o].key # ops[p].key

\* A retryable operation is retried at most once, even after its retry was purged
\* (submit_retry, _retry_capture, purge_expired).
RetriedOnce ==
  \A o, p \in Ops : ops[o].key.kind = "retry" /\ ops[o].key = ops[p].key => o = p

\* A terminal operation only leaves the table: its outcome is never rewritten and
\* it never runs again (terminalize, cancel, the sweeps and the claims).
OutcomesKept ==
  \A o \in Ops : ops[o].state \in Terminal =>
    \/ ops'[o].state = "purged"
    \/ [ops'[o] EXCEPT !.parent = Null] = [ops[o] EXCEPT !.parent = Null]

\* A recorded submission result is immutable until retention removes it (submit).
ResultsKept ==
  \A s \in SubmissionIds :
    submissions[s].status # "none" => submissions'[s] \in {submissions[s], NoSubmission}

\* Queued work of a class starts in order of acceptance, except past a row that
\* another transaction has locked (claim_next, claim_operation).
StartsInOrder ==
  \A o, p \in Ops :
    /\ ops[o].state = "queued"
    /\ ops'[o].state = "running"
    /\ ops'[p].state = "queued"
    /\ ops[p].class = ops[o].class
    /\ p \notin Locked
    => ~Before(ops, p, o)

QueueInOrder == [][StartsInOrder]_vars

\* An execution that was not asked to stop and whose lease runs has one coherent
\* token on its slots, so assert_current_execution_lease accepts its fence.
LeaseCoherent ==
  \A w \in Workers :
    /\ FenceMatches(held[w])
    /\ ~ops[held[w].op].cancel
    /\ held[w].op \notin LeaseOver(slots, clock)
    => \A k \in SlotsOf(slots, held[w].op) :
         Cardinality(SlotsOf(slots, held[w].op)) = 1 \/ slots[k[1]][k[2]].token # "own"

\* Queued work does not wait for ever (expire_queued and the queue deadline).
QueuedLeaves == \A o \in Ops : ops[o].state = "queued" ~> ops[o].state # "queued"

\* Capacity of a silent worker comes back (slot leases and their sweep).
CapacityReturns == \A o \in Ops : SlotsOf(slots, o) # {} ~> SlotsOf(slots, o) = {}

=============================================================================
