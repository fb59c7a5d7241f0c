---------------------------- MODULE Assignments ----------------------------
(***************************************************************************)
(* One assignment of one owner, as repositories/assignments.py keeps it:   *)
(* the controls of its owner, the claims of its workers, the ledger of its *)
(* external actions with their attempts and their budget, its tasks, its   *)
(* source events and event waits, and the recovery of expired claims.      *)
(* Every method runs in a transaction that locks the row, so each is one   *)
(* step; a call that the code refuses is no step.  Workers keep the fence  *)
(* of every claim they were ever given and may use it late.                *)
(*                                                                         *)
(* A time is a tick and the n-th retry delay is n ticks.  Every action     *)
(* reserves one unit of the budget.  The state version, which only refuses *)
(* callers that did not read the row last, and receipts of commands that   *)
(* the control epoch already makes once, are left out.                     *)
(***************************************************************************)
EXTENDS Integers, Sequences, FiniteSets, SequencesExt, FiniteSetsExt

CONSTANTS
  Null,
  OneShot,          \* the profile: one_shot, or persistent
  Guarded,          \* workers call the ..._for_execution forms
  Actions,          \* keys of external actions
  KindOf,           \* Actions -> ordinary | sensitive | interactive
  Boundary,         \* Actions -> read_only | downstream_key | unreplayable
  TaskOf, EventOf,  \* Actions -> its task or event, or Null
  Tasks, Deps,      \* tasks of a plan and what each depends on
  Plans,            \* sets of tasks that a plan may install
  Events, Batches,  \* source events, and batches [from, to, events]
  Controls,         \* controls the owner uses
  Phases,           \* phases with which an episode may end
  Outcomes, Costs,  \* what a dispatched action may report
  Revisions,        \* revisions of the event that is waited for
  Guidance,         \* whether guidance is selected: subset of {"none", "bound"}
  Limit, MaxRetries, MaxRunning, Lease, ApprovalEnds, AuthorityEnds, Deadline,
  MaxTime, MaxGen, MaxEpoch

VARIABLES
  clock,
  env,     \* the owner's state, the original session, the selected guidance
  row,     \* the assignment row
  fence,   \* the fence of each claim generation
  acts,    \* the action ledger
  usage,   \* reserved and charged units
  tasks, events,
  props    \* the remote proposals linked to interactive actions

vars == <<clock, env, row, fence, acts, usage, tasks, events, props>>

-----------------------------------------------------------------------------
Terminal == {"stopped", "completed"}
Live == {"reserved", "started", "uncertain"}
Begun == {"started", "uncertain"}
Unstarted == {"ready", "proposed", "approved", "reserved"}
Undecided == {"proposed", "approved"}
HoldPhases == {"waiting_authorization", "awaiting_event", "waiting_approval", "budget_exhausted"}

\* create_assignment and create_operation leave an active assignment that is due.
Init ==
  /\ clock = 0
  /\ env \in [owner : {"active"}, session : {TRUE}, guidance : Guidance]
  /\ row = [exists |-> TRUE, life |-> "active", phase |-> "waiting", rev |-> 1, epoch |-> 1,
            token |-> Null, lease |-> Null, bound |-> FALSE, approved |-> Null,
            wake |-> 0, retry |-> Null, woken |-> TRUE, failures |-> 0, wait |-> Null, mark |-> 0,
            grant |-> TRUE, checked |-> Null, cursor |-> 0, batches |-> {}, plans |-> {}]
  /\ fence = <<>>
  /\ acts = [a \in Actions |-> [state |-> "none", rev |-> 0, epoch |-> 0, decided |-> Null,
                                consumed |-> FALSE, admitted |-> Null, tries |-> <<>>,
                                recon |-> Null, link |-> FALSE]]
  /\ usage = [out |-> 0, spent |-> 0]
  /\ tasks = [t \in Tasks |-> [state |-> "none", by |-> Null, attempts |-> 0, inc |-> FALSE]]
  /\ events = [e \in Events |-> "none"]
  /\ props = [a \in Actions |-> "none"]

Tick == /\ clock < MaxTime /\ clock' = clock + 1
        /\ UNCHANGED <<env, row, fence, acts, usage, tasks, events, props>>

-----------------------------------------------------------------------------
(* What the methods ask of the row. *)

\* The guidance references belong to the first instruction revision.
GuidanceCurrent(r) == env.guidance = "none" \/ (env.guidance = "bound" /\ r.rev = 1)

InTime == clock < AuthorityEnds /\ clock < Deadline

Continuation(r) == GuidanceCurrent(r) /\ r.phase # "waiting_authorization" /\ InTime

\* Mutant: the expiry of the lease is not looked at.
FencedUntimed(g, action) ==
  /\ row.exists /\ row.life = "active"
  /\ row.rev = fence[g].rev /\ row.epoch = fence[g].epoch
  /\ row.token = g /\ row.lease # Null
  /\ row.approved # Null => row.approved = action
  /\ OneShot => InTime

\* A fence is good only for the claim it was issued with.
Fenced(g, action) ==
  /\ row.exists /\ row.life = "active"
  /\ row.rev = fence[g].rev /\ row.epoch = fence[g].epoch
  /\ row.token = g /\ row.lease # Null /\ row.lease > clock
  /\ row.approved # Null => row.approved = action
  /\ OneShot => InTime

ClearClaim(r) == [r EXCEPT !.token = Null, !.lease = Null, !.bound = FALSE, !.approved = Null]

NeedsApproval(a) == KindOf[a] # "ordinary"

\* A reconciled attempt vouches for itself only while it is the last one.
Reconciled(c, i) ==
  /\ c.recon # Null /\ i = Len(c.tries)
  /\ c.state = c.tries[i].state
  /\ c.state = IF c.recon = "applied" THEN "succeeded" ELSE "failed_not_started"

\* The evidence of an action is coherent: an issued permit has an outcome or is open.
Known(c) ==
  \A i \in DOMAIN c.tries :
    c.tries[i].token /\ c.tries[i].state \notin Begun /\ c.tries[i].out \in {Null, "uncertain"}
      => Reconciled(c, i)

Retained(as, us, ts) ==
  \/ \E a \in Actions : \/ ~Known(as[a]) \/ as[a].state \in Live
                        \/ \E i \in DOMAIN as[a].tries : as[a].tries[i].state \in Live
  \/ us.out > 0
  \/ \E t \in Tasks : ts[t].state = "reconciliation"

ContinuationHeld(as, us, ts) ==
  Retained(as, us, ts) \/ \E a \in Actions : Known(as[a]) /\ as[a].state \in Undecided

-----------------------------------------------------------------------------
(* What several methods do to the ledger and to the tasks. *)

WithTry(c, i, state) == [c EXCEPT !.tries[i].state = state]

\* Reserved attempts are given back: none of them was dispatched.
GivenBack(c) ==
  [c EXCEPT !.tries = [i \in DOMAIN c.tries |->
     IF c.tries[i].state = "reserved"
     THEN [c.tries[i] EXCEPT !.state = "failed_not_started"] ELSE c.tries[i]]]

IsBegun(c, conservative) ==
  \/ conservative /\ ~Known(c)
  \/ c.state \in Begun
  \/ \E i \in DOMAIN c.tries : c.tries[i].state \in Begun

Invalidates(c, conservative) == ~IsBegun(c, conservative) /\ c.state \in Unstarted

\* Mutant: the attempts of an invalidated action stay reserved.
InvalidatedOnly(as, conservative) ==
  [a \in Actions |-> IF Invalidates(as[a], conservative)
                     THEN [as[a] EXCEPT !.state = "invalidated"] ELSE as[a]]

Invalidated(as, conservative) ==
  [a \in Actions |-> IF Invalidates(as[a], conservative)
                     THEN [GivenBack(as[a]) EXCEPT !.state = "invalidated"] ELSE as[a]]

ProposalsExpired(ps, gone) ==
  [a \in Actions |-> IF a \in gone /\ acts[a].link /\ ps[a] \in {"pending", "approved"}
                     THEN "expired" ELSE ps[a]]

\* The budget after the attempts that left the live states were released.
Released(us, old, new) ==
  [us EXCEPT !.out = @ - Cardinality({p \in Actions \X (1 .. MaxRetries + 1) :
     /\ p[2] \in DOMAIN old[p[1]].tries
     /\ old[p[1]].tries[p[2]].state \in Live
     /\ new[p[1]].tries[p[2]].state \notin Live})]

Requeued(ts, from, to) ==
  [t \in Tasks |-> IF ts[t].state \in from THEN [ts[t] EXCEPT !.state = to, !.by = Null] ELSE ts[t]]

Open == {"pending", "running"}

\* A failed operation with no retry ends, unless something is still owed.
TerminalFailure(r, as, us, ts) ==
  IF r.phase # "failed" \/ r.wake # Null THEN [row |-> r, tasks |-> ts]
  ELSE IF ContinuationHeld(as, us, ts)
       THEN [row |-> [r EXCEPT !.phase = "reconciliation"], tasks |-> ts]
       ELSE [row |-> [r EXCEPT !.life = "completed"], tasks |-> Requeued(ts, Open, "cancelled")]

-----------------------------------------------------------------------------
(* Controls of the owner. *)

\* The row after the control's own branch.
Branch(k) ==
  CASE k = "revise" -> [row EXCEPT !.rev = @ + 1, !.cursor = 0, !.batches = {}, !.phase = "waiting",
                                   !.grant = TRUE, !.wait = Null]
    [] k = "resume" -> [row EXCEPT !.life = "active",
                                   !.phase = IF OneShot /\ @ \notin {"checking", "investigating", "delegating"}
                                             THEN @ ELSE "waiting"]
    [] k = "revoke" -> [row EXCEPT !.grant = FALSE, !.phase = "waiting_authorization"]
    [] k = "pause"  -> [row EXCEPT !.life = "paused"]
    [] k = "stop"   -> [row EXCEPT !.life = "stopped"]

RetryOnResume(k) == OneShot /\ k = "resume" /\ row.phase = "failed" /\ row.retry # Null

Controlled(k) ==
  LET r1 == Branch(k)
      r2 == ClearClaim([r1 EXCEPT !.epoch = @ + 1,
              !.wake = IF RetryOnResume(k) THEN Max({clock, row.retry})
                       ELSE IF r1.life = "active" /\ r1.phase = "waiting" THEN clock ELSE Null])
      as == Invalidated(acts, k = "stop")
      us == Released(usage, acts, as)
      ts == IF k = "revise" THEN Requeued(tasks, {tasks[t].state : t \in Tasks} \ {"none"}, "superseded")
                            ELSE tasks
      held == OneShot /\ ContinuationHeld(as, us, ts)
  IN [row |-> IF held THEN [r2 EXCEPT !.wake = Null, !.retry = Null,
                                      !.phase = IF @ \in HoldPhases THEN @ ELSE "reconciliation"]
                      ELSE r2,
      acts |-> as, usage |-> us,
      tasks |-> Requeued(ts, Open, IF k \in {"stop", "revise"} THEN "cancelled" ELSE "pending"),
      events |-> [e \in Events |-> IF k = "revise" /\ events[e] \in {"pending", "failed"}
                                   THEN "superseded" ELSE events[e]],
      props |-> ProposalsExpired(props, {a \in Actions : Invalidates(acts[a], k = "stop")})]

Control(k) ==
  /\ row.exists /\ row.life \notin Terminal /\ row.epoch < MaxEpoch
  /\ k \in {"revise", "resume"} =>
       /\ GuidanceCurrent(row)
       /\ OneShot => env.owner = "active" /\ Continuation(row)
  /\ k = "resume" => row.life = "paused" /\ (~OneShot => row.grant)
  /\ RetryOnResume(k) => Max({clock, row.retry}) < AuthorityEnds /\ Max({clock, row.retry}) < Deadline
  /\ LET n == Controlled(k)
     IN /\ row' = n.row /\ acts' = n.acts /\ usage' = n.usage
        /\ tasks' = n.tasks /\ events' = n.events /\ props' = n.props
  /\ UNCHANGED <<clock, env, fence>>

\* A skill, a note or the agent that was selected changed: the dependants are paused.
GuidanceChanges ==
  /\ env.guidance = "bound" /\ env' = [env EXCEPT !.guidance = "changed"]
  /\ IF row.exists /\ row.life \in {"active", "paused"}
     THEN LET as == Invalidated(acts, TRUE)
          IN /\ row.epoch < MaxEpoch
             /\ row' = [ClearClaim(row) EXCEPT !.epoch = @ + 1, !.life = "paused", !.wake = Null, !.retry = Null,
                          !.phase = IF @ \in HoldPhases \cup {"reconciliation"} THEN @
                                    ELSE IF \E a \in Actions : IsBegun(acts[a], TRUE)
                                         THEN "reconciliation" ELSE "waiting"]
             /\ acts' = as /\ usage' = Released(usage, acts, as)
             /\ tasks' = Requeued(tasks, Open, "pending")
             /\ props' = ProposalsExpired(props, {a \in Actions : Invalidates(acts[a], TRUE)})
     ELSE UNCHANGED <<row, acts, usage, tasks, props>>
  /\ UNCHANGED <<clock, fence, events>>

\* The session the operation was admitted with is rotated, revoked or deleted.
SessionEnds == /\ env.session /\ OneShot /\ env' = [env EXCEPT !.session = FALSE]
               /\ UNCHANGED <<clock, row, fence, acts, usage, tasks, events, props>>

-----------------------------------------------------------------------------
(* Event waits of one-shot operations, and checks of persistent assignments. *)

SetOwnerEventWait(v) ==
  /\ OneShot /\ row.exists /\ row.life \in {"active", "paused"} /\ row.epoch < MaxEpoch
  /\ ~(row.phase = "failed" /\ row.retry = Null)
  /\ v >= row.mark
  /\ LET as == Invalidated(acts, TRUE)
         us == Released(usage, acts, as)
         ts == Requeued(tasks, Open, "pending")
         held == Retained(as, us, ts) \/ row.phase = "reconciliation"
     IN /\ row' = [ClearClaim(row) EXCEPT !.epoch = @ + 1, !.wait = v, !.wake = Null, !.retry = Null,
                     !.phase = IF held THEN "reconciliation" ELSE "awaiting_event"]
        /\ acts' = as /\ usage' = us /\ tasks' = ts
        /\ props' = ProposalsExpired(props, {a \in Actions : Invalidates(acts[a], TRUE)})
  /\ UNCHANGED <<clock, env, fence, events>>

AcceptWake(v) ==
  /\ OneShot /\ row.exists /\ row.life = "active" /\ row.phase = "awaiting_event"
  /\ env.owner = "active" /\ Continuation(row)
  /\ row.wait # Null /\ v > row.wait /\ v > row.mark
  /\ row' = [row EXCEPT !.mark = v, !.wait = Null, !.phase = "waiting", !.wake = clock, !.woken = TRUE]
  /\ UNCHANGED <<clock, env, fence, acts, usage, tasks, events, props>>

RequestCheck ==
  /\ ~OneShot /\ row.exists /\ row.life = "active"
  /\ row' = [row EXCEPT !.woken = TRUE,
               !.wake = Max({clock} \cup (IF row.checked = Null THEN {} ELSE {row.checked + 1})
                                    \cup (IF row.retry = Null THEN {} ELSE {row.retry}))]
  /\ UNCHANGED <<clock, env, fence, acts, usage, tasks, events, props>>

-----------------------------------------------------------------------------
(* Claims. *)

Claimed(r, action) ==
  [r EXCEPT !.token = Len(fence) + 1, !.lease = clock + Lease, !.bound = FALSE, !.approved = action,
            !.woken = FALSE, !.phase = IF action = Null THEN "checking" ELSE "waiting_approval"]

Issue == Len(fence) < MaxGen /\ fence' = Append(fence, [rev |-> row.rev, epoch |-> row.epoch])

Claim ==
  /\ row.exists /\ row.life = "active" /\ row.phase \in {"waiting", "failed"} /\ row.lease = Null
  /\ row.wake # Null /\ row.wake <= clock
  /\ GuidanceCurrent(row)
  /\ OneShot => /\ env.owner = "active" /\ env.session /\ Continuation(row)
                /\ ~ContinuationHeld(acts, usage, tasks) /\ row.wait = Null
  /\ Issue /\ row' = Claimed(row, Null)
  /\ UNCHANGED <<clock, env, acts, usage, tasks, events, props>>

ApproveConditions(c, a) ==
  /\ row.life = "active" /\ c.rev = row.rev /\ c.epoch = row.epoch
  /\ NeedsApproval(a) => clock < ApprovalEnds

ClaimForApprovedAction(a) ==
  /\ row.exists /\ acts[a].state = "approved" /\ acts[a].admitted = Null /\ row.lease = Null
  /\ ApproveConditions(acts[a], a) /\ GuidanceCurrent(row)
  /\ OneShot => env.owner = "active" /\ env.session /\ Continuation(row)
  /\ Issue /\ row' = Claimed(row, a)
  /\ acts' = [acts EXCEPT ![a].admitted = Len(fence) + 1]
  /\ UNCHANGED <<clock, env, usage, tasks, events, props>>

BindOperation(g) ==
  /\ Fenced(g, row.approved) /\ ~row.bound /\ row' = [row EXCEPT !.bound = TRUE]
  /\ UNCHANGED <<clock, env, fence, acts, usage, tasks, events, props>>

RenewClaim(g) ==
  /\ Fenced(g, row.approved) /\ row' = [row EXCEPT !.lease = clock + Lease]
  /\ UNCHANGED <<clock, env, fence, acts, usage, tasks, events, props>>

-----------------------------------------------------------------------------
(* The ledger of external actions. *)

\* assert_current_assignment_execution and, for operations, no effect in doubt.
ExecutionCurrent(g) ==
  Guarded =>
    /\ env.owner = "active" /\ row.bound /\ GuidanceCurrent(row)
    /\ IF OneShot
       THEN /\ env.session /\ Continuation(row) /\ row.phase # "reconciliation"
            /\ \A a \in Actions :
                 /\ Known(acts[a]) /\ acts[a].state # "uncertain"
                 /\ \A i \in DOMAIN acts[a].tries :
                      /\ acts[a].tries[i].state # "uncertain"
                      /\ acts[a].tries[i].state = "started" => acts[a].tries[i].gen = g
            /\ \A t \in Tasks : tasks[t].state # "reconciliation"
       ELSE row.grant

PutAction(g, a) ==
  /\ Fenced(g, Null) /\ ExecutionCurrent(g) /\ acts[a].state = "none"
  /\ TaskOf[a] # Null => tasks[TaskOf[a]].state # "none"
  /\ EventOf[a] # Null => events[EventOf[a]] # "none"
  /\ NeedsApproval(a) => clock < ApprovalEnds
  /\ acts' = [acts EXCEPT ![a].state = IF NeedsApproval(a) THEN "proposed" ELSE "ready",
                          ![a].rev = row.rev, ![a].epoch = row.epoch]
  /\ row' = IF NeedsApproval(a) THEN [row EXCEPT !.phase = "waiting_approval"] ELSE row
  /\ UNCHANGED <<clock, env, fence, usage, tasks, events, props>>

\* The host opens a remote proposal and links it; someone else decides on it.
LinkProposal(a) ==
  /\ row.exists /\ row.life = "active" /\ acts[a].state \in Undecided
  /\ KindOf[a] = "interactive" /\ ~acts[a].link
  /\ acts' = [acts EXCEPT ![a].link = TRUE] /\ props' = [props EXCEPT ![a] = "pending"]
  /\ UNCHANGED <<clock, env, row, fence, usage, tasks, events>>

RemoteDecides(a, s) ==
  /\ props[a] = "pending" /\ props' = [props EXCEPT ![a] = s]
  /\ UNCHANGED <<clock, env, row, fence, acts, usage, tasks, events>>

ObserveProposal(a) ==
  /\ row.exists /\ acts[a].link /\ props[a] \in {"declined", "expired"}
  /\ acts[a].state \in {"proposed", "approved", "reserved"}
  /\ acts' = [acts EXCEPT ![a] = [GivenBack(@) EXCEPT
       !.state = IF props[a] = "declined" THEN "declined" ELSE "invalidated"]]
  /\ usage' = Released(usage, acts, acts')
  /\ row' = IF row.life = "active"
            THEN [row EXCEPT !.phase = "waiting", !.wake = clock, !.woken = TRUE] ELSE row
  /\ UNCHANGED <<clock, env, fence, tasks, events, props>>

DecideAction(a, d) ==
  /\ row.exists /\ acts[a].decided = Null /\ acts[a].state = "proposed"
  /\ OneShot => env.owner = "active" /\ Continuation(row)
  /\ ApproveConditions(acts[a], a)
  /\ acts' = [acts EXCEPT ![a].decided = d, ![a].state = d]
  /\ UNCHANGED <<clock, env, row, fence, usage, tasks, events, props>>

ReserveAction(g, a) ==
  /\ Fenced(g, a) /\ ExecutionCurrent(g)
  /\ \/ acts[a].state \in {"ready", "approved", "failed_not_started"}
     \/ acts[a].state = "failed" /\ Boundary[a] \in {"read_only", "downstream_key"}
  /\ Len(acts[a].tries) < 1 + MaxRetries
  /\ usage.spent + usage.out + 1 <= Limit
  /\ usage' = [usage EXCEPT !.out = @ + 1]
  /\ acts' = [acts EXCEPT ![a].state = "reserved",
       ![a].tries = Append(@, [state |-> "reserved", token |-> FALSE, gen |-> Null, out |-> Null, cost |-> 0])]
  /\ UNCHANGED <<clock, env, row, fence, tasks, events, props>>

\* start_action: the durable point after which the request may have left.
StartAction(g, a) ==
  LET c == acts[a]
  IN /\ Fenced(g, a) /\ ExecutionCurrent(g) /\ ApproveConditions(c, a)
     /\ row.bound
     /\ c.state = "reserved" /\ c.tries # <<>> /\ Last(c.tries).state = "reserved"
     /\ NeedsApproval(a) => c.decided = "approved" /\ ~c.consumed
     /\ KindOf[a] = "interactive" => c.admitted = g
     /\ acts' = [acts EXCEPT ![a].state = "started", ![a].consumed = NeedsApproval(a),
          ![a].tries[Len(c.tries)] = [@ EXCEPT !.state = "started", !.token = TRUE, !.gen = g]]
     /\ UNCHANGED <<clock, env, row, fence, usage, tasks, events, props>>

ReleaseUnstarted(a) ==
  /\ row.exists /\ acts[a].tries # <<>> /\ Last(acts[a].tries).state = "reserved"
  /\ acts' = [acts EXCEPT ![a] = [GivenBack(@) EXCEPT !.state = "failed_not_started"]]
  /\ usage' = Released(usage, acts, acts')
  /\ UNCHANGED <<clock, env, row, fence, tasks, events, props>>

\* A worker reports under its permit, at any time; shown says that it also
\* presents its fence, its binding and an admission that is still running.
RecordOutcome(a, i, o, cost, shown) ==
  LET try == acts[a].tries[i]
      current == \/ ~OneShot
                 \/ /\ shown /\ env.owner = "active" /\ env.session /\ row.bound
                    /\ Fenced(try.gen, a) /\ Continuation(row)
  IN /\ row.exists /\ try.token /\ try.state \in Begun
     /\ try.out # Null => try.out = "uncertain" /\ o # "uncertain"
     /\ acts' = [acts EXCEPT ![a].state = o,
          ![a].tries[i] = [@ EXCEPT !.state = o, !.out = o, !.cost = IF o = "uncertain" THEN 0 ELSE cost]]
     /\ usage' = IF o = "uncertain" THEN usage
                 ELSE [Released(usage, acts, acts') EXCEPT !.spent = @ + cost]
     /\ row' = CASE current /\ o = "uncertain" -> [row EXCEPT !.phase = "reconciliation"]
                 [] current /\ o # "uncertain" /\ row.life = "active" -> [row EXCEPT !.woken = TRUE]
                 [] OTHER -> row
     /\ UNCHANGED <<clock, env, fence, tasks, events, props>>

\* The owner settles an effect in doubt; an operation goes on only if nothing else holds it.
Reconcile(a, d) ==
  LET c == acts[a]
      n == Len(c.tries)
      to == IF d = "applied" THEN "succeeded" ELSE "failed_not_started"
      as == [acts EXCEPT ![a] = [WithTry(c, n, to) EXCEPT !.state = to, !.recon = d, !.tries[n].cost = 1]]
      us == [Released(usage, acts, as) EXCEPT !.spent = @ + 1]
      idle == [row EXCEPT !.wake = Null, !.retry = Null]
      on == [row EXCEPT !.phase = "waiting", !.wake = clock, !.woken = TRUE, !.retry = IF OneShot THEN Null ELSE @]
      over == TerminalFailure([ClearClaim(idle) EXCEPT !.phase = "failed"], as, us, tasks)
      same(r) == [row |-> r, tasks |-> tasks]
      after == CASE row.life # "active" -> same(row)
                 [] row.life = "active" /\ ~OneShot -> same(on)
                 [] OTHER ->
                    IF ContinuationHeld(as, us, tasks) THEN same([idle EXCEPT !.phase = "reconciliation"])
                    ELSE IF row.wait # Null THEN same([idle EXCEPT !.phase = "awaiting_event"])
                    ELSE IF row.phase = "budget_exhausted" THEN same(idle)
                    ELSE IF Deadline <= clock THEN over
                    ELSE IF env.owner = "active" /\ env.session /\ Continuation(row) THEN same(on)
                    ELSE same([ClearClaim(idle) EXCEPT !.phase = "waiting_authorization"])
  IN /\ row.exists /\ c.state = "uncertain" /\ n > 0 /\ c.tries[n].state = "uncertain" /\ c.tries[n].token
     /\ OneShot => Known(c)
     /\ c.recon = Null
     /\ acts' = as /\ usage' = us /\ row' = after.row /\ tasks' = after.tasks
     /\ UNCHANGED <<clock, env, fence, events, props>>

-----------------------------------------------------------------------------
(* Source events and tasks. *)

RecordSourceBatch(g, b) ==
  /\ Fenced(g, Null) /\ b \notin row.batches /\ b.from = row.cursor
  /\ events' = [e \in Events |-> IF e \in b.events /\ events[e] = "none" THEN "pending" ELSE events[e]]
  /\ row' = [row EXCEPT !.cursor = b.to, !.batches = @ \cup {b}, !.checked = clock]
  /\ UNCHANGED <<clock, env, fence, acts, usage, tasks, props>>

\* A plan replaces one whose tasks are over and whose results were taken up.
PutTaskPlan(g, p) ==
  /\ Fenced(g, Null) /\ p \notin row.plans
  /\ \A t \in Tasks : /\ tasks[t].state \in {"none", "completed", "failed", "cancelled", "superseded"}
                      /\ tasks[t].state = "completed" => tasks[t].inc
  /\ tasks' = [t \in Tasks |-> [state |-> IF t \in p THEN "pending" ELSE "none", by |-> Null,
                                attempts |-> 0, inc |-> FALSE]]
  /\ row' = [row EXCEPT !.plans = @ \cup {p}, !.phase = "investigating"]
  /\ UNCHANGED <<clock, env, fence, acts, usage, events, props>>

ClaimTask(g, t) ==
  /\ Fenced(g, Null) /\ tasks[t].state = "pending"
  /\ \A d \in Deps[t] : tasks[d].state = "completed"
  /\ tasks[t].attempts < 1 + MaxRetries
  /\ Cardinality({u \in Tasks : tasks[u].state = "running"}) < MaxRunning
  /\ tasks' = [tasks EXCEPT ![t] = [@ EXCEPT !.state = "running", !.by = g, !.attempts = @ + 1]]
  /\ UNCHANGED <<clock, env, row, fence, acts, usage, events, props>>

OpenFor(as, of, x) == \E a \in Actions : of[a] = x /\ as[a].state \in Live \cup Undecided

CompleteTask(g, t, s) ==
  /\ Fenced(g, Null) /\ tasks[t].state = "running" /\ tasks[t].by = g
  /\ s = "completed" => ~OpenFor(acts, TaskOf, t)
  /\ tasks' = [tasks EXCEPT ![t].state = s, ![t].by = Null]
  /\ row' = [row EXCEPT !.woken = TRUE]
  /\ UNCHANGED <<clock, env, fence, acts, usage, events, props>>

-----------------------------------------------------------------------------
(* The end of an episode. *)

\* When an operation runs again after an episode that ended in phase ph.
OperationSchedule(r, ph) ==
  LET idle == [r EXCEPT !.wake = Null, !.retry = Null]
      failed == ph = "failed"
      due == clock + IF failed THEN r.failures ELSE 1
  IN IF ph \notin {"waiting", "failed"} \/ (failed /\ r.failures > MaxRetries) THEN idle
     ELSE IF AuthorityEnds <= due THEN [idle EXCEPT !.phase = "waiting_authorization"]
     ELSE IF Deadline <= due THEN [idle EXCEPT !.phase = "failed"]
     ELSE [idle EXCEPT !.wake = due, !.retry = IF failed THEN due ELSE Null]

\* The same for a persistent assignment: its cadence, or the delay after a failure.
PersistentSchedule(r, ph, ts) ==
  LET soon == r.woken /\ \E t \in Tasks : ts[t].state = "completed" /\ ~ts[t].inc
      failed == ph = "failed"
      wake == IF ph \notin {"waiting", "failed"} \/ (failed /\ r.failures > MaxRetries) THEN Null
              ELSE IF failed THEN clock + r.failures
              ELSE IF soon THEN clock ELSE clock + 1
  IN [r EXCEPT !.wake = wake, !.retry = IF failed THEN wake ELSE Null, !.failures = IF failed THEN @ ELSE 0]

\* done: the assignment is over; inc: results taken up; settled: events that are
\* done with; v: the revision an operation waits for.
FinishEpisode(g, ph, done, inc, settled, v) ==
  LET ended == [row EXCEPT !.phase = ph, !.failures = IF ph = "failed" THEN @ + 1 ELSE @,
                           !.wait = IF ph = "awaiting_event" THEN v ELSE @,
                           !.life = IF done THEN "completed" ELSE @]
      taken == [t \in Tasks |-> [tasks[t] EXCEPT !.inc = @ \/ t \in inc]]
      due == IF done THEN [ended EXCEPT !.wake = Null, !.retry = Null]
             ELSE IF OneShot THEN OperationSchedule(ended, ph) ELSE PersistentSchedule(ended, ph, taken)
      as == [a \in Actions |-> IF acts[a].state = "reserved"
                               THEN [GivenBack(acts[a]) EXCEPT !.state = "failed_not_started"] ELSE acts[a]]
      us == Released(usage, acts, as)
      ts == Requeued(taken, {"running"}, IF ph = "reconciliation" THEN "reconciliation" ELSE "pending")
      end == IF OneShot /\ ~done THEN TerminalFailure(ClearClaim(due), as, us, ts)
             ELSE [row |-> ClearClaim(due), tasks |-> ts]
  IN /\ Fenced(g, row.approved)
     /\ \A a \in Actions : acts[a].state # "started"
     /\ OneShot /\ ~done /\ ph \in {"waiting", "failed", "awaiting_event"} =>
          \A a \in Actions : acts[a].state \notin {"uncertain"} \cup Undecided
     /\ ph = "awaiting_event" => OneShot /\ ~done /\ v >= row.mark
     /\ \A t \in inc : tasks[t].state = "completed"
     /\ \A e \in settled :
          /\ events[e] \notin {"none", "completed"} /\ ~OpenFor(acts, EventOf, e)
     /\ done => /\ \A a \in Actions : acts[a].state \notin Live \cup Undecided
                /\ \A t \in Tasks : tasks[t].state \notin Open \cup {"reconciliation"}
     /\ row' = end.row /\ tasks' = end.tasks /\ acts' = as /\ usage' = us
     /\ events' = [e \in Events |-> IF e \in settled THEN "completed" ELSE events[e]]
     /\ UNCHANGED <<clock, env, fence, props>>

\* _recover_expired: the lease ran out, or an operation that nobody runs is past its deadline.
RecoverExpired ==
  LET unclaimed == row.lease = Null
      next(a) == CASE acts[a].state = "reserved" -> "failed_not_started"
                   [] acts[a].state = "started" ->
                        IF Boundary[a] = "read_only" THEN "failed" ELSE "uncertain"
                   [] OTHER -> acts[a].state
      hit == {a \in Actions : acts[a].state \in {"reserved", "started"} /\ (OneShot => Known(acts[a]))}
      reads == {a \in hit : next(a) = "failed"}
      as == [a \in Actions |->
               IF a \notin hit THEN acts[a]
               ELSE [acts[a] EXCEPT !.state = next(a),
                       !.tries[Len(acts[a].tries)] = [@ EXCEPT !.state = next(a),
                           !.out = IF a \in reads THEN "failed" ELSE @, !.cost = IF a \in reads THEN 1 ELSE @]]]
      us == [Released(usage, acts, as) EXCEPT !.spent = @ + Cardinality(reads)]
      held == \/ \E a \in hit : next(a) = "uncertain"
              \/ OneShot /\ \E a \in Actions : ~Known(acts[a]) \/ acts[a].state = "uncertain"
      ts == Requeued(tasks, {"running"}, IF held THEN "reconciliation" ELSE "pending")
      fails == IF unclaimed THEN row.failures ELSE row.failures + 1
      at == clock + fails
      late == unclaimed \/ (OneShot /\ Deadline <= at)
      noAuthority == OneShot /\ ~late /\ AuthorityEnds <= at
      wake == IF held \/ late \/ noAuthority \/ fails > MaxRetries THEN Null ELSE at
      back == [ClearClaim(row) EXCEPT !.failures = fails, !.wake = wake, !.retry = wake,
                 !.phase = IF held THEN "reconciliation"
                           ELSE IF noAuthority THEN "waiting_authorization" ELSE "failed"]
      end == IF OneShot THEN TerminalFailure(back, as, us, ts) ELSE [row |-> back, tasks |-> ts]
  IN /\ row.exists /\ env.owner = "active"
     /\ \/ row.lease # Null /\ row.lease <= clock
        \/ OneShot /\ row.lease = Null /\ row.life = "active" /\ row.phase # "reconciliation" /\ Deadline <= clock
     /\ row' = end.row /\ tasks' = end.tasks /\ acts' = as /\ usage' = us
     /\ UNCHANGED <<clock, env, fence, events, props>>

-----------------------------------------------------------------------------
(* Deletion, and the retirement of the owner. *)

DeleteForOwner ==
  /\ row.exists /\ row.life \in Terminal /\ row.lease = Null /\ ~Retained(acts, usage, tasks)
  /\ row' = [row EXCEPT !.exists = FALSE]
  /\ props' = ProposalsExpired(props, Actions)
  /\ UNCHANGED <<clock, env, fence, acts, usage, tasks, events>>

RetireOwner ==
  LET n == IF row.life \in Terminal
           THEN [row |-> row, acts |-> acts, usage |-> usage, tasks |-> tasks, events |-> events, props |-> props]
           ELSE Controlled("stop")
  IN /\ row.exists /\ "stop" \in Controls /\ env' = [env EXCEPT !.owner = "retired"]
     /\ row' = [n.row EXCEPT !.exists = Retained(n.acts, n.usage, n.tasks)]
     /\ acts' = n.acts /\ usage' = n.usage /\ tasks' = n.tasks /\ events' = n.events
     /\ props' = ProposalsExpired(n.props, {a \in Actions : Known(n.acts[a])})
     /\ UNCHANGED <<clock, fence>>

-----------------------------------------------------------------------------
Next ==
  \/ Tick \/ GuidanceChanges \/ SessionEnds \/ RequestCheck \/ Claim \/ RecoverExpired
  \/ DeleteForOwner \/ RetireOwner
  \/ \E k \in Controls : Control(k)
  \/ \E v \in Revisions : SetOwnerEventWait(v) \/ AcceptWake(v)
  \/ \E a \in Actions :
       \/ ClaimForApprovedAction(a) \/ LinkProposal(a) \/ ObserveProposal(a) \/ ReleaseUnstarted(a)
       \/ \E s \in {"approved", "declined", "expired"} : RemoteDecides(a, s)
       \/ \E d \in {"approved", "declined"} : DecideAction(a, d)
       \/ \E d \in {"applied", "not_applied"} : Reconcile(a, d)
       \/ \E i \in DOMAIN acts[a].tries, o \in Outcomes, cost \in Costs, shown \in BOOLEAN :
            RecordOutcome(a, i, o, cost, shown)
  \/ \E g \in DOMAIN fence :
       \/ BindOperation(g) \/ RenewClaim(g)
       \/ \E a \in Actions : PutAction(g, a) \/ ReserveAction(g, a) \/ StartAction(g, a)
       \/ \E b \in Batches : RecordSourceBatch(g, b)
       \/ \E p \in Plans : PutTaskPlan(g, p)
       \/ \E t \in Tasks : \/ ClaimTask(g, t)
                           \/ \E s \in {"completed", "failed", "reconciliation"} : CompleteTask(g, t, s)
       \/ \E ph \in Phases, done \in BOOLEAN, inc \in SUBSET Tasks, settled \in SUBSET Events,
             v \in Revisions \cup {0} : FinishEpisode(g, ph, done, inc, settled, v)

Spec == Init /\ [][Next]_vars

-----------------------------------------------------------------------------
Attempts == {p \in Actions \X (1 .. MaxRetries + 1) : p[2] \in DOMAIN acts[p[1]].tries}
Try(p) == acts[p[1]].tries[p[2]]

\* The budget is exactly what the attempts say: reserved units belong to open attempts,
\* so _release never finds its accounting inconsistent, and every charge has an attempt.
Accounted ==
  /\ usage.out = Cardinality({p \in Attempts : Try(p).state \in Live})
  /\ usage.spent = MapThenSumSet(LAMBDA p : Try(p).cost, Attempts)

\* An action never has two attempts that may be outside: only the last one is open, and
\* the action is in that attempt's state.
OneAttempt ==
  \A p \in Attempts :
    /\ p[2] < Len(acts[p[1]].tries) => Try(p).state \notin Live
    /\ Try(p).state \in Live => acts[p[1]].state = Try(p).state

\* An approval lets out one request, of the revision and epoch that was reviewed.
ApprovedOnce ==
  \A a \in Actions :
    LET issued == {p \in Attempts : p[1] = a /\ Try(p).token}
    IN /\ NeedsApproval(a) => Cardinality(issued) <= 1 /\ (issued # {} => acts[a].decided = "approved")
       /\ \A p \in issued : fence[Try(p).gen].epoch = acts[a].epoch /\ fence[Try(p).gen].rev = acts[a].rev

\* There is a claim only on an active assignment, and it is the newest, of the current
\* revision and epoch; an assignment that is not active never has a wake due.
ClaimCurrent ==
  /\ (row.token = Null) = (row.lease = Null)
  /\ row.token # Null => /\ row.life = "active" /\ row.token = Len(fence)
                         /\ fence[row.token] = [rev |-> row.rev, epoch |-> row.epoch]
  /\ row.life # "active" => row.wake = Null

\* Who waits for an event knows which; who is done owes nothing and runs nothing;
\* what was deleted left no request open.
EndsClean ==
  /\ row.phase = "awaiting_event" => row.wait # Null
  /\ row.life = "completed" =>
       usage.out = 0 /\ \A t \in Tasks : tasks[t].state \notin Open \cup {"reconciliation"}
  /\ ~row.exists => \A p \in Attempts : Try(p).state \notin Live

\* A task runs only after what it depends on, and only under the claim that runs now.
TasksOrdered ==
  \A t \in Tasks :
    /\ tasks[t].state \in {"running", "completed"} => \A d \in Deps[t] : tasks[d].state = "completed"
    /\ tasks[t].state = "running" => tasks[t].by = row.token

AssignmentSound ==
  /\ Accounted /\ OneAttempt /\ ApprovedOnce /\ ClaimCurrent /\ EndsClean /\ TasksOrdered

\* What no step of the assignment does: bring back a finished one, take back an epoch, a
\* settled attempt, a charge, a wake revision or a completed event, or let a request out
\* without the claim of the current epoch.
AssignmentKept ==
  /\ row.life \in Terminal => row'.life = row.life
  /\ row'.epoch >= row.epoch /\ row'.rev >= row.rev /\ row'.mark >= row.mark
  /\ row.epoch # row'.epoch => row'.token = Null
  /\ usage'.spent >= usage.spent
  /\ \A e \in Events : events[e] = "completed" => events'[e] = "completed"
  /\ \A a \in Actions :
       /\ acts[a].state \in {"succeeded", "declined", "invalidated"} => acts'[a].state = acts[a].state
       /\ \A i \in DOMAIN acts[a].tries :
            /\ acts[a].tries[i].state \notin Live => acts'[a].tries[i] = acts[a].tries[i]
            /\ acts[a].tries[i].token => acts'[a].tries[i].token
       /\ \A i \in DOMAIN acts'[a].tries :
            acts'[a].tries[i].state = "started" /\ acts[a].tries[i].state # "started" =>
              row.life = "active" /\ row.token = acts'[a].tries[i].gen /\ row.lease > clock

=============================================================================
