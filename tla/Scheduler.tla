------------------------------ MODULE Scheduler ------------------------------
(***************************************************************************)
(* SchedulerRepository (repositories/scheduler.py): job definitions, due   *)
(* occurrences, claims, run attempts, the effect ledger with the staged    *)
(* chat publication, and the allowance of episodes (scheduler_models.py).  *)
(*                                                                         *)
(* Every operation is one transaction on rows it locks, so it is one step; *)
(* one that raises changes nothing and is no step.  A worker may use every *)
(* claim it was ever given: its lease may have run out and another worker  *)
(* may have claimed the occurrence since.  claim_generation, attempt_count *)
(* and lease_token change together and are one number, `gen'.              *)
(***************************************************************************)
EXTENDS Integers, Sequences, SequencesExt, FiniteSetsExt, TLC

CONSTANTS
  Jobs,         \* job ids, numbers in their order
  OwnerOf,      \* the owner of a job, a number
  KindOf,       \* schedule_kind of a job
  Ids,          \* occurrence ids, numbers in their order
  Pollers,      \* workers that claim what is due
  Workers,      \* workers that claim a given occurrence
  Submissions,  \* run-now submissions
  Operations,
  Keys,         \* effect keys; Chat is the key of the staged conversation
  Chat,
  Payloads,     \* payload digests
  Assignments,  \* episodes
  Spends,       \* charges of an admission
  Policies,     \* [max, outstanding]: what an owner may allow
  Statuses,     \* statuses that owners give to a job
  Projections,  \* next_run_at that the legacy runner projects
  LegacyRuns,
  Refusals,     \* sets of jobs that the eligible callback refuses
  Busy,         \* sets of occurrences that another transaction has locked
  Limit, ScanLimit, Lease, Interval,
  Skew,         \* how far the clock of a worker may be ahead
  Delays,       \* retry_after_seconds
  MaxTime,      \* bound: the clock
  MaxGen,       \* bound: claims of an occurrence
  MaxRevision,  \* bound: revisions of the conversation
  MaxVersion,   \* bound: versions of a policy that its owner makes
  Null

VARIABLES
  clock,
  jobs,      \* scheduled_job; `first' is the time of its first slot
  occs,      \* scheduled_occurrence
  scan,      \* the continuation that the poller remembers
  claims,    \* what workers were given: occurrence, generation, holder
  runs,      \* job_run, by occurrence and attempt: running, or over
  effects,   \* effect_ledger, by occurrence and key
  told,      \* history: the attempts that were told to perform an effect
  chat,      \* the conversation: its revision, its staged publications, its messages
  policy,    \* scheduled_job_policy
  episodes   \* scheduled_occurrence_assignment, and the assignments that are resolved

vars == <<clock, jobs, occs, scan, claims, runs, effects, told, chat, policy, episodes>>
jobVars == <<jobs, occs, scan, claims>>
effectVars == <<effects, told, chat>>

Terminal == {"completed", "failed", "cancelled"}
Unstarted == {"pending", "retryable", "claimed"}
Leased == {"claimed", "running"}

\* scheduled_for, in parts of a tick: run-now steps back by the smallest part.
Micro == 64
At(time) == Micro * time

NewOccurrence(j, at, submission) ==
  [job |-> j, at |-> at, submission |-> submission, state |-> "pending", gen |-> 0,
   holder |-> Null, expires |-> Null, op |-> Null, retry |-> Null]

Init ==
  /\ clock = 0
  /\ jobs = << >> /\ occs = << >>
  /\ scan = [job |-> Null, occ |-> Null, jobOwner |-> Null, occOwner |-> Null]
  /\ claims = {}
  /\ runs = << >> /\ effects = << >> /\ told = {}
  /\ chat = [revision |-> 0, staged |-> {}, messages |-> << >>]
  /\ policy = << >>
  /\ episodes = [bound |-> {}, resolved |-> {}]

Tick ==
  /\ clock < MaxTime
  /\ clock' = clock + 1
  /\ UNCHANGED <<jobVars, runs, effectVars, policy, episodes>>

-----------------------------------------------------------------------------
(* Definitions of jobs.                                                    *)

\* create_job_definition and put_job. A job that exists is returned or conflicts.
CreateJob(j) ==
  /\ j \notin DOMAIN jobs
  /\ jobs' = (j :> [status |-> "active", next |-> clock, first |-> clock]) @@ jobs
  /\ UNCHANGED <<clock, occs, scan, claims, runs, effectVars, policy, episodes>>

\* set_job_status.
SetJobStatus(j, status) ==
  /\ j \in DOMAIN jobs
  /\ jobs' = [jobs EXCEPT ![j].status = status]
  /\ UNCHANGED <<clock, occs, scan, claims, runs, effectVars, policy, episodes>>

\* update_job_after_run_for_administration.
ProjectRun(j, next, completed) ==
  /\ j \in DOMAIN jobs
  /\ jobs' = [jobs EXCEPT ![j] =
       [@ EXCEPT !.status = IF completed THEN "completed" ELSE @, !.next = next]]
  /\ UNCHANGED <<clock, occs, scan, claims, runs, effectVars, policy, episodes>>

Unleased(o) == [o EXCEPT !.holder = Null, !.expires = Null]

Cancelled(o) == [Unleased(o) EXCEPT !.state = "cancelled", !.retry = Null]

\* transition_job_and_list_unstarted, and cancel_unstarted_occurrence on what it lists:
\* the rows stay locked, so their operations are the listed ones.
TransitionJob(j, status) ==
  /\ j \in DOMAIN jobs
  /\ status \in {"paused", "disabled"}
  /\ jobs' = [jobs EXCEPT ![j].status = status]
  /\ occs' = [i \in DOMAIN occs |-> IF occs[i].job = j /\ occs[i].state \in Unstarted
                                    THEN Cancelled(occs[i]) ELSE occs[i]]
  /\ UNCHANGED <<clock, scan, claims, runs, effectVars, policy, episodes>>

\* cancel_unstarted_occurrence, by a caller that saw the operation `op'.
CancelUnstarted(i, op) ==
  /\ i \in DOMAIN occs
  /\ occs[i].state \in Unstarted
  /\ occs[i].op = op
  /\ occs' = [occs EXCEPT ![i] = Cancelled(@)]
  /\ UNCHANGED <<clock, jobs, scan, claims, runs, effectVars, policy, episodes>>

-----------------------------------------------------------------------------
(* Materialization and claims.                                             *)

Slot(table, j, at) == {i \in DOMAIN table : table[i].job = j /\ table[i].at = at}
Submitted(submission) == {i \in DOMAIN occs : occs[i].submission = submission}
Fresh == Ids \ DOMAIN occs

\* create_occurrence.
CreateOccurrence(i, j, at) ==
  /\ j \in DOMAIN jobs
  /\ Slot(occs, j, at) = {}
  /\ i \in Fresh
  /\ occs' = (i :> NewOccurrence(j, at, Null)) @@ occs
  /\ UNCHANGED <<clock, jobs, scan, claims, runs, effectVars, policy, episodes>>

\* materialize_run_now: the latest free time of the last 32. A known submission is
\* returned, or conflicts when it was for another job.
RunNow(i, j, submission) ==
  /\ j \in DOMAIN jobs
  /\ Submitted(submission) = {}
  /\ jobs[j].status = "active"
  /\ i \in Fresh
  /\ LET free == {at \in At(clock) - 31 .. At(clock) : Slot(occs, j, at) = {}} IN
       /\ free # {}
       /\ occs' = (i :> NewOccurrence(j, Max(free), submission)) @@ occs
  /\ UNCHANGED <<clock, jobs, scan, claims, runs, effectVars, policy, episodes>>

Before(p, q) == p[1] < q[1] \/ (p[1] = q[1] /\ p[2] < q[2])

\* _scan_rows: from the position on, and from the start when rows are left to scan.
\* Rows are [id, job, key, owner].
ScanRows(rows, position) ==
  LET sorted == SetToSortSeq(rows, LAMBDA a, b : Before(a.key, b.key))
      later == SelectSeq(sorted, LAMBDA r : position = Null \/ Before(position, r.key))
      rest == SelectSeq(sorted, LAMBDA r : position # Null /\ ~Before(position, r.key))
  IN  SubSeq(later \o rest, 1, Min({ScanLimit, Cardinality(rows)}))

\* _rotate_owners: one row of every owner in turn, owners after the last one first.
RotateOwners(rows, last) ==
  LET Ring(o) == IF last # Null /\ o <= last THEN 1000 + o ELSE o
      Turn(k) == <<Cardinality({m \in 1 .. k : rows[m].owner = rows[k].owner}),
                   Ring(rows[k].owner)>>
      order == SetToSortSeq(DOMAIN rows, LAMBDA a, b : Before(Turn(a), Turn(b)))
  IN  [n \in 1 .. Min({Limit, Len(rows)}) |-> rows[order[n]]]

LastOf(rows, field, default) == IF rows = << >> THEN default ELSE rows[Len(rows)][field]

DueJobs ==
  {[id |-> j, job |-> j, key |-> <<jobs[j].next, j>>, owner |-> OwnerOf[j]] :
     j \in {x \in DOMAIN jobs : /\ jobs[x].status = "active"
                                /\ jobs[x].next # Null /\ jobs[x].next <= clock}}

Executable(j, table) ==
  \/ table[j].status = "active"
  \/ table[j].status = "completed" /\ KindOf[j] = "one_shot"

\* The state of an occurrence lets a poller claim it.
Claimable(o, time) ==
  \/ o.state = "pending" /\ o.at <= At(time)
  \/ o.state = "retryable" /\ (o.retry = Null \/ o.retry <= time)
  \/ o.state \in Leased /\ o.expires <= time

Claimed(o, w, expires) ==
  [o EXCEPT !.state = "claimed", !.gen = @ + 1, !.holder = w, !.expires = expires,
            !.op = Null, !.retry = Null]

Claim(i, gen, w) == [id |-> i, gen |-> gen, holder |-> w]

\* The cadence of a job after the slot `at', Null when there is none.
NextRun(j, at) == IF KindOf[j] = "one_shot" THEN Null ELSE at + Interval

\* The rows that a poller takes out of those it scanned: not the refused ones.
Chosen(scanned, refused, last) ==
  RotateOwners(SelectSeq(scanned, LAMBDA r : r.job \notin refused), last)

\* materialize_and_claim_due_for_administration, second half: occurrences that are due, or
\* whose lease ran out, are claimed. `due' and `taken' are the jobs of the first half.
ClaimReady(w, refused, busy, due, taken, jobs2, occs2) ==
  LET ready == {[id |-> i, job |-> occs2[i].job, key |-> <<occs2[i].at, i>>,
                 owner |-> OwnerOf[occs2[i].job]] :
                  i \in {x \in DOMAIN occs2 \ busy : /\ Executable(occs2[x].job, jobs2)
                                                     /\ Claimable(occs2[x], clock)}}
      found == ScanRows(ready, scan.occ)
      picked == Chosen(found, refused, scan.occOwner)
      ids == {picked[n].id : n \in DOMAIN picked}
  IN
  /\ \A i \in ids : occs2[i].gen < MaxGen
  /\ due # << >> \/ found # << >>
  /\ jobs' = jobs2
  /\ occs' = [i \in DOMAIN occs2 |->
       IF i \in ids THEN Claimed(occs2[i], w, clock + Lease) ELSE occs2[i]]
  /\ claims' = claims \cup {Claim(i, occs2[i].gen + 1, w) : i \in ids}
  /\ scan' = [job |-> LastOf(due, "key", scan.job), occ |-> LastOf(found, "key", scan.occ),
              jobOwner |-> LastOf(taken, "owner", scan.jobOwner),
              occOwner |-> LastOf(picked, "owner", scan.occOwner)]
  /\ UNCHANGED <<clock, runs, effectVars, policy, episodes>>

\* First half: the next slot of due jobs becomes an occurrence, and the cadence moves on.
\* `refused' are the jobs that the eligible callback turns away.
MaterializeAndClaim(w, refused, busy) ==
  LET due == ScanRows(DueJobs, scan.job)
      taken == Chosen(due, refused, scan.jobOwner)
      slots == {taken[n].id : n \in DOMAIN taken}
      new == {j \in slots : Slot(occs, j, At(jobs[j].next)) = {}}
      jobs2 == [j \in DOMAIN jobs |->
        IF j \notin slots THEN jobs[j]
        ELSE [jobs[j] EXCEPT !.status = IF NextRun(j, jobs[j].next) = Null THEN "completed" ELSE @,
                             !.next = NextRun(j, jobs[j].next)]]
  IN  \E name \in {f \in [new -> Fresh] : IsInjective(f)} :
        ClaimReady(w, refused, busy, due, taken, jobs2,
          [i \in Range(name) |->
             LET j == CHOOSE x \in new : name[x] = i IN NewOccurrence(j, At(jobs[j].next), Null)]
          @@ occs)

\* claim_occurrence, by a worker whose clock may be ahead.
ClaimOccurrence(w, i, time) ==
  /\ i \in DOMAIN occs
  /\ \/ occs[i].state \in {"pending", "retryable"} /\ occs[i].at <= At(time)
        /\ (occs[i].retry # Null => occs[i].retry <= time)
     \/ occs[i].state \in Leased /\ occs[i].expires <= time
  /\ occs[i].gen < MaxGen
  /\ occs' = [occs EXCEPT ![i] = Claimed(@, w, time + Lease)]
  /\ claims' = claims \cup {Claim(i, occs[i].gen + 1, w)}
  /\ UNCHANGED <<clock, jobs, scan, runs, effectVars, policy, episodes>>

\* Mutant: the generation is not compared.
CurrentHolder(c, states) ==
  /\ occs[c.id].holder = c.holder
  /\ occs[c.id].state \in states
  /\ occs[c.id].expires > clock

\* assert_current_claim.
Current(c, states) ==
  /\ occs[c.id].gen = c.gen
  /\ occs[c.id].holder = c.holder
  /\ occs[c.id].state \in states
  /\ occs[c.id].expires > clock

\* renew_occurrence_claim.
Renew(c) ==
  /\ Current(c, Leased)
  /\ occs' = [occs EXCEPT ![c.id].expires = clock + Lease]
  /\ UNCHANGED <<clock, jobs, scan, claims, runs, effectVars, policy, episodes>>

\* attach_operation_to_claim.
Attach(c, op) ==
  /\ Current(c, {"claimed"})
  /\ occs[c.id].op = Null
  /\ occs' = [occs EXCEPT ![c.id].op = op]
  /\ UNCHANGED <<clock, jobs, scan, claims, runs, effectVars, policy, episodes>>

-----------------------------------------------------------------------------
(* Attempts.  The execution generation of an operation is part of its name. *)

\* start_claim_attempt.
Start(c) ==
  /\ Current(c, {"claimed"})
  /\ occs[c.id].op # Null
  /\ occs' = [occs EXCEPT ![c.id] = [@ EXCEPT !.state = "running", !.expires = clock + Lease]]
  /\ runs' = (<<c.id, c.gen>> :> [op |-> occs[c.id].op, outcome |-> "running"]) @@ runs
  /\ UNCHANGED <<clock, jobs, scan, claims, effectVars, policy, episodes>>

\* The attempt of the claim has a run that is not over.
RunOpen(c) == runs[c.id, c.gen].outcome = "running"

RunOver(c) == [runs EXCEPT ![c.id, c.gen].outcome = "over"]

Retryable(o, delay) == [Unleased(o) EXCEPT !.state = "retryable", !.retry = clock + delay]

\* mark_claim_retryable. The run of a running attempt is interrupted; one that is over
\* already makes the call fail.
MarkRetryable(c, delay) ==
  /\ Current(c, Leased)
  /\ occs[c.id].state = "running" => RunOpen(c)
  /\ runs' = IF occs[c.id].state = "running" THEN RunOver(c) ELSE runs
  /\ occs' = [occs EXCEPT ![c.id] = Retryable(@, delay)]
  /\ UNCHANGED <<clock, jobs, scan, claims, effectVars, policy, episodes>>

\* finish_claim_attempt.
FinishAttempt(c, state, delay) ==
  /\ Current(c, {"running"})
  /\ RunOpen(c)
  /\ runs' = RunOver(c)
  /\ occs' = [occs EXCEPT ![c.id] = IF state = "retryable" THEN Retryable(@, delay)
                                   ELSE [Unleased(@) EXCEPT !.state = state, !.retry = Null]]
  /\ UNCHANGED <<clock, jobs, scan, claims, effectVars, policy, episodes>>

\* start_legacy_run: a run that belongs to no occurrence.
StartLegacyRun(r, j) ==
  /\ j \in DOMAIN jobs
  /\ <<Null, r>> \notin DOMAIN runs
  /\ runs' = (<<Null, r>> :> [op |-> Null, outcome |-> "running"]) @@ runs
  /\ UNCHANGED <<clock, jobVars, effectVars, policy, episodes>>

\* finish_run_for_administration, on any run.
FinishRun(k) ==
  /\ k \in DOMAIN runs
  /\ runs' = [runs EXCEPT ![k].outcome = "over"]
  /\ UNCHANGED <<clock, jobVars, effectVars, policy, episodes>>

\* reconcile_interrupted_for_administration: also the runs of workers that are alive.
ReconcileInterrupted ==
  /\ \E k \in DOMAIN runs : runs[k].outcome = "running"
  /\ runs' = [k \in DOMAIN runs |->
       [runs[k] EXCEPT !.outcome = "over"]]
  /\ UNCHANGED <<clock, jobVars, effectVars, policy, episodes>>

-----------------------------------------------------------------------------
(* The effect ledger.                                                      *)

Effect(c, payload, state) ==
  [payload |-> payload, state |-> state, op |-> occs[c.id].op, gen |-> c.gen]

OwnReservation(c, e) == e.state = "reserved" /\ e.op = occs[c.id].op /\ e.gen = c.gen

\* reserve_effect_for_attempt. A new reservation, and that of a failed effect, tells the
\* attempt to perform the effect; a recovered one, and every other answer, does not.
ReserveEffect(c, key, payload, recover) ==
  LET k == <<c.id, key>>
      exists == k \in DOMAIN effects
      failed == exists /\ effects[k].state = "failed"
      recovered == exists /\ recover /\ effects[k].state = "reserved"
  IN
  /\ Current(c, {"running"})
  /\ exists => effects[k].payload = payload
  /\ ~exists \/ failed \/ recovered
  /\ effects' = (k :> Effect(c, payload, "reserved")) @@ effects
  /\ told' = IF recovered THEN told ELSE told \cup {<<k, c.gen>>}
  /\ UNCHANGED <<clock, jobVars, runs, chat, policy, episodes>>

\* _validate_effect_attempt, and the reservation of the same attempt.
Reserved(c, key, payload) ==
  /\ Current(c, {"running"})
  /\ <<c.id, key>> \in DOMAIN effects
  /\ effects[c.id, key].payload = payload
  /\ OwnReservation(c, effects[c.id, key])

\* publish_reserved_effect.
PublishEffect(c, key, payload) ==
  /\ Reserved(c, key, payload)
  /\ effects' = [effects EXCEPT ![c.id, key].state = "published"]
  /\ UNCHANGED <<clock, jobVars, runs, told, chat, policy, episodes>>

\* fail_reserved_effect.
FailEffect(c, key, payload) ==
  /\ Reserved(c, key, payload)
  /\ effects' = [effects EXCEPT ![c.id, key].state = "failed"]
  /\ told' = {t \in told : t[1] # <<c.id, key>>}
  /\ UNCHANGED <<clock, jobVars, runs, chat, policy, episodes>>

\* PublicationRepository.stage, for the operation of the attempt.
StageChat(c) ==
  /\ Current(c, {"running"})
  /\ chat' = [chat EXCEPT !.staged = @ \cup {[base |-> chat.revision, op |-> occs[c.id].op]}]
  /\ UNCHANGED <<clock, jobVars, runs, effects, told, policy, episodes>>

\* Another publication of the conversation.
OtherPublication ==
  /\ chat.revision < MaxRevision
  /\ chat' = [chat EXCEPT !.revision = @ + 1, !.messages = Append(@, Null)]
  /\ UNCHANGED <<clock, jobVars, runs, effects, told, policy, episodes>>

\* The staged publication of the operation, still at the head of the conversation.
StagedAtHead(c) == [base |-> chat.revision, op |-> occs[c.id].op] \in chat.staged

\* publish_staged_chat_effect: messages, layouts and the head of the conversation change
\* with the ledger. A conversation that is missing is created at revision zero.
PublishChat(c, payload) ==
  /\ Reserved(c, Chat, payload)
  /\ StagedAtHead(c)
  /\ chat.revision < MaxRevision
  /\ chat' = [revision |-> chat.revision + 1,
              staged |-> {s \in chat.staged : s.op # occs[c.id].op},
              messages |-> Append(chat.messages, c.id)]
  /\ effects' = [effects EXCEPT ![c.id, Chat].state = "published"]
  /\ UNCHANGED <<clock, jobVars, runs, told, policy, episodes>>

-----------------------------------------------------------------------------
(* The allowance of episodes.                                              *)

\* put_job_policy, by an owner that saw the version: the charges and the stop stay.
PutPolicy(j, p) ==
  LET known == j \in DOMAIN policy
      old == IF known THEN policy[j]
             ELSE [version |-> 0, admitted |-> 0, stopped |-> FALSE, last |-> Null]
  IN
  /\ j \in DOMAIN jobs
  /\ old.version < MaxVersion
  /\ p.max # Null => old.admitted <= p.max
  /\ policy' = (j :> [version |-> old.version + 1, admitted |-> old.admitted,
                      stopped |-> old.stopped, last |-> old.last,
                      max |-> p.max, outstanding |-> p.outstanding]) @@ policy
  /\ UNCHANGED <<clock, jobVars, runs, effectVars, episodes>>

\* _outstanding.
Outstanding(j) ==
  {e.assignment : e \in {b \in episodes.bound : b.job = j}} \ episodes.resolved

\* assert_claim_job_active.
ClaimJobActive(j) == jobs[j].status \in {"active", "completed"}

\* admit_assignment_episode. Refusals, replays and conflicts change nothing.
AdmitEpisode(c, a, spend) ==
  LET j == occs[c.id].job IN
  /\ ClaimJobActive(j)
  /\ j \in DOMAIN policy
  /\ Current(c, Leased)
  /\ ~policy[j].stopped
  /\ \A b \in episodes.bound : b.id # c.id
  /\ a \notin episodes.resolved
  /\ Cardinality(Outstanding(j)) < policy[j].outstanding
  /\ policy[j].max # Null => policy[j].admitted + spend <= policy[j].max
  /\ episodes' = [episodes EXCEPT !.bound =
       @ \cup {[id |-> c.id, job |-> j, assignment |-> a, spend |-> spend]}]
  /\ policy' = [policy EXCEPT ![j] =
       [@ EXCEPT !.admitted = @ + spend, !.version = @ + 1, !.last = a]]
  /\ UNCHANGED <<clock, jobVars, runs, effectVars>>

\* The lifecycle of the assignment ends.
Resolve(a) ==
  /\ a \notin episodes.resolved
  /\ episodes' = [episodes EXCEPT !.resolved = @ \cup {a}]
  /\ UNCHANGED <<clock, jobVars, runs, effectVars, policy>>

\* stop_assignment_job, by an owner that saw the version.
StopJob(j) ==
  /\ j \in DOMAIN policy
  /\ ~policy[j].stopped
  /\ policy' = [policy EXCEPT ![j] = [@ EXCEPT !.stopped = TRUE, !.version = @ + 1]]
  /\ jobs' = [jobs EXCEPT ![j] = [@ EXCEPT !.status = "completed", !.next = Null]]
  /\ occs' = [i \in DOMAIN occs |-> IF occs[i].job = j /\ occs[i].state \in Unstarted
                                    THEN Cancelled(occs[i]) ELSE occs[i]]
  /\ UNCHANGED <<clock, scan, claims, runs, effectVars, episodes>>

-----------------------------------------------------------------------------
JobStep ==
  \/ \E j \in Jobs :
       \/ CreateJob(j)
       \/ \E status \in Statuses : SetJobStatus(j, status) \/ TransitionJob(j, status)
       \/ \E next \in Projections, completed \in BOOLEAN : ProjectRun(j, next, completed)
       \/ \E i \in Ids : \/ \E at \in Projections : CreateOccurrence(i, j, At(at))
                         \/ \E submission \in Submissions : RunNow(i, j, submission)
       \/ \E r \in LegacyRuns : StartLegacyRun(r, j)
  \/ \E i \in Ids, op \in Operations \cup {Null} : CancelUnstarted(i, op)

ClaimStep ==
  \/ \E w \in Pollers, refused \in Refusals, busy \in Busy : MaterializeAndClaim(w, refused, busy)
  \/ \E w \in Workers, i \in Ids, time \in clock .. clock + Skew : ClaimOccurrence(w, i, time)

AttemptStep ==
  \/ \E c \in claims :
       \/ Renew(c) \/ Start(c)
       \/ \E op \in Operations : Attach(c, op)
       \/ \E delay \in Delays : MarkRetryable(c, delay)
       \/ \E state \in {"completed", "failed", "retryable"}, delay \in Delays :
            FinishAttempt(c, state, delay)
  \/ \E k \in DOMAIN runs : FinishRun(k)
  \/ ReconcileInterrupted

EffectStep ==
  \/ \E c \in claims, payload \in Payloads :
       \/ \E key \in Keys :
            \/ \E recover \in BOOLEAN : ReserveEffect(c, key, payload, recover)
            \/ key # Chat /\ PublishEffect(c, key, payload)
            \/ FailEffect(c, key, payload)
       \/ PublishChat(c, payload)
  \/ Chat \in Keys /\ (OtherPublication \/ \E c \in claims : StageChat(c))

EpisodeStep ==
  \/ \E j \in Jobs : StopJob(j) \/ \E p \in Policies : PutPolicy(j, p)
  \/ \E a \in Assignments : Resolve(a) \/ \E c \in claims, spend \in Spends :
                                              AdmitEpisode(c, a, spend)

Next == Tick \/ JobStep \/ ClaimStep \/ AttemptStep \/ EffectStep \/ EpisodeStep

Spec == Init /\ [][Next]_vars

-----------------------------------------------------------------------------
\* A time has one occurrence of a job, a submission one occurrence, and every slot of
\* the cadence up to the next one has an occurrence: none was skipped.
SlotsExact ==
  /\ \A i, k \in DOMAIN occs : i # k =>
       /\ <<occs[i].job, occs[i].at>> # <<occs[k].job, occs[k].at>>
       /\ occs[i].submission = Null \/ occs[i].submission # occs[k].submission
  /\ Projections = {} => \A j \in DOMAIN jobs : jobs[j].next # Null =>
       \A time \in jobs[j].first .. jobs[j].next - 1 :
         (time - jobs[j].first) % Interval = 0 => Slot(occs, j, At(time)) # {}

\* A lease belongs to the current attempt; what is running has its run, and what is
\* settled has a run that is over.
AttemptsCoherent ==
  \A i \in DOMAIN occs :
    /\ occs[i].state \in Leased <=> occs[i].expires # Null
    /\ occs[i].state = "running" => <<i, occs[i].gen>> \in DOMAIN runs
    /\ occs[i].state \in {"completed", "failed"} => ~RunOpen([id |-> i, gen |-> occs[i].gen])

\* Two attempts are told to perform the same effect only when it failed in between; the
\* conversation has the message of an occurrence once exactly if its effect is published.
EffectsOnce ==
  /\ \A t, u \in told : t[1] = u[1] => t = u
  /\ \A k \in DOMAIN effects : effects[k].state # "failed" <=> \E t \in told : t[1] = k
  /\ \A i \in DOMAIN occs :
       Cardinality({n \in DOMAIN chat.messages : chat.messages[n] = i}) =
         IF <<i, Chat>> \in DOMAIN effects /\ effects[i, Chat].state = "published" THEN 1 ELSE 0

\* The charge of a policy is what its admissions spent, one for an occurrence, and within
\* the allowance.
ChargesExact ==
  /\ \A a, b \in episodes.bound : a.id = b.id => a = b
  /\ \A j \in DOMAIN policy :
       /\ policy[j].admitted =
            MapThenSumSet(LAMBDA b : b.spend, {b \in episodes.bound : b.job = j})
       /\ policy[j].max # Null => policy[j].admitted <= policy[j].max

ScheduleSound == SlotsExact /\ AttemptsCoherent /\ EffectsOnce /\ ChargesExact

\* The poller serves the owner it served last only when no other owner has an occurrence
\* that is due, other than of jobs that may be refused.
TurnsTaken ==
  \A c \in claims' \ claims : OwnerOf[occs'[c.id].job] = scan.occOwner /\ c.holder \in Pollers =>
    \A i \in DOMAIN occs' :
      OwnerOf[occs'[i].job] # scan.occOwner /\ Claimable(occs'[i], clock)
        /\ Executable(occs'[i].job, jobs') => occs'[i].job \in UNION Refusals

\* A settled occurrence, a published effect and a stopped policy stay; generations and
\* charges never go back; owners take turns.
ScheduleKept ==
  /\ \A i \in DOMAIN occs :
       /\ i \in DOMAIN occs' /\ occs'[i].gen >= occs[i].gen
       /\ occs[i].state \in Terminal => occs'[i] = occs[i]
  /\ \A k \in DOMAIN effects :
       /\ effects'[k].payload = effects[k].payload
       /\ effects[k].state = "published" => effects'[k] = effects[k]
  /\ \A j \in DOMAIN policy :
       /\ policy[j].stopped => policy'[j].stopped /\ policy'[j].admitted = policy[j].admitted
       /\ policy'[j].admitted >= policy[j].admitted
  /\ TurnsTaken
=============================================================================
