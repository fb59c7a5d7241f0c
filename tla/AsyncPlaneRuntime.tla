------------------------- MODULE AsyncPlaneRuntime -------------------------
(***************************************************************************)
(* AsyncPlaneRuntime: coroutines of one event loop hand a complete         *)
(* transaction to a worker thread.  Admission is bounded by an asyncio     *)
(* semaphore with a timeout, a cancelled caller leaves its worker running, *)
(* and drain closes admission and waits for the workers.                   *)
(*                                                                         *)
(* A step is what the loop runs between two awaits, or what a thread does. *)
(***************************************************************************)
EXTENDS Integers, Sequences, FiniteSets, Functions

CONSTANTS
  Calls,          \* the coroutines that call run_in_transaction, each once
  Drains,         \* the coroutines that call drain, each once
  Capacity        \* maximum_concurrency

\* A runtime admits at least one transaction.
CapacityPositive == Capacity \in Nat \ {0}

VARIABLES
  free,           \* the semaphore's value
  waiters,        \* the calls queued in the semaphore, first come first
  active,         \* _active
  idle,           \* _idle.is_set()
  closed,         \* _closed
  call,           \* [Calls -> the stage of the coroutine]
  worker,         \* [Calls -> the stage of its worker task and thread]
  drain           \* [Drains -> the stage of the drain, or its result]

vars == <<free, waiters, active, idle, closed, call, worker, drain>>

\* granted: the semaphore chose the call, which has not run yet.
CallStages == {"new", "waiting", "granted", "awaiting", "result", "raised",
               "rejected", "no_capacity", "refused", "cancelled"}

WorkerStages == {"none", "running", "committed", "rolled_back", "committed_done",
                 "rolled_back_done"}

TypeOK ==
  /\ free \in 0 .. Capacity
  /\ waiters \in Seq(Calls)
  /\ active \in 0 .. Capacity
  /\ idle \in BOOLEAN /\ closed \in BOOLEAN
  /\ call \in [Calls -> CallStages]
  /\ worker \in [Calls -> WorkerStages]
  /\ drain \in [Drains -> {"new", "waiting", "drained", "not_drained"}]

Init ==
  /\ free = Capacity
  /\ waiters = <<>>
  /\ active = 0
  /\ idle = TRUE
  /\ closed = FALSE
  /\ call = [c \in Calls |-> "new"]
  /\ worker = [c \in Calls |-> "none"]
  /\ drain = [d \in Drains |-> "new"]

\* Semaphore.release: the permit goes to the first waiter, if there is one.
ReleasePermit(queue, stages) ==
  IF queue = <<>>
  THEN free' = free + 1 /\ waiters' = queue /\ call' = stages
  ELSE /\ free' = free
       /\ waiters' = Tail(queue)
       /\ call' = [stages EXCEPT ![Head(queue)] = "granted"]

\* The slot is taken and the worker task created; no await lies in between.
Admit(c) ==
  /\ active' = active + 1
  /\ idle' = FALSE
  /\ worker' = [worker EXCEPT ![c] = "running"]

\* run_in_transaction up to its first await.  A callback that is a coroutine is
\* refused, a free permit is taken at once.
Call(c) ==
  /\ call[c] = "new"
  /\ \/ /\ call' = [call EXCEPT ![c] = "refused"]
        /\ UNCHANGED <<free, waiters, active, idle, worker>>
     \/ /\ closed
        /\ call' = [call EXCEPT ![c] = "rejected"]
        /\ UNCHANGED <<free, waiters, active, idle, worker>>
     \/ /\ ~closed /\ free > 0 /\ waiters = <<>>
        /\ free' = free - 1
        /\ call' = [call EXCEPT ![c] = "awaiting"]
        /\ Admit(c)
        /\ UNCHANGED waiters
     \/ /\ ~closed /\ (free = 0 \/ waiters # <<>>)
        /\ waiters' = Append(waiters, c)
        /\ call' = [call EXCEPT ![c] = "waiting"]
        /\ UNCHANGED <<free, active, idle, worker>>
  /\ UNCHANGED <<closed, drain>>

\* The coroutine resumes with its permit and looks at _closed again.
Resume(c) ==
  /\ call[c] = "granted"
  /\ IF closed
     THEN /\ ReleasePermit(waiters, [call EXCEPT ![c] = "rejected"])
          /\ UNCHANGED <<active, idle, worker>>
     ELSE /\ call' = [call EXCEPT ![c] = "awaiting"]
          /\ Admit(c)
          /\ UNCHANGED <<free, waiters>>
  /\ UNCHANGED <<closed, drain>>

\* The semaphore's queue once its i-th waiter has left.
Without(q, i) == SubSeq(q, 1, i - 1) \o SubSeq(q, i + 1, Len(q))

\* Mutant: a permit granted just before the timeout is lost.
GiveUpKeepsPermit(c, stage) ==
  /\ \/ /\ call[c] = "waiting"
        /\ \E i \in 1 .. Len(waiters) : waiters[i] = c /\ waiters' = Without(waiters, i)
        /\ call' = [call EXCEPT ![c] = stage]
        /\ UNCHANGED free
     \/ /\ call[c] = "granted"
        /\ call' = [call EXCEPT ![c] = stage]
        /\ UNCHANGED <<free, waiters>>
  /\ UNCHANGED <<active, idle, closed, worker, drain>>

\* The admission timeout, or the caller's cancellation, before admission.  A
\* permit that was just granted goes back to the semaphore.
GiveUp(c, stage) ==
  /\ \/ /\ call[c] = "waiting"
        /\ \E i \in 1 .. Len(waiters) : waiters[i] = c /\ waiters' = Without(waiters, i)
        /\ call' = [call EXCEPT ![c] = stage]
        /\ UNCHANGED free
     \/ /\ call[c] = "granted"
        /\ ReleasePermit(waiters, [call EXCEPT ![c] = stage])
  /\ UNCHANGED <<active, idle, closed, worker, drain>>

\* The caller is cancelled while its worker runs: the shield keeps the worker.
CancelAwait(c) ==
  /\ call[c] = "awaiting"
  /\ call' = [call EXCEPT ![c] = "cancelled"]
  /\ UNCHANGED <<free, waiters, active, idle, closed, worker, drain>>

\* The thread ends its transaction: the callback returned a plain value and the
\* commit succeeded, or it raised or returned an awaitable.
ThreadEnds(c) ==
  /\ worker[c] = "running"
  /\ \E end \in {"committed", "rolled_back"} : worker' = [worker EXCEPT ![c] = end]
  /\ UNCHANGED <<free, waiters, active, idle, closed, call, drain>>

\* Mutant: the failure of a worker is consumed instead of raised.
ReleaseSlotSilent(c) ==
  /\ worker[c] \in {"committed", "rolled_back"}
  /\ worker' = [worker EXCEPT ![c] = IF @ = "committed" THEN "committed_done" ELSE "rolled_back_done"]
  /\ active' = active - 1
  /\ idle' = (idle \/ active' = 0)
  /\ ReleasePermit(waiters,
       [call EXCEPT ![c] = IF @ # "awaiting" \/ worker[c] = "rolled_back" THEN @
                           ELSE IF worker[c] = "committed" THEN "result" ELSE "raised"])
  /\ UNCHANGED <<closed, drain>>

\* The worker task is done: release_slot, and the caller's await returns.
ReleaseSlot(c) ==
  /\ worker[c] \in {"committed", "rolled_back"}
  /\ worker' = [worker EXCEPT ![c] = IF @ = "committed" THEN "committed_done" ELSE "rolled_back_done"]
  /\ active' = active - 1
  /\ idle' = (idle \/ active' = 0)
  /\ ReleasePermit(waiters,
       [call EXCEPT ![c] = IF @ # "awaiting" THEN @
                           ELSE IF worker[c] = "committed" THEN "result" ELSE "raised"])
  /\ UNCHANGED <<closed, drain>>

Close ==
  /\ closed' = TRUE
  /\ UNCHANGED <<free, waiters, active, idle, call, worker, drain>>

\* drain closes admission and waits for _idle.
Drain(d) ==
  /\ drain[d] = "new"
  /\ closed' = TRUE
  /\ drain' = [drain EXCEPT ![d] = "waiting"]
  /\ UNCHANGED <<free, waiters, active, idle, call, worker>>

DrainReturns(d) ==
  /\ drain[d] = "waiting"
  /\ \/ idle /\ drain' = [drain EXCEPT ![d] = "drained"]
     \/ drain' = [drain EXCEPT ![d] = "not_drained"]      \* timed out or cancelled
  /\ UNCHANGED <<free, waiters, active, idle, closed, call, worker>>

Next ==
  \/ \E c \in Calls :
       \/ Call(c) \/ Resume(c) \/ GiveUp(c, "no_capacity") \/ GiveUp(c, "cancelled")
       \/ CancelAwait(c) \/ ThreadEnds(c) \/ ReleaseSlot(c)
  \/ Close
  \/ \E d \in Drains : Drain(d) \/ DrainReturns(d)

Spec == Init /\ [][Next]_vars

\* The loop runs what is ready, timeouts fire, and every transaction ends.
Answered(c) == Resume(c) \/ GiveUp(c, "no_capacity")

LiveSpec ==
  /\ Spec
  /\ \A c \in Calls :
       /\ WF_vars(Answered(c))
       /\ WF_vars(ThreadEnds(c))
       /\ WF_vars(ReleaseSlot(c))

-----------------------------------------------------------------------------
(* Properties *)

InSlot(c) == worker[c] \in {"running", "committed", "rolled_back"}

\* A permit is held by exactly the calls that were granted one or whose worker
\* has not been released, whatever is cancelled or times out in between: the
\* executor never has more than maximum_concurrency transactions, none is lost.
PermitsBalanced ==
  /\ active = Cardinality({c \in Calls : InSlot(c)})
  /\ free + active + Cardinality({c \in Calls : call[c] = "granted"}) = Capacity
  /\ idle <=> active = 0
  /\ \A c \in Calls : call[c] = "waiting" <=> c \in Range(waiters)
  /\ free > 0 => waiters = <<>>

\* A drain that returned True is final: no admitted worker is running, and none
\* will be, so the host may close the runtime.
DrainedIsFinal ==
  (\E d \in Drains : drain[d] = "drained") => closed /\ \A c \in Calls : ~InSlot(c)

\* A caller is told that its transaction succeeded only if it committed, and that
\* it was not admitted only if it never ran.
ResultTruthful ==
  \A c \in Calls :
    /\ call[c] = "result" => worker[c] = "committed_done"
    /\ call[c] = "raised" => worker[c] = "rolled_back_done"
    /\ call[c] \in {"rejected", "no_capacity", "refused"} => worker[c] = "none"

\* Every caller gets an answer, whether capacity comes free or not.
CallsAnswered ==
  \A c \in Calls : call[c] # "new" ~> call[c] \notin {"waiting", "granted", "awaiting"}

\* Once admission is closed the workers run out.
CloseQuiesces == closed ~> idle
=============================================================================
