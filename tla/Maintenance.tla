---------------------------- MODULE Maintenance ----------------------------
(***************************************************************************)
(* Maintenance units and their inputs (repositories/maintenance.py).       *)
(* Workers claim a unit under a lease, bind it to an operation, complete   *)
(* its inputs one by one and then the unit, or fail it; a sweep recovers   *)
(* the units whose lease ran out.  Every write but that of an input is     *)
(* fenced by token, claim generation and state revision; a token is drawn  *)
(* per claim and is the generation here.                                   *)
(*                                                                         *)
(* A replayed creation finds the row of its idempotency key and either     *)
(* returns it or, when owner, scope or inputs differ, rolls back.  A unit  *)
(* stands for its key.                                                     *)
(***************************************************************************)
EXTENDS Integers, FiniteSets

CONSTANTS Units, Inputs, Workers, Operations, MaxAttempts, MaxTime, Lease, Null,
          RenewUntil   \* bound: the revision up to which leases are renewed

VARIABLES
    now,
    unit,     \* maintenance_unit rows
    input,    \* maintenance_unit_input rows, Null for an input a unit has not
    held,     \* the claim a worker works under, as it last saw it
    writing,  \* the input a worker's open transaction has written
    bound,    \* history: the operations bound to a unit, by claim
    done      \* history: the claims whose completion was confirmed

vars == <<now, unit, input, held, writing, bound, done>>

-----------------------------------------------------------------------------

Leased == {"claimed", "running"}
Available == {"pending", "failed_retryable"}
Terminal == {"succeeded", "failed_terminal"}

UnitRows == [state: Leased \cup Available \cup Terminal, gen: 0 .. MaxAttempts,
             attempts: 0 .. MaxAttempts, op: Operations \cup {Null}, rev: Nat,
             expires: 0 .. MaxTime + Lease \cup {Null},
             next: 0 .. MaxTime + 1 \cup {Null}]

InputRows == [state: {"pending", "completed"}, op: Operations \cup {Null}]

Claims == [unit: Units, gen: Nat, rev: Nat, op: Operations \cup {Null}]

\* What the module takes for granted of its constants.
MaintenanceConstants ==
    /\ {MaxTime, Lease, RenewUntil} \subseteq Nat
    /\ MaxAttempts \in Nat \ {0}
    /\ Null \notin Int
    /\ Null \notin UnitRows \cup InputRows \cup Claims \cup (Units \X Inputs)

TypeOK ==
    /\ now \in 0 .. MaxTime
    /\ \A u \in Units : unit[u] # Null => unit[u] \in UnitRows
    /\ \A u \in Units : \A i \in Inputs : input[u][i] # Null => input[u][i] \in InputRows

Init ==
    /\ now = 0
    /\ unit = [u \in Units |-> Null]
    /\ input = [u \in Units |-> [i \in Inputs |-> Null]]
    /\ held = [w \in Workers |-> Null]
    /\ writing = [w \in Workers |-> Null]
    /\ bound = {}
    /\ done = {}

-----------------------------------------------------------------------------

CreateUnit(u, members) ==
    /\ unit[u] = Null
    /\ members # {}
    /\ unit' = [unit EXCEPT ![u] = [state |-> "pending", gen |-> 0, attempts |-> 0,
                                    op |-> Null, rev |-> 0, expires |-> Null, next |-> Null]]
    /\ input' = [input EXCEPT ![u] = [i \in Inputs |->
                    IF i \in members THEN [state |-> "pending", op |-> Null] ELSE Null]]
    /\ UNCHANGED <<now, held, writing, bound, done>>

\* What a failed or expired attempt leaves: the next one, or none.
Released(row, retry) ==
    [row EXCEPT !.state = IF row.attempts >= MaxAttempts THEN "failed_terminal"
                                                         ELSE "failed_retryable",
                !.expires = Null,
                !.next = IF row.attempts >= MaxAttempts THEN Null ELSE retry,
                !.rev = @ + 1]

RecoverExpired(u) ==
    /\ unit[u] # Null
    /\ unit[u].state \in Leased
    /\ unit[u].expires <= now
    /\ unit' = [unit EXCEPT ![u] = Released(@, now)]
    /\ UNCHANGED <<now, input, held, writing, bound, done>>

\* The row a claim, a bound operation, a renewal and a completion write.
Claimed(row) ==
    [row EXCEPT !.state = "claimed", !.gen = @ + 1, !.attempts = @ + 1, !.expires = now + Lease,
                !.next = Null, !.rev = @ + 1]
Running(row, op) == [row EXCEPT !.state = "running", !.op = op, !.rev = @ + 1]
Renewed(row) == [row EXCEPT !.expires = now + Lease, !.rev = @ + 1]
Succeeded(row) == [row EXCEPT !.state = "succeeded", !.expires = Null, !.rev = @ + 1]

\* A claim as its worker sees it after a write of its own.
Advanced(claim, op) == [claim EXCEPT !.rev = @ + 1, !.op = op]

\* Rows that others hold locked and the caller's eligible_unit_ids let a
\* claim pass over older units: it takes any that is due.
ClaimNext(w, u) ==
    /\ held[w] = Null /\ unit[u] # Null
    /\ unit[u].state \in Available
    /\ unit[u].next # Null => unit[u].next <= now
    /\ unit[u].attempts < MaxAttempts
    /\ unit' = [unit EXCEPT ![u] = Claimed(@)]
    /\ held' = [held EXCEPT ![w] = [unit |-> u, gen |-> unit'[u].gen, rev |-> unit'[u].rev,
                                    op |-> Null]]
    /\ UNCHANGED <<now, input, writing, bound, done>>

\* _claim_update: the row as the worker saw it, in one of the given states.
ClaimFence(w, states) ==
    /\ held[w] # Null /\ writing[w] = Null
    /\ LET row == unit[held[w].unit] IN
         /\ row.state \in states
         /\ row.gen = held[w].gen
         /\ row.rev = held[w].rev

BindOperation(w, op) ==
    /\ ClaimFence(w, {"claimed"})
    /\ unit' = [unit EXCEPT ![held[w].unit] = Running(@, op)]
    /\ held' = [held EXCEPT ![w] = Advanced(@, op)]
    /\ bound' = bound \cup {[unit |-> held[w].unit, gen |-> held[w].gen, op |-> op]}
    /\ UNCHANGED <<now, input, writing, done>>

RenewClaim(w) ==
    /\ ClaimFence(w, Leased)
    /\ unit[held[w].unit].rev < RenewUntil
    /\ unit' = [unit EXCEPT ![held[w].unit] = Renewed(@)]
    /\ held' = [held EXCEPT ![w] = Advanced(@, held[w].op)]
    /\ UNCHANGED <<now, input, writing, bound, done>>

\* complete_input_for_administration: the statement sees the unit without
\* locking it and keeps the input locked until the transaction ends.
WriteInput(w, i) ==
    /\ held[w] # Null /\ writing[w] = Null
    /\ LET u == held[w].unit IN
         /\ input[u][i] # Null
         /\ input[u][i].state = "pending"
         /\ \A v \in Workers : writing[v] # <<u, i>>
         /\ unit[u].state = "running"
         /\ unit[u].gen = held[w].gen
         /\ unit[u].op = held[w].op
         /\ writing' = [writing EXCEPT ![w] = <<u, i>>]
    /\ UNCHANGED <<now, unit, input, held, bound, done>>

CommitInput(w) ==
    /\ writing[w] # Null
    /\ input' = [input EXCEPT ![writing[w][1]][writing[w][2]] =
                    [state |-> "completed", op |-> held[w].op]]
    /\ writing' = [writing EXCEPT ![w] = Null]
    /\ UNCHANGED <<now, unit, held, bound, done>>

AllCompleted(u) == \A i \in Inputs : input[u][i] # Null => input[u][i].state = "completed"

Complete(w) ==
    /\ ClaimFence(w, {"running"})
    /\ AllCompleted(held[w].unit)
    /\ unit' = [unit EXCEPT ![held[w].unit] = Succeeded(@)]
    /\ done' = done \cup {[unit |-> held[w].unit, gen |-> held[w].gen]}
    /\ held' = [held EXCEPT ![w] = Null]
    /\ UNCHANGED <<now, input, writing, bound>>

Fail(w, retry) ==
    /\ ClaimFence(w, Leased)
    /\ unit' = [unit EXCEPT ![held[w].unit] = Released(@, retry)]
    /\ held' = [held EXCEPT ![w] = Null]
    /\ UNCHANGED <<now, input, writing, bound, done>>

\* A worker that crashes, or whose claim was refused, lets go of it; what its
\* transaction has not committed is rolled back.
Drop(w) ==
    /\ held[w] # Null
    /\ held' = [held EXCEPT ![w] = Null]
    /\ writing' = [writing EXCEPT ![w] = Null]
    /\ UNCHANGED <<now, unit, input, bound, done>>

Tick ==
    /\ now < MaxTime
    /\ now' = now + 1
    /\ UNCHANGED <<unit, input, held, writing, bound, done>>

Next ==
    \/ \E u \in Units, members \in SUBSET Inputs : CreateUnit(u, members)
    \/ \E u \in Units : RecoverExpired(u)
    \/ \E w \in Workers, u \in Units : ClaimNext(w, u)
    \/ \E w \in Workers, op \in Operations : BindOperation(w, op)
    \/ \E w \in Workers : RenewClaim(w)
    \/ \E w \in Workers, i \in Inputs : WriteInput(w, i)
    \/ \E w \in Workers : CommitInput(w)
    \/ \E w \in Workers : Complete(w)
    \/ \E w \in Workers, retry \in {Null, now + 1} : Fail(w, retry)
    \/ \E w \in Workers : Drop(w)
    \/ Tick

Spec == Init /\ [][Next]_vars

-----------------------------------------------------------------------------

\* A unit is leased exactly while it is claimed or running, its attempts are
\* its claims and stay within max_attempts, and one that waits can still be
\* claimed: the candidate a claim locks is never one its update then refuses.
ClaimsCounted ==
    \A u \in Units : unit[u] # Null =>
        /\ (unit[u].state \in Leased) = (unit[u].expires # Null)
        /\ unit[u].attempts = unit[u].gen
        /\ unit[u].state \in Available => unit[u].attempts < MaxAttempts

\* A unit succeeds once, for the claim that was told so, with every input
\* completed under an operation that some claim of this unit had bound.
OutputWhole ==
    /\ \A u \in Units : unit[u] # Null =>
         /\ unit[u].state = "succeeded" =>
                \A i \in Inputs : input[u][i] # Null => input[u][i].state = "completed"
         /\ {d \in done : d.unit = u} =
                (IF unit[u].state = "succeeded" THEN {[unit |-> u, gen |-> unit[u].gen]} ELSE {})
         /\ \A i \in Inputs : input[u][i] # Null => (input[u][i].state = "completed" =>
                \E b \in bound : b.unit = u /\ b.op = input[u][i].op)

MaintenanceSound == TypeOK /\ ClaimsCounted /\ OutputWhole

\* Every change of a unit is one revision, a new claim starts only from a
\* unit nobody holds, a terminal unit stays, and a completed input keeps the
\* operation that completed it, whoever claims the unit afterwards.
MaintenanceStays ==
    \A u \in Units : unit[u] # Null =>
        /\ unit'[u] # unit[u] =>
             /\ unit'[u].rev = unit[u].rev + 1
             /\ unit[u].state \notin Terminal
        /\ unit'[u].gen # unit[u].gen => unit[u].state \in Available
        /\ \A i \in Inputs : input[u][i] # Null =>
             (input[u][i].state = "completed" => input'[u][i] = input[u][i])
=============================================================================
