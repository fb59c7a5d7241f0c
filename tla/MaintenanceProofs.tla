-------------------------- MODULE MaintenanceProofs --------------------------
(***************************************************************************)
(* Proofs about Maintenance, for any number of units, inputs, workers and  *)
(* operations, any lease and any number of attempts.                       *)
(*                                                                         *)
(* That a unit succeeds once, with inputs completed under an operation of  *)
(* its own, is not inductive by itself: complete_input reads the unit      *)
(* without locking it, so the invariant has to carry what the open         *)
(* transaction of a worker knew when it wrote (Writes), and that a running *)
(* unit has its operation among those bound to it (RunningBound).          *)
(***************************************************************************)
EXTENDS Maintenance, TLAPS

\* A leaf that names no backend is for the SMT solver.
USE SMTT(30)

Types ==
    /\ now \in 0 .. MaxTime
    /\ unit \in [Units -> UnitRows \cup {Null}]
    /\ input \in [Units -> [Inputs -> InputRows \cup {Null}]]
    /\ held \in [Workers -> Claims \cup {Null}]
    /\ writing \in [Workers -> (Units \X Inputs) \cup {Null}]

RunningBound ==
    \A u \in Units : (unit[u] # Null /\ unit[u].state = "running") =>
        \E b \in bound : b.unit = u /\ b.op = unit[u].op

HeldExists == \A w \in Workers : held[w] # Null => unit[held[w].unit] # Null

\* An input written and not yet committed is pending, belongs to the unit the
\* worker holds, and no other worker writes it.
Writes ==
    \A w \in Workers : writing[w] # Null =>
        /\ held[w] # Null
        /\ writing[w][1] = held[w].unit
        /\ input[writing[w][1]][writing[w][2]] # Null
        /\ input[writing[w][1]][writing[w][2]].state = "pending"
        /\ \E b \in bound : b.unit = held[w].unit /\ b.op = held[w].op
        /\ \A v \in Workers : writing[v] = writing[w] => v = w

DoneExists == \A d \in done : d.unit \in Units => unit[d.unit] # Null

IInv == Types /\ ClaimsCounted /\ OutputWhole /\ RunningBound /\ HeldExists /\ Writes /\ DoneExists

-----------------------------------------------------------------------------

LEMMA InitInv == ASSUME MaintenanceConstants, Init PROVE IInv
BY DEF MaintenanceConstants, Init, IInv, Types, ClaimsCounted, OutputWhole, RunningBound, HeldExists,
       Writes, DoneExists

\* The row a failed or expired attempt leaves behind.
LEMMA ReleasedRow ==
    ASSUME MaintenanceConstants, NEW row \in UnitRows, NEW retry \in 0 .. MaxTime + 1 \cup {Null}
    PROVE  /\ Released(row, retry) \in UnitRows
           /\ Released(row, retry).state \in {"failed_terminal", "failed_retryable"}
           /\ Released(row, retry).state = "failed_retryable" => row.attempts < MaxAttempts
           /\ Released(row, retry).expires = Null
           /\ Released(row, retry).gen = row.gen
           /\ Released(row, retry).attempts = row.attempts
           /\ Released(row, retry).rev = row.rev + 1
<1> DEFINE state == IF row.attempts >= MaxAttempts THEN "failed_terminal" ELSE "failed_retryable"
           next == IF row.attempts >= MaxAttempts THEN Null ELSE retry
<1>1. state \in Leased \cup Available \cup Terminal /\ next \in 0 .. MaxTime + 1 \cup {Null}
  BY Zenon DEF Leased, Available, Terminal
<1>2. Released(row, retry) = [row EXCEPT !.state = state, !.expires = Null, !.next = next, !.rev = @ + 1]
  BY Zenon DEF Released
<1>3. Released(row, retry) \in UnitRows
  <2> HIDE DEF state, next
  <2>1. row.rev + 1 \in Nat
    BY DEF UnitRows
  <2> QED
    BY <1>1, <1>2, <2>1, Zenon DEF UnitRows
<1> QED
  BY <1>3 DEF MaintenanceConstants, Released, UnitRows

\* The rows the holder of a claim writes.
LEMMA ClaimedRow ==
    ASSUME MaintenanceConstants, Types, NEW row \in UnitRows, row.attempts < MaxAttempts,
           row.attempts = row.gen
    PROVE  /\ Claimed(row) \in UnitRows /\ Claimed(row).state = "claimed"
           /\ Claimed(row).expires # Null /\ Claimed(row).attempts = Claimed(row).gen
           /\ Claimed(row).gen \in Nat /\ Claimed(row).rev = row.rev + 1 /\ row.rev + 1 \in Nat
<1>1. "claimed" \in Leased \cup Available \cup Terminal
  BY Zenon DEF Leased
<1>2. /\ now + Lease \in 0 .. MaxTime + Lease /\ row.gen + 1 \in 0 .. MaxAttempts
      /\ row.attempts + 1 \in 0 .. MaxAttempts /\ row.rev + 1 \in Nat
      /\ now + Lease # Null
  BY DEF UnitRows, MaintenanceConstants, Types
<1>3. Claimed(row) \in UnitRows
  BY <1>1, <1>2, Zenon DEF UnitRows, Claimed
<1>4. /\ Claimed(row).state = "claimed" /\ Claimed(row).expires = now + Lease
      /\ Claimed(row).attempts = row.attempts + 1
      /\ Claimed(row).gen = row.gen + 1 /\ Claimed(row).rev = row.rev + 1
  BY Zenon DEF UnitRows, Claimed
<1> QED
  BY <1>2, <1>3, <1>4

LEMMA RunningRow ==
    ASSUME NEW row \in UnitRows, NEW op \in Operations
    PROVE  /\ Running(row, op) \in UnitRows
           /\ Running(row, op).state = "running" /\ Running(row, op).op = op
           /\ Running(row, op).expires = row.expires /\ Running(row, op).gen = row.gen
           /\ Running(row, op).attempts = row.attempts /\ Running(row, op).rev = row.rev + 1
<1>1. "running" \in Leased \cup Available \cup Terminal /\ row.rev + 1 \in Nat
  BY DEF Leased, UnitRows
<1> QED
  BY <1>1, Zenon DEF UnitRows, Running

LEMMA RenewedRow ==
    ASSUME MaintenanceConstants, Types, NEW row \in UnitRows
    PROVE  /\ Renewed(row) \in UnitRows
           /\ Renewed(row).state = row.state /\ Renewed(row).op = row.op
           /\ Renewed(row).expires # Null /\ Renewed(row).gen = row.gen
           /\ Renewed(row).attempts = row.attempts /\ Renewed(row).rev = row.rev + 1
<1>1. now + Lease \in 0 .. MaxTime + Lease /\ now + Lease # Null /\ row.rev + 1 \in Nat
  BY DEF UnitRows, MaintenanceConstants, Types
<1> QED
  BY <1>1, Zenon DEF UnitRows, Renewed

LEMMA SucceededRow ==
    ASSUME MaintenanceConstants, NEW row \in UnitRows
    PROVE  /\ Succeeded(row) \in UnitRows /\ Succeeded(row) # Null
           /\ Succeeded(row).state = "succeeded" /\ Succeeded(row).expires = Null
           /\ Succeeded(row).gen = row.gen
           /\ Succeeded(row).attempts = row.attempts /\ Succeeded(row).rev = row.rev + 1
<1>1. "succeeded" \in Leased \cup Available \cup Terminal /\ row.rev + 1 \in Nat
  BY DEF Terminal, UnitRows
<1>2. Succeeded(row) \in UnitRows
  BY <1>1, Zenon DEF UnitRows, Succeeded
<1> QED
  BY <1>2, Zenon DEF UnitRows, Succeeded, MaintenanceConstants

LEMMA AdvancedClaim ==
    ASSUME NEW claim \in Claims, NEW op \in Operations \cup {Null}
    PROVE  Advanced(claim, op) \in Claims /\ Advanced(claim, op).unit = claim.unit
<1>1. claim.rev + 1 \in Nat
  BY DEF Claims
<1> QED
  BY <1>1, Zenon DEF Claims, Advanced

\* What a write to one row that leaves the unit unfinished preserves.
LEMMA RowStep ==
    ASSUME MaintenanceConstants, IInv, NEW u \in Units, NEW new \in UnitRows,
           unit[u] # Null, unit[u].state # "succeeded", new.state # "succeeded",
           (new.state \in Leased) = (new.expires # Null),
           new.attempts = new.gen,
           new.state \in Available => new.attempts < MaxAttempts,
           new.state = "running" => \E b \in bound' : b.unit = u /\ b.op = new.op,
           unit' = [unit EXCEPT ![u] = new],
           bound \subseteq bound', input' = input, done' = done
    PROVE  /\ unit' \in [Units -> UnitRows \cup {Null}]
           /\ ClaimsCounted' /\ OutputWhole' /\ RunningBound' /\ DoneExists'
           /\ \A v \in Units : unit[v] # Null => unit'[v] # Null
<1> USE DEF IInv, Types
<1>0. new # Null
  BY Zenon DEF MaintenanceConstants
<1>1. unit' \in [Units -> UnitRows \cup {Null}] /\ \A v \in Units : v # u => unit'[v] = unit[v]
  BY Zenon
<1>2. unit'[u] = new
  BY Zenon
<1>3. ClaimsCounted'
  BY <1>0, <1>1, <1>2, Zenon DEF ClaimsCounted
<1>4. RunningBound'
  BY <1>0, <1>1, <1>2 DEF RunningBound
<1>5. DoneExists'
  BY <1>0, <1>1, <1>2, Zenon DEF DoneExists
<1>6. OutputWhole'
  BY <1>0, <1>1, <1>2 DEF OutputWhole
<1> QED
  BY <1>0, <1>1, <1>2, <1>3, <1>4, <1>5, <1>6, Zenon

\* What a write to the rows of units preserves of the open transactions.
LEMMA OthersHold ==
    ASSUME MaintenanceConstants, IInv, NEW w \in Workers,
           \A v \in Units : unit[v] # Null => unit'[v] # Null,
           held' \in [Workers -> Claims \cup {Null}],
           \A v \in Workers : v # w => held'[v] = held[v],
           held'[w] # Null => unit'[held'[w].unit] # Null,
           writing' = writing, writing[w] = Null,
           bound \subseteq bound', input' = input
    PROVE  HeldExists' /\ Writes'
<1>1. HeldExists'
  BY Zenon DEF IInv, Types, HeldExists, Claims
<1>2. Writes'
  BY DEF IInv, Types, Writes
<1> QED
  BY <1>1, <1>2, Zenon

\* What a step keeps that leaves the units, or the units and the inputs, alone.
LEMMA UnitsKept ==
    ASSUME IInv, unit' = unit, bound' = bound, done' = done
    PROVE  /\ ClaimsCounted' /\ RunningBound' /\ DoneExists'
           /\ input' = input => OutputWhole'
<1>1. ClaimsCounted'
  BY Zenon DEF IInv, ClaimsCounted
<1>2. RunningBound'
  BY Zenon DEF IInv, RunningBound
<1>3. DoneExists'
  BY Zenon DEF IInv, DoneExists
<1>4. ASSUME input' = input PROVE OutputWhole'
  BY <1>4 DEF IInv, OutputWhole
<1> QED
  BY <1>1, <1>2, <1>3, <1>4, Zenon

LEMMA ClaimsKept ==
    ASSUME IInv, unit' = unit, held' = held
    PROVE  /\ HeldExists'
           /\ UNCHANGED <<input, writing, bound>> => Writes'
<1>1. HeldExists'
  BY Zenon DEF IInv, HeldExists
<1>2. ASSUME UNCHANGED <<input, writing, bound>> PROVE Writes'
  BY <1>2, Zenon DEF IInv, Writes
<1> QED
  BY <1>1, <1>2, Zenon

-----------------------------------------------------------------------------

LEMMA NextInv == ASSUME MaintenanceConstants, IInv, [Next]_vars PROVE IInv'
<1> USE DEF IInv
<1>1. ASSUME NEW u \in Units, NEW members \in SUBSET Inputs, CreateUnit(u, members) PROVE IInv'
  <2> DEFINE fresh == [state |-> "pending", gen |-> 0, attempts |-> 0,
                       op |-> Null, rev |-> 0, expires |-> Null, next |-> Null]
  <2>1. fresh \in UnitRows /\ fresh # Null
    BY DEF MaintenanceConstants, UnitRows, Leased, Available, Terminal
  <2>2. /\ unit' = [unit EXCEPT ![u] = fresh]
        /\ unit' \in [Units -> UnitRows \cup {Null}]
        /\ unit'[u] = fresh
        /\ \A v \in Units : v # u => unit'[v] = unit[v]
        /\ \A v \in Units : unit[v] # Null => unit'[v] # Null /\ v # u
    BY <1>1, <2>1, Zenon DEF CreateUnit, Types
  <2>3. /\ \A i \in Inputs : input'[u][i] \in InputRows \cup {Null}
        /\ \A i \in Inputs : input'[u][i] # Null => input'[u][i].state = "pending"
        /\ \A v \in Units : v # u => input'[v] = input[v]
        /\ input' \in [Units -> [Inputs -> InputRows \cup {Null}]]
    BY <1>1, Zenon DEF CreateUnit, Types, InputRows
  <2>4. Types'
    BY <1>1, <2>2, <2>3, Zenon DEF CreateUnit, Types
  <2>5. ClaimsCounted'
    BY <2>2 DEF ClaimsCounted, Leased, Available, MaintenanceConstants
  <2>6. OutputWhole'
    BY <1>1, <2>2, <2>3 DEF OutputWhole, DoneExists, CreateUnit
  <2>7. RunningBound' /\ HeldExists' /\ DoneExists'
    BY <1>1, <2>2 DEF RunningBound, HeldExists, DoneExists, CreateUnit, Types, Claims
  <2>8. Writes'
    BY <1>1, <2>2, <2>3 DEF Writes, HeldExists, CreateUnit, Types, Claims
  <2> QED
    BY <2>4, <2>5, <2>6, <2>7, <2>8, Zenon
<1>2. ASSUME NEW u \in Units, RecoverExpired(u) PROVE IInv'
  <2>1. unit[u] \in UnitRows /\ now \in 0 .. MaxTime + 1 \cup {Null}
    BY <1>2 DEF RecoverExpired, Types, MaintenanceConstants
  <2> DEFINE new == Released(unit[u], now)
  <2>2. unit' = [unit EXCEPT ![u] = new] /\ unit[u].state # "succeeded" /\ unit[u] # Null
    BY <1>2, Zenon DEF RecoverExpired, Leased
  <2>3. /\ new \in UnitRows /\ new.state # "succeeded" /\ new.state # "running"
        /\ (new.state \in Leased) = (new.expires # Null)
        /\ new.attempts = new.gen
        /\ new.state \in Available => new.attempts < MaxAttempts
    <3> HIDE DEF new
    <3>1. new \in UnitRows /\ new.state \in {"failed_terminal", "failed_retryable"}
          /\ (new.state = "failed_retryable" => unit[u].attempts < MaxAttempts)
          /\ new.expires = Null /\ new.gen = unit[u].gen /\ new.attempts = unit[u].attempts
      BY <2>1, ReleasedRow, Zenon DEF new
    <3> QED
      BY <2>2, <3>1 DEF ClaimsCounted, Leased, Available
  <2> HIDE DEF new
  <2>4. /\ unit' \in [Units -> UnitRows \cup {Null}]
        /\ ClaimsCounted' /\ OutputWhole' /\ RunningBound' /\ DoneExists'
        /\ \A v \in Units : unit[v] # Null => unit'[v] # Null
    BY <1>2, <2>2, <2>3, RowStep, Zenon DEF RecoverExpired
  <2>5. Types' /\ HeldExists' /\ Writes'
    BY <1>2, <2>4 DEF RecoverExpired, Types, HeldExists, Writes, Claims
  <2> QED
    BY <2>4, <2>5, Zenon
<1>3. ASSUME NEW w \in Workers, NEW u \in Units, ClaimNext(w, u) PROVE IInv'
  <2> DEFINE new == Claimed(unit[u])
  <2>1. /\ unit[u] \in UnitRows /\ unit[u] # Null /\ unit[u].state \in Available
        /\ unit[u].attempts < MaxAttempts /\ unit[u].attempts = unit[u].gen
    BY <1>3, Zenon DEF ClaimNext, Types, ClaimsCounted
  <2>2. /\ new \in UnitRows /\ new.state = "claimed"
        /\ new.expires # Null /\ new.attempts = new.gen
        /\ new.gen \in Nat /\ new.rev \in Nat
    BY <2>1, ClaimedRow, Zenon
  <2> HIDE DEF new
  <2>3. unit' = [unit EXCEPT ![u] = new] /\ unit'[u] = new
    BY <1>3, Zenon DEF ClaimNext, Types, new
  <2>4. /\ unit' \in [Units -> UnitRows \cup {Null}]
        /\ ClaimsCounted' /\ OutputWhole' /\ RunningBound' /\ DoneExists'
        /\ \A v \in Units : unit[v] # Null => unit'[v] # Null
    BY <1>3, <2>1, <2>2, <2>3, RowStep, Zenon DEF ClaimNext, Leased, Available
  <2>5. /\ held' \in [Workers -> Claims \cup {Null}]
        /\ \A v \in Workers : v # w => held'[v] = held[v]
        /\ held'[w].unit = u
    <3> DEFINE claim == [unit |-> u, gen |-> new.gen, rev |-> new.rev, op |-> Null]
    <3>1. claim \in Claims /\ claim.unit = u
      BY <2>2, Zenon DEF Claims
    <3>2. held' = [held EXCEPT ![w] = claim]
      BY <1>3, <2>3, Zenon DEF ClaimNext
    <3> HIDE DEF claim
    <3> QED
      BY <3>1, <3>2, Zenon DEF Types
  <2>6. HeldExists' /\ Writes'
    <3>1. writing' = writing /\ bound' = bound /\ input' = input /\ writing[w] = Null
      BY <1>3, Zenon DEF ClaimNext, Writes
    <3>2. unit'[held'[w].unit] # Null
      BY <2>1, <2>4, <2>5, Zenon
    <3> QED
      BY <2>4, <2>5, <3>1, <3>2, OthersHold, Zenon
  <2> QED
    BY <1>3, <2>4, <2>5, <2>6, Zenon DEF ClaimNext, Types
<1>4. ASSUME NEW w \in Workers, NEW op \in Operations, BindOperation(w, op) PROVE IInv'
  <2> DEFINE u == held[w].unit
             new == Running(unit[u], op)
  <2>1. /\ u \in Units /\ unit[u] \in UnitRows /\ unit[u] # Null
        /\ unit[u].state = "claimed" /\ held[w] \in Claims
    BY <1>4, Zenon DEF BindOperation, ClaimFence, Types, HeldExists, Claims
  <2>2. /\ new \in UnitRows /\ new.state = "running" /\ new.op = op
        /\ new.expires # Null /\ new.attempts = new.gen
    BY <2>1, RunningRow DEF ClaimsCounted, Leased
  <2>3. [unit |-> u, gen |-> held[w].gen, op |-> op] \in bound' /\ bound \subseteq bound'
    BY <1>4, Zenon DEF BindOperation
  <2> HIDE DEF new
  <2>4. unit' = [unit EXCEPT ![u] = new]
    BY <1>4, Zenon DEF BindOperation, new
  <2>5. /\ unit' \in [Units -> UnitRows \cup {Null}]
        /\ ClaimsCounted' /\ OutputWhole' /\ RunningBound' /\ DoneExists'
        /\ \A v \in Units : unit[v] # Null => unit'[v] # Null
    <3> HIDE DEF u
    <3>1. input' = input /\ done' = done
      BY <1>4, Zenon DEF BindOperation
    <3>2. \E b \in bound' : b.unit = u /\ b.op = new.op
      BY <2>2, <2>3, Zenon
    <3> QED BY <2>1, <2>2, <2>3, <2>4, <3>1, <3>2, RowStep, Zenon DEF Leased, Available
  <2>6. /\ held' \in [Workers -> Claims \cup {Null}]
        /\ \A v \in Workers : v # w => held'[v] = held[v]
        /\ held'[w].unit = u
    BY <1>4, <2>1, AdvancedClaim, Zenon DEF BindOperation, Types
  <2>7. HeldExists' /\ Writes'
    <3>1. writing' = writing /\ input' = input /\ writing[w] = Null
      BY <1>4, Zenon DEF BindOperation, ClaimFence
    <3>2. unit'[held'[w].unit] # Null
      BY <2>1, <2>5, <2>6, Zenon
    <3> QED
      BY <2>3, <2>5, <2>6, <3>1, <3>2, OthersHold, Zenon
  <2> QED
    BY <1>4, <2>5, <2>6, <2>7, Zenon DEF BindOperation, Types
<1>5. ASSUME NEW w \in Workers, RenewClaim(w) PROVE IInv'
  <2> DEFINE u == held[w].unit
             new == Renewed(unit[u])
  <2>1. /\ u \in Units /\ unit[u] \in UnitRows /\ unit[u] # Null
        /\ unit[u].state \in Leased /\ held[w] \in Claims /\ held[w].op \in Operations \cup {Null}
    BY <1>5, Zenon DEF RenewClaim, ClaimFence, Types, HeldExists, Claims
  <2>2. /\ new \in UnitRows /\ new.state = unit[u].state /\ new.op = unit[u].op
        /\ new.expires # Null /\ new.attempts = new.gen
    BY <2>1, RenewedRow, Zenon DEF ClaimsCounted
  <2> HIDE DEF new
  <2>4. unit' = [unit EXCEPT ![u] = new]
    BY <1>5, Zenon DEF RenewClaim, new
  <2>5. /\ unit' \in [Units -> UnitRows \cup {Null}]
        /\ ClaimsCounted' /\ OutputWhole' /\ RunningBound' /\ DoneExists'
        /\ \A v \in Units : unit[v] # Null => unit'[v] # Null
    <3> HIDE DEF u
    <3>1. new.state = "running" => \E b \in bound : b.unit = u /\ b.op = new.op
      BY <2>1, <2>2, Zenon DEF RunningBound
    <3> QED BY <1>5, <2>1, <2>2, <2>4, <3>1, RowStep, Zenon DEF RenewClaim, Leased, Available
  <2>6. /\ held' \in [Workers -> Claims \cup {Null}]
        /\ \A v \in Workers : v # w => held'[v] = held[v]
        /\ held'[w].unit = u
    BY <1>5, <2>1, AdvancedClaim, Zenon DEF RenewClaim, Types
  <2>7. HeldExists' /\ Writes'
    <3>1. writing' = writing /\ bound' = bound /\ input' = input /\ writing[w] = Null
      BY <1>5, Zenon DEF RenewClaim, ClaimFence
    <3>2. unit'[held'[w].unit] # Null
      BY <2>1, <2>5, <2>6, Zenon
    <3> QED
      BY <2>5, <2>6, <3>1, <3>2, OthersHold, Zenon
  <2> QED
    BY <1>5, <2>5, <2>6, <2>7, Zenon DEF RenewClaim, Types
<1>6. ASSUME NEW w \in Workers, NEW i \in Inputs, WriteInput(w, i) PROVE IInv'
  <2> DEFINE u == held[w].unit
  <2>1. u \in Units /\ unit[u] # Null /\ unit[u].state = "running" /\ unit[u].op = held[w].op
    BY <1>6, Zenon DEF WriteInput, Types, HeldExists, Claims
  <2>2. \E b \in bound : b.unit = u /\ b.op = held[w].op
    BY <2>1 DEF RunningBound
  <2>3. Types' /\ writing'[w] = <<u, i>> /\ \A v \in Workers : v # w => writing'[v] = writing[v]
    BY <1>6, <2>1, Zenon DEF WriteInput, Types
  <2>4. /\ UNCHANGED <<unit, input, held, bound, done>>
        /\ held[w] # Null /\ input[u][i] # Null /\ input[u][i].state = "pending"
        /\ \A v \in Workers : writing[v] # <<u, i>>
    BY <1>6, Zenon DEF WriteInput
  <2>5. Writes'
    <3> SUFFICES ASSUME NEW v \in Workers, writing'[v] # Null PROVE Writes!(v)'
      BY Zenon DEF Writes
    <3> HIDE DEF u
    <3>1. CASE v = w
      BY <2>2, <2>3, <2>4, <3>1 DEF u
    <3>2. CASE v # w
      BY <2>3, <2>4, <3>2 DEF Writes
    <3> QED
      BY <3>1, <3>2, Zenon
  <2> QED
    BY <2>3, <2>4, <2>5, UnitsKept, ClaimsKept, Zenon
<1>7. ASSUME NEW w \in Workers, CommitInput(w) PROVE IInv'
  <2> DEFINE u == writing[w][1]
             i == writing[w][2]
             new == [state |-> "completed", op |-> held[w].op]
  <2>1. /\ u \in Units /\ i \in Inputs /\ writing[w] = <<u, i>> /\ held[w] \in Claims
        /\ u = held[w].unit /\ unit[u] # Null /\ input[u][i] # Null /\ input[u][i].state = "pending"
        /\ \E b \in bound : b.unit = u /\ b.op = held[w].op
    <3>1. writing[w] # Null /\ writing[w] \in Units \X Inputs
      BY <1>7, Zenon DEF CommitInput, Types
    <3>2. /\ held[w] \in Claims /\ u = held[w].unit /\ input[u][i] # Null /\ input[u][i].state = "pending"
          /\ \E b \in bound : b.unit = u /\ b.op = held[w].op
      BY <3>1 DEF Types, Writes
    <3>3. u \in Units /\ i \in Inputs /\ writing[w] = <<u, i>>
      BY <3>1
    <3>4. held[w] # Null
      BY <3>1, Zenon DEF Writes
    <3>5. unit[u] # Null
      BY <3>2, <3>4, Zenon DEF HeldExists
    <3> QED
      BY <3>2, <3>3, <3>5, Zenon
  <2>2. new \in InputRows /\ new # Null
    BY <2>1 DEF InputRows, Claims, MaintenanceConstants
  <2>3. /\ input' \in [Units -> [Inputs -> InputRows \cup {Null}]]
        /\ input'[u][i] = new
        /\ \A v \in Units, j \in Inputs : <<v, j>> # <<u, i>> => input'[v][j] = input[v][j]
    BY <1>7, <2>1, <2>2, Zenon DEF CommitInput, Types
  <2>4. /\ writing' \in [Workers -> (Units \X Inputs) \cup {Null}]
        /\ writing'[w] = Null /\ \A v \in Workers : v # w => writing'[v] = writing[v]
    BY <1>7, Zenon DEF CommitInput, Types
  <2>5. Types'
    BY <1>7, <2>3, <2>4, Zenon DEF CommitInput, Types
  <2>6. OutputWhole'
    <3> HIDE DEF u, i
    <3>1. unit' = unit /\ bound' = bound /\ done' = done
      BY <1>7, Zenon DEF CommitInput
    <3>2. ASSUME NEW v \in Units, NEW j \in Inputs, unit[v] # Null, input'[v][j] # Null
          PROVE  /\ unit[v].state = "succeeded" => input'[v][j].state = "completed"
                 /\ input'[v][j].state = "completed" => \E b \in bound : b.unit = v /\ b.op = input'[v][j].op
      <4>1. CASE <<v, j>> = <<u, i>>
        BY <2>1, <2>3, <4>1
      <4>2. CASE <<v, j>> # <<u, i>>
        BY <2>3, <3>2, <4>2 DEF OutputWhole
      <4> QED BY <4>1, <4>2, Zenon
    <3> QED
      BY <3>1, <3>2 DEF OutputWhole
  <2>7. Writes'
    <3> SUFFICES ASSUME NEW v \in Workers, writing'[v] # Null PROVE Writes!(v)'
      BY Zenon DEF Writes
    <3> HIDE DEF u, i
    <3>1. v # w /\ writing'[v] = writing[v] /\ writing[v] # <<u, i>>
      BY <1>7, <2>1, <2>4 DEF Writes, CommitInput
    <3>2. writing[v] \in Units \X Inputs
      BY <3>1, Zenon DEF Types
    <3>3. input'[writing[v][1]][writing[v][2]] = input[writing[v][1]][writing[v][2]]
      <4> PICK a \in Units, b \in Inputs : writing[v] = <<a, b>>
        BY <3>2
      <4> QED
        BY <2>3, <3>1
    <3> QED
      <4>1. held' = held /\ bound' = bound
        BY <1>7, Zenon DEF CommitInput
      <4>2. \A x \in Workers : writing'[x] = writing[v] => x = v
        BY <2>4, <3>1 DEF Writes
      <4> QED
        BY <3>1, <3>3, <4>1, <4>2 DEF Writes
  <2>8. UNCHANGED <<unit, held, bound, done>>
    BY <1>7, Zenon DEF CommitInput
  <2> QED
    BY <2>5, <2>6, <2>7, <2>8, UnitsKept, ClaimsKept, Zenon
<1>8. ASSUME NEW w \in Workers, Complete(w) PROVE IInv'
  <2> DEFINE u == held[w].unit
             new == Succeeded(unit[u])
  <2>1. /\ u \in Units /\ unit[u] \in UnitRows /\ unit[u] # Null
        /\ unit[u].state = "running" /\ unit[u].gen = held[w].gen
    BY <1>8 DEF Complete, ClaimFence, Types, HeldExists, Claims
  <2>2. /\ new \in UnitRows /\ new.state = "succeeded" /\ new.expires = Null
        /\ new.attempts = new.gen /\ new.gen = held[w].gen /\ new # Null
    BY <2>1, SucceededRow, Zenon DEF ClaimsCounted
  <2> HIDE DEF new
  <2>3. /\ unit'[u] = new /\ \A v \in Units : v # u => unit'[v] = unit[v]
        /\ unit' \in [Units -> UnitRows \cup {Null}]
    BY <1>8, <2>1, <2>2, Zenon DEF Complete, Types, new
  <2>4. /\ held' \in [Workers -> Claims \cup {Null}] /\ held'[w] = Null
        /\ \A v \in Workers : v # w => held'[v] = held[v]
    BY <1>8, Zenon DEF Complete, Types
  <2>5. Types'
    BY <1>8, <2>3, <2>4, Zenon DEF Complete, Types
  <2>6. ClaimsCounted'
    BY <2>1, <2>2, <2>3 DEF ClaimsCounted, Leased, Available
  <2>7. /\ input' = input /\ bound' = bound /\ done' = done \cup {[unit |-> u, gen |-> held[w].gen]}
        /\ \A i \in Inputs : input[u][i] # Null => input[u][i].state = "completed"
    BY <1>8, Zenon DEF Complete, AllCompleted
  <2>8. OutputWhole'
    <3> HIDE DEF u
    <3> SUFFICES ASSUME NEW v \in Units, unit'[v] # Null PROVE OutputWhole!1!(v)'
      BY Zenon DEF OutputWhole
    <3>1. CASE v = u
      BY <2>1, <2>2, <2>3, <2>7, <3>1 DEF OutputWhole
    <3>2. CASE v # u
      BY <2>3, <2>7, <3>2 DEF OutputWhole
    <3> QED
      BY <3>1, <3>2, Zenon
  <2>9. RunningBound' /\ DoneExists'
    <3>1. RunningBound'
      BY <2>1, <2>2, <2>3, <2>7 DEF RunningBound
    <3>2. DoneExists'
      BY <2>1, <2>2, <2>3, <2>7 DEF DoneExists
    <3> QED
      BY <3>1, <3>2, Zenon
  <2>10. HeldExists' /\ Writes'
    <3>1. \A v \in Units : unit[v] # Null => unit'[v] # Null
      BY <2>1, <2>2, <2>3, Zenon
    <3> QED BY <1>8, <2>4, <3>1, OthersHold, Zenon DEF Complete, ClaimFence
  <2> QED
    BY <2>5, <2>6, <2>8, <2>9, <2>10, Zenon
<1>9. ASSUME NEW w \in Workers, NEW retry \in {Null, now + 1}, Fail(w, retry) PROVE IInv'
  <2> DEFINE u == held[w].unit
             new == Released(unit[u], retry)
  <2>1. /\ u \in Units /\ unit[u] \in UnitRows /\ unit[u] # Null
        /\ unit[u].state \in Leased /\ retry \in 0 .. MaxTime + 1 \cup {Null}
    BY <1>9 DEF Fail, ClaimFence, Types, HeldExists, Claims, MaintenanceConstants
  <2>2. new \in UnitRows /\ new.state \in {"failed_terminal", "failed_retryable"}
        /\ (new.state = "failed_retryable" => unit[u].attempts < MaxAttempts)
        /\ new.expires = Null /\ new.gen = unit[u].gen /\ new.attempts = unit[u].attempts
    BY <2>1, ReleasedRow, Zenon
  <2> HIDE DEF new
  <2>3. unit' = [unit EXCEPT ![u] = new]
    BY <1>9, Zenon DEF Fail, new
  <2>4. /\ new.state # "succeeded" /\ new.state # "running"
        /\ (new.state \in Leased) = (new.expires # Null)
        /\ new.attempts = new.gen /\ unit[u].state # "succeeded"
        /\ new.state \in Available => new.attempts < MaxAttempts
    BY <2>1, <2>2 DEF ClaimsCounted, Leased, Available
  <2>5. /\ unit' \in [Units -> UnitRows \cup {Null}]
        /\ ClaimsCounted' /\ OutputWhole' /\ RunningBound' /\ DoneExists'
        /\ \A v \in Units : unit[v] # Null => unit'[v] # Null
    <3> HIDE DEF u
    <3>1. input' = input /\ bound' = bound /\ done' = done
      BY <1>9, Zenon DEF Fail
    <3> QED
      BY <2>1, <2>2, <2>3, <2>4, <3>1, RowStep, Zenon
  <2>6. /\ held' \in [Workers -> Claims \cup {Null}] /\ held'[w] = Null
        /\ \A v \in Workers : v # w => held'[v] = held[v]
    BY <1>9, Zenon DEF Fail, Types
  <2>7. HeldExists' /\ Writes'
    <3>1. writing' = writing /\ bound' = bound /\ input' = input /\ writing[w] = Null
      BY <1>9, Zenon DEF Fail, ClaimFence
    <3> QED
      BY <2>5, <2>6, <3>1, OthersHold, Zenon
  <2> QED
    BY <1>9, <2>5, <2>6, <2>7, Zenon DEF Fail, Types
<1>10. ASSUME NEW w \in Workers, Drop(w) PROVE IInv'
  <2>1. Types' /\ HeldExists'
    BY <1>10, Zenon DEF Drop, Types, HeldExists, Claims
  <2>2. Writes'
    BY <1>10 DEF Drop, Types, Writes
  <2> QED
    <3>1. UNCHANGED <<unit, input, bound, done>>
      BY <1>10, Zenon DEF Drop
    <3> QED
      BY <2>1, <2>2, <3>1, UnitsKept, Zenon
<1>11. CASE Tick
  <2>1. UNCHANGED <<unit, input, held, writing, bound, done>>
    BY <1>11, Zenon DEF Tick
  <2>2. Types'
    BY <1>11, <2>1 DEF Tick, Types, MaintenanceConstants
  <2> QED
    BY <2>1, <2>2, UnitsKept, ClaimsKept, Zenon
<1>12. CASE UNCHANGED vars
  <2>1. UNCHANGED <<unit, input, held, writing, bound, done>> /\ Types'
    BY <1>12, Zenon DEF vars, Types
  <2> QED
    BY <2>1, UnitsKept, ClaimsKept, Zenon
<1> QED
  BY <1>1, <1>2, <1>3, <1>4, <1>5, <1>6, <1>7, <1>8, <1>9, <1>10, <1>11, <1>12, Zenon DEF Next
-----------------------------------------------------------------------------

\* A unit is leased exactly while it is claimed or running, its attempts are
\* its claims and stay within max_attempts; it succeeds once, for the claim
\* that was told so, and every completed input names an operation some claim
\* of that unit had bound, although complete_input reads the unit unlocked
\* (maintenance.py).  For every lease, clock bound and number of workers.
THEOREM UpkeepSound == ASSUME MaintenanceConstants PROVE Spec => []MaintenanceSound
<1>1. Init => IInv
  BY InitInv, Zenon
<1>2. IInv /\ [Next]_vars => IInv'
  BY NextInv, Zenon
<1>3. IInv => MaintenanceSound
  BY Zenon DEF IInv, Types, MaintenanceSound, TypeOK
<1> QED
  BY <1>1, <1>2, <1>3, PTL DEF Spec

\* Every write of a unit is one revision and none follows a terminal state; a
\* new claim starts only from a unit nobody holds, and a completed input keeps
\* the operation that completed it, whoever claims the unit afterwards.
THEOREM UpkeepStays == ASSUME MaintenanceConstants PROVE Spec => [][MaintenanceStays]_vars
<1>1. ASSUME IInv, [Next]_vars PROVE [MaintenanceStays]_vars
  <2> SUFFICES ASSUME Next, NEW u \in Units, unit[u] # Null PROVE MaintenanceStays!(u)
    BY <1>1, Zenon DEF MaintenanceStays
  <2>1. unit[u] \in UnitRows
    BY <1>1, Zenon DEF IInv, Types
  <2>2. ASSUME NEW v \in Units, NEW members \in SUBSET Inputs, CreateUnit(v, members)
        PROVE  MaintenanceStays!(u)
    BY <1>1, <2>2, Zenon DEF CreateUnit, IInv, Types
  <2>3. ASSUME unit' = unit, input' = input PROVE MaintenanceStays!(u)
    BY <2>3, Zenon
  <2>4. ASSUME NEW v \in Units, NEW new, unit' = [unit EXCEPT ![v] = new], input' = input,
               v = u => /\ new.rev = unit[u].rev + 1 /\ unit[u].state \notin Terminal
                        /\ new.gen # unit[u].gen => unit[u].state \in Available
        PROVE  MaintenanceStays!(u)
    BY <1>1, <2>4, Zenon DEF IInv, Types
  <2>5. ASSUME NEW v \in Units, RecoverExpired(v) PROVE MaintenanceStays!(u)
    <3>1. now \in 0 .. MaxTime + 1 \cup {Null}
      BY <1>1 DEF IInv, Types, MaintenanceConstants
    <3>2. Released(unit[u], now).rev = unit[u].rev + 1 /\ Released(unit[u], now).gen = unit[u].gen
      BY <2>1, <3>1, ReleasedRow, Zenon
    <3> QED
      BY <2>4, <2>5, <3>2, Zenon DEF RecoverExpired, Leased, Terminal
  <2>6. ASSUME NEW w \in Workers, NEW v \in Units, ClaimNext(w, v) PROVE MaintenanceStays!(u)
    <3>1. v = u => Claimed(unit[u]).rev = unit[u].rev + 1 /\ unit[u].state \in Available
      BY <1>1, <2>1, <2>6, ClaimedRow, Zenon DEF ClaimNext, IInv, ClaimsCounted
    <3> QED
      BY <2>4, <2>6, <3>1, Zenon DEF ClaimNext, Available, Terminal
  <2>7. ASSUME NEW w \in Workers, NEW op \in Operations, BindOperation(w, op) PROVE MaintenanceStays!(u)
    <3>1. held[w].unit \in Units
      BY <1>1, <2>7, Zenon DEF BindOperation, ClaimFence, IInv, Types, Claims
    <3>2. Running(unit[u], op).rev = unit[u].rev + 1 /\ Running(unit[u], op).gen = unit[u].gen
      BY <2>1, RunningRow, Zenon
    <3> QED
      BY <2>4, <2>7, <3>1, <3>2, Zenon DEF BindOperation, ClaimFence, Terminal
  <2>8. ASSUME NEW w \in Workers, RenewClaim(w) PROVE MaintenanceStays!(u)
    <3>1. held[w].unit \in Units
      BY <1>1, <2>8, Zenon DEF RenewClaim, ClaimFence, IInv, Types, Claims
    <3>2. Renewed(unit[u]).rev = unit[u].rev + 1 /\ Renewed(unit[u]).gen = unit[u].gen
      BY <1>1, <2>1, RenewedRow, Zenon DEF IInv
    <3> QED
      BY <2>4, <2>8, <3>1, <3>2, Zenon DEF RenewClaim, ClaimFence, Leased, Terminal
  <2>9. ASSUME NEW w \in Workers, CommitInput(w) PROVE MaintenanceStays!(u)
    <3>1. writing[w] \in Units \X Inputs /\ input[writing[w][1]][writing[w][2]].state = "pending"
      BY <1>1, <2>9, Zenon DEF CommitInput, IInv, Types, Writes
    <3>2. \A i \in Inputs : <<u, i>> # writing[w] => input'[u][i] = input[u][i]
      BY <1>1, <2>9, <3>1 DEF CommitInput, IInv, Types
    <3> QED
      BY <2>9, <3>1, <3>2 DEF CommitInput
  <2>10. ASSUME NEW w \in Workers, Complete(w) PROVE MaintenanceStays!(u)
    <3>1. held[w].unit \in Units
      BY <1>1, <2>10, Zenon DEF Complete, ClaimFence, IInv, Types, Claims
    <3>2. Succeeded(unit[u]).rev = unit[u].rev + 1 /\ Succeeded(unit[u]).gen = unit[u].gen
      BY <2>1, SucceededRow, Zenon
    <3> QED
      BY <2>4, <2>10, <3>1, <3>2, Zenon DEF Complete, ClaimFence, Terminal
  <2>11. ASSUME NEW w \in Workers, NEW retry \in {Null, now + 1}, Fail(w, retry) PROVE MaintenanceStays!(u)
    <3>1. held[w].unit \in Units /\ retry \in 0 .. MaxTime + 1 \cup {Null}
      BY <1>1, <2>11 DEF Fail, ClaimFence, IInv, Types, Claims, MaintenanceConstants
    <3>2. Released(unit[u], retry).rev = unit[u].rev + 1 /\ Released(unit[u], retry).gen = unit[u].gen
      BY <2>1, <3>1, ReleasedRow, Zenon
    <3> QED
      BY <2>4, <2>11, <3>1, <3>2, Zenon DEF Fail, ClaimFence, Leased, Terminal
  <2> QED
    BY <2>2, <2>3, <2>5, <2>6, <2>7, <2>8, <2>9, <2>10, <2>11, Zenon DEF Next, WriteInput, Drop, Tick
<1>2. Init => IInv
  BY InitInv, Zenon
<1>3. IInv /\ [Next]_vars => IInv'
  BY NextInv, Zenon
<1> QED
  BY <1>1, <1>2, <1>3, PTL DEF Spec
=============================================================================
