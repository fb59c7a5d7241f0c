----------------------- MODULE AsyncPlaneRuntimeProofs -----------------------
(***************************************************************************)
(* Proofs about AsyncPlaneRuntime, for any number of calls and drains and  *)
(* any capacity.                                                           *)
(*                                                                         *)
(* PermitsBalanced counts calls; it is inductive once it is known that a   *)
(* call has a worker exactly from its admission on (StagesAgree), that a   *)
(* call waits at one place of the queue (OnePlace), that the counted sets  *)
(* are finite, and that a drain which returned found the runtime closed    *)
(* and idle.                                                               *)
(***************************************************************************)
EXTENDS AsyncPlaneRuntime, FiniteSetTheorems, SequenceTheorems, TLAPS

\* A leaf that names no backend is for the SMT solver.
USE SMTT(30)

Slots == {c \in Calls : InSlot(c)}
Granted == {c \in Calls : call[c] = "granted"}

\* A call has no worker before it is admitted, and one while it awaits it.
StagesAgree ==
  \A c \in Calls :
    /\ call[c] \in {"new", "waiting", "granted", "rejected", "no_capacity", "refused"} => worker[c] = "none"
    /\ call[c] = "awaiting" => InSlot(c)

OnePlace == \A i, j \in 1 .. Len(waiters) : waiters[i] = waiters[j] => i = j

Counted == IsFiniteSet(Slots) /\ IsFiniteSet(Granted)

DrainedClosed == \A d \in Drains : (drain[d] # "new" => closed) /\ (drain[d] = "drained" => active = 0)

Types ==
  /\ free \in Nat /\ active \in Nat
  /\ waiters \in Seq(Calls)
  /\ idle \in BOOLEAN /\ closed \in BOOLEAN
  /\ call \in [Calls -> CallStages]
  /\ worker \in [Calls -> WorkerStages]
  /\ drain \in [Drains -> {"new", "waiting", "drained", "not_drained"}]

IInv == Types /\ PermitsBalanced /\ StagesAgree /\ OnePlace /\ Counted /\ DrainedClosed /\ ResultTruthful

-----------------------------------------------------------------------------
(* The queue.                                                              *)

LEMMA AppendQueue ==
  ASSUME NEW q \in Seq(Calls), NEW c \in Calls, c \notin Range(q),
         \A i, j \in 1 .. Len(q) : q[i] = q[j] => i = j
  PROVE  /\ Append(q, c) \in Seq(Calls) /\ Range(Append(q, c)) = Range(q) \cup {c}
         /\ \A i, j \in 1 .. Len(Append(q, c)) : Append(q, c)[i] = Append(q, c)[j] => i = j
BY DEF Range

LEMMA TailQueue ==
  ASSUME NEW q \in Seq(Calls), q # <<>>,
         \A i, j \in 1 .. Len(q) : q[i] = q[j] => i = j
  PROVE  /\ Tail(q) \in Seq(Calls) /\ Head(q) \in Calls
         /\ Range(Tail(q)) = Range(q) \ {Head(q)} /\ Head(q) \in Range(q)
         /\ \A i, j \in 1 .. Len(Tail(q)) : Tail(q)[i] = Tail(q)[j] => i = j
<1> DEFINE t == Tail(q)
<1>1. /\ t \in Seq(Calls) /\ Len(t) = Len(q) - 1 /\ Head(q) \in Calls
      /\ \A i \in 1 .. Len(t) : t[i] = q[i + 1]
  BY HeadTailProperties
<1>2. Len(q) \in Nat \ {0} /\ Head(q) = q[1]
  BY EmptySeq
<1> HIDE DEF t
<1>3. DOMAIN q = 1 .. Len(q) /\ DOMAIN t = 1 .. Len(t)
  BY <1>1
<1>4. Range(t) = Range(q) \ {Head(q)}
  <2>1. ASSUME NEW x \in Range(t) PROVE x \in Range(q) \ {Head(q)}
    BY <1>1, <1>2, <1>3, <2>1 DEF Range
  <2>2. ASSUME NEW x \in Range(q), x # Head(q) PROVE x \in Range(t)
    <3>1. PICK i \in 1 .. Len(q) : x = q[i]
      BY <1>3, <2>2 DEF Range
    <3>2. i - 1 \in 1 .. Len(t) /\ t[i - 1] = q[i]
      BY <1>1, <1>2, <2>2, <3>1
    <3> QED BY <1>3, <3>1, <3>2, Zenon DEF Range
  <2> QED BY <2>1, <2>2, Zenon
<1>5. \A i, j \in 1 .. Len(t) : t[i] = t[j] => i = j
  BY <1>1, <1>2
<1>6. Head(q) \in Range(q)
  BY <1>2, <1>3 DEF Range
<1> QED
  BY <1>1, <1>4, <1>5, <1>6, Zenon DEF t

LEMMA RemoveFromQueue ==
  ASSUME NEW q \in Seq(Calls), NEW k \in 1 .. Len(q),
         \A i, j \in 1 .. Len(q) : q[i] = q[j] => i = j
  PROVE  /\ Without(q, k) \in Seq(Calls)
         /\ Range(Without(q, k)) = Range(q) \ {q[k]}
         /\ \A i, j \in 1 .. Len(Without(q, k)) : Without(q, k)[i] = Without(q, k)[j] => i = j
<1> DEFINE r == Without(q, k)
<1>1. /\ r \in Seq(Calls) /\ Len(r) = Len(q) - 1
      /\ \A i \in 1 .. Len(r) : r[i] = IF i < k THEN q[i] ELSE q[i + 1]
  <2> DEFINE u == SubSeq(q, 1, k - 1)
             v == SubSeq(q, k + 1, Len(q))
  <2>1. Len(q) \in Nat /\ \A i \in 1 .. Len(q) : q[i] \in Calls
    BY LenProperties, ElementOfSeq, Zenon
  <2>2. /\ u \in Seq(Calls) /\ Len(u) = k - 1
        /\ \A i \in 1 .. k - 1 : u[i] = q[i]
    <3>1. k - 1 \in Int /\ \A i \in 1 .. k - 1 : q[i] \in Calls
      BY <2>1
    <3>2. /\ u \in Seq(Calls) /\ Len(u) = IF 1 <= k - 1 THEN (k - 1) - 1 + 1 ELSE 0
          /\ \A i \in 1 .. (k - 1) - 1 + 1 : u[i] = q[1 + i - 1]
      BY <3>1, SubSeqProperties
    <3> HIDE DEF u
    <3> QED BY <3>2
  <2>3. /\ v \in Seq(Calls) /\ Len(v) = Len(q) - k
        /\ \A i \in 1 .. Len(q) - k : v[i] = q[k + i]
    <3>1. k + 1 \in Int /\ Len(q) \in Int /\ \A i \in k + 1 .. Len(q) : q[i] \in Calls
      BY <2>1
    <3>2. /\ v \in Seq(Calls) /\ Len(v) = IF k + 1 <= Len(q) THEN Len(q) - (k + 1) + 1 ELSE 0
          /\ \A i \in 1 .. Len(q) - (k + 1) + 1 : v[i] = q[k + 1 + i - 1]
      BY <3>1, SubSeqProperties
    <3> HIDE DEF v
    <3> QED BY <2>1, <3>2
  <2>4. r = u \o v
    BY Zenon DEF Without
  <2> HIDE DEF r, u, v
  <2>5. /\ u \o v \in Seq(Calls) /\ Len(u \o v) = Len(u) + Len(v)
        /\ \A i \in 1 .. Len(u) + Len(v) : (u \o v)[i] = IF i <= Len(u) THEN u[i] ELSE v[i - Len(u)]
    <3>1. u \in Seq(Calls) /\ v \in Seq(Calls)
      BY <2>2, <2>3
    <3> QED BY ONLY <3>1, ConcatProperties, Zenon
  <2>6. r \in Seq(Calls) /\ Len(r) = Len(q) - 1
    BY <2>1, <2>2, <2>3, <2>4, <2>5
  <2>7. ASSUME NEW i \in 1 .. Len(r) PROVE r[i] = IF i < k THEN q[i] ELSE q[i + 1]
    <3>1. i \in 1 .. Len(u) + Len(v)
      BY <2>1, <2>2, <2>3, <2>6
    <3>2. CASE i < k
      BY <2>2, <2>4, <2>5, <3>1, <3>2
    <3>3. CASE ~ i < k
      <4>1. i - Len(u) \in 1 .. Len(q) - k /\ k + (i - Len(u)) = i + 1 /\ ~ i <= Len(u)
        BY <2>1, <2>2, <2>3, <2>6, <3>3
      <4>2. v[i - Len(u)] = q[i + 1]
        BY <2>3, <4>1, Zenon
      <4> QED BY <2>4, <2>5, <3>1, <3>3, <4>1, <4>2, Zenon
    <3> QED BY <3>2, <3>3, Zenon
  <2> QED BY <2>6, <2>7
<1> HIDE DEF r
<1>2. Len(q) \in Nat /\ DOMAIN q = 1 .. Len(q) /\ DOMAIN r = 1 .. Len(r)
  BY <1>1
<1>3. Range(r) = Range(q) \ {q[k]}
  <2>1. ASSUME NEW x \in Range(r) PROVE x \in Range(q) \ {q[k]}
    BY <1>1, <1>2, <2>1 DEF Range
  <2>2. ASSUME NEW x \in Range(q), x # q[k] PROVE x \in Range(r)
    <3>1. PICK i \in 1 .. Len(q) : x = q[i]
      BY <1>2, <2>2, Zenon DEF Range
    <3>2. CASE i < k
      BY <1>1, <1>2, <3>1, <3>2 DEF Range
    <3>3. CASE i > k
      <4>1. i - 1 \in 1 .. Len(r) /\ r[i - 1] = q[i]
        BY <1>1, <1>2, <3>3
      <4> QED BY <1>2, <3>1, <4>1, Zenon DEF Range
    <3> QED BY <2>2, <3>1, <3>2, <3>3
  <2> QED BY <2>1, <2>2, Zenon
<1>4. \A i, j \in 1 .. Len(r) : r[i] = r[j] => i = j
  BY <1>1, <1>2
<1> QED
  BY <1>1, <1>3, <1>4, Zenon DEF r

-----------------------------------------------------------------------------
(* The counted sets.                                                       *)

\* What the queue and the semaphore keep among themselves.
QueueSound ==
  /\ free \in Nat /\ waiters \in Seq(Calls) /\ call \in [Calls -> CallStages]
  /\ \A c \in Calls : call[c] = "waiting" <=> c \in Range(waiters)
  /\ free > 0 => waiters = <<>>
  /\ OnePlace
  /\ IsFiniteSet(Granted)

\* release by a call that neither waits nor keeps a permit afterwards: one permit
\* more is free or granted, and only a call that waited gets another stage.
LEMMA Released ==
  ASSUME QueueSound, NEW c \in Calls, call[c] # "waiting",
         NEW stage \in CallStages \ {"waiting", "granted"},
         ReleasePermit(waiters, [call EXCEPT ![c] = stage])
  PROVE  /\ QueueSound'
         /\ free' + Cardinality(Granted') = free + 1 + Cardinality(Granted \ {c})
         /\ call'[c] = stage
         /\ \A x \in Calls \ {c} : call'[x] = call[x] \/ (call[x] = "waiting" /\ call'[x] = "granted")
<1>1. CASE waiters = <<>>
  <2>1. free' = free + 1 /\ waiters' = waiters /\ call' = [call EXCEPT ![c] = stage]
    BY <1>1 DEF ReleasePermit
  <2>2. Granted' = Granted \ {c}
    BY <2>1, Zenon DEF Granted, QueueSound
  <2>3. IsFiniteSet(Granted') /\ Cardinality(Granted \ {c}) \in Nat
    BY <2>2, FS_RemoveElement, FS_CardinalityType, Zenon DEF QueueSound
  <2>4. QueueSound'
    BY <1>1, <2>1, <2>3 DEF QueueSound, OnePlace
  <2> QED BY <2>1, <2>2, <2>3, <2>4, Zenon DEF QueueSound
<1>2. CASE waiters # <<>>
  <2> DEFINE h == Head(waiters)
  <2>1. free' = free /\ waiters' = Tail(waiters) /\ call' = [call EXCEPT ![c] = stage, ![h] = "granted"]
    BY <1>2, Zenon DEF ReleasePermit
  <2>2. /\ h \in Calls /\ h \in Range(waiters) /\ Tail(waiters) \in Seq(Calls)
        /\ Range(Tail(waiters)) = Range(waiters) \ {h}
        /\ \A i, j \in 1 .. Len(Tail(waiters)) : Tail(waiters)[i] = Tail(waiters)[j] => i = j
    BY <1>2, TailQueue, Zenon DEF QueueSound, OnePlace
  <2> HIDE DEF h
  <2>3. call[h] = "waiting" /\ h # c
    BY <2>2 DEF QueueSound
  <2>4. /\ call' \in [Calls -> CallStages] /\ call'[c] = stage /\ call'[h] = "granted"
        /\ \A x \in Calls \ {c, h} : call'[x] = call[x]
    BY <2>1, <2>2, <2>3, Zenon DEF QueueSound, CallStages
  <2>5. Granted' = (Granted \ {c}) \cup {h} /\ h \notin Granted \ {c}
    BY <2>2, <2>3, <2>4, Zenon DEF Granted
  <2>6. IsFiniteSet(Granted \ {c})
    BY FS_RemoveElement DEF QueueSound
  <2>7. /\ IsFiniteSet(Granted') /\ Cardinality(Granted') = Cardinality(Granted \ {c}) + 1
        /\ Cardinality(Granted \ {c}) \in Nat
    BY <2>5, <2>6, FS_AddElement, FS_CardinalityType, Zenon
  <2>8. \A x \in Calls : call'[x] = "waiting" <=> x \in Range(waiters')
    BY <2>1, <2>2, <2>3, <2>4 DEF QueueSound
  <2>9. free' \in Nat /\ ~ free' > 0
    BY <1>2, <2>1, Zenon DEF QueueSound
  <2>10. QueueSound'
    BY <2>1, <2>2, <2>4, <2>7, <2>8, <2>9 DEF QueueSound, OnePlace
  <2> QED BY <2>1, <2>3, <2>4, <2>7, <2>10 DEF QueueSound
<1> QED BY <1>1, <1>2, Zenon

LEMMA QueueIsSound ==
  ASSUME IInv
  PROVE  QueueSound
BY Zenon DEF IInv, Types, PermitsBalanced, Counted, QueueSound

\* A call gives up its place in the queue, or joins it at the end.
LEMMA Left ==
  ASSUME QueueSound, NEW c \in Calls, call[c] = "waiting",
         NEW stage \in CallStages \ {"waiting", "granted"},
         NEW i \in 1 .. Len(waiters), waiters[i] = c, waiters' = Without(waiters, i),
         call' = [call EXCEPT ![c] = stage], free' = free
  PROVE  QueueSound' /\ Granted' = Granted
<1>1. /\ Without(waiters, i) \in Seq(Calls)
      /\ Range(Without(waiters, i)) = Range(waiters) \ {c}
      /\ \A k, j \in 1 .. Len(Without(waiters, i)) : Without(waiters, i)[k] = Without(waiters, i)[j] => k = j
  BY RemoveFromQueue, Zenon DEF QueueSound, OnePlace
<1>2. call' \in [Calls -> CallStages] /\ call'[c] = stage /\ \A x \in Calls \ {c} : call'[x] = call[x]
  BY DEF QueueSound
<1>3. Granted' = Granted
  BY <1>2, Zenon DEF Granted
<1>4. \A x \in Calls : call'[x] = "waiting" <=> x \in Range(waiters')
  BY <1>1, <1>2, Zenon DEF QueueSound
<1>5. ~ free > 0
  BY EmptySeq DEF QueueSound
<1> QED
  BY <1>1, <1>2, <1>3, <1>4, <1>5 DEF QueueSound, OnePlace

LEMMA Joined ==
  ASSUME QueueSound, NEW c \in Calls, call[c] = "new", free = 0 \/ waiters # <<>>,
         waiters' = Append(waiters, c), call' = [call EXCEPT ![c] = "waiting"], free' = free
  PROVE  QueueSound' /\ Granted' = Granted
<1>1. c \notin Range(waiters)
  BY Zenon DEF QueueSound
<1>2. /\ Append(waiters, c) \in Seq(Calls) /\ Range(Append(waiters, c)) = Range(waiters) \cup {c}
      /\ \A i, j \in 1 .. Len(Append(waiters, c)) : Append(waiters, c)[i] = Append(waiters, c)[j] => i = j
  BY <1>1, AppendQueue, Zenon DEF QueueSound, OnePlace
<1>3. call' \in [Calls -> CallStages] /\ call'[c] = "waiting" /\ \A x \in Calls \ {c} : call'[x] = call[x]
  BY Zenon DEF QueueSound, CallStages
<1>4. Granted' = Granted
  BY <1>3 DEF Granted
<1>5. \A x \in Calls : call'[x] = "waiting" <=> x \in Range(waiters')
  BY <1>2, <1>3, Zenon DEF QueueSound
<1>6. ~ free > 0 /\ free \in Nat
  BY DEF QueueSound
<1> QED
  BY <1>2, <1>3, <1>4, <1>5, <1>6, Zenon DEF QueueSound, OnePlace

\* Another stage for a call that is not queued and does not become so.
LEMMA Restaged ==
  ASSUME QueueSound, NEW c \in Calls, call[c] # "waiting",
         NEW stage \in CallStages \ {"waiting", "granted"},
         call' = [call EXCEPT ![c] = stage], waiters' = waiters, free' \in Nat, free' <= free
  PROVE  QueueSound' /\ Granted' = Granted \ {c}
<1>1. call' \in [Calls -> CallStages] /\ call'[c] = stage /\ \A x \in Calls \ {c} : call'[x] = call[x]
  BY Zenon DEF QueueSound
<1>2. Granted' = Granted \ {c}
  BY <1>1, Zenon DEF Granted
<1>3. IsFiniteSet(Granted')
  BY <1>2, FS_RemoveElement, Zenon DEF QueueSound
<1>4. free' > 0 => waiters' = <<>>
  BY DEF QueueSound
<1> QED
  BY <1>1, <1>2, <1>3, <1>4 DEF QueueSound, OnePlace

-----------------------------------------------------------------------------
(* The inductive invariant.                                                *)

\* What the workers and the drains keep among themselves.
SlotsSound ==
  /\ active \in Nat /\ idle \in BOOLEAN /\ closed \in BOOLEAN
  /\ worker \in [Calls -> WorkerStages]
  /\ drain \in [Drains -> {"new", "waiting", "drained", "not_drained"}]
  /\ IsFiniteSet(Slots) /\ active = Cardinality(Slots)
  /\ idle <=> active = 0
  /\ DrainedClosed

Balance == free + active + Cardinality(Granted) = Capacity

LEMMA Parts == IInv => QueueSound /\ SlotsSound /\ Balance /\ StagesAgree /\ ResultTruthful
BY Zenon DEF IInv, Types, PermitsBalanced, Counted, QueueSound, SlotsSound, Balance, Slots, Granted

LEMMA Together ==
  ASSUME QueueSound', SlotsSound', Balance', StagesAgree', ResultTruthful'
  PROVE  IInv'
BY Zenon DEF IInv, Types, PermitsBalanced, Counted, QueueSound, SlotsSound, Balance, Slots, Granted

\* A call without a worker takes a slot; the runtime is open.
LEMMA Admitted ==
  ASSUME SlotsSound, ~closed, NEW c \in Calls, worker[c] = "none", Admit(c),
         UNCHANGED <<closed, drain>>
  PROVE  /\ SlotsSound' /\ active' = active + 1
         /\ worker'[c] = "running" /\ \A x \in Calls \ {c} : worker'[x] = worker[x]
<1>1. /\ worker' \in [Calls -> WorkerStages] /\ worker'[c] = "running"
      /\ \A x \in Calls \ {c} : worker'[x] = worker[x]
      /\ active' = active + 1 /\ active' \in Nat /\ active' # 0 /\ idle' = FALSE
  BY DEF SlotsSound, Admit, WorkerStages
<1>2. Slots' = Slots \cup {c} /\ c \notin Slots
  BY <1>1, Zenon DEF Slots, InSlot
<1>3. IsFiniteSet(Slots') /\ Cardinality(Slots') = Cardinality(Slots) + 1
  BY <1>2, FS_AddElement, Zenon DEF SlotsSound
<1>4. DrainedClosed'
  BY DEF SlotsSound, DrainedClosed
<1> QED
  BY <1>1, <1>3, <1>4, Zenon DEF SlotsSound

LEMMA CallInv ==
  ASSUME IInv, NEW c \in Calls, Call(c)
  PROVE  IInv'
<1>1. QueueSound /\ SlotsSound /\ Balance /\ StagesAgree /\ ResultTruthful /\ call[c] = "new"
      /\ UNCHANGED <<closed, drain>>
  BY Parts, Zenon DEF Call
<1>2. worker[c] = "none" /\ c \notin Granted /\ Cardinality(Granted) \in Nat
  BY <1>1, FS_CardinalityType DEF StagesAgree, Granted, QueueSound
<1>3. ASSUME NEW stage \in {"refused", "rejected"}, call' = [call EXCEPT ![c] = stage],
             UNCHANGED <<free, waiters, active, idle, worker>>
      PROVE  IInv'
  <2>1. QueueSound' /\ Granted' = Granted \ {c}
    <3>1. free' \in Nat /\ free' <= free
      BY <1>1, <1>3 DEF QueueSound
    <3> QED BY <1>1, <1>3, <3>1, Restaged, Zenon DEF CallStages
  <2>2. SlotsSound' /\ Balance'
    BY <1>1, <1>2, <1>3, <2>1, Zenon DEF SlotsSound, Balance, Slots, InSlot, DrainedClosed
  <2>3. StagesAgree' /\ ResultTruthful'
    BY <1>1, <1>2, <1>3 DEF StagesAgree, ResultTruthful, InSlot, QueueSound
  <2> QED BY <2>1, <2>2, <2>3, Together, Zenon
<1>4. ASSUME ~closed, free > 0, waiters = <<>>, free' = free - 1, call' = [call EXCEPT ![c] = "awaiting"],
             Admit(c), UNCHANGED waiters
      PROVE  IInv'
  <2>1. free' \in Nat /\ free' <= free
    BY <1>1, <1>4 DEF QueueSound
  <2>2. QueueSound' /\ Granted' = Granted \ {c}
    BY <1>1, <1>4, <2>1, Restaged, Zenon DEF CallStages
  <2>3. /\ SlotsSound' /\ active' = active + 1
        /\ worker'[c] = "running" /\ \A x \in Calls \ {c} : worker'[x] = worker[x]
    BY <1>1, <1>2, <1>4, Admitted
  <2>4. Balance'
    <3>1. Granted' = Granted
      BY <1>2, <2>2, Zenon
    <3> QED BY <1>1, <1>2, <1>4, <2>3, <3>1 DEF Balance, QueueSound, SlotsSound
  <2>5. StagesAgree' /\ ResultTruthful'
    BY <1>1, <1>4, <2>3 DEF StagesAgree, ResultTruthful, InSlot, QueueSound
  <2> QED BY <2>2, <2>3, <2>4, <2>5, Together, Zenon
<1>5. ASSUME free = 0 \/ waiters # <<>>, waiters' = Append(waiters, c), call' = [call EXCEPT ![c] = "waiting"],
             UNCHANGED <<free, active, idle, worker>>
      PROVE  IInv'
  <2>1. QueueSound' /\ Granted' = Granted
    BY <1>1, <1>5, Joined, Zenon
  <2>2. SlotsSound' /\ Balance'
    BY <1>1, <1>5, <2>1, Zenon DEF SlotsSound, Balance, Slots, InSlot, DrainedClosed
  <2>3. StagesAgree' /\ ResultTruthful'
    BY <1>1, <1>2, <1>5 DEF StagesAgree, ResultTruthful, InSlot, QueueSound
  <2> QED BY <2>1, <2>2, <2>3, Together, Zenon
<1> QED
  BY <1>3, <1>4, <1>5, Zenon DEF Call

\* A permit comes back from a call that has no worker.
LEMMA PermitReturned ==
  ASSUME IInv, NEW c \in Calls, call[c] = "granted", NEW stage \in {"rejected", "no_capacity", "cancelled"},
         ReleasePermit(waiters, [call EXCEPT ![c] = stage]), UNCHANGED <<active, idle, closed, worker, drain>>
  PROVE  IInv'
<1>1. QueueSound /\ SlotsSound /\ Balance /\ StagesAgree /\ ResultTruthful
  BY Parts
<1>2. /\ QueueSound'
      /\ free' + Cardinality(Granted') = free + 1 + Cardinality(Granted \ {c})
      /\ call'[c] = stage
      /\ \A x \in Calls \ {c} : call'[x] = call[x] \/ (call[x] = "waiting" /\ call'[x] = "granted")
  BY <1>1, Released, Zenon DEF CallStages
<1>3. c \in Granted /\ Cardinality(Granted \ {c}) = Cardinality(Granted) - 1
  BY <1>1, FS_RemoveElement, Zenon DEF Granted, QueueSound
<1>4. Cardinality(Granted) \in Nat /\ Cardinality(Granted') \in Nat /\ free \in Nat /\ free' \in Nat /\ active \in Nat
  BY <1>1, <1>2, FS_CardinalityType, Zenon DEF QueueSound, SlotsSound
<1>5. SlotsSound' /\ Balance'
  BY <1>1, <1>2, <1>3, <1>4 DEF SlotsSound, Balance, Slots, InSlot, DrainedClosed
<1>6. StagesAgree' /\ ResultTruthful'
  BY <1>1, <1>2 DEF StagesAgree, ResultTruthful, InSlot
<1> QED BY <1>2, <1>5, <1>6, Together, Zenon

LEMMA ResumeInv ==
  ASSUME IInv, NEW c \in Calls, Resume(c)
  PROVE  IInv'
<1>1. QueueSound /\ SlotsSound /\ Balance /\ StagesAgree /\ ResultTruthful /\ call[c] = "granted"
      /\ UNCHANGED <<closed, drain>>
  BY Parts DEF Resume
<1>2. CASE closed
  BY <1>1, <1>2, PermitReturned, Zenon DEF Resume
<1>3. CASE ~closed
  <2>1. call' = [call EXCEPT ![c] = "awaiting"] /\ Admit(c) /\ UNCHANGED <<free, waiters>>
    BY <1>3 DEF Resume
  <2>2. QueueSound' /\ Granted' = Granted \ {c}
    <3>1. free' \in Nat /\ free' <= free
      BY <1>1, <2>1 DEF QueueSound
    <3> QED BY <1>1, <2>1, <3>1, Restaged, Zenon DEF CallStages
  <2>3. c \in Granted /\ Cardinality(Granted \ {c}) = Cardinality(Granted) - 1 /\ Cardinality(Granted) \in Nat
    BY <1>1, FS_RemoveElement, FS_CardinalityType, Zenon DEF Granted, QueueSound
  <2>4. /\ SlotsSound' /\ active' = active + 1
        /\ worker'[c] = "running" /\ \A x \in Calls \ {c} : worker'[x] = worker[x]
    BY <1>1, <1>3, <2>1, Admitted DEF StagesAgree
  <2>5. Balance'
    BY <1>1, <2>1, <2>2, <2>3, <2>4 DEF Balance, QueueSound, SlotsSound
  <2>6. StagesAgree' /\ ResultTruthful'
    BY <1>1, <2>1, <2>4 DEF StagesAgree, ResultTruthful, InSlot, QueueSound
  <2> QED BY <2>2, <2>4, <2>5, <2>6, Together, Zenon
<1> QED BY <1>2, <1>3, Zenon

LEMMA GiveUpInv ==
  ASSUME IInv, NEW c \in Calls, NEW stage \in {"no_capacity", "cancelled"}, GiveUp(c, stage)
  PROVE  IInv'
<1>1. QueueSound /\ SlotsSound /\ Balance /\ StagesAgree /\ ResultTruthful
      /\ UNCHANGED <<active, idle, closed, worker, drain>>
  BY Parts DEF GiveUp
<1>2. CASE call[c] = "granted"
  BY <1>1, <1>2, PermitReturned, Zenon DEF GiveUp
<1>3. CASE call[c] # "granted"
  <2>1. call[c] = "waiting" /\ free' = free /\ call' = [call EXCEPT ![c] = stage]
    BY <1>3, Zenon DEF GiveUp
  <2>2. PICK i \in 1 .. Len(waiters) : waiters[i] = c /\ waiters' = Without(waiters, i)
    BY <1>3 DEF GiveUp
  <2>3. QueueSound' /\ Granted' = Granted
    BY <1>1, <2>1, <2>2, Left, Zenon DEF CallStages
  <2>4. SlotsSound' /\ Balance'
    BY <1>1, <2>1, <2>3 DEF SlotsSound, Balance, Slots, InSlot, DrainedClosed
  <2>5. StagesAgree' /\ ResultTruthful'
    BY <1>1, <2>1, Zenon DEF StagesAgree, ResultTruthful, InSlot, QueueSound
  <2> QED BY <2>3, <2>4, <2>5, Together
<1> QED BY <1>2, <1>3, Zenon

LEMMA CancelAwaitInv ==
  ASSUME IInv, NEW c \in Calls, CancelAwait(c)
  PROVE  IInv'
<1>1. QueueSound /\ SlotsSound /\ Balance /\ StagesAgree /\ ResultTruthful
  BY Parts, Zenon
<1>2. /\ call[c] = "awaiting" /\ call' = [call EXCEPT ![c] = "cancelled"]
      /\ UNCHANGED <<free, waiters, active, idle, closed, worker, drain>>
  BY Zenon DEF CancelAwait
<1>3. free' \in Nat /\ free' <= free
  BY <1>1, <1>2 DEF QueueSound
<1>4. QueueSound' /\ Granted' = Granted \ {c}
  BY <1>1, <1>2, <1>3, Restaged, Zenon DEF CallStages
<1>5. Granted' = Granted
  BY <1>2, <1>4 DEF Granted
<1>6. SlotsSound' /\ Balance'
  BY <1>1, <1>2, <1>5, Zenon DEF SlotsSound, Balance, Slots, InSlot, DrainedClosed
<1>7. StagesAgree' /\ ResultTruthful'
  BY <1>1, <1>2 DEF StagesAgree, ResultTruthful, InSlot, QueueSound
<1> QED BY <1>4, <1>6, <1>7, Together, Zenon

LEMMA ThreadEndsInv ==
  ASSUME IInv, NEW c \in Calls, ThreadEnds(c)
  PROVE  IInv'
<1>1. QueueSound /\ SlotsSound /\ Balance /\ StagesAgree /\ ResultTruthful
  BY Parts, Zenon
<1>2. PICK end \in {"committed", "rolled_back"} :
        /\ worker[c] = "running" /\ worker' = [worker EXCEPT ![c] = end]
        /\ UNCHANGED <<free, waiters, active, idle, closed, call, drain>>
  BY Zenon DEF ThreadEnds
<1>3. worker' \in [Calls -> WorkerStages] /\ worker'[c] = end /\ \A x \in Calls \ {c} : worker'[x] = worker[x]
  BY <1>1, <1>2, Zenon DEF SlotsSound, WorkerStages
<1>4. Slots' = Slots /\ Granted' = Granted
  BY <1>2, <1>3, Zenon DEF Slots, Granted, InSlot
<1>5. QueueSound' /\ Balance'
  BY <1>1, <1>2, <1>4 DEF QueueSound, Balance, OnePlace
<1>6. SlotsSound'
  BY <1>1, <1>2, <1>3, <1>4, Zenon DEF SlotsSound, DrainedClosed
<1>7. StagesAgree' /\ ResultTruthful'
  BY <1>1, <1>2, <1>3 DEF StagesAgree, ResultTruthful, InSlot
<1> QED BY <1>5, <1>6, <1>7, Together, Zenon

LEMMA ReleaseSlotInv ==
  ASSUME IInv, NEW c \in Calls, ReleaseSlot(c)
  PROVE  IInv'
<1>1. QueueSound /\ SlotsSound /\ Balance /\ StagesAgree /\ ResultTruthful
  BY Parts, Zenon
<1>2. PICK stage \in {IF call[c] # "awaiting" THEN call[c]
                      ELSE IF worker[c] = "committed" THEN "result" ELSE "raised"} : TRUE
  BY Zenon
<1>3. PICK end \in {IF worker[c] = "committed" THEN "committed_done" ELSE "rolled_back_done"} : TRUE
  BY Zenon
<1>4. /\ worker[c] \in {"committed", "rolled_back"}
      /\ worker' = [worker EXCEPT ![c] = end]
      /\ active' = active - 1 /\ idle' = (idle \/ active' = 0)
      /\ ReleasePermit(waiters, [call EXCEPT ![c] = stage])
      /\ UNCHANGED <<closed, drain>>
  BY <1>1, <1>2, <1>3, Zenon DEF ReleaseSlot, QueueSound, SlotsSound
<1>5. /\ call[c] \notin {"new", "waiting", "granted", "rejected", "no_capacity", "refused", "result", "raised"}
      /\ call[c] \in CallStages
  BY <1>1, <1>4 DEF StagesAgree, ResultTruthful, QueueSound
<1>6. stage \in CallStages \ {"waiting", "granted"}
  BY <1>2, <1>5, Zenon DEF CallStages
<1>7. /\ QueueSound'
      /\ free' + Cardinality(Granted') = free + 1 + Cardinality(Granted \ {c})
      /\ call'[c] = stage
      /\ \A x \in Calls \ {c} : call'[x] = call[x] \/ (call[x] = "waiting" /\ call'[x] = "granted")
  BY <1>1, <1>4, <1>5, <1>6, Released, Zenon
<1>8. Granted \ {c} = Granted
  BY <1>5 DEF Granted
<1>9. worker' \in [Calls -> WorkerStages] /\ worker'[c] = end /\ \A x \in Calls \ {c} : worker'[x] = worker[x]
  BY <1>1, <1>3, <1>4, Zenon DEF SlotsSound, WorkerStages
<1>10. Slots' = Slots \ {c} /\ c \in Slots
  BY <1>3, <1>4, <1>9 DEF Slots, InSlot
<1>11. /\ IsFiniteSet(Slots') /\ Cardinality(Slots') = Cardinality(Slots) - 1
       /\ Cardinality(Slots') \in Nat
  BY <1>1, <1>10, FS_RemoveElement, FS_CardinalityType, Zenon DEF SlotsSound
<1>12. active' \in Nat /\ active # 0 /\ active' = Cardinality(Slots')
  BY <1>1, <1>4, <1>11 DEF SlotsSound
<1>13. DrainedClosed'
  BY <1>1, <1>4, <1>12, Zenon DEF SlotsSound, DrainedClosed
<1>14. idle' \in BOOLEAN /\ (idle' <=> active' = 0)
  BY <1>1, <1>4, <1>12, Zenon DEF SlotsSound
<1>15. SlotsSound'
  BY <1>1, <1>4, <1>9, <1>11, <1>12, <1>13, <1>14, Zenon DEF SlotsSound
<1>16. Balance'
  <2>1. /\ Cardinality(Granted) \in Nat /\ Cardinality(Granted') \in Nat
        /\ free \in Nat /\ free' \in Nat /\ active \in Nat
    BY <1>1, <1>7, FS_CardinalityType, Zenon DEF QueueSound, SlotsSound
  <2>2. free' + Cardinality(Granted') = free + 1 + Cardinality(Granted) /\ active' = active - 1
    BY <1>4, <1>7, <1>8
  <2>3. free + active + Cardinality(Granted) = Capacity
    BY <1>1, Zenon DEF Balance
  <2>4. free' + active' + Cardinality(Granted') = Capacity
    BY <2>1, <2>2, <2>3
  <2> QED BY <2>4 DEF Balance
<1>17. StagesAgree'
  BY <1>1, <1>2, <1>5, <1>7, <1>9, Zenon DEF StagesAgree, InSlot, CallStages
<1>18. ResultTruthful'
  BY <1>1, <1>2, <1>3, <1>4, <1>5, <1>7, <1>9 DEF ResultTruthful, CallStages
<1> QED BY <1>7, <1>15, <1>16, <1>17, <1>18, Together, Zenon

LEMMA DrainsInv ==
  ASSUME IInv, Close \/ \E d \in Drains : Drain(d) \/ DrainReturns(d)
  PROVE  IInv'
<1>1. QueueSound /\ SlotsSound /\ Balance /\ StagesAgree /\ ResultTruthful
  BY Parts, Zenon
<1>2. /\ UNCHANGED <<free, waiters, active, idle, call, worker>> /\ closed' \in BOOLEAN /\ (closed => closed')
  BY <1>1, Zenon DEF Close, Drain, DrainReturns, SlotsSound
<1>3. drain' \in [Drains -> {"new", "waiting", "drained", "not_drained"}] /\ DrainedClosed'
  <2>1. CASE Close
    BY <1>1, <2>1 DEF Close, SlotsSound, DrainedClosed
  <2>2. ASSUME NEW d \in Drains, Drain(d) PROVE <1>3!2 /\ <1>3!1
    BY <1>1, <2>2, Zenon DEF Drain, SlotsSound, DrainedClosed
  <2>3. ASSUME NEW d \in Drains, DrainReturns(d) PROVE <1>3!2 /\ <1>3!1
    BY <1>1, <2>3 DEF DrainReturns, SlotsSound, DrainedClosed
  <2> QED BY <2>1, <2>2, <2>3, Zenon
<1>4. QueueSound' /\ Balance'
  BY <1>1, <1>2 DEF QueueSound, Balance, OnePlace, Granted
<1>5. SlotsSound'
  BY <1>1, <1>2, <1>3, Zenon DEF SlotsSound, Slots, InSlot
<1>6. StagesAgree' /\ ResultTruthful'
  BY <1>1, <1>2 DEF StagesAgree, ResultTruthful, InSlot
<1> QED BY <1>4, <1>5, <1>6, Together

LEMMA InitInv ==
  ASSUME CapacityPositive, Init
  PROVE  IInv
<1>1. waiters = <<>> /\ Range(waiters) = {} /\ Len(waiters) = 0 /\ waiters \in Seq(Calls)
  BY DEF Init, Range
<1>2. Slots = {} /\ Granted = {}
  BY Zenon DEF Init, Slots, Granted, InSlot
<1>3. Counted /\ Cardinality(Slots) = 0 /\ Cardinality(Granted) = 0
  BY <1>2, FS_EmptySet, Zenon DEF Counted
<1>4. Types
  BY <1>1, Zenon DEF Init, Types, CapacityPositive, CallStages, WorkerStages
<1>5. PermitsBalanced
  BY <1>1, <1>3 DEF Init, PermitsBalanced, Slots, Granted, CapacityPositive
<1>6. StagesAgree /\ OnePlace /\ DrainedClosed /\ ResultTruthful
  BY <1>1 DEF Init, StagesAgree, OnePlace, DrainedClosed, ResultTruthful
<1> QED BY <1>3, <1>4, <1>5, <1>6, Zenon DEF IInv

LEMMA StepInv == IInv /\ [Next]_vars => IInv'
<1>1. ASSUME IInv, UNCHANGED vars PROVE IInv'
  BY <1>1 DEF IInv, Types, PermitsBalanced, StagesAgree, OnePlace, Counted, DrainedClosed, ResultTruthful,
              Slots, Granted, InSlot, vars
<1>2. ASSUME IInv, Next PROVE IInv'
  BY <1>2, CallInv, ResumeInv, GiveUpInv, CancelAwaitInv, ThreadEndsInv, ReleaseSlotInv, DrainsInv, Zenon DEF Next
<1> QED BY <1>1, <1>2, Zenon

-----------------------------------------------------------------------------
(* The theorems.                                                           *)

\* The inductive invariant of the adapter: the semaphore, its queue, the worker
\* slots and the drains agree in every state.
THEOREM Invariant ==
  ASSUME CapacityPositive
  PROVE  Spec => []IInv
<1>1. Init => IInv
  BY InitInv, Zenon
<1> QED BY <1>1, StepInv, PTL DEF Spec

LEMMA InvConsequences == CapacityPositive /\ IInv => TypeOK /\ PermitsBalanced /\ DrainedIsFinal /\ ResultTruthful
<1> SUFFICES ASSUME CapacityPositive, IInv PROVE TypeOK /\ PermitsBalanced /\ DrainedIsFinal /\ ResultTruthful
  BY Zenon
<1>1. PermitsBalanced /\ ResultTruthful /\ Types /\ Counted /\ DrainedClosed
  BY Zenon DEF IInv
<1>2. Cardinality(Granted) \in Nat /\ free + active + Cardinality(Granted) = Capacity
  BY <1>1, FS_CardinalityType, Zenon DEF Counted, PermitsBalanced, Granted
<1>3. free \in 0 .. Capacity /\ active \in 0 .. Capacity
  BY <1>1, <1>2 DEF Types, CapacityPositive
<1>4. TypeOK
  BY <1>1, <1>3, Zenon DEF Types, TypeOK
<1>5. ASSUME NEW d \in Drains, drain[d] = "drained" PROVE closed /\ Slots = {}
  <2>1. closed /\ active = 0 /\ Cardinality(Slots) = 0
    BY <1>1, <1>5, Zenon DEF DrainedClosed, PermitsBalanced, Slots
  <2> QED BY <1>1, <2>1, FS_EmptySet DEF Counted
<1>6. DrainedIsFinal
  BY <1>5 DEF DrainedIsFinal, Slots
<1> QED BY <1>1, <1>4, <1>6, Zenon

\* Whatever is cancelled, times out or fails, no permit of the adapter's semaphore
\* is lost or created: at most maximum_concurrency transactions run, the count that
\* drain waits on is the number of running workers, and a permit is never free
\* while a call waits for one.
THEOREM PermitsNeverLeak ==
  ASSUME CapacityPositive
  PROVE  Spec => [](TypeOK /\ PermitsBalanced)
<1>1. IInv => TypeOK /\ PermitsBalanced /\ DrainedIsFinal /\ ResultTruthful
  BY InvConsequences, Zenon
<1> QED BY <1>1, Invariant, PTL

\* drain returned True: admission is closed and no worker runs or will run.
THEOREM DrainIsFinal ==
  ASSUME CapacityPositive
  PROVE  Spec => []DrainedIsFinal
<1>1. IInv => TypeOK /\ PermitsBalanced /\ DrainedIsFinal /\ ResultTruthful
  BY InvConsequences, Zenon
<1> QED BY <1>1, Invariant, PTL

\* A caller's answer is what became of its transaction.
THEOREM AnswersAreTruthful ==
  ASSUME CapacityPositive
  PROVE  Spec => []ResultTruthful
<1>1. IInv => TypeOK /\ PermitsBalanced /\ DrainedIsFinal /\ ResultTruthful
  BY InvConsequences, Zenon
<1> QED BY <1>1, Invariant, PTL
=============================================================================
