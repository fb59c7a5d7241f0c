------------------------ MODULE OwnerExclusionProofs ------------------------
(***************************************************************************)
(* Proofs about the owner exclusion of the blob store, for any number of   *)
(* stores, threads and owners: whatever is polled, cancelled, closed or    *)
(* killed, the lock table counts its users exactly, one thread is inside,  *)
(* and one holder has the lock file of an owner.                           *)
(*                                                                         *)
(* The invariant is a conjunction of predicates over the tables, so that   *)
(* a lemma about one table serves every step that changes it.              *)
(***************************************************************************)
EXTENDS OwnerExclusion, FiniteSetTheorems, WellFoundedInduction, TLAPS

USE SMTT(30)

ThreadRow == [pc : Steps, owner : Owners \cup {Null}, lock : LockIds \cup {0}, polling : BOOLEAN,
              cancelled : BOOLEAN, finish : BOOLEAN, again : BOOLEAN]
EntryRow == [lock : LockIds, refs : Nat]

\* Where a thread has an owner and a lock object, and where it remembers how it ends.
Shape(r) ==
  /\ r.pc # "idle" => r.owner \in Owners
  /\ r.lock = 0 <=> r.pc \in {"idle", "admitted", "returned"}
  /\ r.pc \in {"idle", "admitted", "queued", "local", "bound", "held"} => ~r.again /\ ~r.finish
  /\ r.pc = "returned" => r.again \/ r.finish
  /\ r.pc = "idle" => ~r.polling
  /\ ~(r.again /\ r.finish)

\* The thread has an acquisition that the store counts as pending.
Waiting(r) ==
  \/ r.pc \in {"admitted", "queued", "local", "bound", "returned"}
  \/ r.pc \in {"freeing", "unlocked"} /\ (r.again \/ r.finish)

\* The thread has the local lock.
Within(r) == r.pc \in {"local", "bound", "held", "freeing"}

\* The thread has the lock file.
Holding(r) == r.pc \in {"bound", "held"}

Acquiring(f, s) == {t \in Threads : StoreOf[t] = s /\ Waiting(f[t])}
Referring(f, s, o) == {t \in Threads : StoreOf[t] = s /\ f[t].owner = o /\ f[t].lock # 0}

Typed(f, c, p, e, k, l) ==
  /\ f \in [Threads -> ThreadRow]
  /\ c \in [Stores -> BOOLEAN]
  /\ p \in [Stores -> Nat]
  /\ e \in [Stores -> [Owners -> EntryRow \cup {Null}]]
  /\ k \in [Stores -> SUBSET LockIds]
  /\ l \in [Owners -> Threads \cup {Null}]
Shaped(f) == \A t \in Threads : Shape(f[t])

\* A store counts its pending acquisitions.
Pended(f, p) == \A s \in Stores : p[s] = Cardinality(Acquiring(f, s))

\* An entry is there exactly while it is referred to, and counts its references.
CountedAt(f, e, s, o) ==
  /\ Referring(f, s, o) = {} => e[s][o] = Null
  /\ Referring(f, s, o) # {} =>
       /\ e[s][o] # Null /\ e[s][o].refs = Cardinality(Referring(f, s, o))
       /\ \A t \in Referring(f, s, o) : f[t].lock = e[s][o].lock
Counted(f, e) == \A s \in Stores, o \in Owners : CountedAt(f, e, s, o)

\* Two owners never share a lock object.
Distinct(e) ==
  \A s \in Stores, o, q \in Owners :
    e[s][o] # Null /\ e[s][q] # Null /\ e[s][o].lock = e[s][q].lock => o = q

\* A lock object is locked by exactly one thread.
Locked(f, k) ==
  \A s \in Stores, id \in LockIds :
    id \in k[s] <=> \E t \in Threads : StoreOf[t] = s /\ Within(f[t]) /\ f[t].lock = id
Alone(f) ==
  \A t, u \in Threads :
    StoreOf[t] = StoreOf[u] /\ Within(f[t]) /\ Within(f[u]) /\ f[t].lock = f[u].lock => t = u

\* The lock file of an owner is locked by its holder.
Filed(f, l) ==
  \A t \in Threads, o \in Owners : l[o] = t <=> f[t].owner = o /\ Holding(f[t])

\* A closed store has no thread that does anything.
Still(f, c) == \A t \in Threads : c[StoreOf[t]] => f[t].pc = "idle"

Sound(f, c, p, e, k, l) ==
  /\ Typed(f, c, p, e, k, l) /\ Shaped(f) /\ Pended(f, p) /\ Counted(f, e) /\ Distinct(e)
  /\ Locked(f, k) /\ Alone(f) /\ Filed(f, l) /\ Still(f, c)

IInv == Sound(th, closed, pending, entries, taken, flock) /\ corrupted = FALSE

\* g is f but for thread t.
Only(f, g, t) == \A u \in Threads \ {t} : g[u] = f[u]

-----------------------------------------------------------------------------
(* What the change of one thread does to each table.                       *)

\* The threads are finitely many, and so is any set of them.
LEMMA ThreadSets ==
  ASSUME ExclusionConstants, NEW S \in SUBSET Threads
  PROVE  IsFiniteSet(S) /\ Cardinality(S) \in Nat /\ Cardinality(S) <= Cardinality(Threads)
BY FS_Subset, FS_CardinalityType, Zenon DEF ExclusionConstants

\* The pending count follows a thread that starts, ends or goes on with an acquisition.
LEMMA PendedKept ==
  ASSUME NEW f, NEW g, NEW t \in Threads, Only(f, g, t), Waiting(g[t]) <=> Waiting(f[t]),
         NEW p, Pended(f, p)
  PROVE  Pended(g, p)
<1>1. ASSUME NEW s \in Stores PROVE Acquiring(g, s) = Acquiring(f, s)
  BY Zenon DEF Acquiring, Only
<1> QED BY <1>1, Zenon DEF Pended

LEMMA PendedMore ==
  ASSUME ExclusionConstants, NEW f, NEW g, NEW t \in Threads, Only(f, g, t), ~Waiting(f[t]), Waiting(g[t]),
         NEW p \in [Stores -> Nat], Pended(f, p)
  PROVE  /\ Pended(g, [p EXCEPT ![StoreOf[t]] = @ + 1])
         /\ [p EXCEPT ![StoreOf[t]] = @ + 1] \in [Stores -> Nat]
<1>1. StoreOf[t] \in Stores
  BY Zenon DEF ExclusionConstants
<1>2. ASSUME NEW s \in Stores, s # StoreOf[t] PROVE Acquiring(g, s) = Acquiring(f, s)
  BY <1>2, Zenon DEF Acquiring, Only
<1>3. Acquiring(g, StoreOf[t]) = Acquiring(f, StoreOf[t]) \cup {t} /\ t \notin Acquiring(f, StoreOf[t])
  BY DEF Acquiring, Only
<1>4. Acquiring(f, StoreOf[t]) \in SUBSET Threads
  BY Zenon DEF Acquiring
<1>5. Cardinality(Acquiring(g, StoreOf[t])) = Cardinality(Acquiring(f, StoreOf[t])) + 1
  BY <1>3, <1>4, ThreadSets, FS_AddElement, Zenon
<1>6. p[StoreOf[t]] = Cardinality(Acquiring(f, StoreOf[t]))
  BY <1>1, Zenon DEF Pended
<1>7. ASSUME NEW s \in Stores
      PROVE  [p EXCEPT ![StoreOf[t]] = @ + 1][s] = Cardinality(Acquiring(g, s))
  <2>1. CASE s = StoreOf[t]
    BY <2>1, <1>5, <1>6, <1>1
  <2>2. CASE s # StoreOf[t]
    BY <2>2, <1>2, Zenon DEF Pended
  <2> QED BY <2>1, <2>2, Zenon
<1>8. [p EXCEPT ![StoreOf[t]] = @ + 1] \in [Stores -> Nat]
  BY <1>1
<1> QED BY <1>7, <1>8, Zenon DEF Pended

LEMMA PendedLess ==
  ASSUME ExclusionConstants, NEW f, NEW g, NEW t \in Threads, Only(f, g, t), Waiting(f[t]), ~Waiting(g[t]),
         NEW p \in [Stores -> Nat], Pended(f, p)
  PROVE  /\ Pended(g, [p EXCEPT ![StoreOf[t]] = @ - 1])
         /\ [p EXCEPT ![StoreOf[t]] = @ - 1] \in [Stores -> Nat]
<1>1. StoreOf[t] \in Stores
  BY Zenon DEF ExclusionConstants
<1>2. ASSUME NEW s \in Stores, s # StoreOf[t] PROVE Acquiring(g, s) = Acquiring(f, s)
  BY <1>2, Zenon DEF Acquiring, Only
<1>3. Acquiring(g, StoreOf[t]) = Acquiring(f, StoreOf[t]) \ {t} /\ t \in Acquiring(f, StoreOf[t])
  BY DEF Acquiring, Only
<1>4. Acquiring(f, StoreOf[t]) \in SUBSET Threads /\ Acquiring(g, StoreOf[t]) \in SUBSET Threads
  BY Zenon DEF Acquiring
<1>5. Cardinality(Acquiring(g, StoreOf[t])) = Cardinality(Acquiring(f, StoreOf[t])) - 1
  BY <1>3, <1>4, ThreadSets, FS_RemoveElement
<1>6. p[StoreOf[t]] = Cardinality(Acquiring(f, StoreOf[t]))
  BY <1>1, Zenon DEF Pended
<1>7. ASSUME NEW s \in Stores
      PROVE  [p EXCEPT ![StoreOf[t]] = @ - 1][s] = Cardinality(Acquiring(g, s))
  <2>1. CASE s = StoreOf[t]
    BY <2>1, <1>5, <1>6, <1>1
  <2>2. CASE s # StoreOf[t]
    BY <2>2, <1>2, Zenon DEF Pended
  <2> QED BY <2>1, <2>2, Zenon
<1>8. Cardinality(Acquiring(g, StoreOf[t])) \in Nat
  BY <1>4, ThreadSets, Zenon
<1>9. [p EXCEPT ![StoreOf[t]] = @ - 1] \in [Stores -> Nat]
  BY <1>1, <1>5, <1>6, <1>8
<1> QED BY <1>7, <1>9, Zenon DEF Pended

\* The entries stay exact when a thread keeps its lock object and its owner.
LEMMA CountedKept ==
  ASSUME NEW f, NEW g, NEW t \in Threads, Only(f, g, t), g[t].lock = f[t].lock,
         f[t].lock # 0 => g[t].owner = f[t].owner, NEW e, Counted(f, e)
  PROVE  Counted(g, e)
<1>1. ASSUME NEW s \in Stores, NEW o \in Owners
      PROVE  /\ Referring(g, s, o) = Referring(f, s, o)
             /\ \A u \in Threads : g[u].lock = f[u].lock
  BY Zenon DEF Referring, Only
<1>2. ASSUME NEW s \in Stores, NEW o \in Owners PROVE CountedAt(g, e, s, o)
  <2>1. CountedAt(f, e, s, o)
    BY Zenon DEF Counted
  <2>2. \A u \in Referring(f, s, o) : u \in Threads
    BY Zenon DEF Referring
  <2> QED BY <2>1, <2>2, <1>1, Zenon DEF CountedAt
<1> QED BY <1>2, Zenon DEF Counted

\* The lock objects are locked as before when a thread keeps its place.
LEMMA LockedKept ==
  ASSUME NEW f, NEW g, NEW t \in Threads, Only(f, g, t), Within(g[t]) <=> Within(f[t]),
         Within(f[t]) => g[t].lock = f[t].lock, NEW k, Locked(f, k), Alone(f)
  PROVE  Locked(g, k) /\ Alone(g)
<1>1. \A u \in Threads : (Within(g[u]) <=> Within(f[u])) /\ (Within(f[u]) => g[u].lock = f[u].lock)
  BY Zenon DEF Only
<1>2. Locked(g, k)
  BY <1>1 DEF Locked
<1>3. Alone(g)
  BY <1>1, Zenon DEF Alone
<1> QED BY <1>2, <1>3, Zenon

\* So is the lock file.
LEMMA FiledKept ==
  ASSUME NEW f, NEW g, NEW t \in Threads, Only(f, g, t), Holding(g[t]) <=> Holding(f[t]),
         Holding(f[t]) => g[t].owner = f[t].owner, NEW l, Filed(f, l)
  PROVE  Filed(g, l)
BY DEF Only, Filed

\* A thread that lets go of the lock file frees it for everybody.
LEMMA FiledFreed ==
  ASSUME ExclusionConstants, NEW f, NEW g, NEW t \in Threads, Only(f, g, t), Holding(f[t]), ~Holding(g[t]),
         f[t].owner \in Owners, NEW l \in [Owners -> Threads \cup {Null}], Filed(f, l)
  PROVE  /\ Filed(g, [l EXCEPT ![f[t].owner] = Null])
         /\ [l EXCEPT ![f[t].owner] = Null] \in [Owners -> Threads \cup {Null}]
<1>1. Null \notin Threads
  BY Zenon DEF ExclusionConstants
<1>2. l[f[t].owner] = t
  BY Zenon DEF Filed
<1>3. ASSUME NEW u \in Threads, NEW o \in Owners
      PROVE  [l EXCEPT ![f[t].owner] = Null][o] = u <=> g[u].owner = o /\ Holding(g[u])
  <2>1. CASE u = t
    BY <2>1, <1>1, <1>2, Zenon DEF Filed
  <2>2. CASE u # t
    BY <2>2, <1>1, <1>2 DEF Filed, Only
  <2> QED BY <2>1, <2>2, Zenon
<1>4. [l EXCEPT ![f[t].owner] = Null] \in [Owners -> Threads \cup {Null}]
  BY Zenon
<1> QED BY <1>3, <1>4, Zenon DEF Filed

\* A step that leaves a thread's lock object, owner and hold on the locks as they are
\* can only change what is pending.
Stays(f, g, t) ==
  /\ Only(f, g, t) /\ g[t].lock = f[t].lock /\ (f[t].lock # 0 => g[t].owner = f[t].owner)
  /\ (Within(g[t]) <=> Within(f[t])) /\ (Holding(g[t]) <=> Holding(f[t]))

LEMMA StaysTables ==
  ASSUME NEW f, NEW c, NEW p, NEW e, NEW k, NEW l, Sound(f, c, p, e, k, l),
         NEW t \in Threads, NEW g \in [Threads -> ThreadRow], Stays(f, g, t), Shape(g[t]), ~c[StoreOf[t]]
  PROVE  Shaped(g) /\ Counted(g, e) /\ Locked(g, k) /\ Alone(g) /\ Filed(g, l) /\ Still(g, c)
<1>1. Only(f, g, t) /\ Shape(f[t])
  BY Zenon DEF Stays, Sound, Shaped
<1>2. Holding(f[t]) => f[t].lock # 0
  BY <1>1 DEF Shape, Holding
<1>3. Counted(g, e)
  BY <1>1, CountedKept, Zenon DEF Stays, Sound
<1>4. Locked(g, k) /\ Alone(g)
  BY <1>1, LockedKept, Zenon DEF Stays, Sound
<1>5. Filed(g, l)
  BY <1>1, <1>2, FiledKept, Zenon DEF Stays, Sound
<1>6. Shaped(g)
  BY <1>1, Zenon DEF Sound, Shaped, Only
<1>7. Still(g, c)
  BY <1>1, Zenon DEF Sound, Still, Only
<1> QED BY <1>3, <1>4, <1>5, <1>6, <1>7, Zenon

\* The same without a change of what is pending.
LEMMA StaysPending ==
  ASSUME NEW f, NEW c, NEW p, NEW e, NEW k, NEW l, Sound(f, c, p, e, k, l),
         NEW t \in Threads, NEW g \in [Threads -> ThreadRow], Stays(f, g, t), Shape(g[t]),
         ~c[StoreOf[t]], Waiting(g[t]) <=> Waiting(f[t])
  PROVE  Sound(g, c, p, e, k, l)
<1>1. Only(f, g, t)
  BY Zenon DEF Stays
<1>2. Pended(g, p)
  BY <1>1, PendedKept, Zenon DEF Sound
<1>3. Shaped(g) /\ Counted(g, e) /\ Locked(g, k) /\ Alone(g) /\ Filed(g, l) /\ Still(g, c)
  BY StaysTables, Zenon
<1>4. Typed(g, c, p, e, k, l)
  BY Zenon DEF Sound, Typed
<1> QED BY <1>2, <1>3, <1>4, Zenon DEF Sound

\* What every step needs to know of the thread that takes it.
LEMMA Facts ==
  ASSUME ExclusionConstants, IInv, NEW t \in Threads
  PROVE  /\ th[t] \in ThreadRow /\ Shape(th[t]) /\ StoreOf[t] \in Stores
         /\ th \in [Threads -> ThreadRow]
         /\ th[t].pc # "idle" => ~closed[StoreOf[t]]
         /\ pending \in [Stores -> Nat] /\ Pended(th, pending)
         /\ flock \in [Owners -> Threads \cup {Null}] /\ Filed(th, flock)
<1>1. th \in [Threads -> ThreadRow] /\ pending \in [Stores -> Nat] /\ flock \in [Owners -> Threads \cup {Null}]
  BY Zenon DEF IInv, Sound, Typed
<1>2. th[t] \in ThreadRow /\ StoreOf[t] \in Stores
  BY <1>1, Zenon DEF ExclusionConstants
<1>3. Shape(th[t]) /\ (th[t].pc # "idle" => ~closed[StoreOf[t]])
  BY Zenon DEF IInv, Sound, Shaped, Still
<1>4. Pended(th, pending) /\ Filed(th, flock)
  BY Zenon DEF IInv, Sound
<1> QED BY <1>1, <1>2, <1>3, <1>4, Zenon

\* The row of one thread is replaced.
LEMMA ThreadSet ==
  ASSUME NEW f \in [Threads -> ThreadRow], NEW t \in Threads, NEW r \in ThreadRow, NEW g,
         g = [f EXCEPT ![t] = r]
  PROVE  g \in [Threads -> ThreadRow] /\ g[t] = r /\ Only(f, g, t)
BY Zenon DEF Only

LEMMA IdleRow == Idle \in ThreadRow /\ Shape(Idle) /\ ~Waiting(Idle) /\ ~Within(Idle) /\ ~Holding(Idle) /\ Idle.lock = 0
<1>1. "idle" \in Steps
  BY Zenon DEF Steps
<1> QED BY <1>1 DEF Idle, ThreadRow, Shape, Waiting, Within, Holding

-----------------------------------------------------------------------------
(* The steps of one thread that leave its locks alone.                     *)

LEMMA BeginStep ==
  ASSUME ExclusionConstants, IInv, NEW t \in Threads, NEW o \in Owners, NEW polling \in BOOLEAN,
         BeginAcquisition(t, o, polling)
  PROVE  IInv'
<1>1. PICK r : r = [Idle EXCEPT !.pc = "admitted", !.owner = o, !.polling = polling]
  BY Zenon
<1>2. r \in ThreadRow /\ Shape(r) /\ Waiting(r) /\ ~Within(r) /\ ~Holding(r) /\ r.lock = 0
  <2>1. "admitted" \in Steps
    BY Zenon DEF Steps
  <2>2. PICK a : a = [Idle EXCEPT !.pc = "admitted"]
    BY Zenon
  <2>3. PICK b : b = [a EXCEPT !.owner = o]
    BY Zenon
  <2>4. a \in ThreadRow /\ a.pc = "admitted" /\ a.lock = 0 /\ ~a.again /\ ~a.finish
    <3>1. a \in ThreadRow /\ a.pc = "admitted" /\ a.lock = Idle.lock /\ a.again = Idle.again /\ a.finish = Idle.finish
      BY <2>1, <2>2, IdleRow DEF ThreadRow
    <3>2. Idle.lock = 0 /\ ~Idle.again /\ ~Idle.finish
      BY DEF Idle
    <3> QED BY <3>1, <3>2, Zenon
  <2>5. b \in ThreadRow /\ b.pc = "admitted" /\ b.owner = o /\ b.lock = 0 /\ ~b.again /\ ~b.finish
    BY <2>3, <2>4 DEF ThreadRow
  <2>6. r = [b EXCEPT !.polling = polling]
    BY <1>1, <2>2, <2>3, Zenon
  <2>7. r \in ThreadRow /\ r.pc = "admitted" /\ r.owner = o /\ r.lock = 0 /\ ~r.again /\ ~r.finish
    BY <2>5, <2>6 DEF ThreadRow
  <2> QED BY <2>7 DEF Shape, Waiting, Within, Holding
<1>3. /\ th[t].pc = "idle" /\ th' = [th EXCEPT ![t] = r] /\ pending' = [pending EXCEPT ![StoreOf[t]] = @ + 1]
      /\ ~closed[StoreOf[t]] /\ UNCHANGED <<closed, entries, taken, flock, corrupted>>
  BY <1>1, Zenon DEF BeginAcquisition, At
<1>4. th' \in [Threads -> ThreadRow] /\ th'[t] = r /\ Only(th, th', t)
  BY <1>2, <1>3, Facts, ThreadSet, Zenon
<1>5. th[t].lock = 0 /\ ~Waiting(th[t]) /\ ~Within(th[t]) /\ ~Holding(th[t])
  BY <1>3, Facts DEF Shape, Waiting, Within, Holding
<1>6. Stays(th, th', t)
  BY <1>2, <1>4, <1>5, Zenon DEF Stays
<1>7. Pended(th', pending') /\ pending' \in [Stores -> Nat]
  <2>1. pending \in [Stores -> Nat] /\ Pended(th, pending)
    BY Facts, Zenon
  <2>2. Waiting(th'[t])
    BY <1>2, <1>4, Zenon
  <2>3. Pended(th', [pending EXCEPT ![StoreOf[t]] = @ + 1]) /\ [pending EXCEPT ![StoreOf[t]] = @ + 1] \in [Stores -> Nat]
    BY <1>4, <1>5, <2>1, <2>2, PendedMore, Zenon
  <2> QED BY <1>3, <2>3, Zenon
<1>8. Sound(th, closed, pending, entries, taken, flock) /\ Shape(th'[t])
  BY <1>2, <1>4, Zenon DEF IInv
<1>9. Sound(th', closed, pending', entries, taken, flock)
  <2>1. /\ Shaped(th') /\ Counted(th', entries) /\ Locked(th', taken) /\ Alone(th') /\ Filed(th', flock)
        /\ Still(th', closed)
    BY <1>3, <1>4, <1>6, <1>7, <1>8, StaysTables, Zenon
  <2>2. Typed(th', closed, pending', entries, taken, flock)
    BY <1>4, <1>7, <1>8, Zenon DEF Sound, Typed
  <2> QED BY <2>1, <2>2, <1>7, <1>8, Zenon DEF Sound
<1> QED BY <1>3, <1>9, Zenon DEF IInv

\* The thread goes to another place with its owner and its lock object.
Went(f, g, t, pc) ==
  /\ g \in [Threads -> ThreadRow] /\ Only(f, g, t) /\ g[t].pc = pc
  /\ g[t].owner = f[t].owner /\ g[t].lock = f[t].lock /\ g[t].polling = f[t].polling

\* A step that only moves the thread on.
LEMMA MovesOn ==
  ASSUME ExclusionConstants, IInv, NEW t \in Threads, th' \in [Threads -> ThreadRow], Only(th, th', t),
         th[t].pc # "idle", Shape(th'[t]), th'[t].lock = th[t].lock, th'[t].owner = th[t].owner,
         Within(th'[t]) <=> Within(th[t]), Holding(th'[t]) <=> Holding(th[t]), Waiting(th'[t]) <=> Waiting(th[t]),
         UNCHANGED <<closed, pending, entries, taken, flock, corrupted>>
  PROVE  IInv'
<1>1. Stays(th, th', t)
  BY Zenon DEF Stays
<1>2. Sound(th', closed, pending, entries, taken, flock)
  BY <1>1, Facts, StaysPending, Zenon DEF IInv
<1> QED BY <1>2, Zenon DEF IInv

\* A step that ends the acquisition.
LEMMA EndsAcquisition ==
  ASSUME ExclusionConstants, IInv, NEW t \in Threads, th' \in [Threads -> ThreadRow], Only(th, th', t),
         th[t].pc # "idle", Shape(th'[t]), th'[t].lock = th[t].lock,
         th[t].lock # 0 => th'[t].owner = th[t].owner,
         Within(th'[t]) <=> Within(th[t]), Holding(th'[t]) <=> Holding(th[t]), Waiting(th[t]), ~Waiting(th'[t]),
         pending' = [pending EXCEPT ![StoreOf[t]] = @ - 1],
         UNCHANGED <<closed, entries, taken, flock, corrupted>>
  PROVE  IInv'
<1>1. Stays(th, th', t)
  BY Zenon DEF Stays
<1>2. Pended(th', pending') /\ pending' \in [Stores -> Nat]
  <2>1. pending \in [Stores -> Nat] /\ Pended(th, pending)
    BY Facts, Zenon
  <2>2. Pended(th', [pending EXCEPT ![StoreOf[t]] = @ - 1]) /\ [pending EXCEPT ![StoreOf[t]] = @ - 1] \in [Stores -> Nat]
    BY <2>1, PendedLess, Zenon
  <2> QED BY <2>2, Zenon
<1>3. Sound(th, closed, pending, entries, taken, flock) /\ ~closed[StoreOf[t]]
  BY Facts, Zenon DEF IInv
<1>4. Sound(th', closed, pending', entries, taken, flock)
  <2>1. /\ Shaped(th') /\ Counted(th', entries) /\ Locked(th', taken) /\ Alone(th') /\ Filed(th', flock)
        /\ Still(th', closed)
    BY <1>1, <1>2, <1>3, StaysTables, Zenon
  <2>2. Typed(th', closed, pending', entries, taken, flock)
    BY <1>2, <1>3, Zenon DEF Sound, Typed
  <2> QED BY <2>1, <2>2, <1>2, <1>3, Zenon DEF Sound
<1> QED BY <1>4, Zenon DEF IInv

\* The forms in which the actions change the row of a thread.
Flag(v) == v \in BOOLEAN
PcSet(f, g, t, v) == g = [f EXCEPT ![t].pc = v]
AgainSet(f, g, t, v) == g = [f EXCEPT ![t].again = v]
FinishSet(f, g, t, v) == g = [f EXCEPT ![t].finish = v]
CancelledSet(f, g, t, v) == g = [f EXCEPT ![t].cancelled = v]
LockSet(f, g, t, v) == g = [f EXCEPT ![t].lock = v]
GoneAgain(f, g, t, pc, v) == g = [f EXCEPT ![t].pc = pc, ![t].again = v]
GoneFinish(f, g, t, pc, v) == g = [f EXCEPT ![t].pc = pc, ![t].finish = v]

LEMMA SetPc ==
  ASSUME NEW f \in [Threads -> ThreadRow], NEW t \in Threads, NEW v \in Steps, NEW g, PcSet(f, g, t, v)
  PROVE  /\ Went(f, g, t, v)
         /\ g[t].finish = f[t].finish /\ g[t].again = f[t].again
<1>1. PICK m : m = f[t]
  BY Zenon
<1>2. m \in ThreadRow
  BY <1>1, Zenon
<1>3. PICK r : r = [m EXCEPT !.pc = v]
  BY Zenon
<1>4. r \in ThreadRow
  BY <1>2, <1>3 DEF ThreadRow
<1>5. r.pc = v /\ r.owner = m.owner /\ r.lock = m.lock /\ r.polling = m.polling /\ r.finish = m.finish /\ r.again = m.again
  BY <1>2, <1>3 DEF ThreadRow
<1>6. g = [f EXCEPT ![t] = r]
  BY <1>1, <1>3, Zenon DEF PcSet
<1>7. g \in [Threads -> ThreadRow] /\ g[t] = r /\ Only(f, g, t)
  BY <1>4, <1>6, ThreadSet, Zenon
<1> QED BY <1>1, <1>5, <1>7, Zenon DEF Went

LEMMA SetAgain ==
  ASSUME NEW f \in [Threads -> ThreadRow], NEW t \in Threads, NEW v, Flag(v), NEW g, AgainSet(f, g, t, v)
  PROVE  /\ Went(f, g, t, f[t].pc)
         /\ g[t].finish = f[t].finish /\ g[t].again = v
<1>1. PICK m : m = f[t]
  BY Zenon
<1>2. m \in ThreadRow
  BY <1>1, Zenon
<1>3. PICK r : r = [m EXCEPT !.again = v]
  BY Zenon
<1>4. r \in ThreadRow
  BY <1>2, <1>3 DEF ThreadRow, Flag
<1>5. r.pc = m.pc /\ r.owner = m.owner /\ r.lock = m.lock /\ r.polling = m.polling /\ r.finish = m.finish /\ r.again = v
  BY <1>2, <1>3 DEF ThreadRow
<1>6. g = [f EXCEPT ![t] = r]
  BY <1>1, <1>3, Zenon DEF AgainSet
<1>7. g \in [Threads -> ThreadRow] /\ g[t] = r /\ Only(f, g, t)
  BY <1>4, <1>6, ThreadSet, Zenon
<1> QED BY <1>1, <1>5, <1>7, Zenon DEF Went

LEMMA SetFinish ==
  ASSUME NEW f \in [Threads -> ThreadRow], NEW t \in Threads, NEW v, Flag(v), NEW g, FinishSet(f, g, t, v)
  PROVE  /\ Went(f, g, t, f[t].pc)
         /\ g[t].finish = v /\ g[t].again = f[t].again
<1>1. PICK m : m = f[t]
  BY Zenon
<1>2. m \in ThreadRow
  BY <1>1, Zenon
<1>3. PICK r : r = [m EXCEPT !.finish = v]
  BY Zenon
<1>4. r \in ThreadRow
  BY <1>2, <1>3 DEF ThreadRow, Flag
<1>5. r.pc = m.pc /\ r.owner = m.owner /\ r.lock = m.lock /\ r.polling = m.polling /\ r.finish = v /\ r.again = m.again
  BY <1>2, <1>3 DEF ThreadRow
<1>6. g = [f EXCEPT ![t] = r]
  BY <1>1, <1>3, Zenon DEF FinishSet
<1>7. g \in [Threads -> ThreadRow] /\ g[t] = r /\ Only(f, g, t)
  BY <1>4, <1>6, ThreadSet, Zenon
<1> QED BY <1>1, <1>5, <1>7, Zenon DEF Went

LEMMA SetCancelled ==
  ASSUME NEW f \in [Threads -> ThreadRow], NEW t \in Threads, NEW v, Flag(v), NEW g, CancelledSet(f, g, t, v)
  PROVE  /\ Went(f, g, t, f[t].pc)
         /\ g[t].finish = f[t].finish /\ g[t].again = f[t].again
<1>1. PICK m : m = f[t]
  BY Zenon
<1>2. m \in ThreadRow
  BY <1>1, Zenon
<1>3. PICK r : r = [m EXCEPT !.cancelled = v]
  BY Zenon
<1>4. r \in ThreadRow
  BY <1>2, <1>3 DEF ThreadRow, Flag
<1>5. r.pc = m.pc /\ r.owner = m.owner /\ r.lock = m.lock /\ r.polling = m.polling /\ r.finish = m.finish /\ r.again = m.again
  BY <1>2, <1>3 DEF ThreadRow
<1>6. g = [f EXCEPT ![t] = r]
  BY <1>1, <1>3, Zenon DEF CancelledSet
<1>7. g \in [Threads -> ThreadRow] /\ g[t] = r /\ Only(f, g, t)
  BY <1>4, <1>6, ThreadSet, Zenon
<1> QED BY <1>1, <1>5, <1>7, Zenon DEF Went

LEMMA SetLock ==
  ASSUME NEW f \in [Threads -> ThreadRow], NEW t \in Threads, NEW v \in LockIds \cup {0}, NEW g, LockSet(f, g, t, v)
  PROVE  /\ g \in [Threads -> ThreadRow] /\ Only(f, g, t) /\ g[t].pc = f[t].pc /\ g[t].owner = f[t].owner /\ g[t].lock = v
         /\ g[t].polling = f[t].polling /\ g[t].finish = f[t].finish /\ g[t].again = f[t].again
<1>1. PICK m : m = f[t]
  BY Zenon
<1>2. m \in ThreadRow
  BY <1>1, Zenon
<1>3. PICK r : r = [m EXCEPT !.lock = v]
  BY Zenon
<1>4. r \in ThreadRow
  BY <1>2, <1>3 DEF ThreadRow
<1>5. r.pc = m.pc /\ r.owner = m.owner /\ r.lock = v /\ r.polling = m.polling /\ r.finish = m.finish /\ r.again = m.again
  BY <1>2, <1>3 DEF ThreadRow
<1>6. g = [f EXCEPT ![t] = r]
  BY <1>1, <1>3, Zenon DEF LockSet
<1>7. g \in [Threads -> ThreadRow] /\ g[t] = r /\ Only(f, g, t)
  BY <1>4, <1>6, ThreadSet, Zenon
<1> QED BY <1>1, <1>5, <1>7, Zenon DEF Went

LEMMA GoesAgain ==
  ASSUME NEW f \in [Threads -> ThreadRow], NEW t \in Threads, NEW pc \in Steps, NEW v, Flag(v), NEW g,
         GoneAgain(f, g, t, pc, v)
  PROVE  Went(f, g, t, pc) /\ g[t].again = v /\ g[t].finish = f[t].finish
<1>1. PICK h : PcSet(f, h, t, pc)
  BY Zenon DEF PcSet
<1>2. Went(f, h, t, pc) /\ h[t].finish = f[t].finish /\ h[t].again = f[t].again
  BY <1>1, SetPc, Zenon
<1>3. h \in [Threads -> ThreadRow]
  BY <1>2, Zenon DEF Went
<1>4. AgainSet(h, g, t, v)
  BY <1>1, Zenon DEF PcSet, AgainSet, GoneAgain
<1>5. Went(h, g, t, h[t].pc) /\ g[t].again = v /\ g[t].finish = h[t].finish
  BY <1>3, <1>4, SetAgain
<1>6. Only(f, g, t)
  BY <1>2, <1>5, Zenon DEF Went, Only
<1> QED BY <1>2, <1>5, <1>6, Zenon DEF Went

LEMMA GoesFinish ==
  ASSUME NEW f \in [Threads -> ThreadRow], NEW t \in Threads, NEW pc \in Steps, NEW v, Flag(v), NEW g,
         GoneFinish(f, g, t, pc, v)
  PROVE  Went(f, g, t, pc) /\ g[t].finish = v /\ g[t].again = f[t].again
<1>1. PICK h : PcSet(f, h, t, pc)
  BY Zenon DEF PcSet
<1>2. Went(f, h, t, pc) /\ h[t].finish = f[t].finish /\ h[t].again = f[t].again
  BY <1>1, SetPc, Zenon
<1>3. h \in [Threads -> ThreadRow]
  BY <1>2, Zenon DEF Went
<1>4. FinishSet(h, g, t, v)
  BY <1>1, Zenon DEF PcSet, FinishSet, GoneFinish
<1>5. Went(h, g, t, h[t].pc) /\ g[t].finish = v /\ g[t].again = h[t].again
  BY <1>3, <1>4, SetFinish
<1>6. Only(f, g, t)
  BY <1>2, <1>5, Zenon DEF Went, Only
<1> QED BY <1>2, <1>5, <1>6, Zenon DEF Went

LEMMA StepNames ==
  /\ "admitted" \in Steps /\ "queued" \in Steps /\ "local" \in Steps /\ "bound" \in Steps /\ "held" \in Steps
  /\ "freeing" \in Steps /\ "unlocked" \in Steps /\ "returned" \in Steps
BY Zenon DEF Steps

LEMMA Flags == Flag(TRUE) /\ Flag(FALSE)
BY Zenon DEF Flag

LEMMA LocalBusyStep ==
  ASSUME ExclusionConstants, IInv, NEW t \in Threads, LocalBusy(t)
  PROVE  IInv'
<1>1. Shape(th[t]) /\ th \in [Threads -> ThreadRow] /\ th[t].pc = "queued"
  BY Facts, Zenon DEF LocalBusy, At
<1>2. ~th[t].finish /\ th[t].lock # 0 /\ th[t].owner \in Owners
  BY <1>1 DEF Shape
<1>3. PICK v : Flag(v) /\ v = TRUE /\ GoneAgain(th, th', t, "unlocked", v)
  BY Flags, Zenon DEF LocalBusy, GoneAgain
<1>4. Went(th, th', t, "unlocked") /\ th'[t].again = v /\ th'[t].finish = th[t].finish
  <2>1. "unlocked" \in Steps
    BY StepNames, Zenon
  <2>2. Flag(v) /\ GoneAgain(th, th', t, "unlocked", v)
    BY <1>3, Zenon
  <2>3. th \in [Threads -> ThreadRow]
    BY <1>1, Zenon
  <2> QED BY <2>1, <2>2, <2>3, GoesAgain
<1>5. PICK r : r = th'[t]
  BY Zenon
<1>6. r.pc = "unlocked" /\ r.owner \in Owners /\ r.lock # 0 /\ r.again /\ ~r.finish
  BY <1>2, <1>3, <1>4, <1>5, Zenon DEF Went
<1>7. Shape(r) /\ ~Within(r) /\ ~Holding(r) /\ Waiting(r)
  BY <1>6 DEF Shape, Within, Holding, Waiting
<1>8. th[t].pc # "idle" /\ ~Within(th[t]) /\ ~Holding(th[t]) /\ Waiting(th[t])
  BY <1>1 DEF Within, Holding, Waiting
<1>9. UNCHANGED <<closed, pending, entries, taken, flock, corrupted>>
  BY Zenon DEF LocalBusy
<1> QED BY <1>4, <1>5, <1>7, <1>8, <1>9, MovesOn, Zenon DEF Went

LEMMA FileBusyStep ==
  ASSUME ExclusionConstants, IInv, NEW t \in Threads, FileBusy(t)
  PROVE  IInv'
<1>1. Shape(th[t]) /\ th \in [Threads -> ThreadRow] /\ th[t].pc = "local"
  BY Facts, Zenon DEF FileBusy, At
<1>2. ~th[t].finish /\ th[t].lock # 0 /\ th[t].owner \in Owners
  BY <1>1 DEF Shape
<1>3. PICK v : Flag(v) /\ v = TRUE /\ GoneAgain(th, th', t, "freeing", v)
  BY Flags, Zenon DEF FileBusy, GoneAgain
<1>4. Went(th, th', t, "freeing") /\ th'[t].again = v /\ th'[t].finish = th[t].finish
  <2>1. "freeing" \in Steps
    BY StepNames, Zenon
  <2>2. Flag(v) /\ GoneAgain(th, th', t, "freeing", v)
    BY <1>3, Zenon
  <2>3. th \in [Threads -> ThreadRow]
    BY <1>1, Zenon
  <2> QED BY <2>1, <2>2, <2>3, GoesAgain
<1>5. PICK r : r = th'[t]
  BY Zenon
<1>6. r.pc = "freeing" /\ r.owner \in Owners /\ r.lock # 0 /\ r.again /\ ~r.finish
  BY <1>2, <1>3, <1>4, <1>5, Zenon DEF Went
<1>7. Shape(r) /\ Within(r) /\ ~Holding(r) /\ Waiting(r)
  BY <1>6 DEF Shape, Within, Holding, Waiting
<1>8. th[t].pc # "idle" /\ Within(th[t]) /\ ~Holding(th[t]) /\ Waiting(th[t])
  BY <1>1 DEF Within, Holding, Waiting
<1>9. UNCHANGED <<closed, pending, entries, taken, flock, corrupted>>
  BY Zenon DEF FileBusy
<1> QED BY <1>4, <1>5, <1>7, <1>8, <1>9, MovesOn, Zenon DEF Went

LEMMA FileFailsStep ==
  ASSUME ExclusionConstants, IInv, NEW t \in Threads, FileFails(t)
  PROVE  IInv'
<1>1. Shape(th[t]) /\ th \in [Threads -> ThreadRow] /\ th[t].pc = "local"
  BY Facts, Zenon DEF FileFails, At
<1>2. ~th[t].again /\ th[t].lock # 0 /\ th[t].owner \in Owners
  BY <1>1 DEF Shape
<1>3. PICK v : Flag(v) /\ v = TRUE /\ GoneFinish(th, th', t, "freeing", v)
  BY Flags, Zenon DEF FileFails, GoneFinish
<1>4. Went(th, th', t, "freeing") /\ th'[t].finish = v /\ th'[t].again = th[t].again
  <2>1. "freeing" \in Steps
    BY StepNames, Zenon
  <2>2. Flag(v) /\ GoneFinish(th, th', t, "freeing", v)
    BY <1>3, Zenon
  <2>3. th \in [Threads -> ThreadRow]
    BY <1>1, Zenon
  <2> QED BY <2>1, <2>2, <2>3, GoesFinish
<1>5. PICK r : r = th'[t]
  BY Zenon
<1>6. r.pc = "freeing" /\ r.owner \in Owners /\ r.lock # 0 /\ r.finish /\ ~r.again
  BY <1>2, <1>3, <1>4, <1>5, Zenon DEF Went
<1>7. Shape(r) /\ Within(r) /\ ~Holding(r) /\ Waiting(r)
  BY <1>6 DEF Shape, Within, Holding, Waiting
<1>8. th[t].pc # "idle" /\ Within(th[t]) /\ ~Holding(th[t]) /\ Waiting(th[t])
  BY <1>1 DEF Within, Holding, Waiting
<1>9. UNCHANGED <<closed, pending, entries, taken, flock, corrupted>>
  BY Zenon DEF FileFails
<1> QED BY <1>4, <1>5, <1>7, <1>8, <1>9, MovesOn, Zenon DEF Went

LEMMA CancelStep ==
  ASSUME ExclusionConstants, IInv, NEW t \in Threads, Cancel(t)
  PROVE  IInv'
<1>1. Shape(th[t]) /\ th \in [Threads -> ThreadRow]
  BY Facts, Zenon
<1>2. CancelledSet(th, th', t, TRUE)
  BY Zenon DEF Cancel, CancelledSet
<1>3. Went(th, th', t, th[t].pc) /\ th'[t].finish = th[t].finish /\ th'[t].again = th[t].again
  BY <1>1, <1>2, Flags, SetCancelled, Zenon
<1>4. th[t].pc # "idle"
  <2>1. th[t].pc \in {"admitted", "queued", "local", "bound"} \/ th[t].again
    BY Zenon DEF Cancel
  <2> QED BY <1>1, <2>1 DEF Shape
<1>5. Shape(th'[t])
  BY <1>1, <1>3, Zenon DEF Shape, Went
<1>6. (Within(th'[t]) <=> Within(th[t])) /\ (Holding(th'[t]) <=> Holding(th[t]))
  BY <1>3, Zenon DEF Within, Holding, Went
<1>7. Waiting(th'[t]) <=> Waiting(th[t])
  BY <1>3, Zenon DEF Waiting, Went
<1>8. UNCHANGED <<closed, pending, entries, taken, flock, corrupted>>
  BY Zenon DEF Cancel
<1> QED BY <1>3, <1>4, <1>5, <1>6, <1>7, <1>8, MovesOn, Zenon DEF Went

\* The thread is done.
LEMMA GoesIdle ==
  ASSUME ExclusionConstants, IInv, NEW t \in Threads, th' = [th EXCEPT ![t] = Idle]
  PROVE  /\ th' \in [Threads -> ThreadRow] /\ Only(th, th', t) /\ Shape(th'[t]) /\ th'[t].lock = 0
         /\ ~Waiting(th'[t]) /\ ~Within(th'[t]) /\ ~Holding(th'[t])
<1>1. th \in [Threads -> ThreadRow]
  BY Facts, Zenon
<1>2. th' \in [Threads -> ThreadRow] /\ Only(th, th', t) /\ th'[t] = Idle
  BY <1>1, IdleRow, Zenon DEF Only
<1> QED BY <1>2, IdleRow, Zenon

LEMMA CancelledStep ==
  ASSUME ExclusionConstants, IInv, NEW t \in Threads, CancelledAsleep(t)
  PROVE  IInv'
<1>1. Shape(th[t]) /\ th[t].pc = "admitted"
  BY Facts, Zenon DEF CancelledAsleep, At
<1>2. /\ th[t].pc # "idle" /\ th[t].lock = 0 /\ ~Within(th[t]) /\ ~Holding(th[t]) /\ Waiting(th[t])
  BY <1>1 DEF Shape, Within, Holding, Waiting
<1>3. /\ th' = [th EXCEPT ![t] = Idle] /\ pending' = [pending EXCEPT ![StoreOf[t]] = @ - 1]
      /\ UNCHANGED <<closed, entries, taken, flock, corrupted>>
  BY Zenon DEF CancelledAsleep
<1> QED BY <1>2, <1>3, GoesIdle, EndsAcquisition, Zenon

LEMMA ReturnStep ==
  ASSUME ExclusionConstants, IInv, NEW t \in Threads, Return(t)
  PROVE  IInv'
<1>1. Shape(th[t]) /\ th \in [Threads -> ThreadRow] /\ th[t].pc = "returned"
  BY Facts, Zenon DEF Return, At
<1>2. th[t].lock = 0 /\ th[t].owner \in Owners /\ ~(th[t].again /\ th[t].finish)
  BY <1>1 DEF Shape
<1>3. th[t].pc # "idle" /\ ~Within(th[t]) /\ ~Holding(th[t]) /\ Waiting(th[t])
  BY <1>1 DEF Within, Holding, Waiting
<1>4. CASE th[t].again /\ ~th[t].cancelled
  <2>1. PICK v : Flag(v) /\ v = FALSE /\ GoneAgain(th, th', t, "admitted", v)
    BY <1>4, Flags, Zenon DEF Return, GoneAgain
  <2>2. Went(th, th', t, "admitted") /\ th'[t].again = v /\ th'[t].finish = th[t].finish
    <3>1. "admitted" \in Steps
      BY StepNames, Zenon
    <3> QED BY <1>1, <2>1, <3>1, GoesAgain
  <2>3. PICK r : r = th'[t]
    BY Zenon
  <2>4. r.pc = "admitted" /\ r.owner \in Owners /\ r.lock = 0 /\ ~r.again /\ ~r.finish
    BY <1>2, <1>4, <2>1, <2>2, <2>3, Zenon DEF Went
  <2>5. Shape(r) /\ ~Within(r) /\ ~Holding(r) /\ Waiting(r)
    BY <2>4 DEF Shape, Within, Holding, Waiting
  <2>6. UNCHANGED <<closed, pending, entries, taken, flock, corrupted>>
    BY <1>4, Zenon DEF Return
  <2> QED BY <1>3, <2>2, <2>3, <2>5, <2>6, MovesOn, Zenon DEF Went
<1>5. CASE ~(th[t].again /\ ~th[t].cancelled)
  <2>1. /\ th' = [th EXCEPT ![t] = Idle] /\ pending' = [pending EXCEPT ![StoreOf[t]] = @ - 1]
        /\ UNCHANGED <<closed, entries, taken, flock, corrupted>>
    BY <1>5, Zenon DEF Return
  <2> QED BY <1>2, <1>3, <2>1, GoesIdle, EndsAcquisition, Zenon
<1> QED BY <1>4, <1>5, Zenon

-----------------------------------------------------------------------------
(* The steps at the lock file.                                             *)

\* A step that takes or frees the lock file and keeps everything else.
LEMMA MovesFile ==
  ASSUME ExclusionConstants, IInv, NEW t \in Threads, th' \in [Threads -> ThreadRow], Only(th, th', t),
         th[t].pc # "idle", Shape(th'[t]), th'[t].lock = th[t].lock, th'[t].owner = th[t].owner,
         Within(th[t]), Within(th'[t]), Waiting(th'[t]) <=> Waiting(th[t]),
         Filed(th', flock'), flock' \in [Owners -> Threads \cup {Null}],
         UNCHANGED <<closed, pending, entries, taken, corrupted>>
  PROVE  IInv'
<1>1. Sound(th, closed, pending, entries, taken, flock) /\ ~closed[StoreOf[t]]
  BY Facts, Zenon DEF IInv
<1>2. Pended(th', pending)
  BY <1>1, PendedKept, Zenon DEF Sound
<1>3. Counted(th', entries)
  BY <1>1, CountedKept, Zenon DEF Sound
<1>4. Locked(th', taken) /\ Alone(th')
  BY <1>1, LockedKept, Zenon DEF Sound
<1>5. Shaped(th') /\ Still(th', closed)
  BY <1>1, Zenon DEF Sound, Shaped, Still, Only
<1>6. Typed(th', closed, pending, entries, taken, flock')
  BY <1>1, Zenon DEF Sound, Typed
<1>7. Sound(th', closed, pending, entries, taken, flock')
  BY <1>1, <1>2, <1>3, <1>4, <1>5, <1>6, Zenon DEF Sound
<1> QED BY <1>7, Zenon DEF IInv

LEMMA ReleaseFileStep ==
  ASSUME ExclusionConstants, IInv, NEW t \in Threads, ReleaseFile(t)
  PROVE  IInv'
<1>1. Shape(th[t]) /\ th \in [Threads -> ThreadRow] /\ th[t].pc = "held" /\ Filed(th, flock)
      /\ flock \in [Owners -> Threads \cup {Null}]
  BY Facts, Zenon DEF ReleaseFile, At
<1>2. ~th[t].finish /\ ~th[t].again /\ th[t].lock # 0 /\ th[t].owner \in Owners
  BY <1>1 DEF Shape
<1>3. PcSet(th, th', t, "freeing")
  BY Zenon DEF ReleaseFile, PcSet
<1>4. Went(th, th', t, "freeing") /\ th'[t].finish = th[t].finish /\ th'[t].again = th[t].again
  <2>1. "freeing" \in Steps
    BY StepNames, Zenon
  <2>2. th \in [Threads -> ThreadRow]
    BY <1>1, Zenon
  <2> QED BY <1>3, <2>1, <2>2, SetPc, Zenon
<1>5. PICK r : r = th'[t]
  BY Zenon
<1>6. r.pc = "freeing" /\ r.owner \in Owners /\ r.lock # 0 /\ ~r.again /\ ~r.finish
  BY <1>2, <1>4, <1>5, Zenon DEF Went
<1>7. Shape(r) /\ Within(r) /\ ~Holding(r) /\ ~Waiting(r)
  BY <1>6 DEF Shape, Within, Holding, Waiting
<1>8. th[t].pc # "idle" /\ Within(th[t]) /\ Holding(th[t]) /\ ~Waiting(th[t])
  BY <1>1 DEF Within, Holding, Waiting
<1>9. flock' = [flock EXCEPT ![th[t].owner] = Null] /\ UNCHANGED <<closed, pending, entries, taken, corrupted>>
  BY Zenon DEF ReleaseFile
<1>10. Filed(th', flock') /\ flock' \in [Owners -> Threads \cup {Null}]
  <2>1. ~Holding(th'[t]) /\ Only(th, th', t)
    BY <1>4, <1>5, <1>7, Zenon DEF Went
  <2> QED BY <1>1, <1>2, <1>8, <1>9, <2>1, FiledFreed, Zenon
<1> QED BY <1>4, <1>5, <1>7, <1>8, <1>9, <1>10, MovesFile, Zenon DEF Went

LEMMA FinishStep ==
  ASSUME ExclusionConstants, IInv, NEW t \in Threads, FinishAcquisition(t)
  PROVE  IInv'
<1>1. Shape(th[t]) /\ th \in [Threads -> ThreadRow] /\ th[t].pc = "bound" /\ Filed(th, flock)
      /\ flock \in [Owners -> Threads \cup {Null}]
  BY Facts, Zenon DEF FinishAcquisition, At
<1>2. ~th[t].finish /\ ~th[t].again /\ th[t].lock # 0 /\ th[t].owner \in Owners
  BY <1>1 DEF Shape
<1>3. th[t].pc # "idle" /\ Within(th[t]) /\ Holding(th[t]) /\ Waiting(th[t])
  BY <1>1 DEF Within, Holding, Waiting
<1>4. CASE th[t].cancelled
  <2>1. PICK v : Flag(v) /\ v = TRUE /\ GoneFinish(th, th', t, "freeing", v)
    BY <1>4, Flags, Zenon DEF FinishAcquisition, GoneFinish
  <2>2. Went(th, th', t, "freeing") /\ th'[t].finish = v /\ th'[t].again = th[t].again
    <3>1. "freeing" \in Steps
      BY StepNames, Zenon
    <3>2. Flag(v) /\ GoneFinish(th, th', t, "freeing", v)
      BY <2>1, Zenon
    <3>3. th \in [Threads -> ThreadRow]
      BY <1>1, Zenon
    <3> QED BY <3>1, <3>2, <3>3, GoesFinish
  <2>3. PICK r : r = th'[t]
    BY Zenon
  <2>4. r.pc = "freeing" /\ r.owner \in Owners /\ r.lock # 0 /\ ~r.again /\ r.finish
    BY <1>2, <2>1, <2>2, <2>3, Zenon DEF Went
  <2>5. Shape(r) /\ Within(r) /\ ~Holding(r) /\ Waiting(r)
    BY <2>4 DEF Shape, Within, Holding, Waiting
  <2>6. flock' = [flock EXCEPT ![th[t].owner] = Null] /\ UNCHANGED <<closed, pending, entries, taken, corrupted>>
    BY <1>4, Zenon DEF FinishAcquisition
  <2>7. Filed(th', flock') /\ flock' \in [Owners -> Threads \cup {Null}]
    <3>1. ~Holding(th'[t]) /\ Only(th, th', t)
      BY <2>2, <2>3, <2>5, Zenon DEF Went
    <3> QED BY <1>1, <1>2, <1>3, <2>6, <3>1, FiledFreed, Zenon
  <2> QED BY <1>3, <2>2, <2>3, <2>5, <2>6, <2>7, MovesFile, Zenon DEF Went
<1>5. CASE ~th[t].cancelled
  <2>1. PcSet(th, th', t, "held")
    BY <1>5, Zenon DEF FinishAcquisition, PcSet
  <2>2. Went(th, th', t, "held") /\ th'[t].finish = th[t].finish /\ th'[t].again = th[t].again
    <3>1. "held" \in Steps
      BY StepNames, Zenon
    <3>2. th \in [Threads -> ThreadRow]
      BY <1>1, Zenon
    <3> QED BY <2>1, <3>1, <3>2, SetPc, Zenon
  <2>3. PICK r : r = th'[t]
    BY Zenon
  <2>4. r.pc = "held" /\ r.owner \in Owners /\ r.lock # 0 /\ ~r.again /\ ~r.finish
    BY <1>2, <2>2, <2>3, Zenon DEF Went
  <2>5. Shape(r) /\ Within(r) /\ Holding(r) /\ ~Waiting(r)
    BY <2>4 DEF Shape, Within, Holding, Waiting
  <2>6. /\ pending' = [pending EXCEPT ![StoreOf[t]] = @ - 1]
        /\ UNCHANGED <<closed, entries, taken, flock, corrupted>>
    BY <1>5, Zenon DEF FinishAcquisition
  <2> QED BY <1>3, <2>2, <2>3, <2>5, <2>6, EndsAcquisition, Zenon DEF Went
<1> QED BY <1>4, <1>5, Zenon

LEMMA LockFileStep ==
  ASSUME ExclusionConstants, IInv, NEW t \in Threads, LockFile(t)
  PROVE  IInv'
<1>1. Shape(th[t]) /\ th \in [Threads -> ThreadRow] /\ th[t].pc = "local" /\ Filed(th, flock)
      /\ flock \in [Owners -> Threads \cup {Null}]
  BY Facts, Zenon DEF LockFile, At
<1>2. ~th[t].finish /\ ~th[t].again /\ th[t].lock # 0 /\ th[t].owner \in Owners
  BY <1>1 DEF Shape
<1>3. th[t].pc # "idle" /\ Within(th[t]) /\ ~Holding(th[t]) /\ Waiting(th[t])
  BY <1>1 DEF Within, Holding, Waiting
<1>4. PcSet(th, th', t, "bound")
  BY Zenon DEF LockFile, PcSet
<1>5. Went(th, th', t, "bound") /\ th'[t].finish = th[t].finish /\ th'[t].again = th[t].again
  <2>1. "bound" \in Steps
    BY StepNames, Zenon
  <2>2. th \in [Threads -> ThreadRow]
    BY <1>1, Zenon
  <2> QED BY <1>4, <2>1, <2>2, SetPc, Zenon
<1>6. PICK r : r = th'[t]
  BY Zenon
<1>7. r.pc = "bound" /\ r.owner = th[t].owner /\ r.owner \in Owners /\ r.lock # 0 /\ ~r.again /\ ~r.finish
  BY <1>2, <1>5, <1>6, Zenon DEF Went
<1>8. Shape(r) /\ Within(r) /\ Holding(r) /\ Waiting(r)
  BY <1>7 DEF Shape, Within, Holding, Waiting
<1>9. /\ flock[th[t].owner] = Null /\ flock' = [flock EXCEPT ![th[t].owner] = t]
      /\ UNCHANGED <<closed, pending, entries, taken, corrupted>>
  BY Zenon DEF LockFile
<1>10. flock' \in [Owners -> Threads \cup {Null}]
  BY <1>1, <1>2, <1>9, Zenon
<1>11. Filed(th', flock')
  <2>1. Null \notin Threads
    BY Zenon DEF ExclusionConstants
  <2>2. ASSUME NEW u \in Threads, NEW o \in Owners
        PROVE  flock'[o] = u <=> th'[u].owner = o /\ Holding(th'[u])
    <3>1. flock[o] = u <=> th[u].owner = o /\ Holding(th[u])
      BY <1>1, Zenon DEF Filed
    <3>2. CASE u = t
      BY <3>1, <3>2, <1>1, <1>3, <1>6, <1>7, <1>8, <1>9, Zenon
    <3>3. CASE u # t
      <4>1. th'[u] = th[u]
        BY <3>3, <1>5, Zenon DEF Went, Only
      <4>2. CASE o = th[t].owner
        BY <4>1, <4>2, <3>1, <3>3, <2>1, <1>1, <1>2, <1>9, Zenon
      <4>3. CASE o # th[t].owner
        BY <4>1, <4>3, <3>1, <1>1, <1>9, Zenon
      <4> QED BY <4>2, <4>3, Zenon
    <3> QED BY <3>2, <3>3, Zenon
  <2> QED BY <2>2, Zenon DEF Filed
<1> QED BY <1>3, <1>5, <1>6, <1>8, <1>9, <1>10, <1>11, MovesFile, Zenon DEF Went

-----------------------------------------------------------------------------
(* The steps at the local lock.                                            *)

\* A step that takes or frees the local lock and keeps everything else.
LEMMA MovesLocal ==
  ASSUME ExclusionConstants, IInv, NEW t \in Threads, th' \in [Threads -> ThreadRow], Only(th, th', t),
         th[t].pc # "idle", Shape(th'[t]), th'[t].lock = th[t].lock, th'[t].owner = th[t].owner,
         ~Holding(th[t]), ~Holding(th'[t]), Waiting(th'[t]) <=> Waiting(th[t]),
         Locked(th', taken'), Alone(th'), taken' \in [Stores -> SUBSET LockIds],
         UNCHANGED <<closed, pending, entries, flock, corrupted>>
  PROVE  IInv'
<1>1. Sound(th, closed, pending, entries, taken, flock) /\ ~closed[StoreOf[t]]
  BY Facts, Zenon DEF IInv
<1>2. Pended(th', pending)
  BY <1>1, PendedKept, Zenon DEF Sound
<1>3. Counted(th', entries)
  BY <1>1, CountedKept, Zenon DEF Sound
<1>4. Filed(th', flock)
  BY <1>1, FiledKept, Zenon DEF Sound
<1>5. Shaped(th') /\ Still(th', closed)
  BY <1>1, Zenon DEF Sound, Shaped, Still, Only
<1>6. Typed(th', closed, pending, entries, taken', flock)
  BY <1>1, Zenon DEF Sound, Typed
<1>7. Sound(th', closed, pending, entries, taken', flock)
  BY <1>1, <1>2, <1>3, <1>4, <1>5, <1>6, Zenon DEF Sound
<1> QED BY <1>7, Zenon DEF IInv

\* The lock object of a thread.
LEMMA LockFacts ==
  ASSUME ExclusionConstants, IInv, NEW t \in Threads, th[t].lock # 0
  PROVE  /\ th[t].lock \in LockIds /\ th[t].owner \in Owners
         /\ Entry(t) # Null /\ Entry(t).lock = th[t].lock
         /\ Entry(t).refs = Cardinality(Referring(th, StoreOf[t], th[t].owner))
         /\ t \in Referring(th, StoreOf[t], th[t].owner)
         /\ taken \in [Stores -> SUBSET LockIds] /\ Locked(th, taken) /\ Alone(th)
<1>1. th[t] \in ThreadRow /\ Shape(th[t]) /\ StoreOf[t] \in Stores
  BY Facts, Zenon
<1>2. th[t].lock \in LockIds
  BY <1>1, Zenon DEF ThreadRow
<1>3. th[t].owner \in Owners
  BY <1>1 DEF Shape
<1>4. t \in Referring(th, StoreOf[t], th[t].owner)
  BY Zenon DEF Referring
<1>5. CountedAt(th, entries, StoreOf[t], th[t].owner)
  BY <1>1, <1>3, Zenon DEF IInv, Sound, Counted
<1>6. Entry(t) # Null /\ Entry(t).lock = th[t].lock
      /\ Entry(t).refs = Cardinality(Referring(th, StoreOf[t], th[t].owner))
  BY <1>4, <1>5, Zenon DEF CountedAt, Entry
<1>7. taken \in [Stores -> SUBSET LockIds] /\ Locked(th, taken) /\ Alone(th)
  BY Zenon DEF IInv, Sound, Typed
<1> QED BY <1>2, <1>3, <1>4, <1>6, <1>7, Zenon

LEMMA LockLocalStep ==
  ASSUME ExclusionConstants, IInv, NEW t \in Threads, LockLocal(t)
  PROVE  IInv'
<1>1. Shape(th[t]) /\ th \in [Threads -> ThreadRow] /\ th[t].pc = "queued" /\ StoreOf[t] \in Stores
  BY Facts, Zenon DEF LockLocal, At
<1>2. ~th[t].finish /\ ~th[t].again /\ th[t].lock # 0 /\ th[t].owner \in Owners
  BY <1>1 DEF Shape
<1>3. th[t].pc # "idle" /\ ~Within(th[t]) /\ ~Holding(th[t]) /\ Waiting(th[t])
  BY <1>1 DEF Within, Holding, Waiting
<1>4. Went(th, th', t, "local") /\ th'[t].finish = th[t].finish /\ th'[t].again = th[t].again
  <2>1. "local" \in Steps
    BY StepNames, Zenon
  <2>2. th \in [Threads -> ThreadRow]
    BY <1>1, Zenon
  <2>3. PcSet(th, th', t, "local")
    BY Zenon DEF LockLocal, PcSet
  <2> QED BY <2>1, <2>2, <2>3, SetPc, Zenon
<1>5. PICK r : r = th'[t]
  BY Zenon
<1>6. r.pc = "local" /\ r.owner \in Owners /\ r.lock # 0 /\ r.lock = th[t].lock /\ ~r.again /\ ~r.finish
  BY <1>2, <1>4, <1>5, Zenon DEF Went
<1>7. Shape(r) /\ Within(r) /\ ~Holding(r) /\ Waiting(r)
  BY <1>6 DEF Shape, Within, Holding, Waiting
<1>8. PICK s, id : s = StoreOf[t] /\ id = th[t].lock
  BY Zenon
<1>9. id \notin taken[s] /\ taken' = [taken EXCEPT ![s] = @ \cup {id}]
      /\ UNCHANGED <<closed, pending, entries, flock, corrupted>>
  BY <1>8, Zenon DEF LockLocal
<1>10. /\ id \in LockIds /\ s \in Stores /\ taken \in [Stores -> SUBSET LockIds] /\ Locked(th, taken) /\ Alone(th)
  BY <1>1, <1>2, <1>8, LockFacts, Zenon
<1>11. taken' \in [Stores -> SUBSET LockIds] /\ taken'[s] = taken[s] \cup {id}
       /\ \A z \in Stores : z # s => taken'[z] = taken[z]
  BY <1>9, <1>10
<1>12. /\ \A u \in Threads : u # t => th'[u] = th[u]
       /\ \A u \in Threads : ~(StoreOf[u] = s /\ Within(th[u]) /\ th[u].lock = id)
  <2>1. \A u \in Threads : u # t => th'[u] = th[u]
    BY <1>4, Zenon DEF Went, Only
  <2>2. \A u \in Threads : ~(StoreOf[u] = s /\ Within(th[u]) /\ th[u].lock = id)
    BY <1>9, <1>10, Zenon DEF Locked
  <2> QED BY <2>1, <2>2, Zenon
<1>13. Within(th'[t]) /\ th'[t].lock = id
  BY <1>5, <1>6, <1>7, <1>8, Zenon
<1>14. Locked(th', taken')
  <2>1. ASSUME NEW z \in Stores, NEW i \in LockIds
        PROVE  i \in taken'[z] <=> \E u \in Threads : StoreOf[u] = z /\ Within(th'[u]) /\ th'[u].lock = i
    <3>1. i \in taken[z] <=> \E u \in Threads : StoreOf[u] = z /\ Within(th[u]) /\ th[u].lock = i
      BY <1>10, Zenon DEF Locked
    <3>2. CASE z = s /\ i = id
      BY <3>2, <1>8, <1>11, <1>13, Zenon
    <3>3. CASE ~(z = s /\ i = id)
      <4>1. i \in taken'[z] <=> i \in taken[z]
        BY <3>3, <1>11, Zenon
      <4>2. \A u \in Threads : (StoreOf[u] = z /\ Within(th'[u]) /\ th'[u].lock = i)
                               <=> (StoreOf[u] = z /\ Within(th[u]) /\ th[u].lock = i)
        BY <3>3, <1>3, <1>8, <1>12, <1>13, Zenon
      <4> QED BY <3>1, <4>1, <4>2, Zenon
    <3> QED BY <3>2, <3>3, Zenon
  <2> QED BY <2>1, Zenon DEF Locked
<1>15. Alone(th')
  BY <1>8, <1>10, <1>12, <1>13, Zenon DEF Alone
<1>16. th' \in [Threads -> ThreadRow] /\ Only(th, th', t) /\ th'[t].lock = th[t].lock /\ th'[t].owner = th[t].owner
  BY <1>4, Zenon DEF Went
<1> QED BY <1>3, <1>5, <1>7, <1>9, <1>11, <1>14, <1>15, <1>16, MovesLocal, Zenon

LEMMA UnlockStep ==
  ASSUME ExclusionConstants, IInv, NEW t \in Threads, Unlock(t)
  PROVE  IInv'
<1>1. Shape(th[t]) /\ th \in [Threads -> ThreadRow] /\ th[t].pc = "freeing" /\ StoreOf[t] \in Stores
  BY Facts, Zenon DEF Unlock, At
<1>2. th[t].lock # 0 /\ th[t].owner \in Owners
  BY <1>1 DEF Shape
<1>3. th[t].pc # "idle" /\ Within(th[t]) /\ ~Holding(th[t])
  BY <1>1 DEF Within, Holding
<1>4. Went(th, th', t, "unlocked") /\ th'[t].finish = th[t].finish /\ th'[t].again = th[t].again
  <2>1. "unlocked" \in Steps
    BY StepNames, Zenon
  <2>2. th \in [Threads -> ThreadRow]
    BY <1>1, Zenon
  <2>3. PcSet(th, th', t, "unlocked")
    BY Zenon DEF Unlock, PcSet
  <2> QED BY <2>1, <2>2, <2>3, SetPc, Zenon
<1>5. PICK r : r = th'[t]
  BY Zenon
<1>6. r.pc = "unlocked" /\ r.owner \in Owners /\ r.lock # 0 /\ ~(r.again /\ r.finish)
  <2>1. ~(th[t].again /\ th[t].finish)
    BY <1>1, Zenon DEF Shape
  <2> QED BY <1>2, <1>4, <1>5, <2>1, Zenon DEF Went
<1>7. Shape(r) /\ ~Within(r) /\ ~Holding(r)
  BY <1>6 DEF Shape, Within, Holding
<1>8. Waiting(r) <=> Waiting(th[t])
  <2>1. Waiting(r) <=> r.again \/ r.finish
    BY <1>6 DEF Waiting
  <2>2. Waiting(th[t]) <=> th[t].again \/ th[t].finish
    BY <1>1 DEF Waiting
  <2> QED BY <1>4, <1>5, <2>1, <2>2, Zenon
<1>9. PICK s, id : s = StoreOf[t] /\ id = th[t].lock
  BY Zenon
<1>10. /\ id \in LockIds /\ s \in Stores /\ taken \in [Stores -> SUBSET LockIds] /\ Locked(th, taken) /\ Alone(th)
       /\ Entry(t) # Null /\ Entry(t).lock = id
  BY <1>1, <1>2, <1>9, LockFacts, Zenon
<1>11. taken' = [taken EXCEPT ![s] = @ \ {id}] /\ UNCHANGED <<closed, pending, entries, flock, corrupted>>
  BY <1>9, <1>10, Zenon DEF Unlock
<1>12. taken' \in [Stores -> SUBSET LockIds] /\ taken'[s] = taken[s] \ {id}
       /\ \A z \in Stores : z # s => taken'[z] = taken[z]
  BY <1>10, <1>11
<1>13. \A u \in Threads : u # t => th'[u] = th[u]
  BY <1>4, Zenon DEF Went, Only
<1>14. ~Within(th'[t])
  BY <1>5, <1>7, Zenon
<1>15. Locked(th', taken')
  <2>1. ASSUME NEW z \in Stores, NEW i \in LockIds
        PROVE  i \in taken'[z] <=> \E u \in Threads : StoreOf[u] = z /\ Within(th'[u]) /\ th'[u].lock = i
    <3>1. i \in taken[z] <=> \E u \in Threads : StoreOf[u] = z /\ Within(th[u]) /\ th[u].lock = i
      BY <1>10, Zenon DEF Locked
    <3>2. CASE z = s /\ i = id
      <4>1. i \notin taken'[z]
        BY <3>2, <1>12, Zenon
      <4>2. ASSUME NEW u \in Threads, StoreOf[u] = z, Within(th'[u]), th'[u].lock = i PROVE FALSE
        <5>1. u # t /\ th'[u] = th[u]
          BY <4>2, <1>13, <1>14, Zenon
        <5>2. StoreOf[u] = StoreOf[t] /\ Within(th[u]) /\ th[u].lock = th[t].lock
          BY <4>2, <5>1, <3>2, <1>9, Zenon
        <5> QED BY <5>1, <5>2, <1>3, <1>10, Zenon DEF Alone
      <4> QED BY <4>1, <4>2, Zenon
    <3>3. CASE ~(z = s /\ i = id)
      <4>1. i \in taken'[z] <=> i \in taken[z]
        BY <3>3, <1>12, Zenon
      <4>2. \A u \in Threads : (StoreOf[u] = z /\ Within(th'[u]) /\ th'[u].lock = i)
                               <=> (StoreOf[u] = z /\ Within(th[u]) /\ th[u].lock = i)
        BY <3>3, <1>3, <1>9, <1>13, <1>14, Zenon
      <4> QED BY <3>1, <4>1, <4>2, Zenon
    <3> QED BY <3>2, <3>3, Zenon
  <2> QED BY <2>1, Zenon DEF Locked
<1>16. Alone(th')
  BY <1>10, <1>13, <1>14, Zenon DEF Alone
<1>17. th' \in [Threads -> ThreadRow] /\ Only(th, th', t) /\ th'[t].lock = th[t].lock /\ th'[t].owner = th[t].owner
  BY <1>4, Zenon DEF Went
<1> QED BY <1>3, <1>5, <1>7, <1>8, <1>11, <1>12, <1>15, <1>16, <1>17, MovesLocal, Zenon

-----------------------------------------------------------------------------
(* The steps at the table of entries.                                      *)

\* A nonempty set of numbers has a least one, which Min picks.
LEMMA LeastOne == ASSUME NEW S, S \subseteq Nat, S # {} PROVE Min(S) \in S
<1> DEFINE R == OpToRel(<, Nat)
<1>1. IsWellFoundedOn(R, Nat)
  BY NatLessThanWellFounded, Zenon
<1>2. \A x, y \in Nat : <<y, x>> \in R <=> y < x
  BY Zenon DEF OpToRel
<1> HIDE DEF R
<1>3. PICK x \in S : \A y \in S : ~ (<<y, x>> \in R)
  BY <1>1, WFMin, Zenon
<1>4. ASSUME NEW y \in S PROVE x <= y
  <2>1. x \in Nat /\ y \in Nat
    BY Zenon
  <2>2. ~ (y < x)
    BY <1>2, <1>3, <2>1, Zenon
  <2> QED BY <2>1, <2>2
<1> QED BY <1>3, <1>4, Zenon DEF Min

\* threading.Lock() makes an object of its own: there are as many names as threads, and a
\* thread that asks for one has none.
LEMMA FreshLock ==
  ASSUME ExclusionConstants, IInv, NEW t \in Threads, th[t].lock = 0
  PROVE  /\ NewLock(StoreOf[t]) \in LockIds
         /\ \A o \in Owners : entries[StoreOf[t]][o] # Null => entries[StoreOf[t]][o].lock # NewLock(StoreOf[t])
<1>1. PICK s : s = StoreOf[t]
  BY Zenon
<1>2. s \in Stores /\ th \in [Threads -> ThreadRow] /\ IsFiniteSet(Threads)
  BY <1>1, Facts, Zenon DEF ExclusionConstants
<1>3. PICK E : E = {entries[s][o].lock : o \in {x \in Owners : entries[s][x] # Null}}
  BY Zenon
<1>4. PICK L : L = {th[u].lock : u \in {x \in Threads : StoreOf[x] = s}}
  BY Zenon
<1>5. \A i \in E \cup L : \E u \in Threads : th[u].lock = i
  <2>1. \A i \in L : \E u \in Threads : th[u].lock = i
    BY <1>4, Zenon
  <2>2. ASSUME NEW i \in E PROVE \E u \in Threads : th[u].lock = i
    <3>1. PICK o \in Owners : entries[s][o] # Null /\ i = entries[s][o].lock
      BY <1>3, <2>2, Zenon
    <3>2. CountedAt(th, entries, s, o)
      BY <1>2, Zenon DEF IInv, Sound, Counted
    <3>3. PICK u \in Referring(th, s, o) : th[u].lock = entries[s][o].lock
      BY <3>1, <3>2, Zenon DEF CountedAt
    <3> QED BY <3>1, <3>3, Zenon DEF Referring
  <2> QED BY <2>1, <2>2, Zenon
<1>6. Cardinality(Threads) \in Nat /\ IsFiniteSet(LockIds) /\ Cardinality(LockIds) = Cardinality(Threads)
      /\ \A i \in LockIds : i # 0
  <2>1. Cardinality(Threads) \in Nat
    BY <1>2, FS_CardinalityType, Zenon
  <2>2. IsFiniteSet(1 .. Cardinality(Threads)) /\ Cardinality(1 .. Cardinality(Threads)) = Cardinality(Threads)
    BY <2>1, FS_Interval
  <2>3. \A i \in 1 .. Cardinality(Threads) : i # 0
    BY <2>1
  <2> QED BY <2>1, <2>2, <2>3, Zenon DEF LockIds
<1>7. LockIds \ (E \cup L) # {}
  <2> SUFFICES ASSUME \A i \in LockIds : i \in E \cup L PROVE FALSE
    BY Zenon
  <2>1. PICK h : h = [i \in LockIds |-> CHOOSE u \in Threads : th[u].lock = i]
    BY Zenon
  <2>2. \A i \in LockIds : h[i] \in Threads /\ th[h[i]].lock = i
    BY <2>1, <1>5, Zenon
  <2>3. \A i \in LockIds : h[i] \in Threads \ {t}
    BY <2>2, <1>6, Zenon
  <2>4. h \in [LockIds -> Threads \ {t}]
    BY <2>1, <2>3, Zenon
  <2>5. IsFiniteSet(Threads \ {t}) /\ Cardinality(Threads \ {t}) = Cardinality(Threads) - 1
    BY <1>2, FS_RemoveElement, Zenon
  <2>6. Cardinality(Threads \ {t}) < Cardinality(LockIds)
    BY <2>5, <1>6
  <2>7. \E i, j \in LockIds : i # j /\ h[i] = h[j]
    BY <2>4, <2>5, <2>6, <1>6, FS_PigeonHole, Zenon
  <2> QED BY <2>2, <2>7, Zenon
<1>8. PICK S : S = LockIds \ (E \cup L)
  BY Zenon
<1>9. S \in SUBSET Nat /\ S # {}
  BY <1>6, <1>7, <1>8 DEF LockIds
<1>10. Min(S) \in S
  BY <1>9, LeastOne, Zenon
<1>11. NewLock(s) = Min(S)
  BY <1>3, <1>4, <1>8, Zenon DEF NewLock
<1>12. NewLock(s) \in LockIds /\ NewLock(s) \notin E
  BY <1>8, <1>10, <1>11, Zenon
<1>13. \A o \in Owners : entries[s][o] # Null => entries[s][o].lock \in E
  BY <1>3, Zenon
<1> QED BY <1>1, <1>12, <1>13, Zenon

\* A step that changes the entry of a thread outside both locks and keeps everything else.
LEMMA MovesEntry ==
  ASSUME ExclusionConstants, IInv, NEW t \in Threads, th' \in [Threads -> ThreadRow], Only(th, th', t),
         th[t].pc # "idle", Shape(th'[t]), ~Within(th[t]), ~Within(th'[t]),
         ~Holding(th[t]), ~Holding(th'[t]), Waiting(th'[t]) <=> Waiting(th[t]),
         Counted(th', entries'), Distinct(entries'), entries' \in [Stores -> [Owners -> EntryRow \cup {Null}]],
         UNCHANGED <<closed, pending, taken, flock, corrupted>>
  PROVE  IInv'
<1>1. Sound(th, closed, pending, entries, taken, flock) /\ ~closed[StoreOf[t]]
  BY Facts, Zenon DEF IInv
<1>2. Pended(th', pending)
  BY <1>1, PendedKept, Zenon DEF Sound
<1>3. Locked(th', taken) /\ Alone(th')
  BY <1>1, LockedKept, Zenon DEF Sound
<1>4. Filed(th', flock)
  BY <1>1, FiledKept, Zenon DEF Sound
<1>5. Shaped(th') /\ Still(th', closed)
  BY <1>1, Zenon DEF Sound, Shaped, Still, Only
<1>6. Typed(th', closed, pending, entries', taken, flock)
  BY <1>1, Zenon DEF Sound, Typed
<1>7. Sound(th', closed, pending, entries', taken, flock)
  BY <1>1, <1>2, <1>3, <1>4, <1>5, <1>6, Zenon DEF Sound
<1> QED BY <1>7, Zenon DEF IInv

\* One entry is replaced.
EntrySet(e, d, s, o, v) == d = [e EXCEPT ![s][o] = v]
OtherEntries(e, d, s, o) == \A z \in Stores, q \in Owners : z # s \/ q # o => d[z][q] = e[z][q]
LEMMA SetsEntry ==
  ASSUME NEW e \in [Stores -> [Owners -> EntryRow \cup {Null}]], NEW s \in Stores, NEW o \in Owners,
         NEW v \in EntryRow \cup {Null}, NEW d, EntrySet(e, d, s, o, v)
  PROVE  d \in [Stores -> [Owners -> EntryRow \cup {Null}]] /\ d[s][o] = v /\ OtherEntries(e, d, s, o)
<1>1. PICK a : a = [e[s] EXCEPT ![o] = v]
  BY Zenon
<1>2. a \in [Owners -> EntryRow \cup {Null}] /\ a[o] = v /\ \A q \in Owners : q # o => a[q] = e[s][q]
  BY <1>1, Zenon
<1>3. d = [e EXCEPT ![s] = a]
  BY <1>1, Zenon DEF EntrySet
<1> QED BY <1>2, <1>3, Zenon DEF OtherEntries

\* The entries stay exact when only the entry of one thread's owner changes, and it does
\* what that thread does.
LEMMA CountedSet ==
  ASSUME NEW f, NEW g, NEW t \in Threads, Only(f, g, t), NEW e, NEW d, NEW s, NEW o, s = StoreOf[t],
         f[t].lock = 0 \/ f[t].owner = o, g[t].lock = 0 \/ g[t].owner = o,
         OtherEntries(e, d, s, o), Counted(f, e), CountedAt(g, d, s, o)
  PROVE  Counted(g, d)
<1>1. ASSUME NEW z \in Stores, NEW q \in Owners PROVE CountedAt(g, d, z, q)
  <2>1. CASE z # s \/ q # o
    <3>1. Referring(g, z, q) = Referring(f, z, q)
      BY <2>1, Zenon DEF Referring, Only
    <3>2. \A u \in Referring(f, z, q) : g[u] = f[u]
      BY <2>1, Zenon DEF Referring, Only
    <3>3. d[z][q] = e[z][q] /\ CountedAt(f, e, z, q)
      BY <2>1, Zenon DEF Counted, OtherEntries
    <3> QED BY <3>1, <3>2, <3>3, Zenon DEF CountedAt
  <2>2. CASE z = s /\ q = o
    BY <2>2, Zenon
  <2> QED BY <2>1, <2>2, Zenon
<1> QED BY <1>1, Zenon DEF Counted

GoneLock(f, g, t, pc, v) == g = [f EXCEPT ![t].pc = pc, ![t].lock = v]
LEMMA GoesLock ==
  ASSUME NEW f \in [Threads -> ThreadRow], NEW t \in Threads, NEW pc \in Steps, NEW v \in LockIds \cup {0}, NEW g,
         GoneLock(f, g, t, pc, v)
  PROVE  /\ g \in [Threads -> ThreadRow] /\ Only(f, g, t) /\ g[t].pc = pc /\ g[t].owner = f[t].owner /\ g[t].lock = v
         /\ g[t].polling = f[t].polling /\ g[t].finish = f[t].finish /\ g[t].again = f[t].again
<1>1. PICK h : PcSet(f, h, t, pc)
  BY Zenon DEF PcSet
<1>2. Went(f, h, t, pc) /\ h[t].finish = f[t].finish /\ h[t].again = f[t].again
  BY <1>1, SetPc, Zenon
<1>3. h \in [Threads -> ThreadRow]
  BY <1>2, Zenon DEF Went
<1>4. LockSet(h, g, t, v)
  BY <1>1, Zenon DEF PcSet, LockSet, GoneLock
<1>5. /\ g \in [Threads -> ThreadRow] /\ Only(h, g, t) /\ g[t].pc = h[t].pc /\ g[t].owner = h[t].owner /\ g[t].lock = v
      /\ g[t].polling = h[t].polling /\ g[t].finish = h[t].finish /\ g[t].again = h[t].again
  BY <1>3, <1>4, SetLock
<1>6. Only(f, g, t)
  BY <1>2, <1>5, Zenon DEF Went, Only
<1> QED BY <1>2, <1>5, <1>6, Zenon DEF Went

LEMMA ReferStep ==
  ASSUME ExclusionConstants, IInv, NEW t \in Threads, Refer(t)
  PROVE  IInv'
<1>1. /\ Shape(th[t]) /\ th \in [Threads -> ThreadRow] /\ th[t].pc = "admitted" /\ StoreOf[t] \in Stores
      /\ entries \in [Stores -> [Owners -> EntryRow \cup {Null}]] /\ Counted(th, entries) /\ Distinct(entries)
  BY Facts, Zenon DEF Refer, At, IInv, Sound, Typed
<1>2. ~th[t].finish /\ ~th[t].again /\ th[t].lock = 0 /\ th[t].owner \in Owners
  BY <1>1 DEF Shape
<1>3. th[t].pc # "idle" /\ ~Within(th[t]) /\ ~Holding(th[t]) /\ Waiting(th[t])
  BY <1>1 DEF Within, Holding, Waiting
<1>4. PICK s, o : s = StoreOf[t] /\ o = th[t].owner
  BY Zenon
<1>5. PICK id : id = IF entries[s][o] = Null THEN NewLock(s) ELSE entries[s][o].lock
  BY Zenon
<1>6. PICK n : n = IF entries[s][o] = Null THEN 0 ELSE entries[s][o].refs
  BY Zenon
<1>7. PICK v : v = [lock |-> id, refs |-> n + 1]
  BY Zenon
<1>8. /\ EntrySet(entries, entries', s, o, v) /\ GoneLock(th, th', t, "queued", id)
      /\ UNCHANGED <<closed, pending, taken, flock, corrupted>>
  BY <1>4, <1>5, <1>6, <1>7, Zenon DEF Refer, Entry, SetEntry, EntrySet, GoneLock
<1>9. s \in Stores /\ o \in Owners /\ entries[s][o] \in EntryRow \cup {Null} /\ CountedAt(th, entries, s, o)
  BY <1>1, <1>2, <1>4, Zenon DEF Counted
<1>10. NewLock(s) \in LockIds /\ \A q \in Owners : entries[s][q] # Null => entries[s][q].lock # NewLock(s)
  BY <1>2, <1>4, FreshLock, Zenon
<1>11. id \in LockIds /\ n \in Nat
  <2>1. entries[s][o] # Null => entries[s][o].lock \in LockIds /\ entries[s][o].refs \in Nat
    BY <1>9, Zenon DEF EntryRow
  <2> QED BY <1>5, <1>6, <1>10, <2>1
<1>12. v \in EntryRow /\ v.lock = id /\ v.refs = n + 1 /\ v # Null
  <2>1. v \in EntryRow /\ v.lock = id /\ v.refs = n + 1
    BY <1>7, <1>11 DEF EntryRow
  <2> QED BY <2>1, Zenon DEF EntryRow, ExclusionConstants
<1>13. /\ th' \in [Threads -> ThreadRow] /\ Only(th, th', t) /\ th'[t].pc = "queued" /\ th'[t].owner = o /\ th'[t].lock = id
       /\ th'[t].finish = th[t].finish /\ th'[t].again = th[t].again
  <2>1. "queued" \in Steps /\ th \in [Threads -> ThreadRow] /\ id \in LockIds \cup {0}
    BY <1>1, <1>11, StepNames, Zenon
  <2>2. GoneLock(th, th', t, "queued", id)
    BY <1>8, Zenon
  <2>3. th' \in [Threads -> ThreadRow] /\ Only(th, th', t) /\ th'[t].pc = "queued" /\ th'[t].owner = th[t].owner /\ th'[t].lock = id
       /\ th'[t].finish = th[t].finish /\ th'[t].again = th[t].again
    BY <2>1, <2>2, GoesLock
  <2> QED BY <1>4, <2>3, Zenon
<1>14. id # 0
  BY <1>11, ThreadSets DEF LockIds
<1>15. PICK r : r = th'[t]
  BY Zenon
<1>16. r.pc = "queued" /\ r.owner \in Owners /\ r.lock # 0 /\ ~r.again /\ ~r.finish
  BY <1>2, <1>9, <1>13, <1>14, <1>15, Zenon
<1>17. Shape(r) /\ ~Within(r) /\ ~Holding(r) /\ Waiting(r)
  BY <1>16 DEF Shape, Within, Holding, Waiting
<1>18. /\ entries' \in [Stores -> [Owners -> EntryRow \cup {Null}]] /\ entries'[s][o] = v
       /\ OtherEntries(entries, entries', s, o)
  <2>1. v \in EntryRow \cup {Null} /\ EntrySet(entries, entries', s, o, v)
    BY <1>8, <1>12, Zenon
  <2>2. entries \in [Stores -> [Owners -> EntryRow \cup {Null}]] /\ s \in Stores /\ o \in Owners
    BY <1>1, <1>9, Zenon
  <2> QED BY <2>1, <2>2, SetsEntry, Zenon
<1>19. CountedAt(th', entries', s, o)
  <2>1. Referring(th', s, o) = Referring(th, s, o) \cup {t} /\ t \notin Referring(th, s, o)
    BY <1>2, <1>4, <1>13, <1>14 DEF Referring, Only
  <2>2. Referring(th, s, o) \in SUBSET Threads
    BY Zenon DEF Referring
  <2>3. Cardinality(Referring(th', s, o)) = Cardinality(Referring(th, s, o)) + 1
    BY <2>1, <2>2, ThreadSets, FS_AddElement, Zenon
  <2>4. n = Cardinality(Referring(th, s, o)) /\ \A u \in Referring(th, s, o) : th[u].lock = id
    <3>1. CASE entries[s][o] = Null
      <4>1. Referring(th, s, o) = {}
        BY <3>1, <1>9, Zenon DEF CountedAt
      <4> QED BY <3>1, <4>1, <1>6, FS_EmptySet, Zenon
    <3>2. CASE entries[s][o] # Null
      BY <3>2, <1>5, <1>6, <1>9, Zenon DEF CountedAt
    <3> QED BY <3>1, <3>2, Zenon
  <2>5. \A u \in Referring(th', s, o) : th'[u].lock = id
    <3>1. \A u \in Referring(th, s, o) : th'[u].lock = id
      BY <2>1, <2>2, <2>4, <1>13, Zenon DEF Only
    <3> QED BY <3>1, <2>1, <1>13, Zenon
  <2>6. Referring(th', s, o) # {}
    BY <2>1, Zenon
  <2>7. v.refs = Cardinality(Referring(th', s, o))
    BY <2>3, <2>4, <1>12, Zenon
  <2> QED BY <2>5, <2>6, <2>7, <1>12, <1>18, Zenon DEF CountedAt
<1>20. Counted(th', entries')
  <2>1. th[t].lock = 0 \/ th[t].owner = o
    BY <1>2, Zenon
  <2>2. th'[t].lock = 0 \/ th'[t].owner = o
    BY <1>13, Zenon
  <2>3. Only(th, th', t) /\ OtherEntries(entries, entries', s, o) /\ Counted(th, entries) /\ s = StoreOf[t]
    BY <1>1, <1>4, <1>13, <1>18, Zenon
  <2> QED BY <1>19, <2>1, <2>2, <2>3, CountedSet, Zenon
<1>21. \A q \in Owners : entries[s][q] # Null /\ entries[s][q].lock = id => q = o
  <2>1. CASE entries[s][o] = Null
    BY <2>1, <1>5, <1>10, Zenon
  <2>2. CASE entries[s][o] # Null
    BY <2>2, <1>1, <1>5, <1>9, Zenon DEF Distinct
  <2> QED BY <2>1, <2>2, Zenon
<1>22. Distinct(entries')
  <2>1. ASSUME NEW z \in Stores, NEW p1 \in Owners, NEW p2 \in Owners, entries'[z][p1] # Null, entries'[z][p2] # Null,
               entries'[z][p1].lock = entries'[z][p2].lock, p1 # p2
        PROVE  FALSE
    <3>1. CASE z = s /\ p1 = o
      <4>1. entries[s][p2] # Null /\ entries[s][p2].lock = id
        BY <2>1, <3>1, <1>12, <1>18, Zenon DEF OtherEntries
      <4> QED BY <4>1, <3>1, <2>1, <1>21, Zenon
    <3>2. CASE z = s /\ p2 = o
      <4>1. entries[s][p1] # Null /\ entries[s][p1].lock = id
        BY <2>1, <3>2, <1>12, <1>18, Zenon DEF OtherEntries
      <4> QED BY <4>1, <3>2, <2>1, <1>21, Zenon
    <3>3. CASE z # s \/ (p1 # o /\ p2 # o)
      BY <2>1, <3>3, <1>1, <1>18, Zenon DEF Distinct, OtherEntries
    <3> QED BY <3>1, <3>2, <3>3, Zenon
  <2> QED BY <2>1, Zenon DEF Distinct
<1> QED BY <1>3, <1>8, <1>13, <1>15, <1>17, <1>18, <1>20, <1>22, MovesEntry, Zenon

\* The row after a release: the thread has no lock object, and is done unless its
\* acquisition failed.
LEMMA UnreferRow ==
  ASSUME ExclusionConstants, IInv, NEW t \in Threads, Unrefer(t)
  PROVE  /\ th' \in [Threads -> ThreadRow] /\ Only(th, th', t) /\ Shape(th'[t]) /\ th'[t].lock = 0
         /\ ~Within(th'[t]) /\ ~Holding(th'[t]) /\ (Waiting(th'[t]) <=> Waiting(th[t]))
<1>1. Shape(th[t]) /\ th \in [Threads -> ThreadRow] /\ th[t].pc = "unlocked"
  BY Facts, Zenon DEF Unrefer, At
<1>2. th[t].owner \in Owners /\ ~(th[t].again /\ th[t].finish)
  BY <1>1 DEF Shape
<1>3. Waiting(th[t]) <=> th[t].again \/ th[t].finish
  BY <1>1 DEF Waiting
<1>4. CASE th[t].again \/ th[t].finish
  <2>1. GoneLock(th, th', t, "returned", 0)
    BY <1>1, <1>4, Zenon DEF Unrefer, GoneLock
  <2>2. /\ th' \in [Threads -> ThreadRow] /\ Only(th, th', t) /\ th'[t].pc = "returned" /\ th'[t].owner = th[t].owner
        /\ th'[t].lock = 0 /\ th'[t].finish = th[t].finish /\ th'[t].again = th[t].again
    <3>1. "returned" \in Steps /\ 0 \in LockIds \cup {0} /\ th \in [Threads -> ThreadRow]
      BY <1>1, StepNames, Zenon
    <3>2. PICK n : n = 0
      BY Zenon
    <3>3. GoneLock(th, th', t, "returned", n) /\ n \in LockIds \cup {0}
      BY <2>1, <3>1, <3>2, Zenon
    <3>4. /\ th' \in [Threads -> ThreadRow] /\ Only(th, th', t) /\ th'[t].pc = "returned" /\ th'[t].owner = th[t].owner
          /\ th'[t].lock = n /\ th'[t].finish = th[t].finish /\ th'[t].again = th[t].again
      BY <3>1, <3>3, GoesLock
    <3> QED BY <3>2, <3>4, Zenon
  <2>3. PICK r : r = th'[t]
    BY Zenon
  <2>4. r.pc = "returned" /\ r.owner \in Owners /\ r.lock = 0 /\ (r.again \/ r.finish) /\ ~(r.again /\ r.finish)
    BY <1>2, <1>4, <2>2, <2>3, Zenon
  <2>5. Shape(r) /\ ~Within(r) /\ ~Holding(r) /\ Waiting(r)
    BY <2>4 DEF Shape, Within, Holding, Waiting
  <2> QED BY <1>3, <1>4, <2>2, <2>3, <2>5, Zenon
<1>5. CASE ~(th[t].again \/ th[t].finish)
  <2>1. th' = [th EXCEPT ![t] = Idle]
    BY <1>5, Zenon DEF Unrefer
  <2> QED BY <1>3, <1>5, <2>1, GoesIdle, Zenon
<1> QED BY <1>4, <1>5, Zenon

LEMMA UnreferStep ==
  ASSUME ExclusionConstants, IInv, NEW t \in Threads, Unrefer(t)
  PROVE  IInv'
<1>1. /\ Shape(th[t]) /\ th[t].pc = "unlocked" /\ StoreOf[t] \in Stores
      /\ entries \in [Stores -> [Owners -> EntryRow \cup {Null}]] /\ Counted(th, entries) /\ Distinct(entries)
  BY Facts, Zenon DEF Unrefer, At, IInv, Sound, Typed
<1>2. th[t].lock # 0
  BY <1>1 DEF Shape
<1>3. th[t].pc # "idle" /\ ~Within(th[t]) /\ ~Holding(th[t])
  BY <1>1 DEF Within, Holding
<1>4. PICK s, o, S : s = StoreOf[t] /\ o = th[t].owner /\ S = Referring(th, s, o)
  BY Zenon
<1>5. /\ s \in Stores /\ o \in Owners /\ entries[s][o] # Null /\ entries[s][o].lock = th[t].lock
      /\ entries[s][o].refs = Cardinality(S) /\ t \in S /\ Entry(t) = entries[s][o] /\ th[t].lock \in LockIds
  BY <1>1, <1>2, <1>4, LockFacts, Zenon DEF Entry
<1>6. S \in SUBSET Threads /\ IsFiniteSet(S) /\ Cardinality(S) \in Nat
  <2>1. S \in SUBSET Threads
    BY <1>4, Zenon DEF Referring
  <2> QED BY <2>1, ThreadSets, Zenon
<1>7. IsFiniteSet(S \ {t}) /\ Cardinality(S \ {t}) = Cardinality(S) - 1 /\ Cardinality(S \ {t}) \in Nat
  BY <1>5, <1>6, FS_RemoveElement, FS_CardinalityType, Zenon
<1>8. Cardinality(S) >= 1
  BY <1>6, <1>7
<1>9. PICK v : v = IF Cardinality(S) = 1 THEN Null ELSE [lock |-> th[t].lock, refs |-> Cardinality(S) - 1]
  BY Zenon
<1>10. EntrySet(entries, entries', s, o, v) /\ UNCHANGED <<closed, pending, taken, flock, corrupted>>
  BY <1>4, <1>5, <1>8, <1>9, Zenon DEF Unrefer, Entry, SetEntry, EntrySet
<1>12. v \in EntryRow \cup {Null}
       /\ (Cardinality(S) # 1 => v # Null /\ v.lock = th[t].lock /\ v.refs = Cardinality(S \ {t}))
  <2>1. CASE Cardinality(S) = 1
    BY <2>1, <1>9, Zenon
  <2>2. CASE Cardinality(S) # 1
    <3>1. v = [lock |-> th[t].lock, refs |-> Cardinality(S \ {t})]
      BY <2>2, <1>7, <1>9, Zenon
    <3>2. v \in EntryRow /\ v.lock = th[t].lock /\ v.refs = Cardinality(S \ {t})
      BY <3>1, <1>5, <1>7 DEF EntryRow
    <3> QED BY <3>2, <2>2, Zenon DEF EntryRow, ExclusionConstants
  <2> QED BY <2>1, <2>2, Zenon
<1>13. /\ entries' \in [Stores -> [Owners -> EntryRow \cup {Null}]] /\ entries'[s][o] = v
       /\ OtherEntries(entries, entries', s, o)
  BY <1>1, <1>5, <1>10, <1>12, SetsEntry, Zenon
<1>14. /\ th' \in [Threads -> ThreadRow] /\ Only(th, th', t) /\ Shape(th'[t]) /\ th'[t].lock = 0
       /\ ~Within(th'[t]) /\ ~Holding(th'[t]) /\ (Waiting(th'[t]) <=> Waiting(th[t]))
  BY UnreferRow, Zenon
<1>15. Referring(th', s, o) = S \ {t}
  BY <1>4, <1>14 DEF Referring, Only
<1>16. CountedAt(th', entries', s, o)
  <2>1. CASE Cardinality(S) = 1
    <3>1. S \ {t} = {}
      <4>1. Cardinality(S \ {t}) = 0
        BY <2>1, <1>7
      <4> QED BY <4>1, <1>7, FS_EmptySet, Zenon
    <3>2. entries'[s][o] = Null
      BY <2>1, <1>9, <1>13, Zenon
    <3> QED BY <3>1, <3>2, <1>15, Zenon DEF CountedAt
  <2>2. CASE Cardinality(S) # 1
    <3>1. S \ {t} # {}
      <4>1. Cardinality(S \ {t}) # 0
        BY <2>2, <1>7
      <4> QED BY <4>1, FS_EmptySet, Zenon
    <3>2. ASSUME NEW u \in S \ {t} PROVE th'[u].lock = v.lock
      <4>1. th'[u] = th[u]
        BY <1>6, <1>14, Zenon DEF Only
      <4>2. th[u].lock = entries[s][o].lock
        BY <1>1, <1>4, <1>5, Zenon DEF Counted, CountedAt
      <4> QED BY <4>1, <4>2, <2>2, <1>5, <1>12, Zenon
    <3> QED BY <3>1, <3>2, <2>2, <1>12, <1>13, <1>15, Zenon DEF CountedAt
  <2> QED BY <2>1, <2>2, Zenon
<1>17. Counted(th', entries')
  <2>1. th[t].lock = 0 \/ th[t].owner = o
    BY <1>4, Zenon
  <2>2. th'[t].lock = 0 \/ th'[t].owner = o
    BY <1>14, Zenon
  <2>3. Only(th, th', t) /\ OtherEntries(entries, entries', s, o) /\ Counted(th, entries) /\ s = StoreOf[t]
    BY <1>1, <1>4, <1>13, <1>14, Zenon
  <2> QED BY <1>16, <2>1, <2>2, <2>3, CountedSet, Zenon
<1>18. Distinct(entries')
  <2>1. ASSUME NEW z \in Stores, NEW q \in Owners, entries'[z][q] # Null
        PROVE  entries[z][q] # Null /\ entries'[z][q].lock = entries[z][q].lock
    <3>1. CASE z = s /\ q = o
      <4>1. Cardinality(S) # 1
        BY <2>1, <3>1, <1>9, <1>13, Zenon
      <4> QED BY <4>1, <3>1, <1>5, <1>12, <1>13, Zenon
    <3>2. CASE z # s \/ q # o
      BY <2>1, <3>2, <1>13, Zenon DEF OtherEntries
    <3> QED BY <3>1, <3>2, Zenon
  <2>2. ASSUME NEW z \in Stores, NEW p1 \in Owners, NEW p2 \in Owners, entries'[z][p1] # Null, entries'[z][p2] # Null,
               entries'[z][p1].lock = entries'[z][p2].lock
        PROVE  p1 = p2
    <3>1. entries[z][p1] # Null /\ entries[z][p2] # Null /\ entries[z][p1].lock = entries[z][p2].lock
      BY <2>1, <2>2, Zenon
    <3> QED BY <3>1, <1>1, Zenon DEF Distinct
  <2> QED BY <2>2, Zenon DEF Distinct
<1> QED BY <1>3, <1>10, <1>13, <1>14, <1>17, <1>18, MovesEntry, Zenon

-----------------------------------------------------------------------------
(* The steps of a store.                                                   *)

\* A store that is closed has no acquisition and no entry, so none of its threads does
\* anything.
LEMMA CloseStep ==
  ASSUME ExclusionConstants, IInv, NEW s \in Stores, Close(s)
  PROVE  IInv'
<1>1. Sound(th, closed, pending, entries, taken, flock)
  BY Zenon DEF IInv
<1>2. /\ pending[s] = 0 /\ (\A o \in Owners : entries[s][o] = Null)
      /\ closed' = [closed EXCEPT ![s] = TRUE] /\ UNCHANGED <<pending, entries, taken, flock, th, corrupted>>
  BY Zenon DEF Close
<1>3. Acquiring(th, s) = {}
  <2>1. Acquiring(th, s) \in SUBSET Threads
    BY Zenon DEF Acquiring
  <2>2. Cardinality(Acquiring(th, s)) = 0
    BY <1>1, <1>2, Zenon DEF Sound, Pended
  <2> QED BY <2>1, <2>2, ThreadSets, FS_EmptySet, Zenon
<1>4. ASSUME NEW t \in Threads, StoreOf[t] = s PROVE th[t].pc = "idle"
  <2>1. ~Waiting(th[t])
    BY <1>3, <1>4, Zenon DEF Acquiring
  <2>2. th[t].lock = 0
    <3>1. th[t].lock # 0 => Entry(t) # Null /\ th[t].owner \in Owners
      BY LockFacts, Zenon
    <3> QED BY <3>1, <1>2, <1>4, Zenon DEF Entry
  <2>3. th[t].pc \in {"idle", "admitted", "returned"}
    BY <2>2, Facts, Zenon DEF Shape
  <2> QED BY <2>1, <2>3, Zenon DEF Waiting
<1>5. closed' \in [Stores -> BOOLEAN] /\ \A z \in Stores : z # s => closed'[z] = closed[z]
  BY <1>1, <1>2, Zenon DEF Sound, Typed
<1>6. Still(th, closed')
  <2>1. ASSUME NEW t \in Threads, closed'[StoreOf[t]] PROVE th[t].pc = "idle"
    <3>1. StoreOf[t] \in Stores
      BY Zenon DEF ExclusionConstants
    <3>2. CASE StoreOf[t] = s
      BY <3>2, <1>4, Zenon
    <3>3. CASE StoreOf[t] # s
      BY <3>1, <3>3, <2>1, <1>1, <1>5, Zenon DEF Sound, Still
    <3> QED BY <3>2, <3>3, Zenon
  <2> QED BY <2>1, Zenon DEF Still
<1>7. Sound(th, closed', pending, entries, taken, flock)
  BY <1>1, <1>5, <1>6, Zenon DEF Sound, Typed
<1> QED BY <1>2, <1>7, Zenon DEF IInv

\* A process that dies takes its threads, its table and its lock files with it; the other
\* stores are as they were.
LEMMA CrashStep ==
  ASSUME ExclusionConstants, IInv, NEW s \in Stores, Crash(s)
  PROVE  IInv'
<1>1. Sound(th, closed, pending, entries, taken, flock)
  BY Zenon DEF IInv
<1>2. /\ closed' = [closed EXCEPT ![s] = FALSE] /\ pending' = [pending EXCEPT ![s] = 0]
      /\ entries' = [entries EXCEPT ![s] = [o \in Owners |-> Null]] /\ taken' = [taken EXCEPT ![s] = {}]
      /\ flock' = [o \in Owners |-> IF flock[o] # Null /\ StoreOf[flock[o]] = s THEN Null ELSE flock[o]]
      /\ th' = [t \in Threads |-> IF StoreOf[t] = s THEN Idle ELSE th[t]]
      /\ corrupted' = corrupted
  BY Zenon DEF Crash
<1>3. Typed(th, closed, pending, entries, taken, flock)
  BY <1>1, Zenon DEF Sound
<1>4. /\ \A t \in Threads : StoreOf[t] = s => th'[t] = Idle
      /\ \A t \in Threads : StoreOf[t] # s => th'[t] = th[t]
  BY <1>2, Zenon
<1>5. /\ \A z \in Stores : z # s => closed'[z] = closed[z] /\ pending'[z] = pending[z] /\ entries'[z] = entries[z]
                                    /\ taken'[z] = taken[z]
      /\ pending'[s] = 0 /\ taken'[s] = {} /\ closed'[s] = FALSE
      /\ \A o \in Owners : entries'[s][o] = Null
  BY <1>2, <1>3, Zenon DEF Typed
<1>6. Typed(th', closed', pending', entries', taken', flock')
  <2>1. th' \in [Threads -> ThreadRow]
    BY <1>2, <1>3, IdleRow, Zenon DEF Typed
  <2>2. closed' \in [Stores -> BOOLEAN] /\ taken' \in [Stores -> SUBSET LockIds]
    BY <1>2, <1>3, Zenon DEF Typed
  <2>3. pending' \in [Stores -> Nat]
    BY <1>2, <1>3 DEF Typed
  <2>4. entries' \in [Stores -> [Owners -> EntryRow \cup {Null}]]
    BY <1>2, <1>3, Zenon DEF Typed
  <2>5. flock' \in [Owners -> Threads \cup {Null}]
    BY <1>2, <1>3, Zenon DEF Typed
  <2> QED BY <2>1, <2>2, <2>3, <2>4, <2>5, Zenon DEF Typed
<1>7. Shaped(th')
  BY <1>1, <1>4, IdleRow, Zenon DEF Sound, Shaped
<1>8. Pended(th', pending')
  <2>1. ASSUME NEW z \in Stores PROVE pending'[z] = Cardinality(Acquiring(th', z))
    <3>1. CASE z = s
      <4>1. Acquiring(th', s) = {}
        BY <1>4, IdleRow, Zenon DEF Acquiring
      <4> QED BY <3>1, <4>1, <1>5, FS_EmptySet, Zenon
    <3>2. CASE z # s
      <4>1. Acquiring(th', z) = Acquiring(th, z)
        <5>1. \A u \in Threads : StoreOf[u] = z => th'[u] = th[u]
          BY <3>2, <1>4, Zenon
        <5> QED BY <5>1 DEF Acquiring
      <4> QED BY <3>2, <4>1, <1>1, <1>5, Zenon DEF Sound, Pended
    <3> QED BY <3>1, <3>2, Zenon
  <2> QED BY <2>1, Zenon DEF Pended
<1>9. Counted(th', entries')
  <2>1. ASSUME NEW z \in Stores, NEW o \in Owners PROVE CountedAt(th', entries', z, o)
    <3>1. CASE z = s
      <4>1. Referring(th', s, o) = {}
        BY <1>4, IdleRow, Zenon DEF Referring
      <4> QED BY <3>1, <4>1, <1>5, Zenon DEF CountedAt
    <3>2. CASE z # s
      <4>1. Referring(th', z, o) = Referring(th, z, o)
        BY <3>2, <1>4, Zenon DEF Referring
      <4>2. \A u \in Referring(th, z, o) : th'[u] = th[u]
        BY <3>2, <1>4, Zenon DEF Referring
      <4>3. CountedAt(th, entries, z, o) /\ entries'[z][o] = entries[z][o]
        BY <3>2, <1>1, <1>5, Zenon DEF Sound, Counted
      <4> QED BY <4>1, <4>2, <4>3, Zenon DEF CountedAt
    <3> QED BY <3>1, <3>2, Zenon
  <2> QED BY <2>1, Zenon DEF Counted
<1>10. Distinct(entries')
  <2>1. ASSUME NEW z \in Stores, NEW p1 \in Owners, NEW p2 \in Owners, entries'[z][p1] # Null, entries'[z][p2] # Null,
               entries'[z][p1].lock = entries'[z][p2].lock
        PROVE  p1 = p2
    <3>1. z # s
      BY <2>1, <1>5, Zenon
    <3>2. entries'[z] = entries[z]
      BY <3>1, <1>5, Zenon
    <3>3. entries[z][p1] # Null /\ entries[z][p2] # Null /\ entries[z][p1].lock = entries[z][p2].lock
      BY <2>1, <3>2, Zenon
    <3>4. Distinct(entries)
      BY <1>1, Zenon DEF Sound
    <3> QED BY <3>3, <3>4, Zenon DEF Distinct
  <2> QED BY <2>1, Zenon DEF Distinct
<1>11. \A t \in Threads : StoreOf[t] = s => ~Within(th'[t]) /\ ~Holding(th'[t])
  BY <1>4, IdleRow, Zenon
<1>12. Locked(th', taken')
  <2>1. ASSUME NEW z \in Stores, NEW i \in LockIds
        PROVE  i \in taken'[z] <=> \E u \in Threads : StoreOf[u] = z /\ Within(th'[u]) /\ th'[u].lock = i
    <3>1. CASE z = s
      BY <3>1, <1>5, <1>11, Zenon
    <3>2. CASE z # s
      <4>1. \A u \in Threads : (StoreOf[u] = z /\ Within(th'[u]) /\ th'[u].lock = i)
                               <=> (StoreOf[u] = z /\ Within(th[u]) /\ th[u].lock = i)
        <5>1. \A u \in Threads : StoreOf[u] = z => th'[u] = th[u]
          BY <3>2, <1>4, Zenon
        <5> QED BY <5>1, Zenon
      <4>2. i \in taken[z] <=> \E u \in Threads : StoreOf[u] = z /\ Within(th[u]) /\ th[u].lock = i
        BY <1>1, Zenon DEF Sound, Locked
      <4> QED BY <3>2, <4>1, <4>2, <1>5, Zenon
    <3> QED BY <3>1, <3>2, Zenon
  <2> QED BY <2>1, Zenon DEF Locked
<1>13. Alone(th')
  <2>1. ASSUME NEW t \in Threads, NEW u \in Threads, StoreOf[t] = StoreOf[u], Within(th'[t]), Within(th'[u]),
               th'[t].lock = th'[u].lock
        PROVE  t = u
    <3>1. th'[t] = th[t] /\ th'[u] = th[u]
      BY <2>1, <1>4, <1>11, Zenon
    <3> QED BY <2>1, <3>1, <1>1, Zenon DEF Sound, Alone
  <2> QED BY <2>1, Zenon DEF Alone
<1>14. Filed(th', flock')
  <2>1. ASSUME NEW u \in Threads, NEW o \in Owners
        PROVE  flock'[o] = u <=> th'[u].owner = o /\ Holding(th'[u])
    <3>1. flock[o] = u <=> th[u].owner = o /\ Holding(th[u])
      BY <1>1, Zenon DEF Sound, Filed
    <3>2. Null \notin Threads
      BY Zenon DEF ExclusionConstants
    <3>3. flock'[o] = IF flock[o] # Null /\ StoreOf[flock[o]] = s THEN Null ELSE flock[o]
      BY <1>2, Zenon
    <3>4. CASE StoreOf[u] = s
      BY <3>2, <3>3, <3>4, <1>11, Zenon
    <3>5. CASE StoreOf[u] # s
      <4>1. th'[u] = th[u]
        BY <3>5, <1>4, Zenon
      <4>2. flock'[o] = u <=> flock[o] = u
        BY <3>2, <3>3, <3>5, Zenon
      <4> QED BY <3>1, <4>1, <4>2, Zenon
    <3> QED BY <3>4, <3>5, Zenon
  <2> QED BY <2>1, Zenon DEF Filed
<1>15. Still(th', closed')
  <2>1. ASSUME NEW t \in Threads, closed'[StoreOf[t]] PROVE th'[t].pc = "idle"
    <3>1. StoreOf[t] \in Stores
      BY Zenon DEF ExclusionConstants
    <3>2. StoreOf[t] # s
      BY <2>1, <1>5, Zenon
    <3>3. closed[StoreOf[t]] /\ th'[t] = th[t]
      BY <3>1, <3>2, <2>1, <1>4, <1>5, Zenon
    <3>4. th[t].pc = "idle"
      BY <3>3, <1>1, Zenon DEF Sound, Still
    <3> QED BY <3>3, <3>4, Zenon
  <2> QED BY <2>1, Zenon DEF Still
<1>16. Sound(th', closed', pending', entries', taken', flock')
  BY <1>6, <1>7, <1>8, <1>9, <1>10, <1>12, <1>13, <1>14, <1>15, Zenon DEF Sound
<1> QED BY <1>2, <1>16, Zenon DEF IInv

-----------------------------------------------------------------------------
(* The invariant and what follows from it.                                 *)

LEMMA InitInv == ASSUME ExclusionConstants, Init PROVE IInv
<1>1. /\ \A t \in Threads : th[t] = Idle
      /\ \A s \in Stores : ~closed[s] /\ pending[s] = 0 /\ taken[s] = {} /\ \A o \in Owners : entries[s][o] = Null
      /\ \A o \in Owners : flock[o] = Null
      /\ corrupted = FALSE
  BY Zenon DEF Init
<1>2. Typed(th, closed, pending, entries, taken, flock)
  <2>1. th \in [Threads -> ThreadRow]
    BY IdleRow, Zenon DEF Init
  <2>2. closed \in [Stores -> BOOLEAN] /\ taken \in [Stores -> SUBSET LockIds] /\ flock \in [Owners -> Threads \cup {Null}]
        /\ entries \in [Stores -> [Owners -> EntryRow \cup {Null}]]
    BY Zenon DEF Init
  <2>3. pending \in [Stores -> Nat]
    BY DEF Init
  <2> QED BY <2>1, <2>2, <2>3, Zenon DEF Typed
<1>3. \A t \in Threads : Shape(th[t]) /\ ~Waiting(th[t]) /\ ~Within(th[t]) /\ ~Holding(th[t]) /\ th[t].lock = 0
  BY <1>1, IdleRow, Zenon
<1>4. Shaped(th)
  BY <1>3, Zenon DEF Shaped
<1>5. Pended(th, pending)
  <2>1. ASSUME NEW s \in Stores PROVE Acquiring(th, s) = {}
    BY <1>3, Zenon DEF Acquiring
  <2> QED BY <2>1, <1>1, FS_EmptySet, Zenon DEF Pended
<1>6. Counted(th, entries)
  <2>1. ASSUME NEW s \in Stores, NEW o \in Owners PROVE Referring(th, s, o) = {}
    BY <1>3, Zenon DEF Referring
  <2> QED BY <2>1, <1>1, Zenon DEF Counted, CountedAt
<1>7. Distinct(entries) /\ Locked(th, taken) /\ Alone(th)
  BY <1>1, <1>3, Zenon DEF Distinct, Locked, Alone
<1>8. Filed(th, flock)
  BY <1>1, <1>3, Zenon DEF Filed, ExclusionConstants
<1>9. Still(th, closed)
  BY <1>1, Zenon DEF Still, ExclusionConstants
<1> QED BY <1>1, <1>2, <1>4, <1>5, <1>6, <1>7, <1>8, <1>9, Zenon DEF IInv, Sound

LEMMA NextInv == ASSUME ExclusionConstants, IInv, [Next]_vars PROVE IInv'
<1>1. CASE UNCHANGED vars
  BY <1>1, Zenon DEF vars, IInv
<1>2. ASSUME NEW t \in Threads, NEW o \in Owners, NEW polling \in BOOLEAN, BeginAcquisition(t, o, polling) PROVE IInv'
  BY <1>2, BeginStep, Zenon
<1>3. ASSUME NEW t \in Threads, Moves(t) PROVE IInv'
  <2>1. CASE Refer(t) \/ LockLocal(t) \/ LocalBusy(t) \/ LockFile(t) \/ FileBusy(t)
    BY <2>1, ReferStep, LockLocalStep, LocalBusyStep, LockFileStep, FileBusyStep, Zenon
  <2>2. CASE FinishAcquisition(t) \/ CancelledAsleep(t) \/ Unlock(t) \/ Unrefer(t) \/ Return(t)
    BY <2>2, FinishStep, CancelledStep, UnlockStep, UnreferStep, ReturnStep, Zenon
  <2> QED BY <1>3, <2>1, <2>2, Zenon DEF Moves
<1>4. ASSUME NEW t \in Threads, FileFails(t) \/ Cancel(t) \/ ReleaseFile(t) PROVE IInv'
  BY <1>4, FileFailsStep, CancelStep, ReleaseFileStep, Zenon
<1>5. ASSUME NEW s \in Stores, Close(s) \/ Crash(s) PROVE IInv'
  BY <1>5, CloseStep, CrashStep, Zenon
<1> QED BY <1>1, <1>2, <1>3, <1>4, <1>5, Zenon DEF Next

\* Whatever the threads of any number of stores do, the tables agree with the threads: an
\* entry counts its users, a lock object and a lock file have the one thread that took them,
\* and no store finds its bookkeeping corrupted.
THEOREM Invariant == ASSUME ExclusionConstants PROVE Spec => []IInv
<1>1. Init => IInv
  BY InitInv, Zenon
<1>2. IInv /\ [Next]_vars => IInv'
  BY NextInv, Zenon
<1> QED BY <1>1, <1>2, PTL DEF Spec

\* The invariant says that the exclusion is sound.
LEMMA InvSound ==
  ASSUME ExclusionConstants, IInv
  PROVE  TypeOK /\ OneInside /\ EntriesExact /\ OneHolder /\ ClosedIsQuiet /\ NoOrphanLock
<1>1. Sound(th, closed, pending, entries, taken, flock) /\ corrupted = FALSE
  BY Zenon DEF IInv
<1>2. /\ Typed(th, closed, pending, entries, taken, flock) /\ Shaped(th) /\ Pended(th, pending) /\ Counted(th, entries)
      /\ Locked(th, taken) /\ Alone(th) /\ Filed(th, flock) /\ Still(th, closed)
  BY <1>1, Zenon DEF Sound
<1>3. TypeOK
  <2>1. pending \in [Stores -> 0 .. Cardinality(Threads)]
    <3>1. ASSUME NEW s \in Stores PROVE pending[s] \in 0 .. Cardinality(Threads)
      <4>1. Acquiring(th, s) \in SUBSET Threads /\ pending[s] = Cardinality(Acquiring(th, s))
        BY <1>2, Zenon DEF Acquiring, Pended
      <4>2. pending[s] \in Nat /\ pending[s] <= Cardinality(Threads)
        BY <4>1, ThreadSets, Zenon
      <4>3. Cardinality(Threads) \in Nat
        BY FS_CardinalityType, Zenon DEF ExclusionConstants
      <4> QED BY <4>2, <4>3
    <3>2. pending \in [Stores -> Nat]
      BY <1>2, Zenon DEF Typed
    <3> QED BY <3>1, <3>2, Zenon
  <2>2. entries \in [Stores -> [Owners -> {Null} \cup [lock : LockIds, refs : 1 .. Cardinality(Threads)]]]
    <3>1. entries \in [Stores -> [Owners -> EntryRow \cup {Null}]]
      BY <1>2, Zenon DEF Typed
    <3>2. ASSUME NEW s \in Stores, NEW o \in Owners
          PROVE  entries[s][o] \in {Null} \cup [lock : LockIds, refs : 1 .. Cardinality(Threads)]
      <4>1. PICK v : v = entries[s][o]
        BY Zenon
      <4>2. CASE v # Null
        <5>1. v \in EntryRow
          BY <3>1, <4>1, <4>2, Zenon
        <5>2. CountedAt(th, entries, s, o)
          BY <1>2, Zenon DEF Counted
        <5>3. Referring(th, s, o) # {} /\ v.refs = Cardinality(Referring(th, s, o))
          BY <4>1, <4>2, <5>2, Zenon DEF CountedAt
        <5>4. Referring(th, s, o) \in SUBSET Threads
          BY Zenon DEF Referring
        <5>5. v.refs \in Nat /\ v.refs <= Cardinality(Threads) /\ v.refs # 0
          BY <5>3, <5>4, ThreadSets, FS_EmptySet, Zenon
        <5>6. Cardinality(Threads) \in Nat
          BY FS_CardinalityType, Zenon DEF ExclusionConstants
        <5>7. v.refs \in 1 .. Cardinality(Threads)
          BY <5>5, <5>6
        <5>8. v \in [lock : LockIds, refs : 1 .. Cardinality(Threads)]
          BY <5>1, <5>7, Zenon DEF EntryRow
        <5> QED BY <4>1, <5>8, Zenon
      <4> QED BY <4>1, <4>2, Zenon
    <3> QED BY <3>1, <3>2, Zenon
  <2> QED BY <1>1, <1>2, <2>1, <2>2, Zenon DEF TypeOK, Typed, ThreadRow
<1>4. OneInside
  <2>1. ASSUME NEW s \in Stores, NEW o \in Owners PROVE Cardinality(Inside(s, o)) <= 1
    <3>1. ASSUME NEW t \in Inside(s, o), NEW u \in Inside(s, o) PROVE t = u
      <4>1. /\ t \in Threads /\ u \in Threads /\ StoreOf[t] = s /\ StoreOf[u] = s /\ th[t].owner = o /\ th[u].owner = o
            /\ Within(th[t]) /\ Within(th[u])
        BY Zenon DEF Inside, Within
      <4>2. th[t].lock # 0 /\ th[u].lock # 0
        <5>1. Shape(th[t]) /\ Shape(th[u])
          BY <4>1, <1>2, Zenon DEF Shaped
        <5> QED BY <4>1, <5>1 DEF Shape, Within
      <4>3. th[t].lock = entries[s][o].lock /\ th[u].lock = entries[s][o].lock
        BY <4>1, <4>2, LockFacts, Zenon DEF Entry
      <4> QED BY <4>1, <4>3, <1>2, Zenon DEF Alone
    <3>2. CASE Inside(s, o) = {}
      BY <3>2, FS_EmptySet
    <3>3. CASE Inside(s, o) # {}
      <4>1. PICK t : t \in Inside(s, o)
        BY <3>3, Zenon
      <4>2. Inside(s, o) = {t}
        BY <3>1, <4>1, Zenon
      <4>3. Cardinality(Inside(s, o)) = 1
        BY <4>2, FS_Singleton, Zenon
      <4> QED BY <4>3
    <3> QED BY <3>2, <3>3, Zenon
  <2> QED BY <2>1, Zenon DEF OneInside
<1>5. EntriesExact
  <2>1. ASSUME NEW s \in Stores, NEW o \in Owners PROVE CountedAt(th, entries, s, o)
    BY <1>2, Zenon DEF Counted
  <2> QED BY <1>1, <2>1, Zenon DEF EntriesExact, CountedAt, Referring
<1>6. OneHolder
  <2>1. ASSUME NEW t \in Threads, NEW u \in Threads, Holding(th[t]), Holding(th[u]), th[t].owner = th[u].owner
        PROVE  t = u
    <3>1. th[t].owner \in Owners
      <4>1. Shape(th[t])
        BY <1>2, Zenon DEF Shaped
      <4> QED BY <2>1, <4>1 DEF Shape, Holding
    <3>2. flock[th[t].owner] = t /\ flock[th[t].owner] = u
      BY <2>1, <3>1, <1>2, Zenon DEF Filed
    <3> QED BY <3>2, Zenon
  <2> QED BY <2>1, Zenon DEF OneHolder, Holding
<1>7. ClosedIsQuiet
  BY <1>2, Zenon DEF ClosedIsQuiet, Still, At
<1>8. NoOrphanLock
  <2>1. ASSUME NEW s \in Stores, NEW lock \in taken[s]
        PROVE  \E o \in Owners : \E t \in Inside(s, o) : th[t].lock = lock
    <3>1. lock \in LockIds
      BY <1>2, Zenon DEF Typed
    <3>2. PICK t \in Threads : StoreOf[t] = s /\ Within(th[t]) /\ th[t].lock = lock
      BY <3>1, <1>2, Zenon DEF Locked
    <3>3. th[t].owner \in Owners
      <4>1. Shape(th[t])
        BY <1>2, Zenon DEF Shaped
      <4> QED BY <3>2, <4>1 DEF Shape, Within
    <3>4. t \in Inside(s, th[t].owner)
      BY <3>2, Zenon DEF Inside, Within
    <3> QED BY <3>2, <3>3, <3>4, Zenon
  <2>2. ASSUME NEW o \in Owners, flock[o] # Null
        PROVE  th[flock[o]].owner = o /\ th[flock[o]].pc \in {"bound", "held"}
    <3>1. flock[o] \in Threads
      BY <2>2, <1>2, Zenon DEF Typed
    <3> QED BY <3>1, <1>2, Zenon DEF Filed, Holding
  <2> QED BY <2>1, <2>2, Zenon DEF NoOrphanLock
<1> QED BY <1>3, <1>4, <1>5, <1>6, <1>7, <1>8, Zenon

\* For any number of stores, threads and owners: one thread of a store is past the local
\* lock of an owner and one thread of all stores has its token; an entry is there exactly
\* while somebody refers to it; a closed store has nobody at work; and every lock has a
\* thread that gives it back (_OwnerLockTable, _CrossProcessOwnerLock, close).
THEOREM ExclusionHolds ==
  ASSUME ExclusionConstants
  PROVE  Spec => [](TypeOK /\ OneInside /\ EntriesExact /\ OneHolder /\ ClosedIsQuiet /\ NoOrphanLock)
<1>1. IInv => TypeOK /\ OneInside /\ EntriesExact /\ OneHolder /\ ClosedIsQuiet /\ NoOrphanLock
  BY InvSound, Zenon
<1> QED BY <1>1, Invariant, PTL

=============================================================================
