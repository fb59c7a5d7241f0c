--------------------------- MODULE OwnerExclusion ---------------------------
(***************************************************************************)
(* The owner exclusion of the streaming blob store                         *)
(* (src/astralplane/blob_store.py): whoever reads, stages or purges blobs  *)
(* of an owner holds a lock of the store's own table (_OwnerLockTable) and *)
(* then the lock file of the owner (_CrossProcessOwnerLock).  A store is   *)
(* closed only when nothing holds or awaits a lock of it.                  *)
(*                                                                         *)
(* A thread does one acquisition at a time: blocking                       *)
(* (_acquire_owner_exclusion), or polling from a coroutine that can be     *)
(* cancelled (_acquire_owner_exclusion_async).  The locks of the table are *)
(* objects with an identity, made when an owner has no entry.              *)
(***************************************************************************)
EXTENDS Integers, FiniteSets, FiniteSetsExt

CONSTANTS
  Threads,      \* what asks for exclusions
  Stores,       \* stores on one root, in different processes or not
  StoreOf,      \* [Threads -> Stores]
  Owners,       \* case-folded owner names
  Null,
  MaxFailures,  \* bound on lock files that cannot be opened
  MaxCrashes    \* bound on processes that die

\* A lock object for every thread is as many as are ever in use at once.
LockIds == 1 .. Cardinality(Threads)

ExclusionConstants ==
  /\ IsFiniteSet(Threads)
  /\ StoreOf \in [Threads -> Stores]
  /\ Null \notin Threads /\ Null \notin [lock : LockIds, refs : Nat]
  /\ MaxFailures \in Nat /\ MaxCrashes \in Nat

VARIABLES
  closed,     \* _closed of each store
  pending,    \* _pending_owner_acquisitions
  entries,    \* _entries: for each owner the lock object and its references, or Null
  taken,      \* for each store, the lock objects that are locked
  flock,      \* who has the lock file of an owner
  th,         \* what each thread does
  corrupted,  \* a store found its bookkeeping corrupted
  failures,
  crashes

vars == <<closed, pending, entries, taken, flock, th, corrupted, failures, crashes>>

\* The steps of an acquisition (admitted, queued, local, bound), of a token in use
\* (held), and of giving up and of releasing (freeing, unlocked, returned).
Steps == {"idle", "admitted", "queued", "local", "bound", "held", "freeing", "unlocked",
          "returned"}

Idle == [pc |-> "idle", owner |-> Null, lock |-> 0, polling |-> FALSE, cancelled |-> FALSE,
         finish |-> FALSE, again |-> FALSE]

Init ==
  /\ closed = [s \in Stores |-> FALSE]
  /\ pending = [s \in Stores |-> 0]
  /\ entries = [s \in Stores |-> [o \in Owners |-> Null]]
  /\ taken = [s \in Stores |-> {}]
  /\ flock = [o \in Owners |-> Null]
  /\ th = [t \in Threads |-> Idle]
  /\ corrupted = FALSE
  /\ failures = 0
  /\ crashes = 0

At(t, pc) == th[t].pc = pc
Entry(t) == entries[StoreOf[t]][th[t].owner]
SetEntry(t, e) == entries' = [entries EXCEPT ![StoreOf[t]][th[t].owner] = e]

\* threading.Lock(): an object that no thread and no entry of the store refers to.
NewLock(s) == Min(LockIds \ ({entries[s][o].lock : o \in {x \in Owners : entries[s][x] # Null}} \cup
                             {th[t].lock : t \in {x \in Threads : StoreOf[x] = s}}))

-----------------------------------------------------------------------------
(* Acquiring. *)

\* A closed store admits no acquisition.
BeginAcquisition(t, o, polling) ==
  /\ At(t, "idle")
  /\ ~closed[StoreOf[t]]
  /\ pending' = [pending EXCEPT ![StoreOf[t]] = @ + 1]
  /\ th' = [th EXCEPT ![t] = [Idle EXCEPT !.pc = "admitted", !.owner = o, !.polling = polling]]
  /\ UNCHANGED <<closed, entries, taken, flock, corrupted, failures, crashes>>

\* The first half of acquire and try_acquire, under the guard of the table.
Refer(t) ==
  LET lock == IF Entry(t) = Null THEN NewLock(StoreOf[t]) ELSE Entry(t).lock
      refs == IF Entry(t) = Null THEN 0 ELSE Entry(t).refs
  IN /\ At(t, "admitted") /\ ~th[t].cancelled
     /\ SetEntry(t, [lock |-> lock, refs |-> refs + 1])
     /\ th' = [th EXCEPT ![t].pc = "queued", ![t].lock = lock]
     /\ UNCHANGED <<closed, pending, taken, flock, corrupted, failures, crashes>>

\* The local lock is obtained; without waiting when polling.
LockLocal(t) ==
  /\ At(t, "queued")
  /\ th[t].lock \notin taken[StoreOf[t]]
  /\ taken' = [taken EXCEPT ![StoreOf[t]] = @ \cup {th[t].lock}]
  /\ th' = [th EXCEPT ![t].pc = "local"]
  /\ UNCHANGED <<closed, pending, entries, flock, corrupted, failures, crashes>>

\* try_acquire finds it locked and will return its reference.
LocalBusy(t) ==
  /\ At(t, "queued") /\ th[t].polling
  /\ th[t].lock \in taken[StoreOf[t]]
  /\ th' = [th EXCEPT ![t].pc = "unlocked", ![t].again = TRUE]
  /\ UNCHANGED <<closed, pending, entries, taken, flock, corrupted, failures, crashes>>

\* The lock file is locked: the token is complete.
LockFile(t) ==
  /\ At(t, "local")
  /\ flock[th[t].owner] = Null
  /\ flock' = [flock EXCEPT ![th[t].owner] = t]
  /\ th' = [th EXCEPT ![t].pc = "bound"]
  /\ UNCHANGED <<closed, pending, entries, taken, corrupted, failures, crashes>>

\* LOCK_NB finds it locked: the local lock is released, None is returned.
FileBusy(t) ==
  /\ At(t, "local") /\ th[t].polling
  /\ flock[th[t].owner] # Null
  /\ th' = [th EXCEPT ![t].pc = "freeing", ![t].again = TRUE]
  /\ UNCHANGED <<closed, pending, entries, taken, flock, corrupted, failures, crashes>>

\* The file cannot be opened or is not a safe one: the local lock is released, the
\* error is raised.
FileFails(t) ==
  /\ At(t, "local") /\ failures < MaxFailures
  /\ failures' = failures + 1
  /\ th' = [th EXCEPT ![t].pc = "freeing", ![t].finish = TRUE]
  /\ UNCHANGED <<closed, pending, entries, taken, flock, corrupted, crashes>>

\* A cancelled coroutine that got a token releases it before it ends; any other one
\* hands it to the caller.
FinishAcquisition(t) ==
  /\ At(t, "bound")
  /\ IF th[t].cancelled
     THEN /\ flock' = [flock EXCEPT ![th[t].owner] = Null]
          /\ th' = [th EXCEPT ![t].pc = "freeing", ![t].finish = TRUE]
          /\ UNCHANGED pending
     ELSE /\ pending' = [pending EXCEPT ![StoreOf[t]] = @ - 1]
          /\ th' = [th EXCEPT ![t].pc = "held"]
          /\ UNCHANGED flock
  /\ UNCHANGED <<closed, entries, taken, corrupted, failures, crashes>>

\* The coroutine is cancelled; the step that is running in the executor is awaited.
Cancel(t) ==
  /\ th[t].polling /\ ~th[t].cancelled
  /\ th[t].pc \in {"admitted", "queued", "local", "bound"} \/ th[t].again
  /\ th' = [th EXCEPT ![t].cancelled = TRUE]
  /\ UNCHANGED <<closed, pending, entries, taken, flock, corrupted, failures, crashes>>

\* Cancelled between two polls.
CancelledAsleep(t) ==
  /\ At(t, "admitted") /\ th[t].cancelled
  /\ pending' = [pending EXCEPT ![StoreOf[t]] = @ - 1]
  /\ th' = [th EXCEPT ![t] = Idle]
  /\ UNCHANGED <<closed, entries, taken, flock, corrupted, failures, crashes>>

-----------------------------------------------------------------------------
(* Releasing. *)

\* The holder closes its reader or its session: the lock file first.
ReleaseFile(t) ==
  /\ At(t, "held")
  /\ flock' = [flock EXCEPT ![th[t].owner] = Null]
  /\ th' = [th EXCEPT ![t].pc = "freeing"]
  /\ UNCHANGED <<closed, pending, entries, taken, corrupted, failures, crashes>>

\* The first half of _OwnerLockTable.release: the lock the entry names now.
Unlock(t) ==
  /\ At(t, "freeing")
  /\ IF Entry(t) = Null
     THEN corrupted' = TRUE /\ UNCHANGED taken
     ELSE /\ taken' = [taken EXCEPT ![StoreOf[t]] = @ \ {Entry(t).lock}]
          /\ UNCHANGED corrupted
  /\ th' = [th EXCEPT ![t].pc = "unlocked"]
  /\ UNCHANGED <<closed, pending, entries, flock, failures, crashes>>

\* Mutant: the entry is removed under a waiter.
UnreferDrops(t) ==
  /\ At(t, "unlocked")
  /\ SetEntry(t, Null)
  /\ th' = [th EXCEPT ![t] = IF th[t].again \/ th[t].finish
                              THEN [th[t] EXCEPT !.pc = "returned", !.lock = 0] ELSE Idle]
  /\ UNCHANGED <<closed, pending, taken, flock, corrupted, failures, crashes>>

\* The reference is given back; the last one removes the entry. A released token is gone.
Unrefer(t) ==
  LET sound == Entry(t) # Null /\ Entry(t).lock = th[t].lock /\ Entry(t).refs >= 1
  IN /\ At(t, "unlocked")
     /\ IF sound
        THEN /\ SetEntry(t, IF Entry(t).refs = 1 THEN Null
                            ELSE [lock |-> th[t].lock, refs |-> Entry(t).refs - 1])
             /\ UNCHANGED corrupted
        ELSE corrupted' = TRUE /\ UNCHANGED entries
     /\ th' = [th EXCEPT ![t] = IF th[t].again \/ th[t].finish
                                 THEN [th[t] EXCEPT !.pc = "returned", !.lock = 0] ELSE Idle]
     /\ UNCHANGED <<closed, pending, taken, flock, failures, crashes>>

\* A poll that failed is repeated unless it was cancelled; an acquisition that failed ends.
Return(t) ==
  /\ At(t, "returned")
  /\ IF th[t].again /\ ~th[t].cancelled
     THEN /\ th' = [th EXCEPT ![t].pc = "admitted", ![t].again = FALSE]
          /\ UNCHANGED pending
     ELSE /\ th' = [th EXCEPT ![t] = Idle]
          /\ pending' = [pending EXCEPT ![StoreOf[t]] = @ - 1]
  /\ UNCHANGED <<closed, entries, taken, flock, corrupted, failures, crashes>>

\* close of the store: refused while an acquisition or an entry is left.
Close(s) ==
  /\ ~closed[s]
  /\ pending[s] = 0
  /\ \A o \in Owners : entries[s][o] = Null
  /\ closed' = [closed EXCEPT ![s] = TRUE]
  /\ UNCHANGED <<pending, entries, taken, flock, th, corrupted, failures, crashes>>

\* The process of a store dies, the system unlocks its files, and a new one starts.
Crash(s) ==
  /\ crashes < MaxCrashes
  /\ crashes' = crashes + 1
  /\ closed' = [closed EXCEPT ![s] = FALSE]
  /\ pending' = [pending EXCEPT ![s] = 0]
  /\ entries' = [entries EXCEPT ![s] = [o \in Owners |-> Null]]
  /\ taken' = [taken EXCEPT ![s] = {}]
  /\ flock' = [o \in Owners |-> IF flock[o] # Null /\ StoreOf[flock[o]] = s THEN Null ELSE flock[o]]
  /\ th' = [t \in Threads |-> IF StoreOf[t] = s THEN Idle ELSE th[t]]
  /\ UNCHANGED <<corrupted, failures>>

-----------------------------------------------------------------------------
\* What a thread does to obtain an exclusion or to give one back.
Moves(t) ==
  \/ Refer(t) \/ LockLocal(t) \/ LocalBusy(t) \/ LockFile(t) \/ FileBusy(t)
  \/ FinishAcquisition(t) \/ CancelledAsleep(t)
  \/ Unlock(t) \/ Unrefer(t) \/ Return(t)

Next ==
  \/ \E t \in Threads, o \in Owners, polling \in BOOLEAN : BeginAcquisition(t, o, polling)
  \/ \E t \in Threads : Moves(t)
  \/ \E t \in Threads : FileFails(t)
  \/ \E t \in Threads : Cancel(t)
  \/ \E t \in Threads : ReleaseFile(t)
  \/ \E s \in Stores : Close(s)
  \/ \E s \in Stores : Crash(s)

Spec == Init /\ [][Next]_vars

-----------------------------------------------------------------------------
\* The fields of the table and of the threads have their types.
TypeOK ==
  /\ closed \in [Stores -> BOOLEAN]
  /\ pending \in [Stores -> 0 .. Cardinality(Threads)]
  /\ entries \in [Stores -> [Owners -> {Null} \cup [lock : LockIds, refs : 1 .. Cardinality(Threads)]]]
  /\ taken \in [Stores -> SUBSET LockIds]
  /\ flock \in [Owners -> Threads \cup {Null}]
  /\ th \in [Threads -> [pc : Steps, owner : Owners \cup {Null}, lock : LockIds \cup {0},
                         polling : BOOLEAN, cancelled : BOOLEAN, finish : BOOLEAN,
                         again : BOOLEAN]]
  /\ corrupted \in BOOLEAN

\* Threads between obtaining the local lock of an owner and unlocking it.
Inside(s, o) == {t \in Threads : /\ StoreOf[t] = s /\ th[t].owner = o
                                 /\ th[t].pc \in {"local", "bound", "held", "freeing"}}

\* At most one thread of a store is past the local lock of an owner, though the lock
\* object is replaced whenever the entry goes: a waiter and a newcomer always meet at the
\* same object (_OwnerLockTable.acquire, try_acquire, release).
OneInside == \A s \in Stores, o \in Owners : Cardinality(Inside(s, o)) <= 1

\* An entry counts exactly the threads that refer to its lock, none is left behind, and
\* no release finds another object or no entry (_OwnerLockTable).
EntriesExact ==
  /\ ~corrupted
  /\ \A s \in Stores, o \in Owners :
       LET refer == {t \in Threads : StoreOf[t] = s /\ th[t].owner = o /\ th[t].lock # 0}
       IN IF refer = {} THEN entries[s][o] = Null
          ELSE /\ entries[s][o] # Null
               /\ entries[s][o].refs = Cardinality(refer)
               /\ \A t \in refer : th[t].lock = entries[s][o].lock

\* At most one thread of all stores has the token of an owner, whoever crashed before
\* (_CrossProcessOwnerLock).
OneHolder ==
  \A t, u \in Threads :
    /\ th[t].pc \in {"bound", "held"} /\ th[u].pc \in {"bound", "held"}
    /\ th[t].owner = th[u].owner
    => t = u

\* A closed store has no acquisition on the way and no token in use, so that shutting down
\* its executors strands nobody (close, _begin_owner_acquisition).
ClosedIsQuiet == \A t \in Threads : closed[StoreOf[t]] => At(t, "idle")

\* Every lock that is taken has a thread that is going to give it back, so a waiter is
\* never stranded: not by a busy poll, a lock file that fails, a cancellation or a crash
\* (_acquire_owner_exclusion, _acquire_owner_exclusion_async).
NoOrphanLock ==
  /\ \A s \in Stores : \A lock \in taken[s] :
       \E o \in Owners : \E t \in Inside(s, o) : th[t].lock = lock
  /\ \A o \in Owners : flock[o] # Null =>
       th[flock[o]].owner = o /\ th[flock[o]].pc \in {"bound", "held"}
=============================================================================
