--------------------------- MODULE PlaneDatabase ---------------------------
(***************************************************************************)
(* ConnectionPool, the bounded driver pool under it, and the caller-owned  *)
(* transactions of PlaneDatabase: several threads borrow connections, run  *)
(* a transaction body with savepoints, finish it, and return or discard    *)
(* the connection, while others close the pool.  The server may lose any   *)
(* connection at any time, also between a commit and its acknowledgement.  *)
(*                                                                         *)
(* A step is what one thread does between two points where another thread  *)
(* or the server can act: a critical section of _state_lock, a driver      *)
(* call, a statement.                                                      *)
(***************************************************************************)
EXTENDS Integers, Sequences, FiniteSets, SequencesExt

CONSTANTS
  Threads,        \* threads that borrow connections or close the pool
  Conns,          \* connections; their number is maximum_connections
  Writes,         \* the writes a transaction body may make
  MaxDepth,       \* bound on nested savepoints
  MaxLosses,      \* bound on lost connections
  MaxCleanups,    \* bound on cleanup attempts
  Null

\* What the module takes for granted of its constants.
PoolConstants ==
  /\ IsFiniteSet(Conns) /\ Conns # {}
  /\ Null \notin Conns \cup Threads
  /\ MaxDepth \in Nat /\ MaxLosses \in Nat /\ MaxCleanups \in Nat

VARIABLES
  borrowed,       \* ConnectionPool._borrowed
  closed,         \* ConnectionPool._closed
  cleanup,        \* _cleanup_complete, _cleanup_failed and _cleanup_attempts
  cleaner,        \* the thread that holds _cleanup_lock, or Null
  discarded,      \* ConnectionPool._discarded
  permits,        \* _BoundedDriverPool._semaphore
  place,          \* [Conns -> {"absent", "idle", "used"}], the driver pool
  session,        \* [Conns -> Sessions], the state of each connection
  unsafe,         \* the connections on which something went wrong
  losses,         \* how many connections the server has dropped
  th              \* [Threads -> Thread], where each thread is

vars == <<borrowed, closed, cleanup, cleaner, discarded, permits, place, session,
          unsafe, losses, th>>

poolVars == <<borrowed, closed, cleanup, cleaner>>
driverVars == <<permits, place>>

\* clean: no transaction; open: in one; aborted: in one that failed.  lost_idle
\* and lost_open: dropped by the server, which the driver has not noticed yet.
\* broken: the driver knows (closed, or transaction status unknown).
Sessions == {"clean", "open", "aborted", "lost_idle", "lost_open", "broken"}

Lost(c) == session[c] \in {"lost_idle", "lost_open", "broken"}

\* The exception in flight, or the result of a call.  "caller" is the body's
\* own, "sql" an ordinary driver error, "state" a TransactionStateError.
Errors == {"none", "caller", "sql", "state", "statement", "rollback", "cleanup",
           "unknown", "checkout", "timeout", "closed", "reset", "release",
           "in_use", "shutdown"}

\* The errors whose class has discard_connection set.
DiscardErrors == {"statement", "cleanup", "rollback", "unknown"}

\* A savepoint frame: what the server has written in it, what the body saw.
Frame == [srv : SUBSET Writes, seen : SUBSET Writes]

Thread == [pc : {"out", "checkout", "getconn", "begin", "body", "reset", "release",
                 "uncount", "cleanup_wait", "cleanup"},
           conn : Conns \cup {Null},
           frames : Seq(Frame),
           failed : BOOLEAN,      \* Transaction._failed
           discard : BOOLEAN,     \* Transaction._discard_required
           error : Errors,
           reset_failed : BOOLEAN,
           seen : SUBSET Writes,  \* what the body saw when it finished
           durable : SUBSET Writes]

Out(error) ==
  [pc |-> "out", conn |-> Null, frames |-> <<>>, failed |-> FALSE, discard |-> FALSE,
   error |-> error, reset_failed |-> FALSE, seen |-> {}, durable |-> {}]

TypeOK ==
  /\ borrowed \in 0 .. Cardinality(Threads)
  /\ closed \in BOOLEAN
  /\ cleanup \in [complete : BOOLEAN, failed : BOOLEAN, attempts : 0 .. MaxCleanups]
  /\ cleaner \in Threads \cup {Null}
  /\ discarded \subseteq Conns
  /\ permits \in 0 .. Cardinality(Conns)
  /\ place \in [Conns -> {"absent", "idle", "used"}]
  /\ session \in [Conns -> Sessions]
  /\ unsafe \subseteq Conns
  /\ losses \in 0 .. MaxLosses
  /\ th \in [Threads -> Thread]

Init ==
  /\ borrowed = 0
  /\ closed = FALSE
  /\ cleanup = [complete |-> FALSE, failed |-> FALSE, attempts |-> 0]
  /\ cleaner = Null
  /\ discarded = {}
  /\ permits = Cardinality(Conns)
  /\ place = [c \in Conns |-> "absent"]
  /\ session = [c \in Conns |-> "clean"]
  /\ unsafe = {}
  /\ losses = 0
  /\ th = [t \in Threads |-> Out("none")]

\* The server drops a connection.
Lose(c) ==
  /\ losses < MaxLosses
  /\ place[c] # "absent"
  /\ ~Lost(c)
  /\ losses' = losses + 1
  /\ session' = [session EXCEPT ![c] = IF @ = "clean" THEN "lost_idle" ELSE "lost_open"]
  /\ UNCHANGED <<poolVars, driverVars, discarded, unsafe, th>>

-----------------------------------------------------------------------------
(* _borrow, over _BoundedDriverPool.getconn *)

Borrow(t) ==
  /\ th[t].pc = "out"
  /\ IF closed
     THEN /\ th' = [th EXCEPT ![t] = Out("closed")]
          /\ UNCHANGED borrowed
     ELSE /\ th' = [th EXCEPT ![t] = [Out("none") EXCEPT !.pc = "checkout"]]
          /\ borrowed' = borrowed + 1
  /\ UNCHANGED <<closed, cleanup, cleaner, discarded, driverVars, session, unsafe, losses>>

\* The semaphore grants a permit, or none came before the acquire timeout.
Acquire(t) ==
  /\ th[t].pc = "checkout"
  /\ \/ /\ permits > 0
        /\ permits' = permits - 1
        /\ th' = [th EXCEPT ![t].pc = "getconn"]
     \/ /\ permits = 0
        /\ th' = [th EXCEPT ![t].pc = "uncount", ![t].error = "timeout"]
        /\ UNCHANGED permits
  /\ UNCHANGED <<poolVars, discarded, place, session, unsafe, losses>>

Idle == {c \in Conns : place[c] = "idle"}

\* The driver pool hands out an idle connection, or opens one, or fails to.
GetConn(t) ==
  /\ th[t].pc = "getconn"
  /\ \/ \E c \in Conns :
          /\ place[c] = IF Idle # {} THEN "idle" ELSE "absent"
          /\ place' = [place EXCEPT ![c] = "used"]
          /\ session' = [session EXCEPT ![c] = IF place[c] = "idle" THEN @ ELSE "clean"]
          /\ unsafe' = IF place[c] = "idle" THEN unsafe ELSE unsafe \ {c}
          /\ th' = [th EXCEPT ![t].pc = "begin", ![t].conn = c]
          /\ UNCHANGED permits
     \/ /\ Idle = {}
        /\ permits' = permits + 1
        /\ th' = [th EXCEPT ![t].pc = "uncount", ![t].error = "checkout"]
        /\ UNCHANGED <<place, session, unsafe>>
  /\ UNCHANGED <<poolVars, discarded, losses>>

-----------------------------------------------------------------------------
(* The transaction: _begin, statements, savepoints, _finish *)

Top(t) == th[t].frames[Len(th[t].frames)]

PopFrame(t) == SubSeq(th[t].frames, 1, Len(th[t].frames) - 1)

\* The body goes on with the given frames and flags, an exception may be raised.
Continue(t, frames, failed, discard, error) ==
  th' = [th EXCEPT ![t].frames = frames, ![t].failed = failed,
                   ![t].discard = @ \/ discard, ![t].error = error]

Leave(t, error, discard, seen, durable) ==
  th' = [th EXCEPT ![t].pc = "reset", ![t].error = error, ![t].discard = @ \/ discard,
                   ![t].seen = seen, ![t].durable = durable, ![t].frames = <<>>]

\* A driver call that talks to the server finds the connection lost.
Interrupted(c) ==
  /\ Lost(c)
  /\ session' = [session EXCEPT ![c] = "broken"]
  /\ unsafe' = unsafe \cup {c}

Answered(c, state) ==
  /\ ~Lost(c)
  /\ session' = [session EXCEPT ![c] = state]
  /\ UNCHANGED unsafe

bodyVars == <<poolVars, discarded, driverVars, losses>>

\* _begin: with no isolation level nothing is sent to the server.
Begin(t) ==
  /\ th[t].pc = "begin"
  /\ \/ /\ th' = [th EXCEPT ![t].pc = "body", ![t].frames = <<[srv |-> {}, seen |-> {}]>>]
        /\ \/ UNCHANGED <<session, unsafe>>
           \/ Answered(th[t].conn, "open")
     \/ /\ Interrupted(th[t].conn)
        /\ Leave(t, "statement", TRUE, {}, {})
     \/ /\ Leave(t, "cleanup", TRUE, {}, {})       \* autocommit cannot be read or set
        /\ unsafe' = unsafe \cup {th[t].conn}
        /\ UNCHANGED session
  /\ UNCHANGED bodyVars

InBody(t) == th[t].pc = "body" /\ th[t].error = "none"

\* execute, fetch_one or fetch_all: a write succeeds; the server rejects it; it
\* succeeds and its result cannot be detached; the connection is lost.
Execute(t, w) ==
  LET c     == th[t].conn
      below == PopFrame(t)
      top   == Top(t)
      wrote(seen) == Append(below, [srv |-> top.srv \cup {w}, seen |-> seen])
  IN  /\ InBody(t)
      /\ \/ /\ ~th[t].failed
            /\ \/ Answered(c, "open") /\ Continue(t, wrote(top.seen \cup {w}), FALSE, FALSE, "none")
               \/ Answered(c, "open") /\ Continue(t, wrote(top.seen), TRUE, FALSE, "sql")
               \/ Answered(c, "aborted") /\ Continue(t, th[t].frames, TRUE, FALSE, "sql")
               \/ Interrupted(c) /\ Continue(t, th[t].frames, TRUE, TRUE, "statement")
         \/ /\ th[t].failed
            /\ Continue(t, th[t].frames, TRUE, FALSE, "state")
            /\ UNCHANGED <<session, unsafe>>
      /\ UNCHANGED bodyVars

\* The body raises, or handles what was raised.
BodyRaises(t) ==
  /\ InBody(t)
  /\ Continue(t, th[t].frames, th[t].failed, FALSE, "caller")
  /\ UNCHANGED <<bodyVars, session, unsafe>>

BodyHandles(t) ==
  /\ th[t].pc = "body" /\ th[t].error # "none"
  /\ Continue(t, th[t].frames, th[t].failed, FALSE, "none")
  /\ UNCHANGED <<bodyVars, session, unsafe>>

\* savepoint: SAVEPOINT is sent, or the transaction is not usable.
EnterSavepoint(t) ==
  /\ InBody(t)
  /\ Len(th[t].frames) <= MaxDepth
  /\ \/ /\ ~th[t].failed
        /\ \/ /\ Answered(th[t].conn, "open")
              /\ Continue(t, Append(th[t].frames, [srv |-> {}, seen |-> {}]), FALSE, FALSE, "none")
           \/ Interrupted(th[t].conn) /\ Continue(t, th[t].frames, TRUE, TRUE, "statement")
     \/ /\ th[t].failed
        /\ Continue(t, th[t].frames, TRUE, FALSE, "state")
        /\ UNCHANGED <<session, unsafe>>
  /\ UNCHANGED bodyVars

\* The savepoint's body ends: RELEASE SAVEPOINT, which fails in an aborted
\* transaction.
LeaveSavepoint(t) ==
  LET c      == th[t].conn
      below  == PopFrame(t)
      parent == below[Len(below)]
      merged == [srv |-> parent.srv \cup Top(t).srv, seen |-> parent.seen \cup Top(t).seen]
  IN  /\ InBody(t)
      /\ Len(th[t].frames) > 1
      /\ \/ /\ session[c] = "aborted"
            /\ Answered(c, "aborted")
            /\ Continue(t, below, TRUE, FALSE, "sql")
         \/ /\ session[c] # "aborted"
            /\ Answered(c, "open")
            /\ Continue(t, Append(SubSeq(below, 1, Len(below) - 1), merged), th[t].failed, FALSE, "none")
         \/ Interrupted(c) /\ Continue(t, below, TRUE, TRUE, "statement")
      /\ UNCHANGED bodyVars

\* The savepoint's body raised: ROLLBACK TO and RELEASE, and the exception goes on.
UnwindSavepoint(t) ==
  /\ th[t].pc = "body" /\ th[t].error # "none"
  /\ Len(th[t].frames) > 1
  /\ \/ /\ Answered(th[t].conn, "open")
        /\ Continue(t, PopFrame(t), FALSE, FALSE, th[t].error)
     \/ Interrupted(th[t].conn) /\ Continue(t, PopFrame(t), TRUE, TRUE, th[t].error)
  /\ UNCHANGED bodyVars

InFinish(t) == th[t].pc = "body" /\ Len(th[t].frames) = 1

\* The driver's rollback: it may raise, and must when the connection was lost
\* inside a transaction.  With no transaction open it sends nothing.
RollbackRaises(c) ==
  /\ session' = [session EXCEPT ![c] = "broken"]
  /\ unsafe' = unsafe \cup {c}

RollbackReturns(c) ==
  /\ session[c] \notin {"lost_open", "broken"}
  /\ session' = [session EXCEPT ![c] = IF @ = "lost_idle" THEN @ ELSE "clean"]

\* _finish after an error: roll back and restore autocommit.  An exception of
\* the body stays the reported one; a handled command failure is reported too.
FinishRollback(t) ==
  LET c == th[t].conn
      report(error) == IF th[t].error # "none" THEN th[t].error ELSE error
  IN  /\ InFinish(t)
      /\ th[t].error # "none" \/ th[t].failed
      /\ \/ RollbackRaises(c) /\ Leave(t, report("rollback"), TRUE, {}, {})
         \/ /\ RollbackReturns(c)
            /\ \/ UNCHANGED unsafe /\ Leave(t, report("state"), FALSE, {}, {})
               \/ /\ unsafe' = unsafe \cup {c}         \* autocommit is not restored
                  /\ Leave(t, report("cleanup"), TRUE, {}, {})
      /\ UNCHANGED bodyVars

\* Mutant: a handled command failure is forgotten.
FinishCommitFailed(t) ==
  LET c    == th[t].conn
      top  == Top(t)
      kept == IF session[c] = "aborted" THEN {} ELSE top.srv
  IN  /\ InFinish(t)
      /\ th[t].error = "none"
      /\ \/ /\ session[c] \in {"clean", "open", "aborted", "lost_idle"}
            /\ session' = [session EXCEPT ![c] = IF @ = "lost_idle" THEN @ ELSE "clean"]
            /\ \/ UNCHANGED unsafe /\ Leave(t, "none", FALSE, top.seen, kept)
               \/ /\ unsafe' = unsafe \cup {c}         \* autocommit is not restored
                  /\ Leave(t, "cleanup", TRUE, top.seen, kept)
         \/ \E reached \in {kept, {}} :                \* the commit raises
              /\ session[c] \in {"open", "lost_open", "broken"}
              /\ reached # {} => session[c] = "open"
              /\ session' = [session EXCEPT ![c] = "broken"]
              /\ unsafe' = unsafe \cup {c}
              /\ Leave(t, "unknown", TRUE, top.seen, reached)
      /\ UNCHANGED bodyVars

\* _finish after a clean body: commit and restore autocommit.  The server turns
\* the commit of an aborted transaction into a rollback and reports no error.
FinishCommit(t) ==
  LET c    == th[t].conn
      top  == Top(t)
      kept == IF session[c] = "aborted" THEN {} ELSE top.srv
  IN  /\ InFinish(t)
      /\ th[t].error = "none" /\ ~th[t].failed
      /\ \/ /\ session[c] \in {"clean", "open", "aborted", "lost_idle"}
            /\ session' = [session EXCEPT ![c] = IF @ = "lost_idle" THEN @ ELSE "clean"]
            /\ \/ UNCHANGED unsafe /\ Leave(t, "none", FALSE, top.seen, kept)
               \/ /\ unsafe' = unsafe \cup {c}         \* autocommit is not restored
                  /\ Leave(t, "cleanup", TRUE, top.seen, kept)
         \/ \E reached \in {kept, {}} :                \* the commit raises
              /\ session[c] \in {"open", "lost_open", "broken"}
              /\ reached # {} => session[c] = "open"
              /\ session' = [session EXCEPT ![c] = "broken"]
              /\ unsafe' = unsafe \cup {c}
              /\ Leave(t, "unknown", TRUE, top.seen, reached)
      /\ UNCHANGED bodyVars

-----------------------------------------------------------------------------
(* The end of PlaneDatabase.transaction and of ConnectionPool.connection *)

\* A raised transaction that needs it marks its connection; then the pool resets
\* the connection with a rollback.
Reset(t) ==
  LET c == th[t].conn
  IN  /\ th[t].pc = "reset"
      /\ discarded' = IF th[t].error # "none" /\ th[t].discard
                      THEN discarded \cup {c} ELSE discarded
      /\ \/ /\ RollbackRaises(c)
            /\ th' = [th EXCEPT ![t].pc = "release", ![t].reset_failed = TRUE]
         \/ /\ RollbackReturns(c)
            /\ UNCHANGED unsafe
            /\ th' = [th EXCEPT ![t].pc = "release"]
      /\ UNCHANGED <<poolVars, driverVars, losses>>

\* _take_discard and _release up to putconn, which returns the permit in any
\* case.  The driver pool keeps no connection it knows to be closed.
Release(t) ==
  LET c       == th[t].conn
      discard == th[t].reset_failed \/ th[t].error \in DiscardErrors \/ c \in discarded
  IN  /\ th[t].pc = "release"
      /\ discarded' = discarded \ {c}
      /\ permits' = permits + 1
      /\ \E returns \in BOOLEAN :
           /\ place' = [place EXCEPT ![c] =
                          IF returns /\ ~discard /\ session[c] # "broken" THEN "idle" ELSE "absent"]
           /\ th' = [th EXCEPT ![t].pc = "uncount",
                               ![t].error = IF @ # "none" THEN @
                                            ELSE IF th[t].reset_failed THEN "reset"
                                            ELSE IF returns THEN "none" ELSE "release"]
      /\ UNCHANGED <<poolVars, session, unsafe, losses>>

Uncount(t) ==
  /\ th[t].pc = "uncount"
  /\ borrowed' = borrowed - 1
  /\ th' = [th EXCEPT ![t].pc = "out", ![t].conn = Null, ![t].failed = FALSE,
                      ![t].discard = FALSE, ![t].reset_failed = FALSE]
  /\ UNCHANGED <<closed, cleanup, cleaner, discarded, driverVars, session, unsafe, losses>>

-----------------------------------------------------------------------------
(* close: admission is closed first, cleanup is serialised and retried *)

Close(t) ==
  /\ th[t].pc = "out"
  /\ \/ /\ cleanup.complete
        /\ th' = [th EXCEPT ![t] = Out("none")]
        /\ UNCHANGED closed
     \/ /\ ~cleanup.complete /\ borrowed > 0
        /\ th' = [th EXCEPT ![t] = Out("in_use")]
        /\ UNCHANGED closed
     \/ /\ ~cleanup.complete /\ borrowed = 0
        /\ th' = [th EXCEPT ![t] = [Out("none") EXCEPT !.pc = "cleanup_wait"]]
        /\ closed' = TRUE
  /\ UNCHANGED <<borrowed, cleanup, cleaner, discarded, driverVars, session, unsafe, losses>>

LockCleanup(t) ==
  /\ th[t].pc = "cleanup_wait"
  /\ cleaner = Null
  /\ \/ /\ cleanup.complete
        /\ th' = [th EXCEPT ![t] = Out("none")]
        /\ UNCHANGED <<cleaner, cleanup>>
     \/ /\ ~cleanup.complete /\ cleanup.attempts < MaxCleanups
        /\ cleaner' = t
        /\ cleanup' = [cleanup EXCEPT !.attempts = @ + 1]
        /\ th' = [th EXCEPT ![t].pc = "cleanup"]
  /\ UNCHANGED <<borrowed, closed, discarded, driverVars, session, unsafe, losses>>

\* closeall closes every connection of the driver pool, or raises.
CloseAll(t) ==
  /\ th[t].pc = "cleanup"
  /\ cleaner' = Null
  /\ \/ /\ cleanup' = [cleanup EXCEPT !.complete = TRUE, !.failed = FALSE]
        /\ place' = [c \in Conns |-> "absent"]
        /\ th' = [th EXCEPT ![t] = Out("none")]
     \/ /\ cleanup' = [cleanup EXCEPT !.failed = TRUE]
        /\ th' = [th EXCEPT ![t] = Out("shutdown")]
        /\ UNCHANGED place
  /\ UNCHANGED <<borrowed, closed, discarded, permits, session, unsafe, losses>>

Step(t) ==
  \/ Acquire(t) \/ GetConn(t) \/ Begin(t)
  \/ (\E w \in Writes : Execute(t, w))
  \/ BodyRaises(t) \/ BodyHandles(t)
  \/ EnterSavepoint(t) \/ LeaveSavepoint(t) \/ UnwindSavepoint(t)
  \/ FinishRollback(t) \/ FinishCommit(t)
  \/ Reset(t) \/ Release(t) \/ Uncount(t)
  \/ LockCleanup(t) \/ CloseAll(t)

Next ==
  \/ \E c \in Conns : Lose(c)
  \/ \E t \in Threads : Borrow(t) \/ Close(t) \/ Step(t)

Spec == Init /\ [][Next]_vars

-----------------------------------------------------------------------------
(* Properties *)

\* What a transaction tells its caller is true of the server: no exception means
\* that exactly the writes the body saw are durable; an unknown outcome or a
\* cleanup failure is the only report that leaves it open; reset and release
\* failures come after the commit; any other exception means nothing is durable.
OutcomeTruthful ==
  \A t \in Threads : th[t].pc = "out" =>
    CASE th[t].error \in {"none", "reset", "release"} -> th[t].durable = th[t].seen
      [] th[t].error \in {"unknown", "cleanup"} -> th[t].durable \in {{}, th[t].seen}
      [] OTHER -> th[t].durable = {}

\* An unsafe connection is never returned to the pool, and no borrower inherits
\* a transaction: what is idle has none open.
UnsafeNeverReused ==
  \A c \in Idle : c \notin unsafe /\ session[c] \in {"clean", "lost_idle"}

Counted(t) == th[t].pc \in {"checkout", "getconn", "begin", "body", "reset", "release", "uncount"}

HasPermit(t) == th[t].pc \in {"getconn", "begin", "body", "reset", "release"}

\* Every path out of a borrow, also the ones through a failing checkout, reset or
\* return, gives back its borrow slot and its permit, once; used connections are
\* exactly the ones threads hold, and a discard mark outlives no return.
CustodyBalanced ==
  /\ borrowed = Cardinality({t \in Threads : Counted(t)})
  /\ permits = Cardinality(Conns) - Cardinality({t \in Threads : HasPermit(t)})
  /\ \A c \in Conns : place[c] = "used" <=> \E t \in Threads : HasPermit(t) /\ th[t].conn = c
  /\ \A t, u \in Threads : HasPermit(t) /\ HasPermit(u) /\ th[t].conn = th[u].conn /\ t # u =>
       th[t].conn = Null
  /\ \A c \in discarded : \E t \in Threads : th[t].pc = "release" /\ th[t].conn = c

\* Closing admission and counting a borrow exclude each other, so closeall never
\* closes a connection a thread is using, and a completed cleanup is final.
CloseExcludesBorrow ==
  /\ closed => \A t \in Threads : ~Counted(t)
  /\ cleanup.complete => closed /\ ~cleanup.failed /\ Idle = {}
  /\ \A t \in Threads : th[t].pc = "cleanup" <=> cleaner = t

\* A transaction that cannot commit any more does not: _failed is set whenever
\* the server's transaction is aborted or the connection is known to be broken.
FailureTracked ==
  \A t \in Threads : InBody(t) /\ session[th[t].conn] \in {"aborted", "broken"} => th[t].failed

\* Under fair threads every borrow ends: no permit or cleanup lock is waited for
\* forever.
BorrowEnds == \A t \in Threads : Counted(t) ~> th[t].pc = "out"

\* A thread that is not in its body keeps running, and a body comes to an end.
GoesOn(t) ==
  \/ Acquire(t) \/ GetConn(t) \/ Begin(t) \/ Reset(t) \/ Release(t) \/ Uncount(t)
  \/ LockCleanup(t) \/ CloseAll(t)

BodyEnds(t) == FinishRollback(t) \/ FinishCommit(t)

LiveSpec == Spec /\ \A t \in Threads : WF_vars(GoesOn(t)) /\ SF_vars(BodyEnds(t))
=============================================================================
