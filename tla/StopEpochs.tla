----------------------------- MODULE StopEpochs -----------------------------
(***************************************************************************)
(* StopEpochRepository (repositories/stop_epochs.py) for one owner: the    *)
(* durable stop switch of the owner, the receipts of peers for a stop, and *)
(* the epoch that each operation was accepted in.                          *)
(*                                                                         *)
(* Every method locks the row of the owner (_locked, SELECT ... FOR        *)
(* UPDATE) and leaves commit to the caller, so a transaction is a first    *)
(* step that takes the lock, calls, and a commit or rollback. Callers use  *)
(* revisions and epochs that they read earlier. A call that raises changes *)
(* nothing and its transaction is rolled back. A transaction is used for a *)
(* transition of the stop or for admission and execution, never for both.  *)
(***************************************************************************)
EXTENDS Integers, FiniteSets

CONSTANTS
  Callers,
  Operations,
  Legacy,        \* operations accepted before bindings existed: nobody binds them
  Peers,
  Digests,       \* receipt digests
  Reasons,       \* reason and actor of an engagement
  Times,         \* what callers may give as the time
  MaxInt,        \* the largest value of a counter
  MaxReceipts,   \* receipts of one epoch (64)
  Null

ASSUME StopConstants ==
  /\ Times \subseteq Nat
  /\ MaxInt \in Nat
  /\ MaxReceipts \in Nat
  /\ Legacy \subseteq Operations
  /\ Null \notin Nat \cup Operations \cup Reasons

VARIABLES
  row,       \* owner_stop_epoch; the anchor of an owner never stopped is all zero
  acks,      \* peer_stop_acknowledgment
  binding,   \* owner_stop_operation_epoch
  tx,        \* the open transaction of each caller and its view of the tables
  seen,      \* the record that a caller read last, without the lock
  executed   \* history: what was let through, with the stop at commit

vars == <<row, acks, binding, tx, seen, executed>>

Epochs == 0 .. MaxInt
Rows ==
  [epoch : Epochs, revision : Epochs, engaged : BOOLEAN, at : Nat, reason : Reasons \cup {Null},
   updated : Nat]
Acks == SUBSET [epoch : Epochs, peer : Peers, digest : Digests]
Bindings == [Operations -> Epochs \cup {Null}]

\* What an assertion let through: an operation, or work that expected an epoch or none.
Passes == [op : Operations \cup {Null}, expected : Epochs \cup {Null}]
Executions ==
  [op : Operations \cup {Null}, expected : Epochs \cup {Null}, epoch : Epochs, engaged : BOOLEAN]

Anchor ==
  [epoch |-> 0, revision |-> 0, engaged |-> FALSE, at |-> 0, reason |-> Null, updated |-> 0]

Idle ==
  [open |-> FALSE, wrote |-> {}, row |-> Anchor, acks |-> {},
   binding |-> [o \in Operations |-> Null], passed |-> {}]

Transactions ==
  [open : BOOLEAN, wrote : SUBSET {"row", "binding"}, row : Rows, acks : Acks, binding : Bindings,
   passed : SUBSET Passes]

\* The constraint owner_stop_epoch_state.
Shaped(r) ==
  \/ r = Anchor
  \/ r.epoch >= 1 /\ r.revision >= r.epoch /\ r.reason # Null /\ r.updated >= r.at

\* Counters stay within their width, records have their types, and the table never has
\* to refuse a row.
TypeOK ==
  /\ row \in Rows /\ Shaped(row)
  /\ acks \in Acks
  /\ binding \in Bindings
  /\ tx \in [Callers -> Transactions]
  /\ seen \in [Callers -> Rows]
  /\ executed \in SUBSET Executions

Init ==
  /\ row = Anchor
  /\ acks = {}
  /\ binding = [o \in Operations |-> Null]
  /\ tx = [c \in Callers |-> Idle]
  /\ seen = [c \in Callers |-> Anchor]
  /\ executed = {}

\* get without for_update: a committed record, stale as soon as it is returned.
Get(c) ==
  /\ seen' = [seen EXCEPT ![c] = row]
  /\ UNCHANGED <<row, acks, binding, tx, executed>>

\* Mutant: the row is read without FOR UPDATE.
LockedForRead(c) ==
  /\ tx' = [tx EXCEPT ![c] =
       [open |-> TRUE, wrote |-> {}, row |-> row, acks |-> acks, binding |-> binding,
        passed |-> {}]]
  /\ UNCHANGED <<row, acks, binding, seen, executed>>

\* _locked: the lock is held until the transaction ends.
Locked(c) ==
  /\ \A d \in Callers : ~tx[d].open
  /\ tx' = [tx EXCEPT ![c] =
       [open |-> TRUE, wrote |-> {}, row |-> row, acks |-> acks, binding |-> binding,
        passed |-> {}]]
  /\ UNCHANGED <<row, acks, binding, seen, executed>>

\* A transition writes the row of the owner, and its receipts.
Store(c, newRow, newAcks) ==
  /\ tx' = [tx EXCEPT ![c] =
       [open |-> TRUE, wrote |-> {"row"}, row |-> newRow, acks |-> newAcks,
        binding |-> tx[c].binding, passed |-> {}]]
  /\ UNCHANGED <<row, acks, binding, seen, executed>>

\* A new transaction for a transition, whose caller expects the current revision
\* (_fence).
Fenced(c) ==
  /\ tx[c].open
  /\ tx[c].wrote = {}
  /\ tx[c].passed = {}
  /\ tx[c].row.revision = seen[c].revision

\* The row after a transition that leaves the epoch and the data of its engagement.
Moved(r, engaged, at) ==
  [epoch |-> r.epoch, revision |-> r.revision + 1, engaged |-> engaged, at |-> r.at,
   reason |-> r.reason, updated |-> at]

CountsLeft(n) == n # MaxInt

\* engage. An exact replay for an engaged stop returns it; anything else conflicts.
Engage(c, reason, at) ==
  /\ Fenced(c)
  /\ ~tx[c].row.engaged
  /\ at >= tx[c].row.updated
  /\ CountsLeft(tx[c].row.epoch)
  /\ CountsLeft(tx[c].row.revision)
  /\ Store(c, [epoch |-> tx[c].row.epoch + 1, revision |-> tx[c].row.revision + 1,
               engaged |-> TRUE, at |-> at, reason |-> reason, updated |-> at], tx[c].acks)

\* The caller speaks of the stop that is engaged.
SameStop(c) == tx[c].row.engaged /\ tx[c].row.epoch = seen[c].epoch

\* Mutant: resuming does not count as a transition.
ResumeSilent(c, at) ==
  /\ Fenced(c)
  /\ SameStop(c)
  /\ at >= tx[c].row.updated
  /\ CountsLeft(tx[c].row.revision)
  /\ Store(c, [Moved(tx[c].row, FALSE, at) EXCEPT !.revision = @ - 1], tx[c].acks)

\* resume.
Resume(c, at) ==
  /\ Fenced(c)
  /\ SameStop(c)
  /\ at >= tx[c].row.updated
  /\ CountsLeft(tx[c].row.revision)
  /\ Store(c, Moved(tx[c].row, FALSE, at), tx[c].acks)

Receipts(receipts, epoch) == {a \in receipts : a.epoch = epoch}

\* The peer has no receipt yet. A replay of its receipt returns that, another conflicts.
Unacknowledged(receipts, peer, digest) == \A a \in receipts : a.peer # peer

\* Mutant: the receipt is kept though the row of the owner is not updated.
AcknowledgeUncounted(c, peer, digest, at) ==
  LET receipts == Receipts(tx[c].acks, tx[c].row.epoch) IN
  /\ Fenced(c)
  /\ SameStop(c)
  /\ at >= tx[c].row.updated
  /\ Unacknowledged(receipts, peer, digest)
  /\ CountsLeft(tx[c].row.revision)
  /\ Cardinality(receipts) < MaxReceipts
  /\ Store(c, tx[c].row, tx[c].acks \cup
               {[epoch |-> tx[c].row.epoch, peer |-> peer, digest |-> digest]})

\* acknowledge.
Acknowledge(c, peer, digest, at) ==
  LET receipts == Receipts(tx[c].acks, tx[c].row.epoch) IN
  /\ Fenced(c)
  /\ SameStop(c)
  /\ at >= tx[c].row.updated
  /\ Unacknowledged(receipts, peer, digest)
  /\ CountsLeft(tx[c].row.revision)
  /\ Cardinality(receipts) < MaxReceipts
  /\ Store(c, Moved(tx[c].row, TRUE, at),
           tx[c].acks \cup {[epoch |-> tx[c].row.epoch, peer |-> peer, digest |-> digest]})

\* A transaction for admission or execution, under a stop that is not engaged.
Running(c) ==
  /\ tx[c].open
  /\ "row" \notin tx[c].wrote
  /\ ~tx[c].row.engaged

\* What the transaction goes on to do is let through if it commits.
Pass(c, op, expected) ==
  /\ tx' = [tx EXCEPT ![c] =
       [open |-> TRUE, wrote |-> tx[c].wrote, row |-> tx[c].row, acks |-> tx[c].acks,
        binding |-> tx[c].binding,
        passed |-> tx[c].passed \cup {[op |-> op, expected |-> expected]}]]
  /\ UNCHANGED <<row, acks, binding, seen, executed>>

\* assert_running, with the epoch that the caller read or without one.
AssertRunning(c, expected) ==
  /\ Running(c)
  /\ expected \in {Null, seen[c].epoch}
  /\ expected = Null \/ expected = tx[c].row.epoch
  /\ Pass(c, Null, expected)

\* Mutant: a replay in a later epoch moves the binding.
Rebind(c, o) ==
  /\ Running(c)
  /\ o \notin Legacy
  /\ tx' = [tx EXCEPT ![c] =
       [open |-> TRUE, wrote |-> {"binding"}, row |-> tx[c].row, acks |-> tx[c].acks,
        binding |-> [tx[c].binding EXCEPT ![o] = tx[c].row.epoch], passed |-> tx[c].passed]]
  /\ UNCHANGED <<row, acks, binding, seen, executed>>

\* bind_operation, for newly accepted work. A replay in the same epoch returns the
\* binding, one in a later epoch conflicts.
BindOperation(c, o) ==
  /\ Running(c)
  /\ o \notin Legacy
  /\ tx[c].binding[o] = Null
  /\ tx' = [tx EXCEPT ![c] =
       [open |-> TRUE, wrote |-> {"binding"}, row |-> tx[c].row, acks |-> tx[c].acks,
        binding |-> [tx[c].binding EXCEPT ![o] = tx[c].row.epoch], passed |-> tx[c].passed]]
  /\ UNCHANGED <<row, acks, binding, seen, executed>>

\* The epoch that an operation may execute in.
BoundEpoch(bindings, o) == IF bindings[o] = Null THEN 0 ELSE bindings[o]

\* Mutant: once the owner has resumed, every operation may go on.
AssertOperationResumed(c, o) ==
  /\ Running(c)
  /\ o \in Legacy \/ tx[c].binding[o] # Null
  /\ Pass(c, o, tx[c].row.epoch)

\* assert_operation. New work is bound when it is accepted, before it is executed.
AssertOperation(c, o) ==
  /\ Running(c)
  /\ o \in Legacy \/ tx[c].binding[o] # Null
  /\ tx[c].row.epoch = BoundEpoch(tx[c].binding, o)
  /\ Pass(c, o, BoundEpoch(tx[c].binding, o))

\* The caller commits what its transaction wrote.
Commit(c) ==
  /\ tx[c].open
  /\ row' = IF "row" \in tx[c].wrote THEN tx[c].row ELSE row
  /\ acks' = IF "row" \in tx[c].wrote THEN tx[c].acks ELSE acks
  /\ binding' = IF "binding" \in tx[c].wrote THEN tx[c].binding ELSE binding
  /\ executed' = executed \cup
       {[op |-> p.op, expected |-> p.expected, epoch |-> row'.epoch, engaged |-> row'.engaged]
          : p \in tx[c].passed}
  /\ tx' = [tx EXCEPT ![c] = Idle]
  /\ UNCHANGED seen

\* The caller rolls back, after a conflict or for reasons of its own, or is gone.
Rollback(c) ==
  /\ tx[c].open
  /\ tx' = [tx EXCEPT ![c] = Idle]
  /\ UNCHANGED <<row, acks, binding, seen, executed>>

Next ==
  \E c \in Callers :
    \/ Get(c)
    \/ Locked(c)
    \/ \E at \in Times :
         \/ \E reason \in Reasons : Engage(c, reason, at)
         \/ Resume(c, at)
         \/ \E peer \in Peers, digest \in Digests : Acknowledge(c, peer, digest, at)
    \/ \E expected \in Epochs \cup {Null} : AssertRunning(c, expected)
    \/ \E o \in Operations : BindOperation(c, o) \/ AssertOperation(c, o)
    \/ Commit(c)
    \/ Rollback(c)

Spec == Init /\ [][Next]_vars

-----------------------------------------------------------------------------
\* Nothing is let through while the stop is engaged, or in another epoch than the one
\* its caller expected or its operation was bound to, though the stop may be engaged
\* between the assertion and the commit that depends on it (assert_running,
\* assert_operation).
ExecutedInItsEpoch ==
  \A x \in executed :
    /\ ~x.engaged
    /\ x.expected # Null => x.epoch = x.expected

\* An operation accepted before a stop is not executed after it, resumed or not: every
\* execution was in the epoch of its durable binding, and without a binding only before
\* the first stop.
StopIsForever ==
  \A x \in executed : x.op # Null => x.epoch = BoundEpoch(binding, x.op)

\* A revision names one state: who holds the current revision knows the current row, so
\* that an engagement, resumption or receipt decided on it is about that stop (_fence).
RevisionNamesState ==
  \A c \in Callers :
    /\ seen[c].revision <= row.revision
    /\ seen[c].revision = row.revision => seen[c] = row

\* The revision counts the transitions: an engagement per epoch, a resumption of each
\* epoch that is over, and a step for every receipt, none lost and none counted twice.
RevisionCounts ==
  row.revision = 2 * row.epoch - (IF row.engaged THEN 1 ELSE 0) + Cardinality(acks)

\* An epoch has one receipt of a peer, and no more than its bound; receipts are for
\* epochs that were engaged.
ReceiptsSound ==
  /\ \A a, b \in acks : a.epoch = b.epoch /\ a.peer = b.peer => a = b
  /\ \A e \in Epochs : Cardinality(Receipts(acks, e)) <= MaxReceipts
  /\ \A a \in acks : a.epoch \in 1 .. row.epoch

\* Receipts and bindings are never changed or removed, and epochs and revisions never
\* go back: a resumption or a later stop leaves the evidence of earlier ones.
EvidenceStays ==
  [][/\ acks \subseteq acks'
     /\ \A o \in Operations : binding[o] # Null => binding'[o] = binding[o]
     /\ row.epoch <= row'.epoch
     /\ row.revision <= row'.revision
     /\ row.updated <= row'.updated]_vars

=============================================================================
