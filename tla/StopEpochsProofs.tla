-------------------------- MODULE StopEpochsProofs --------------------------
(***************************************************************************)
(* Proofs for StopEpochs: the epoch discipline holds for any number of     *)
(* callers, operations and peers, and for counters of any width.           *)
(*                                                                         *)
(* The properties of the committed tables are not inductive: a commit      *)
(* copies the view of a transaction. The invariant therefore says what an  *)
(* open transaction knows (Knows), which it may say because the row lock   *)
(* admits one open transaction only (OneOpen).                             *)
(***************************************************************************)
EXTENDS StopEpochs, FiniteSetTheorems, TLAPS

\* A leaf that names no backend is for the SMT solver.
USE SMTT(30)

OneOpen == \A c, d \in Callers : tx[c].open /\ tx[d].open => c = d

\* A row with the revision of another is that row; otherwise it is a later one.
Follows(new, old) ==
  /\ old.epoch <= new.epoch
  /\ old.revision <= new.revision
  /\ old.updated <= new.updated
  /\ new.revision = old.revision => new = old

\* What an assertion let through agrees with the row and the bindings.
Passed(p, r, b) ==
  /\ ~r.engaged
  /\ p.expected # Null => r.epoch = p.expected
  /\ p.op # Null =>
       /\ p.op \in Legacy \/ b[p.op] # Null
       /\ r.epoch = BoundEpoch(b, p.op)

\* What the view v of a transaction knows about the tables.
Knows(v, r, k, b) ==
  /\ Shaped(v.row)
  /\ Follows(v.row, r)
  /\ k \subseteq v.acks
  /\ \A o \in Operations : b[o] # Null => v.binding[o] = b[o]
  /\ \A o \in Legacy : v.binding[o] = Null
  /\ "row" \notin v.wrote => v.row = r /\ v.acks = k
  /\ "row" \in v.wrote => v.passed = {} /\ "binding" \notin v.wrote
  /\ "binding" \notin v.wrote => v.binding = b
  /\ \A p \in v.passed : Passed(p, v.row, v.binding)

Views == \A c \in Callers : tx[c].open => Knows(tx[c], row, acks, binding)

ReadersBehind == \A c \in Callers : Follows(row, seen[c])

\* What was executed agrees with the bindings.
Executed ==
  \A x \in executed :
    /\ ~x.engaged
    /\ x.expected # Null => x.epoch = x.expected
    /\ x.op # Null =>
         /\ x.op \in Legacy \/ binding[x.op] # Null
         /\ x.epoch = BoundEpoch(binding, x.op)

LegacyUnbound == \A o \in Legacy : binding[o] = Null

IInv ==
  /\ TypeOK
  /\ OneOpen
  /\ Views
  /\ ReadersBehind
  /\ Executed
  /\ LegacyUnbound

-----------------------------------------------------------------------------
\* The invariant holds at first: no owner is stopped and no transaction is open.
LEMMA InitIInv == Init => IInv
  <1> SUFFICES ASSUME Init PROVE IInv
    BY Zenon
  <1> USE StopConstants DEF Init
  <1>1. Anchor \in Rows
    BY DEF Anchor, Rows, Epochs
  <1>2. Idle \in Transactions
    BY <1>1, Zenon DEF Idle, Transactions, Acks, Bindings
  <1>3. TypeOK
    BY <1>1, <1>2, Zenon DEF TypeOK, Shaped, Acks, Bindings
  <1>4. OneOpen /\ Views
    BY Zenon DEF OneOpen, Views, Idle
  <1>5. ReadersBehind
    BY <1>1 DEF ReadersBehind, Follows, Rows, Epochs
  <1>6. Executed /\ LegacyUnbound
    BY Zenon DEF Executed, LegacyUnbound
  <1> QED BY <1>3, <1>4, <1>5, <1>6, Zenon DEF IInv

\* A step that replaces the view of one caller, which alone has a transaction open,
\* by one that knows the tables, keeps the invariant.
LEMMA ViewStep ==
  ASSUME IInv, NEW c \in Callers, NEW v \in Transactions,
         tx' = [tx EXCEPT ![c] = v],
         UNCHANGED <<row, acks, binding, seen, executed>>,
         \A d \in Callers : tx[d].open => d = c,
         v.open => Knows(v, row, acks, binding)
  PROVE  IInv'
  <1>1. tx' \in [Callers -> Transactions] /\ tx'[c] = v
        /\ \A d \in Callers : d # c => tx'[d] = tx[d]
    BY Zenon DEF IInv, TypeOK
  <1>2. TypeOK'
    BY <1>1, Zenon DEF IInv, TypeOK, Shaped
  <1>3. \A d \in Callers : tx'[d].open => d = c
    BY <1>1, Zenon
  <1>4. OneOpen'
    BY <1>3, Zenon DEF OneOpen
  <1>5. Views'
    BY <1>1, <1>3, Zenon DEF Views
  <1>6. ReadersBehind' /\ Executed' /\ LegacyUnbound'
    BY Zenon DEF IInv, ReadersBehind, Executed, LegacyUnbound
  <1> QED BY <1>2, <1>4, <1>5, <1>6, Zenon DEF IInv

\* A row follows itself.
LEMMA FollowsSelf == ASSUME NEW r \in Rows PROVE Follows(r, r)
  BY DEF Follows, Rows, Epochs

\* Rows that follow one another form a chain: equal revisions at the ends leave no room.
LEMMA FollowsTransitive ==
  ASSUME NEW r \in Rows, NEW s \in Rows, NEW t \in Rows, Follows(r, s), Follows(s, t)
  PROVE  Follows(r, t)
  BY StopConstants DEF Follows, Rows, Epochs

-----------------------------------------------------------------------------
\* A read without the lock returns the committed row.
LEMMA GetStep == ASSUME IInv, NEW c \in Callers, Get(c) PROVE IInv'
  <1> USE DEF IInv, Get
  <1>1. TypeOK'
    BY Zenon DEF TypeOK, Shaped
  <1>2. ReadersBehind'
    <2>1. Follows(row, row)
      BY FollowsSelf, Zenon DEF TypeOK
    <2> QED BY <2>1, Zenon DEF ReadersBehind, TypeOK
  <1>3. OneOpen' /\ Views' /\ Executed' /\ LegacyUnbound'
    BY Zenon DEF OneOpen, Views, Executed, LegacyUnbound
  <1> QED BY <1>1, <1>2, <1>3, Zenon

\* A transaction starts from the committed tables, and is the only one open.
LEMMA LockedStep == ASSUME IInv, NEW c \in Callers, Locked(c) PROVE IInv'
  <1> DEFINE v == [open |-> TRUE, wrote |-> {}, row |-> row, acks |-> acks,
                   binding |-> binding, passed |-> {}]
  <1>1. v \in Transactions
    BY Zenon DEF IInv, TypeOK, Transactions
  <1>2. Follows(row, row)
    BY FollowsSelf, Zenon DEF IInv, TypeOK
  <1>3. Knows(v, row, acks, binding)
    BY <1>2, Zenon DEF Knows, IInv, TypeOK, LegacyUnbound
  <1>4. tx' = [tx EXCEPT ![c] = v] /\ UNCHANGED <<row, acks, binding, seen, executed>>
    BY Zenon DEF Locked
  <1>5. \A d \in Callers : tx[d].open => d = c
    BY Zenon DEF Locked
  <1> QED BY <1>1, <1>3, <1>4, <1>5, ViewStep, Zenon

\* The facts that every call starts from.
LEMMA OpenFacts ==
  ASSUME IInv, NEW c \in Callers, tx[c].open
  PROVE  /\ tx[c] \in Transactions
         /\ tx[c].row \in Rows
         /\ tx[c].acks \in Acks
         /\ tx[c].binding \in Bindings
         /\ tx[c].wrote \in SUBSET {"row", "binding"}
         /\ tx[c].passed \in SUBSET Passes
         /\ Knows(tx[c], row, acks, binding)
         /\ \A d \in Callers : tx[d].open => d = c
  BY Zenon DEF IInv, TypeOK, Views, OneOpen, Transactions

\* A transition to a row that is one revision later keeps the invariant.
LEMMA StoreStep ==
  ASSUME IInv, NEW c \in Callers, Fenced(c),
         NEW r \in Rows, NEW k \in Acks, Store(c, r, k),
         Shaped(r), tx[c].row.epoch <= r.epoch, tx[c].row.updated <= r.updated,
         r.revision = tx[c].row.revision + 1, tx[c].acks \subseteq k
  PROVE  IInv'
  <1> DEFINE v == [open |-> TRUE, wrote |-> {"row"}, row |-> r, acks |-> k,
                   binding |-> tx[c].binding, passed |-> {}]
  <1>1. tx[c].open /\ tx[c].wrote = {}
    BY Zenon DEF Fenced
  <1>2. v \in Transactions
    BY <1>1, OpenFacts, Zenon DEF Transactions
  <1>3. tx[c].row = row /\ tx[c].acks = acks /\ tx[c].binding = binding
    BY <1>1, OpenFacts, Zenon DEF Knows
  <1>4. Follows(r, row)
    BY <1>3, <1>1, OpenFacts DEF Follows, Rows, Epochs
  <1>5. Knows(v, row, acks, binding)
    BY <1>1, <1>3, <1>4, OpenFacts, Zenon DEF Knows
  <1>6. tx' = [tx EXCEPT ![c] = v] /\ UNCHANGED <<row, acks, binding, seen, executed>>
    BY Zenon DEF Store
  <1> QED BY <1>1, <1>2, <1>5, <1>6, OpenFacts, ViewStep, Zenon

\* engage keeps the invariant.
LEMMA EngageStep ==
  ASSUME IInv, NEW c \in Callers, NEW reason \in Reasons, NEW at \in Times,
         Engage(c, reason, at)
  PROVE  IInv'
  <1> DEFINE r == [epoch |-> tx[c].row.epoch + 1, revision |-> tx[c].row.revision + 1,
                   engaged |-> TRUE, at |-> at, reason |-> reason, updated |-> at]
  <1>1. tx[c].open /\ Fenced(c) /\ Store(c, r, tx[c].acks)
    BY Zenon DEF Engage, Fenced
  <1>2. tx[c].row \in Rows /\ tx[c].acks \in Acks /\ Shaped(tx[c].row)
    BY <1>1, OpenFacts, Zenon DEF Knows
  <1>3. at \in Nat /\ at >= tx[c].row.updated
    BY StopConstants, Zenon DEF Engage
  <1>4. r \in Rows
    BY <1>2, <1>3, StopConstants DEF Engage, CountsLeft, Rows, Epochs
  <1>5. tx[c].row.epoch \in Nat /\ tx[c].row.revision \in Nat /\ tx[c].row.updated \in Nat
        /\ tx[c].row.epoch <= tx[c].row.revision
    BY <1>2, StopConstants DEF Rows, Epochs, Shaped, Anchor
  <1>6. Shaped(r)
    BY <1>3, <1>5, StopConstants DEF Shaped
  <1> QED BY <1>1, <1>2, <1>3, <1>4, <1>5, <1>6, StoreStep

\* The row after a resumption or a receipt.
LEMMA MovedFacts ==
  ASSUME NEW r \in Rows, Shaped(r), r.engaged, r.revision # MaxInt,
         NEW engaged \in BOOLEAN, NEW at \in Nat, at >= r.updated
  PROVE  /\ Moved(r, engaged, at) \in Rows
         /\ Shaped(Moved(r, engaged, at))
         /\ r.epoch <= Moved(r, engaged, at).epoch
         /\ r.updated <= Moved(r, engaged, at).updated
         /\ Moved(r, engaged, at).revision = r.revision + 1
  <1>1. /\ r.epoch \in Nat /\ r.revision \in Nat /\ r.updated \in Nat /\ r.at \in Nat
        /\ r.epoch >= 1 /\ r.revision >= r.epoch /\ r.reason # Null /\ r.updated >= r.at
    BY DEF Rows, Epochs, Shaped, Anchor
  <1>2. Moved(r, engaged, at) \in Rows
    BY <1>1, StopConstants DEF Moved, Rows, Epochs
  <1>3. Shaped(Moved(r, engaged, at))
    BY <1>1 DEF Moved, Shaped
  <1> QED BY <1>1, <1>2, <1>3 DEF Moved

\* resume keeps the invariant.
LEMMA ResumeStep ==
  ASSUME IInv, NEW c \in Callers, NEW at \in Times, Resume(c, at)
  PROVE  IInv'
  <1>1. tx[c].open /\ Fenced(c) /\ Store(c, Moved(tx[c].row, FALSE, at), tx[c].acks)
    BY Zenon DEF Resume, Fenced
  <1>2. tx[c].row \in Rows /\ tx[c].acks \in Acks /\ Shaped(tx[c].row)
    BY <1>1, OpenFacts, Zenon DEF Knows
  <1>3. at \in Nat /\ at >= tx[c].row.updated /\ tx[c].row.engaged
        /\ tx[c].row.revision # MaxInt
    BY StopConstants, Zenon DEF Resume, SameStop, CountsLeft
  <1> QED BY <1>1, <1>2, <1>3, MovedFacts, StoreStep, Zenon

\* acknowledge keeps the invariant.
LEMMA AcknowledgeStep ==
  ASSUME IInv, NEW c \in Callers, NEW peer \in Peers, NEW digest \in Digests,
         NEW at \in Times, Acknowledge(c, peer, digest, at)
  PROVE  IInv'
  <1> DEFINE k == tx[c].acks \cup
                    {[epoch |-> tx[c].row.epoch, peer |-> peer, digest |-> digest]}
  <1>1. tx[c].open /\ Fenced(c) /\ Store(c, Moved(tx[c].row, TRUE, at), k)
    BY Zenon DEF Acknowledge, Fenced
  <1>2. tx[c].row \in Rows /\ tx[c].acks \in Acks /\ Shaped(tx[c].row)
    BY <1>1, OpenFacts, Zenon DEF Knows
  <1>3. at \in Nat /\ at >= tx[c].row.updated /\ tx[c].row.engaged
        /\ tx[c].row.revision # MaxInt
    BY StopConstants, Zenon DEF Acknowledge, SameStop, CountsLeft
  <1>4. k \in Acks /\ tx[c].acks \subseteq k
    BY <1>2 DEF Acks, Rows
  <1> HIDE DEF k
  <1> QED BY <1>1, <1>2, <1>3, <1>4, MovedFacts, StoreStep, Zenon

-----------------------------------------------------------------------------
\* Letting something through that agrees with the view keeps the invariant.
LEMMA PassStep ==
  ASSUME IInv, NEW c \in Callers, Running(c),
         NEW op \in Operations \cup {Null}, NEW expected \in Epochs \cup {Null},
         Passed([op |-> op, expected |-> expected], tx[c].row, tx[c].binding),
         Pass(c, op, expected)
  PROVE  IInv'
  <1> DEFINE p == [op |-> op, expected |-> expected]
             v == [open |-> TRUE, wrote |-> tx[c].wrote, row |-> tx[c].row,
                   acks |-> tx[c].acks, binding |-> tx[c].binding,
                   passed |-> tx[c].passed \cup {p}]
  <1>1. tx[c].open /\ "row" \notin tx[c].wrote
    BY Zenon DEF Running
  <1>2. p \in Passes
    BY Zenon DEF Passes
  <1>3. v \in Transactions
    BY <1>1, <1>2, OpenFacts, Zenon DEF Transactions
  <1>4. Knows(tx[c], row, acks, binding)
    BY <1>1, OpenFacts, Zenon
  <1>5. Knows(v, row, acks, binding)
    BY <1>1, <1>4, Zenon DEF Knows
  <1>6. tx' = [tx EXCEPT ![c] = v] /\ UNCHANGED <<row, acks, binding, seen, executed>>
    BY Zenon DEF Pass
  <1> QED BY <1>1, <1>3, <1>5, <1>6, OpenFacts, ViewStep, Zenon

\* assert_running keeps the invariant.
LEMMA AssertRunningStep ==
  ASSUME IInv, NEW c \in Callers, NEW expected \in Epochs \cup {Null},
         AssertRunning(c, expected)
  PROVE  IInv'
  <1>1. Running(c) /\ Pass(c, Null, expected)
    BY Zenon DEF AssertRunning
  <1>2. Passed([op |-> Null, expected |-> expected], tx[c].row, tx[c].binding)
    BY Zenon DEF AssertRunning, Running, Passed
  <1> QED BY <1>1, <1>2, PassStep, Zenon

\* assert_operation keeps the invariant.
LEMMA AssertOperationStep ==
  ASSUME IInv, NEW c \in Callers, NEW o \in Operations, AssertOperation(c, o)
  PROVE  IInv'
  <1>1. Running(c) /\ Pass(c, o, BoundEpoch(tx[c].binding, o))
    BY Zenon DEF AssertOperation
  <1>2. BoundEpoch(tx[c].binding, o) \in Epochs \cup {Null}
    BY <1>1, OpenFacts, StopConstants DEF Running, BoundEpoch, Bindings, Epochs
  <1>3. Passed([op |-> o, expected |-> BoundEpoch(tx[c].binding, o)], tx[c].row,
               tx[c].binding)
    BY Zenon DEF AssertOperation, Running, Passed
  <1> QED BY <1>1, <1>2, <1>3, PassStep, Zenon

\* A binding is new: what was let through before it does not depend on it.
LEMMA BindOperationStep ==
  ASSUME IInv, NEW c \in Callers, NEW o \in Operations, BindOperation(c, o)
  PROVE  IInv'
  <1> DEFINE b == [tx[c].binding EXCEPT ![o] = tx[c].row.epoch]
             v == [open |-> TRUE, wrote |-> {"binding"}, row |-> tx[c].row,
                   acks |-> tx[c].acks, binding |-> b, passed |-> tx[c].passed]
  <1>1. tx[c].open /\ "row" \notin tx[c].wrote /\ o \notin Legacy /\ tx[c].binding[o] = Null
    BY Zenon DEF BindOperation, Running
  <1>2. b \in Bindings /\ \A q \in Operations : q # o => b[q] = tx[c].binding[q]
    BY <1>1, OpenFacts, Zenon DEF Bindings, Rows
  <1>3. v \in Transactions
    BY <1>1, <1>2, OpenFacts, Zenon DEF Transactions
  <1>4. Knows(tx[c], row, acks, binding)
    BY <1>1, OpenFacts, Zenon
  <1>5. ASSUME NEW p \in tx[c].passed PROVE Passed(p, tx[c].row, b)
    <2>1. Passed(p, tx[c].row, tx[c].binding)
      BY <1>4, Zenon DEF Knows
    <2>2. p.op \in Operations \cup {Null}
      BY <1>1, OpenFacts, Zenon DEF Passes
    <2>3. p.op # Null => p.op # o
      BY <1>1, <2>1, Zenon DEF Passed
    <2> QED BY <1>2, <2>1, <2>2, <2>3, Zenon DEF Passed, BoundEpoch
  <1>6. \A q \in Operations : binding[q] # Null => b[q] = binding[q]
    BY <1>1, <1>2, <1>4, Zenon DEF Knows
  <1>7. \A q \in Legacy : b[q] = Null
    BY <1>1, <1>2, <1>4, StopConstants, Zenon DEF Knows
  <1>8. Knows(v, row, acks, binding)
    BY <1>1, <1>4, <1>5, <1>6, <1>7, Zenon DEF Knows
  <1>9. tx' = [tx EXCEPT ![c] = v] /\ UNCHANGED <<row, acks, binding, seen, executed>>
    BY Zenon DEF BindOperation
  <1> QED BY <1>1, <1>3, <1>8, <1>9, OpenFacts, ViewStep, Zenon

\* A rollback keeps the invariant.
LEMMA RollbackStep == ASSUME IInv, NEW c \in Callers, Rollback(c) PROVE IInv'
  <1>1. Idle \in Transactions /\ ~Idle.open
    <2>1. Anchor \in Rows
      BY StopConstants DEF Anchor, Rows, Epochs
    <2>2. {} \in Acks /\ [o \in Operations |-> Null] \in Bindings
      BY Zenon DEF Acks, Bindings
    <2> QED BY <2>1, <2>2, Zenon DEF Idle, Transactions
  <1> QED BY <1>1, OpenFacts, ViewStep, Zenon DEF Rollback

-----------------------------------------------------------------------------
\* What a commit does to the tables.
LEMMA CommitFacts ==
  ASSUME IInv, NEW c \in Callers, Commit(c)
  PROVE  /\ row' \in Rows /\ Shaped(row') /\ acks' \in Acks /\ binding' \in Bindings
         /\ Follows(row', row)
         /\ acks \subseteq acks'
         /\ \A o \in Operations : binding[o] # Null => binding'[o] = binding[o]
         /\ \A o \in Legacy : binding'[o] = Null
         /\ \A p \in tx[c].passed : Passed(p, row', binding')
  <1>1. tx[c].open /\ Knows(tx[c], row, acks, binding)
    BY OpenFacts, Zenon DEF Commit
  <1>2. row \in Rows /\ Shaped(row) /\ acks \in Acks /\ binding \in Bindings
        /\ \A o \in Legacy : binding[o] = Null
    BY Zenon DEF IInv, TypeOK, LegacyUnbound
  <1>3. CASE "row" \in tx[c].wrote
    <2>1. row' = tx[c].row /\ acks' = tx[c].acks /\ binding' = binding /\ tx[c].passed = {}
      BY <1>1, <1>3, Zenon DEF Commit, Knows
    <2> QED BY <1>1, <1>2, <2>1, OpenFacts, Zenon DEF Knows
  <1>4. CASE "row" \notin tx[c].wrote
    <2>1. row' = row /\ acks' = acks /\ binding' = tx[c].binding /\ tx[c].row = row
      BY <1>1, <1>4, Zenon DEF Commit, Knows
    <2>2. Follows(row', row)
      BY <1>2, <2>1, FollowsSelf, Zenon
    <2> QED BY <1>1, <1>2, <2>1, <2>2, OpenFacts, Zenon DEF Knows
  <1> QED BY <1>3, <1>4, Zenon

\* A commit keeps the invariant: what the view knew becomes true of the tables.
LEMMA CommitStep == ASSUME IInv, NEW c \in Callers, Commit(c) PROVE IInv'
  <1>1. tx[c].open /\ tx[c].passed \in SUBSET Passes
    BY OpenFacts, Zenon DEF Commit
  <1>2. Idle \in Transactions /\ ~Idle.open
    BY StopConstants DEF Idle, Transactions, Anchor, Rows, Epochs, Acks, Bindings
  <1>3. tx' \in [Callers -> Transactions] /\ \A d \in Callers : ~tx'[d].open
    BY <1>1, <1>2, OpenFacts, Zenon DEF Commit, IInv, TypeOK
  <1>4. executed' \in SUBSET Executions
    <2>1. executed \in SUBSET Executions
      BY Zenon DEF IInv, TypeOK
    <2>2. row'.epoch \in Epochs /\ row'.engaged \in BOOLEAN
      BY CommitFacts, Zenon DEF Rows
    <2>3. ASSUME NEW p \in tx[c].passed
          PROVE  [op |-> p.op, expected |-> p.expected, epoch |-> row'.epoch,
                  engaged |-> row'.engaged] \in Executions
      BY <1>1, <2>2, Zenon DEF Executions, Passes
    <2> QED BY <2>1, <2>3, Zenon DEF Commit
  <1>5. TypeOK'
    BY <1>3, <1>4, CommitFacts, Zenon DEF TypeOK, Commit, IInv, Shaped
  <1>6. OneOpen' /\ Views' /\ LegacyUnbound'
    BY <1>3, CommitFacts, Zenon DEF OneOpen, Views, LegacyUnbound
  <1>7. ReadersBehind'
    <2> SUFFICES ASSUME NEW d \in Callers PROVE Follows(row', seen[d])
      BY Zenon DEF ReadersBehind, Commit
    <2>1. Follows(row, seen[d]) /\ row \in Rows /\ seen[d] \in Rows
      BY Zenon DEF IInv, ReadersBehind, TypeOK
    <2> QED BY <2>1, CommitFacts, FollowsTransitive, Zenon
  <1>8. Executed'
    <2> SUFFICES ASSUME NEW x \in executed'
                 PROVE  /\ ~x.engaged
                        /\ x.expected # Null => x.epoch = x.expected
                        /\ x.op # Null =>
                             /\ x.op \in Legacy \/ binding'[x.op] # Null
                             /\ x.epoch = BoundEpoch(binding', x.op)
      BY Zenon DEF Executed, BoundEpoch
    <2>1. CASE x \in executed
      <3>1. x.op \in Operations \cup {Null}
        BY <2>1, Zenon DEF IInv, TypeOK, Executions
      <3>2. /\ ~x.engaged
            /\ x.expected # Null => x.epoch = x.expected
            /\ x.op # Null =>
                 /\ x.op \in Legacy \/ binding[x.op] # Null
                 /\ x.epoch = BoundEpoch(binding, x.op)
        BY <2>1, Zenon DEF IInv, Executed
      <3>3. x.op \in Legacy => binding[x.op] = Null /\ binding'[x.op] = Null
        BY CommitFacts, Zenon DEF IInv, LegacyUnbound
      <3> QED BY <3>1, <3>2, <3>3, CommitFacts, Zenon DEF BoundEpoch
    <2>2. CASE x \notin executed
      <3>1. PICK p \in tx[c].passed :
              x = [op |-> p.op, expected |-> p.expected, epoch |-> row'.epoch,
                   engaged |-> row'.engaged]
        BY <2>2, Zenon DEF Commit
      <3>2. Passed(p, row', binding')
        BY CommitFacts, Zenon
      <3> QED BY <3>1, <3>2, Zenon DEF Passed
    <2> QED BY <2>1, <2>2, Zenon
  <1> QED BY <1>5, <1>6, <1>7, <1>8, Zenon DEF IInv

\* Every step keeps the invariant.
LEMMA NextIInv == IInv /\ [Next]_vars => IInv'
  <1> SUFFICES ASSUME IInv, [Next]_vars PROVE IInv'
    BY Zenon
  <1>1. CASE UNCHANGED vars
    BY <1>1, Zenon DEF vars, IInv, TypeOK, Shaped, OneOpen, Views, ReadersBehind, Executed,
                LegacyUnbound
  <1>2. CASE Next
    BY <1>2, GetStep, LockedStep, EngageStep, ResumeStep, AcknowledgeStep,
       AssertRunningStep, BindOperationStep, AssertOperationStep, CommitStep, RollbackStep, Zenon
       DEF Next
  <1> QED BY <1>1, <1>2, Zenon

\* The inductive invariant of the repository: what open transactions know, and what was
\* executed, under the row lock of _locked.
THEOREM Invariant == Spec => []IInv
  BY InitIInv, NextIInv, PTL DEF Spec

\* The rows of the tables and of every view have their types and the shape that the
\* constraint owner_stop_epoch_state demands, with counters that never overflow.
THEOREM TypeCorrect == Spec => []TypeOK
  BY Invariant, PTL DEF IInv

\* Nothing is let through while the stop is engaged or in another epoch than expected.
THEOREM EpochDiscipline == Spec => []ExecutedInItsEpoch
  <1>1. IInv => ExecutedInItsEpoch
    BY Zenon DEF IInv, Executed, ExecutedInItsEpoch
  <1> QED BY <1>1, Invariant, PTL

\* An operation bound before a stop is never executed after it.
THEOREM StopHolds == Spec => []StopIsForever
  <1>1. IInv => StopIsForever
    BY Zenon DEF IInv, Executed, StopIsForever
  <1> QED BY <1>1, Invariant, PTL

\* The revision that a caller holds is current only if its whole record is.
THEOREM RevisionFence == Spec => []RevisionNamesState
  <1>1. IInv => RevisionNamesState
    BY Zenon DEF IInv, ReadersBehind, Follows, RevisionNamesState
  <1> QED BY <1>1, Invariant, PTL

\* Every step but a commit leaves the tables alone.
LEMMA TablesStep ==
  ASSUME Next, ~(\E c \in Callers : Commit(c))
  PROVE  UNCHANGED <<row, acks, binding>>
  <1>1. ASSUME NEW c \in Callers, Get(c) \/ Locked(c) \/ Rollback(c)
        PROVE  UNCHANGED <<row, acks, binding>>
    BY <1>1, Zenon DEF Get, Locked, Rollback
  <1>2. ASSUME NEW c \in Callers, NEW reason \in Reasons, NEW at \in Times,
               Engage(c, reason, at)
        PROVE  UNCHANGED <<row, acks, binding>>
    BY <1>2, Zenon DEF Engage, Store
  <1>3. ASSUME NEW c \in Callers, NEW at \in Times, Resume(c, at)
        PROVE  UNCHANGED <<row, acks, binding>>
    BY <1>3, Zenon DEF Resume, Store
  <1>4. ASSUME NEW c \in Callers, NEW peer \in Peers, NEW digest \in Digests,
               NEW at \in Times, Acknowledge(c, peer, digest, at)
        PROVE  UNCHANGED <<row, acks, binding>>
    BY <1>4, Zenon DEF Acknowledge, Store
  <1>5. ASSUME NEW c \in Callers, NEW expected \in Epochs \cup {Null},
               AssertRunning(c, expected)
        PROVE  UNCHANGED <<row, acks, binding>>
    BY <1>5, Zenon DEF AssertRunning, Pass
  <1>6. ASSUME NEW c \in Callers, NEW o \in Operations, BindOperation(c, o)
        PROVE  UNCHANGED <<row, acks, binding>>
    BY <1>6, Zenon DEF BindOperation
  <1>7. ASSUME NEW c \in Callers, NEW o \in Operations, AssertOperation(c, o)
        PROVE  UNCHANGED <<row, acks, binding>>
    BY <1>7, Zenon DEF AssertOperation, Pass
  <1> QED BY <1>1, <1>2, <1>3, <1>4, <1>5, <1>6, <1>7, Zenon DEF Next

\* Receipts and bindings stay, and epochs, revisions and times do not go back.
THEOREM EvidenceKept == Spec => EvidenceStays
  <1> DEFINE Stays == /\ acks \subseteq acks'
                      /\ \A o \in Operations : binding[o] # Null => binding'[o] = binding[o]
                      /\ row.epoch <= row'.epoch
                      /\ row.revision <= row'.revision
                      /\ row.updated <= row'.updated
  <1>1. IInv /\ [Next]_vars => [Stays]_vars
    <2> SUFFICES ASSUME IInv, Next PROVE Stays
      BY Zenon
    <2>1. CASE \E c \in Callers : Commit(c)
      BY <2>1, CommitFacts, Zenon DEF Follows
    <2>2. CASE ~(\E c \in Callers : Commit(c))
      <3>1. Follows(row, row)
        BY FollowsSelf, Zenon DEF IInv, TypeOK
      <3> QED BY <2>2, <3>1, TablesStep, Zenon DEF Follows
    <2> QED BY <2>1, <2>2, Zenon
  <1> QED BY <1>1, Invariant, PTL DEF Spec, EvidenceStays

-----------------------------------------------------------------------------
\* The receipts and the revision of a row agree; for the tables and for every view.
Counts(r, k) ==
  /\ IsFiniteSet(k)
  /\ r.revision = 2 * r.epoch - (IF r.engaged THEN 1 ELSE 0) + Cardinality(k)
  /\ \A a, b \in k : a.epoch = b.epoch /\ a.peer = b.peer => a = b
  /\ \A e \in Epochs : Cardinality(Receipts(k, e)) <= MaxReceipts
  /\ \A a \in k : a.epoch \in 1 .. r.epoch

CountInv ==
  /\ Counts(row, acks)
  /\ \A c \in Callers : tx[c].open => Counts(tx[c].row, tx[c].acks)

\* The counts agree at first.
LEMMA InitCounts == Init => CountInv
  <1> SUFFICES ASSUME Init PROVE CountInv
    BY Zenon
  <1>1. IsFiniteSet({}) /\ Cardinality({}) = 0
    BY FS_EmptySet, Zenon
  <1>2. \A e \in Epochs : Receipts({}, e) = {}
    BY Zenon DEF Receipts
  <1>3. Anchor.revision = 0 /\ Anchor.epoch = 0 /\ Anchor.engaged = FALSE
    BY Zenon DEF Anchor
  <1>4. \A e \in Epochs : Cardinality(Receipts({}, e)) <= MaxReceipts
    BY <1>1, <1>2, StopConstants
  <1>5. Counts(Anchor, {})
    BY <1>1, <1>3, <1>4 DEF Counts
  <1> QED BY <1>5, Zenon DEF Init, CountInv, Idle

\* A step that replaces one view.
LEMMA CountView ==
  ASSUME IInv, CountInv, NEW c \in Callers, NEW v,
         tx' = [tx EXCEPT ![c] = v], UNCHANGED <<row, acks>>,
         v.open => Counts(v.row, v.acks)
  PROVE  CountInv'
  <1>1. \A d \in Callers : tx'[d] = IF d = c THEN v ELSE tx[d]
    BY Zenon DEF IInv, TypeOK
  <1> QED BY <1>1, Zenon DEF CountInv

\* A new receipt of the engaged epoch.
LEMMA CountReceipt ==
  ASSUME NEW r \in Rows, r.engaged, Shaped(r), NEW k \in Acks, Counts(r, k),
         NEW peer \in Peers, NEW digest \in Digests, NEW at \in Nat,
         \A a \in Receipts(k, r.epoch) : a.peer # peer,
         Cardinality(Receipts(k, r.epoch)) < MaxReceipts
  PROVE  Counts(Moved(r, TRUE, at),
                k \cup {[epoch |-> r.epoch, peer |-> peer, digest |-> digest]})
  <1> DEFINE x == [epoch |-> r.epoch, peer |-> peer, digest |-> digest]
             n == Moved(r, TRUE, at)
  <1>1. x \notin k /\ x.epoch = r.epoch /\ x.peer = peer
    BY DEF Receipts
  <1>2. n.epoch = r.epoch /\ n.revision = r.revision + 1 /\ n.engaged
    BY Zenon DEF Moved
  <1>3. r.epoch \in Nat /\ r.revision \in Nat /\ r.epoch >= 1 /\ r.epoch \in Epochs
    BY DEF Rows, Epochs, Shaped, Anchor
  <1> HIDE DEF x, n
  <1>4. IsFiniteSet(k) /\ Cardinality(k) \in Nat
    BY FS_CardinalityType, Zenon DEF Counts
  <1>5. IsFiniteSet(k \cup {x}) /\ Cardinality(k \cup {x}) = Cardinality(k) + 1
    BY <1>1, <1>4, FS_AddElement, Zenon
  <1>6. n.revision = 2 * n.epoch - (IF n.engaged THEN 1 ELSE 0) + Cardinality(k \cup {x})
    BY <1>2, <1>3, <1>4, <1>5 DEF Counts
  <1>7. \A a, b \in k \cup {x} : a.epoch = b.epoch /\ a.peer = b.peer => a = b
    BY <1>1, Zenon DEF Counts, Receipts
  <1>8. ASSUME NEW e \in Epochs PROVE Cardinality(Receipts(k \cup {x}, e)) <= MaxReceipts
    <2>1. Receipts(k, e) \subseteq k
      BY Zenon DEF Receipts
    <2>2. IsFiniteSet(Receipts(k, e)) /\ Cardinality(Receipts(k, e)) \in Nat
      BY <2>1, <1>4, FS_Subset, FS_CardinalityType, Zenon
    <2>3. CASE e = r.epoch
      <3>1. Receipts(k \cup {x}, e) = Receipts(k, e) \cup {x} /\ x \notin Receipts(k, e)
        BY <1>1, <2>3, Zenon DEF Receipts
      <3>2. Cardinality(Receipts(k, e) \cup {x}) = Cardinality(Receipts(k, e)) + 1
        BY <3>1, <2>2, FS_AddElement, Zenon
      <3>3. Cardinality(Receipts(k, e)) < MaxReceipts
        BY <2>3, Zenon
      <3>4. Cardinality(Receipts(k \cup {x}, e)) = Cardinality(Receipts(k, e)) + 1
        BY <3>1, <3>2, Zenon
      <3> QED BY <2>2, <3>3, <3>4, StopConstants
    <2>4. CASE e # r.epoch
      <3>1. Receipts(k \cup {x}, e) = Receipts(k, e)
        BY <1>1, <2>4, Zenon DEF Receipts
      <3> QED BY <3>1, Zenon DEF Counts
    <2> QED BY <2>3, <2>4, Zenon
  <1>9. \A a \in k \cup {x} : a.epoch \in 1 .. n.epoch
    BY <1>1, <1>2, <1>3 DEF Counts
  <1>10. Counts(n, k \cup {x})
    BY <1>5, <1>6, <1>7, <1>8, <1>9, Zenon DEF Counts
  <1> QED BY <1>10, Zenon DEF x, n

\* A transition of the row that leaves the receipts.
LEMMA CountRow ==
  ASSUME NEW r \in Rows, NEW k \in Acks, Counts(r, k), NEW n \in Rows,
         n.engaged = ~r.engaged, n.revision = r.revision + 1,
         n.epoch = IF r.engaged THEN r.epoch ELSE r.epoch + 1
  PROVE  Counts(n, k)
  <1>1. /\ r.epoch \in Nat /\ r.revision \in Nat /\ r.engaged \in BOOLEAN
        /\ n.epoch \in Nat /\ n.revision \in Nat /\ n.engaged \in BOOLEAN
    BY DEF Rows, Epochs
  <1>2. PICK m \in Nat : m = Cardinality(k)
    BY FS_CardinalityType, Zenon DEF Counts
  <1>3. r.revision = 2 * r.epoch - (IF r.engaged THEN 1 ELSE 0) + m
    BY <1>2, Zenon DEF Counts
  <1>4. n.revision = 2 * n.epoch - (IF n.engaged THEN 1 ELSE 0) + m
    <2>1. CASE r.engaged
      <3>1. r.revision = 2 * r.epoch - 1 + m
        BY <1>3, <2>1, Zenon
      <3>2. n.epoch = r.epoch /\ ~n.engaged
        BY <2>1, Zenon
      <3>3. n.revision = 2 * n.epoch + m
        BY <1>1, <3>1, <3>2
      <3> QED BY <1>1, <3>2, <3>3
    <2>2. CASE ~r.engaged
      <3>1. r.revision = 2 * r.epoch + m
        BY <1>1, <1>3, <2>2
      <3>2. n.epoch = r.epoch + 1 /\ n.engaged
        BY <2>2, Zenon
      <3>3. n.revision = 2 * n.epoch - 1 + m
        BY <1>1, <3>1, <3>2
      <3> QED BY <3>2, <3>3, Zenon
    <2> QED BY <2>1, <2>2, Zenon
  <1>5. \A a \in k : a.epoch \in 1 .. n.epoch
    BY <1>1 DEF Counts
  <1> QED BY <1>2, <1>4, <1>5, Zenon DEF Counts

\* engage keeps the counts.
LEMMA CountEngage ==
  ASSUME IInv, CountInv, NEW c \in Callers, NEW reason \in Reasons, NEW at \in Times,
         Engage(c, reason, at)
  PROVE  CountInv'
  <1> DEFINE r == [epoch |-> tx[c].row.epoch + 1, revision |-> tx[c].row.revision + 1,
                   engaged |-> TRUE, at |-> at, reason |-> reason, updated |-> at]
             v == [open |-> TRUE, wrote |-> {"row"}, row |-> r, acks |-> tx[c].acks,
                   binding |-> tx[c].binding, passed |-> {}]
  <1>1. tx[c].open /\ ~tx[c].row.engaged /\ Counts(tx[c].row, tx[c].acks)
    BY Zenon DEF Engage, Fenced, CountInv
  <1>2. r \in Rows
    <2>1. tx[c].row \in Rows
      BY <1>1, OpenFacts, Zenon
    <2>2. tx[c].row.epoch \in Epochs /\ tx[c].row.revision \in Epochs
      BY <2>1, Zenon DEF Rows
    <2>3. CountsLeft(tx[c].row.epoch) /\ CountsLeft(tx[c].row.revision)
      BY Zenon DEF Engage
    <2>4. tx[c].row.epoch + 1 \in Epochs /\ tx[c].row.revision + 1 \in Epochs
      BY <2>2, <2>3, StopConstants DEF CountsLeft, Epochs
    <2>5. at \in Nat
      BY StopConstants, Zenon
    <2> QED BY <2>4, <2>5, Zenon DEF Rows
  <1>3. Counts(r, tx[c].acks)
    BY <1>1, <1>2, OpenFacts, CountRow, Zenon
  <1>4. v \in Transactions
    BY <1>1, <1>2, OpenFacts, Zenon DEF Transactions
  <1>5. tx' = [tx EXCEPT ![c] = v] /\ UNCHANGED <<row, acks>>
    BY Zenon DEF Engage, Store
  <1> QED BY <1>3, <1>4, <1>5, CountView, Zenon

\* resume keeps the counts.
LEMMA CountResume ==
  ASSUME IInv, CountInv, NEW c \in Callers, NEW at \in Times, Resume(c, at)
  PROVE  CountInv'
  <1> DEFINE r == Moved(tx[c].row, FALSE, at)
             v == [open |-> TRUE, wrote |-> {"row"}, row |-> r, acks |-> tx[c].acks,
                   binding |-> tx[c].binding, passed |-> {}]
  <1>1. /\ tx[c].open /\ tx[c].row.engaged /\ Counts(tx[c].row, tx[c].acks)
        /\ at \in Nat /\ at >= tx[c].row.updated /\ tx[c].row.revision # MaxInt
    BY StopConstants, Zenon DEF Resume, Fenced, SameStop, CountsLeft, CountInv
  <1>2. Shaped(tx[c].row) /\ tx[c].row \in Rows /\ tx[c].acks \in Acks
    BY <1>1, OpenFacts, Zenon DEF Knows
  <1>3. r \in Rows /\ r.revision = tx[c].row.revision + 1
    BY <1>1, <1>2, MovedFacts, Zenon
  <1>4. r.epoch = tx[c].row.epoch /\ r.engaged = FALSE
    BY Zenon DEF Moved
  <1>5. tx' = [tx EXCEPT ![c] = v] /\ UNCHANGED <<row, acks>>
    BY Zenon DEF Resume, Store
  <1>6. v \in Transactions
    BY <1>1, <1>3, OpenFacts, Zenon DEF Transactions
  <1> HIDE DEF r
  <1>7. Counts(r, tx[c].acks)
    BY <1>1, <1>2, <1>3, <1>4, CountRow, Zenon
  <1> QED BY <1>5, <1>6, <1>7, CountView, Zenon

\* acknowledge keeps the counts.
LEMMA CountAcknowledge ==
  ASSUME IInv, CountInv, NEW c \in Callers, NEW peer \in Peers, NEW digest \in Digests,
         NEW at \in Times, Acknowledge(c, peer, digest, at)
  PROVE  CountInv'
  <1> DEFINE r == Moved(tx[c].row, TRUE, at)
             k == tx[c].acks \cup
                    {[epoch |-> tx[c].row.epoch, peer |-> peer, digest |-> digest]}
             v == [open |-> TRUE, wrote |-> {"row"}, row |-> r, acks |-> k,
                   binding |-> tx[c].binding, passed |-> {}]
  <1>1. /\ tx[c].open /\ tx[c].row.engaged /\ Counts(tx[c].row, tx[c].acks)
        /\ at \in Nat /\ at >= tx[c].row.updated /\ tx[c].row.revision # MaxInt
    BY StopConstants, Zenon DEF Acknowledge, Fenced, SameStop, CountsLeft, CountInv
  <1>2. Shaped(tx[c].row) /\ tx[c].row \in Rows /\ tx[c].acks \in Acks
    BY <1>1, OpenFacts, Zenon DEF Knows
  <1>3. r \in Rows
    BY <1>1, <1>2, MovedFacts, Zenon
  <1>4. k \in Acks
    BY <1>2 DEF Acks, Rows
  <1>5. /\ \A a \in Receipts(tx[c].acks, tx[c].row.epoch) : a.peer # peer
        /\ Cardinality(Receipts(tx[c].acks, tx[c].row.epoch)) < MaxReceipts
    BY Zenon DEF Acknowledge, Unacknowledged
  <1>6. Counts(r, k)
    BY <1>1, <1>2, <1>5, CountReceipt, Zenon
  <1>7. tx' = [tx EXCEPT ![c] = v] /\ UNCHANGED <<row, acks>>
    BY Zenon DEF Acknowledge, Store
  <1> HIDE DEF r, k
  <1>8. v \in Transactions
    BY <1>1, <1>3, <1>4, OpenFacts, Zenon DEF Transactions
  <1> QED BY <1>6, <1>7, <1>8, CountView, Zenon

\* The other calls leave the row and the receipts of every view.
LEMMA CountOthers ==
  ASSUME IInv, CountInv, NEW c \in Callers,
         \/ Get(c) \/ Locked(c) \/ Rollback(c) \/ Commit(c)
         \/ \E o \in Operations : BindOperation(c, o) \/ AssertOperation(c, o)
         \/ \E expected \in Epochs \cup {Null} : AssertRunning(c, expected)
  PROVE  CountInv'
  <1> USE DEF IInv, TypeOK
  <1>1. CASE Get(c)
    BY <1>1, Zenon DEF Get, CountInv
  <1>2. CASE Locked(c)
    BY <1>2, Zenon DEF Locked, CountInv
  <1>3. CASE Rollback(c)
    BY <1>3, Zenon DEF Rollback, CountInv, Idle
  <1>4. CASE Commit(c)
    BY <1>4, Zenon DEF Commit, CountInv, Idle
  <1>5. CASE \E o \in Operations : BindOperation(c, o)
    <2>1. PICK o \in Operations : BindOperation(c, o)
      BY <1>5, Zenon
    <2> DEFINE v == [open |-> TRUE, wrote |-> {"binding"}, row |-> tx[c].row,
                     acks |-> tx[c].acks,
                     binding |-> [tx[c].binding EXCEPT ![o] = tx[c].row.epoch],
                     passed |-> tx[c].passed]
    <2>2. tx' = [tx EXCEPT ![c] = v] /\ UNCHANGED <<row, acks>>
      BY <2>1, Zenon DEF BindOperation
    <2>3. Counts(tx[c].row, tx[c].acks)
      BY <2>1, Zenon DEF BindOperation, Running, CountInv
    <2>4. v.row = tx[c].row /\ v.acks = tx[c].acks
      BY Zenon
    <2> HIDE DEF v
    <2> QED BY <2>2, <2>3, <2>4, CountView, Zenon
  <1>6. ASSUME NEW op, NEW expected, Pass(c, op, expected), Running(c)
        PROVE  CountInv'
    <2> DEFINE v == [open |-> TRUE, wrote |-> tx[c].wrote, row |-> tx[c].row,
                     acks |-> tx[c].acks, binding |-> tx[c].binding,
                     passed |-> tx[c].passed \cup {[op |-> op, expected |-> expected]}]
    <2>1. tx' = [tx EXCEPT ![c] = v] /\ UNCHANGED <<row, acks>>
      BY <1>6, Zenon DEF Pass
    <2>2. Counts(tx[c].row, tx[c].acks)
      BY <1>6, Zenon DEF Running, CountInv
    <2>3. v.row = tx[c].row /\ v.acks = tx[c].acks
      BY Zenon
    <2> HIDE DEF v
    <2> QED BY <2>1, <2>2, <2>3, CountView, Zenon
  <1>7. CASE \E o \in Operations : AssertOperation(c, o)
    BY <1>6, <1>7, Zenon DEF AssertOperation
  <1>8. CASE \E expected \in Epochs \cup {Null} : AssertRunning(c, expected)
    BY <1>6, <1>8, Zenon DEF AssertRunning
  <1> QED BY <1>1, <1>2, <1>3, <1>4, <1>5, <1>7, <1>8, Zenon

\* Every step keeps the counts.
LEMMA NextCounts == IInv /\ CountInv /\ [Next]_vars => CountInv'
  <1> SUFFICES ASSUME IInv, CountInv, [Next]_vars PROVE CountInv'
    BY Zenon
  <1>1. CASE UNCHANGED vars
    BY <1>1, Zenon DEF vars, CountInv
  <1>2. CASE Next
    BY <1>2, CountEngage, CountResume, CountAcknowledge, CountOthers, Zenon DEF Next
  <1> QED BY <1>1, <1>2, Zenon

\* The counts agree in the tables and in every view.
LEMMA CountInvariant == Spec => []CountInv
  BY InitCounts, NextCounts, Invariant, PTL DEF Spec

\* The revision is the number of engagements, resumptions and receipts.
THEOREM RevisionsExact == Spec => []RevisionCounts
  <1>1. CountInv => RevisionCounts
    BY Zenon DEF CountInv, Counts, RevisionCounts
  <1> QED BY <1>1, CountInvariant, PTL

\* One receipt of a peer for an epoch, within the bound, for epochs that were engaged.
THEOREM ReceiptsKept == Spec => []ReceiptsSound
  <1>1. CountInv => ReceiptsSound
    BY Zenon DEF CountInv, Counts, ReceiptsSound
  <1> QED BY <1>1, CountInvariant, PTL

=============================================================================
