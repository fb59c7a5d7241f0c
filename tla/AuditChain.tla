----------------------------- MODULE AuditChain -----------------------------
(***************************************************************************)
(* The audit chain of one actor (repositories/audit.py) and the retention  *)
(* anchors under which its prefix is deleted (audit_retention.py).         *)
(* Appends and prunes run under the chain's advisory lock, one whole       *)
(* transaction at a time; verifiers take no lock and read the rows and the *)
(* anchor in two statements, so either may change in between.  Storage may *)
(* damage a row.                                                           *)
(*                                                                         *)
(* A digest is the sequence of everything it covers, which is to say that  *)
(* digests do not collide and keys are not lost.                           *)
(***************************************************************************)
EXTENDS Integers, Sequences, FiniteSets

CONSTANTS Events,       \* events hosts append, each possibly again
          Verifiers,
          MaxSequence, MaxDamage, Null

VARIABLES
    rows,      \* audit_events: a set of records
    anchors,   \* audit_retention_anchor: first retained sequence -> previous digest
    log,       \* every event ever appended, in order
    damaged,   \* how often storage failed
    loaded,    \* the rows a verifier has loaded
    verdict    \* what each verifier reported of the rows it had loaded

vars == <<rows, anchors, log, damaged, loaded, verdict>>

-----------------------------------------------------------------------------

Genesis == <<>>

\* The digest of an entry: over the previous digest, the event and its sequence.
\* An event is its identity and whether its content is what was appended.
Digest(previous, event, sequence) == Append(previous, <<event, sequence>>)

Row(s) == CHOOSE r \in rows : r.seq = s
Present(s) == \E r \in rows : r.seq = s

\* load_chain: the rows in the order of their sequence.
InOrder(found) ==
    [n \in 1 .. Cardinality(found) |->
        CHOOSE r \in found : Cardinality({q \in found : q.seq <= r.seq}) = n]

TypeOK ==
    /\ \A r \in rows : r.seq \in 1 .. MaxSequence /\ r.event \in [id: Events, whole: BOOLEAN]
    /\ DOMAIN anchors \subseteq 2 .. MaxSequence
    /\ Len(log) <= MaxSequence
    /\ damaged \in 0 .. MaxDamage

Init ==
    /\ rows = {}
    /\ anchors = <<>>
    /\ log = <<>>
    /\ damaged = 0
    /\ loaded = [v \in Verifiers |-> Null]
    /\ verdict = [v \in Verifiers |-> Null]

-----------------------------------------------------------------------------

Last == CHOOSE r \in rows : \A q \in rows : q.seq <= r.seq

\* An event that is still in the chain is a replay, or a conflict, and
\* changes nothing.
AppendEvent(e) ==
    LET event == [id |-> e, whole |-> TRUE]
        seq == IF rows = {} THEN 1 ELSE Last.seq + 1
        previous == IF rows = {} THEN Genesis ELSE Last.digest
    IN  /\ \A r \in rows : r.event.id # e
        /\ seq <= MaxSequence
        /\ rows' = rows \union {[seq |-> seq, event |-> event, prev |-> previous,
                                 digest |-> Digest(previous, event, seq)]}
        /\ log' = Append(log, e)
        /\ UNCHANGED <<anchors, damaged, loaded, verdict>>

\* Mutant: the first event to be retained is deleted with the prefix.
WithBoundary(k) == {r \in rows : r.seq > k}

Retained(k) == {r \in rows : r.seq >= k}

\* prune_prefix: with the event before the boundary gone already it can only
\* repeat an earlier prune, which changes nothing.
PrunePrefix(k) ==
    /\ Present(k)
    /\ Present(k - 1)
    /\ Row(k).prev = Row(k - 1).digest
    /\ (k \in DOMAIN anchors) => anchors[k] = Row(k - 1).digest
    /\ anchors' = [s \in DOMAIN anchors \union {k} |->
                     IF s = k THEN Row(k - 1).digest ELSE anchors[s]]
    /\ rows' = Retained(k)
    /\ UNCHANGED <<log, damaged, loaded, verdict>>

\* Storage alters or loses a row.  The loss of the last rows is left out: no
\* chain can show it by itself.
Damage(r) ==
    /\ damaged < MaxDamage
    /\ damaged' = damaged + 1
    /\ \/ rows' = (rows \ {r}) \union {[r EXCEPT !.event.whole = FALSE]}
       \/ r # Last /\ rows' = rows \ {r}
    /\ UNCHANGED <<anchors, log, loaded, verdict>>

-----------------------------------------------------------------------------

\* verify_records: the sequence of the first row that does not fit, or 0.
FirstInvalid(records, start, previous) ==
    LET Expected(n) == IF n = 1 THEN previous ELSE records[n - 1].digest
        Fits(n) == /\ records[n].seq = start + n - 1
                   /\ records[n].prev = Expected(n)
                   /\ records[n].digest = Digest(Expected(n), records[n].event, records[n].seq)
        bad == {n \in 1 .. Len(records) : ~Fits(n)}
    IN  IF bad = {} THEN 0
        ELSE records[CHOOSE n \in bad : \A m \in bad : n <= m].seq

\* The checks of verify_retained_chain before the rows themselves.
Anchored(first) ==
    /\ first.seq \in DOMAIN anchors
    /\ anchors[first.seq] = first.prev

LoadChain(v) ==
    /\ loaded[v] = Null
    /\ loaded' = [loaded EXCEPT ![v] = InOrder(rows)]
    /\ verdict' = [verdict EXCEPT ![v] = Null]
    /\ UNCHANGED <<rows, anchors, log, damaged>>

VerifyRetainedChain(v) ==
    /\ loaded[v] # Null
    /\ LET records == loaded[v]
           bad == IF records = <<>> THEN 0
                  ELSE IF records[1].seq = 1 THEN FirstInvalid(records, 1, Genesis)
                  ELSE IF ~Anchored(records[1]) THEN records[1].seq
                  ELSE FirstInvalid(records, records[1].seq, anchors[records[1].seq])
       IN  verdict' = [verdict EXCEPT ![v] = [records |-> records, bad |-> bad]]
    /\ loaded' = [loaded EXCEPT ![v] = Null]
    /\ UNCHANGED <<rows, anchors, log, damaged>>

-----------------------------------------------------------------------------

Next ==
    \/ \E e \in Events : AppendEvent(e)
    \/ \E k \in 2 .. MaxSequence : PrunePrefix(k)
    \/ \E r \in rows : Damage(r)
    \/ \E v \in Verifiers : LoadChain(v) \/ VerifyRetainedChain(v)

Spec == Init /\ [][Next]_vars

-----------------------------------------------------------------------------

\* Whatever was pruned, the chain goes on where it was: the last row carries
\* the number of events ever appended, sequences are never given twice, and
\* every row that storage left alone is the event appended at its sequence.
ChainContinues ==
    /\ rows # {} => Last.seq = Len(log)
    /\ (rows = {}) = (log = <<>>)
    /\ \A r, q \in rows : r.seq = q.seq => r = q
    /\ \A r \in rows : r.event.id = log[r.seq]

\* An event is in the chain at most once at a time, however often it is
\* delivered.
RecordedOnce ==
    \A r, q \in rows : r.event.id = q.event.id => r = q

\* A verifier calls a chain valid only when the rows it loaded are the events
\* that were appended, without a gap from the first one on, and always when
\* storage damaged nothing, whatever appends and prunes committed between its
\* two reads; the row it names is not behind the first damage it loaded.
VerdictExact ==
    \A v \in Verifiers : verdict[v] # Null =>
        LET records == verdict[v].records
            wrong == {n \in 1 .. Len(records) :
                        \/ records[n].event # [id |-> log[records[n].seq], whole |-> TRUE]
                        \/ records[n].seq # records[1].seq + n - 1}
        IN  /\ verdict[v].bad = 0 => wrong = {}
            /\ damaged = 0 => verdict[v].bad = 0
            /\ (verdict[v].bad # 0 /\ wrong # {}) =>
                  \A n \in wrong : verdict[v].bad <= records[n].seq

\* The first retained row is joined to what was deleted before it.
PrefixAnchored ==
    (damaged = 0 /\ rows # {}) =>
        LET first == CHOOSE r \in rows : \A q \in rows : r.seq <= q.seq
        IN  first.seq = 1 \/ Anchored(first)

\* Anchors are never changed, and a row is only ever deleted as part of a
\* prefix (or by storage).
AnchorsStay ==
    /\ \A k \in DOMAIN anchors : k \in DOMAIN anchors' /\ anchors'[k] = anchors[k]
    /\ (damaged' = damaged) =>
          \A r \in rows \ rows' : \A q \in rows' : r.seq < q.seq

ChainSound == TypeOK /\ ChainContinues /\ RecordedOnce /\ VerdictExact /\ PrefixAnchored
=============================================================================
