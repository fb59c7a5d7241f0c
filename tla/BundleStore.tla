----------------------------- MODULE BundleStore -----------------------------
(***************************************************************************)
(* ImmutableBundleStore (immutable_bundle_store.py): bundles are staged,   *)
(* flushed, validated and renamed into a revision namespace, and put aside *)
(* in quarantine, with power lost or the process killed at any step.       *)
(*                                                                         *)
(* An operation holds the lock of the root from its first to its last step *)
(* and `op' is what it is about to do.  `now' is what the paths show and   *)
(* `safe' what survives the loss of power: a rename is undone or kept as a *)
(* whole, and the flush of either directory keeps it.  An operation that   *)
(* raises without having changed anything is no step.                      *)
(***************************************************************************)
EXTENDS Integers, Sequences, FiniteSets

CONSTANTS
  Keys,        \* publications
  RevisionOf,  \* the revision that a publication is for
  BundleOf,    \* the bytes it publishes
  Intruders,   \* what another program may leave at a path: "foreign" or a bundle
  MaxNodes,    \* bound: directories that are ever made
  MaxLosses,   \* bound: losses of power
  Null

VARIABLES
  now, safe,   \* path to node, as seen and as kept
  node,        \* [data, kept]: contents of a directory, as seen and as kept
  op,          \* the operation that holds the lock
  staged,      \* receipts that stage returned
  published,   \* receipts that publish, promote_staged and recover returned
  withdrawn,   \* nodes that the host asked to quarantine
  losses

vars == <<now, safe, node, op, staged, published, withdrawn, losses>>

Bundles == {BundleOf[k] : k \in Keys}
Staging(k) == <<"staging", k>>
Revision(k) == <<"revision", RevisionOf[k]>>
Quarantine(k) == <<"quarantine", k>>
Paths == {Staging(k) : k \in Keys} \cup {Revision(k) : k \in Keys} \cup {Quarantine(k) : k \in Keys}

Init ==
  /\ now = [p \in Paths |-> Null] /\ safe = now
  /\ node = <<>> /\ op = Null
  /\ staged = {} /\ published = {} /\ withdrawn = {} /\ losses = 0

-----------------------------------------------------------------------------
(* The file system. *)

\* Contents that are flushed.
Settled(data) == [data |-> data, kept |-> data]

Exists(p) == now[p] # Null
Data(p) == node[now[p]].data

\* load: exactly the expected files and manifest are there.
Holds(p, b) == Exists(p) /\ Data(p) = b

\* A directory that is a whole bundle, the expected one or another.
IsBundle(p) == Data(p) \in Bundles

\* What is kept once the paths ps of the view n are flushed: a rename is kept at both of
\* its ends, and with the renames that made room for it.
Flushed(n, ps) ==
  LET changed == {p \in Paths : n[p] # safe[p]}
      linked(p, q) == \/ safe[q] # Null /\ n[p] = safe[q]
                      \/ n[q] # Null /\ safe[p] = n[q]
      kept[i \in 0 .. Cardinality(changed)] ==
        IF i = 0 THEN ps \cap changed
        ELSE LET before == kept[i - 1]
             IN  before \cup {q \in changed : \E p \in before : linked(p, q)}
      all == kept[Cardinality(changed)]
  IN  [p \in Paths |-> IF p \in all THEN n[p] ELSE safe[p]]

\* A directory is flushed, then the one that it is in.
Durable(p) ==
  /\ node' = [node EXCEPT ![now[p]] = Settled(@.data)]
  /\ safe' = Flushed(now, {p})

\* One rename that never replaces its destination.
Moved(p, q) == [now EXCEPT ![p] = Null, ![q] = now[p]]

Receipt(k, id) == [key |-> k, bundle |-> BundleOf[k], id |-> id]

Goes(pc) == op' = [op EXCEPT !.pc = pc]
Starts(call, k, id, pc) == op = Null /\ op' = [call |-> call, key |-> k, id |-> id, pc |-> pc]

-----------------------------------------------------------------------------
(* stage, and the first half of publish. *)

\* A new directory, after the remains of an earlier attempt are removed.
Create(call, k) ==
  /\ Len(node) < MaxNodes
  /\ Starts(call, k, Len(node) + 1, "write")
  /\ node' = Append(node, Settled("partial"))
  /\ now' = [now EXCEPT ![Staging(k)] = Len(node) + 1]
  /\ safe' = Flushed([now EXCEPT ![Staging(k)] = Len(node) + 1], {Staging(k)})
  /\ UNCHANGED <<staged, published, withdrawn, losses>>

\* stage leaves what it finds alone; publish replaces what is not a bundle.
Stage(call, k) ==
  /\ ~Exists(Revision(k))
  /\ IF Holds(Staging(k), BundleOf[k])
     THEN /\ Starts(call, k, now[Staging(k)], "sync")
          /\ UNCHANGED <<now, safe, node, staged, published, withdrawn, losses>>
     ELSE /\ Exists(Staging(k)) => call = "publish" /\ Data(Staging(k)) = "partial"
          /\ Create(call, k)

\* The last file is written: its bytes are flushed, the directory is not yet.
Write ==
  /\ op # Null /\ op.pc = "write"
  /\ node' = [node EXCEPT ![op.id].data = BundleOf[op.key]]
  /\ Goes("sync")
  /\ UNCHANGED <<now, safe, staged, published, withdrawn, losses>>

\* Mutant: the staging directory is not flushed.
SyncStagingParent ==
  /\ op # Null /\ op.pc = "sync"
  /\ safe' = Flushed(now, {Staging(op.key)}) /\ Goes("staged")
  /\ UNCHANGED <<now, node, staged, published, withdrawn, losses>>

SyncStaging ==
  /\ op # Null /\ op.pc = "sync"
  /\ Durable(Staging(op.key)) /\ Goes("staged")
  /\ UNCHANGED <<now, staged, published, withdrawn, losses>>

Staged ==
  /\ op # Null /\ op.pc = "staged"
  /\ now[Staging(op.key)] = op.id /\ Holds(Staging(op.key), BundleOf[op.key])
  /\ IF op.call = "stage" THEN staged' = staged \cup {Receipt(op.key, op.id)} /\ op' = Null
                          ELSE Goes("replace") /\ UNCHANGED staged
  /\ UNCHANGED <<now, safe, node, published, withdrawn, losses>>

-----------------------------------------------------------------------------
(* promote_staged, and the second half of publish and recover. *)

\* The revision is there: publish, promote_staged and recover flush it again.
AlreadyThere(call, k) ==
  /\ Holds(Revision(k), BundleOf[k])
  /\ Starts(call, k, now[Revision(k)], "reflush")
  /\ UNCHANGED <<now, safe, node, staged, published, withdrawn, losses>>

Promote(r) ==
  \/ ~Exists(Staging(r.key)) /\ AlreadyThere("promote", r.key)
  \/ /\ now[Staging(r.key)] = r.id /\ Holds(Staging(r.key), r.bundle)
     /\ Starts("promote", r.key, r.id, "replace")
     /\ UNCHANGED <<now, safe, node, staged, published, withdrawn, losses>>

\* An entry that appears before the rename is found by the rename.
Replace ==
  /\ op # Null /\ op.pc = "replace"
  /\ now[Staging(op.key)] = op.id
  /\ IF Exists(Revision(op.key))
     THEN /\ Holds(Revision(op.key), BundleOf[op.key])
          /\ Durable(Revision(op.key)) /\ Goes("clean") /\ UNCHANGED now
     ELSE /\ now' = Moved(Staging(op.key), Revision(op.key))
          /\ Goes("flush") /\ UNCHANGED <<safe, node>>
  /\ UNCHANGED <<staged, published, withdrawn, losses>>

\* The staging of a bundle that is published already is taken away.
Clean ==
  /\ op # Null /\ op.pc = "clean"
  /\ node' = [node EXCEPT ![op.id] = Settled("partial")]
  /\ Goes("cleaned")
  /\ UNCHANGED <<now, safe, staged, published, withdrawn, losses>>

Cleaned ==
  /\ op # Null /\ op.pc = "cleaned"
  /\ now' = [now EXCEPT ![Staging(op.key)] = Null]
  /\ safe' = Flushed([now EXCEPT ![Staging(op.key)] = Null], {Staging(op.key)})
  /\ published' = published \cup {Receipt(op.key, now[Revision(op.key)])} /\ op' = Null
  /\ UNCHANGED <<node, staged, withdrawn, losses>>

Flush ==
  /\ op # Null /\ op.pc = "flush"
  /\ Durable(Revision(op.key)) /\ Goes("verify")
  /\ UNCHANGED <<now, staged, published, withdrawn, losses>>

Reflush ==
  /\ op # Null /\ op.pc = "reflush"
  /\ Durable(Revision(op.key))
  /\ published' = published \cup {Receipt(op.key, op.id)} /\ op' = Null
  /\ UNCHANGED <<now, staged, withdrawn, losses>>

Verify ==
  /\ op # Null /\ op.pc = "verify"
  /\ now[Revision(op.key)] = op.id /\ Holds(Revision(op.key), BundleOf[op.key])
  /\ published' = published \cup {Receipt(op.key, op.id)} /\ op' = Null
  /\ UNCHANGED <<now, safe, node, staged, withdrawn, losses>>

-----------------------------------------------------------------------------
(* Quarantine. *)

\* The exact entry is renamed out of the way; the destination must be free.
PutAside(p, k) ==
  /\ ~Exists(Quarantine(k))
  /\ now' = Moved(p, Quarantine(k))

\* The revision could not be flushed or read back: it is taken back.
Withdraw ==
  /\ op # Null /\ op.pc = "withdraw"
  /\ now[Revision(op.key)] = op.id /\ PutAside(Revision(op.key), op.key)
  /\ Goes("aside")
  /\ UNCHANGED <<safe, node, staged, published, withdrawn, losses>>

Aside ==
  /\ op # Null /\ op.pc = "aside"
  /\ Durable(Quarantine(op.key)) /\ op' = Null
  /\ UNCHANGED <<now, staged, published, withdrawn, losses>>

QuarantineStaged(r) ==
  /\ IF Exists(Staging(r.key))
     THEN /\ now[Staging(r.key)] = r.id /\ Holds(Staging(r.key), r.bundle)
          /\ PutAside(Staging(r.key), r.key)
     ELSE now[Quarantine(r.key)] = r.id /\ UNCHANGED now
  /\ Starts("quarantine", r.key, r.id, "aside")
  /\ UNCHANGED <<safe, node, staged, published, withdrawn, losses>>

QuarantineReceipt(r) ==
  /\ IF ~Exists(Revision(r.key)) /\ now[Quarantine(r.key)] = r.id
     THEN UNCHANGED now
     ELSE /\ now[Revision(r.key)] = r.id /\ Holds(Revision(r.key), r.bundle)
          /\ PutAside(Revision(r.key), r.key)
  /\ withdrawn' = withdrawn \cup {r.id}
  /\ Starts("quarantine", r.key, r.id, "aside")
  /\ UNCHANGED <<safe, node, staged, published, losses>>

-----------------------------------------------------------------------------
(* recover, after a restart. *)

\* An exact staging is promoted; what is no bundle is put aside; the rest is kept.
RecoverStaging(k) ==
  /\ ~Exists(Revision(k)) /\ Exists(Staging(k)) /\ ~Exists(Quarantine(k))
  /\ \/ /\ Holds(Staging(k), BundleOf[k])
        /\ Starts("recover", k, now[Staging(k)], "replace") /\ UNCHANGED now
     \/ /\ ~IsBundle(Staging(k))
        /\ PutAside(Staging(k), k) /\ Starts("recover", k, now[Staging(k)], "aside")
  /\ UNCHANGED <<safe, node, staged, published, withdrawn, losses>>

\* Exact bytes that an earlier recovery put aside are flushed again.
RecoverQuarantine(k) ==
  /\ ~Exists(Revision(k)) /\ ~Exists(Staging(k)) /\ Holds(Quarantine(k), BundleOf[k])
  /\ Starts("recover", k, now[Quarantine(k)], "aside")
  /\ UNCHANGED <<now, safe, node, staged, published, withdrawn, losses>>

Recover(k) == AlreadyThere("recover", k) \/ RecoverStaging(k) \/ RecoverQuarantine(k)

-----------------------------------------------------------------------------
(* Failures. *)

\* A fence, a cancellation or an input/output error; or the process is killed.
\* After the rename an error takes the revision back.
Raise ==
  /\ op # Null
  /\ op' = IF op.pc \in {"flush", "verify"} THEN [op EXCEPT !.pc = "withdraw"] ELSE Null
  /\ UNCHANGED <<now, safe, node, staged, published, withdrawn, losses>>

Kill == op # Null /\ op' = Null /\ UNCHANGED <<now, safe, node, staged, published, withdrawn, losses>>

\* Of what was not flushed, any part may have reached the disk.
PowerLoss ==
  /\ losses < MaxLosses /\ losses' = losses + 1 /\ op' = Null
  /\ \E ps \in SUBSET {p \in Paths : now[p] # safe[p]} :
       now' = Flushed(now, ps) /\ safe' = now'
  /\ \E ids \in SUBSET {i \in DOMAIN node : node[i].data # node[i].kept} :
       node' = [i \in DOMAIN node |-> Settled(IF i \in ids THEN node[i].data ELSE node[i].kept)]
  /\ UNCHANGED <<staged, published, withdrawn>>

\* Another program leaves something at a free path.
Intrude(p, what) ==
  /\ ~Exists(p) /\ Len(node) < MaxNodes
  /\ node' = Append(node, Settled(what))
  /\ now' = [now EXCEPT ![p] = Len(node) + 1]
  /\ safe' = Flushed([now EXCEPT ![p] = Len(node) + 1], {p})
  /\ UNCHANGED <<op, staged, published, withdrawn, losses>>

Next ==
  \/ \E k \in Keys : \/ \E call \in {"stage", "publish"} : Stage(call, k)
                     \/ AlreadyThere("publish", k) \/ Recover(k)
  \/ Write \/ SyncStaging \/ Staged \/ Replace \/ Clean \/ Cleaned
  \/ Flush \/ Reflush \/ Verify \/ Withdraw \/ Aside
  \/ \E r \in staged : Promote(r) \/ QuarantineStaged(r)
  \/ \E r \in published : QuarantineReceipt(r)
  \/ Raise \/ Kill \/ PowerLoss
  \/ \E p \in Paths, what \in Intruders : Intrude(p, what)

Spec == Init /\ [][Next]_vars

-----------------------------------------------------------------------------
(* Properties. *)

Whole(id, b) == node[id] = Settled(b)

\* What shows at a revision path is a whole bundle for its publications (or was
\* put there by someone else), wherever a writer was stopped.  Only the loss of power
\* may leave less: recover promotes a staging that its writer had not flushed yet.
RevisionsWhole ==
  \A k \in Keys : Exists(Revision(k)) =>
    \/ Data(Revision(k)) \in Intruders \cup {BundleOf[j] : j \in {j \in Keys : RevisionOf[j] = RevisionOf[k]}}
    \/ losses > 0 /\ now[Revision(k)] \notin {r.id : r \in staged \cup published}

\* A bundle that was reported as published is at its path, and stays there without
\* power, until the host takes exactly it back.
PublishedStays ==
  \A r \in published : r.id \notin withdrawn =>
    now[Revision(r.key)] = r.id /\ safe[Revision(r.key)] = r.id /\ Whole(r.id, r.bundle)

\* The bytes of a receipt are never lost: some entry that survives holds them.
BytesKept ==
  \A r \in staged \cup published : \E p \in Paths : safe[p] # Null /\ node[safe[p]].kept = r.bundle

StoreSound == RevisionsWhole /\ PublishedStays /\ BytesKept

\* An entry leaves a revision path only for quarantine, and quarantine never:
\* nothing is replaced in place (a loss of power may undo what was not flushed).
StoreKept ==
  losses' = losses =>
    \A k \in Keys :
      /\ Exists(Quarantine(k)) => now'[Quarantine(k)] = now[Quarantine(k)]
      /\ Exists(Revision(k)) =>
           \/ now'[Revision(k)] = now[Revision(k)] /\ node'[now[Revision(k)]].data = Data(Revision(k))
           \/ now'[Revision(k)] = Null
                /\ \E j \in Keys : ~Exists(Quarantine(j)) /\ now'[Quarantine(j)] = now[Revision(k)]

=============================================================================
