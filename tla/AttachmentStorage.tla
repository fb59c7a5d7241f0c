------------------------- MODULE AttachmentStorage -------------------------
(***************************************************************************)
(* Attachments of one owner: their rows and upload leases                  *)
(* (repositories/artifacts.py), the files the uploads stage and publish    *)
(* (blob_store.py), and the durable purge that takes files away again      *)
(* (purge.py).  Rows and tombstones are in PostgreSQL, files are not: each *)
(* statement is atomic, a transaction that touches files is not, and       *)
(* anybody may die between two steps.                                      *)
(*                                                                         *)
(* Files of the owner are touched only under the owner exclusion, here the *)
(* single variable excl; OwnerExclusion has the protocol behind it.        *)
(* Writers upload, purgers run tombstones, readers stream blobs.           *)
(***************************************************************************)
EXTENDS Integers, FiniteSets, FiniteSetsExt

CONSTANTS
  Attachments, Legacy,   \* attachment ids; ids of migrated exact-key tombstones
  Writers, Purgers, Readers,
  LeaseOf,               \* [Writers -> lease ids]: a repeated call has the same one
  Contents, Evidence,    \* digests of uploads; digests of operator attestations
  Null,
  SweepLimit,            \* limit of one recovery sweep
  MaxVersion,            \* bound on lease renewals
  MaxFailures,           \* bound on I/O and commit failures
  MaxCrashes

StorageConstants ==
  /\ "namespace" \notin Attachments \cup Legacy
  /\ Attachments \cap Legacy = {}
  /\ DOMAIN LeaseOf = Writers
  /\ SweepLimit \in Nat \ {0}
  /\ MaxVersion \in Nat /\ MaxFailures \in Nat /\ MaxCrashes \in Nat

VARIABLES
  rows,       \* user_attachments: Null or the row
  owner,      \* astralplane_blob_owner_state: "none", "active" or "retired"
  tombs,      \* astralplane_purge_tombstone: Null or the tombstone of an object
  disk,       \* the directory of each attachment
  ownerDir,   \* the directory of the owner exists
  excl,       \* who has the owner exclusion
  tx,         \* the writer whose transaction has the owner row and its attachment locked
  w, p, r,    \* what writers, purgers and readers do
  failures,
  crashes

vars == <<rows, owner, tombs, disk, ownerDir, excl, tx, w, p, r, failures, crashes>>

Keys == Attachments \cup {"namespace"} \cup Legacy
Files == {"marker", "tmp", "blob"}

NoDir == [dir |-> FALSE, marker |-> Null, tmp |-> FALSE, blob |-> Null]
Present(a) == {f \in Files : CASE f = "marker" -> disk[a].marker # Null
                               [] f = "tmp" -> disk[a].tmp
                               [] f = "blob" -> disk[a].blob # Null}

Tombstone == [status |-> "pending", version |-> 0, due |-> TRUE, evidence |-> Null]

IdleWriter == [pc |-> "idle", att |-> Null, ver |-> 0, content |-> Null]
IdlePurger == [pc |-> "idle", key |-> Null, ver |-> 0, evidence |-> Null, result |-> Null]
IdleReader == [pc |-> "idle", att |-> Null, content |-> Null]

Init ==
  /\ rows = [a \in Attachments |-> Null]
  /\ owner = "none"
  /\ tombs = [k \in Keys |-> IF k \in Legacy THEN Tombstone ELSE Null]
  /\ disk = [a \in Attachments |-> NoDir]
  /\ ownerDir = FALSE
  /\ excl = Null /\ tx = Null
  /\ w = [x \in Writers |-> IdleWriter]
  /\ p = [y \in Purgers |-> IdlePurger]
  /\ r = [z \in Readers |-> IdleReader]
  /\ failures = 0 /\ crashes = 0

\* Something fails that can.
Fail == failures < MaxFailures /\ failures' = failures + 1
NoFail == UNCHANGED failures

db == <<rows, owner, tombs>>
files == <<disk, ownerDir>>
bounds == <<failures, crashes>>

At(x, pc) == w[x].pc = pc
Go(x, pc) == w' = [w EXCEPT ![x].pc = pc]
Att(x) == w[x].att
Row(x) == rows[Att(x)]

\* The row of an attachment that an open transaction has locked.
RowLocked(a) == tx # Null /\ Att(tx) = a

\* INSERT ... ON CONFLICT DO NOTHING of the owner's row.
Ensured == IF owner = "none" THEN "active" ELSE owner

-----------------------------------------------------------------------------
(* Leases. *)

\* begin_pending_materialization: a new row, or the row of a repeated call.
Begin(x, a) ==
  /\ At(x, "idle") /\ tx = Null /\ Ensured = "active"
  /\ owner' = Ensured
  /\ \/ /\ rows[a] = Null
        /\ rows' = [rows EXCEPT ![a] = [state |-> "pending", lease |-> LeaseOf[x], version |-> 0,
                                        expired |-> FALSE, deleted |-> FALSE, content |-> Null]]
        /\ w' = [w EXCEPT ![x] = [IdleWriter EXCEPT !.pc = "leased", !.att = a]]
     \/ /\ rows[a] # Null
        /\ rows[a].lease = LeaseOf[x] /\ ~rows[a].deleted /\ rows[a].state = "pending"
        /\ w' = [w EXCEPT ![x] = [IdleWriter EXCEPT !.pc = "leased", !.att = a,
                                                    !.ver = rows[a].version]]
        /\ UNCHANGED rows
  /\ UNCHANGED <<tombs, files, excl, tx, p, r, bounds>>

\* The row is the one the caller's lease and version name.
SameLease(x) ==
  /\ Row(x).state = "pending" /\ ~Row(x).deleted
  /\ Row(x).lease = LeaseOf[x] /\ Row(x).version = w[x].ver

\* ... and the lease has not run out, by the clock of this statement.
Fenced(x) == SameLease(x) /\ ~Row(x).expired

HasLease(x) == w[x].pc \in {"leased", "staging", "staged"}

\* renew_pending_materialization, or its repetition after the answer was lost.
Renew(x) ==
  /\ HasLease(x) /\ tx = Null /\ owner = "active"
  /\ \/ /\ Fenced(x) /\ w[x].ver < MaxVersion
        /\ rows' = [rows EXCEPT ![Att(x)].version = @ + 1, ![Att(x)].expired = FALSE]
     \/ /\ ~Fenced(x)
        /\ Row(x).state = "pending" /\ ~Row(x).deleted
        /\ Row(x).lease = LeaseOf[x] /\ Row(x).version = w[x].ver + 1
        /\ UNCHANGED rows
  /\ w' = [w EXCEPT ![x].ver = @ + 1]
  /\ UNCHANGED <<owner, tombs, files, excl, tx, p, r, bounds>>

\* The lease runs out.
Expire(a) ==
  /\ rows[a] # Null /\ rows[a].state = "pending" /\ ~rows[a].expired
  /\ rows' = [rows EXCEPT ![a].expired = TRUE]
  /\ UNCHANGED <<owner, tombs, files, excl, tx, w, p, r, bounds>>

\* The caller goes away without a word.
Forget(x) ==
  /\ At(x, "leased")
  /\ w' = [w EXCEPT ![x] = IdleWriter]
  /\ UNCHANGED <<db, files, excl, tx, p, r, bounds>>

-----------------------------------------------------------------------------
(* Staging: the exclusion first, then the rows, then the files. *)

\* reserve_materialization_staging.
Reserve(x) ==
  /\ At(x, "leased") /\ excl = Null
  /\ excl' = x
  /\ Go(x, "reserved")
  /\ UNCHANGED <<db, files, tx, p, r, bounds>>

\* Mutant: files are opened without a look at the lease.
OpenLockUnfenced(x) ==
  /\ At(x, "reserved") /\ tx = Null
  /\ tx' = x /\ Go(x, "opening")
  /\ UNCHANGED <<db, files, excl, p, r, bounds>>

\* _lock_pending_materialization_for_publish; a conflict releases the reservation.
OpenLock(x) ==
  /\ At(x, "reserved") /\ tx = Null
  /\ IF Ensured = "active" /\ Fenced(x)
     THEN tx' = x /\ Go(x, "opening") /\ UNCHANGED excl
     ELSE excl' = Null /\ Go(x, "leased") /\ UNCHANGED tx
  /\ UNCHANGED <<db, files, p, r, bounds>>

\* _begin_authorized_staged_write: directory, sentinel, temporary. A sentinel or a temporary
\* that is there, or a failure, ends it; what it made is removed again if that succeeds,
\* but for the directories.
OpenFiles(x) ==
  LET d == disk[Att(x)]
  IN /\ At(x, "opening")
     /\ ownerDir' = TRUE
     /\ \/ /\ d.marker = Null /\ ~d.tmp /\ NoFail
           /\ disk' = [disk EXCEPT ![Att(x)] = [@ EXCEPT !.dir = TRUE, !.marker = x, !.tmp = TRUE]]
           /\ Go(x, "opened")
           /\ UNCHANGED <<tx, excl>>
        \/ /\ tx' = Null /\ excl' = Null /\ Go(x, "leased")
           /\ \/ d.marker # Null /\ NoFail /\ UNCHANGED disk
              \/ d.marker = Null /\ d.tmp /\ NoFail /\ disk' = [disk EXCEPT ![Att(x)].tmp = FALSE]
              \/ /\ d.marker = Null /\ Fail
                 /\ \E m \in {Null, x}, t \in BOOLEAN :
                      disk' = [disk EXCEPT ![Att(x)] = [@ EXCEPT !.dir = TRUE, !.marker = m, !.tmp = t]]
     /\ UNCHANGED <<db, p, r, crashes>>

\* Removing what the session made, then the directories that are empty.
Pruned(d, od, a) ==
  LET empty == d[a].marker = Null /\ ~d[a].tmp /\ d[a].blob = Null
      d2 == IF empty THEN [d EXCEPT ![a] = NoDir] ELSE d
  IN [disk |-> d2, ownerDir |-> od /\ \E b \in Attachments : d2[b].dir]

\* _AtomicWriteSession.abort; when a file cannot be removed the error is raised, and
\* the exclusion is released all the same.
Abort(x) ==
  LET clean == Pruned([disk EXCEPT ![Att(x)].marker = Null, ![Att(x)].tmp = FALSE],
                      ownerDir, Att(x))
  IN /\ excl' = Null /\ Go(x, "leased")
     /\ disk' = clean.disk /\ ownerDir' = clean.ownerDir

AbortFails(x) ==
  /\ excl' = Null /\ Go(x, "leased")
  /\ disk' \in {disk, [disk EXCEPT ![Att(x)].tmp = FALSE],
                [disk EXCEPT ![Att(x)].tmp = FALSE, ![Att(x)].marker = Null]}
  /\ UNCHANGED ownerDir

\* The transaction of open_pending_materialization_staging commits, or fails to and the
\* session is aborted.
OpenCommit(x) ==
  /\ At(x, "opened")
  /\ tx' = Null
  /\ \/ NoFail /\ Go(x, "staging") /\ UNCHANGED <<files, excl>>
     \/ Fail /\ Abort(x)
  /\ UNCHANGED <<db, p, r, crashes>>

\* write_chunks and prepare: the bytes are on disk and their digest is known.
Write(x, c) ==
  /\ At(x, "staging")
  /\ w' = [w EXCEPT ![x].pc = "staged", ![x].content = c]
  /\ UNCHANGED <<db, files, excl, tx, p, r, bounds>>

\* The caller, a failed write or a failed publication aborts the session.
AbortSession(x) ==
  /\ w[x].pc \in {"staging", "staged"}
  /\ \/ NoFail /\ Abort(x)
     \/ Fail /\ AbortFails(x)
  /\ UNCHANGED <<db, tx, p, r, crashes>>

-----------------------------------------------------------------------------
(* Publishing: one transaction around a rename. *)

PublishLock(x) ==
  /\ At(x, "staged") /\ tx = Null
  /\ Ensured = "active" /\ Fenced(x)
  /\ tx' = x /\ Go(x, "publishing")
  /\ UNCHANGED <<db, files, excl, p, r, bounds>>

\* The sentinel is still the session's: the rename, which ends the session and releases the
\* exclusion. Anything else leaves the session to its caller and rolls back; what was
\* renamed before the failure is unlinked, if that succeeds.
Rename(x) ==
  /\ At(x, "publishing")
  /\ \/ /\ disk[Att(x)].marker = x /\ disk[Att(x)].tmp /\ NoFail
        /\ disk' = [disk EXCEPT ![Att(x)].tmp = FALSE, ![Att(x)].blob = w[x].content]
        /\ excl' = Null /\ Go(x, "renamed")
        /\ UNCHANGED tx
     \/ /\ disk[Att(x)].marker # x \/ ~disk[Att(x)].tmp
        /\ NoFail
        /\ tx' = Null /\ Go(x, "staged")
        /\ UNCHANGED <<disk, excl>>
     \/ /\ disk[Att(x)].marker = x /\ disk[Att(x)].tmp /\ Fail
        /\ tx' = Null /\ Go(x, "staged")
        /\ \/ UNCHANGED disk
           \/ \E b \in {Null, w[x].content} :
                disk' = [disk EXCEPT ![Att(x)].tmp = FALSE, ![Att(x)].blob = b]
        /\ UNCHANGED excl
  /\ UNCHANGED <<db, ownerDir, p, r, crashes>>

\* _finalize_pending_materialization: the lease is tested against the clock again.
Finalize(x) ==
  /\ At(x, "renamed")
  /\ IF Fenced(x)
     THEN Go(x, "finalized") /\ UNCHANGED tx
     ELSE tx' = Null /\ Go(x, "leased")
  /\ UNCHANGED <<db, files, excl, p, r, bounds>>

\* The commit: done and reported, done and its answer lost, or not done.
PublishCommit(x) ==
  /\ At(x, "finalized")
  /\ tx' = Null
  /\ \/ /\ rows' = [rows EXCEPT ![Att(x)] = [@ EXCEPT !.state = "ready", !.version = @ + 1,
                                                     !.content = w[x].content]]
        /\ \/ w' = [w EXCEPT ![x] = IdleWriter] /\ NoFail
           \/ Fail /\ Go(x, "leased")
     \/ Fail /\ Go(x, "leased") /\ UNCHANGED rows
  /\ UNCHANGED <<owner, tombs, files, excl, p, r, crashes>>

-----------------------------------------------------------------------------
(* Scheduling a purge. *)

\* _enqueue_scheduled: the tombstone of an object is made once.
Enqueued(t, k) == IF t[k] = Null THEN [t EXCEPT ![k] = Tombstone] ELSE t

Deleted(row) == [row EXCEPT !.deleted = TRUE,
                            !.version = IF row.state = "pending" THEN @ + 1 ELSE @]

\* schedule_attachment_prefix: for an attachment that is ready, or scheduled already.
ScheduleAttachment(a) ==
  /\ rows[a] # Null
  /\ tombs[a] # Null \/ rows[a].state = "ready"
  /\ tombs' = Enqueued(tombs, a)
  /\ rows' = IF rows[a].state = "ready" THEN [rows EXCEPT ![a].deleted = TRUE] ELSE rows
  /\ UNCHANGED <<owner, files, excl, tx, w, p, r, bounds>>

\* abandon_pending_materialization: by the holder of the lease, expired or not.
Abandon(x) ==
  /\ HasLease(x) /\ ~RowLocked(Att(x))
  /\ SameLease(x)
  /\ rows' = [rows EXCEPT ![Att(x)] = Deleted(@)]
  /\ tombs' = Enqueued(tombs, Att(x))
  /\ UNCHANGED <<owner, files, excl, tx, w, p, r, bounds>>

\* schedule_expired_pending_materializations_for_administration; SKIP LOCKED.
Sweepable(a) ==
  /\ rows[a] # Null /\ rows[a].state = "pending" /\ ~rows[a].deleted /\ rows[a].expired
  /\ ~RowLocked(a)

Sweep ==
  /\ \E S \in (SUBSET {a \in Attachments : Sweepable(a)}) \ {{}} :
       /\ Cardinality(S) <= SweepLimit
       /\ rows' = [a \in Attachments |-> IF a \in S THEN Deleted(rows[a]) ELSE rows[a]]
       /\ tombs' = [k \in Keys |-> IF k \in S THEN Enqueued(tombs, k)[k] ELSE tombs[k]]
  /\ UNCHANGED <<owner, files, excl, tx, w, p, r, bounds>>

\* schedule_owner_namespace: the owner is retired, every row soft-deleted.
ScheduleOwner ==
  /\ tx = Null
  /\ owner' = "retired"
  /\ tombs' = Enqueued(tombs, "namespace")
  /\ rows' = [a \in Attachments |->
                IF rows[a] = Null \/ rows[a].deleted THEN rows[a] ELSE Deleted(rows[a])]
  /\ UNCHANGED <<files, excl, tx, w, p, r, bounds>>

-----------------------------------------------------------------------------
(* Running a tombstone: DurablePurgeExecutor. *)

PAt(y, pc) == p[y].pc = pc
PGo(y, pc) == p' = [p EXCEPT ![y].pc = pc]
Tomb(y) == tombs[p[y].key]

\* The call of y ends with a result, or raises.
Report(y, result) == p' = [p EXCEPT ![y].pc = "idle", ![y].result = result]

\* What a purge of k removes, and whether it is gone (_is_absent).
Target(k) == IF k = "namespace" THEN Attachments ELSE {k}
Absent(k) == IF k = "namespace" THEN ~ownerDir ELSE ~disk[k].dir

\* Mutant: a failed tombstone is never tried again.
LoadOnce(y, k) ==
  /\ PAt(y, "idle") /\ tombs[k] # Null
  /\ tombs[k].status = "pending" /\ tombs[k].due
  /\ p' = [p EXCEPT ![y] = [IdlePurger EXCEPT !.pc = "delete", !.key = k, !.ver = tombs[k].version]]
  /\ UNCHANGED <<db, files, excl, tx, w, r, bounds>>

\* execute: the tombstone is loaded and decides what follows.
Load(y, k) ==
  LET start(pc) == p' = [p EXCEPT ![y] = [IdlePurger EXCEPT !.pc = pc, !.key = k,
                                                             !.ver = tombs[k].version]]
  IN /\ PAt(y, "idle") /\ tombs[k] # Null
     /\ \/ tombs[k].status = "purged" /\ k \notin Legacy /\ start("recheck")
        \/ /\ tombs[k].status \in {"pending", "failed"} /\ tombs[k].due
           /\ start(IF k \in Legacy THEN "review" ELSE "delete")
     /\ UNCHANGED <<db, files, excl, tx, w, r, bounds>>

\* A purged tombstone is compared with storage.
Recheck(y) ==
  /\ PAt(y, "recheck") /\ excl = Null
  /\ Report(y, IF Absent(p[y].key) THEN "already" ELSE "integrity")
  /\ UNCHANGED <<db, files, excl, tx, w, r, bounds>>

\* Mutant: a transition whatever the tombstone has become.
TombFenceBlind(y, statuses) == TRUE

\* The version fence of every transition of a tombstone.
TombFence(y, statuses) == Tomb(y).version = p[y].ver /\ Tomb(y).status \in statuses

\* A transition, or the fence conflict that sends the executor to look again.
Mark(y, statuses, tomb, result) ==
  \/ /\ TombFence(y, statuses)
     /\ tombs' = [tombs EXCEPT ![p[y].key] = [tomb EXCEPT !.version = @ + 1]]
     /\ Report(y, result)
  \/ /\ ~TombFence(y, statuses)
     /\ PGo(y, "reconcile")
     /\ UNCHANGED tombs

\* Exact keys are left to an operator.
MarkReview(y) ==
  /\ PAt(y, "review")
  /\ Mark(y, {"pending", "failed"}, [Tomb(y) EXCEPT !.status = "manual_review"], "failed")
  /\ UNCHANGED <<rows, owner, files, excl, tx, w, r, bounds>>

\* Mutant: a purge that does not wait for a reader.
DeleteLockImpatient(y) ==
  /\ PAt(y, "delete") /\ excl \in Readers \cup {Null}
  /\ excl' = y /\ PGo(y, "deleting")
  /\ UNCHANGED <<db, files, tx, w, r, bounds>>

\* _delete_for_purge takes the exclusion.
DeleteLock(y) ==
  /\ PAt(y, "delete") /\ excl = Null
  /\ excl' = y /\ PGo(y, "deleting")
  /\ UNCHANGED <<db, files, tx, w, r, bounds>>

\* _delete_anchor_contents: one entry after the other, in any order.
DeleteEntry(y) ==
  /\ PAt(y, "deleting")
  /\ \E a \in Target(p[y].key) :
       \/ \E f \in Present(a) :
            disk' = [disk EXCEPT ![a] = [@ EXCEPT !.marker = IF f = "marker" THEN Null ELSE @,
                                                  !.tmp = IF f = "tmp" THEN FALSE ELSE @,
                                                  !.blob = IF f = "blob" THEN Null ELSE @]]
       \/ /\ p[y].key = "namespace" /\ disk[a].dir /\ Present(a) = {}
          /\ disk' = [disk EXCEPT ![a] = NoDir]
  /\ UNCHANGED <<db, ownerDir, excl, tx, w, p, r, bounds>>

\* The directory itself, and the one above when it is empty; or an error on the way.
DeleteEnd(y) ==
  LET k == p[y].key
      dirs == IF k = "namespace" THEN disk ELSE [disk EXCEPT ![k] = NoDir]
  IN /\ PAt(y, "deleting")
     /\ excl' = Null
     /\ \/ /\ \A a \in Target(k) : Present(a) = {} /\ (k = "namespace" => ~disk[a].dir)
           /\ disk' = dirs
           /\ ownerDir' = IF k = "namespace" THEN FALSE
                          ELSE IF disk[k].dir THEN \E b \in Attachments : dirs[b].dir
                          ELSE ownerDir
           /\ \/ NoFail /\ PGo(y, "verify")
              \/ Fail /\ PGo(y, "fail")
        \/ /\ Fail /\ PGo(y, "fail")
           /\ UNCHANGED files
     /\ UNCHANGED <<db, tx, w, r, crashes>>

\* The second half of _delete_and_verify, under the exclusion again.
Verify(y) ==
  /\ PAt(y, "verify") /\ excl = Null
  /\ \/ NoFail /\ PGo(y, IF Absent(p[y].key) THEN "purge" ELSE "fail")
     \/ Fail /\ PGo(y, "fail")
  /\ UNCHANGED <<db, files, excl, tx, w, r, crashes>>

MarkPurged(y) ==
  /\ PAt(y, "purge")
  /\ Mark(y, {"pending", "failed"}, [Tomb(y) EXCEPT !.status = "purged", !.due = TRUE], "purged")
  /\ UNCHANGED <<rows, owner, files, excl, tx, w, r, bounds>>

MarkFailed(y) ==
  /\ PAt(y, "fail")
  /\ Mark(y, {"pending", "failed"}, [Tomb(y) EXCEPT !.status = "failed", !.due = FALSE], "failed")
  /\ UNCHANGED <<rows, owner, files, excl, tx, w, r, bounds>>

\* _reconcile_concurrent_transition, and the reload of an operator's resolution.
Reconcile(y) ==
  /\ PAt(y, "reconcile")
  /\ Tomb(y).status = "purged" /\ p[y].key \notin Legacy => excl = Null
  /\ Report(y,
       CASE p[y].evidence # Null ->
              IF Tomb(y).status = "purged" /\ Tomb(y).evidence = p[y].evidence
              THEN "already" ELSE "raised"
         [] p[y].evidence = Null /\ Tomb(y).status = "purged" ->
              IF p[y].key \in Legacy \/ Absent(p[y].key) THEN "already" ELSE "raised"
         [] p[y].evidence = Null /\ Tomb(y).status \in {"failed", "manual_review"} -> "failed"
         [] OTHER -> "raised")
  /\ UNCHANGED <<db, files, excl, tx, w, r, bounds>>

\* The retry time of a failed tombstone comes.
RetryDue(k) ==
  /\ tombs[k] # Null /\ ~tombs[k].due
  /\ tombs' = [tombs EXCEPT ![k].due = TRUE]
  /\ UNCHANGED <<rows, owner, files, excl, tx, w, p, r, bounds>>

\* resolve_legacy_exact_for_administration: the operator's attestation.
ResolveLoad(y, k, e) ==
  /\ PAt(y, "idle") /\ tombs[k].status = "manual_review"
  /\ p' = [p EXCEPT ![y] = [IdlePurger EXCEPT !.pc = "resolve", !.key = k,
                                               !.ver = tombs[k].version, !.evidence = e]]
  /\ UNCHANGED <<db, files, excl, tx, w, r, bounds>>

ResolveMark(y) ==
  /\ PAt(y, "resolve")
  /\ Mark(y, {"manual_review"},
          [Tomb(y) EXCEPT !.status = "purged", !.evidence = p[y].evidence], "purged")
  /\ UNCHANGED <<rows, owner, files, excl, tx, w, r, bounds>>

-----------------------------------------------------------------------------
(* Readers. *)

\* A caller finds a ready attachment and its digest.
Lookup(z, a) ==
  /\ r[z].pc = "idle"
  /\ rows[a] # Null /\ rows[a].state = "ready" /\ ~rows[a].deleted
  /\ r' = [r EXCEPT ![z] = [pc |-> "found", att |-> a, content |-> rows[a].content]]
  /\ UNCHANGED <<db, files, excl, tx, w, p, bounds>>

\* open_reader: the exclusion for as long as the stream is open; a missing blob raises.
OpenReader(z) ==
  /\ r[z].pc = "found" /\ excl = Null
  /\ IF disk[r[z].att].blob # Null
     THEN excl' = z /\ r' = [r EXCEPT ![z].pc = "reading"]
     ELSE r' = [r EXCEPT ![z] = IdleReader] /\ UNCHANGED excl
  /\ UNCHANGED <<db, files, tx, w, p, bounds>>

CloseReader(z) ==
  /\ r[z].pc = "reading"
  /\ excl' = Null /\ r' = [r EXCEPT ![z] = IdleReader]
  /\ UNCHANGED <<db, files, tx, w, p, bounds>>

-----------------------------------------------------------------------------
\* A process dies: its transaction rolls back, its lock files are unlocked, its files stay.
Dies(who) ==
  /\ crashes < MaxCrashes /\ crashes' = crashes + 1
  /\ excl' = IF excl = who THEN Null ELSE excl
  /\ UNCHANGED <<db, files, failures>>

Crash ==
  \/ \E x \in Writers :
       /\ ~At(x, "idle") /\ Dies(x)
       /\ w' = [w EXCEPT ![x] = IdleWriter]
       /\ tx' = IF tx = x THEN Null ELSE tx
       /\ UNCHANGED <<p, r>>
  \/ \E y \in Purgers :
       /\ ~PAt(y, "idle") /\ Dies(y)
       /\ p' = [p EXCEPT ![y] = IdlePurger]
       /\ UNCHANGED <<tx, w, r>>

WriterSteps(x) ==
  \/ OpenLock(x) \/ OpenFiles(x) \/ OpenCommit(x)
  \/ Rename(x) \/ Finalize(x) \/ PublishCommit(x) \/ AbortSession(x)

PurgerSteps(y) ==
  \/ Recheck(y) \/ MarkReview(y) \/ DeleteLock(y) \/ DeleteEntry(y) \/ DeleteEnd(y)
  \/ Verify(y) \/ MarkPurged(y) \/ MarkFailed(y) \/ Reconcile(y) \/ ResolveMark(y)

Next ==
  \/ \E x \in Writers, a \in Attachments : Begin(x, a)
  \/ \E x \in Writers : Renew(x) \/ Forget(x) \/ Reserve(x) \/ PublishLock(x) \/ Abandon(x)
  \/ \E x \in Writers : WriterSteps(x)
  \/ \E x \in Writers, c \in Contents : Write(x, c)
  \/ \E a \in Attachments : Expire(a)
  \/ \E a \in Attachments : ScheduleAttachment(a)
  \/ Sweep
  \/ ScheduleOwner
  \/ \E y \in Purgers, k \in Keys : Load(y, k)
  \/ \E y \in Purgers : PurgerSteps(y)
  \/ \E y \in Purgers, k \in Legacy, e \in Evidence : ResolveLoad(y, k, e)
  \/ \E k \in Keys : RetryDue(k)
  \/ \E z \in Readers, a \in Attachments : Lookup(z, a)
  \/ \E z \in Readers : OpenReader(z) \/ CloseReader(z)
  \/ Crash

Spec == Init /\ [][Next]_vars

\* A tombstone that is not done is run, when it is due.
RunsDue(y, k) == tombs[k] # Null /\ tombs[k].status # "purged" /\ Load(y, k)

-----------------------------------------------------------------------------
\* The columns, and the states of the callers.
TypeOK ==
  /\ rows \in [Attachments -> {Null} \cup
       [state : {"pending", "ready"}, lease : {LeaseOf[x] : x \in Writers},
        version : 0 .. MaxVersion + 2, expired : BOOLEAN, deleted : BOOLEAN,
        content : Contents \cup {Null}]]
  /\ owner \in {"none", "active", "retired"}
  /\ tombs \in [Keys -> {Null} \cup
       [status : {"pending", "failed", "purged", "manual_review"},
        version : 0 .. MaxFailures + 3, due : BOOLEAN, evidence : Evidence \cup {Null}]]
  /\ disk \in [Attachments -> [dir : BOOLEAN, marker : Writers \cup {Null}, tmp : BOOLEAN,
                               blob : Contents \cup {Null}]]
  /\ ownerDir \in BOOLEAN
  /\ excl \in Writers \cup Purgers \cup Readers \cup {Null}
  /\ tx \in Writers \cup {Null}
  /\ \A a \in Attachments : Present(a) # {} => disk[a].dir
  /\ (\E a \in Attachments : disk[a].dir) => ownerDir

\* A ready attachment that is not deleted has exactly the bytes its row names, whatever was
\* interrupted, retried or purged meanwhile (publish_pending_materialization).
ReadyHasBytes ==
  \A a \in Attachments :
    rows[a] # Null /\ rows[a].state = "ready" /\ ~rows[a].deleted =>
      disk[a].blob = rows[a].content

\* A reader that verified its attachment keeps its bytes until it closes, though the
\* attachment is purged meanwhile (open_reader, _delete_for_purge).
ReaderKeepsBytes ==
  \A z \in Readers : r[z].pc = "reading" => disk[r[z].att].blob = r[z].content

\* A purged object stays gone: no upload that was under way brings files back under it
\* ("purged tombstone no longer matches physical storage", execute).
PurgedIsGone ==
  /\ \A k \in Keys \ Legacy : tombs[k] # Null /\ tombs[k].status = "purged" => Absent(k)
  /\ \A y \in Purgers : p[y].result # "integrity"

\* What is deleted is going to be purged and what is going to be purged is deleted
\* (the four ways of scheduling, begin_pending_materialization).
DeletionsTracked ==
  /\ \A a \in Attachments :
       /\ tombs[a] # Null => rows[a] # Null /\ rows[a].deleted
       /\ rows[a] # Null /\ rows[a].deleted => tombs[a] # Null \/ tombs["namespace"] # Null
  /\ tombs["namespace"] # Null =>
       /\ owner = "retired"
       /\ \A a \in Attachments : rows[a] # Null => rows[a].deleted

\* _HAS_INCOMPLETE_FOR_ADMINISTRATION_SQL.
HasIncomplete ==
  \/ \E k \in Keys : tombs[k] # Null /\ tombs[k].status # "purged"
  \/ \E a \in Attachments :
       rows[a] # Null /\ rows[a].state = "pending" /\ ~rows[a].deleted /\ rows[a].expired

\* When the administration is told that nothing is incomplete, every file belongs to a
\* ready attachment or to an upload whose lease still runs: no crash, failure or race leaves
\* files that nobody will remove (has_incomplete_for_administration).
NothingForgotten ==
  ~HasIncomplete =>
    \A a \in Attachments : Present(a) # {} =>
      /\ rows[a] # Null /\ ~rows[a].deleted
      /\ rows[a].state = "ready" \/ ~rows[a].expired

\* A purge that is reported has happened (execute, _reconcile_concurrent_transition).
ReportsTrue ==
  \A y \in Purgers : p[y].result \in {"purged", "already"} => Tomb(y).status = "purged"

\* Outcomes are final: a purged tombstone keeps its state and its evidence, a ready row its
\* bytes, a deleted row stays deleted.
OutcomesKept ==
  /\ \A k \in Keys : tombs[k] # Null =>
       /\ tombs'[k] # Null /\ tombs'[k].version >= tombs[k].version
       /\ tombs[k].status = "purged" => tombs'[k] = tombs[k]
  /\ \A a \in Attachments : rows[a] # Null =>
       /\ rows'[a] # Null
       /\ rows[a].deleted => rows'[a].deleted /\ rows'[a].state = rows[a].state
       /\ rows[a].state = "ready" =>
            rows'[a].state = "ready" /\ rows'[a].content = rows[a].content

\* Files that an upload makes end as a ready attachment or are removed, and every purge that
\* was scheduled is done, unless an operator has to decide (the recovery sweep, execute).
UploadsEnd ==
  /\ \A a \in Attachments :
       disk[a].dir ~> (Absent(a) \/ (rows[a] # Null /\ rows[a].state = "ready"))
  /\ \A k \in Keys \ Legacy :
       (tombs[k] # Null) ~> (tombs[k] # Null /\ tombs[k].status = "purged")
=============================================================================
