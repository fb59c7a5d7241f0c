-------------------------- MODULE DraftPublications --------------------------
(***************************************************************************)
(* One draft agent and the journal of its publications: the generation     *)
(* claim of DraftAgentRepository (repositories/drafts.py) and the states   *)
(* that GeneratedAgentPublicationRepository (repositories/                 *)
(* generated_agent_publications.py) moves a publication through, beside    *)
(* the operations that carry it and the recovery that takes it over.       *)
(*                                                                         *)
(* A publication belongs to the revision of the draft that it was begun    *)
(* at, which is its key here.  Every call is one transaction; a call that  *)
(* is refused, or that answers a replay, changes nothing and is no step.   *)
(***************************************************************************)
EXTENDS Integers, Sequences, FiniteSets, FiniteSetsExt

CONSTANTS
  Operations,   \* identities of operations
  Claims,       \* generation claim ids
  Statuses,     \* what a host may set a draft's status to
  Lease,        \* how long a claim lives
  MaxTime,      \* bound: the clock
  MaxGen,       \* bound: attempts of an operation
  MaxRevision,  \* bound: revisions of the draft
  MaxSteps,     \* bound: revisions of a journal row
  Null

VARIABLES
  clock,
  draft,        \* the row of draft_agents, Null once it is deleted
  ops,          \* the operations, as work admission answers for them
  pub,          \* the journal, by the draft revision it was begun at
  revs          \* the states of the target's revisions, by number

vars == <<clock, draft, ops, pub, revs>>

Working == {"claimed", "staged", "validated"}
None == [state |-> "none", gen |-> 0, src |-> Null, parent |-> Null, at |-> 0]

Init ==
  /\ clock = 0
  /\ draft = [rev |-> 0, status |-> "pending", claim |-> Null, until |-> 0, published |-> Null]
  /\ ops = [o \in Operations |-> None]
  /\ pub = [s \in 0 .. MaxRevision |-> Null]
  /\ revs = <<>>

-----------------------------------------------------------------------------
(* The draft. *)

Live == draft.claim # Null /\ draft.until > clock
Free == draft.claim = Null \/ draft.until <= clock
Generating == draft.status = "generating" /\ draft.published = Null

Moves(new) == draft.rev < MaxRevision /\ draft' = [new EXCEPT !.rev = draft.rev + 1]
Later == Max({draft.until, clock + Lease})

ClaimGeneration(c) ==
  /\ draft # Null /\ (Free \/ draft.claim = c)
  /\ Moves([draft EXCEPT !.claim = c, !.until = clock + Lease, !.status = "generating"])
  /\ UNCHANGED <<clock, ops, pub, revs>>

RenewClaim ==
  /\ draft # Null /\ Live /\ Generating
  /\ draft' = [draft EXCEPT !.until = Later]
  /\ UNCHANGED <<clock, ops, pub, revs>>

ReclaimExpired ==
  /\ draft # Null /\ draft.claim # Null /\ ~Live /\ Generating
  /\ Moves([draft EXCEPT !.until = clock + Lease])
  /\ UNCHANGED <<clock, ops, pub, revs>>

FinishGeneration(status) ==
  /\ draft # Null /\ Live
  /\ Moves([draft EXCEPT !.claim = Null, !.until = 0, !.status = status])
  /\ UNCHANGED <<clock, ops, pub, revs>>

\* compare_and_set_draft: the host may set the status and take the pointer away.
Edit(status, published) ==
  /\ draft # Null
  /\ Moves([draft EXCEPT !.status = status, !.published = published])
  /\ UNCHANGED <<clock, ops, pub, revs>>

\* The journal refers to its draft.
DeleteDraft ==
  /\ draft # Null /\ \A s \in DOMAIN pub : pub[s] = Null
  /\ draft' = Null
  /\ UNCHANGED <<clock, ops, pub, revs>>

-----------------------------------------------------------------------------
(* Operations, as work admission keeps them.  An identity is designated by *)
(* the journal: the original by its source, a recovery by the row it read. *)

Admit(o, src, parent, at) ==
  /\ ops[o].state = "none"
  /\ \A p \in Operations : ~(ops[p].state # "none" /\ ops[p].src = src /\ ops[p].parent = parent /\ ops[p].at = at)
  /\ ops' = [ops EXCEPT ![o] = [None EXCEPT !.state = "queued", !.src = src, !.parent = parent, !.at = at]]
  /\ UNCHANGED <<clock, draft, pub, revs>>

AdmitOriginal(o) == draft # Null /\ Generating /\ Live /\ Admit(o, draft.rev, Null, 0)
AdmitRecovery(o, s) == pub[s] # Null /\ pub[s].state \in Working /\ Admit(o, s, pub[s].op, pub[s].rev)

Start(o) ==
  /\ ops[o].state = "queued" /\ ops[o].gen < MaxGen
  /\ ops' = [ops EXCEPT ![o].state = "running", ![o].gen = @ + 1]
  /\ UNCHANGED <<clock, draft, pub, revs>>

\* An attempt is lost and may be retried, or the operation ends.
Stop(o, state) ==
  /\ ops[o].state = "running"
  /\ ops' = [ops EXCEPT ![o].state = state]
  /\ UNCHANGED <<clock, draft, pub, revs>>

-----------------------------------------------------------------------------
(* The journal. *)

\* Mutant: the journal does not look at the draft's revision.
SameClaim(s) ==
  /\ draft # Null /\ Generating
  /\ draft.claim # Null /\ draft.claim = pub[s].claim

\* _assert_current_draft: nothing moved the draft since the publication was begun.
CurrentDraft(s) ==
  /\ draft # Null /\ Generating /\ draft.rev = s
  /\ draft.claim # Null /\ draft.claim = pub[s].claim

\* _assert_current_bound_attempt: the attempt that the row names is the one that runs.
BoundAttempt(s) ==
  /\ pub[s].op # Null
  /\ ops[pub[s].op].state = "running" /\ ops[pub[s].op].gen = pub[s].gen

\* _lock_context with a live claim, and the revision is still only prepared.
MayMove(s, state) ==
  /\ pub[s] # Null /\ pub[s].state = state /\ pub[s].rev < MaxSteps
  /\ CurrentDraft(s) /\ Live /\ BoundAttempt(s) /\ revs[pub[s].target] = "prepared"

To(s, state) == [pub EXCEPT ![s].state = state, ![s].rev = @ + 1]

BeginIntent(o) ==
  /\ draft # Null /\ Generating /\ Live
  /\ ops[o].state = "running" /\ ops[o].parent = Null /\ ops[o].src = draft.rev
  /\ pub[draft.rev] = Null
  /\ revs' = Append(revs, "prepared")
  /\ pub' = [pub EXCEPT ![draft.rev] = [state |-> "claimed", rev |-> 0, op |-> o, gen |-> ops[o].gen,
                                        claim |-> draft.claim, target |-> Len(revs) + 1]]
  /\ UNCHANGED <<clock, draft, ops>>

\* The repository's own renewal, fenced by the journal row.
RenewForPublication(s) ==
  /\ pub[s] # Null /\ pub[s].state \in Working
  /\ CurrentDraft(s) /\ Live /\ BoundAttempt(s)
  /\ draft' = [draft EXCEPT !.until = Later]
  /\ UNCHANGED <<clock, ops, pub, revs>>

\* _assert_recovery_lineage: a later attempt of the same operation, or the child that was
\* designated for exactly this row once its operation has ended.
Lineage(s, o) ==
  \/ o = pub[s].op /\ ops[o].gen > pub[s].gen
  \/ /\ o # pub[s].op /\ ops[pub[s].op].state = "ended"
     /\ ops[o].src = s /\ ops[o].parent = pub[s].op /\ ops[o].at = pub[s].rev

\* The claim is renewed even if it ran out.
Rebind(s, o) ==
  /\ pub[s] # Null /\ pub[s].state \in Working /\ pub[s].op # Null /\ pub[s].rev < MaxSteps
  /\ ops[o].state = "running" /\ CurrentDraft(s) /\ Lineage(s, o)
  /\ pub' = [pub EXCEPT ![s].op = o, ![s].gen = ops[o].gen, ![s].rev = @ + 1]
  /\ draft' = [draft EXCEPT !.until = Later]
  /\ UNCHANGED <<clock, ops, revs>>

MarkStaged(s) ==
  /\ MayMove(s, "claimed") /\ pub' = To(s, "staged")
  /\ UNCHANGED <<clock, draft, ops, revs>>

MarkValidated(s) ==
  /\ MayMove(s, "staged") /\ pub' = To(s, "validated")
  /\ UNCHANGED <<clock, draft, ops, revs>>

\* Draft, revision and journal end in one statement.
Fail(s) ==
  /\ \E state \in Working : MayMove(s, state)
  /\ Moves([draft EXCEPT !.claim = Null, !.until = 0, !.status = "error"])
  /\ revs' = [revs EXCEPT ![pub[s].target] = "failed"]
  /\ pub' = To(s, "failed")
  /\ UNCHANGED <<clock, ops>>

CommitPublished(s) ==
  /\ MayMove(s, "validated")
  /\ Moves([draft EXCEPT !.claim = Null, !.until = 0, !.status = "generated", !.published = pub[s].target])
  /\ pub' = To(s, "published")
  /\ UNCHANGED <<clock, ops, revs>>

\* An ended operation is purged: the rows that name it lose their reference.
Purge(o) ==
  /\ ops[o].state = "ended"
  /\ ops' = [ops EXCEPT ![o].state = "gone"]
  /\ pub' = [s \in DOMAIN pub |-> IF pub[s] # Null /\ pub[s].op = o THEN [pub[s] EXCEPT !.op = Null] ELSE pub[s]]
  /\ UNCHANGED <<clock, draft, revs>>

Tick == clock < MaxTime /\ clock' = clock + 1 /\ UNCHANGED <<draft, ops, pub, revs>>

Next ==
  \/ \E c \in Claims : ClaimGeneration(c)
  \/ RenewClaim \/ ReclaimExpired \/ DeleteDraft \/ Tick
  \/ \E status \in {"generated", "error"} : FinishGeneration(status)
  \/ draft # Null /\ \E status \in Statuses \cup {draft.status}, p \in {draft.published, Null} : Edit(status, p)
  \/ \E o \in Operations :
       \/ AdmitOriginal(o) \/ Start(o) \/ Stop(o, "queued") \/ Stop(o, "ended") \/ BeginIntent(o) \/ Purge(o)
       \/ \E s \in DOMAIN pub : AdmitRecovery(o, s) \/ Rebind(s, o)
  \/ \E s \in DOMAIN pub : \/ RenewForPublication(s) \/ MarkStaged(s) \/ MarkValidated(s)
                           \/ Fail(s) \/ CommitPublished(s)

Spec == Init /\ [][Next]_vars

-----------------------------------------------------------------------------
(* Properties. *)

Rows == {s \in DOMAIN pub : pub[s] # Null}

\* The three records of a publication agree whatever else touches the draft: each
\* publication has a target of its own, a failed one failed it, the draft's pointer is
\* a published target, and an ended publication left its revision of the draft behind.
RecordsAgree ==
  /\ \A s, t \in Rows : s # t => pub[s].target # pub[t].target
  /\ \A s \in Rows : revs[pub[s].target] = "failed" <=> pub[s].state = "failed"
  /\ draft # Null /\ draft.published # Null =>
       \E s \in Rows : pub[s].state = "published" /\ pub[s].target = draft.published
  /\ \A s \in Rows : pub[s].state \notin Working => draft.rev > s

\* At most one publication of the draft can still move, and while its claim lives
\* nobody else was given the claim.
OneCanMove == Cardinality({s \in Rows : pub[s].state \in Working /\ CurrentDraft(s)}) <= 1

DraftSound == RecordsAgree /\ OneCanMove

\* A publication that the draft has left behind, or that ended, is never moved again; a
\* row moves only for the attempt that runs, and no operation but a designated heir of
\* the last one takes it over.
DraftKept ==
  \A s \in Rows :
    /\ pub[s].state \notin Working \/ draft.rev > s => pub'[s] \in {pub[s], [pub[s] EXCEPT !.op = Null]}
    /\ pub'[s].state # pub[s].state => ops[pub[s].op].state = "running" /\ draft.until > clock
    /\ pub'[s].op \notin {pub[s].op, Null} =>
         ops[pub[s].op].state = "ended" /\ ops[pub'[s].op].parent = pub[s].op
    /\ pub'[s].rev >= pub[s].rev /\ pub'[s].target = pub[s].target

=============================================================================
