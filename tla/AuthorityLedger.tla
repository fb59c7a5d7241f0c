--------------------------- MODULE AuthorityLedger ---------------------------
(***************************************************************************)
(* The ledger of externally governed effects.  A binding stands for a      *)
(* lease of the external authority; an effect is authorised, gets one      *)
(* receipt from the authority, has it claimed together with the sequence   *)
(* watermark and an outbox entry, and only then runs.  Hosts read a row    *)
(* and write it later by compare-and-set; any of them may die between two  *)
(* steps, and a recovery takes over what it left.                          *)
(***************************************************************************)
EXTENDS Integers, FiniteSets

CONSTANTS
    Bindings,     \* bindings of one agent and population
    Effects,      \* protected effects, each with its nonce and its receipt
    Operations,   \* lifecycle operations
    Hosts,
    MaxVersion,   \* bound on the version of a binding or an operation
    Null

VARIABLES
    binding,  \* astralplane_authority_binding rows
    life,     \* astralplane_authority_lifecycle_operation rows
    effect,   \* astralplane_protected_effect_operation rows
    claim,    \* astralplane_receipt_claim rows: the sequence claimed
    mark,     \* astralplane_receipt_sequence_watermark rows
    outbox,   \* effects whose claim has an outbox entry
    held,     \* the row each host works from
    lease,    \* lease sequences at the external authority
    issued,   \* receipts the authority issued: their sequences
    ran       \* how often each effect really happened

vars == <<binding, life, effect, claim, mark, outbox, held, lease, issued, ran>>

-----------------------------------------------------------------------------

Closed == {"closed", "revoked", "expired"}
Settled == {"succeeded", "failed", "reconciled"}
Final == {"succeeded", "denied", "failed_closed", "effect_failed"}

\* Mutant: an effect that is being executed can be closed as never executed.
LaxTransitions(status) ==
    CASE status = "created" -> {"astral_authorized", "denied", "failed_closed"}
      [] status = "astral_authorized" -> {"lets_pending", "denied", "failed_closed"}
      [] status = "lets_pending" -> {"receipt_received", "denied", "failed_closed"}
      [] status = "receipt_received" -> {"receipt_claimed", "denied", "failed_closed"}
      [] status = "receipt_claimed" -> {"executing", "denied", "failed_closed"}
      [] status = "executing" -> {"succeeded", "effect_failed", "failed_closed"}
      [] status = "outcome_uncertain" -> {"succeeded", "effect_failed"}
      [] OTHER -> {}

Transitions(status) ==
    CASE status = "created" -> {"astral_authorized", "denied", "failed_closed"}
      [] status = "astral_authorized" -> {"lets_pending", "denied", "failed_closed"}
      [] status = "lets_pending" -> {"receipt_received", "denied", "failed_closed"}
      [] status = "receipt_received" -> {"receipt_claimed", "denied", "failed_closed"}
      [] status = "receipt_claimed" -> {"executing", "denied", "failed_closed"}
      [] status = "executing" -> {"succeeded", "effect_failed", "outcome_uncertain"}
      [] status = "outcome_uncertain" -> {"succeeded", "effect_failed"}
      [] OTHER -> {}

Sequences == 0 .. Cardinality(Effects)

BindingRows == [state: {"provisioning", "active", "quiescent"} \union Closed,
                pending: BOOLEAN, seq: Sequences, ver: 0 .. MaxVersion]

OperationRows == [binding: Bindings, ver: 0 .. MaxVersion,
                  status: {"pending", "in_flight", "uncertain"} \union Settled]

EffectRows == [binding: Bindings, exp: Sequences, ver: 0 .. 8, receipt: BOOLEAN,
               status: {"created", "astral_authorized", "lets_pending", "receipt_received",
                        "receipt_claimed", "executing", "outcome_uncertain"} \union Final]

TypeOK ==
    /\ \A b \in Bindings : binding[b] # Null => binding[b] \in BindingRows
    /\ \A o \in Operations : life[o] # Null => life[o] \in OperationRows
    /\ \A e \in Effects : effect[e] # Null => effect[e] \in EffectRows
    /\ \A e \in Effects : {claim[e], issued[e]} \subseteq Sequences \union {Null}
    /\ outbox \subseteq Effects
    /\ lease \in [Bindings -> Sequences]

Init ==
    /\ binding = [b \in Bindings |-> Null]
    /\ life = [o \in Operations |-> Null]
    /\ effect = [e \in Effects |-> Null]
    /\ claim = [e \in Effects |-> Null]
    /\ mark = [b \in Bindings |-> Null]
    /\ outbox = {}
    /\ held = [h \in Hosts |-> Null]
    /\ lease = [b \in Bindings |-> 0]
    /\ issued = [e \in Effects |-> Null]
    /\ ran = [e \in Effects |-> 0]

-----------------------------------------------------------------------------
\* Bindings and lifecycle operations.  A replay of a creation finds an equal
\* row and changes nothing.

\* Under the index on the nonterminal bindings of an agent.
CreateBinding(b) ==
    /\ binding[b] = Null
    /\ \A c \in Bindings : binding[c] # Null => binding[c].state \in Closed
    /\ binding' = [binding EXCEPT ![b] = [state |-> "provisioning", pending |-> TRUE,
                                          seq |-> 0, ver |-> 0]]
    /\ UNCHANGED <<life, effect, claim, mark, outbox, held, lease, issued, ran>>

CreateOperation(o, b) ==
    /\ life[o] = Null
    /\ binding[b] # Null
    /\ life' = [life EXCEPT ![o] = [binding |-> b, status |-> "pending", ver |-> 0]]
    /\ UNCHANGED <<binding, effect, claim, mark, outbox, held, lease, issued, ran>>

\* What a host writes back; it goes on from the row that is returned.
Kept(h, row) == held' = [held EXCEPT ![h].row = row, ![h].mine = TRUE]

Fresh(h, kind, row) ==
    /\ held[h] # Null
    /\ held[h].kind = kind
    /\ held[h].row.ver = row.ver

\* transition_binding from a state that is not terminal; activate_binding and
\* abandon_provisioning_binding from the pending intent.
Replacements(b, row) ==
    IF row.state \in Closed THEN {}
    ELSE IF row.pending
    THEN {[row EXCEPT !.state = "active", !.pending = FALSE, !.ver = @ + 1],
          [row EXCEPT !.state = "closed", !.ver = @ + 1]}
    ELSE {[row EXCEPT !.state = s, !.seq = n, !.ver = @ + 1] :
            s \in {"active", "quiescent", "revoked"}, n \in {row.seq, lease[b]}}

TransitionBinding(h, b) ==
    /\ Fresh(h, "binding", binding[b])
    /\ held[h].id = b
    /\ binding[b].ver < MaxVersion
    /\ \E r \in Replacements(b, held[h].row) :
          binding' = [binding EXCEPT ![b] = r] /\ Kept(h, r)
    /\ UNCHANGED <<life, effect, claim, mark, outbox, lease, issued, ran>>

TransitionOperation(h, o) ==
    /\ Fresh(h, "life", life[o])
    /\ held[h].id = o
    /\ life[o].ver < MaxVersion
    /\ held[h].row.status \notin Settled
    /\ \E s \in {"in_flight", "uncertain"} \union Settled :
          LET r == [held[h].row EXCEPT !.status = s, !.ver = @ + 1]
          IN  life' = [life EXCEPT ![o] = r] /\ Kept(h, r)
    /\ UNCHANGED <<binding, effect, claim, mark, outbox, lease, issued, ran>>

-----------------------------------------------------------------------------
\* Protected effects.

CreateEffect(e, b) ==
    /\ effect[e] = Null
    /\ binding[b] # Null
    /\ effect' = [effect EXCEPT ![e] = [binding |-> b, exp |-> binding[b].seq, ver |-> 0,
                                        receipt |-> FALSE, status |-> "created"]]
    /\ UNCHANGED <<binding, life, claim, mark, outbox, held, lease, issued, ran>>

\* The external authority: one receipt for an effect it is asked for, if the
\* effect expects the lease's present sequence; asked again, the same one.
Issue(e) ==
    /\ effect[e] # Null
    /\ effect[e].status = "lets_pending"
    /\ issued[e] = Null
    /\ lease[effect[e].binding] = effect[e].exp
    /\ lease' = [lease EXCEPT ![effect[e].binding] = @ + 1]
    /\ issued' = [issued EXCEPT ![e] = effect[e].exp + 1]
    /\ UNCHANGED <<binding, life, effect, claim, mark, outbox, held, ran>>

\* Hosts leave the step to receipt_claimed to claim_receipt.
TransitionEffect(h, e) ==
    /\ Fresh(h, "effect", effect[e])
    /\ held[h].id = e
    /\ \E s \in Transitions(held[h].row.status) \ {"receipt_claimed"} :
          /\ s = "receipt_received" => issued[e] # Null
          /\ s = "succeeded" => ran[e] > 0
          /\ LET r == [held[h].row EXCEPT !.status = s, !.ver = @ + 1,
                                          !.receipt = @ \/ s = "receipt_received"]
             IN  effect' = [effect EXCEPT ![e] = r] /\ Kept(h, r)
    /\ UNCHANGED <<binding, life, claim, mark, outbox, lease, issued, ran>>

\* The receipt agrees with the binding and the effect as they are now.
Related(e) ==
    LET b == binding[effect[e].binding]
    IN  /\ b.state = "active"
        /\ effect[e].exp = b.seq
        /\ issued[e] = effect[e].exp + 1

\* The unique keys of the claims: the operation and the lease's sequence.
Unclaimed(e) ==
    /\ claim[e] = Null
    /\ \A f \in Effects : (claim[f] # Null /\ effect[f].binding = effect[e].binding)
                            => claim[f] # issued[e]

\* The watermark moves strictly forward, by the host that read its version.
Advances(h, b, seq) ==
    mark[b] # Null => mark[b].seq < seq /\ mark[b].ver = held[h].mark

ClaimReceipt(h, e) ==
    LET b == effect[e].binding
    IN  /\ Fresh(h, "effect", effect[e])
        /\ held[h].id = e
        /\ held[h].row.status = "receipt_received"
        /\ Related(e)
        /\ Unclaimed(e)
        /\ Advances(h, b, issued[e])
        /\ claim' = [claim EXCEPT ![e] = issued[e]]
        /\ mark' = [mark EXCEPT ![b] = [seq |-> issued[e],
                                        ver |-> IF mark[b] = Null THEN 0 ELSE @.ver + 1]]
        /\ LET r == [held[h].row EXCEPT !.status = "receipt_claimed", !.ver = @ + 1]
           IN  effect' = [effect EXCEPT ![e] = r] /\ Kept(h, r)
        /\ outbox' = outbox \union {e}
        /\ UNCHANGED <<binding, life, lease, issued, ran>>

\* A host performs an effect it has itself moved to executing, once.
Run(h) ==
    /\ held[h] # Null
    /\ held[h].kind = "effect"
    /\ held[h].mine
    /\ held[h].row.status = "executing"
    /\ ran' = [ran EXCEPT ![held[h].id] = @ + 1]
    /\ held' = [held EXCEPT ![h].mine = FALSE]
    /\ UNCHANGED <<binding, life, effect, claim, mark, outbox, lease, issued>>

\* list_recoverable_protected_effects locks what it lists, and its caller
\* moves each row on in that transaction.
Recover(e) ==
    /\ effect[e] # Null
    /\ effect[e].status \notin Final
    /\ \E s \in Transitions(effect[e].status) \intersect {"failed_closed", "outcome_uncertain"} :
          effect' = [effect EXCEPT ![e].status = s, ![e].ver = @ + 1]
    /\ UNCHANGED <<binding, life, claim, mark, outbox, held, lease, issued, ran>>

-----------------------------------------------------------------------------

\* The rows of one kind, and the watermark version a host reads along with one.
Rows(kind) == CASE kind = "binding" -> binding [] kind = "life" -> life [] OTHER -> effect

MarkVersion(kind, row) ==
    IF kind # "effect" \/ mark[row.binding] = Null THEN 0 ELSE mark[row.binding].ver

Read(h) ==
    /\ held[h] = Null
    /\ \E kind \in {"binding", "life", "effect"} :
         \E i \in DOMAIN Rows(kind) :
             /\ Rows(kind)[i] # Null
             /\ held' = [held EXCEPT ![h] =
                   [kind |-> kind, id |-> i, row |-> Rows(kind)[i], mine |-> FALSE,
                    mark |-> MarkVersion(kind, Rows(kind)[i])]]
    /\ UNCHANGED <<binding, life, effect, claim, mark, outbox, lease, issued, ran>>

\* A conflict, or the end of the host's process.
Drop(h) ==
    /\ held[h] # Null
    /\ held' = [held EXCEPT ![h] = Null]
    /\ UNCHANGED <<binding, life, effect, claim, mark, outbox, lease, issued, ran>>

Next ==
    \/ \E b \in Bindings : \/ CreateBinding(b)
                           \/ \E o \in Operations : CreateOperation(o, b)
                           \/ \E e \in Effects : CreateEffect(e, b)
    \/ \E e \in Effects : Issue(e) \/ Recover(e)
    \/ \E h \in Hosts :
        \/ Read(h) \/ Drop(h) \/ Run(h)
        \/ \E b \in Bindings : binding[b] # Null /\ TransitionBinding(h, b)
        \/ \E o \in Operations : life[o] # Null /\ TransitionOperation(h, o)
        \/ \E e \in Effects : effect[e] # Null /\ (TransitionEffect(h, e) \/ ClaimReceipt(h, e))

Spec == Init /\ [][Next]_vars

-----------------------------------------------------------------------------

\* An agent has at most one binding that is not terminal, and one without
\* remote identities is an intent or an abandoned intent.
OneBinding ==
    /\ \A b, c \in Bindings :
          (b # c /\ binding[b] # Null /\ binding[c] # Null) =>
              binding[b].state \in Closed \/ binding[c].state \in Closed
    /\ \A b \in Bindings : (binding[b] # Null /\ binding[b].pending) =>
          binding[b].state \in {"provisioning", "closed"} /\ binding[b].seq = 0

\* A claim, the watermark, the effect and the outbox entry agree: no sequence
\* of a lease is claimed twice, the watermark is the last one claimed and
\* counts the claims, and an effect has an outbox entry exactly when claimed.
ClaimsAgree ==
    /\ outbox = {e \in Effects : claim[e] # Null}
    /\ \A e \in outbox : effect[e].receipt /\ claim[e] = effect[e].exp + 1
    /\ \A b \in Bindings :
          LET mine == {e \in outbox : effect[e].binding = b}
          IN  IF mine = {} THEN mark[b] = Null
              ELSE /\ \A e \in mine : claim[e] <= mark[b].seq
                   /\ Cardinality({claim[e] : e \in mine}) = Cardinality(mine)
                   /\ mark[b].ver + 1 = Cardinality(mine)

\* An effect happens at most once and only under its claimed receipt, and one
\* recorded as denied or closed never happened, whichever hosts and
\* recoveries raced for it.
RunsGoverned ==
    \A e \in Effects :
        /\ ran[e] <= 1
        /\ ran[e] = 1 => claim[e] # Null
        /\ (effect[e] # Null /\ effect[e].status \in {"denied", "failed_closed"}) => ran[e] = 0

\* What is terminal stays, and a claim is never changed.
LedgerStays ==
    /\ \A b \in Bindings :
          (binding[b] # Null /\ binding[b].state \in Closed) => binding'[b] = binding[b]
    /\ \A o \in Operations :
          (life[o] # Null /\ life[o].status \in Settled) => life'[o] = life[o]
    /\ \A e \in Effects :
          /\ claim[e] # Null => claim'[e] = claim[e]
          /\ (effect[e] # Null /\ effect[e].status \in Final) => effect'[e] = effect[e]

LedgerSound == TypeOK /\ OneBinding /\ ClaimsAgree /\ RunsGoverned
=============================================================================
