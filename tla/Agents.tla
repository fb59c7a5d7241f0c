------------------------------- MODULE Agents -------------------------------
(***************************************************************************)
(* The agents of one owner.  A declarative agent is changed only by        *)
(* commands: each is prepared, then applied against a preparation that     *)
(* must still be current, and leaves one receipt.  An executable agent is  *)
(* changed by compare-and-set on its state revision, and is flagged for    *)
(* revalidation when the product's policy moves.  Ownership and trust rows *)
(* belong to executable identities only.  Assignments select the active    *)
(* definition of a declarative agent.                                      *)
(***************************************************************************)
EXTENDS Integers, FiniteSets

CONSTANTS
    Agents,      \* agent identities
    Commands,    \* identities of declarative commands
    Kinds,       \* the declarative commands that are tried
    Capacity,    \* receipts an agent may have (4096)
    Hosts,       \* writers of executable agents
    Policies,    \* product policy revisions
    Selections,  \* assignments that select an agent
    MaxVersion,  \* bound: state revisions of an executable agent
    Null

VARIABLES
    head,        \* user_agent rows
    bound,       \* identities with an ownership or a trust row
    cmd,         \* the declarative command behind each command identity
    prep,        \* preparations handed to callers
    receipt,     \* user_agent_command_receipt rows
    chosen,      \* assignment_selected_agent rows that are not invalidated
    marker,      \* the policy revision recorded in schema_meta
    seen,        \* what each host has read of an executable agent
    retired      \* whether the owner is being retired

vars == <<head, bound, cmd, prep, receipt, chosen, marker, seen, retired>>

-----------------------------------------------------------------------------

Unborn == [kind |-> "none", status |-> "none", sel |-> 0, latest |-> 0, ver |-> 0,
           deleted |-> FALSE, stale |-> FALSE, policy |-> Null]

Heads == [kind: {"none", "executable", "declarative"},
          status: {"none", "authoring", "disabled", "draft", "active", "archived"},
          sel: 0 .. Capacity, latest: 0 .. Capacity, ver: 0 .. Capacity + MaxVersion,
          deleted: BOOLEAN, stale: BOOLEAN, policy: Policies \union {Null}]

TypeOK ==
    /\ head \in [Agents -> Heads]
    /\ bound \subseteq Agents
    /\ \A c \in Commands : cmd[c] # Null => cmd[c].agent \in Agents /\ cmd[c].kind \in Kinds
    /\ \A c \in Commands : prep[c] # Null => prep[c].head \in Heads
    /\ \A c \in Commands : receipt[c] # Null => receipt[c].agent \in Agents
    /\ \A s \in Selections : chosen[s] # Null => chosen[s].agent \in Agents
    /\ marker \in Policies \union {Null}
    /\ \A w \in Hosts : seen[w] # Null => seen[w].row \in Heads
    /\ retired \in BOOLEAN

Init ==
    /\ head = [a \in Agents |-> Unborn]
    /\ bound = {}
    /\ cmd = [c \in Commands |-> Null]
    /\ prep = [c \in Commands |-> Null]
    /\ receipt = [c \in Commands |-> Null]
    /\ chosen = [s \in Selections |-> Null]
    /\ marker = Null
    /\ seen = [w \in Hosts |-> Null]
    /\ retired = FALSE

-----------------------------------------------------------------------------
\* Executable agents.

CreateAgent(a) ==
    /\ head[a].kind = "none"
    /\ head' = [head EXCEPT ![a].kind = "executable", ![a].status = "authoring"]
    /\ UNCHANGED <<bound, cmd, prep, receipt, chosen, marker, seen, retired>>

Read(w, a) ==
    /\ seen[w] = Null
    /\ head[a].kind = "executable"
    /\ ~head[a].deleted
    /\ seen' = [seen EXCEPT ![w] = [agent |-> a, row |-> head[a], policy |-> marker]]
    /\ UNCHANGED <<head, bound, cmd, prep, receipt, chosen, marker, retired>>

Fenced(w) ==
    /\ ~head[seen[w].agent].deleted
    /\ head[seen[w].agent].ver = seen[w].row.ver

\* compare_and_set_agent with the outcome of a validation, made under the
\* policy the host knew.
Validate(w) ==
    /\ seen[w] # Null
    /\ Fenced(w)
    /\ head[seen[w].agent].ver < MaxVersion
    /\ head' = [head EXCEPT ![seen[w].agent].policy = seen[w].policy,
                            ![seen[w].agent].stale = FALSE,
                            ![seen[w].agent].ver = @ + 1]
    /\ seen' = [seen EXCEPT ![w] = Null]
    /\ UNCHANGED <<bound, cmd, prep, receipt, chosen, marker, retired>>

Tombstone(w) ==
    /\ seen[w] # Null
    /\ Fenced(w)
    /\ head[seen[w].agent].ver < MaxVersion
    /\ head' = [head EXCEPT ![seen[w].agent].status = "disabled",
                            ![seen[w].agent].deleted = TRUE,
                            ![seen[w].agent].ver = @ + 1]
    /\ seen' = [seen EXCEPT ![w] = Null]
    /\ UNCHANGED <<bound, cmd, prep, receipt, chosen, marker, retired>>

\* A host that meets a conflict, or dies, forgets what it read.
Forget(w) ==
    /\ seen[w] # Null
    /\ seen' = [seen EXCEPT ![w] = Null]
    /\ UNCHANGED <<head, bound, cmd, prep, receipt, chosen, marker, retired>>

\* reconcile_validation_policy_for_administration leaves the state revision
\* of the agents it flags as it is.
Reconcile(p) ==
    /\ marker # p
    /\ head' = [a \in Agents |->
                  IF /\ head[a].kind = "executable"
                     /\ ~head[a].deleted
                     /\ head[a].policy # p
                  THEN [head[a] EXCEPT !.stale = TRUE]
                  ELSE head[a]]
    /\ marker' = p
    /\ UNCHANGED <<bound, cmd, prep, receipt, chosen, seen, retired>>

Inheritable(a) == head[a].kind # "declarative"

\* upsert_ownership and set_trust, whose statement runs under the identity
\* lock when the identity is new.
Bind(a) ==
    /\ Inheritable(a)
    /\ bound' = bound \union {a}
    /\ UNCHANGED <<head, cmd, prep, receipt, chosen, marker, seen, retired>>

RemoveOwnership(a) ==
    /\ a \in bound
    /\ Inheritable(a)
    /\ bound' = bound \ {a}
    /\ UNCHANGED <<head, cmd, prep, receipt, chosen, marker, seen, retired>>

-----------------------------------------------------------------------------
\* Declarative commands.

Receipts(a) == {c \in Commands : receipt[c] # Null /\ receipt[c].agent = a}

Limit(kind) == IF kind = "delete" THEN Capacity
               ELSE IF kind = "archive" THEN Capacity - 1
               ELSE Capacity - 2

Definition(a, r) ==
    head[a].kind = "declarative" /\ r \in 1 .. head[a].latest

Targeted(m) ==
    IF m.kind \in {"create", "clone"}
    THEN head[m.agent].kind = "none" /\ m.agent \notin bound
    ELSE /\ head[m.agent].kind = "declarative"
         /\ ~head[m.agent].deleted
         /\ head[m.agent].ver = m.expected

Applicable(m) ==
    LET h == head[m.agent]
    IN  CASE m.kind = "revise" -> m.rev = h.latest
          [] m.kind = "activate" -> Definition(m.agent, m.rev)
                                    /\ ~(h.status = "active" /\ h.sel = m.rev)
          [] m.kind = "archive" -> h.status # "archived"
          [] m.kind = "clone" -> ~head[m.src].deleted /\ Definition(m.src, m.rev)
          [] OTHER -> TRUE

Accepted(m) ==
    /\ Targeted(m)
    /\ Cardinality(Receipts(m.agent)) < Limit(m.kind)
    /\ Applicable(m)

\* What prepare_declarative_command returns for a command.
Preparation(c, m) == [head |-> head[m.agent], receipt |-> receipt[c]]

\* A new command, issued from the head its client sees, or one sent again.
\* Command identities are taken in order, which names them and no more.
Prepare(c, m) ==
    /\ ~retired
    /\ IF cmd[c] = Null THEN \A d \in Commands : d < c => cmd[d] # Null ELSE cmd[c] = m
    /\ (receipt[c] = Null) => Accepted(m)
    /\ cmd' = [cmd EXCEPT ![c] = m]
    /\ prep' = [prep EXCEPT ![c] = Preparation(c, m)]
    /\ UNCHANGED <<head, bound, receipt, chosen, marker, seen, retired>>

Applied(m) ==
    LET h == head[m.agent]
    IN  CASE m.kind \in {"create", "clone"} ->
               [Unborn EXCEPT !.kind = "declarative", !.status = "draft", !.latest = 1]
          [] m.kind = "revise" ->
               [h EXCEPT !.status = "draft", !.sel = 0, !.latest = @ + 1, !.ver = @ + 1]
          [] m.kind = "activate" ->
               [h EXCEPT !.status = "active", !.sel = m.rev, !.ver = @ + 1]
          [] m.kind = "archive" ->
               [h EXCEPT !.status = "archived", !.sel = 0, !.ver = @ + 1]
          [] m.kind = "delete" ->
               [h EXCEPT !.status = "archived", !.sel = 0, !.ver = @ + 1, !.deleted = TRUE]

\* Mutant: the assignments that selected the agent keep their selection.
KeepDependants(a) == chosen

Dependants(a) ==
    [s \in Selections |-> IF chosen[s] # Null /\ chosen[s].agent = a THEN Null ELSE chosen[s]]

\* apply_declarative_command prepares again and refuses a preparation that
\* is no longer the same; a replay changes nothing.
Apply(c) ==
    /\ ~retired
    /\ prep[c] # Null
    /\ prep[c] = Preparation(c, cmd[c])
    /\ IF receipt[c] # Null
       THEN UNCHANGED <<head, chosen, receipt>>
       ELSE LET m == cmd[c]
            IN  /\ Accepted(m)
                /\ head' = [head EXCEPT ![m.agent] = Applied(m)]
                /\ chosen' = IF m.kind \in {"create", "clone"} THEN chosen
                             ELSE Dependants(m.agent)
                /\ receipt' = [receipt EXCEPT ![c] = [agent |-> m.agent, kind |-> m.kind,
                                                      ver |-> Applied(m).ver]]
    /\ prep' = [prep EXCEPT ![c] = Null]
    /\ UNCHANGED <<bound, cmd, marker, seen, retired>>

\* An assignment binds the agent's active definition, under the owner lock.
Select(s, a) ==
    /\ ~retired
    /\ chosen[s] = Null
    /\ head[a].kind = "declarative"
    /\ head[a].status = "active"
    /\ ~head[a].deleted
    /\ chosen' = [chosen EXCEPT ![s] = [agent |-> a, rev |-> head[a].sel]]
    /\ UNCHANGED <<head, bound, cmd, prep, receipt, marker, seen, retired>>

Retire ==
    /\ ~retired
    /\ retired' = TRUE
    /\ UNCHANGED <<head, bound, cmd, prep, receipt, chosen, marker, seen>>

-----------------------------------------------------------------------------

\* The shape of a command: clone alone has another agent as its source, and
\* revise, activate and clone name a definition.
Shaped(m) ==
    /\ (m.kind = "clone") = (m.src # m.agent)
    /\ (m.kind \in {"revise", "activate", "clone"}) = (m.rev # 0)

\* What clients send: a command against the head they see, or one sent before.
Sent ==
    ({cmd[c] : c \in Commands} \ {Null})
        \union UNION {{m \in [kind: Kinds, agent: {a}, src: {b}, expected: {head[a].ver},
                              rev: 0 .. head[b].latest] : Shaped(m)} :
                      a \in Agents, b \in Agents}

Next ==
    \/ \E a \in Agents : CreateAgent(a) \/ Bind(a) \/ RemoveOwnership(a)
    \/ \E w \in Hosts : \/ Validate(w) \/ Tombstone(w) \/ Forget(w)
                        \/ \E a \in Agents : Read(w, a)
    \/ \E p \in Policies : Reconcile(p)
    \/ \E c \in Commands :
        \/ Apply(c)
        \/ \E m \in Sent : Prepare(c, m)
    \/ \E s \in Selections, a \in Agents : Select(s, a)
    \/ Retire

Spec == Init /\ [][Next]_vars

-----------------------------------------------------------------------------

\* One identity is one agent: a declarative head is active exactly when a
\* definition of its own is selected, a deleted one is archived, and no
\* declarative identity has, or ever inherits, the ownership or the trust of
\* an executable one.
IdentitySound ==
    \A a \in Agents : head[a].kind = "declarative" =>
        /\ a \notin bound
        /\ (head[a].status = "active") = (head[a].sel # 0)
        /\ head[a].sel <= head[a].latest
        /\ head[a].deleted => head[a].status = "archived"

\* Every accepted command has one receipt and moved the head by one, however
\* often it was prepared, retried or raced: the receipts of an agent name
\* its state revisions 0 .. ver, each once.
ReceiptsExact ==
    \A a \in Agents : head[a].kind = "declarative" =>
        /\ {receipt[c].ver : c \in Receipts(a)} = 0 .. head[a].ver
        /\ Cardinality(Receipts(a)) = head[a].ver + 1

\* The receipts kept back for archive and delete are never spent on anything
\* else: an agent that is not deleted can still be, and one that is not
\* archived can still be archived first.
ReserveKept ==
    \A a \in Agents : head[a].kind = "declarative" =>
        /\ ~head[a].deleted => Cardinality(Receipts(a)) < Capacity
        /\ head[a].status # "archived" => Cardinality(Receipts(a)) < Capacity - 1

\* A selection that is not invalidated names the definition that is active
\* now, whatever commands have run since it was made.
SelectionCurrent ==
    \A s \in Selections : chosen[s] # Null =>
        /\ head[chosen[s].agent].status = "active"
        /\ head[chosen[s].agent].sel = chosen[s].rev

\* A deleted agent stays deleted with every field it had, an identity never
\* changes kind, and the definitions of an agent only accumulate.
AgentsStay ==
    \A a \in Agents :
        /\ head[a].deleted => head'[a] = head[a]
        /\ head[a].kind # "none" => head'[a].kind = head[a].kind
        /\ head'[a].latest >= head[a].latest

AgentSound == TypeOK /\ IdentitySound /\ ReceiptsExact /\ ReserveKept /\ SelectionCurrent
=============================================================================
