----------------------------- MODULE MCRecords ------------------------------
(***************************************************************************)
(* Instances for TLC of the records of conversations, bundles, drafts,     *)
(* agents, authority, sessions, mesh members and the audit chain.  Each    *)
(* scenario opens one question of one component; a run explores the union  *)
(* of its scenarios, which share the slots v1, v2, ... as their variables. *)
(***************************************************************************)
EXTENDS Integers, Sequences, FiniteSets, TLC

CONSTANTS Scenarios, Null

VARIABLES scenario, v1, v2, v3, v4, v5, v6, v7, v8, v9, v10, v11, v12

vars == <<scenario, v1, v2, v3, v4, v5, v6, v7, v8, v9, v10, v11, v12>>

-----------------------------------------------------------------------------
Pair == {"k1", "k2"}

(* The constants of the scenarios, by name so that TLC computes them once. *)
Pubs1 == {"first", "reply", "other"}
Role1 == "first" :> "user_acceptance" @@ "reply" :> "assistant_result" @@ "other" :> "atomic"
Items1 == {"i"}
Values1 == {"x"}
Pubs2 == {"edit", "s", "t"}
Role2 == [p \in {"edit", "s", "t"} |-> "atomic"]
Saves1 == {"s", "t"}
Values2 == {"x", "y"}
Operations1 == {"o", "p"}
Claims1 == {"c"}
Operations2 == {"o"}
Claims2 == {"c", "d"}
Statuses1 == {"live"}
RevisionOf1 == "k1" :> "r1" @@ "k2" :> "r1"
BundleOf1 == "k1" :> "a" @@ "k2" :> "b"
BundleOf2 == "k1" :> "a" @@ "k2" :> "a"
Keys1 == {"k1"}
RevisionOf2 == "k1" :> "r1"
BundleOf3 == "k1" :> "a"
Intruders1 == {"foreign", "a"}
Events1 == {"e", "f", "g"}
Verifiers1 == {"v"}
Members1 == {"m", "n"}
Hosts1 == {"g", "h"}
Hosts2 == {"h"}
Members2 == {"m"}
Sids1 == {"s"}
Bindings1 == {"b"}
Effects1 == {"e", "f"}
Effects2 == {"e"}
Bindings2 == {"b", "c"}
Instances1 == {"i", "j"}
Writers1 == {"w"}
Requests1 == {"q"}
Writers2 == {"v", "w"}
Agents1 == {"a"}
Commands1 == 1 .. 4
Kinds1 == {"create", "revise", "activate", "archive", "delete"}
Agents2 == {"a", "b"}
Commands2 == 1 .. 2
Kinds2 == {"create", "clone"}
Policies1 == {"p"}

\* An assistant reply overtaken by another publication and rebased.
Reply == INSTANCE Conversations WITH
  chat <- v1, pub <- v2, rows <- v3, flight <- v4, save <- v5,
  Pubs <- Pubs1, Role <- Role1, Saves <- {}, Items <- Items1, Values <- Values1, MaxPosition <- 0,
  MaxFlight <- 1, Legacy <- FALSE, Null <- Null

\* Two result saves and an edit against one head, from a legacy canvas.
Saved == INSTANCE Conversations WITH
  chat <- v1, pub <- v2, rows <- v3, flight <- v4, save <- v5,
  Pubs <- Pubs2, Role <- Role2, Saves <- Saves1, Items <- Items1, Values <- Values2,
  MaxPosition <- 0, MaxFlight <- 1, Legacy <- TRUE, Null <- Null

\* A publication that is retried and recovered while the draft moves on.
Journal == INSTANCE DraftPublications WITH
  clock <- v1, draft <- v2, ops <- v3, pub <- v4, revs <- v5,
  Operations <- Operations1, Claims <- Claims1, Statuses <- {}, Lease <- 1, MaxTime <- 1,
  MaxGen <- 2, MaxRevision <- 2, MaxSteps <- 4, Null <- Null

\* Two claims on one draft, and the host that edits it.
Contend == INSTANCE DraftPublications WITH
  clock <- v1, draft <- v2, ops <- v3, pub <- v4, revs <- v5,
  Operations <- Operations2, Claims <- Claims2, Statuses <- Statuses1, Lease <- 1, MaxTime <- 2,
  MaxGen <- 1, MaxRevision <- 4, MaxSteps <- 3, Null <- Null

\* Two publications with different bytes for one revision.
Rivals == INSTANCE BundleStore WITH
  now <- v1, safe <- v2, node <- v3, op <- v4, staged <- v5, published <- v6, withdrawn <- v7,
  losses <- v8,
  Keys <- Pair, RevisionOf <- RevisionOf1, BundleOf <- BundleOf1, Intruders <- {}, MaxNodes <- 2,
  MaxLosses <- 1, Null <- Null

\* Two publications with the same bytes for one revision.
Twins == INSTANCE BundleStore WITH
  now <- v1, safe <- v2, node <- v3, op <- v4, staged <- v5, published <- v6, withdrawn <- v7,
  losses <- v8,
  Keys <- Pair, RevisionOf <- RevisionOf1, BundleOf <- BundleOf2, Intruders <- {}, MaxNodes <- 2,
  MaxLosses <- 1, Null <- Null

\* One publication, power lost twice, and another program at its paths.
Single == INSTANCE BundleStore WITH
  now <- v1, safe <- v2, node <- v3, op <- v4, staged <- v5, published <- v6, withdrawn <- v7,
  losses <- v8,
  Keys <- Keys1, RevisionOf <- RevisionOf2, BundleOf <- BundleOf3, Intruders <- Intruders1,
  MaxNodes <- 3, MaxLosses <- 2, Null <- Null

\* Appends, prunes and damage under a verifier.
Chained == INSTANCE AuditChain WITH
  rows <- v1, anchors <- v2, log <- v3, damaged <- v4, loaded <- v5, verdict <- v6,
  Events <- Events1, Verifiers <- Verifiers1, MaxSequence <- 4, MaxDamage <- 1, Null <- Null

\* Two hosts that activate, retire and revoke two members.
Membered == INSTANCE Mesh WITH
  now <- v1, mesh <- v2, member <- v3, ident <- v4, inv <- v5, chal <- v6, revocations <- v7, seen
  <- v8, pin <- v9,
  Members <- Members1, Identities <- {}, Invitations <- {}, Challenges <- {}, Hosts <- Hosts1,
  MaxVersion <- 3, MaxTime <- 0, Life <- 1, Null <- Null

\* An invitation for one of two members, and its window.
Enrolled == INSTANCE Mesh WITH
  now <- v1, mesh <- v2, member <- v3, ident <- v4, inv <- v5, chal <- v6, revocations <- v7, seen
  <- v8, pin <- v9,
  Members <- Members1, Identities <- {}, Invitations <- Verifiers1, Challenges <- {},
  Hosts <- Hosts2, MaxVersion <- 3, MaxTime <- 1, Life <- 1, Null <- Null

\* The keys and the challenge of a member that comes and goes.
Keyed == INSTANCE Mesh WITH
  now <- v1, mesh <- v2, member <- v3, ident <- v4, inv <- v5, chal <- v6, revocations <- v7, seen
  <- v8, pin <- v9,
  Members <- Members2, Identities <- Items1, Invitations <- {}, Challenges <- Claims1,
  Hosts <- Hosts2, MaxVersion <- 3, MaxTime <- 1, Life <- 1, Null <- Null

\* Two hosts, a session that is rotated, deleted and recreated.
Session == INSTANCE Credentials WITH
  now <- v1, owner <- v2, sent <- v3, session <- v4, incs <- v5, ended <- v6, origin <- v7, held <-
  v8, issuing <- v9, cred <- v10, grant <- v11, queue <- v12,
  Hosts <- Hosts1, Sids <- Sids1, Creds <- {}, Grants <- {}, Allowance <- 1, Life <- 1,
  Window <- 1, MaxTime <- 1, MaxTokens <- 3, MaxIncarnations <- 2, MaxAttempts <- 0, Null <- Null

\* Framework credentials issued from a session that may end.
Minted == INSTANCE Credentials WITH
  now <- v1, owner <- v2, sent <- v3, session <- v4, incs <- v5, ended <- v6, origin <- v7, held <-
  v8, issuing <- v9, cred <- v10, grant <- v11, queue <- v12,
  Hosts <- Hosts2, Sids <- Sids1, Creds <- Claims1, Grants <- {}, Allowance <- 1, Life <- 2,
  Window <- 1, MaxTime <- 2, MaxTokens <- 1, MaxIncarnations <- 2, MaxAttempts <- 1, Null <- Null

\* Two hosts rotating offline grants.
Granted == INSTANCE Credentials WITH
  now <- v1, owner <- v2, sent <- v3, session <- v4, incs <- v5, ended <- v6, origin <- v7, held <-
  v8, issuing <- v9, cred <- v10, grant <- v11, queue <- v12,
  Hosts <- Hosts1, Sids <- {}, Creds <- {}, Grants <- Values2, Allowance <- 1, Life <- 1,
  Window <- 1, MaxTime <- 1, MaxTokens <- 2, MaxIncarnations <- 0, MaxAttempts <- 1, Null <- Null

\* Two effects under one lease, with a recovery.
Effected == INSTANCE AuthorityLedger WITH
  binding <- v1, life <- v2, effect <- v3, claim <- v4, mark <- v5, outbox <- v6, held <- v7, lease
  <- v8, issued <- v9, ran <- v10,
  Bindings <- Bindings1, Effects <- Effects1, Operations <- {}, Hosts <- Hosts2, MaxVersion <- 2,
  Null <- Null

\* One effect, two hosts and a recovery.
Raced == INSTANCE AuthorityLedger WITH
  binding <- v1, life <- v2, effect <- v3, claim <- v4, mark <- v5, outbox <- v6, held <- v7, lease
  <- v8, issued <- v9, ran <- v10,
  Bindings <- Bindings1, Effects <- Effects2, Operations <- {}, Hosts <- Hosts1, MaxVersion <- 2,
  Null <- Null

\* Two bindings of one agent and a lifecycle operation.
Bound == INSTANCE AuthorityLedger WITH
  binding <- v1, life <- v2, effect <- v3, claim <- v4, mark <- v5, outbox <- v6, held <- v7, lease
  <- v8, issued <- v9, ran <- v10,
  Bindings <- Bindings2, Effects <- {}, Operations <- Operations2, Hosts <- Hosts1,
  MaxVersion <- 2, Null <- Null

\* Two runtime instances of one agent, a host and the sweeper.
Instance == INSTANCE AgentRuntimes WITH
  now <- v1, session <- v2, inst <- v3, req <- v4, held <- v5, listed <- v6,
  Sessions <- Sids1, Instances <- Instances1, Requests <- {}, Writers <- Writers1, Timeout <- 1,
  MaxTime <- 2, MaxRevision <- 4, Null <- Null

\* Two writers of one instance and of its request.
Report == INSTANCE AgentRuntimes WITH
  now <- v1, session <- v2, inst <- v3, req <- v4, held <- v5, listed <- v6,
  Sessions <- Sids1, Instances <- Items1, Requests <- Requests1, Writers <- Writers2, Timeout <- 1,
  MaxTime <- 2, MaxRevision <- 3, Null <- Null

\* Declarative commands up to the receipt capacity, with a dependent assignment.
Command == INSTANCE Agents WITH
  head <- v1, bound <- v2, cmd <- v3, prep <- v4, receipt <- v5, chosen <- v6, marker <- v7, seen <-
  v8, retired <- v9,
  Agents <- Agents1, Commands <- Commands1, Kinds <- Kinds1, Capacity <- 4, Hosts <- {},
  Policies <- {}, Selections <- Sids1, MaxVersion <- 0, Null <- Null

\* Two identities that are created, cloned, owned and tombstoned.
Identity == INSTANCE Agents WITH
  head <- v1, bound <- v2, cmd <- v3, prep <- v4, receipt <- v5, chosen <- v6, marker <- v7, seen <-
  v8, retired <- v9,
  Agents <- Agents2, Commands <- Commands2, Kinds <- Kinds2, Capacity <- 4, Hosts <- Hosts2,
  Policies <- Policies1, Selections <- {}, MaxVersion <- 2, Null <- Null

ASSUME Membered!MeshConstants /\ Enrolled!MeshConstants /\ Keyed!MeshConstants

-----------------------------------------------------------------------------
Init ==
  /\ scenario \in Scenarios
  /\ \/ scenario = "reply" /\ Reply!Init /\ v6 = Null /\ v7 = Null /\ v8 = Null /\ v9 = Null /\ v10 = Null /\ v11 = Null /\ v12 = Null
     \/ scenario = "saves" /\ Saved!Init /\ v6 = Null /\ v7 = Null /\ v8 = Null /\ v9 = Null /\ v10 = Null /\ v11 = Null /\ v12 = Null
     \/ scenario = "journal" /\ Journal!Init /\ v6 = Null /\ v7 = Null /\ v8 = Null /\ v9 = Null /\ v10 = Null /\ v11 = Null /\ v12 = Null
     \/ scenario = "claims" /\ Contend!Init /\ v6 = Null /\ v7 = Null /\ v8 = Null /\ v9 = Null /\ v10 = Null /\ v11 = Null /\ v12 = Null
     \/ scenario = "rivals" /\ Rivals!Init /\ v9 = Null /\ v10 = Null /\ v11 = Null /\ v12 = Null
     \/ scenario = "twins" /\ Twins!Init /\ v9 = Null /\ v10 = Null /\ v11 = Null /\ v12 = Null
     \/ scenario = "single" /\ Single!Init /\ v9 = Null /\ v10 = Null /\ v11 = Null /\ v12 = Null
     \/ scenario = "chain" /\ Chained!Init /\ v7 = Null /\ v8 = Null /\ v9 = Null /\ v10 = Null /\ v11 = Null /\ v12 = Null
     \/ scenario = "members" /\ Membered!Init /\ v10 = Null /\ v11 = Null /\ v12 = Null
     \/ scenario = "enrolled" /\ Enrolled!Init /\ v10 = Null /\ v11 = Null /\ v12 = Null
     \/ scenario = "keys" /\ Keyed!Init /\ v10 = Null /\ v11 = Null /\ v12 = Null
     \/ scenario = "sessions" /\ Session!Init
     \/ scenario = "minted" /\ Minted!Init
     \/ scenario = "grants" /\ Granted!Init
     \/ scenario = "effects" /\ Effected!Init /\ v11 = Null /\ v12 = Null
     \/ scenario = "racers" /\ Raced!Init /\ v11 = Null /\ v12 = Null
     \/ scenario = "bindings" /\ Bound!Init /\ v11 = Null /\ v12 = Null
     \/ scenario = "instances" /\ Instance!Init /\ v7 = Null /\ v8 = Null /\ v9 = Null /\ v10 = Null /\ v11 = Null /\ v12 = Null
     \/ scenario = "reports" /\ Report!Init /\ v7 = Null /\ v8 = Null /\ v9 = Null /\ v10 = Null /\ v11 = Null /\ v12 = Null
     \/ scenario = "commands" /\ Command!Init /\ v10 = Null /\ v11 = Null /\ v12 = Null
     \/ scenario = "identity" /\ Identity!Init /\ v10 = Null /\ v11 = Null /\ v12 = Null

Next ==
  /\ UNCHANGED scenario
  /\ \/ scenario = "reply" /\ Reply!Next /\ UNCHANGED <<v6, v7, v8, v9, v10, v11, v12>>
     \/ scenario = "saves" /\ Saved!Next /\ UNCHANGED <<v6, v7, v8, v9, v10, v11, v12>>
     \/ scenario = "journal" /\ Journal!Next /\ UNCHANGED <<v6, v7, v8, v9, v10, v11, v12>>
     \/ scenario = "claims" /\ Contend!Next /\ UNCHANGED <<v6, v7, v8, v9, v10, v11, v12>>
     \/ scenario = "rivals" /\ Rivals!Next /\ UNCHANGED <<v9, v10, v11, v12>>
     \/ scenario = "twins" /\ Twins!Next /\ UNCHANGED <<v9, v10, v11, v12>>
     \/ scenario = "single" /\ Single!Next /\ UNCHANGED <<v9, v10, v11, v12>>
     \/ scenario = "chain" /\ Chained!Next /\ UNCHANGED <<v7, v8, v9, v10, v11, v12>>
     \/ scenario = "members" /\ Membered!Next /\ UNCHANGED <<v10, v11, v12>>
     \/ scenario = "enrolled" /\ Enrolled!Next /\ UNCHANGED <<v10, v11, v12>>
     \/ scenario = "keys" /\ Keyed!Next /\ UNCHANGED <<v10, v11, v12>>
     \/ scenario = "sessions" /\ Session!Next
     \/ scenario = "minted" /\ Minted!Next
     \/ scenario = "grants" /\ Granted!Next
     \/ scenario = "effects" /\ Effected!Next /\ UNCHANGED <<v11, v12>>
     \/ scenario = "racers" /\ Raced!Next /\ UNCHANGED <<v11, v12>>
     \/ scenario = "bindings" /\ Bound!Next /\ UNCHANGED <<v11, v12>>
     \/ scenario = "instances" /\ Instance!Next /\ UNCHANGED <<v7, v8, v9, v10, v11, v12>>
     \/ scenario = "reports" /\ Report!Next /\ UNCHANGED <<v7, v8, v9, v10, v11, v12>>
     \/ scenario = "commands" /\ Command!Next /\ UNCHANGED <<v10, v11, v12>>
     \/ scenario = "identity" /\ Identity!Next /\ UNCHANGED <<v10, v11, v12>>

Spec == Init /\ [][Next]_vars

-----------------------------------------------------------------------------
\* Publications form one chain of heads, and readers see what was committed (stage,
\* append, commit and rebase in workspaces.py, save in result_publications.py).
ConversationSound ==
  /\ scenario = "reply" => Reply!ConversationSound
  /\ scenario = "saves" => Saved!ConversationSound

\* Bundles are visible only whole, a published one stays and no receipt loses its bytes,
\* whenever power is lost (publish, recover and withdraw in immutable_bundle_store.py).
StoreSound ==
  /\ scenario = "rivals" => Rivals!StoreSound
  /\ scenario = "twins" => Twins!StoreSound
  /\ scenario = "single" => Single!StoreSound

\* The records of a publication agree, and one at most can still move
\* (generated_agent_publications.py, drafts.py).
DraftSound ==
  /\ scenario = "journal" => Journal!DraftSound
  /\ scenario = "claims" => Contend!DraftSound

\* The audit chain continues under its anchors, verdicts about it are exact, and so are
\* the epochs of a mesh (append in audit.py, prune and verify in audit_retention.py,
\* mesh_enrollment.py).
ChainSound ==
  /\ scenario = "chain" => Chained!ChainSound
  /\ scenario = "members" => Membered!MeshSound
  /\ scenario = "enrolled" => Enrolled!MeshSound
  /\ scenario = "keys" => Keyed!MeshSound

\* One identity is one agent, its receipts are exact, and selections are current
\* (agents.py).
AgentSound ==
  /\ scenario = "instances" => Instance!RuntimeSound
  /\ scenario = "reports" => Report!RuntimeSound
  /\ scenario = "commands" => Command!AgentSound
  /\ scenario = "identity" => Identity!AgentSound

\* Effects happen once, under a claimed receipt, and claims agree with their watermark;
\* of two hosts that exchange a refresh token one succeeds (authority/repository.py,
\* history.py, framework_credentials.py, offline_grants.py).
AuthoritySound ==
  /\ scenario = "effects" => Effected!LedgerSound
  /\ scenario = "racers" => Raced!LedgerSound
  /\ scenario = "bindings" => Bound!LedgerSound
  /\ scenario = "sessions" => Session!CredentialSound
  /\ scenario = "minted" => Minted!CredentialSound
  /\ scenario = "grants" => Granted!CredentialSound

RecordsKeptStep ==
  /\ scenario = "reply" => Reply!ConversationKept
  /\ scenario = "saves" => Saved!ConversationKept
  /\ scenario = "rivals" => Rivals!StoreKept
  /\ scenario = "twins" => Twins!StoreKept
  /\ scenario = "single" => Single!StoreKept
  /\ scenario = "journal" => Journal!DraftKept
  /\ scenario = "claims" => Contend!DraftKept
  /\ scenario = "chain" => Chained!AnchorsStay
  /\ scenario = "members" => Membered!MeshStays
  /\ scenario = "enrolled" => Enrolled!MeshStays
  /\ scenario = "keys" => Keyed!MeshStays
  /\ scenario = "instances" => Instance!RuntimeKept
  /\ scenario = "reports" => Report!RuntimeKept
  /\ scenario = "commands" => Command!AgentsStay
  /\ scenario = "identity" => Identity!AgentsStay
  /\ scenario = "effects" => Effected!LedgerStays
  /\ scenario = "racers" => Raced!LedgerStays
  /\ scenario = "bindings" => Bound!LedgerStays
  /\ scenario = "sessions" => Session!CredentialsStay
  /\ scenario = "minted" => Minted!CredentialsStay
  /\ scenario = "grants" => Granted!CredentialsStay

\* Nothing that was decided is replaced: shown messages and committed publications,
\* revisions of bundles, publications the draft has left behind, anchors, ended members
\* and keys, reports of an ended runtime, deleted agents, terminal effects and their
\* claims, and sessions, credentials and grants of a retired owner (workspaces.py,
\* immutable_bundle_store.py, generated_agent_publications.py, audit_retention.py,
\* mesh_enrollment.py, agents.py, authority/repository.py, history.py,
\* framework_credentials.py).
RecordsKept == [][RecordsKeptStep]_vars

=============================================================================
