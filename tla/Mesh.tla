-------------------------------- MODULE Mesh --------------------------------
(***************************************************************************)
(* The mesh of one owner (repositories/mesh_enrollment.py): its record     *)
(* with the two epochs, members, public identities, invitations and        *)
(* challenges.  Hosts read records, decide, and write back under the       *)
(* versions they read.  A host that asserts a current member keeps the     *)
(* mesh and the member locked until its transaction ends.                  *)
(*                                                                         *)
(* An exact replay of bootstrap, bind, issue or of a challenge finds the   *)
(* row and changes nothing; another owner never reaches the rows.          *)
(***************************************************************************)
EXTENDS Integers, FiniteSets

CONSTANTS Members, Identities, Invitations, Challenges, Hosts,
          MaxVersion, MaxTime, Life, Null

VARIABLES
    now,
    mesh,        \* mesh_record: epochs of membership and revocation, version
    member,      \* mesh_member rows
    ident,       \* mesh_public_identity rows
    inv,         \* mesh_enrollment_invitation rows
    chal,        \* mesh_enrollment_challenge rows
    revocations, \* mesh_member_revocation rows
    seen,        \* what each host has read
    pin          \* the member a host has asserted and holds locked

others == <<now, ident, chal>>
vars == <<now, mesh, member, ident, inv, chal, revocations, seen, pin>>

-----------------------------------------------------------------------------

MeshRows == [joined: Nat, revoked: Nat, ver: Nat]

MemberRows == [status: {"active", "revoked", "retired"}, epoch: Nat, ver: Nat]

IdentityRows == [of: Members, state: {"active", "rotated", "revoked"}, ver: Nat]

InvitationRows == [state: {"pending", "consumed", "confirmed", "expired", "revoked"},
                   expires: Nat, ver: Nat]

ChallengeRows == [state: {"pending", "proven", "cancelled"}, expires: Nat]

\* What a host has read: the mesh, one member, and the versions of invitations.
Views == [mesh: MeshRows, member: Members, row: MemberRows \cup {Null},
          inv: [Invitations -> Nat]]

\* What the module takes for granted of its constants: SQL NULL is no row.
MeshConstants ==
    /\ {MaxVersion, MaxTime, Life} \subseteq Nat
    /\ Null \notin MeshRows \cup MemberRows \cup IdentityRows \cup InvitationRows
                    \cup ChallengeRows \cup Views

TypeOK ==
    /\ now \in 0 .. MaxTime
    /\ mesh \in MeshRows \cup {Null}
    /\ member \in [Members -> MemberRows \cup {Null}]
    /\ ident \in [Identities -> IdentityRows \cup {Null}]
    /\ inv \in [Invitations -> InvitationRows \cup {Null}]
    /\ chal \in [Challenges -> ChallengeRows \cup {Null}]
    /\ revocations \subseteq [member: Members, epoch: Nat]
    /\ seen \in [Hosts -> Views \cup {Null}]
    /\ pin \in [Hosts -> Views \cup {Null}]

Init ==
    /\ now = 0
    /\ mesh = Null
    /\ member = [m \in Members |-> Null]
    /\ ident = [i \in Identities |-> Null]
    /\ inv = [v \in Invitations |-> Null]
    /\ chal = [c \in Challenges |-> Null]
    /\ revocations = {}
    /\ seen = [h \in Hosts |-> Null]
    /\ pin = [h \in Hosts |-> Null]

-----------------------------------------------------------------------------

\* A row lock that another host holds until the end of its transaction.
MeshUnlocked == \A h \in Hosts : pin[h] = Null
MemberUnlocked(m) == \A h \in Hosts : pin[h] # Null => pin[h].member # m

BootstrapMesh(m) ==
    /\ mesh = Null
    /\ mesh' = [joined |-> 1, revoked |-> 0, ver |-> 1]
    /\ member' = [member EXCEPT ![m] = [status |-> "active", epoch |-> 1, ver |-> 1]]
    /\ UNCHANGED <<inv, revocations, seen, pin, others>>

Version(row) == IF row = Null THEN 0 ELSE row.ver

Read(h, m) ==
    /\ seen[h] = Null /\ pin[h] = Null
    /\ mesh # Null
    /\ seen' = [seen EXCEPT ![h] = [mesh |-> mesh, member |-> m, row |-> member[m],
                                    inv |-> [v \in Invitations |-> Version(inv[v])]]]
    /\ UNCHANGED <<mesh, member, inv, revocations, pin, others>>

Forget(h) ==
    /\ seen[h] # Null
    /\ seen' = [seen EXCEPT ![h] = Null]
    /\ UNCHANGED <<mesh, member, inv, revocations, pin, others>>

\* _lock_mesh with the version the host read.
LockMesh(h) ==
    /\ seen[h] # Null
    /\ MeshUnlocked
    /\ mesh.ver = seen[h].mesh.ver
    /\ mesh.ver < MaxVersion /\ Version(member[seen[h].member]) < MaxVersion

MemberFence(h) == Version(member[seen[h].member]) = Version(seen[h].row)

RenameMesh(h) ==
    /\ LockMesh(h)
    /\ mesh' = [mesh EXCEPT !.ver = @ + 1]
    /\ seen' = [seen EXCEPT ![h] = Null]
    /\ UNCHANGED <<member, inv, revocations, pin, others>>

\* activate_member, for a new member and for one that comes back.
Activate(h) ==
    /\ LockMesh(h)
    /\ MemberFence(h)
    /\ mesh' = [mesh EXCEPT !.joined = @ + 1, !.ver = @ + 1]
    /\ member' = [member EXCEPT ![seen[h].member] =
                    [status |-> "active", epoch |-> mesh.joined + 1,
                     ver |-> Version(member[seen[h].member]) + 1]]
    /\ seen' = [seen EXCEPT ![h] = Null]

ActivateMember(h) ==
    /\ Activate(h)
    /\ UNCHANGED <<inv, revocations, pin, others>>

\* retire_member fences the member alone and takes no epoch.
RetireMember(h) ==
    /\ seen[h] # Null
    /\ seen[h].row # Null
    /\ LET m == seen[h].member
       IN  /\ MemberUnlocked(m)
           /\ MemberFence(h)
           /\ member[m].status # "retired"
           /\ member[m].ver < MaxVersion
           /\ member' = [member EXCEPT ![m].status = "retired", ![m].ver = @ + 1]
    /\ seen' = [seen EXCEPT ![h] = Null]
    /\ UNCHANGED <<mesh, inv, revocations, pin, others>>

RevokeMember(h) ==
    /\ LockMesh(h)
    /\ seen[h].row # Null
    /\ MemberFence(h)
    /\ LET m == seen[h].member
       IN  /\ member[m].status # "revoked"
           /\ mesh' = [mesh EXCEPT !.revoked = @ + 1, !.ver = @ + 1]
           /\ member' = [member EXCEPT ![m].status = "revoked", ![m].ver = @ + 1]
           /\ revocations' = revocations \union {[member |-> m, epoch |-> mesh.revoked + 1]}
    /\ seen' = [seen EXCEPT ![h] = Null]
    /\ UNCHANGED <<inv, pin, others>>

\* assert_current_member with all three fences; the locks stay until the
\* caller's transaction ends.
AssertCurrentMember(h) ==
    /\ seen[h] # Null
    /\ seen[h].row # Null
    /\ MeshUnlocked
    /\ member[seen[h].member].status = "active"
    /\ mesh.joined = seen[h].mesh.joined
    /\ mesh.revoked = seen[h].mesh.revoked
    /\ MemberFence(h)
    /\ pin' = [pin EXCEPT ![h] = seen[h]]
    /\ seen' = [seen EXCEPT ![h] = Null]
    /\ UNCHANGED <<mesh, member, inv, revocations, others>>

EndTransaction(h) ==
    /\ pin[h] # Null
    /\ pin' = [pin EXCEPT ![h] = Null]
    /\ UNCHANGED <<mesh, member, inv, revocations, seen, others>>

-----------------------------------------------------------------------------

BindPublicIdentity(i, m) ==
    /\ ident[i] = Null
    /\ member[m] # Null
    /\ MemberUnlocked(m)
    /\ member[m].status = "active"
    /\ ident' = [ident EXCEPT ![i] = [of |-> m, state |-> "active", ver |-> 1]]
    /\ UNCHANGED <<now, mesh, member, inv, chal, revocations, seen, pin>>

RotatePublicIdentity(i) ==
    /\ ident[i] # Null
    /\ ident[i].state = "active"
    /\ ident' = [ident EXCEPT ![i].state = "rotated", ![i].ver = @ + 1]
    /\ UNCHANGED <<now, mesh, member, inv, chal, revocations, seen, pin>>

RevokePublicIdentity(i) ==
    /\ ident[i] # Null
    /\ ident[i].state # "revoked"
    /\ ident' = [ident EXCEPT ![i].state = "revoked", ![i].ver = @ + 1]
    /\ UNCHANGED <<now, mesh, member, inv, chal, revocations, seen, pin>>

-----------------------------------------------------------------------------

IssueChallenge(c) ==
    /\ mesh # Null
    /\ chal[c] = Null
    /\ chal' = [chal EXCEPT ![c] = [state |-> "pending", expires |-> now + Life]]
    /\ UNCHANGED <<now, mesh, member, ident, inv, revocations, seen, pin>>

ProveChallenge(c) ==
    /\ chal[c] # Null
    /\ chal[c].state = "pending"
    /\ now < chal[c].expires
    /\ chal' = [chal EXCEPT ![c].state = "proven"]
    /\ UNCHANGED <<now, mesh, member, ident, inv, revocations, seen, pin>>

CancelChallenge(c) ==
    /\ chal[c] # Null
    /\ chal[c].state = "pending"
    /\ chal' = [chal EXCEPT ![c].state = "cancelled"]
    /\ UNCHANGED <<now, mesh, member, ident, inv, revocations, seen, pin>>

IssueInvitation(v) ==
    /\ mesh # Null
    /\ inv[v] = Null
    /\ inv' = [inv EXCEPT ![v] = [state |-> "pending", expires |-> now + Life, ver |-> 1]]
    /\ UNCHANGED <<mesh, member, revocations, seen, pin, others>>

Moved(v, states, to) ==
    /\ inv[v] # Null
    /\ inv[v].state \in states
    /\ inv' = [inv EXCEPT ![v].state = to, ![v].ver = @ + 1]

ConsumeInvitation(v) ==
    /\ Moved(v, {"pending"}, "consumed")
    /\ now < inv[v].expires
    /\ UNCHANGED <<mesh, member, revocations, seen, pin, others>>

ExpireInvitation(v) ==
    /\ Moved(v, {"pending"}, "expired")
    /\ inv[v].expires <= now
    /\ UNCHANGED <<mesh, member, revocations, seen, pin, others>>

RevokeInvitation(v) ==
    /\ Moved(v, {"pending", "consumed"}, "revoked")
    /\ UNCHANGED <<mesh, member, revocations, seen, pin, others>>

\* confirm_invitation: the invitation and the member in one savepoint.
ConfirmInvitation(h, v) ==
    /\ seen[h] # Null
    /\ Version(inv[v]) = seen[h].inv[v]
    /\ Moved(v, {"consumed"}, "confirmed")
    /\ now < inv[v].expires
    /\ Activate(h)
    /\ UNCHANGED <<revocations, pin, others>>

Tick ==
    /\ now < MaxTime
    /\ now' = now + 1
    /\ UNCHANGED <<mesh, member, ident, inv, chal, revocations, seen, pin>>

-----------------------------------------------------------------------------

Next ==
    \/ Tick
    \/ \E m \in Members :
        \/ BootstrapMesh(m)
        \/ \E h \in Hosts : Read(h, m)
        \/ \E i \in Identities : BindPublicIdentity(i, m)
    \/ \E h \in Hosts :
        \/ Forget(h) \/ RenameMesh(h) \/ ActivateMember(h) \/ RetireMember(h)
        \/ RevokeMember(h) \/ AssertCurrentMember(h) \/ EndTransaction(h)
        \/ \E v \in Invitations : ConfirmInvitation(h, v)
    \/ \E i \in Identities : RotatePublicIdentity(i) \/ RevokePublicIdentity(i)
    \/ \E c \in Challenges : IssueChallenge(c) \/ ProveChallenge(c) \/ CancelChallenge(c)
    \/ \E v \in Invitations :
        \/ IssueInvitation(v) \/ ConsumeInvitation(v) \/ ExpireInvitation(v)
        \/ RevokeInvitation(v)

Spec == Init /\ [][Next]_vars

-----------------------------------------------------------------------------

\* The epochs are exact: no two members were activated in the same membership
\* epoch, the revocation records are the epochs 1 .. revocation_epoch with one
\* record each, a revoked member has one, and a member that was revoked and is
\* active was activated again since, so it has more versions than revocations.
EpochsExact ==
    mesh # Null =>
        /\ \A m, n \in Members : (m # n /\ member[m] # Null /\ member[n] # Null)
                                    => member[m].epoch # member[n].epoch
        /\ \A m \in Members : member[m] # Null => member[m].epoch <= mesh.joined
        /\ {r.epoch : r \in revocations} = 1 .. mesh.revoked
        /\ Cardinality(revocations) = mesh.revoked
        /\ \A m \in Members :
              LET times == Cardinality({r \in revocations : r.member = m})
              IN  /\ member[m] = Null => times = 0
                  /\ member[m] # Null => member[m].ver > times

\* While a host's transaction holds the member it asserted, the member is
\* active and neither epoch moves: whatever it does is under that membership.
PinnedCurrent ==
    \A h \in Hosts : pin[h] # Null =>
        /\ member[pin[h].member] = pin[h].row
        /\ mesh.joined = pin[h].mesh.joined
        /\ mesh.revoked = pin[h].mesh.revoked

\* A member that was retired or revoked is active again only by a host that
\* had read that very retirement or revocation, in a new membership epoch;
\* and an invitation admits one member, once, within its window.
AdmittedKnowingly ==
    /\ \A m \in Members :
          (member'[m] # Null /\ member'[m] # member[m] /\ member'[m].status = "active") =>
              /\ member'[m].epoch = mesh'.joined
              /\ mesh # Null =>
                    \E h \in Hosts : /\ seen[h] # Null
                                     /\ seen[h].member = m
                                     /\ seen[h].row = member[m]
    /\ \A v \in Invitations : inv[v] # Null =>
          /\ inv[v].state \in {"confirmed", "expired", "revoked"} => inv'[v] = inv[v]
          /\ (inv'[v].state = "confirmed" /\ inv'[v] # inv[v]) =>
                /\ now < inv[v].expires
                /\ mesh'.joined = mesh.joined + 1

\* A key that was rotated out or revoked never becomes active again, and a
\* challenge is answered at most once.
KeysStay ==
    /\ \A i \in Identities : (ident[i] # Null /\ ident[i].state # "active")
                                => ident'[i].state # "active" /\ ident'[i].of = ident[i].of
    /\ \A c \in Challenges : (chal[c] # Null /\ chal[c].state # "pending") => chal'[c] = chal[c]

MeshSound == TypeOK /\ EpochsExact /\ PinnedCurrent
MeshStays == AdmittedKnowingly /\ KeysStay
=============================================================================
