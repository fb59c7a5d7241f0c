----------------------------- MODULE MeshProofs -----------------------------
(***************************************************************************)
(* Proofs about Mesh, for any number of members, hosts, identities,        *)
(* invitations and challenges.                                             *)
(*                                                                         *)
(* A host decides on what it read earlier and writes under the versions it *)
(* read.  That it then acts on the rows it read is the invariant Behind: a *)
(* row a host has read is not newer than the member's row, and one with    *)
(* the same version is that row.                                           *)
(***************************************************************************)
EXTENDS Mesh, FiniteSetTheorems, TLAPS

\* A leaf that names no backend is for the SMT solver.
USE SMTT(30)

\* What is known of the rows a host has read.
Behind(view) ==
    /\ mesh # Null
    /\ Version(view.row) <= Version(member[view.member])
    /\ Version(view.row) = Version(member[view.member]) => view.row = member[view.member]

SeenBehind == \A h \in Hosts : seen[h] # Null => Behind(seen[h])

\* A pinned member exists, as does the mesh it belongs to.
PinnedExists == \A h \in Hosts : pin[h] # Null => mesh # Null /\ pin[h].row # Null

\* Before the mesh there are neither members nor revocations, and a row has a version.
Founded ==
    /\ mesh = Null => revocations = {} /\ \A m \in Members : member[m] = Null
    /\ \A m \in Members : member[m] # Null => member[m].ver > 0

IInv == TypeOK /\ SeenBehind /\ PinnedExists /\ Founded /\ PinnedCurrent

-----------------------------------------------------------------------------

LEMMA InitInv == ASSUME MeshConstants, Init PROVE IInv
BY DEF MeshConstants, Init, IInv, TypeOK, SeenBehind, PinnedExists, Founded, PinnedCurrent

LEMMA VersionType ==
    ASSUME NEW row \in MemberRows \cup InvitationRows \cup {Null} PROVE Version(row) \in Nat
BY Zenon DEF Version, MemberRows, InvitationRows

\* What a step may do to a member: leave it, or write a row one version later.
MemberStep(m) ==
    \/ member'[m] = member[m]
    \/ member'[m] \in MemberRows /\ member'[m].ver = Version(member[m]) + 1

LEMMA BehindKept ==
    ASSUME MeshConstants, TypeOK, NEW view \in Views, Behind(view), mesh' # Null,
           MemberStep(view.member)
    PROVE  Behind(view)'
<1>1. /\ view.member \in Members /\ view.row \in MemberRows \cup {Null}
      /\ member[view.member] \in MemberRows \cup {Null}
  BY Zenon DEF TypeOK, Views
<1>2. Version(view.row) \in Nat /\ Version(member[view.member]) \in Nat
  BY <1>1, VersionType, Zenon
<1>3. CASE member'[view.member] = member[view.member]
  BY <1>3, Zenon DEF Behind
<1>4. CASE member'[view.member] \in MemberRows /\ member'[view.member].ver = Version(member[view.member]) + 1
  <2>1. Version(member'[view.member]) = Version(member[view.member]) + 1
    BY <1>4, Zenon DEF Version, MeshConstants
  <2> QED BY <1>2, <2>1 DEF Behind
<1> QED BY <1>3, <1>4, Zenon DEF MemberStep

-----------------------------------------------------------------------------

\* A host that passes its fences acts on the very rows it read.
LEMMA FencedView ==
    ASSUME MeshConstants, IInv, NEW h \in Hosts, seen[h] # Null, MemberFence(h)
    PROVE  /\ seen[h] \in Views /\ seen[h].member \in Members
           /\ mesh \in MeshRows /\ mesh # Null
           /\ seen[h].row = member[seen[h].member]
           /\ Version(member[seen[h].member]) \in Nat
<1>1. seen[h] \in Views /\ Behind(seen[h])
  BY Zenon DEF IInv, TypeOK, SeenBehind
<1>2. seen[h].member \in Members /\ mesh \in MeshRows /\ mesh # Null
  BY <1>1, Zenon DEF IInv, TypeOK, Views, Behind
<1>3. Version(member[seen[h].member]) \in Nat
  BY <1>2, VersionType, Zenon DEF IInv, TypeOK
<1> QED
  BY <1>1, <1>2, <1>3, Zenon DEF Behind, MemberFence

LEMMA MeshUpdates ==
    ASSUME NEW row \in MeshRows
    PROVE  /\ [row EXCEPT !.ver = @ + 1] \in MeshRows
           /\ [row EXCEPT !.ver = @ + 1].joined = row.joined
           /\ [row EXCEPT !.ver = @ + 1].revoked = row.revoked
           /\ [row EXCEPT !.joined = @ + 1, !.ver = @ + 1] \in MeshRows
           /\ [row EXCEPT !.joined = @ + 1, !.ver = @ + 1].joined = row.joined + 1
           /\ [row EXCEPT !.joined = @ + 1, !.ver = @ + 1].revoked = row.revoked
           /\ [row EXCEPT !.revoked = @ + 1, !.ver = @ + 1] \in MeshRows
           /\ [row EXCEPT !.revoked = @ + 1, !.ver = @ + 1].joined = row.joined
           /\ [row EXCEPT !.revoked = @ + 1, !.ver = @ + 1].revoked = row.revoked + 1
<1>1. row.ver + 1 \in Nat /\ row.joined + 1 \in Nat /\ row.revoked + 1 \in Nat
  BY DEF MeshRows
<1> QED
  BY <1>1, Zenon DEF MeshRows

\* One member changes, to a later version.
MemberWrite(m, status) ==
    /\ m \in Members
    /\ member' \in [Members -> MemberRows \cup {Null}]
    /\ member'[m] \in MemberRows
    /\ member'[m].ver = Version(member[m]) + 1
    /\ member'[m].status = status
    /\ \A n \in Members : n # m => member'[n] = member[n]

LEMMA ActivateWrites ==
    ASSUME MeshConstants, IInv, NEW h \in Hosts, Activate(h)
    PROVE  /\ MemberWrite(seen[h].member, "active")
           /\ seen[h].row = member[seen[h].member]
           /\ member'[seen[h].member].epoch = mesh.joined + 1
           /\ mesh \in MeshRows /\ mesh' \in MeshRows
           /\ mesh'.joined = mesh.joined + 1 /\ mesh'.revoked = mesh.revoked
           /\ \A g \in Hosts : pin[g] = Null
           /\ seen' = [seen EXCEPT ![h] = Null]
<1> DEFINE m == seen[h].member
           new == [status |-> "active", epoch |-> mesh.joined + 1, ver |-> Version(member[m]) + 1]
<1>1. /\ m \in Members /\ mesh \in MeshRows /\ seen[h].row = member[m]
      /\ Version(member[m]) \in Nat
  BY FencedView, Zenon DEF Activate, LockMesh
<1>2. new \in MemberRows /\ new.ver = Version(member[m]) + 1 /\ new.status = "active"
      /\ new.epoch = mesh.joined + 1
  BY <1>1 DEF MemberRows, MeshRows
<1>3. member' = [member EXCEPT ![m] = new]
  BY Zenon DEF Activate
<1> HIDE DEF new
<1>4. MemberWrite(m, "active") /\ member'[m] = new
  BY <1>1, <1>2, <1>3, Zenon DEF MemberWrite, IInv, TypeOK
<1>5. mesh' \in MeshRows /\ mesh'.joined = mesh.joined + 1 /\ mesh'.revoked = mesh.revoked
  BY <1>1, MeshUpdates, Zenon DEF Activate
<1> QED
  BY <1>1, <1>2, <1>4, <1>5, Zenon DEF Activate, LockMesh, MeshUnlocked

LEMMA RetireWrites ==
    ASSUME MeshConstants, IInv, NEW h \in Hosts, RetireMember(h)
    PROVE  /\ MemberWrite(seen[h].member, "retired")
           /\ member[seen[h].member] # Null
           /\ member'[seen[h].member].epoch = member[seen[h].member].epoch
           /\ mesh # Null /\ mesh' = mesh
           /\ \A g \in Hosts : pin[g] # Null => pin[g].member # seen[h].member
           /\ seen' = [seen EXCEPT ![h] = Null]
<1> DEFINE m == seen[h].member
           row == member[m]
<1>1. m \in Members /\ seen[h].row = row /\ row # Null /\ mesh # Null
  BY FencedView, Zenon DEF RetireMember
<1>2. row \in MemberRows
  BY <1>1, Zenon DEF IInv, TypeOK
<1>3. /\ member'[m] = [row EXCEPT !.status = "retired", !.ver = @ + 1]
      /\ \A n \in Members : n # m => member'[n] = member[n]
      /\ DOMAIN member' = Members
      /\ member' = [n \in Members |-> member'[n]]
  BY <1>1, <1>2, Zenon DEF RetireMember, IInv, TypeOK, MemberRows
<1> HIDE DEF row
<1>4. row.ver + 1 \in Nat
  BY <1>2 DEF MemberRows
<1>5. /\ member'[m] \in MemberRows /\ member'[m].status = "retired"
      /\ member'[m].ver = row.ver + 1 /\ member'[m].epoch = row.epoch
  BY <1>2, <1>3, <1>4, Zenon DEF MemberRows
<1>6. Version(member[m]) = row.ver
  BY <1>1, Zenon DEF Version, row
<1>7. member' \in [Members -> MemberRows \cup {Null}]
  BY <1>3, <1>5, Zenon DEF IInv, TypeOK
<1> QED
  BY <1>1, <1>3, <1>5, <1>6, <1>7, Zenon DEF MemberWrite, RetireMember, MemberUnlocked, row

LEMMA RevokeWrites ==
    ASSUME MeshConstants, IInv, NEW h \in Hosts, RevokeMember(h)
    PROVE  /\ MemberWrite(seen[h].member, "revoked")
           /\ member[seen[h].member] # Null
           /\ member'[seen[h].member].epoch = member[seen[h].member].epoch
           /\ mesh \in MeshRows /\ mesh' \in MeshRows
           /\ mesh'.joined = mesh.joined /\ mesh'.revoked = mesh.revoked + 1
           /\ \A g \in Hosts : pin[g] = Null
           /\ seen' = [seen EXCEPT ![h] = Null]
<1> DEFINE m == seen[h].member
           row == member[m]
<1>1. m \in Members /\ seen[h].row = row /\ row # Null /\ mesh \in MeshRows
  BY FencedView, Zenon DEF RevokeMember, LockMesh
<1>2. row \in MemberRows
  BY <1>1, Zenon DEF IInv, TypeOK
<1>3. /\ member'[m] = [row EXCEPT !.status = "revoked", !.ver = @ + 1]
      /\ \A n \in Members : n # m => member'[n] = member[n]
      /\ DOMAIN member' = Members
      /\ member' = [n \in Members |-> member'[n]]
  BY <1>1, <1>2, Zenon DEF RevokeMember, IInv, TypeOK, MemberRows
<1> HIDE DEF row
<1>4. row.ver + 1 \in Nat
  BY <1>2 DEF MemberRows
<1>5. /\ member'[m] \in MemberRows /\ member'[m].status = "revoked"
      /\ member'[m].ver = row.ver + 1 /\ member'[m].epoch = row.epoch
  BY <1>2, <1>3, <1>4, Zenon DEF MemberRows
<1>6. Version(member[m]) = row.ver
  BY <1>1, Zenon DEF Version, row
<1>7. member' \in [Members -> MemberRows \cup {Null}]
  BY <1>3, <1>5, Zenon DEF IInv, TypeOK
<1>8. mesh' \in MeshRows /\ mesh'.joined = mesh.joined /\ mesh'.revoked = mesh.revoked + 1
  BY <1>1, MeshUpdates, Zenon DEF RevokeMember
<1> QED
  BY <1>1, <1>3, <1>5, <1>6, <1>7, <1>8, Zenon DEF MemberWrite, RevokeMember, LockMesh, MeshUnlocked, row

-----------------------------------------------------------------------------

\* A step that writes one member: no view gets ahead of it, and no pin is
\* disturbed because the mesh, or at least the member, is locked by none.
LEMMA WriteKeeps ==
    ASSUME MeshConstants, IInv, NEW h \in Hosts, NEW m, NEW status,
           MemberWrite(m, status), mesh' \in MeshRows,
           seen' = [seen EXCEPT ![h] = Null], pin' = pin,
           \/ \A g \in Hosts : pin[g] = Null
           \/ mesh' = mesh /\ \A g \in Hosts : pin[g] # Null => pin[g].member # m
    PROVE  SeenBehind' /\ PinnedExists' /\ Founded' /\ PinnedCurrent' /\ seen' \in [Hosts -> Views \cup {Null}]
<1>1. mesh' # Null
  BY Zenon DEF MeshConstants
<1>2. seen' \in [Hosts -> Views \cup {Null}]
  BY Zenon DEF IInv, TypeOK
<1>3. SeenBehind'
  <2> SUFFICES ASSUME NEW g \in Hosts, seen'[g] # Null PROVE Behind(seen[g])'
    BY Zenon DEF SeenBehind
  <2>1. seen'[g] = seen[g] /\ seen[g] \in Views /\ Behind(seen[g])
    BY Zenon DEF IInv, TypeOK, SeenBehind
  <2>2. PICK view \in Views : view = seen[g]
    BY <2>1, Zenon
  <2>3. Behind(view) /\ view.member \in Members /\ seen'[g] = view
    BY <2>1, <2>2, Zenon DEF Views
  <2>4. MemberStep(view.member)
    BY <2>3, Zenon DEF MemberWrite, MemberStep
  <2>5. Behind(view)'
    BY <1>1, <2>3, <2>4, BehindKept, Zenon DEF IInv
  <2> QED
    BY <2>3, <2>5, Zenon DEF Behind
<1>4. Founded'
  <2>1. \A n \in Members : member'[n] # Null => member'[n].ver > 0
    <3> TAKE n \in Members
    <3>1. CASE n = m
      <4>1. Version(member[m]) \in Nat
        BY VersionType, Zenon DEF IInv, TypeOK, MemberWrite
      <4> QED BY <3>1, <4>1 DEF MemberWrite
    <3>2. CASE n # m
      BY <3>2, Zenon DEF MemberWrite, IInv, Founded
    <3> QED BY <3>1, <3>2, Zenon
  <2> QED BY <1>1, <2>1, Zenon DEF Founded
<1>5. PinnedExists'
  BY <1>1, Zenon DEF IInv, PinnedExists
<1>6. PinnedCurrent'
  BY Zenon DEF IInv, PinnedCurrent, TypeOK, Views, MemberWrite
<1> QED
  BY <1>2, <1>3, <1>4, <1>5, <1>6, Zenon

\* A step that leaves the members and the epochs of the mesh alone.
LEMMA OthersKeep ==
    ASSUME MeshConstants, IInv, UNCHANGED <<member, revocations, pin>>,
           mesh' = mesh \/ (mesh \in MeshRows /\ mesh' \in MeshRows /\ mesh'.joined = mesh.joined
                            /\ mesh'.revoked = mesh.revoked),
           \A g \in Hosts : seen'[g] # Null => (seen'[g] = seen[g] \/ Behind(seen'[g]))
    PROVE  SeenBehind' /\ PinnedExists' /\ Founded' /\ PinnedCurrent'
<1>1. mesh' = Null <=> mesh = Null
  BY Zenon DEF MeshConstants
<1>2. SeenBehind'
  BY <1>1, Zenon DEF IInv, SeenBehind, Behind, TypeOK
<1> QED
  BY <1>1, <1>2, Zenon DEF IInv, PinnedExists, Founded, PinnedCurrent

-----------------------------------------------------------------------------

LEMMA BootstrapKeeps == ASSUME MeshConstants, IInv, NEW m \in Members, BootstrapMesh(m) PROVE IInv'
<1> DEFINE new == [status |-> "active", epoch |-> 1, ver |-> 1]
<1>1. new \in MemberRows /\ new.ver = 1
  BY Zenon DEF MemberRows
<1>2. mesh' \in MeshRows /\ mesh' # Null
  BY DEF BootstrapMesh, MeshRows, MeshConstants
<1>3. member' = [member EXCEPT ![m] = new] /\ mesh = Null
  BY Zenon DEF BootstrapMesh
<1> HIDE DEF new
<1>4. (\A h \in Hosts : seen[h] = Null /\ pin[h] = Null) /\ seen' = seen /\ pin' = pin
  BY <1>3, Zenon DEF IInv, SeenBehind, Behind, PinnedExists, BootstrapMesh
<1>5. TypeOK'
  BY <1>1, <1>2, <1>3, Zenon DEF IInv, TypeOK, BootstrapMesh, others
<1>6. Founded'
  BY <1>1, <1>2, <1>3 DEF IInv, Founded, TypeOK
<1> QED
  BY <1>4, <1>5, <1>6, Zenon DEF IInv, SeenBehind, PinnedExists, PinnedCurrent

LEMMA ReadKeeps ==
    ASSUME MeshConstants, IInv, NEW h \in Hosts, NEW m \in Members, Read(h, m) PROVE IInv'
<1> DEFINE versions == [v \in Invitations |-> Version(inv[v])]
           view == [mesh |-> mesh, member |-> m, row |-> member[m], inv |-> versions]
<1>1. versions \in [Invitations -> Nat]
  BY VersionType, Zenon DEF IInv, TypeOK
<1>2. seen' = [seen EXCEPT ![h] = view] /\ mesh # Null
  BY Zenon DEF Read
<1> HIDE DEF versions
<1>3. view \in Views
  BY <1>1, <1>2, Zenon DEF Views, IInv, TypeOK
<1>4. view.row = member[view.member] /\ Version(member[m]) \in Nat /\ view.member = m
  BY VersionType, Zenon DEF IInv, TypeOK
<1> HIDE DEF view
<1>5. Behind(view)
  BY <1>2, <1>4 DEF Behind
<1>6. TypeOK'
  BY <1>2, <1>3, Zenon DEF IInv, TypeOK, Read, others
<1>7. \A g \in Hosts : seen'[g] # Null => (seen'[g] = seen[g] \/ Behind(seen'[g]))
  BY <1>2, <1>5, Zenon DEF IInv, TypeOK
<1>8. UNCHANGED <<mesh, member, revocations, pin>>
  BY Zenon DEF Read
<1> QED
  BY <1>6, <1>7, <1>8, OthersKeep, Zenon DEF IInv

LEMMA AssertKeeps ==
    ASSUME MeshConstants, IInv, NEW h \in Hosts, AssertCurrentMember(h) PROVE IInv'
<1>1. /\ seen[h] \in Views /\ seen[h] # Null /\ mesh # Null
      /\ seen[h].row = member[seen[h].member] /\ seen[h].row # Null
  BY FencedView, Zenon DEF AssertCurrentMember
<1>2. pin' = [pin EXCEPT ![h] = seen[h]] /\ seen' = [seen EXCEPT ![h] = Null]
  BY Zenon DEF AssertCurrentMember
<1>3. UNCHANGED <<now, ident, chal, mesh, member, inv, revocations>>
  BY Zenon DEF AssertCurrentMember, others
<1>4. TypeOK'
  BY <1>1, <1>2, <1>3, Zenon DEF IInv, TypeOK
<1>5. SeenBehind' /\ Founded'
  BY <1>2, <1>3, Zenon DEF IInv, SeenBehind, Behind, Founded, TypeOK
<1>6. PinnedExists'
  BY <1>1, <1>2, <1>3, Zenon DEF IInv, PinnedExists, TypeOK
<1>7. PinnedCurrent'
  BY <1>1, <1>2, <1>3 DEF IInv, PinnedCurrent, TypeOK, AssertCurrentMember
<1> QED
  BY <1>4, <1>5, <1>6, <1>7, Zenon DEF IInv

\* An invitation that moves on keeps its window.
LEMMA MovedTo ==
    ASSUME IInv, NEW v \in Invitations, NEW states, NEW to \in {"consumed", "confirmed", "expired", "revoked"},
           Moved(v, states, to)
    PROVE  /\ inv' \in [Invitations -> InvitationRows \cup {Null}]
           /\ inv'[v].state = to
           /\ inv[v].state \in states
           /\ \A u \in Invitations : u # v => inv'[u] = inv[u]
<1>1. inv[v] \in InvitationRows
  BY Zenon DEF Moved, IInv, TypeOK
<1>2. inv[v].ver + 1 \in Nat
  BY <1>1 DEF InvitationRows
<1>3. /\ inv'[v] = [inv[v] EXCEPT !.state = to, !.ver = inv[v].ver + 1]
      /\ \A u \in Invitations : u # v => inv'[u] = inv[u]
      /\ inv' = [u \in Invitations |-> inv'[u]]
  BY <1>1, Zenon DEF Moved, IInv, TypeOK, InvitationRows
<1>4. inv'[v] \in InvitationRows /\ inv'[v].state = to
  BY <1>1, <1>2, <1>3, Zenon DEF InvitationRows
<1> QED
  BY <1>3, <1>4, Zenon DEF IInv, TypeOK, Moved

\* Every action preserves the invariant.
LEMMA NextInv == ASSUME MeshConstants, IInv, [Next]_vars PROVE IInv'
<1> USE DEF others
<1>1. CASE UNCHANGED vars
  BY <1>1, Zenon DEF vars, IInv, TypeOK, SeenBehind, Behind, PinnedExists, Founded, PinnedCurrent
<1>2. CASE Tick
  <2>1. TypeOK' /\ UNCHANGED <<mesh, member, revocations, pin, seen>>
    BY <1>2 DEF Tick, IInv, TypeOK, MeshConstants
  <2> QED
    BY <2>1, OthersKeep, Zenon DEF IInv
<1>3. ASSUME NEW m \in Members, BootstrapMesh(m) PROVE IInv'
  BY <1>3, BootstrapKeeps, Zenon
<1>4. ASSUME NEW m \in Members, NEW h \in Hosts, Read(h, m) PROVE IInv'
  BY <1>4, ReadKeeps, Zenon
<1>5. ASSUME NEW m \in Members, NEW i \in Identities, BindPublicIdentity(i, m) PROVE IInv'
  <2>1. [of |-> m, state |-> "active", ver |-> 1] \in IdentityRows
    BY Zenon DEF IdentityRows
  <2>2. TypeOK' /\ UNCHANGED <<mesh, member, revocations, pin, seen>>
    BY <1>5, <2>1, Zenon DEF BindPublicIdentity, IInv, TypeOK
  <2> QED
    BY <2>2, OthersKeep, Zenon DEF IInv
<1>6. ASSUME NEW h \in Hosts, Forget(h) PROVE IInv'
  <2>1. TypeOK' /\ UNCHANGED <<mesh, member, revocations, pin>>
    BY <1>6, Zenon DEF Forget, IInv, TypeOK
  <2>2. \A g \in Hosts : seen'[g] # Null => seen'[g] = seen[g]
    BY <1>6, Zenon DEF Forget, IInv, TypeOK
  <2> QED
    BY <2>1, <2>2, OthersKeep, Zenon DEF IInv
<1>7. ASSUME NEW h \in Hosts, RenameMesh(h) PROVE IInv'
  <2>1. mesh \in MeshRows
    BY <1>7, Zenon DEF RenameMesh, LockMesh, IInv, SeenBehind, Behind, TypeOK
  <2>2. mesh' \in MeshRows /\ mesh'.joined = mesh.joined /\ mesh'.revoked = mesh.revoked
    BY <1>7, <2>1, MeshUpdates, Zenon DEF RenameMesh
  <2>3. TypeOK' /\ UNCHANGED <<member, revocations, pin>>
    BY <1>7, <2>2, Zenon DEF RenameMesh, IInv, TypeOK
  <2>4. \A g \in Hosts : seen'[g] # Null => seen'[g] = seen[g]
    BY <1>7, Zenon DEF RenameMesh, IInv, TypeOK
  <2> QED
    BY <2>1, <2>2, <2>3, <2>4, OthersKeep, Zenon DEF IInv
<1>8. ASSUME NEW h \in Hosts, ActivateMember(h) PROVE IInv'
  <2>1. Activate(h) /\ UNCHANGED <<inv, revocations, pin, now, ident, chal>>
    BY <1>8, Zenon DEF ActivateMember
  <2>2. SeenBehind' /\ PinnedExists' /\ Founded' /\ PinnedCurrent' /\ seen' \in [Hosts -> Views \cup {Null}]
    BY <2>1, ActivateWrites, WriteKeeps, Zenon
  <2>3. TypeOK'
    BY <2>1, <2>2, ActivateWrites, Zenon DEF IInv, TypeOK, MemberWrite
  <2> QED
    BY <2>2, <2>3, Zenon DEF IInv
<1>9. ASSUME NEW h \in Hosts, RetireMember(h) PROVE IInv'
  <2>1. mesh' \in MeshRows
    BY <1>9, RetireWrites, Zenon DEF IInv, TypeOK
  <2>2. UNCHANGED <<mesh, inv, revocations, pin, now, ident, chal>>
    BY <1>9, Zenon DEF RetireMember
  <2>3. SeenBehind' /\ PinnedExists' /\ Founded' /\ PinnedCurrent' /\ seen' \in [Hosts -> Views \cup {Null}]
    BY <1>9, <2>1, <2>2, RetireWrites, WriteKeeps, Zenon
  <2>4. TypeOK'
    BY <1>9, <2>2, <2>3, RetireWrites, Zenon DEF IInv, TypeOK, MemberWrite
  <2> QED
    BY <2>3, <2>4, Zenon DEF IInv
<1>10. ASSUME NEW h \in Hosts, RevokeMember(h) PROVE IInv'
  <2>1. UNCHANGED <<inv, pin, now, ident, chal>>
    BY <1>10, Zenon DEF RevokeMember
  <2>2. SeenBehind' /\ PinnedExists' /\ Founded' /\ PinnedCurrent' /\ seen' \in [Hosts -> Views \cup {Null}]
    BY <1>10, <2>1, RevokeWrites, WriteKeeps, Zenon
  <2>3. mesh.revoked + 1 \in Nat /\ seen[h].member \in Members
    BY <1>10, RevokeWrites, Zenon DEF MeshRows, MemberWrite
  <2>4. revocations' \subseteq [member: Members, epoch: Nat]
    BY <1>10, <2>3 DEF RevokeMember, IInv, TypeOK
  <2>5. TypeOK'
    BY <1>10, <2>1, <2>2, <2>4, RevokeWrites, Zenon DEF IInv, TypeOK, MemberWrite
  <2> QED
    BY <2>2, <2>5, Zenon DEF IInv
<1>11. ASSUME NEW h \in Hosts, AssertCurrentMember(h) PROVE IInv'
  BY <1>11, AssertKeeps, Zenon
<1>12. ASSUME NEW h \in Hosts, EndTransaction(h) PROVE IInv'
  BY <1>12, Zenon DEF EndTransaction, IInv, TypeOK, SeenBehind, Behind, PinnedExists, Founded, PinnedCurrent
<1>13. ASSUME NEW i \in Identities, RotatePublicIdentity(i) \/ RevokePublicIdentity(i) PROVE IInv'
  <2>1. UNCHANGED <<now, mesh, member, inv, chal, revocations, seen, pin>> /\ ident[i] \in IdentityRows
    BY <1>13, Zenon DEF RotatePublicIdentity, RevokePublicIdentity, IInv, TypeOK
  <2>2. ident[i].ver + 1 \in Nat
    BY <2>1 DEF IdentityRows
  <2>3. /\ \E s \in {"rotated", "revoked"} : ident'[i] = [ident[i] EXCEPT !.state = s, !.ver = ident[i].ver + 1]
        /\ \A j \in Identities : j # i => ident'[j] = ident[j]
        /\ ident' = [j \in Identities |-> ident'[j]]
    BY <1>13, <2>1, Zenon DEF RotatePublicIdentity, RevokePublicIdentity, IInv, TypeOK, IdentityRows
  <2>5. ident'[i] \in IdentityRows
    BY <2>1, <2>2, <2>3, Zenon DEF IdentityRows
  <2>4. TypeOK'
    BY <2>1, <2>3, <2>5, Zenon DEF IInv, TypeOK
  <2> QED
    BY <2>1, <2>4, OthersKeep, Zenon DEF IInv
<1>14. ASSUME NEW c \in Challenges, IssueChallenge(c) \/ ProveChallenge(c) \/ CancelChallenge(c) PROVE IInv'
  <2>1. UNCHANGED <<now, mesh, member, ident, inv, revocations, seen, pin>> /\ now + Life \in Nat
    BY <1>14 DEF IssueChallenge, ProveChallenge, CancelChallenge, IInv, TypeOK, MeshConstants
  <2>2. chal' \in [Challenges -> ChallengeRows \cup {Null}]
    BY <1>14, <2>1 DEF IssueChallenge, ProveChallenge, CancelChallenge, IInv, TypeOK, ChallengeRows
  <2>3. TypeOK'
    BY <2>1, <2>2, Zenon DEF IInv, TypeOK
  <2> QED
    BY <2>1, <2>3, OthersKeep, Zenon DEF IInv
<1>15. ASSUME NEW v \in Invitations, IssueInvitation(v) PROVE IInv'
  <2>1. UNCHANGED <<now, mesh, member, ident, chal, revocations, seen, pin>> /\ now + Life \in Nat
    BY <1>15 DEF IssueInvitation, IInv, TypeOK, MeshConstants
  <2>2. inv' \in [Invitations -> InvitationRows \cup {Null}]
    BY <1>15, <2>1, Zenon DEF IssueInvitation, IInv, TypeOK, InvitationRows
  <2>3. TypeOK'
    BY <2>1, <2>2, Zenon DEF IInv, TypeOK
  <2> QED
    BY <2>1, <2>3, OthersKeep, Zenon DEF IInv
<1>16. ASSUME NEW v \in Invitations, ConsumeInvitation(v) \/ ExpireInvitation(v) \/ RevokeInvitation(v) PROVE IInv'
  <2>1. UNCHANGED <<now, mesh, member, ident, chal, revocations, seen, pin>>
    BY <1>16, Zenon DEF ConsumeInvitation, ExpireInvitation, RevokeInvitation
  <2>2. inv' \in [Invitations -> InvitationRows \cup {Null}]
    BY <1>16, MovedTo, Zenon DEF ConsumeInvitation, ExpireInvitation, RevokeInvitation
  <2>3. TypeOK'
    BY <2>1, <2>2, Zenon DEF IInv, TypeOK
  <2> QED
    BY <2>1, <2>3, OthersKeep, Zenon DEF IInv
<1>17. ASSUME NEW h \in Hosts, NEW v \in Invitations, ConfirmInvitation(h, v) PROVE IInv'
  <2>1. Activate(h) /\ UNCHANGED <<revocations, pin, now, ident, chal>>
    BY <1>17, Zenon DEF ConfirmInvitation
  <2>2. inv' \in [Invitations -> InvitationRows \cup {Null}]
    BY <1>17, MovedTo, Zenon DEF ConfirmInvitation
  <2>3. SeenBehind' /\ PinnedExists' /\ Founded' /\ PinnedCurrent' /\ seen' \in [Hosts -> Views \cup {Null}]
    BY <2>1, ActivateWrites, WriteKeeps, Zenon
  <2>4. TypeOK'
    BY <2>1, <2>2, <2>3, ActivateWrites, Zenon DEF IInv, TypeOK, MemberWrite
  <2> QED
    BY <2>3, <2>4, Zenon DEF IInv
<1> QED
  BY <1>1, <1>2, <1>3, <1>4, <1>5, <1>6, <1>7, <1>8, <1>9, <1>10, <1>11, <1>12, <1>13, <1>14,
     <1>15, <1>16, <1>17, Zenon DEF Next

\* Every state satisfies the invariant.
THEOREM Invariant == ASSUME MeshConstants PROVE Spec => []IInv
<1>1. Init => IInv
  BY InitInv, Zenon
<1>2. IInv /\ [Next]_vars => IInv'
  BY NextInv, Zenon
<1> QED
  BY <1>1, <1>2, PTL DEF Spec

-----------------------------------------------------------------------------
(* The epochs.  Given IInv they are exact as they stand, once the records  *)
(* are known to be finitely many.                                          *)

RevocationsOf(m) == {r \in revocations : r.member = m}

Epochs == IsFiniteSet(revocations) /\ EpochsExact

\* EpochsExact, member by member.
EpochOf(m) ==
    member[m] # Null =>
        /\ member[m].epoch <= mesh.joined
        /\ member[m].ver > Cardinality(RevocationsOf(m))
        /\ \A n \in Members : (m # n /\ member[n] # Null) => member[m].epoch # member[n].epoch

Recorded ==
    /\ IsFiniteSet(revocations)
    /\ {r.epoch : r \in revocations} = 1 .. mesh.revoked
    /\ Cardinality(revocations) = mesh.revoked
    /\ \A m \in Members : member[m] = Null => Cardinality(RevocationsOf(m)) = 0

LEMMA EpochsByMember ==
    ASSUME mesh # Null
    PROVE  Epochs <=> Recorded /\ \A m \in Members : EpochOf(m)
BY Zenon DEF Epochs, EpochsExact, Recorded, EpochOf, RevocationsOf

LEMMA EpochsBootstrap ==
    ASSUME MeshConstants, IInv, NEW m \in Members, BootstrapMesh(m) PROVE Epochs'
<1>1. revocations' = {} /\ \A n \in Members : member[n] = Null
  BY Zenon DEF BootstrapMesh, IInv, Founded
<1>2. IsFiniteSet(revocations') /\ Cardinality(revocations') = 0
  BY <1>1, FS_EmptySet, Zenon
<1>3. \A n \in Members : RevocationsOf(n)' = {}
  BY <1>1, Zenon DEF RevocationsOf
<1>4. \A n \in Members : Cardinality(RevocationsOf(n)') = 0
  BY <1>3, FS_EmptySet, Zenon
<1>5. {r.epoch : r \in revocations'} = {} /\ 1 .. 0 = {}
  BY <1>1
<1>6. mesh' = [joined |-> 1, revoked |-> 0, ver |-> 1] /\ mesh' # Null
  BY DEF BootstrapMesh, MeshRows, MeshConstants
<1>7. Recorded'
  BY <1>2, <1>4, <1>5, <1>6, Zenon DEF Recorded
<1>8. ASSUME NEW n \in Members PROVE EpochOf(n)'
  <2>1. \A k \in Members : member'[k] = IF k = m THEN [status |-> "active", epoch |-> 1, ver |-> 1] ELSE Null
    BY <1>1, Zenon DEF BootstrapMesh, IInv, TypeOK
  <2> QED
    BY <2>1, <1>4, <1>6 DEF EpochOf
<1> QED
  BY <1>6, <1>7, <1>8, EpochsByMember, Zenon DEF Epochs, EpochsExact, Recorded, EpochOf, RevocationsOf

LEMMA EpochsSame ==
    ASSUME MeshConstants, Epochs, UNCHANGED <<member, revocations>>,
           mesh' = mesh \/ (mesh \in MeshRows /\ mesh' \in MeshRows /\ mesh'.joined = mesh.joined
                            /\ mesh'.revoked = mesh.revoked)
    PROVE  Epochs'
BY Zenon DEF Epochs, EpochsExact, MeshConstants

LEMMA EpochsActivate ==
    ASSUME MeshConstants, IInv, Epochs, NEW h \in Hosts, Activate(h), revocations' = revocations
    PROVE  Epochs'
<1> DEFINE m == seen[h].member
<1>1. /\ MemberWrite(m, "active") /\ m \in Members
      /\ member'[m].epoch = mesh.joined + 1
      /\ mesh \in MeshRows /\ mesh' \in MeshRows
      /\ mesh'.joined = mesh.joined + 1 /\ mesh'.revoked = mesh.revoked
  BY ActivateWrites, Zenon DEF MemberWrite
<1> HIDE DEF m
<1>2. mesh # Null /\ mesh' # Null /\ mesh.joined \in Nat
  BY <1>1, Zenon DEF MeshConstants, MeshRows
<1>3. Recorded /\ \A n \in Members : EpochOf(n)
  BY <1>2, EpochsByMember, Zenon
<1>4. \A n \in Members : RevocationsOf(n)' = RevocationsOf(n)
  BY Zenon DEF RevocationsOf
<1>5. \A n \in Members : n # m => member'[n] = member[n]
  BY <1>1, Zenon DEF MemberWrite
<1>6. member'[m] # Null /\ \A n \in Members : member[n] # Null => member[n] \in MemberRows
  BY <1>1, Zenon DEF MemberWrite, MeshConstants, IInv, TypeOK
<1>7. Recorded'
  BY <1>1, <1>3, <1>4, <1>5, <1>6, Zenon DEF Recorded
<1>8. member'[m].ver > Cardinality(RevocationsOf(m))
  <2>1. CASE member[m] = Null
    BY <1>1, <1>3, <2>1 DEF Recorded, MemberWrite, Version
  <2>2. CASE member[m] # Null
    <3>1. RevocationsOf(m) \subseteq revocations
      BY Zenon DEF RevocationsOf
    <3>2. Cardinality(RevocationsOf(m)) \in Nat
      BY <1>3, <3>1, FS_Subset, FS_CardinalityType, Zenon DEF Recorded
    <3> QED
      BY <1>1, <1>3, <1>6, <2>2, <3>2 DEF EpochOf, MemberWrite, Version, MemberRows
  <2> QED BY <2>1, <2>2, Zenon
<1>9. ASSUME NEW n \in Members PROVE EpochOf(n)'
  <2>1. CASE n = m
    BY <1>1, <1>2, <1>3, <1>4, <1>5, <1>6, <1>8, <2>1 DEF EpochOf, MemberRows
  <2>2. CASE n # m
    BY <1>1, <1>2, <1>3, <1>4, <1>5, <1>6, <2>2 DEF EpochOf, MemberRows
  <2> QED BY <2>1, <2>2, Zenon
<1> QED
  BY <1>2, <1>7, <1>9, EpochsByMember, Zenon DEF Epochs, EpochsExact, Recorded, EpochOf, RevocationsOf

\* Neither a retirement nor a revocation gives the member another membership epoch.
LEMMA EpochsRetire ==
    ASSUME MeshConstants, IInv, Epochs, NEW h \in Hosts, RetireMember(h)
    PROVE  Epochs'
<1>1. PICK m \in Members :
        /\ MemberWrite(m, "retired")
        /\ member[m] # Null /\ member'[m].epoch = member[m].epoch
        /\ mesh # Null /\ mesh' = mesh /\ revocations' = revocations
  BY RetireWrites, Zenon DEF MemberWrite, RetireMember
<1>2. Recorded /\ \A n \in Members : EpochOf(n)
  BY <1>1, EpochsByMember, Zenon
<1>3. \A n \in Members : RevocationsOf(n)' = RevocationsOf(n)
  BY <1>1, Zenon DEF RevocationsOf
<1>4. \A n \in Members : n # m => member'[n] = member[n]
  BY <1>1, Zenon DEF MemberWrite
<1>5. member'[m] # Null /\ \A n \in Members : member[n] # Null => member[n] \in MemberRows
  BY <1>1, Zenon DEF MemberWrite, MeshConstants, IInv, TypeOK
<1>6. Recorded'
  BY <1>1, <1>2, <1>3, <1>4, <1>5, Zenon DEF Recorded
<1>7. member'[m].ver > Cardinality(RevocationsOf(m))
  <2>1. RevocationsOf(m) \subseteq revocations
    BY Zenon DEF RevocationsOf
  <2>2. Cardinality(RevocationsOf(m)) \in Nat
    BY <1>2, <2>1, FS_Subset, FS_CardinalityType, Zenon DEF Recorded
  <2> QED
    BY <1>1, <1>2, <1>5, <2>2 DEF EpochOf, MemberWrite, Version, MemberRows
<1>8. ASSUME NEW n \in Members PROVE EpochOf(n)'
  <2>1. \A k \in Members : member'[k] # Null =>
            member[k] # Null /\ member'[k].epoch = member[k].epoch
    BY <1>1, <1>4, <1>5, Zenon
  <2>5. member'[n] # Null => member[n] # Null /\ member'[n].epoch = member[n].epoch
    BY <2>1, Zenon
  <2>2. member'[n] # Null => member'[n].ver > Cardinality(RevocationsOf(n))
    BY <1>2, <1>4, <1>7, Zenon DEF EpochOf
  <2>3. member'[n] # Null => member'[n].epoch <= mesh'.joined
    BY <1>1, <1>2, <2>5, Zenon DEF EpochOf
  <2>4. member'[n] # Null => \A k \in Members : (n # k /\ member'[k] # Null) => member'[n].epoch # member'[k].epoch
    BY <1>2, <2>1, <2>5, Zenon DEF EpochOf
  <2> QED
    BY <1>3, <2>2, <2>3, <2>4, Zenon DEF EpochOf
<1> QED
  BY <1>1, <1>6, <1>8, EpochsByMember, Zenon DEF Epochs, EpochsExact, Recorded, EpochOf, RevocationsOf

LEMMA EpochsRevoke ==
    ASSUME MeshConstants, IInv, Epochs, NEW h \in Hosts, RevokeMember(h)
    PROVE  Epochs'
<1>1. PICK m \in Members :
        /\ MemberWrite(m, "revoked")
        /\ member[m] # Null /\ member'[m].epoch = member[m].epoch
        /\ mesh \in MeshRows /\ mesh' \in MeshRows
        /\ mesh'.joined = mesh.joined /\ mesh'.revoked = mesh.revoked + 1
        /\ revocations' = revocations \cup {[member |-> m, epoch |-> mesh.revoked + 1]}
  BY RevokeWrites, Zenon DEF MemberWrite, RevokeMember
<1> PICK new \in {[member |-> m, epoch |-> mesh.revoked + 1]} : TRUE
  BY Zenon
<1>16. /\ new = [member |-> m, epoch |-> mesh.revoked + 1]
       /\ new.member = m /\ new.epoch = mesh.revoked + 1
  OBVIOUS
<1>2. mesh # Null /\ mesh' # Null /\ mesh.revoked \in Nat
  BY <1>1, Zenon DEF MeshConstants, MeshRows
<1>3. Recorded /\ \A n \in Members : EpochOf(n)
  BY <1>2, EpochsByMember, Zenon
<1>4. \A n \in Members : n # m => member'[n] = member[n]
  BY <1>1, Zenon DEF MemberWrite
<1>5. member'[m] # Null /\ \A n \in Members : member[n] # Null => member[n] \in MemberRows
  BY <1>1, Zenon DEF MemberWrite, MeshConstants, IInv, TypeOK
<1>6. new \notin revocations
  <2>1. new \in revocations => mesh.revoked + 1 \in 1 .. mesh.revoked
    BY <1>3, <1>16, Zenon DEF Recorded
  <2> QED BY <1>2, <2>1
<1>7. IsFiniteSet(revocations') /\ Cardinality(revocations') = mesh.revoked + 1
  BY <1>1, <1>3, <1>6, <1>16, FS_AddElement DEF Recorded
<1>8. {r.epoch : r \in revocations'} = 1 .. mesh.revoked + 1
  <2>1. {r.epoch : r \in revocations'} = {r.epoch : r \in revocations} \cup {mesh.revoked + 1}
    BY <1>1, <1>16, Zenon
  <2>2. (1 .. mesh.revoked) \cup {mesh.revoked + 1} = 1 .. mesh.revoked + 1
    BY <1>2
  <2> QED BY <1>3, <2>1, <2>2, Zenon DEF Recorded
<1>9. \A n \in Members : n # m => RevocationsOf(n)' = RevocationsOf(n)
  BY <1>1, <1>16, Zenon DEF RevocationsOf
<1>10. RevocationsOf(m)' = RevocationsOf(m) \cup {new} /\ new \notin RevocationsOf(m)
  BY <1>1, <1>16, <1>6, Zenon DEF RevocationsOf
<1>11. IsFiniteSet(RevocationsOf(m)) /\ Cardinality(RevocationsOf(m)) \in Nat
  <2>1. RevocationsOf(m) \subseteq revocations
    BY Zenon DEF RevocationsOf
  <2> QED BY <1>3, <2>1, FS_Subset, FS_CardinalityType, Zenon DEF Recorded
<1>12. Cardinality(RevocationsOf(m)') = Cardinality(RevocationsOf(m)) + 1
  BY <1>10, <1>11, FS_AddElement, Zenon
<1>13. member'[m].ver > Cardinality(RevocationsOf(m)')
  BY <1>1, <1>3, <1>5, <1>11, <1>12 DEF EpochOf, MemberWrite, Version, MemberRows
<1>14. Recorded'
  BY <1>1, <1>3, <1>4, <1>5, <1>7, <1>8, <1>9, Zenon DEF Recorded
<1>15. ASSUME NEW n \in Members PROVE EpochOf(n)'
  <2>1. \A k \in Members : member'[k] # Null =>
            member[k] # Null /\ member'[k].epoch = member[k].epoch
    BY <1>1, <1>4, <1>5, Zenon
  <2>5. member'[n] # Null => member[n] # Null /\ member'[n].epoch = member[n].epoch
    BY <2>1, Zenon
  <2>2. member'[n] # Null => member'[n].ver > Cardinality(RevocationsOf(n)')
    BY <1>3, <1>4, <1>9, <1>13, Zenon DEF EpochOf
  <2>3. member'[n] # Null => member'[n].epoch <= mesh'.joined
    BY <1>1, <1>3, <2>5, Zenon DEF EpochOf
  <2>4. member'[n] # Null => \A k \in Members : (n # k /\ member'[k] # Null) => member'[n].epoch # member'[k].epoch
    BY <1>3, <2>1, <2>5, Zenon DEF EpochOf
  <2> QED
    BY <2>2, <2>3, <2>4, Zenon DEF EpochOf
<1> QED
  BY <1>2, <1>14, <1>15, EpochsByMember, Zenon DEF Epochs, EpochsExact, Recorded, EpochOf, RevocationsOf

LEMMA NextEpochs == ASSUME MeshConstants, IInv, Epochs, [Next]_vars PROVE Epochs'
<1>1. ASSUME NEW m \in Members, BootstrapMesh(m) PROVE Epochs'
  BY <1>1, EpochsBootstrap, Zenon
<1>2. ASSUME NEW h \in Hosts, ActivateMember(h) \/ \E v \in Invitations : ConfirmInvitation(h, v)
      PROVE  Epochs'
  BY <1>2, EpochsActivate, Zenon DEF ActivateMember, ConfirmInvitation
<1>3. ASSUME NEW h \in Hosts, RetireMember(h) PROVE Epochs'
  BY <1>3, EpochsRetire, Zenon
<1>4. ASSUME NEW h \in Hosts, RevokeMember(h) PROVE Epochs'
  BY <1>4, EpochsRevoke, Zenon
<1>5. ASSUME NEW h \in Hosts, RenameMesh(h) PROVE Epochs'
  <2>1. mesh \in MeshRows
    BY <1>5, Zenon DEF RenameMesh, LockMesh, IInv, SeenBehind, Behind, TypeOK
  <2>2. mesh' \in MeshRows /\ mesh'.joined = mesh.joined /\ mesh'.revoked = mesh.revoked
    BY <1>5, <2>1, MeshUpdates, Zenon DEF RenameMesh
  <2> QED
    BY <1>5, <2>1, <2>2, EpochsSame, Zenon DEF RenameMesh
<1>6. CASE UNCHANGED <<mesh, member, revocations>>
  BY <1>6, EpochsSame, Zenon
<1> QED
  BY <1>1, <1>2, <1>3, <1>4, <1>5, <1>6, Zenon
     DEF Next, vars, Tick, Read, BindPublicIdentity, Forget, AssertCurrentMember, EndTransaction,
         RotatePublicIdentity, RevokePublicIdentity, IssueChallenge, ProveChallenge, CancelChallenge,
         IssueInvitation, ConsumeInvitation, ExpireInvitation, RevokeInvitation

-----------------------------------------------------------------------------

\* The epochs of a mesh are exact and what a host has asserted stays true while it
\* holds it, however many hosts read, decide and write back (mesh_enrollment.py).
THEOREM MeshIsSound == ASSUME MeshConstants PROVE Spec => []MeshSound
<1>1. Init => Epochs
  BY FS_EmptySet, Zenon DEF Init, Epochs, EpochsExact
<1>2. IInv /\ Epochs /\ [Next]_vars => Epochs'
  BY NextEpochs, Zenon
<1>3. IInv /\ Epochs => MeshSound
  BY Zenon DEF IInv, Epochs, MeshSound
<1> QED
  BY <1>1, <1>2, <1>3, Invariant, PTL DEF Spec

-----------------------------------------------------------------------------
(* What a step may never do.                                               *)

\* The conjuncts of AdmittedKnowingly, for one member and for one invitation.
KnownAdmission(m) ==
    (member'[m] # Null /\ member'[m] # member[m] /\ member'[m].status = "active") =>
        /\ member'[m].epoch = mesh'.joined
        /\ mesh # Null =>
              \E h \in Hosts : seen[h] # Null /\ seen[h].member = m /\ seen[h].row = member[m]

InvitedOnce(v) ==
    inv[v] # Null =>
        /\ inv[v].state \in {"confirmed", "expired", "revoked"} => inv'[v] = inv[v]
        /\ (inv'[v].state = "confirmed" /\ inv'[v] # inv[v]) =>
              now < inv[v].expires /\ mesh'.joined = mesh.joined + 1

LEMMA ActivateKnown ==
    ASSUME MeshConstants, IInv, NEW h \in Hosts, Activate(h), NEW n \in Members
    PROVE  KnownAdmission(n)
<1>1. /\ MemberWrite(seen[h].member, "active") /\ seen[h] # Null
      /\ seen[h].row = member[seen[h].member]
      /\ member'[seen[h].member].epoch = mesh.joined + 1
      /\ mesh'.joined = mesh.joined + 1
  BY ActivateWrites, Zenon DEF Activate, LockMesh
<1> QED
  BY <1>1, Zenon DEF KnownAdmission, MemberWrite

LEMMA StepKnown == ASSUME MeshConstants, IInv, [Next]_vars, NEW n \in Members PROVE KnownAdmission(n)
<1>1. ASSUME NEW m \in Members, BootstrapMesh(m) PROVE KnownAdmission(n)
  BY <1>1, Zenon DEF BootstrapMesh, IInv, TypeOK, KnownAdmission
<1>2. ASSUME NEW h \in Hosts, ActivateMember(h) \/ \E v \in Invitations : ConfirmInvitation(h, v)
      PROVE  KnownAdmission(n)
  BY <1>2, ActivateKnown, Zenon DEF ActivateMember, ConfirmInvitation
<1>3. ASSUME NEW h \in Hosts, RetireMember(h) PROVE KnownAdmission(n)
  BY <1>3, RetireWrites, Zenon DEF KnownAdmission, MemberWrite
<1>4. ASSUME NEW h \in Hosts, RevokeMember(h) PROVE KnownAdmission(n)
  BY <1>4, RevokeWrites, Zenon DEF KnownAdmission, MemberWrite
<1>5. CASE member' = member
  BY <1>5, Zenon DEF KnownAdmission
<1> QED
  BY <1>1, <1>2, <1>3, <1>4, <1>5, Zenon
     DEF Next, vars, Tick, Read, BindPublicIdentity, Forget, RenameMesh, AssertCurrentMember,
         EndTransaction, RotatePublicIdentity, RevokePublicIdentity, IssueChallenge,
         ProveChallenge, CancelChallenge, IssueInvitation, ConsumeInvitation, ExpireInvitation,
         RevokeInvitation

LEMMA StepInvited == ASSUME MeshConstants, IInv, [Next]_vars, NEW u \in Invitations PROVE InvitedOnce(u)
<1>1. ASSUME NEW v \in Invitations, ConsumeInvitation(v) \/ ExpireInvitation(v) \/ RevokeInvitation(v)
      PROVE  InvitedOnce(u)
  <2>1. \E states \in {{"pending"}, {"pending", "consumed"}}, to \in {"consumed", "expired", "revoked"} :
          Moved(v, states, to)
    BY <1>1, Zenon DEF ConsumeInvitation, ExpireInvitation, RevokeInvitation
  <2> QED
    BY <2>1, MovedTo DEF InvitedOnce
<1>2. ASSUME NEW h \in Hosts, NEW v \in Invitations, ConfirmInvitation(h, v) PROVE InvitedOnce(u)
  <2>1. Moved(v, {"consumed"}, "confirmed") /\ now < inv[v].expires /\ Activate(h)
    BY <1>2, Zenon DEF ConfirmInvitation
  <2>2. mesh'.joined = mesh.joined + 1
    BY <2>1, ActivateWrites, Zenon
  <2> QED
    BY <2>1, <2>2, MovedTo, Zenon DEF InvitedOnce
<1>3. ASSUME NEW v \in Invitations, IssueInvitation(v) PROVE InvitedOnce(u)
  BY <1>3, Zenon DEF IssueInvitation, InvitedOnce, IInv, TypeOK
<1>4. CASE inv' = inv
  BY <1>4, Zenon DEF InvitedOnce
<1> QED
  BY <1>1, <1>2, <1>3, <1>4, Zenon
     DEF Next, vars, others, Tick, BootstrapMesh, Read, BindPublicIdentity, Forget, RenameMesh,
         ActivateMember, RetireMember, RevokeMember, AssertCurrentMember, EndTransaction,
         RotatePublicIdentity, RevokePublicIdentity, IssueChallenge, ProveChallenge, CancelChallenge

LEMMA StepKeys == ASSUME IInv, [Next]_vars PROVE KeysStay
<1>1. ASSUME NEW i \in Identities, RotatePublicIdentity(i) \/ RevokePublicIdentity(i) PROVE KeysStay
  <2>1. ident[i] \in IdentityRows /\ chal' = chal
    BY <1>1, Zenon DEF RotatePublicIdentity, RevokePublicIdentity, IInv, TypeOK
  <2>2. /\ ident'[i].state # "active" /\ ident'[i].of = ident[i].of
        /\ \A j \in Identities : j # i => ident'[j] = ident[j]
    BY <1>1, <2>1 DEF RotatePublicIdentity, RevokePublicIdentity, IInv, TypeOK, IdentityRows
  <2> QED
    BY <2>1, <2>2, Zenon DEF KeysStay
<1>2. ASSUME NEW i \in Identities, NEW m \in Members, BindPublicIdentity(i, m) PROVE KeysStay
  BY <1>2, Zenon DEF BindPublicIdentity, KeysStay, IInv, TypeOK
<1>3. ASSUME NEW c \in Challenges, IssueChallenge(c) \/ ProveChallenge(c) \/ CancelChallenge(c) PROVE KeysStay
  BY <1>3, Zenon DEF IssueChallenge, ProveChallenge, CancelChallenge, KeysStay, IInv, TypeOK
<1>4. CASE UNCHANGED <<ident, chal>>
  BY <1>4, Zenon DEF KeysStay
<1> QED
  BY <1>1, <1>2, <1>3, <1>4, Zenon
     DEF Next, vars, others, Tick, BootstrapMesh, Read, Forget, RenameMesh, ActivateMember,
         RetireMember, RevokeMember, AssertCurrentMember, EndTransaction, IssueInvitation,
         ConsumeInvitation, ExpireInvitation, RevokeInvitation, ConfirmInvitation

\* A member comes back only by a host that had read its retirement or revocation, in a
\* new epoch; an invitation admits once, within its window; keys that ended stay ended
\* (activate_member, confirm_invitation, rotate and revoke in mesh_enrollment.py).
THEOREM MeshOnlyAdvances == ASSUME MeshConstants PROVE Spec => [][MeshStays]_vars
<1>1. IInv /\ [Next]_vars => MeshStays
  BY StepKnown, StepInvited, StepKeys, Zenon DEF MeshStays, AdmittedKnowingly, KnownAdmission, InvitedOnce
<1> QED
  BY <1>1, Invariant, PTL DEF Spec
=============================================================================
