---------------------------- MODULE Credentials ----------------------------
(***************************************************************************)
(* What one owner may act with: web sessions, whose encrypted tokens are   *)
(* rotated by compare-and-set; framework credentials minted from a live    *)
(* session; offline grants; and the queue of refresh tokens to revoke.     *)
(* Hosts read a row, go to the identity provider or wait, and come back    *)
(* with what they read.  Ciphertexts are numbered in the order the         *)
(* provider hands them out; an incarnation is the database's own name of   *)
(* one stored session.                                                     *)
(***************************************************************************)
EXTENDS Integers, Sequences

CONSTANTS
    Hosts,        \* host processes
    Sids,         \* session identities
    Creds,        \* framework credential identities
    Grants,       \* offline grant identities
    Allowance,    \* max_admissions of every credential and grant
    Life,         \* hard lifetime of a session and ttl of the others
    Window,       \* lifetime of an observation
    MaxTime, MaxTokens, MaxIncarnations, MaxAttempts,   \* bounds
    Null

VARIABLES
    now,       \* the database clock
    owner,     \* astralplane_blob_owner_state of the owner
    sent,      \* login records a host may still deliver, or deliver again
    session,   \* web_session rows
    incs,      \* how many incarnations the database has issued
    ended,     \* the incarnations whose row was deleted
    origin,    \* for each ciphertext, the one it was exchanged for (0: a login)
    held,      \* what each host has read, and whether it ran with it: [of, row, at, ran]
    issuing,   \* the issue that holds the owner lock between check and insert
    cred,      \* framework_credential rows
    grant,     \* user_offline_grant rows
    queue      \* auth_revocation_queue rows

rows == <<session, cred, grant>>
vars == <<now, owner, sent, session, incs, ended, origin, held, issuing, cred, grant, queue>>

-----------------------------------------------------------------------------

Tokens == 1 .. Len(origin)

SessionRows == [created: 0 .. MaxTime, refresh: 0 .. MaxTime, tok: Tokens,
                resumed: BOOLEAN, inc: 1 .. incs]

CredentialRows == [issuer: 1 .. incs, used: 0 .. Allowance, revoked: BOOLEAN,
                   expires: 0 .. MaxTime + Life]

GrantRows == [tok: Tokens, used: 0 .. Allowance, revoked: BOOLEAN,
              expires: 0 .. MaxTime + Life]

TypeOK ==
    /\ now \in 0 .. MaxTime /\ owner \in {"active", "retired"}
    /\ \A p \in sent : p.sid \in Sids /\ p.created \in 0 .. MaxTime /\ p.tok \in Tokens
    /\ \A s \in Sids : session[s] # Null => session[s] \in SessionRows
    /\ \A c \in Creds : cred[c] # Null => cred[c] \in CredentialRows
    /\ \A g \in Grants : grant[g] # Null => grant[g] \in GrantRows
    /\ ended \subseteq 1 .. incs
    /\ \A q \in queue : q.tok \in Tokens /\ q.attempts \in 0 .. MaxAttempts

Init ==
    /\ now = 0
    /\ owner = "active"
    /\ sent = {}
    /\ session = [s \in Sids |-> Null]
    /\ incs = 0
    /\ ended = {}
    /\ origin = <<>>
    /\ held = [h \in Hosts |-> Null]
    /\ issuing = Null
    /\ cred = [c \in Creds |-> Null]
    /\ grant = [g \in Grants |-> Null]
    /\ queue = {}

-----------------------------------------------------------------------------

Tick ==
    /\ now < MaxTime
    /\ now' = now + 1
    /\ UNCHANGED <<owner, sent, incs, ended, origin, held, issuing, queue, rows>>

\* The provider hands out a ciphertext in exchange for t.
Mint(t) ==
    /\ Len(origin) < MaxTokens
    /\ origin' = Append(origin, t)

Login(s) ==
    /\ Mint(0)
    /\ sent' = sent \union {[sid |-> s, created |-> now, tok |-> Len(origin) + 1]}
    /\ UNCHANGED <<now, owner, incs, ended, held, issuing, queue, rows>>

\* Mutant: the owner's state is read before the owner lock is taken.
OwnerUnlocked == owner = "active"

OwnerLocked ==
    /\ issuing = Null
    /\ owner = "active"

\* A delivery that finds the row again returns it or is a conflict.
Put(p) ==
    /\ OwnerLocked
    /\ session[p.sid] = Null
    /\ incs < MaxIncarnations
    /\ incs' = incs + 1
    /\ session' = [session EXCEPT ![p.sid] =
                    [created |-> p.created, refresh |-> p.created, tok |-> p.tok,
                     resumed |-> FALSE, inc |-> incs + 1]]
    /\ UNCHANGED <<now, owner, sent, ended, origin, held, issuing, cred, grant, queue>>

Hold(h, x, row) == held' = [held EXCEPT ![h] = [of |-> x, row |-> row, at |-> now,
                                                ran |-> FALSE]]

Holds(h, x) == held[h] # Null /\ held[h].of = x /\ ~held[h].ran

Observe(h, s) ==
    /\ session[s] # Null
    /\ Hold(h, s, session[s])
    /\ UNCHANGED <<now, owner, sent, incs, ended, origin, issuing, queue, rows>>

Fence(row) == [created |-> row.created, refresh |-> row.refresh, tok |-> row.tok,
               inc |-> row.inc]

Exact(h, s) ==
    /\ OwnerLocked
    /\ session[s] # Null
    /\ Fence(session[s]) = Fence(held[h].row)
    /\ now < session[s].created + Life

Fresh(h) == now < held[h].at + Window

Done(h) == held' = [held EXCEPT ![h] = Null]

Ran(h) == held' = [held EXCEPT ![h].ran = TRUE]

Execute(h, s) ==
    /\ Holds(h, s)
    /\ Exact(h, s)
    /\ Fresh(h)
    /\ Ran(h)
    /\ UNCHANGED <<now, owner, sent, incs, ended, origin, issuing, queue, rows>>

SameGeneration(h, s) ==
    /\ session[s] # Null
    /\ session[s].created = held[h].row.created
    /\ session[s].refresh = held[h].row.refresh
    /\ session[s].inc = held[h].row.inc

\* The exchange happened before the transaction; a refused update loses it.
CompareAndSetRefresh(h, s, fenced) ==
    /\ Holds(h, s)
    /\ now > held[h].row.refresh
    /\ Mint(held[h].row.tok)
    /\ IF (fenced => Exact(h, s)) /\ SameGeneration(h, s)
       THEN session' = [session EXCEPT ![s].tok = Len(origin) + 1, ![s].refresh = now,
                                       ![s].resumed = held[h].row.resumed]
       ELSE UNCHANGED session
    /\ Done(h)
    /\ UNCHANGED <<now, owner, sent, incs, ended, issuing, cred, grant, queue>>

MarkResumed(h, s) ==
    /\ Holds(h, s)
    /\ session[s] # Null
    /\ session[s].resumed = held[h].row.resumed
    /\ session[s].inc = held[h].row.inc
    /\ session' = [session EXCEPT ![s].resumed = ~@]
    /\ Done(h)
    /\ UNCHANGED <<now, owner, sent, incs, ended, origin, issuing, cred, grant, queue>>

Remove(S) ==
    /\ session' = [s \in Sids |-> IF s \in S THEN Null ELSE session[s]]
    /\ ended' = ended \union {session[s].inc : s \in S}

Enqueue(t) == queue' = queue \union {[tok |-> t, attempts |-> 0]}

\* A logout queues the ciphertext of the row it deleted, not the one it had read.
Delete(h, s, logout) ==
    /\ Holds(h, s)
    /\ session[s] # Null
    /\ session[s].inc = held[h].row.inc
    /\ Remove({s})
    /\ IF logout THEN Enqueue(session[s].tok) ELSE UNCHANGED queue
    /\ Done(h)
    /\ UNCHANGED <<now, owner, sent, incs, origin, issuing, cred, grant>>

Stored == {s \in Sids : session[s] # Null}

DeleteMany ==
    /\ \E S \in {Stored, {s \in Stored : session[s].created + Life <= now}} :
         S # {} /\ Remove(S)
    /\ UNCHANGED <<now, owner, sent, incs, origin, held, issuing, cred, grant, queue>>

RetireOwner ==
    /\ OwnerLocked
    /\ owner' = "retired"
    /\ UNCHANGED <<now, sent, incs, ended, origin, held, issuing, queue, rows>>

-----------------------------------------------------------------------------

\* The session row is read, not locked, so it may be gone before the insert.
StartIssue(h, c) ==
    /\ OwnerLocked
    /\ cred[c] = Null
    /\ \E s \in Stored :
         /\ Holds(h, s)
         /\ session[s].inc = held[h].row.inc
         /\ now < session[s].created + Life
         /\ issuing' = [cred |-> c, issuer |-> session[s].inc]
    /\ UNCHANGED <<now, owner, sent, incs, ended, origin, held, queue, rows>>

Issue ==
    /\ issuing # Null
    /\ cred' = [cred EXCEPT ![issuing.cred] =
                 [issuer |-> issuing.issuer, used |-> 0, revoked |-> FALSE,
                  expires |-> now + Life]]
    /\ issuing' = Null
    /\ UNCHANGED <<now, owner, sent, session, incs, ended, origin, held, grant, queue>>

Live(row) == row # Null /\ ~row.revoked /\ now < row.expires

ConsumeAdmission(c) ==
    /\ OwnerLocked
    /\ Live(cred[c])
    /\ cred[c].used < Allowance
    /\ cred' = [cred EXCEPT ![c].used = @ + 1]
    /\ UNCHANGED <<now, owner, sent, session, incs, ended, origin, held, issuing, grant,
                   queue>>

Revoke(c) ==
    /\ OwnerLocked
    /\ cred[c] # Null /\ ~cred[c].revoked
    /\ cred' = [cred EXCEPT ![c].revoked = TRUE]
    /\ UNCHANGED <<now, owner, sent, session, incs, ended, origin, held, issuing, grant,
                   queue>>

CaptureObservation(h, c) ==
    /\ OwnerLocked
    /\ Live(cred[c])
    /\ Hold(h, c, cred[c])
    /\ UNCHANGED <<now, owner, sent, incs, ended, origin, issuing, queue, rows>>

ExecuteCredential(h, c) ==
    /\ Holds(h, c)
    /\ OwnerLocked
    /\ Live(cred[c])
    /\ Fresh(h)
    /\ Ran(h)
    /\ UNCHANGED <<now, owner, sent, incs, ended, origin, issuing, queue, rows>>

-----------------------------------------------------------------------------

CreateGrant(g) ==
    /\ grant[g] = Null
    /\ Mint(0)
    /\ grant' = [grant EXCEPT ![g] = [tok |-> Len(origin) + 1, used |-> 0,
                                      revoked |-> FALSE, expires |-> now + Life]]
    /\ UNCHANGED <<now, owner, sent, session, incs, ended, held, issuing, cred, queue>>

ReadGrant(h, g) ==
    /\ Live(grant[g])
    /\ Hold(h, g, grant[g])
    /\ UNCHANGED <<now, owner, sent, incs, ended, origin, issuing, queue, rows>>

\* A replacement that is not current returns nothing, and its ciphertext is lost.
ReplaceRefreshToken(h, g) ==
    /\ Holds(h, g)
    /\ Mint(held[h].row.tok)
    /\ grant' = IF Live(grant[g]) /\ grant[g].tok = held[h].row.tok
                THEN [grant EXCEPT ![g].tok = Len(origin) + 1] ELSE grant
    /\ Done(h)
    /\ UNCHANGED <<now, owner, sent, session, incs, ended, issuing, cred, queue>>

ConsumeGrant(g) ==
    /\ Live(grant[g])
    /\ grant[g].used < Allowance
    /\ grant' = [grant EXCEPT ![g].used = @ + 1]
    /\ UNCHANGED <<now, owner, sent, session, incs, ended, origin, held, issuing, cred,
                   queue>>

\* One grant, or all the owner's that are not revoked.
RevokeGrants ==
    /\ \E S \in {{g} : g \in Grants} \union {Grants} :
         LET live == {g \in S : grant[g] # Null /\ ~grant[g].revoked} IN
         /\ live # {}
         /\ grant' = [g \in Grants |->
                        IF g \in live THEN [grant[g] EXCEPT !.revoked = TRUE] ELSE grant[g]]
    /\ UNCHANGED <<now, owner, sent, session, incs, ended, origin, held, issuing, cred,
                   queue>>

\* The owner lock is only tried: while an issue holds it the grant is unavailable.
ExecuteGrant(h, g) ==
    /\ Holds(h, g)
    /\ OwnerLocked
    /\ Live(grant[g])
    /\ Ran(h)
    /\ UNCHANGED <<now, owner, sent, incs, ended, origin, issuing, queue, rows>>

-----------------------------------------------------------------------------

\* The provider accepted the revocation, or it did not and the row is counted up.
Resolve(q) ==
    /\ queue' = queue \ {q}
    /\ UNCHANGED <<now, owner, sent, incs, ended, origin, held, issuing, rows>>

BumpAttempt(q) ==
    /\ q.attempts < MaxAttempts
    /\ queue' = (queue \ {q}) \union {[q EXCEPT !.attempts = @ + 1]}
    /\ UNCHANGED <<now, owner, sent, incs, ended, origin, held, issuing, rows>>

Next ==
    \/ Tick
    \/ \E s \in Sids : Login(s)
    \/ \E p \in sent : Put(p)
    \/ \E h \in Hosts, s \in Sids :
         \/ Observe(h, s)
         \/ Execute(h, s)
         \/ MarkResumed(h, s)
         \/ \E b \in BOOLEAN : CompareAndSetRefresh(h, s, b) \/ Delete(h, s, b)
    \/ DeleteMany
    \/ RetireOwner
    \/ Issue
    \/ \E c \in Creds :
         \/ ConsumeAdmission(c)
         \/ Revoke(c)
         \/ \E h \in Hosts : StartIssue(h, c) \/ CaptureObservation(h, c) \/ ExecuteCredential(h, c)
    \/ \E g \in Grants :
         \/ CreateGrant(g)
         \/ ConsumeGrant(g)
         \/ \E h \in Hosts : ReadGrant(h, g) \/ ReplaceRefreshToken(h, g) \/ ExecuteGrant(h, g)
    \/ RevokeGrants
    \/ \E q \in queue : Resolve(q) \/ BumpAttempt(q)

Spec == Init /\ [][Next]_vars

-----------------------------------------------------------------------------

\* A stored session has an incarnation of its own, which no earlier row of the
\* same identity ever had, and an allowance is never exceeded (SessionRepository.put,
\* FrameworkCredentialRepository.consume_admission).
CredentialSound ==
    /\ TypeOK
    /\ \A s \in Stored : session[s].inc \notin ended
    /\ \A s, t \in Stored : session[s].inc = session[t].inc => s = t

\* Two hosts that exchanged the same ciphertext never both store the result: a
\* stored ciphertext was obtained with the one it replaces
\* (compare_and_set_refresh, replace_refresh_token_if_current).
RotatesInTurn ==
    /\ \A s \in Sids :
         (session[s] # Null /\ session'[s] # Null)
           => ((session'[s].inc = session[s].inc /\ session'[s].tok # session[s].tok)
                 => origin'[session'[s].tok] = session[s].tok)
    /\ \A g \in Grants :
         (grant[g] # Null /\ grant'[g].tok # grant[g].tok)
           => origin'[grant'[g].tok] = grant[g].tok

Runs(h) == held[h] # Null /\ ~held[h].ran /\ held'[h] # Null /\ held'[h].ran

\* An execution that is accepted names the row that is stored at that moment,
\* in the very incarnation the host had observed (assert_current_execution).
RunsCurrent ==
    \A h \in Hosts : Runs(h) =>
      LET seen == held[h].row IN
      /\ held[h].of \in Sids =>
           \E s \in Stored : session[s].inc = seen.inc /\ session[s].tok = seen.tok
      /\ held[h].of \in Creds => Live(cred[held[h].of])
      /\ held[h].of \in Grants => Live(grant[held[h].of])

\* Once the owner is retired nothing is minted, admitted or accepted for it,
\* an issue that had passed its checks included (_lock_issuer_owner).
RetiredStays ==
    owner = "retired" =>
      /\ owner' = "retired" /\ incs' = incs /\ cred' = cred
      /\ \A h \in Hosts : ~Runs(h)

\* A revocation is final, and a logout queues the ciphertext that was stored
\* when the row was deleted (revoke, revoke_grant, delete_and_return).
EndsStay ==
    /\ \A c \in Creds : cred[c] # Null =>
         (cred'[c] # Null /\ (cred[c].revoked => cred'[c] = cred[c]))
    /\ \A g \in Grants : grant[g] # Null =>
         (grant'[g] # Null /\ (grant[g].revoked => grant'[g] = grant[g]))
    /\ \A q \in queue' \ queue : q.attempts = 0 =>
         \E s \in Stored : session'[s] = Null /\ session[s].tok = q.tok

CredentialsStay == RotatesInTurn /\ RunsCurrent /\ RetiredStays /\ EndsStay

=============================================================================
