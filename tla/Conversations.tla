--------------------------- MODULE Conversations ---------------------------
(***************************************************************************)
(* One conversation: its authority row (render revision and head           *)
(* publication), the publications staged against it, the messages, canvas  *)
(* components and layouts they carry, and the result saves that stage and  *)
(* commit in one transaction.  Components and layouts follow the same      *)
(* discipline and are both "items"; a legacy row has no publication.       *)
(*                                                                         *)
(* PostgreSQL runs READ COMMITTED: an INSERT ... SELECT that names a       *)
(* staged publication does not lock it, so the publication may change      *)
(* between the statement's snapshot (Insert) and the moment its row is     *)
(* visible (Land).                                                         *)
(***************************************************************************)
EXTENDS Integers, FiniteSets, FiniteSetsExt

CONSTANTS
    Pubs,        \* publication identifiers
    Role,        \* Role[p]: atomic, user_acceptance or assistant_result
    Saves,       \* publications that are result saves of an assignment
    Items,       \* component and layout identities
    Values,      \* payloads
    MaxPosition, \* bound: message positions 0 .. MaxPosition
    MaxFlight,   \* bound: inserts between their snapshot and their commit
    Legacy,      \* whether revision-zero rows are written at all
    Null

VARIABLES
    chat,        \* the chats row: live, rev, head, saved
    pub,         \* conversation_commit rows
    rows,        \* messages, saved_components and workspace_layout rows
    flight,      \* rows of inserts whose snapshot has been taken
    save         \* result-publication actions and their receipts

vars == <<chat, pub, rows, flight, save>>

-----------------------------------------------------------------------------

Messages == [kind: {"message"}, pub: Pubs \union {Null}, key: 0 .. MaxPosition,
             rev: 0 .. Cardinality(Pubs), val: {"said", "noticed"}]

Canvas == [kind: {"item"}, pub: Pubs \union {Null}, key: Items,
           rev: 0 .. Cardinality(Pubs), val: Values]

NoPublication == [state |-> "none", base |-> 0, rev |-> 0, ebase |-> 0, rebases |-> 0]

TypeOK ==
    /\ chat \in [live: BOOLEAN, rev: 0 .. Cardinality(Pubs),
                 head: Pubs \union {Null}, saved: BOOLEAN]
    /\ pub \in [Pubs -> [state: {"none", "staged", "committed", "aborted"},
                         base: 0 .. Cardinality(Pubs), rev: 0 .. Cardinality(Pubs),
                         ebase: 0 .. Cardinality(Pubs), rebases: 0 .. 1]]
    /\ rows \subseteq (Messages \union Canvas)
    /\ flight \subseteq (Messages \union Canvas)
    /\ save \in [Saves -> [state: {"none", "proposed", "invalidated", "succeeded"},
                           base: 0 .. Cardinality(Pubs), head: Pubs \union {Null}]]

Init ==
    /\ chat = [live |-> TRUE, rev |-> 0, head |-> Null, saved |-> FALSE]
    /\ pub = [p \in Pubs |-> NoPublication]
    /\ rows = {}
    /\ flight = {}
    /\ save = [s \in Saves |-> [state |-> "none", base |-> 0, head |-> Null]]

Of(p) == {r \in rows : r.pub = p}
MessagesOf(p) == {r \in Of(p) : r.kind = "message"}
ItemsOf(p) == {r \in Of(p) : r.kind = "item"}

\* The unique indexes: one row per kind, publication and key.
Taken(r) == \E s \in rows : s.kind = r.kind /\ s.pub = r.pub /\ s.key = r.key

\* What the message readers return: rows without a publication, and rows of
\* a committed publication that carry its committed revision.
Visible ==
    {r \in rows : \/ r.pub = Null
                  \/ /\ r.pub # Null
                     /\ pub[r.pub].state = "committed"
                     /\ r.rev = pub[r.pub].rev}

\* What list_current returns: the rows of the head at the head's revision,
\* or the legacy rows of a conversation at revision zero.
Current == {r \in rows : r.kind = "item" /\ r.pub = chat.head /\ r.rev = chat.rev}

-----------------------------------------------------------------------------
\* Publications.

Stage(p) ==
    /\ chat.live
    /\ p \notin Saves
    /\ pub[p].state = "none"
    /\ (Role[p] = "assistant_result") => chat.rev > 0
    /\ pub' = [pub EXCEPT ![p] = [state |-> "staged", base |-> chat.rev, rev |-> 0,
                                  ebase |-> chat.rev, rebases |-> 0]]
    /\ UNCHANGED <<chat, rows, flight, save>>

\* rebase_assistant_stage.  The rows already say what is asked for, at the
\* revision after the head: a replay that may still add the notice.
Settled(p, content) ==
    /\ {<<r.key, r.val>> : r \in ItemsOf(p)} = content
    /\ \A r \in Of(p) : r.rev = chat.rev + 1

Noticed(p, found) ==
    LET own == {r \in found : r.kind = "message" /\ r.pub = p}
        last == CHOOSE r \in own : \A s \in own : s.key <= r.key
    IN  (found \ {last}) \union {[last EXCEPT !.val = "noticed", !.rev = chat.rev + 1]}

Contiguous(p) ==
    {r.key : r \in MessagesOf(p)} = 0 .. Cardinality(MessagesOf(p)) - 1

Rebased(p, content) ==
    (rows \ Of(p))
        \union {[kind |-> "item", pub |-> p, key |-> c[1], rev |-> chat.rev + 1,
                 val |-> c[2]] : c \in content}
        \union {[r EXCEPT !.rev = chat.rev + 1] : r \in MessagesOf(p)}

Rebasable(p) ==
    /\ chat.live
    /\ pub[p].state = "staged"
    /\ Role[p] = "assistant_result"
    /\ Contiguous(p)

RebaseAgain(p, content) ==
    /\ Rebasable(p)
    /\ Settled(p, content)
    /\ MessagesOf(p) # {}
    /\ rows' = Noticed(p, rows)
    /\ UNCHANGED <<chat, pub, flight, save>>

Rebase(p, content) ==
    /\ Rebasable(p)
    /\ ~Settled(p, content)
    /\ pub[p].rebases = 0
    /\ pub' = [pub EXCEPT ![p].rebases = 1]
    /\ \/ rows' = Rebased(p, content)
       \/ MessagesOf(p) # {} /\ rows' = Noticed(p, Rebased(p, content))
    /\ UNCHANGED <<chat, flight, save>>

\* validate_stage hands the caller the revision of every staged row; the
\* caller commits only a stage whose every row is at the next revision.
Validated(p) == \A r \in Of(p) : r.rev = chat.rev + 1

\* Mutant: any publication may be committed at a later head.
AtAnyHead(p) == TRUE

AtItsHead(p) == (Role[p] # "assistant_result") => pub[p].base = chat.rev

Advance(p, found) ==
    chat' = [chat EXCEPT !.rev = @ + 1, !.head = p,
                         !.saved = \E r \in found : /\ r.kind = "item"
                                                    /\ r.pub = p
                                                    /\ r.rev = chat.rev + 1]

CommitAtHead(p) ==
    /\ chat.live
    /\ pub[p].state = "staged"
    /\ AtItsHead(p)
    /\ Validated(p)
    /\ pub' = [pub EXCEPT ![p].state = "committed",
                          ![p].base = chat.rev,
                          ![p].rev = chat.rev + 1,
                          ![p].rebases = IF /\ Role[p] # "atomic"
                                            /\ @ = 0
                                            /\ pub[p].ebase # chat.rev
                                         THEN 1
                                         ELSE @]
    /\ Advance(p, rows)
    /\ UNCHANGED <<rows, flight, save>>

Abort(p) ==
    /\ pub[p].state = "staged"
    /\ pub' = [pub EXCEPT ![p].state = "aborted"]
    /\ rows' = rows \ Of(p)
    /\ UNCHANGED <<chat, flight, save>>

-----------------------------------------------------------------------------
\* Rows.

\* CanvasRepository.create, LayoutRepository.create and
\* MessageRepository.append: the statement reads the publication ...
Insert(p, kind, key, val) ==
    /\ Cardinality(flight) < MaxFlight
    /\ pub[p].state = "staged"
    /\ flight' = flight \union {[kind |-> kind, pub |-> p, key |-> key,
                                 rev |-> pub[p].base + 1, val |-> val]}
    /\ UNCHANGED <<chat, pub, rows, save>>

\* ... and its row appears unless the key is taken, or never when the
\* conversation is gone.
Land(r) ==
    /\ r \in flight
    /\ flight' = flight \ {r}
    /\ rows' = rows \union IF chat.live /\ ~Taken(r) THEN {r} ELSE {}
    /\ UNCHANGED <<chat, pub, save>>

\* The same three operations for a conversation without publications.
InsertLegacy(kind, key, val) ==
    /\ Legacy
    /\ chat.live
    /\ chat.rev = 0
    /\ LET r == [kind |-> kind, pub |-> Null, key |-> key, rev |-> 0, val |-> val]
       IN  /\ ~Taken(r)
           /\ rows' = rows \union {r}
    /\ UNCHANGED <<chat, pub, flight, save>>

SyncLegacyPresence ==
    /\ chat.live
    /\ chat.rev = 0
    /\ chat' = [chat EXCEPT !.saved = \E r \in rows : r.kind = "item" /\ r.pub = Null]
    /\ UNCHANGED <<pub, rows, flight, save>>

\* append_next_to_staged_publication locks the publication and the
\* conversation and takes the next position.
AppendNext(p) ==
    /\ chat.live
    /\ pub[p].state = "staged"
    /\ AtItsHead(p)
    /\ LET next == Max({r.key : r \in MessagesOf(p)} \union {-1}) + 1
       IN  /\ next <= MaxPosition
           /\ rows' = rows \union {[kind |-> "message", pub |-> p, key |-> next,
                                    rev |-> pub[p].base + 1, val |-> "said"]}
    /\ UNCHANGED <<chat, pub, flight, save>>

\* replace and remove name a row by its key and scope, whatever the state
\* of its publication; only the messages have no such operation.
Replace(r, v) ==
    /\ r \in rows
    /\ r.kind = "item"
    /\ v # r.val
    /\ rows' = (rows \ {r}) \union {[r EXCEPT !.val = v]}
    /\ UNCHANGED <<chat, pub, flight, save>>

Remove(r) ==
    /\ r \in rows
    /\ r.kind = "item"
    /\ rows' = rows \ {r}
    /\ UNCHANGED <<chat, pub, flight, save>>

\* Deleting the conversation takes its publications and rows along.
Delete ==
    /\ chat.live
    /\ chat' = [live |-> FALSE, rev |-> 0, head |-> Null, saved |-> FALSE]
    /\ pub' = [p \in Pubs |-> NoPublication]
    /\ rows' = {}
    /\ UNCHANGED <<flight, save>>

-----------------------------------------------------------------------------
\* Result saves.

\* put: the proposal names the head it was made against.
Propose(s) ==
    /\ chat.live
    /\ save[s].state = "none"
    /\ pub[s].state = "none"
    /\ save' = [save EXCEPT ![s] = [state |-> "proposed", base |-> chat.rev,
                                    head |-> chat.head]]
    /\ UNCHANGED <<chat, pub, rows, flight>>

\* A revision of the assignment, or its stop, invalidates what is proposed.
Invalidate(s) ==
    /\ save[s].state = "proposed"
    /\ save' = [save EXCEPT ![s].state = "invalidated"]
    /\ UNCHANGED <<chat, pub, rows, flight>>

HeadHolds(s) ==
    /\ pub[s].state = "none"
    /\ save[s].base = chat.rev
    /\ save[s].head = chat.head

\* commit: stage, create the reviewed rows, validate, commit at the head and
\* write the receipt, all in one transaction.
CommitSave(s, content) ==
    /\ chat.live
    /\ save[s].state = "proposed"
    /\ HeadHolds(s)
    /\ LET new == {[kind |-> "item", pub |-> s, key |-> c[1], rev |-> chat.rev + 1,
                    val |-> c[2]] : c \in content}
       IN  /\ rows' = rows \union new
           /\ Advance(s, rows \union new)
    /\ pub' = [pub EXCEPT ![s] = [state |-> "committed", base |-> chat.rev,
                                  rev |-> chat.rev + 1, ebase |-> 0, rebases |-> 0]]
    /\ save' = [save EXCEPT ![s].state = "succeeded"]
    /\ UNCHANGED flight

-----------------------------------------------------------------------------

Contents == UNION {{{<<i, f[i]>> : i \in S} : f \in [S -> Values]} : S \in SUBSET Items}

Next ==
    \/ \E p \in Pubs :
        \/ Stage(p)
        \/ CommitAtHead(p)
        \/ Abort(p)
        \/ AppendNext(p)
        \/ \E c \in Contents : Rebase(p, c) \/ RebaseAgain(p, c)
        \/ \E i \in Items, v \in Values : Insert(p, "item", i, v)
        \/ \E n \in 0 .. MaxPosition : Insert(p, "message", n, "said")
    \/ \E r \in flight : Land(r)
    \/ \E i \in Items, v \in Values : InsertLegacy("item", i, v)
    \/ \E n \in 0 .. MaxPosition : InsertLegacy("message", n, "said")
    \/ SyncLegacyPresence
    \/ \E r \in rows : Remove(r) \/ \E v \in Values : Replace(r, v)
    \/ Delete
    \/ \E s \in Saves :
        \/ Propose(s)
        \/ Invalidate(s)
        \/ \E c \in Contents \ {{}} : CommitSave(s, c)

Spec == Init /\ [][Next]_vars

-----------------------------------------------------------------------------

Committed == {p \in Pubs : pub[p].state = "committed"}

\* The committed publications are exactly the revisions 1 .. rev of the
\* conversation, each built on the one before it, and the head is the last:
\* no two publications are committed against one head.
HeadChain ==
    chat.live =>
        /\ {pub[p].rev : p \in Committed} = 1 .. chat.rev
        /\ Cardinality(Committed) = chat.rev
        /\ \A p \in Committed : pub[p].rev = pub[p].base + 1
        /\ (chat.rev = 0) = (chat.head = Null)
        /\ chat.rev > 0 => chat.head \in Committed /\ pub[chat.head].rev = chat.rev

\* Every row of a committed publication that cannot be rebased is visible,
\* even one whose insert was overtaken by the commit; and a reader of the
\* canvas never sees a row of another publication than the head.
RowsShown ==
    /\ \A p \in Committed : Role[p] # "assistant_result" => Of(p) \subseteq Visible
    /\ chat.live => \A r \in Current : r.pub = chat.head /\ r \in Visible

\* A publication that has not been rebased carries one revision throughout,
\* the one after its base: a rebase is the only way to have rows of another
\* revision.
OneRevision ==
    \A p \in Pubs : pub[p].state = "staged" /\ pub[p].rebases = 0
                        => \A r \in Of(p) \union {f \in flight : f.pub = p} :
                              r.rev = pub[p].base + 1

\* A receipt is truthful: the saved publication is committed on the head the
\* owner reviewed.
ReceiptTrue ==
    chat.live =>
        \A s \in Saves : save[s].state = "succeeded" <=> pub[s].state = "committed"
                         /\ pub[s].base = save[s].base
                         /\ \A p \in Committed : pub[p].rev = pub[s].base => p = save[s].head

\* A visible message stays visible and unchanged for as long as the
\* conversation lives, whatever is staged, rebased, aborted or inserted late.
MessagesStay ==
    chat'.live => {r \in Visible : r.kind = "message"} \subseteq Visible'

\* A decided publication stays decided, with its base and its revision.
DecidedStays ==
    chat'.live => \A p \in Pubs : pub[p].state \in {"committed", "aborted"}
                                    => pub'[p] = pub[p]

ConversationSound == TypeOK /\ HeadChain /\ RowsShown /\ OneRevision /\ ReceiptTrue
ConversationKept == MessagesStay /\ DecidedStays
=============================================================================
