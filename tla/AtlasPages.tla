------------------------------ MODULE AtlasPages ------------------------------
(***************************************************************************)
(* The Atlas pages of one owner and the links between them                 *)
(* (repositories/atlas_pages.py, repositories/atlas_links.py).  A host     *)
(* reads, composes a command under a fresh command id and sends it, any    *)
(* number of times and as late as it likes; every command runs in one      *)
(* transaction under the owner's advisory lock.  A command carries the     *)
(* revisions and the time its host believes in.  A reader pages through    *)
(* the links of a page meanwhile, one transaction for each page of them.   *)
(* Page identities are integers, since listings order by them; a name is a *)
(* project and a slug; a content is the id of the command that wrote it,   *)
(* 0 for the pages there at first.  Command ids are given out in order.    *)
(***************************************************************************)
EXTENDS Integers, FiniteSets, FiniteSetsExt

CONSTANTS
    Pages,        \* page identities
    Existing,     \* the pages that exist at first, each named by its identity
    Names,        \* (project, slug) pairs
    Commands,     \* command ids
    Operations,   \* the operations the hosts use
    MaxRevision,  \* bound: MAX_REVISION
    MaxTime,      \* bound: the caller's clock
    PageSize,     \* limit of a listing
    Directions,   \* the listings the reader uses
    Null

VARIABLES
    page,     \* atlas_page
    revs,     \* atlas_page_revision
    head,     \* atlas_page_link_head
    links,    \* atlas_page_link
    command,  \* the commands composed, with what their hosts saw
    receipt,  \* atlas_page_command and atlas_page_link_command
    walk      \* the reader: its cursor, what it listed, what it must list

vars == <<page, revs, head, links, command, receipt, walk>>

AtlasConstants ==
    /\ Pages \subseteq Nat /\ IsFiniteSet(Pages)
    /\ Commands \subseteq Nat \ {0}
    /\ Existing \subseteq Pages \cap Names
    /\ MaxRevision \in Nat \ {0} /\ MaxTime \in Nat /\ PageSize \in Nat \ {0}
    /\ Operations \subseteq {"create", "edit", "delete", "link"}
    /\ Directions \subseteq {"outbound", "backlink"}

Times == 0 .. MaxTime

PageRows ==
    [name: Names, rev: 1 .. MaxRevision, content: Commands \cup {0, Null},
     updated: Times, deleted: BOOLEAN]

RevisionRows == [page: Pages, rev: 1 .. MaxRevision, content: Commands \cup {0}, at: Times]

LinkRows == [source: Pages, target: Pages, rev: 1 .. MaxRevision, at: Times]

HeadRows == [rev: 1 .. MaxRevision, updated: Times]

Idle == [root |-> Null, direction |-> Null, cursor |-> Null, listed |-> {}, owed |-> {},
         twice |-> FALSE, done |-> FALSE]

Init ==
    /\ page = [p \in Pages |->
           IF p \in Existing
           THEN [name |-> p, rev |-> 1, content |-> 0, updated |-> 0, deleted |-> FALSE]
           ELSE Null]
    /\ revs = {[page |-> p, rev |-> 1, content |-> 0, at |-> 0]: p \in Existing}
    /\ head = [p \in Pages |-> Null]
    /\ links = {}
    /\ command = [c \in Commands |-> Null]
    /\ receipt = [c \in Commands |-> Null]
    /\ walk = Idle

Live(p) == page[p] # Null /\ ~page[p].deleted

Outgoing(p) == {l \in links: l.source = p}

LinkRevision(p) == IF head[p] = Null THEN 0 ELSE head[p].rev

-----------------------------------------------------------------------------
(* Composing.  The host of a page that exists reads it, its link revision  *)
(* and its links in one transaction.                                       *)

NextId(c) ==
    /\ command[c] = Null
    /\ \A d \in Commands: d < c => command[d] # Null

ComposeCreate(c) ==
    /\ "create" \in Operations /\ NextId(c)
    /\ \E p \in Pages, n \in Names, t \in Times:
           command' = [command EXCEPT ![c] = [op |-> "create", page |-> p, name |-> n, at |-> t]]
    /\ UNCHANGED <<page, revs, head, links, receipt, walk>>

ComposeWrite(c) ==
    /\ NextId(c)
    /\ \E op \in Operations \cap {"edit", "delete"}, p \in Pages, t \in Times:
        /\ Live(p)
        /\ page[p].rev <= MaxRevision - 1
        /\ command' = [command EXCEPT ![c] =
               [op |-> op, page |-> p, expected |-> page[p].rev, at |-> t,
                saw |-> page[p].content]]
    /\ UNCHANGED <<page, revs, head, links, receipt, walk>>

ComposeLink(c) ==
    /\ "link" \in Operations /\ NextId(c)
    /\ \E p \in Pages, t \in Times: \E targets \in SUBSET (Pages \ {p}):
        /\ Live(p)
        /\ LinkRevision(p) <= MaxRevision - 1
        /\ command' = [command EXCEPT ![c] =
               [op |-> "link", page |-> p, expected |-> page[p].rev,
                expectedLink |-> LinkRevision(p), targets |-> targets, at |-> t,
                saw |-> {l.target: l \in Outgoing(p)}]]
    /\ UNCHANGED <<page, revs, head, links, receipt, walk>>

-----------------------------------------------------------------------------
(* Applying a command.  One whose receipt exists is answered from it and   *)
(* writes nothing.                                                         *)

Fresh(c, op) ==
    /\ command[c] # Null
    /\ command[c].op = op
    /\ receipt[c] = Null

NameFree(n) == \A q \in Pages: Live(q) => page[q].name # n

CreatePage(c) ==
    /\ Fresh(c, "create")
    /\ LET k == command[c] IN
        /\ page[k.page] = Null
        /\ NameFree(k.name)
        /\ page' = [page EXCEPT ![k.page] =
               [name |-> k.name, rev |-> 1, content |-> c, updated |-> k.at, deleted |-> FALSE]]
        /\ revs' = revs \cup {[page |-> k.page, rev |-> 1, content |-> c, at |-> k.at]}
        /\ receipt' = [receipt EXCEPT ![c] = [page |-> k.page, result |-> 1]]
    /\ UNCHANGED <<head, links, command, walk>>

\* The head a command was composed on is still the head, and time has not gone back.
Unmoved(k) ==
    /\ Live(k.page)
    /\ page[k.page].rev = k.expected
    /\ k.at >= page[k.page].updated

EditPage(c) ==
    /\ Fresh(c, "edit")
    /\ LET k == command[c]
           row == [page |-> k.page, rev |-> page[k.page].rev + 1, content |-> c, at |-> k.at]
       IN
        /\ Unmoved(k)
        /\ revs' = revs \cup {row}
        /\ page' = [page EXCEPT ![k.page].rev = row.rev, ![k.page].content = c,
                                ![k.page].updated = k.at]
        /\ receipt' = [receipt EXCEPT ![c] = [page |-> k.page, result |-> row.rev]]
    /\ UNCHANGED <<head, links, command, walk>>

Linking(p) == {l.source: l \in {x \in links: x.target = p}}

\* The link heads after p is deleted at t: its own is gone, and the set of every page that
\* linked to it has changed.
HeadsWithout(p, t) ==
    [q \in Pages |->
        IF q = p THEN Null
        ELSE IF q \in Linking(p)
             THEN [rev |-> head[q].rev + 1, updated |-> Max({head[q].updated, t})]
        ELSE head[q]]

DeletePage(c) ==
    /\ Fresh(c, "delete")
    /\ LET k == command[c] IN
        /\ Unmoved(k)
        /\ \A q \in Linking(k.page): head[q].rev < MaxRevision
        /\ page' = [page EXCEPT ![k.page].rev = @ + 1, ![k.page].content = Null,
                                ![k.page].updated = k.at, ![k.page].deleted = TRUE]
        /\ receipt' = [receipt EXCEPT ![c] = [page |-> k.page, result |-> page[k.page].rev + 1]]
        /\ head' = HeadsWithout(k.page, k.at)
        /\ links' = {l \in links: k.page \notin {l.source, l.target}}
        /\ walk' = [walk EXCEPT !.owed = @ \cap links']
    /\ UNCHANGED <<revs, command>>

\* Mutant: a replacement is not refused for a time before the last one.
AnyTime(k) ==
    /\ Unmoved(k)
    /\ LinkRevision(k.page) = k.expectedLink

\* The outgoing set a command was composed on is still the outgoing set.
LinksUnmoved(k) ==
    /\ Unmoved(k)
    /\ LinkRevision(k.page) = k.expectedLink
    /\ head[k.page] # Null => k.at >= head[k.page].updated

SetLinks(c) ==
    /\ Fresh(c, "link")
    /\ LET k == command[c]
           next == LinkRevision(k.page) + 1
       IN
        /\ LinksUnmoved(k)
        /\ \A q \in k.targets: Live(q)
        /\ links' = (links \ Outgoing(k.page))
               \cup {[source |-> k.page, target |-> q, rev |-> next, at |-> k.at]: q \in k.targets}
        /\ head' = [head EXCEPT ![k.page] = [rev |-> next, updated |-> k.at]]
        /\ receipt' = [receipt EXCEPT ![c] = [page |-> k.page, result |-> next]]
        /\ walk' = [walk EXCEPT !.owed = @ \cap links']
    /\ UNCHANGED <<page, revs, command>>

-----------------------------------------------------------------------------
(* The reader.  A listing is ordered by time, source and target, latest    *)
(* first, and resumes strictly after its cursor.                           *)

Key(l) == <<l.at, l.source, l.target>>

Precedes(j, k) ==
    \/ j[1] < k[1]
    \/ j[1] = k[1] /\ j[2] < k[2]
    \/ j[1] = k[1] /\ j[2] = k[2] /\ j[3] < k[3]

Rooted(l, p, d) == IF d = "outbound" THEN l.source = p ELSE l.target = p

BeginWalk ==
    /\ walk.root = Null
    /\ \E p \in Pages, d \in Directions:
        /\ Live(p)
        /\ walk' = [Idle EXCEPT !.root = p, !.direction = d,
                                !.owed = {l \in links: Rooted(l, p, d)}]
    /\ UNCHANGED <<page, revs, head, links, command, receipt>>

\* One page of the listing: the latest rows after the cursor, at most PageSize of them.
ListLinks ==
    /\ walk.root # Null /\ ~walk.done
    /\ Live(walk.root)
    /\ LET left == {l \in links: /\ Rooted(l, walk.root, walk.direction)
                                 /\ walk.cursor # Null => Precedes(Key(l), walk.cursor)}
           rows == {l \in left: Cardinality({m \in left: Precedes(Key(l), Key(m))}) < PageSize}
           last == CHOOSE l \in rows: \A m \in rows: m = l \/ Precedes(Key(l), Key(m))
       IN  walk' = [walk EXCEPT
               !.listed = @ \cup {<<l.source, l.target>>: l \in rows},
               !.twice = @ \/ \E l \in rows: <<l.source, l.target>> \in walk.listed,
               !.owed = @ \ rows,
               !.done = rows = left,
               !.cursor = IF rows = left THEN Null ELSE Key(last)]
    /\ UNCHANGED <<page, revs, head, links, command, receipt>>

\* The reader stops: it has the whole listing, or its page was deleted.
EndWalk ==
    /\ walk.root # Null
    /\ walk.done \/ ~Live(walk.root)
    /\ walk' = Idle
    /\ UNCHANGED <<page, revs, head, links, command, receipt>>

Next ==
    \/ \E c \in Commands:
        \/ ComposeCreate(c) \/ ComposeWrite(c) \/ ComposeLink(c)
        \/ CreatePage(c) \/ EditPage(c) \/ DeletePage(c) \/ SetLinks(c)
    \/ BeginWalk
    \/ ListLinks
    \/ EndWalk

Spec == Init /\ [][Next]_vars

-----------------------------------------------------------------------------
(* Properties *)

\* The rows have their shapes.
TypeOK ==
    /\ page \in [Pages -> PageRows \cup {Null}]
    /\ revs \subseteq RevisionRows
    /\ head \in [Pages -> HeadRows \cup {Null}]
    /\ links \subseteq LinkRows

\* A live head is backed by exactly its last revision row, a tombstone holds no content, the
\* rows of a page are one for each revision with times that never go back, and no two live
\* pages share a name (edit_page inserts the row and moves the head; delete_page only moves
\* the head).
HistoryExact ==
    \A p \in Pages:
        LET rows == {r \in revs: r.page = p} IN
        /\ page[p] = Null => rows = {}
        /\ page[p] # Null =>
            /\ {r.rev: r \in rows} = 1 .. (page[p].rev - (IF page[p].deleted THEN 1 ELSE 0))
            /\ Cardinality(rows) = Cardinality({r.rev: r \in rows})
            /\ \A r, s \in rows: r.rev < s.rev => r.at <= s.at
            /\ page[p].deleted <=> page[p].content = Null
        /\ Live(p) =>
            /\ [page |-> p, rev |-> page[p].rev, content |-> page[p].content,
                at |-> page[p].updated] \in rows
            /\ \A q \in Pages: Live(q) /\ page[q].name = page[p].name => q = p

\* Links end at live pages only, and no link is newer than the link revision of its source:
\* delete_page takes the links of both directions and the head of the page with it.
LinksLive ==
    /\ \A l \in links:
        /\ Live(l.source) /\ Live(l.target) /\ l.source # l.target
        /\ head[l.source] # Null
        /\ l.rev <= head[l.source].rev /\ l.at <= head[l.source].updated
    /\ \A l, m \in links: <<l.source, l.target>> = <<m.source, m.target>> => l = m
    /\ \A p \in Pages: head[p] # Null => Live(p)

\* Every edit that was answered can be answered again from the row it wrote, and no two page
\* commands were given the same revision (edit_page's replay reads the stored revision).
ReceiptsExact ==
    \A c \in Commands: receipt[c] # Null =>
        /\ command[c].op \in {"create", "edit"} =>
            \E r \in revs: r.page = receipt[c].page /\ r.rev = receipt[c].result /\ r.content = c
        /\ \A d \in Commands \ {c}:
            (/\ receipt[d] # Null
             /\ receipt[d].page = receipt[c].page
             /\ (command[c].op = "link") = (command[d].op = "link"))
            => receipt[d].result # receipt[c].result

\* A listing that ran to its end listed every link that was there throughout, and no listing
\* shows a link twice, even one replaced meanwhile: linked_at never goes back for a source
\* (_list resumes after its cursor; set_links refuses a regressed clock).
ListingComplete ==
    /\ walk.done => walk.owed = {}
    /\ ~walk.twice

\* The Atlas invariants.
AtlasSound == TypeOK /\ HistoryExact /\ LinksLive /\ ReceiptsExact /\ ListingComplete

\* A replacement or an edit overwrites exactly what its host saw (a host that read the links
\* before a target was deleted is refused), a tombstone is terminal, no revision row is ever
\* touched, and a link head moves by one revision at a time and not back in time.
AtlasStays ==
    /\ \A c \in Commands: (receipt[c] = Null /\ receipt'[c] # Null) =>
        /\ command[c].op = "link" => {l.target: l \in Outgoing(command[c].page)} = command[c].saw
        /\ command[c].op \in {"edit", "delete"} => page[command[c].page].content = command[c].saw
    /\ revs \subseteq revs'
    /\ \A p \in Pages:
        /\ (page[p] # Null /\ page[p].deleted) => page'[p] = page[p]
        /\ (head[p] # Null /\ head'[p] # Null /\ head'[p] # head[p]) =>
               head'[p].rev = head[p].rev + 1 /\ head'[p].updated >= head[p].updated
        /\ {l \in links: l.source = p} # {l \in links': l.source = p} => head'[p] # head[p]
=============================================================================
