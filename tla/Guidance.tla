------------------------------ MODULE Guidance ------------------------------
(***************************************************************************)
(* The guidance of one owner (repositories/guidance.py): skills with their *)
(* revisions, explicit notes that may expire, and the assignments that     *)
(* selected some of them (assignments.py, bind_guidance_references).       *)
(* Every transaction takes the owner's lock first and is one step here;    *)
(* what a client or a sweep read in an earlier one may be out of date.     *)
(* The database clock can step back once.                                  *)
(*                                                                         *)
(* Contents are an alias and a flag for a skill, an expiry and a flag for  *)
(* a note.  Other owners' identities are not modelled.                     *)
(***************************************************************************)
EXTENDS Integers, FiniteSets

CONSTANTS Skills, Slugs, Aliases, Commands, Captures, Notes, Hosts, Assignments,
          Capacity,      \* 20 skills in the code
          MaxRevision,   \* MAX_REVISION
          PageSize, Lives, Flags, MaxTime, Null

VARIABLES
    now, turned,  \* the clock, and whether it has stepped back
    retired,      \* the owner was retired
    sent,         \* skill commands as their clients composed them
    skill,        \* owner_skill_head rows
    revs,         \* owner_skill_revision rows
    catalog,      \* owner_skill_catalog: the capture it was materialized from
    note,         \* explicit_note_current rows
    prep,         \* the preparation of a note a host holds
    asked,        \* retirements that were asked for
    sweep, owed,  \* the pages of an expiry sweep, and the notes it must still offer
    asg           \* assignments with their references

clocks == <<now, turned, retired>>
skills == <<sent, skill, revs, catalog>>
notes == <<note, prep, asked, sweep, owed>>
vars == <<clocks, skills, notes, asg>>

-----------------------------------------------------------------------------

SkillRows == [slug: Slugs, alias: Aliases \cup {""}, enabled: BOOLEAN, deleted: BOOLEAN,
              rev: 1 .. MaxRevision, at: 0 .. MaxTime]

RevisionRows == [skill: Skills, rev: 1 .. MaxRevision, cmd: Commands \cup {Null},
                 alias: Aliases \cup {""}, enabled: BOOLEAN, deleted: BOOLEAN]

LiveNotes == [rev: 1 .. MaxRevision - 1, enabled: BOOLEAN, at: 0 .. MaxTime,
              expires: Nat \cup {Null}]

Tombstones == [rev: 2 .. MaxRevision, reason: {"forgotten", "expired"}]

TypeOK ==
    /\ \A s \in Skills : skill[s] # Null => skill[s] \in SkillRows
    /\ revs \subseteq RevisionRows
    /\ \A n \in Notes : note[n] # Null => note[n] \in LiveNotes \cup Tombstones

Init ==
    /\ now = 0 /\ turned = FALSE /\ retired = FALSE
    /\ sent = [c \in Commands |-> Null]
    /\ skill = [s \in Skills |-> Null]
    /\ revs = {}
    /\ catalog = Null
    /\ note = [n \in Notes |-> Null]
    /\ prep = [h \in Hosts |-> Null]
    /\ asked = {}
    /\ sweep = Null /\ owed = {}
    /\ asg = [a \in Assignments |-> [life |-> "active", refs |-> Null]]

-----------------------------------------------------------------------------

Live(row) == row # Null /\ "reason" \notin DOMAIN row

\* get_explicit_note without the disabled ones.
Visible(n) ==
    /\ Live(note[n])
    /\ note[n].enabled
    /\ note[n].at <= now
    /\ note[n].expires # Null => now < note[n].expires

Current(ref) ==
    /\ ~ref.void
    /\ IF ref.kind = "skill"
       THEN /\ skill[ref.id] # Null
            /\ ~skill[ref.id].deleted
            /\ skill[ref.id].enabled
            /\ skill[ref.id].rev = ref.rev
       ELSE /\ Visible(ref.id)
            /\ note[ref.id].rev = ref.rev

References == [kind: {"skill"}, id: Skills, rev: 1 .. MaxRevision - 1, void: {FALSE}]
                \cup [kind: {"note"}, id: Notes, rev: 1 .. MaxRevision - 1, void: {FALSE}]

BindReferences(a, ref) ==
    /\ ~retired
    /\ asg[a].life = "active"
    /\ asg[a].refs = Null
    /\ Current(ref)
    /\ asg' = [asg EXCEPT ![a].refs = {ref}]
    /\ UNCHANGED <<clocks, skills, notes>>

\* Mutant: only assignments that run lose their guidance.
InvalidatedActive(kind, id) ==
    [a \in Assignments |->
        IF asg[a].refs # Null /\ asg[a].life = "active"
             /\ \E r \in asg[a].refs : r.kind = kind /\ r.id = id /\ ~r.void
        THEN [life |-> "paused",
              refs |-> {[r EXCEPT !.void = r.void \/ (r.kind = kind /\ r.id = id)] :
                            r \in asg[a].refs}]
        ELSE asg[a]]

Invalidated(kind, id) ==
    [a \in Assignments |->
        IF asg[a].refs # Null /\ asg[a].life # "ended"
             /\ \E r \in asg[a].refs : r.kind = kind /\ r.id = id /\ ~r.void
        THEN [life |-> "paused",
              refs |-> {[r EXCEPT !.void = r.void \/ (r.kind = kind /\ r.id = id)] :
                            r \in asg[a].refs}]
        ELSE asg[a]]

Pause(a) ==
    /\ asg[a].life = "active"
    /\ asg' = [asg EXCEPT ![a].life = "paused"]
    /\ UNCHANGED <<clocks, skills, notes>>

Resume(a) ==
    /\ asg[a].life = "paused"
    /\ asg[a].refs # Null => \A r \in asg[a].refs : Current(r)
    /\ asg' = [asg EXCEPT ![a].life = "active"]
    /\ UNCHANGED <<clocks, skills, notes>>

EndAssignment(a) ==
    /\ asg[a].life # "ended"
    /\ asg' = [asg EXCEPT ![a].life = "ended"]
    /\ UNCHANGED <<clocks, skills, notes>>

-----------------------------------------------------------------------------

\* A client reads the head of a skill and composes a command for it.
Compose(c, s, kind, definition) ==
    /\ sent[c] = Null
    /\ kind # "create" => skill[s] # Null
    /\ sent' = [sent EXCEPT ![c] =
                    [skill |-> s, kind |-> kind, def |-> definition,
                     expected |-> IF kind = "create" THEN 0 ELSE skill[s].rev]]
    /\ UNCHANGED <<clocks, skill, revs, catalog, notes, asg>>

Catalogued == {s \in Skills : skill[s] # Null /\ ~skill[s].deleted}

\* Slug and alias are free among the other skills that are not deleted.
NameFree(s, slug, alias) ==
    \A t \in Catalogued \ {s} : skill[t].slug # slug /\ (alias # "" => skill[t].alias # alias)

Fenced(c) ==
    /\ skill[c.skill] # Null
    /\ ~skill[c.skill].deleted
    /\ skill[c.skill].rev = c.expected
    /\ c.expected < MaxRevision - (IF c.kind = "delete" THEN 0 ELSE 1)

Wrote(c, id, definition) ==
    revs' = revs \cup {[skill |-> c.skill, rev |-> c.expected + 1, cmd |-> id,
                        alias |-> definition.alias, enabled |-> definition.enabled,
                        deleted |-> c.kind = "delete"]}

\* A command that was applied is answered from its revision row.
Unapplied(id) == sent[id] # Null /\ \A r \in revs : r.cmd # id

CreateSkill(id, slug) ==
    /\ ~retired
    /\ Unapplied(id)
    /\ LET c == sent[id] IN
         /\ c.kind = "create"
         /\ skill[c.skill] = Null
         /\ Cardinality(Catalogued) < Capacity
         /\ NameFree(c.skill, slug, c.def.alias)
         /\ Wrote(c, id, c.def)
         /\ skill' = [skill EXCEPT ![c.skill] =
                        [slug |-> slug, alias |-> c.def.alias, enabled |-> c.def.enabled,
                         deleted |-> FALSE, rev |-> 1, at |-> now]]
    /\ UNCHANGED <<clocks, sent, catalog, notes, asg>>

\* replace and delete; a deletion keeps the definition and disables it.
ReviseSkill(id) ==
    /\ ~retired
    /\ Unapplied(id)
    /\ LET c == sent[id]
           old == skill[c.skill]
           new == IF c.kind = "delete" THEN [alias |-> old.alias, enabled |-> FALSE] ELSE c.def
       IN /\ c.kind # "create"
          /\ Fenced(c)
          /\ c.kind = "replace" => NameFree(c.skill, old.slug, new.alias)
          /\ now >= old.at
          /\ Wrote(c, id, new)
          /\ skill' = [skill EXCEPT ![c.skill] =
                        [old EXCEPT !.alias = new.alias, !.enabled = new.enabled,
                                    !.deleted = (c.kind = "delete"), !.rev = @ + 1, !.at = now]]
          /\ asg' = Invalidated("skill", c.skill)
    /\ UNCHANGED <<clocks, sent, catalog, notes>>

\* materialize_legacy_skills: once, into a catalog that was never used.
MaterializeLegacy(k) ==
    /\ ~retired
    /\ catalog = Null
    /\ \A s \in Skills : skill[s] = Null
    /\ catalog' = k
    /\ skill' = [s \in Skills |->
                    IF s \in DOMAIN k
                    THEN [slug |-> k[s], alias |-> "", enabled |-> TRUE, deleted |-> FALSE,
                          rev |-> 1, at |-> now]
                    ELSE Null]
    /\ revs' = {[skill |-> s, rev |-> 1, cmd |-> Null, alias |-> "", enabled |-> TRUE,
                 deleted |-> FALSE] : s \in DOMAIN k}
    /\ UNCHANGED <<clocks, sent, notes, asg>>

-----------------------------------------------------------------------------

Revision(n) == IF note[n] = Null THEN 0 ELSE note[n].rev

Unexpired(n) ==
    note[n] # Null =>
        /\ Live(note[n])
        /\ now >= note[n].at
        /\ note[n].expires # Null => now < note[n].expires

PrepareNote(h, n) ==
    /\ prep[h] = Null
    /\ ~retired
    /\ Unexpired(n)
    /\ prep' = [prep EXCEPT ![h] = [note |-> n, current |-> note[n], at |-> now]]
    /\ UNCHANGED <<clocks, skills, note, asked, sweep, owed, asg>>

\* put_explicit_note prepares again under the lock; the record keeps the time
\* of the first preparation.
PutNote(h, life, enabled) ==
    /\ prep[h] # Null
    /\ ~retired
    /\ LET n == prep[h].note
           expires == IF life = Null THEN Null ELSE prep[h].at + life
       IN /\ Unexpired(n)
          /\ note[n] = prep[h].current
          /\ Revision(n) + 1 < MaxRevision
          /\ prep[h].at <= now
          /\ expires # Null => now < expires
          /\ note' = [note EXCEPT ![n] = [rev |-> Revision(n) + 1, enabled |-> enabled,
                                          at |-> prep[h].at, expires |-> expires]]
          /\ asg' = IF note[n] = Null THEN asg ELSE Invalidated("note", n)
    /\ prep' = [prep EXCEPT ![h] = Null]
    /\ UNCHANGED <<clocks, skills, asked, sweep, owed>>

DropPreparation(h) ==
    /\ prep[h] # Null
    /\ prep' = [prep EXCEPT ![h] = Null]
    /\ UNCHANGED <<clocks, skills, note, asked, sweep, owed, asg>>

AskForget(n) ==
    /\ Live(note[n])
    /\ asked' = asked \cup {[note |-> n, rev |-> note[n].rev, reason |-> "forgotten"]}
    /\ UNCHANGED <<clocks, skills, note, prep, sweep, owed, asg>>

\* Notes that expired by the cutoff, after the cursor <<expires, note>>.
ExpiredBy(cutoff, after) ==
    {n \in Notes :
        /\ Live(note[n])
        /\ note[n].expires # Null
        /\ note[n].expires <= cutoff
        /\ after # Null => \/ note[n].expires > after[1]
                           \/ note[n].expires = after[1] /\ n > after[2]}

Before(m, n) == note[m].expires < note[n].expires \/ (note[m].expires = note[n].expires /\ m <= n)

\* One page of the sweep; the first one fixes the cutoff.
PageExpired ==
    /\ sweep # Null => sweep.cutoff <= now
    /\ LET cutoff == IF sweep = Null THEN now ELSE sweep.cutoff
           found == ExpiredBy(cutoff, IF sweep = Null THEN Null ELSE sweep.after)
           page == {n \in found : Cardinality({m \in found : Before(m, n)}) <= PageSize}
           last == CHOOSE n \in page : \A m \in page : Before(m, n)
       IN /\ found # {} \/ sweep # Null
          /\ asked' = asked \cup {[note |-> n, rev |-> note[n].rev, reason |-> "expired"] : n \in page}
          /\ sweep' = IF page = found THEN Null
                      ELSE [cutoff |-> cutoff, after |-> <<note[last].expires, last>>]
          /\ owed' = {q \in (IF sweep = Null THEN {[note |-> n, rev |-> note[n].rev] : n \in found}
                                   ELSE owed) : q.note \notin page}
    /\ UNCHANGED <<clocks, skills, note, prep, asg>>

Retirable(q) == Live(note[q.note]) /\ note[q.note].rev = q.rev

\* _retire_explicit_note, for a retired owner too; a replay would
\* find the tombstone.
RetireNote(q) ==
    /\ Retirable(q)
    /\ now >= note[q.note].at
    /\ q.reason = "expired" => note[q.note].expires # Null /\ note[q.note].expires <= now
    /\ note' = [note EXCEPT ![q.note] = [rev |-> q.rev + 1, reason |-> q.reason]]
    /\ asg' = Invalidated("note", q.note)
    /\ asked' = asked \ {q}
    /\ UNCHANGED <<clocks, skills, prep, sweep, owed>>

\* The request is lost, or skip_locked found the owner's lock taken.
DropRetirement(q) ==
    /\ asked' = asked \ {q}
    /\ UNCHANGED <<clocks, skills, note, prep, sweep, owed, asg>>

-----------------------------------------------------------------------------

Tick ==
    /\ now < MaxTime
    /\ now' = now + 1
    /\ UNCHANGED <<turned, retired, skills, notes, asg>>

StepBack ==
    /\ now > 0 /\ ~turned
    /\ now' = now - 1
    /\ turned' = TRUE
    /\ UNCHANGED <<retired, skills, notes, asg>>

RetireOwner ==
    /\ ~retired
    /\ retired' = TRUE
    /\ UNCHANGED <<now, turned, skills, notes, asg>>

Definitions == [alias: Aliases \cup {""}, enabled: Flags]

Next ==
    \/ \E c \in Commands, s \in Skills, kind \in {"create", "replace"}, d \in Definitions :
          Compose(c, s, kind, d)
    \/ \E c \in Commands, s \in Skills : Compose(c, s, "delete", Null)
    \/ \E c \in Commands, slug \in Slugs : CreateSkill(c, slug)
    \/ \E c \in Commands : ReviseSkill(c)
    \/ \E k \in Captures : MaterializeLegacy(k)
    \/ \E h \in Hosts, n \in Notes : PrepareNote(h, n)
    \/ \E h \in Hosts, life \in Lives \cup {Null}, e \in Flags : PutNote(h, life, e)
    \/ \E h \in Hosts : DropPreparation(h)
    \/ \E n \in Notes : AskForget(n)
    \/ PageExpired
    \/ \E q \in asked : RetireNote(q) \/ DropRetirement(q)
    \/ \E a \in Assignments, ref \in References : BindReferences(a, ref)
    \/ \E a \in Assignments : Pause(a) \/ Resume(a) \/ EndAssignment(a)
    \/ Tick \/ StepBack \/ RetireOwner

Spec == Init /\ [][Next]_vars

-----------------------------------------------------------------------------

\* An assignment that may still run never holds a reference that looks valid
\* and names anything but the present revision, and none is active after a
\* reference of it was invalidated.
ReferencesCurrent ==
    \A a \in Assignments : asg[a].refs # Null /\ asg[a].life # "ended" =>
        \A r \in asg[a].refs :
            /\ r.void => asg[a].life = "paused"
            /\ ~r.void => IF r.kind = "skill"
                          THEN /\ skill[r.id].rev = r.rev
                               /\ skill[r.id].enabled /\ ~skill[r.id].deleted
                          ELSE /\ Live(note[r.id])
                               /\ note[r.id].rev = r.rev /\ note[r.id].enabled

\* The revisions of a skill are its head's history without gaps, a command
\* has at most one, and the last one is what the head says.
HistoryExact ==
    /\ \A s \in Skills :
         LET mine == {r \in revs : r.skill = s} IN
         /\ {r.rev : r \in mine} = 1 .. (IF skill[s] = Null THEN 0 ELSE skill[s].rev)
         /\ Cardinality(mine) = Cardinality({r.rev : r \in mine})
         /\ skill[s] # Null => \E r \in mine :
              /\ r.rev = skill[s].rev
              /\ <<r.alias, r.enabled, r.deleted>> =
                     <<skill[s].alias, skill[s].enabled, skill[s].deleted>>
    /\ \A r, q \in revs : r.cmd = q.cmd /\ r.cmd # Null => r = q

\* Skills that are not deleted fit the catalog, have slugs and aliases of
\* their own, and what is live can always still be deleted: the last revision
\* is kept for that.
CatalogSound ==
    /\ Cardinality(Catalogued) <= Capacity
    /\ \A s \in Catalogued : NameFree(s, skill[s].slug, skill[s].alias)
    /\ \A s \in Catalogued : skill[s].rev < MaxRevision

\* When a sweep has come to its end, every note that had expired by its
\* cutoff and has not changed since has been offered.
SweepComplete == sweep = Null => \A q \in owed : ~Live(note[q.note]) \/ note[q.note].rev # q.rev

GuidanceSound == TypeOK /\ ReferencesCurrent /\ HistoryExact /\ CatalogSound /\ SweepComplete

\* History, the catalog and tombstones stay; every change of a skill or a
\* note is one revision, and none goes back in time.
GuidanceStays ==
    /\ revs \subseteq revs'
    /\ catalog # Null => catalog' = catalog
    /\ \A s \in Skills : skill[s] # Null =>
         /\ skill'[s].at >= skill[s].at
         /\ skill'[s] # skill[s] => skill'[s].rev = skill[s].rev + 1
         /\ skill[s].deleted => skill'[s] = skill[s]
    /\ \A n \in Notes : note[n] # Null =>
         /\ note'[n] # note[n] => note'[n].rev = note[n].rev + 1
         /\ IF Live(note[n]) THEN Live(note'[n]) => note'[n].at >= note[n].at
                             ELSE note'[n] = note[n]
=============================================================================
