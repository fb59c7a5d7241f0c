------------------------ MODULE AdmissionTableProofs ------------------------
(***************************************************************************)
(* The operation and slot tables of WorkAdmission, for any operations,     *)
(* workers, classes, configurations and requests: what their invariant is, *)
(* and that every stage of a step keeps it.                                *)
(*                                                                         *)
(* A submission and a claim sweep the table before they work on it, so the *)
(* invariant is stated for any rows rs, slots sl, limits cfg and fences h. *)
(* Custody and Table say who holds the slots.  That no two workers have    *)
(* the current fence of an operation rests on the markers: they are on all *)
(* slots of an operation or on none, and an operation with markers is in   *)
(* no worker's hands.                                                      *)
(***************************************************************************)
EXTENDS WorkAdmission, FiniteSetTheorems, WellFoundedInduction, TLAPS

\* A leaf that names no backend is for the SMT solver.
USE SMTT(30)

Numbers == 1 .. MaxSlots

Types(rs, sl, h) ==
  /\ rs \in [Ops -> Row]
  /\ sl \in [Classes -> [Numbers -> Slot]]
  /\ h \in [Workers -> Fence \cup {NoFence}]

\* A running operation has one slot in every class of its chain, and no slot is
\* held by anything else.
Custody(rs, sl) ==
  /\ \A o \in Ops : rs[o].state = "running" =>
       \A c \in Chain[rs[o].class] :
         \E n \in Numbers : sl[c][n].op = o /\ \A m \in Numbers : sl[c][m].op = o => m = n
  /\ \A o \in Ops, c \in Classes, n \in Numbers :
       sl[c][n].op = o => rs[o].state = "running" /\ c \in Chain[rs[o].class]

Table(sl, cfg) ==
  \A c \in Classes, n \in Numbers : sl[c][n].present <=> (n <= cfg.active[c] \/ sl[c][n].op # Null)

Marked(sl, o) == \E c \in Classes, n \in Numbers : sl[c][n].op = o /\ sl[c][n].token = "marker"

\* The markers of an operation are replaced together, and cancelled work has none.
Markers(rs, sl) ==
  \A o \in Ops : Marked(sl, o) =>
    /\ \A c \in Classes, n \in Numbers : sl[c][n].op = o => sl[c][n].token = "marker"
    /\ ~rs[o].cancel

Current(rs, f) == f # NoFence /\ rs[f.op].state = "running" /\ rs[f.op].gen = f.gen

\* A fence is of a row that exists and not newer than it; a current one is the
\* only one of its operation, and no marker is left for a second worker.
Fences(rs, sl, h) ==
  /\ \A w \in Workers : h[w] # NoFence => rs[h[w].op].state # "absent" /\ h[w].gen <= rs[h[w].op].gen
  /\ \A w \in Workers : Current(rs, h[w]) => ~Marked(sl, h[w].op)
  /\ \A w, v \in Workers : w # v /\ Current(rs, h[w]) /\ Current(rs, h[v]) => h[w].op # h[v].op

Held(rs, sl, cfg, h) == Types(rs, sl, h) /\ Custody(rs, sl) /\ Table(sl, cfg) /\ Markers(rs, sl) /\ Fences(rs, sl, h)

\* What the rows say, with the recorded results subs, the bound configurations bd
\* and the candidates pids of an open purge.
Live(row) == row.state \notin {"absent", "purged"}

UserWork(rs, c, u) == {p \in InState(rs, c, "running") : rs[p].owner = u}

QueueFits(rs, bd) == \A c \in Classes : \E cfg \in bd : Cardinality(InState(rs, c, "queued")) <= cfg.queue[c]

VoiceFits(rs) ==
  \A o \in Ops : rs[o].state = "running" /\ rs[o].class \in VoiceClasses =>
    Cardinality(UserWork(rs, rs[o].class, rs[o].owner)) <= VoiceLimit

KeysDiffer(rs) ==
  \A o, p \in Ops : o # p /\ Live(rs[o]) /\ Live(rs[p]) /\ rs[o].key # NoKey =>
    rs[o].owner # rs[p].owner \/ rs[o].key # rs[p].key

Answered(rs, subs) ==
  \A s \in SubmissionIds : subs[s].status = "accepted" => subs[s].op \in Ops /\ Live(rs[subs[s].op])

Rows(rs, subs, bd, pids) ==
  /\ QueueFits(rs, bd) /\ VoiceFits(rs) /\ KeysDiffer(rs) /\ Answered(rs, subs)
  /\ \A o \in Ops : rs[o].accepted \in Nat
  /\ \A o \in pids : rs[o].state \in Terminal

\* The other variables: a refused submission names no operation, and the submission
\* of an open replay has no result.
Rest ==
  /\ clock \in Times /\ written \in 0 .. MaxConfigure
  /\ config \in Configs /\ bound \in SUBSET Configs
  /\ submissions \in [SubmissionIds -> Submission]
  /\ replay \in Requests \cup {Null}
  /\ sweep \in [ids : SUBSET Ops, now : Int]
  /\ purge \in [ids : SUBSET Ops, now : Int]
  /\ \A s \in SubmissionIds : submissions[s].status # "accepted" => submissions[s].op = Null
  /\ replay # Null => submissions[replay.submission].status = "none"

IInv == Held(ops, slots, config, held) /\ Rows(ops, submissions, bound, purge.ids) /\ Rest
-----------------------------------------------------------------------------
\* A nonempty set of natural numbers has a least element, the slot that
\* _occupy_slots takes.
LEMMA NatMin == ASSUME NEW T, T \subseteq Nat, T # {} PROVE \E x \in T : \A y \in T : x <= y
<1> DEFINE R == OpToRel(<, Nat)
<1>1. IsWellFoundedOn(R, Nat)
  BY NatLessThanWellFounded, Zenon
<1>2. \A x, y \in Nat : <<y, x>> \in R <=> y < x
  BY Zenon DEF OpToRel
<1> HIDE DEF R
<1>3. PICK x \in T : \A y \in T : ~ (<<y, x>> \in R)
  BY <1>1, WFMin, Zenon
<1>4. ASSUME NEW y \in T PROVE x <= y
  <2>1. x \in Nat /\ y \in Nat
    BY Zenon
  <2>2. ~ (y < x)
    BY <1>2, <1>3, <2>1, Zenon
  <2> QED BY <2>1, <2>2
<1> QED BY <1>4, Zenon

LEMMA MinIn == ASSUME NEW T, T \subseteq Nat, T # {} PROVE Min(T) \in T
BY NatMin, Zenon DEF Min

\* A slot id is a pair of a class and a number.
LEMMA SlotPairs ==
  ASSUME NEW sl, NEW o
  PROVE  /\ \A c \in Classes, n \in Numbers : <<c, n>> \in SlotsOf(sl, o) <=> sl[c][n].op = o
         /\ \A k \in SlotsOf(sl, o) : \E c \in Classes, n \in Numbers : k = <<c, n>> /\ sl[c][n].op = o
<1>1. ASSUME NEW c \in Classes, NEW n \in Numbers PROVE <<c, n>> \in SlotIds
  BY DEF SlotIds, Numbers
<1>2. ASSUME NEW k \in SlotIds PROVE \E c \in Classes, n \in Numbers : k = <<c, n>>
  BY DEF SlotIds, Numbers
<1> QED BY <1>1, <1>2 DEF SlotsOf

LEMMA MarkerPairs ==
  ASSUME NEW sl, NEW o
  PROVE  /\ \A c \in Classes, n \in Numbers :
              <<c, n>> \in MarkerSlots(sl, o) <=> sl[c][n].op = o /\ sl[c][n].token = "marker"
         /\ \A k \in MarkerSlots(sl, o) :
              \E c \in Classes, n \in Numbers : k = <<c, n>> /\ sl[c][n].op = o /\ sl[c][n].token = "marker"
<1>1. ASSUME NEW c \in Classes, NEW n \in Numbers
      PROVE  <<c, n>> \in MarkerSlots(sl, o) <=> sl[c][n].op = o /\ sl[c][n].token = "marker"
  BY SlotPairs DEF MarkerSlots
<1>2. ASSUME NEW k \in MarkerSlots(sl, o)
      PROVE  \E c \in Classes, n \in Numbers : k = <<c, n>> /\ sl[c][n].op = o /\ sl[c][n].token = "marker"
  <2>1. k \in SlotsOf(sl, o) /\ sl[k[1]][k[2]].token = "marker"
    BY Zenon DEF MarkerSlots
  <2>2. PICK c \in Classes, n \in Numbers : k = <<c, n>> /\ sl[c][n].op = o
    BY <2>1, SlotPairs
  <2>3. k[1] = c /\ k[2] = n
    BY <2>2, Zenon
  <2> QED BY <2>1, <2>2, <2>3, Zenon
<1> QED BY <1>1, <1>2, Zenon

\* An operation with a marker has markers only.
LEMMA MarkedWhole ==
  ASSUME NEW rs, NEW sl, NEW o \in Ops, Markers(rs, sl), Marked(sl, o)
  PROVE  MarkerSlots(sl, o) = SlotsOf(sl, o)
<1>1. \A c \in Classes, n \in Numbers : sl[c][n].op = o => sl[c][n].token = "marker"
  BY Zenon DEF Markers
<1>2. ASSUME NEW k \in SlotsOf(sl, o) PROVE k \in MarkerSlots(sl, o)
  BY <1>1, SlotPairs, MarkerPairs
<1>3. MarkerSlots(sl, o) \subseteq SlotsOf(sl, o)
  BY Zenon DEF MarkerSlots
<1> QED BY <1>2, <1>3, Zenon

-----------------------------------------------------------------------------
\* What the proofs use of the constants most often.
LEMMA Facts ==
  ASSUME AdmissionConstants
  PROVE  /\ Null \notin Ops /\ Ops \subseteq Nat /\ IsFiniteSet(Ops)
         /\ \A c \in Classes : Chain[c] \subseteq Classes /\ c \in Chain[c]
         /\ Numbers \subseteq Nat
         /\ Configs \subseteq Limits
BY DEF AdmissionConstants, Numbers

LEMMA RowTypes ==
  ASSUME NEW rs, NEW sl, NEW h, Types(rs, sl, h)
  PROVE  /\ \A o \in Ops : /\ rs[o].class \in Classes /\ rs[o].gen \in Nat /\ rs[o].cancel \in BOOLEAN
                           /\ rs[o].key \in Key /\ rs[o].parent \in Ops \cup {Null}
         /\ \A c \in Classes, n \in Numbers :
              sl[c][n] \in Slot /\ sl[c][n].op \in Ops \cup {Null} /\ sl[c][n].present \in BOOLEAN
         /\ \A w \in Workers : h[w] = NoFence \/ (h[w].op \in Ops /\ h[w].gen \in Nat)
<1>1. \A o \in Ops : rs[o] \in Row
  BY Zenon DEF Types
<1>2. \A c \in Classes, n \in Numbers : sl[c][n] \in Slot
  BY Zenon DEF Types
<1>3. \A w \in Workers : h[w] \in Fence \cup {NoFence}
  BY Zenon DEF Types
<1> QED BY <1>1, <1>2, <1>3, Zenon DEF Row, Slot, Fence

\* The executions that end are in ids, and every row keeps its generation.
Stops(rs, rs2, ids) ==
  \A o \in Ops :
    /\ rs2[o].state = "running" =>
         /\ o \notin ids /\ rs[o].state = "running"
         /\ rs2[o].class = rs[o].class /\ rs2[o].cancel = rs[o].cancel
    /\ rs[o].state = "running" => rs2[o].state = "running" \/ o \in ids
    /\ rs[o].state # "absent" => rs2[o].state # "absent" /\ rs2[o].gen = rs[o].gen

\* The slots of ids are vacated, and the free slots follow the limits cfg2.
Vacates(sl, sl2, ids, cfg2) ==
  \A c \in Classes, n \in Numbers :
    IF sl[c][n].op \in Ops \ ids THEN sl2[c][n] = sl[c][n]
    ELSE sl2[c][n].op = Null /\ (sl2[c][n].present <=> n <= cfg2.active[c])

\* What a step does to the rows and slots, in five forms.  First: executions end
\* and their slots are vacated (every path that ends an execution or a wait,
\* configure, and the purge).
LEMMA ReleaseKeeps ==
  ASSUME AdmissionConstants, NEW rs, NEW sl, NEW cfg, NEW h, Held(rs, sl, cfg, h),
         NEW rs2, NEW sl2, NEW cfg2, NEW ids, Types(rs2, sl2, h),
         Stops(rs, rs2, ids), Vacates(sl, sl2, ids, cfg2)
  PROVE  Held(rs2, sl2, cfg2, h)
<1> USE DEF Stops, Vacates
<1>1. \A c \in Classes, n \in Numbers : sl2[c][n].op \in Ops =>
        sl2[c][n] = sl[c][n] /\ sl[c][n].op \notin ids
  BY Facts, Zenon
<1>2. \A o \in Ops, c \in Classes, n \in Numbers : o \notin ids => (sl2[c][n].op = o <=> sl[c][n].op = o)
  BY <1>1, Facts
<1>3. Custody(rs, sl) /\ Table(sl, cfg) /\ Markers(rs, sl) /\ Fences(rs, sl, h)
  BY Zenon DEF Held
<1>4. Custody(rs2, sl2)
  <2>1. ASSUME NEW o \in Ops, rs2[o].state = "running", NEW c \in Chain[rs2[o].class]
        PROVE  \E n \in Numbers : sl2[c][n].op = o /\ \A m \in Numbers : sl2[c][m].op = o => m = n
    <3>1. rs[o].state = "running" /\ rs2[o].class = rs[o].class /\ o \notin ids
      BY <2>1, Zenon
    <3>2. PICK n \in Numbers : sl[c][n].op = o /\ \A m \in Numbers : sl[c][m].op = o => m = n
      BY <2>1, <3>1, <1>3 DEF Custody
    <3>3. c \in Classes
      BY Facts, RowTypes, <2>1, Zenon
    <3> QED BY <1>2, <3>1, <3>2, <3>3
  <2>2. ASSUME NEW o \in Ops, NEW c \in Classes, NEW n \in Numbers, sl2[c][n].op = o
        PROVE  rs2[o].state = "running" /\ c \in Chain[rs2[o].class]
    <3>1. sl[c][n].op = o /\ o \notin ids
      BY <1>1, <2>2, Zenon
    <3>2. rs[o].state = "running" /\ c \in Chain[rs[o].class]
      BY <3>1, <1>3, Zenon DEF Custody
    <3> QED BY <3>1, <3>2, Zenon
  <2> QED BY <2>1, <2>2, Zenon DEF Custody
<1>5. Table(sl2, cfg2)
  <2>1. ASSUME NEW c \in Classes, NEW n \in Numbers
        PROVE  sl2[c][n].present <=> (n <= cfg2.active[c] \/ sl2[c][n].op # Null)
    <3>1. CASE sl[c][n].op \in Ops \ ids
      <4>1. sl2[c][n] = sl[c][n] /\ sl[c][n].op # Null
        BY <3>1, Facts
      <4>2. sl[c][n].present
        BY <4>1, <1>3, Zenon DEF Table
      <4> QED BY <4>1, <4>2, Zenon
    <3>2. CASE ~(sl[c][n].op \in Ops \ ids)
      <4>1. sl2[c][n].op = Null /\ (sl2[c][n].present <=> n <= cfg2.active[c])
        BY <3>2, Zenon
      <4> QED BY <4>1, Zenon
    <3> QED BY <3>1, <3>2, Zenon
  <2> QED BY <2>1, Zenon DEF Table
<1>6. \A o \in Ops : Marked(sl2, o) => Marked(sl, o) /\ rs2[o].state = "running" /\ o \notin ids
  BY <1>1, <1>4 DEF Marked, Custody
<1>7. Markers(rs2, sl2)
  BY <1>1, <1>3, <1>6 DEF Markers
<1>8. ASSUME NEW w \in Workers, Current(rs2, h[w]) PROVE h[w].op \in Ops /\ Current(rs, h[w])
  <2>1. h[w] # NoFence /\ rs2[h[w].op].state = "running" /\ rs2[h[w].op].gen = h[w].gen
    BY <1>8, Zenon DEF Current
  <2>2. h[w].op \in Ops
    BY <2>1, RowTypes, Zenon
  <2> QED BY <2>1, <2>2, <1>3, Zenon DEF Current, Fences
<1>9. Fences(rs2, sl2, h)
  <2>1. ASSUME NEW w \in Workers, h[w] # NoFence
        PROVE  rs2[h[w].op].state # "absent" /\ h[w].gen <= rs2[h[w].op].gen
    <3>1. h[w].op \in Ops
      BY <2>1, RowTypes, Zenon
    <3> QED BY <2>1, <3>1, <1>3, Zenon DEF Fences
  <2>2. ASSUME NEW w \in Workers, Current(rs2, h[w]) PROVE ~Marked(sl2, h[w].op)
    BY <1>6, <1>8, <1>3, <2>2, Zenon DEF Fences
  <2>3. ASSUME NEW w \in Workers, NEW v \in Workers, w # v, Current(rs2, h[w]), Current(rs2, h[v])
        PROVE  h[w].op # h[v].op
    BY <1>8, <1>3, <2>3, Zenon DEF Fences
  <2> QED BY <2>1, <2>2, <2>3, Zenon DEF Fences
<1> QED BY <1>4, <1>5, <1>7, <1>9, Zenon DEF Held

\* The slots that Occupied changes: a free one in every class of the chain.
LEMMA OccupiedSlots ==
  ASSUME AdmissionConstants, NEW sl, sl \in [Classes -> [Numbers -> Slot]], NEW cfg, NEW k \in Classes,
         SlotsFree(sl, cfg, k), NEW o, NEW token, NEW expires,
         NEW sl2, sl2 = Occupied(sl, cfg, k, o, token, expires)
  PROVE  /\ \A d \in Classes \ Chain[k] : sl2[d] = sl[d]
         /\ \A d \in Chain[k] : \E n \in Numbers :
              /\ sl[d][n].present /\ sl[d][n].op = Null
              /\ sl2[d][n] = [present |-> TRUE, op |-> o, token |-> token, expires |-> expires]
              /\ \A m \in Numbers \ {n} : sl2[d][m] = sl[d][m]
<1>1. ASSUME NEW d \in Chain[k]
      PROVE  \E n \in Numbers :
               /\ sl[d][n].present /\ sl[d][n].op = Null
               /\ sl2[d][n] = [present |-> TRUE, op |-> o, token |-> token, expires |-> expires]
               /\ \A m \in Numbers \ {n} : sl2[d][m] = sl[d][m]
  <2>1. d \in Classes
    BY Facts, Zenon
  <2>2. FreeNumbers(sl, cfg, d) # {} /\ FreeNumbers(sl, cfg, d) \subseteq Nat
    BY DEF SlotsFree, FreeNumbers
  <2>3. PICK n \in FreeNumbers(sl, cfg, d) : n = Min(FreeNumbers(sl, cfg, d))
    BY <2>2, MinIn, Zenon
  <2>4. n \in Numbers /\ sl[d][n].present /\ sl[d][n].op = Null
    BY Zenon DEF FreeNumbers, Numbers
  <2>5. sl2[d] = [sl[d] EXCEPT ![n] = [present |-> TRUE, op |-> o, token |-> token, expires |-> expires]]
    BY <2>1, <2>3, Zenon DEF Occupied
  <2>6. sl[d] \in [Numbers -> Slot]
    BY <2>1, Zenon
  <2> QED BY <2>4, <2>5, <2>6, Zenon
<1>2. ASSUME NEW d \in Classes \ Chain[k] PROVE sl2[d] = sl[d]
  BY Zenon DEF Occupied
<1> QED BY <1>1, <1>2, Zenon

\* Operation o starts to run, under a new generation if it had a row.
Starts(rs, rs2, o) ==
  /\ rs[o].state # "running"
  /\ \A p \in Ops \ {o} : rs2[p] = rs[p]
  /\ rs2[o].state = "running"
  /\ rs[o].state # "absent" => rs[o].gen < rs2[o].gen

\* Worker w is given the current fence of o.
HandedTo(w, o, rs2, h, h2) ==
  h2[w] = [op |-> o, gen |-> rs2[o].gen] /\ \A v \in Workers \ {w} : h2[v] = h[v]

\* Second form: operation o starts and takes a free slot in every class of its chain,
\* with a marker and in nobody's hands (submit), or in the hands of w (a claim).
LEMMA StartKeeps ==
  ASSUME AdmissionConstants, NEW rs, NEW sl, NEW cfg, NEW h, Held(rs, sl, cfg, h),
         NEW o \in Ops, NEW rs2, NEW sl2, NEW h2, Types(rs2, sl2, h2), Starts(rs, rs2, o),
         NEW cfg2, SlotsFree(sl, cfg2, rs2[o].class),
         NEW token, NEW expires, sl2 = Occupied(sl, cfg2, rs2[o].class, o, token, expires),
         \/ token = "marker" /\ ~rs2[o].cancel /\ h2 = h
         \/ /\ token # "marker"
            /\ \E w \in Workers : HandedTo(w, o, rs2, h, h2)
  PROVE  Held(rs2, sl2, cfg, h2)
<1> DEFINE k == rs2[o].class
<1>0. /\ rs[o].state # "running"
      /\ \A p \in Ops \ {o} : rs2[p] = rs[p]
      /\ rs2[o].state = "running"
      /\ rs[o].state # "absent" => rs[o].gen < rs2[o].gen
  BY Zenon DEF Starts
<1>1. k \in Classes /\ Chain[k] \subseteq Classes /\ sl \in [Classes -> [Numbers -> Slot]]
  BY RowTypes, Facts, Zenon DEF Held, Types
<1>2. /\ \A d \in Classes \ Chain[k] : sl2[d] = sl[d]
      /\ \A d \in Chain[k] : \E n \in Numbers :
              /\ sl[d][n].present /\ sl[d][n].op = Null
              /\ sl2[d][n] = [present |-> TRUE, op |-> o, token |-> token, expires |-> expires]
              /\ \A m \in Numbers \ {n} : sl2[d][m] = sl[d][m]
  BY <1>1, OccupiedSlots
<1>3. Custody(rs, sl) /\ Table(sl, cfg) /\ Markers(rs, sl) /\ Fences(rs, sl, h) /\ Types(rs, sl, h)
  BY Zenon DEF Held
<1>4. \A c \in Classes, n \in Numbers : sl[c][n].op # o
  BY <1>0, <1>3 DEF Custody
<1> HIDE DEF k
<1>5. ASSUME NEW c \in Classes, NEW n \in Numbers
      PROVE  /\ sl2[c][n].op = o => c \in Chain[k] /\ sl2[c][n].token = token
             /\ sl2[c][n].op # o => sl2[c][n] = sl[c][n]
             /\ \A p \in Ops \ {o} : sl2[c][n].op = p <=> sl[c][n].op = p
  <2>1. CASE c \in Chain[k]
    <3>1. PICK j \in Numbers :
              /\ sl[c][j].present /\ sl[c][j].op = Null
              /\ sl2[c][j] = [present |-> TRUE, op |-> o, token |-> token, expires |-> expires]
              /\ \A m \in Numbers \ {j} : sl2[c][m] = sl[c][m]
      BY <1>2, <2>1, Zenon
    <3>2. sl2[c][j].op = o /\ sl2[c][j].token = token
      BY <3>1
    <3>3. Null \notin Ops
      BY Facts, Zenon
    <3> QED BY <2>1, <3>1, <3>2, <3>3, <1>4
  <2>2. CASE c \notin Chain[k]
    BY <2>2, <1>2, <1>4
  <2> QED BY <2>1, <2>2, Zenon
<1>6. Custody(rs2, sl2)
  <2>1. ASSUME NEW p \in Ops, rs2[p].state = "running", NEW c \in Chain[rs2[p].class]
        PROVE  \E n \in Numbers : sl2[c][n].op = p /\ \A m \in Numbers : sl2[c][m].op = p => m = n
    <3>0. c \in Classes
      BY RowTypes, Facts, Zenon
    <3>1. CASE p = o
      <4>1. PICK n \in Numbers :
              /\ sl2[c][n] = [present |-> TRUE, op |-> o, token |-> token, expires |-> expires]
              /\ \A m \in Numbers \ {n} : sl2[c][m] = sl[c][m]
        BY <1>2, <2>1, <3>1, Zenon DEF k
      <4>2. sl2[c][n].op = o
        BY <4>1
      <4> QED BY <4>1, <4>2, <3>0, <3>1, <1>4
    <3>2. CASE p # o
      <4>1. rs2[p] = rs[p]
        BY <1>0, <3>2, Zenon
      <4>2. PICK n \in Numbers : sl[c][n].op = p /\ \A m \in Numbers : sl[c][m].op = p => m = n
        BY <2>1, <4>1, <1>3 DEF Custody
      <4> QED BY <4>2, <3>0, <3>2, <1>5
    <3> QED BY <3>1, <3>2, Zenon
  <2>2. ASSUME NEW p \in Ops, NEW c \in Classes, NEW n \in Numbers, sl2[c][n].op = p
        PROVE  rs2[p].state = "running" /\ c \in Chain[rs2[p].class]
    <3>1. CASE p = o
      BY <1>0, <3>1, <2>2, <1>5 DEF k
    <3>2. CASE p # o
      <4>1. rs2[p] = rs[p] /\ sl[c][n].op = p
        BY <1>0, <3>2, <2>2, <1>5, Zenon
      <4> QED BY <4>1, <1>3 DEF Custody
    <3> QED BY <3>1, <3>2, Zenon
  <2> QED BY <2>1, <2>2, Zenon DEF Custody
<1>7. Table(sl2, cfg)
  <2>1. ASSUME NEW c \in Classes, NEW n \in Numbers
        PROVE  sl2[c][n].present <=> (n <= cfg.active[c] \/ sl2[c][n].op # Null)
    <3>1. sl[c][n].present <=> (n <= cfg.active[c] \/ sl[c][n].op # Null)
      BY <1>3, Zenon DEF Table
    <3>2. CASE sl2[c][n] = sl[c][n]
      BY <3>1, <3>2, Zenon
    <3>3. CASE sl2[c][n] # sl[c][n]
      <4>1. c \in Chain[k] /\ sl2[c][n].op = o
        BY <1>5, <3>3, Zenon
      <4>2. sl2[c][n] = [present |-> TRUE, op |-> o, token |-> token, expires |-> expires]
        BY <4>1, <3>3, <1>2, Zenon
      <4>3. sl2[c][n].present /\ o # Null
        BY <4>2, Facts
      <4> QED BY <4>1, <4>3, Zenon
    <3> QED BY <3>2, <3>3, Zenon
  <2> QED BY <2>1, Zenon DEF Table
<1>8. \A p \in Ops \ {o} : Marked(sl2, p) => Marked(sl, p)
  BY <1>5 DEF Marked
<1>9. Markers(rs2, sl2)
  <2>1. ASSUME NEW p \in Ops, Marked(sl2, p)
        PROVE  /\ \A c \in Classes, n \in Numbers : sl2[c][n].op = p => sl2[c][n].token = "marker"
               /\ ~rs2[p].cancel
    <3>1. CASE p = o
      BY <1>0, <3>1, <2>1, <1>5, Zenon DEF Marked
    <3>2. CASE p # o
      <4>1. Marked(sl, p) /\ rs2[p] = rs[p]
        BY <1>0, <3>2, <2>1, <1>8, Zenon
      <4>2. /\ \A c \in Classes, n \in Numbers : sl[c][n].op = p => sl[c][n].token = "marker"
            /\ ~rs[p].cancel
        BY <4>1, <1>3, Zenon DEF Markers
      <4>3. \A c \in Classes, n \in Numbers : sl2[c][n].op = p => sl2[c][n] = sl[c][n]
        BY <3>2, <1>5, Zenon
      <4>4. \A c \in Classes, n \in Numbers : sl2[c][n].op = p => sl2[c][n].token = "marker"
        BY <4>2, <4>3, Zenon
      <4>5. ~rs2[p].cancel
        BY <4>1, <4>2, Zenon
      <4> QED BY <4>4, <4>5, Zenon
    <3> QED BY <3>1, <3>2, Zenon
  <2> QED BY <2>1, Zenon DEF Markers
<1>10. ASSUME NEW w \in Workers, h[w] # NoFence
       PROVE  /\ h[w].op \in Ops /\ rs2[h[w].op].state # "absent" /\ h[w].gen <= rs2[h[w].op].gen
              /\ Current(rs2, h[w]) => h[w].op # o /\ Current(rs, h[w])
  <2>1. h[w].op \in Ops /\ h[w].gen \in Nat
    BY <1>10, <1>3, RowTypes, Zenon
  <2>2. rs[h[w].op].state # "absent" /\ h[w].gen <= rs[h[w].op].gen
    BY <1>10, <1>3, Zenon DEF Fences
  <2>3. rs[h[w].op].gen \in Nat /\ rs2[h[w].op].gen \in Nat
    BY <2>1, <1>3, RowTypes, Zenon
  <2>4. CASE h[w].op = o
    BY <1>0, <2>1, <2>2, <2>3, <2>4 DEF Current
  <2>5. CASE h[w].op # o
    <3>1. rs2[h[w].op] = rs[h[w].op]
      BY <1>0, <2>1, <2>5, Zenon
    <3> QED BY <2>1, <2>2, <2>3, <2>5, <3>1, Zenon DEF Current
  <2> QED BY <2>4, <2>5, Zenon
<1>11. \A w \in Workers : Current(rs2, h[w]) => h[w] # NoFence
  BY Zenon DEF Current
<1>12. CASE token = "marker" /\ ~rs2[o].cancel /\ h2 = h
  <2>1. ASSUME NEW w \in Workers, Current(rs2, h[w]) PROVE ~Marked(sl2, h[w].op)
    BY <2>1, <1>10, <1>11, <1>8, <1>3, Zenon DEF Fences
  <2>2. ASSUME NEW w \in Workers, NEW v \in Workers, w # v, Current(rs2, h[w]), Current(rs2, h[v])
        PROVE  h[w].op # h[v].op
    BY <2>2, <1>10, <1>11, <1>3, Zenon DEF Fences
  <2>3. Fences(rs2, sl2, h)
    BY <2>1, <2>2, <1>10, Zenon DEF Fences
  <2> QED BY <2>3, <1>12, <1>6, <1>7, <1>9, Zenon DEF Held
<1>13. CASE /\ token # "marker"
            /\ \E w \in Workers : HandedTo(w, o, rs2, h, h2)
  <2>1. PICK w \in Workers : h2[w] = [op |-> o, gen |-> rs2[o].gen] /\ \A v \in Workers \ {w} : h2[v] = h[v]
    BY <1>13, Zenon DEF HandedTo
  <2>2. h2[w].op = o /\ h2[w].gen = rs2[o].gen /\ rs2[o].gen \in Nat
    BY <2>1, RowTypes
  <2>3. ~Marked(sl2, o)
    BY <1>13, <1>5, Zenon DEF Marked
  <2>4. ASSUME NEW v \in Workers, h2[v] # NoFence
        PROVE  rs2[h2[v].op].state # "absent" /\ h2[v].gen <= rs2[h2[v].op].gen
    <3>1. CASE v = w
      BY <1>0, <3>1, <2>2
    <3>2. CASE v # w
      BY <3>2, <2>1, <2>4, <1>10, Zenon
    <3> QED BY <3>1, <3>2, Zenon
  <2>5. ASSUME NEW v \in Workers, v # w, Current(rs2, h2[v])
        PROVE  h2[v] = h[v] /\ h2[v].op \in Ops \ {o} /\ Current(rs, h[v])
    BY <2>1, <2>5, <1>10, <1>11, Zenon
  <2>6. ASSUME NEW v \in Workers, Current(rs2, h2[v]) PROVE ~Marked(sl2, h2[v].op)
    <3>1. CASE v = w
      BY <3>1, <2>2, <2>3, Zenon
    <3>2. CASE v # w
      BY <3>2, <2>5, <2>6, <1>8, <1>3, Zenon DEF Fences
    <3> QED BY <3>1, <3>2, Zenon
  <2>7. ASSUME NEW u \in Workers, NEW v \in Workers, u # v, Current(rs2, h2[u]), Current(rs2, h2[v])
        PROVE  h2[u].op # h2[v].op
    <3>1. CASE u # w /\ v # w
      BY <3>1, <2>5, <2>7, <1>3, Zenon DEF Fences
    <3>2. CASE u = w \/ v = w
      BY <3>2, <2>2, <2>5, <2>7, Zenon
    <3> QED BY <3>1, <3>2, Zenon
  <2>8. Fences(rs2, sl2, h2)
    BY <2>4, <2>6, <2>7, Zenon DEF Fences
  <2> QED BY <2>8, <1>6, <1>7, <1>9, Zenon DEF Held
<1> QED BY <1>12, <1>13, Zenon

\* Operation o goes on running, under the same or a newer generation.
Continues(rs, rs2, o) ==
  /\ \A p \in Ops \ {o} : rs2[p] = rs[p]
  /\ rs2[o].state = "running" /\ rs2[o].class = rs[o].class /\ rs2[o].cancel = rs[o].cancel
  /\ rs[o].gen <= rs2[o].gen

\* Third form: the slots of a running operation get one new token, and its fence
\* stays where it is (renewal) or passes to w, new if anybody may still have it (the
\* claim of a marked operation, and reselect_execution).
LEMMA RestampKeeps ==
  ASSUME AdmissionConstants, NEW rs, NEW sl, NEW cfg, NEW h, Held(rs, sl, cfg, h),
         NEW o \in Ops, rs[o].state = "running",
         NEW rs2, NEW sl2, NEW h2, Types(rs2, sl2, h2),
         Continues(rs, rs2, o),
         NEW expires, sl2 = Restamped(sl, SlotsOf(sl, o), "common", expires),
         \/ rs2 = rs /\ h2 = h
         \/ (Marked(sl, o) \/ rs[o].gen < rs2[o].gen) /\ \E w \in Workers : HandedTo(w, o, rs2, h, h2)
  PROVE  Held(rs2, sl2, cfg, h2)
<1>0. /\ \A p \in Ops \ {o} : rs2[p] = rs[p]
      /\ rs2[o].state = "running" /\ rs2[o].class = rs[o].class /\ rs2[o].cancel = rs[o].cancel
      /\ rs[o].gen <= rs2[o].gen
  BY Zenon DEF Continues
<1>1. Custody(rs, sl) /\ Table(sl, cfg) /\ Markers(rs, sl) /\ Fences(rs, sl, h) /\ Types(rs, sl, h)
  BY Zenon DEF Held
<1>2. ASSUME NEW c \in Classes, NEW n \in Numbers
      PROVE  /\ sl2[c][n].op = sl[c][n].op /\ sl2[c][n].present = sl[c][n].present
             /\ sl[c][n].op = o => sl2[c][n].token = "common"
             /\ sl[c][n].op # o => sl2[c][n].token = sl[c][n].token
  <2>1. sl2[c][n] = IF <<c, n>> \in SlotsOf(sl, o)
                    THEN [present |-> sl[c][n].present, op |-> sl[c][n].op, token |-> "common", expires |-> expires]
                    ELSE sl[c][n]
    BY Zenon DEF Restamped, Numbers
  <2>2. <<c, n>> \in SlotsOf(sl, o) <=> sl[c][n].op = o
    BY SlotPairs
  <2> QED BY <2>1, <2>2
<1>3. \A p \in Ops : rs2[p].state = rs[p].state /\ rs2[p].class = rs[p].class /\ rs2[p].cancel = rs[p].cancel
  BY <1>0, Zenon
<1>4. Custody(rs2, sl2)
  <2>1. ASSUME NEW p \in Ops, rs2[p].state = "running", NEW c \in Chain[rs2[p].class]
        PROVE  \E n \in Numbers : sl2[c][n].op = p /\ \A m \in Numbers : sl2[c][m].op = p => m = n
    <3>1. c \in Classes
      BY RowTypes, Facts, Zenon
    <3>2. PICK n \in Numbers : sl[c][n].op = p /\ \A m \in Numbers : sl[c][m].op = p => m = n
      BY <2>1, <1>3, <1>1 DEF Custody
    <3> QED BY <3>1, <3>2, <1>2
  <2>2. ASSUME NEW p \in Ops, NEW c \in Classes, NEW n \in Numbers, sl2[c][n].op = p
        PROVE  rs2[p].state = "running" /\ c \in Chain[rs2[p].class]
    <3>1. sl[c][n].op = p
      BY <2>2, <1>2, Zenon
    <3> QED BY <3>1, <1>3, <1>1 DEF Custody
  <2> QED BY <2>1, <2>2, Zenon DEF Custody
<1>5. Table(sl2, cfg)
  BY <1>1, <1>2 DEF Table
<1>6. ~Marked(sl2, o)
  BY <1>2 DEF Marked
<1>7. \A p \in Ops \ {o} : Marked(sl2, p) => Marked(sl, p)
  BY <1>2 DEF Marked
<1>8. Markers(rs2, sl2)
  <2>1. ASSUME NEW p \in Ops, Marked(sl2, p)
        PROVE  /\ \A c \in Classes, n \in Numbers : sl2[c][n].op = p => sl2[c][n].token = "marker"
               /\ ~rs2[p].cancel
    <3>1. p # o /\ Marked(sl, p)
      BY <2>1, <1>6, <1>7, Zenon
    <3>2. /\ \A c \in Classes, n \in Numbers : sl[c][n].op = p => sl[c][n].token = "marker"
          /\ ~rs[p].cancel
      BY <3>1, <1>1, Zenon DEF Markers
    <3>3. \A c \in Classes, n \in Numbers : sl2[c][n].op = p => sl2[c][n].token = "marker"
      BY <3>1, <3>2, <1>2
    <3>4. ~rs2[p].cancel
      BY <3>2, <1>3, Zenon
    <3> QED BY <3>3, <3>4, Zenon
  <2> QED BY <2>1, Zenon DEF Markers
<1>9. ASSUME NEW w \in Workers, h[w] # NoFence
      PROVE  /\ h[w].op \in Ops /\ rs2[h[w].op].state # "absent" /\ h[w].gen <= rs2[h[w].op].gen
             /\ Current(rs2, h[w]) => Current(rs, h[w]) /\ (h[w].op = o => rs2[o].gen = rs[o].gen)
  <2>1. h[w].op \in Ops /\ h[w].gen \in Nat
    BY <1>9, <1>1, RowTypes, Zenon
  <2>2. rs[h[w].op].state # "absent" /\ h[w].gen <= rs[h[w].op].gen
    BY <1>9, <1>1, Zenon DEF Fences
  <2>3. rs[h[w].op].gen \in Nat /\ rs2[h[w].op].gen \in Nat
    BY <2>1, <1>1, RowTypes, Zenon
  <2>4. CASE h[w].op = o
    BY <1>0, <2>1, <2>2, <2>3, <2>4 DEF Current
  <2>5. CASE h[w].op # o
    <3>1. rs2[h[w].op] = rs[h[w].op]
      BY <1>0, <2>1, <2>5, Zenon
    <3> QED BY <2>1, <2>2, <2>3, <2>5, <3>1, Zenon DEF Current
  <2> QED BY <2>4, <2>5, Zenon
<1>10. \A w \in Workers : Current(rs2, h[w]) => h[w] # NoFence
  BY Zenon DEF Current
<1>11. CASE rs2 = rs /\ h2 = h
  <2>1. ASSUME NEW w \in Workers, Current(rs2, h[w]) PROVE ~Marked(sl2, h[w].op)
    BY <2>1, <1>9, <1>10, <1>6, <1>7, <1>1, Zenon DEF Fences
  <2>2. ASSUME NEW w \in Workers, NEW v \in Workers, w # v, Current(rs2, h[w]), Current(rs2, h[v])
        PROVE  h[w].op # h[v].op
    BY <2>2, <1>9, <1>10, <1>1, Zenon DEF Fences
  <2>3. Fences(rs2, sl2, h)
    BY <2>1, <2>2, <1>9, Zenon DEF Fences
  <2> QED BY <2>3, <1>11, <1>4, <1>5, <1>8, Zenon DEF Held
<1>12. CASE (Marked(sl, o) \/ rs[o].gen < rs2[o].gen) /\ \E w \in Workers : HandedTo(w, o, rs2, h, h2)
  <2>1. PICK w \in Workers : h2[w] = [op |-> o, gen |-> rs2[o].gen] /\ \A v \in Workers \ {w} : h2[v] = h[v]
    BY <1>12, Zenon DEF HandedTo
  <2>2. h2[w].op = o /\ h2[w].gen = rs2[o].gen /\ rs2[o].gen \in Nat /\ rs[o].gen \in Nat
    BY <2>1, <1>1, RowTypes
  <2>4. ASSUME NEW v \in Workers, h2[v] # NoFence
        PROVE  rs2[h2[v].op].state # "absent" /\ h2[v].gen <= rs2[h2[v].op].gen
    <3>1. CASE v = w
      BY <3>1, <2>2, <1>0
    <3>2. CASE v # w
      BY <3>2, <2>1, <2>4, <1>9, Zenon
    <3> QED BY <3>1, <3>2, Zenon
  <2>5. ASSUME NEW v \in Workers, v # w, Current(rs2, h2[v])
        PROVE  h2[v] = h[v] /\ h2[v].op \in Ops \ {o} /\ Current(rs, h[v])
    <3>1. h2[v] = h[v] /\ h[v] # NoFence /\ Current(rs2, h[v])
      BY <2>1, <2>5, <1>10, Zenon
    <3>2. h[v].op \in Ops /\ Current(rs, h[v]) /\ (h[v].op = o => rs2[o].gen = rs[o].gen)
      BY <3>1, <1>9, Zenon
    <3>3. ~Marked(sl, h[v].op)
      BY <3>2, <1>1, Zenon DEF Fences
    <3>4. h[v].op # o
      BY <3>2, <3>3, <1>12, <2>2
    <3> QED BY <3>1, <3>2, <3>4, Zenon
  <2>6. ASSUME NEW v \in Workers, Current(rs2, h2[v]) PROVE ~Marked(sl2, h2[v].op)
    <3>1. CASE v = w
      BY <3>1, <2>2, <1>6, Zenon
    <3>2. CASE v # w
      BY <3>2, <2>5, <2>6, <1>7, <1>1, Zenon DEF Fences
    <3> QED BY <3>1, <3>2, Zenon
  <2>7. ASSUME NEW u \in Workers, NEW v \in Workers, u # v, Current(rs2, h2[u]), Current(rs2, h2[v])
        PROVE  h2[u].op # h2[v].op
    <3>1. CASE u # w /\ v # w
      BY <3>1, <2>5, <2>7, <1>1, Zenon DEF Fences
    <3>2. CASE u = w \/ v = w
      BY <3>2, <2>2, <2>5, <2>7, Zenon
    <3> QED BY <3>1, <3>2, Zenon
  <2>8. Fences(rs2, sl2, h2)
    BY <2>4, <2>6, <2>7, Zenon DEF Fences
  <2> QED BY <2>8, <1>4, <1>5, <1>8, Zenon DEF Held
<1> QED BY <1>11, <1>12, Zenon

\* Fourth form: a worker lets go of its fence.
LEMMA DropKeeps ==
  ASSUME NEW rs, NEW sl, NEW cfg, NEW h, Held(rs, sl, cfg, h),
         NEW h2, Types(rs, sl, h2), \A w \in Workers : h2[w] \in {h[w], NoFence}
  PROVE  Held(rs, sl, cfg, h2)
<1>1. Fences(rs, sl, h)
  BY Zenon DEF Held
<1>2. \A w \in Workers : Current(rs, h2[w]) => h2[w] = h[w]
  BY Zenon DEF Current
<1>3. Fences(rs, sl, h2)
  BY <1>1, <1>2, Zenon DEF Fences
<1> QED BY <1>3, Zenon DEF Held

\* Fifth form: cancellation of work without a marker is requested.
LEMMA RequestKeeps ==
  ASSUME NEW rs, NEW sl, NEW cfg, NEW h, Held(rs, sl, cfg, h),
         NEW o \in Ops, ~Marked(sl, o),
         NEW rs2, Types(rs2, sl, h),
         \A p \in Ops : /\ rs2[p].state = rs[p].state /\ rs2[p].class = rs[p].class
                        /\ rs2[p].gen = rs[p].gen,
         \A p \in Ops \ {o} : rs2[p].cancel = rs[p].cancel
  PROVE  Held(rs2, sl, cfg, h)
<1>1. Custody(rs, sl) /\ Table(sl, cfg) /\ Markers(rs, sl) /\ Fences(rs, sl, h)
  BY Zenon DEF Held
<1>2. Custody(rs2, sl)
  BY <1>1 DEF Custody
<1>3. Markers(rs2, sl)
  BY <1>1, Zenon DEF Markers
<1>4. \A w \in Workers : h[w] # NoFence => h[w].op \in Ops
  BY RowTypes, Zenon
<1>5. \A w \in Workers : Current(rs2, h[w]) => Current(rs, h[w])
  BY <1>4, Zenon DEF Current
<1>6. Fences(rs2, sl, h)
  BY <1>1, <1>4, <1>5, Zenon DEF Fences
<1> QED BY <1>1, <1>2, <1>3, <1>6, Zenon DEF Held

-----------------------------------------------------------------------------
\* An execution has as many slots as its chain has classes, so _occupied_slots never
\* finds an incomplete set.
LEMMA ChainHeld ==
  ASSUME AdmissionConstants, NEW rs, NEW sl, NEW cfg, NEW h, Held(rs, sl, cfg, h),
         NEW o \in Ops, rs[o].state = "running"
  PROVE  Cardinality(SlotsOf(sl, o)) = Cardinality(Chain[rs[o].class])
<1> DEFINE C == Chain[rs[o].class]
           at(c) == CHOOSE n \in Numbers : sl[c][n].op = o
           f == [c \in C |-> <<c, at(c)>>]
<1>1. C \subseteq Classes /\ IsFiniteSet(C)
  <2>1. rs[o].class \in Classes
    BY RowTypes, Zenon DEF Held
  <2>2. C \subseteq Classes
    BY <2>1, Facts, Zenon
  <2>3. IsFiniteSet(Classes)
    BY Zenon DEF AdmissionConstants
  <2> QED BY <2>2, <2>3, FS_Subset, Zenon
<1>2. \A c \in C : \E n \in Numbers : sl[c][n].op = o /\ \A m \in Numbers : sl[c][m].op = o => m = n
  BY Zenon DEF Held, Custody
<1>3. \A c \in Classes, n \in Numbers : sl[c][n].op = o => c \in C
  BY Zenon DEF Held, Custody
<1> HIDE DEF C
<1>4. ASSUME NEW c \in C
      PROVE  at(c) \in Numbers /\ sl[c][at(c)].op = o /\ \A m \in Numbers : sl[c][m].op = o => m = at(c)
  BY <1>2, Zenon
<1> HIDE DEF at
<1>5. ASSUME NEW c \in C PROVE f[c] \in SlotsOf(sl, o)
  BY <1>1, <1>4, SlotPairs, Zenon
<1>6. ASSUME NEW k \in SlotsOf(sl, o) PROVE \E c \in C : f[c] = k
  <2>1. PICK c \in Classes, n \in Numbers : k = <<c, n>> /\ sl[c][n].op = o
    BY SlotPairs
  <2>2. c \in C /\ n = at(c)
    BY <2>1, <1>3, <1>4, Zenon
  <2> QED BY <2>1, <2>2, Zenon
<1>7. \A c, d \in C : f[c] = f[d] => c = d
  BY Zenon
<1>8. f \in [C -> SlotsOf(sl, o)]
  BY <1>5, Zenon
<1>9. f \in Bijection(C, SlotsOf(sl, o))
  BY <1>6, <1>7, <1>8, Zenon DEF Bijection, Injection, Surjection, IsInjective
<1>10. ExistsBijection(C, SlotsOf(sl, o))
  BY <1>9, Zenon DEF ExistsBijection
<1> HIDE DEF f
<1>11. Cardinality(SlotsOf(sl, o)) = Cardinality(C)
  BY <1>1, <1>10, FS_Bijection, Zenon
<1> QED BY <1>11, Zenon DEF C

\* What ReleaseSlots does to a table that follows the limits.
LEMMA Released ==
  ASSUME AdmissionConstants, NEW rs, NEW sl, NEW h, Held(rs, sl, config, h), config \in Configs,
         NEW ids
  PROVE  /\ Vacates(sl, ReleaseSlots(sl, ids), ids, config)
         /\ ReleaseSlots(sl, ids) \in [Classes -> [Numbers -> Slot]]
<1>1. \A c \in Classes : config.active[c] \in Nat
  BY Facts DEF Limits
<1>2. Table(sl, config) /\ Types(rs, sl, h)
  BY Zenon DEF Held
<1>3. ASSUME NEW c \in Classes, NEW n \in Numbers
      PROVE  /\ Vacated(c, n) \in Slot /\ Vacated(c, n).op = Null
             /\ Vacated(c, n).present <=> n <= config.active[c]
  <2>1. n \in Nat /\ config.active[c] \in Nat
    BY <1>1, Facts, Zenon
  <2>2. CASE n <= config.active[c]
    <3>1. Vacated(c, n) = FreeSlot
      BY <2>1, <2>2 DEF Vacated
    <3>2. FreeSlot \in Slot /\ FreeSlot.op = Null /\ FreeSlot.present
      BY DEF FreeSlot, Slot
    <3> QED BY <3>1, <3>2, <2>2, Zenon
  <2>3. CASE ~(n <= config.active[c])
    <3>1. Vacated(c, n) = NoSlot
      BY <2>1, <2>3 DEF Vacated
    <3>2. NoSlot \in Slot /\ NoSlot.op = Null /\ ~NoSlot.present
      BY DEF NoSlot, Slot
    <3> QED BY <3>1, <3>2, <2>3, Zenon
  <2> QED BY <2>2, <2>3, Zenon
<1>4. ASSUME NEW c \in Classes, NEW n \in Numbers
      PROVE  ReleaseSlots(sl, ids)[c][n] = IF sl[c][n].op \in ids \/ (sl[c][n].present /\ sl[c][n].op = Null)
                                           THEN Vacated(c, n) ELSE sl[c][n]
  BY Zenon DEF ReleaseSlots, Numbers
<1>5. ASSUME NEW c \in Classes, NEW n \in Numbers, sl[c][n].op \notin Ops \ ids
      PROVE  /\ ReleaseSlots(sl, ids)[c][n].op = Null
             /\ ReleaseSlots(sl, ids)[c][n].present <=> n <= config.active[c]
  <2>1. CASE sl[c][n].op \in ids \/ (sl[c][n].present /\ sl[c][n].op = Null)
    <3>1. ReleaseSlots(sl, ids)[c][n] = Vacated(c, n)
      BY <1>4, <2>1, Zenon
    <3> QED BY <3>1, <1>3, Zenon
  <2>2. CASE ~(sl[c][n].op \in ids \/ (sl[c][n].present /\ sl[c][n].op = Null))
    <3>1. ReleaseSlots(sl, ids)[c][n] = sl[c][n]
      BY <1>4, <2>2, Zenon
    <3>2. sl[c][n].op = Null /\ ~sl[c][n].present
      BY <1>2, <1>5, <2>2, RowTypes
    <3>3. ~(n <= config.active[c])
      BY <3>2, <1>2, Zenon DEF Table
    <3> QED BY <3>1, <3>2, <3>3, Zenon
  <2> QED BY <2>1, <2>2, Zenon
<1>6. ASSUME NEW c \in Classes, NEW n \in Numbers, sl[c][n].op \in Ops \ ids
      PROVE  ReleaseSlots(sl, ids)[c][n] = sl[c][n]
  BY <1>4, <1>6, Facts, Zenon
<1>7. ReleaseSlots(sl, ids) \in [Classes -> [Numbers -> Slot]]
  <2>1. \A c \in Classes, n \in Numbers : ReleaseSlots(sl, ids)[c][n] \in Slot
    BY <1>2, <1>3, <1>4, RowTypes
  <2>2. ReleaseSlots(sl, ids) = [c \in Classes |-> [n \in Numbers |-> ReleaseSlots(sl, ids)[c][n]]]
    BY Zenon DEF ReleaseSlots, Numbers
  <2> QED BY <2>1, <2>2, Zenon
<1> QED BY <1>5, <1>6, <1>7, Zenon DEF Vacates

LEMMA EndedRow ==
  ASSUME AdmissionConstants, NEW row \in Row, NEW state \in Terminal, NEW code \in Codes, NEW now \in Int
  PROVE  LET e == Ended(row, state, code, now)
         IN  /\ e \in Row /\ e.state = state
             /\ e.class = row.class /\ e.owner = row.owner /\ e.key = row.key /\ e.gen = row.gen
             /\ e.accepted = row.accepted /\ e.cancel = row.cancel /\ e.parent = row.parent
<1>1. now + Retention \in Int
  BY DEF AdmissionConstants
<1> QED BY <1>1, Zenon DEF Ended, Row, Terminal

\* Rows that a step lets alone, or ends while they wait or run.
Quiet(rs, rs2) ==
  \A o \in Ops :
    /\ rs2[o].class = rs[o].class /\ rs2[o].owner = rs[o].owner /\ rs2[o].key = rs[o].key
    /\ rs2[o].accepted = rs[o].accepted
    /\ rs2[o].state = rs[o].state \/ (rs[o].state \in {"queued", "running"} /\ rs2[o].state \in Terminal)
    /\ rs[o].state \notin {"queued", "running"} => rs2[o] = rs[o]

\* Rows that wait or run end, others may be purged.
Ages(rs, rs2) ==
  \A o \in Ops :
    /\ rs2[o].class = rs[o].class /\ rs2[o].owner = rs[o].owner /\ rs2[o].key = rs[o].key
    /\ rs2[o].accepted = rs[o].accepted
    /\ \/ rs2[o].state = rs[o].state
       \/ rs[o].state \in {"queued", "running"} /\ rs2[o].state \in Terminal
       \/ rs2[o].state = "purged"

LEMMA AgesKeeps ==
  ASSUME AdmissionConstants, NEW rs, NEW rs2, Ages(rs, rs2), NEW bd \in SUBSET Configs,
         QueueFits(rs, bd), VoiceFits(rs), KeysDiffer(rs), \A o \in Ops : rs[o].accepted \in Nat
  PROVE  /\ QueueFits(rs2, bd) /\ VoiceFits(rs2) /\ KeysDiffer(rs2)
         /\ \A o \in Ops : rs2[o].accepted \in Nat
<1>1. ASSUME NEW S, S \subseteq Ops, NEW T, T \subseteq S
      PROVE  Cardinality(T) \in Nat /\ Cardinality(S) \in Nat /\ Cardinality(T) <= Cardinality(S)
  BY <1>1, Facts, FS_Subset, FS_CardinalityType, Zenon
<1>2. QueueFits(rs2, bd)
  <2>1. ASSUME NEW c \in Classes
        PROVE  \E cfg \in bd : Cardinality(InState(rs2, c, "queued")) <= cfg.queue[c]
    <3>1. PICK cfg \in bd : Cardinality(InState(rs, c, "queued")) <= cfg.queue[c]
      BY Zenon DEF QueueFits
    <3>2. InState(rs2, c, "queued") \subseteq InState(rs, c, "queued") /\ InState(rs, c, "queued") \subseteq Ops
      BY Zenon DEF InState, Ages, Terminal
    <3>3. cfg.queue[c] \in Nat
      BY Facts, Zenon DEF Limits
    <3> QED BY <3>1, <3>2, <3>3, <1>1
  <2> QED BY <2>1, Zenon DEF QueueFits
<1>3. VoiceFits(rs2)
  <2>1. ASSUME NEW o \in Ops, rs2[o].state = "running", rs2[o].class \in VoiceClasses
        PROVE  Cardinality(UserWork(rs2, rs2[o].class, rs2[o].owner)) <= VoiceLimit
    <3>1. rs[o].state = "running" /\ rs[o].class = rs2[o].class /\ rs[o].owner = rs2[o].owner
      BY <2>1, Zenon DEF Ages, Terminal
    <3>2. Cardinality(UserWork(rs, rs2[o].class, rs2[o].owner)) <= VoiceLimit
      BY <2>1, <3>1, Zenon DEF VoiceFits
    <3>3. /\ UserWork(rs2, rs2[o].class, rs2[o].owner) \subseteq UserWork(rs, rs2[o].class, rs2[o].owner)
          /\ UserWork(rs, rs2[o].class, rs2[o].owner) \subseteq Ops
      BY Zenon DEF UserWork, InState, Ages, Terminal
    <3>4. VoiceLimit \in Nat
      BY Zenon DEF AdmissionConstants
    <3> QED BY <3>2, <3>3, <3>4, <1>1
  <2> QED BY <2>1, Zenon DEF VoiceFits
<1>4. \A o \in Ops : Live(rs2[o]) => Live(rs[o])
  BY Zenon DEF Live, Ages, Terminal
<1>5. KeysDiffer(rs2)
  BY <1>4 DEF KeysDiffer, Ages
<1> QED BY <1>2, <1>3, <1>5, Zenon DEF Ages

LEMMA QuietKeeps ==
  ASSUME AdmissionConstants, NEW rs, NEW rs2, Quiet(rs, rs2), NEW subs, NEW bd \in SUBSET Configs, NEW pids \in SUBSET Ops,
         Rows(rs, subs, bd, pids)
  PROVE  Rows(rs2, subs, bd, pids)
<1>1. Ages(rs, rs2)
  BY Zenon DEF Ages, Quiet
<1>2. /\ QueueFits(rs2, bd) /\ VoiceFits(rs2) /\ KeysDiffer(rs2)
      /\ \A o \in Ops : rs2[o].accepted \in Nat
  BY <1>1, AgesKeeps, Zenon DEF Rows
<1>3. \A o \in Ops : Live(rs2[o]) <=> Live(rs[o])
  BY Zenon DEF Live, Quiet, Terminal
<1>4. Answered(rs2, subs)
  BY <1>3, Zenon DEF Rows, Answered
<1>5. \A o \in pids : rs2[o].state \in Terminal
  BY Zenon DEF Rows, Quiet, Terminal
<1> QED BY <1>2, <1>4, <1>5, Zenon DEF Rows

\* Rows are let alone, or end while they wait or run; the executions among them are
\* those of ids.
Ends(rs, rs2, ids) ==
  \A o \in Ops :
    \/ rs2[o] = rs[o] /\ (o \in ids => rs[o].state # "running")
    \/ /\ rs[o].state \in {"queued", "running"} /\ rs2[o].state \in Terminal
       /\ rs[o].state = "running" => o \in ids
       /\ rs2[o].class = rs[o].class /\ rs2[o].owner = rs[o].owner /\ rs2[o].key = rs[o].key
       /\ rs2[o].accepted = rs[o].accepted /\ rs2[o].gen = rs[o].gen

\* Every way to end executions and waits: the rows are ended, and the slots of the
\* executions among them are released.
LEMMA FinishKeeps ==
  ASSUME AdmissionConstants, config \in Configs, NEW rs, NEW sl, NEW h, Held(rs, sl, config, h),
         NEW ids, NEW rs2 \in [Ops -> Row],
         Ends(rs, rs2, ids),
         NEW sl2, sl2 = ReleaseSlots(sl, ids) \/ (ids = {} /\ sl2 = sl)
  PROVE  Held(rs2, sl2, config, h) /\ Quiet(rs, rs2)
<1>1. Table(sl, config) /\ Types(rs, sl, h)
  BY Zenon DEF Held
<1>2. Vacates(sl, sl2, ids, config)
  <2>1. CASE sl2 = ReleaseSlots(sl, ids)
    BY <2>1, Released, Zenon
  <2>2. CASE ids = {} /\ sl2 = sl
    <3>1. ASSUME NEW c \in Classes, NEW n \in Numbers, sl[c][n].op \notin Ops
          PROVE  sl[c][n].op = Null /\ (sl[c][n].present <=> n <= config.active[c])
      <4>1. sl[c][n].op = Null
        BY <3>1, <1>1, RowTypes
      <4> QED BY <4>1, <1>1, Zenon DEF Table
    <3> QED BY <2>2, <3>1, Zenon DEF Vacates
  <2> QED BY <2>1, <2>2, Zenon
<1>3. Types(rs2, sl2, h)
  BY <1>1, Released DEF Types
<1>4. Stops(rs, rs2, ids)
  BY Zenon DEF Ends, Stops, Terminal
<1>7. Held(rs2, sl2, config, h)
  BY <1>2, <1>3, <1>4, ReleaseKeeps, Zenon
<1>8. Quiet(rs, rs2)
  BY Zenon DEF Ends, Quiet
<1> QED BY <1>7, <1>8, Zenon

LEMMA ExpireQueuedRows ==
  ASSUME AdmissionConstants, NEW rs \in [Ops -> Row], NEW now \in Int
  PROVE  /\ ExpireQueued(rs, now) \in [Ops -> Row]
         /\ \A o \in Ops :
              \/ ExpireQueued(rs, now)[o] = rs[o]
              \/ /\ rs[o].state = "queued" /\ ExpireQueued(rs, now)[o].state \in Terminal
                 /\ ExpireQueued(rs, now)[o].class = rs[o].class /\ ExpireQueued(rs, now)[o].owner = rs[o].owner
                 /\ ExpireQueued(rs, now)[o].key = rs[o].key /\ ExpireQueued(rs, now)[o].accepted = rs[o].accepted
                 /\ ExpireQueued(rs, now)[o].gen = rs[o].gen
<1>1. ASSUME NEW o \in Ops
      PROVE  /\ Ended(rs[o], "retryable", "queue_wait_expired", now) \in Row
             /\ Ended(rs[o], "retryable", "queue_wait_expired", now).state = "retryable"
             /\ Ended(rs[o], "retryable", "queue_wait_expired", now).class = rs[o].class
             /\ Ended(rs[o], "retryable", "queue_wait_expired", now).owner = rs[o].owner
             /\ Ended(rs[o], "retryable", "queue_wait_expired", now).key = rs[o].key
             /\ Ended(rs[o], "retryable", "queue_wait_expired", now).accepted = rs[o].accepted
             /\ Ended(rs[o], "retryable", "queue_wait_expired", now).gen = rs[o].gen
  <2>1. rs[o] \in Row
    BY Zenon
  <2>2. "retryable" \in Terminal
    BY Zenon DEF Terminal
  <2>3. "queue_wait_expired" \in Codes
    BY Zenon DEF Codes
  <2> QED BY <2>1, <2>2, <2>3, EndedRow
<1> QED BY <1>1, Zenon DEF ExpireQueued, Terminal

LEMMA ExpireLeasesRows ==
  ASSUME AdmissionConstants, NEW rs \in [Ops -> Row], NEW now \in Int, NEW ids
  PROVE  /\ ExpireLeases(rs, ids, now) \in [Ops -> Row]
         /\ \A o \in Ops :
              \/ ExpireLeases(rs, ids, now)[o] = rs[o] /\ (o \in ids => rs[o].state # "running")
              \/ /\ o \in ids /\ rs[o].state = "running" /\ ExpireLeases(rs, ids, now)[o].state \in Terminal
                 /\ ExpireLeases(rs, ids, now)[o].class = rs[o].class
                 /\ ExpireLeases(rs, ids, now)[o].owner = rs[o].owner
                 /\ ExpireLeases(rs, ids, now)[o].key = rs[o].key
                 /\ ExpireLeases(rs, ids, now)[o].accepted = rs[o].accepted
                 /\ ExpireLeases(rs, ids, now)[o].gen = rs[o].gen
<1>1. ASSUME NEW o \in Ops
      PROVE  /\ Ended(rs[o], "retryable", "execution_lease_expired", now) \in Row
             /\ Ended(rs[o], "retryable", "execution_lease_expired", now).state = "retryable"
             /\ Ended(rs[o], "retryable", "execution_lease_expired", now).class = rs[o].class
             /\ Ended(rs[o], "retryable", "execution_lease_expired", now).owner = rs[o].owner
             /\ Ended(rs[o], "retryable", "execution_lease_expired", now).key = rs[o].key
             /\ Ended(rs[o], "retryable", "execution_lease_expired", now).accepted = rs[o].accepted
             /\ Ended(rs[o], "retryable", "execution_lease_expired", now).gen = rs[o].gen
  <2>1. rs[o] \in Row
    BY Zenon
  <2>2. "retryable" \in Terminal
    BY Zenon DEF Terminal
  <2>3. "execution_lease_expired" \in Codes
    BY Zenon DEF Codes
  <2> QED BY <2>1, <2>2, <2>3, EndedRow
<1> QED BY <1>1, Zenon DEF ExpireLeases, Terminal

\* The sweeps at the head of a submission or claim.
LEMMA SweepKeeps ==
  ASSUME AdmissionConstants, IInv, NEW now \in Int
  PROVE  /\ Held(SweptOps(now), SweptSlots(now), config, held)
         /\ Quiet(ops, SweptOps(now))
         /\ Rows(SweptOps(now), submissions, bound, purge.ids)
<1> DEFINE q == ExpireQueued(ops, now)
           ids == LeaseOver(slots, now)
<1>1. ops \in [Ops -> Row] /\ Held(ops, slots, config, held) /\ config \in Configs
  BY Zenon DEF IInv, Held, Types, Rest
<1>2. Held(q, slots, config, held) /\ Quiet(ops, q)
  <2>1. q \in [Ops -> Row] /\ Ends(ops, q, {})
    BY <1>1, ExpireQueuedRows DEF Ends
  <2> HIDE DEF q
  <2> QED BY <2>1, <1>1, FinishKeeps, Zenon
<1>3. SweptOps(now) = ExpireLeases(q, ids, now)
  BY Zenon DEF SweptOps
<1>4. SweptSlots(now) = ReleaseSlots(slots, ids) \/ (ids = {} /\ SweptSlots(now) = slots)
  BY Zenon DEF SweptSlots
<1>5. q \in [Ops -> Row]
  BY <1>1, ExpireQueuedRows, Zenon
<1> HIDE DEF q, ids
<1>6. PICK e \in {SweptOps(now)} : TRUE
  BY Zenon
<1>7. e \in [Ops -> Row] /\ Ends(q, e, ids)
  BY <1>3, <1>5, <1>6, ExpireLeasesRows DEF Ends
<1>8. Held(e, SweptSlots(now), config, held) /\ Quiet(q, e)
  BY <1>1, <1>2, <1>4, <1>7, FinishKeeps, Zenon
<1>9. Quiet(ops, e)
  BY <1>2, <1>8 DEF Quiet, Terminal
<1>10. Rows(e, submissions, bound, purge.ids)
  <2>1. bound \in SUBSET Configs /\ purge.ids \in SUBSET Ops
    BY Zenon DEF IInv, Rest
  <2> QED BY <2>1, <1>9, QuietKeeps, Zenon DEF IInv
<1> QED BY <1>6, <1>8, <1>9, <1>10, Zenon

-----------------------------------------------------------------------------
LEMMA RestampedType ==
  ASSUME NEW sl \in [Classes -> [Numbers -> Slot]], NEW ids, NEW expires \in Int
  PROVE  Restamped(sl, ids, "common", expires) \in [Classes -> [Numbers -> Slot]]
<1>1. ASSUME NEW c \in Classes, NEW n \in Numbers
      PROVE  [present |-> sl[c][n].present, op |-> sl[c][n].op, token |-> "common", expires |-> expires] \in Slot
  <2>1. sl[c][n] \in Slot
    BY Zenon
  <2> QED BY <2>1, Zenon DEF Slot
<1> QED BY <1>1, Zenon DEF Restamped, Numbers

LEMMA OccupiedType ==
  ASSUME AdmissionConstants, NEW sl \in [Classes -> [Numbers -> Slot]], NEW cfg, NEW k \in Classes,
         SlotsFree(sl, cfg, k), NEW o \in Ops, NEW token \in {"marker", "own"}, NEW expires \in Int
  PROVE  Occupied(sl, cfg, k, o, token, expires) \in [Classes -> [Numbers -> Slot]]
<1>1. PICK new \in Slot : new = [present |-> TRUE, op |-> o, token |-> token, expires |-> expires]
  <2>1. [present |-> TRUE, op |-> o, token |-> token, expires |-> expires] \in Slot
    BY Zenon DEF Slot
  <2> QED BY <2>1, Zenon
<1>2. ASSUME NEW d \in Classes PROVE Occupied(sl, cfg, k, o, token, expires)[d] \in [Numbers -> Slot]
  <2>1. CASE d \in Chain[k]
    <3>1. Occupied(sl, cfg, k, o, token, expires)[d] = [sl[d] EXCEPT ![Min(FreeNumbers(sl, cfg, d))] = new]
      BY <1>1, <2>1, Zenon DEF Occupied
    <3>2. sl[d] \in [Numbers -> Slot]
      BY Zenon
    <3> QED BY <3>1, <3>2, Zenon
  <2>2. CASE d \notin Chain[k]
    BY <2>2, Zenon DEF Occupied
  <2> QED BY <2>1, <2>2, Zenon
<1>3. Occupied(sl, cfg, k, o, token, expires) = [d \in Classes |-> Occupied(sl, cfg, k, o, token, expires)[d]]
  BY Zenon DEF Occupied
<1> QED BY <1>2, <1>3, Zenon

\* ORDER BY accepted_at, operation_id has a first row.
LEMMA FirstIsLeast ==
  ASSUME AdmissionConstants, NEW rs, \A o \in Ops : rs[o].accepted \in Nat, NEW S \in SUBSET Ops, S # {}
  PROVE  First(rs, S) \in S /\ \A p \in S \ {First(rs, S)} : Before(rs, First(rs, S), p)
<1> DEFINE A == {rs[o].accepted : o \in S}
<1>1. PICK a \in A : \A b \in A : a <= b
  <2>1. A \subseteq Nat /\ A # {}
    BY Zenon
  <2> HIDE DEF A
  <2> QED BY <2>1, NatMin, Zenon
<1> DEFINE T == {o \in S : rs[o].accepted = a}
<1>2. PICK o \in T : \A p \in T : o <= p
  <2>1. T \subseteq Nat /\ T # {}
    BY Facts, Zenon
  <2> HIDE DEF T
  <2> QED BY <2>1, NatMin, Zenon
<1>3. ASSUME NEW p \in S \ {o} PROVE Before(rs, o, p)
  <2>1. rs[o].accepted = a /\ a <= rs[p].accepted /\ a \in Nat /\ rs[p].accepted \in Nat
    BY <1>1, Zenon
  <2>2. o \in Nat /\ p \in Nat
    BY Facts, Zenon
  <2>3. rs[p].accepted = a => o <= p
    BY <1>2, Zenon
  <2> QED BY <2>1, <2>2, <2>3 DEF Before
<1>4. \E x \in S : \A p \in S \ {x} : Before(rs, x, p)
  BY <1>3, Zenon
<1> QED BY <1>4, Zenon DEF First

\* A queued row that starts leaves the rows in order: it frees a place in the queue,
\* and it is no voice work, which never waits.
LEMMA StartedRows ==
  ASSUME AdmissionConstants, NEW rs, NEW rs2, NEW subs, NEW bd \in SUBSET Configs, NEW pids \in SUBSET Ops,
         Rows(rs, subs, bd, pids), NEW o \in Ops, rs[o].state = "queued", rs[o].class \in Classes,
         Starts(rs, rs2, o), rs2[o].class = rs[o].class, rs2[o].owner = rs[o].owner,
         rs2[o].key = rs[o].key, rs2[o].accepted = rs[o].accepted
  PROVE  Rows(rs2, subs, bd, pids)
<1>0. rs2[o].state = "running" /\ \A p \in Ops \ {o} : rs2[p] = rs[p]
  BY Zenon DEF Starts
<1>1. ASSUME NEW S, S \subseteq Ops, NEW T, T \subseteq S
      PROVE  IsFiniteSet(S) /\ Cardinality(T) \in Nat /\ Cardinality(S) \in Nat /\ Cardinality(T) <= Cardinality(S)
  BY <1>1, Facts, FS_Subset, FS_CardinalityType, Zenon
<1>2. QueueFits(rs2, bd)
  <2>1. ASSUME NEW c \in Classes
        PROVE  \E cfg \in bd : Cardinality(InState(rs2, c, "queued")) <= cfg.queue[c]
    <3>1. PICK cfg \in bd : Cardinality(InState(rs, c, "queued")) <= cfg.queue[c]
      BY Zenon DEF Rows, QueueFits
    <3>2. InState(rs2, c, "queued") \subseteq InState(rs, c, "queued") /\ InState(rs, c, "queued") \subseteq Ops
      BY <1>0, Zenon DEF InState
    <3>3. cfg.queue[c] \in Nat
      BY Facts, Zenon DEF Limits
    <3> QED BY <3>1, <3>2, <3>3, <1>1
  <2> QED BY <2>1, Zenon DEF QueueFits
<1>3. rs[o].class \notin VoiceClasses
  <2>1. SUFFICES ASSUME rs[o].class \in VoiceClasses PROVE FALSE
    BY Zenon
  <2>2. PICK cfg \in bd : Cardinality(InState(rs, rs[o].class, "queued")) <= cfg.queue[rs[o].class]
    BY Zenon DEF Rows, QueueFits
  <2>3. cfg.queue[rs[o].class] = 0
    BY <2>1 DEF AdmissionConstants
  <2>4. o \in InState(rs, rs[o].class, "queued") /\ InState(rs, rs[o].class, "queued") \subseteq Ops
    BY Zenon DEF InState
  <2>5. IsFiniteSet(InState(rs, rs[o].class, "queued")) /\ Cardinality(InState(rs, rs[o].class, "queued")) \in Nat
    BY <2>4, <1>1, Zenon
  <2>6. Cardinality(InState(rs, rs[o].class, "queued")) = 0
    BY <2>2, <2>3, <2>5
  <2> QED BY <2>4, <2>5, <2>6, FS_EmptySet, Zenon
<1>4. VoiceFits(rs2)
  <2>1. ASSUME NEW p \in Ops, rs2[p].state = "running", rs2[p].class \in VoiceClasses
        PROVE  Cardinality(UserWork(rs2, rs2[p].class, rs2[p].owner)) <= VoiceLimit
    <3>1. p # o /\ rs2[p] = rs[p]
      BY <2>1, <1>0, <1>3, Zenon
    <3>2. UserWork(rs2, rs[p].class, rs[p].owner) = UserWork(rs, rs[p].class, rs[p].owner)
      BY <2>1, <3>1, <1>0, <1>3, Zenon DEF UserWork, InState
    <3> QED BY <2>1, <3>1, <3>2, Zenon DEF Rows, VoiceFits
  <2> QED BY <2>1, Zenon DEF VoiceFits
<1>5. \A p \in Ops : /\ Live(rs2[p]) <=> Live(rs[p])
                     /\ rs2[p].owner = rs[p].owner /\ rs2[p].key = rs[p].key /\ rs2[p].accepted = rs[p].accepted
  BY <1>0, Zenon DEF Live
<1>6. KeysDiffer(rs2)
  BY <1>5 DEF Rows, KeysDiffer
<1>7. Answered(rs2, subs)
  BY <1>5, Zenon DEF Rows, Answered
<1>8. \A p \in pids : rs2[p].state \in Terminal
  BY <1>0, Zenon DEF Rows, Terminal
<1> QED BY <1>2, <1>4, <1>5, <1>6, <1>7, <1>8, Zenon DEF Rows

LEMMA NewRowType ==
  ASSUME AdmissionConstants, NEW r \in Requests, NEW state \in {"queued", "running"},
         NEW now \in Nat, NEW deadline \in Int
  PROVE  LET row == NewRow(r, state, now, deadline)
         IN  /\ row \in Row /\ row.state = state /\ row.class = r.class /\ row.owner = r.owner
             /\ row.key = r.key /\ row.accepted = now /\ ~row.cancel
<1>1. /\ r.class \in Classes /\ r.key \in Key /\ r.parent \in Ops \cup {Null}
      /\ r.owner \in Owners /\ r.input \in Inputs
  BY Zenon DEF AdmissionConstants, Request, Owners, Inputs
<1>2. PICK g \in Nat : g = IF state = "running" THEN 1 ELSE 0
  BY Zenon
<1>3. PICK row \in {NewRow(r, state, now, deadline)} : TRUE
  BY Zenon
<1>4. row = [state |-> state, class |-> r.class, owner |-> r.owner, key |-> r.key, input |-> r.input,
             parent |-> r.parent, gen |-> g, accepted |-> now,
             deadline |-> deadline, cancel |-> FALSE, code |-> "", purge |-> 0]
  BY <1>2, <1>3, Zenon DEF NewRow
<1>5. /\ "" \in Codes /\ now \in Int /\ 0 \in Int
      /\ state \in {"absent", "queued", "running", "purged"} \cup Terminal
  BY DEF Codes
<1>6. row \in Row
  BY ONLY <1>1, <1>4, <1>5, g \in Nat, deadline \in Int, Zenon DEF Row
<1>7. /\ row.state = state /\ row.class = r.class /\ row.owner = r.owner
      /\ row.key = r.key /\ row.accepted = now /\ ~row.cancel
  BY <1>4, Zenon
<1> QED BY <1>3, <1>6, <1>7, Zenon

\* A row that may be added: its key is unused, it waits only where there is room in
\* the queue and runs only where the user's voice work leaves room.
Admits(rs, bd, row) ==
  /\ row.state \in {"queued", "running"} /\ row.accepted \in Nat
  /\ \A p \in Ops : Live(rs[p]) /\ rs[p].owner = row.owner /\ rs[p].key = row.key => row.key = NoKey
  /\ row.state = "queued" =>
       \E cfg \in bd : Cardinality(InState(rs, row.class, "queued")) < cfg.queue[row.class]
  /\ row.state = "running" /\ row.class \in VoiceClasses =>
       Cardinality(UserWork(rs, row.class, row.owner)) < VoiceLimit

LEMMA NewRows ==
  ASSUME AdmissionConstants, NEW rs, NEW rs2, NEW subs, NEW subs2, NEW bd \in SUBSET Configs, NEW pids \in SUBSET Ops,
         Rows(rs, subs, bd, pids), NEW o \in Ops, rs[o].state = "absent",
         \A p \in Ops \ {o} : rs2[p] = rs[p], Admits(rs, bd, rs2[o]),
         \A s \in SubmissionIds : subs2[s] = subs[s] \/ (subs2[s].status = "accepted" /\ subs2[s].op = o)
  PROVE  Rows(rs2, subs2, bd, pids)
<1>0. rs2[o].state \in {"queued", "running"} /\ rs2[o].accepted \in Nat
  BY Zenon DEF Admits
<1>1. ASSUME NEW S, S \subseteq Ops
      PROVE  IsFiniteSet(S) /\ Cardinality(S) \in Nat
  BY <1>1, Facts, FS_Subset, FS_CardinalityType, Zenon
<1>2. QueueFits(rs2, bd)
  <2>1. ASSUME NEW c \in Classes
        PROVE  \E cfg \in bd : Cardinality(InState(rs2, c, "queued")) <= cfg.queue[c]
    <3>1. PICK old \in {InState(rs, c, "queued")}, new \in {InState(rs2, c, "queued")} : TRUE
      BY Zenon
    <3>2. old \subseteq Ops /\ o \notin old
      BY <3>1, Zenon DEF InState
    <3>3. CASE rs2[o].state = "queued" /\ rs2[o].class = c
      <4>1. new = old \cup {o}
        BY <3>1, <3>3, Zenon DEF InState
      <4>2. Cardinality(new) = Cardinality(old) + 1
        BY <4>1, <3>2, <1>1, FS_AddElement, Zenon
      <4>3. PICK cfg \in bd : Cardinality(old) < cfg.queue[c]
        BY <3>1, <3>3, Zenon DEF Admits
      <4>4. cfg.queue[c] \in Nat
        BY Facts, Zenon DEF Limits
      <4>5. Cardinality(old) \in Nat
        BY <3>2, <1>1, Zenon
      <4> QED BY <4>2, <4>3, <4>4, <4>5, <3>1
    <3>4. CASE ~(rs2[o].state = "queued" /\ rs2[o].class = c)
      <4>1. \A x \in Ops : x \in new <=> x \in old
        BY <3>1, <3>2, <3>4, Zenon DEF InState
      <4>2. new \subseteq Ops
        BY <3>1, Zenon DEF InState
      <4>3. new = old
        BY <4>1, <4>2, <3>2, Zenon
      <4> QED BY <4>3, <3>1, Zenon DEF Rows, QueueFits
    <3> QED BY <3>3, <3>4, Zenon
  <2> QED BY <2>1, Zenon DEF QueueFits
<1>3. VoiceFits(rs2)
  <2>1. ASSUME NEW p \in Ops, rs2[p].state = "running", rs2[p].class \in VoiceClasses
        PROVE  Cardinality(UserWork(rs2, rs2[p].class, rs2[p].owner)) <= VoiceLimit
    <3>1. PICK old \in {UserWork(rs, rs2[p].class, rs2[p].owner)}, new \in {UserWork(rs2, rs2[p].class, rs2[p].owner)} : TRUE
      BY Zenon
    <3>2. old \subseteq Ops /\ o \notin old
      BY <3>1, Zenon DEF UserWork, InState
    <3>3. CASE rs2[o].state = "running" /\ rs2[o].class = rs2[p].class /\ rs2[o].owner = rs2[p].owner
      <4>1. new = old \cup {o}
        BY <3>1, <3>3, Zenon DEF UserWork, InState
      <4>2. Cardinality(new) = Cardinality(old) + 1
        BY <4>1, <3>2, <1>1, FS_AddElement, Zenon
      <4>3. Cardinality(old) < VoiceLimit
        BY <2>1, <3>1, <3>3, Zenon DEF Admits
      <4>4. VoiceLimit \in Nat /\ Cardinality(old) \in Nat
        BY <3>2, <1>1, Zenon DEF AdmissionConstants
      <4> QED BY <4>2, <4>3, <4>4, <3>1
    <3>4. CASE ~(rs2[o].state = "running" /\ rs2[o].class = rs2[p].class /\ rs2[o].owner = rs2[p].owner)
      <4>1. \A x \in Ops : x \in new <=> x \in old
        BY <3>1, <3>2, <3>4, Zenon DEF UserWork, InState
      <4>2. new \subseteq Ops
        BY <3>1, Zenon DEF UserWork, InState
      <4>3. new = old
        BY <4>1, <4>2, <3>2, Zenon
      <4>4. p # o /\ rs2[p] = rs[p]
        BY <2>1, <3>4, Zenon
      <4>5. Cardinality(old) <= VoiceLimit
        BY <2>1, <3>1, <4>4, Zenon DEF Rows, VoiceFits
      <4> QED BY <4>3, <4>5, <3>1, Zenon
    <3> QED BY <3>3, <3>4, Zenon
  <2> QED BY <2>1, Zenon DEF VoiceFits
<1>4. KeysDiffer(rs2)
  <2>1. SUFFICES ASSUME NEW x \in Ops, NEW p \in Ops, x # p, Live(rs2[x]), Live(rs2[p]), rs2[x].key # NoKey,
                        rs2[x].owner = rs2[p].owner, rs2[x].key = rs2[p].key
                 PROVE  FALSE
    BY Zenon DEF KeysDiffer
  <2>2. CASE x # o /\ p # o
    <3>1. rs2[x] = rs[x] /\ rs2[p] = rs[p]
      BY <2>2, Zenon
    <3> QED BY <2>1, <3>1, Zenon DEF Rows, KeysDiffer
  <2>3. CASE x = o
    <3>1. rs2[p] = rs[p]
      BY <2>1, <2>3, Zenon
    <3> QED BY <2>1, <2>3, <3>1, Zenon DEF Admits
  <2>4. CASE p = o
    <3>1. rs2[x] = rs[x]
      BY <2>1, <2>4, Zenon
    <3> QED BY <2>1, <2>4, <3>1, Zenon DEF Admits
  <2> QED BY <2>2, <2>3, <2>4, Zenon
<1>5. \A p \in Ops : Live(rs[p]) => Live(rs2[p])
  BY <1>0, Zenon DEF Live
<1>6. Answered(rs2, subs2)
  <2>1. Live(rs2[o])
    BY <1>0, Zenon DEF Live
  <2> QED BY <2>1, <1>5, Zenon DEF Rows, Answered
<1>7. /\ \A p \in Ops : rs2[p].accepted \in Nat
      /\ \A p \in pids : rs2[p].state \in Terminal
  BY <1>0, Zenon DEF Rows, Terminal
<1> QED BY <1>2, <1>3, <1>4, <1>6, <1>7, Zenon DEF Rows
=============================================================================
