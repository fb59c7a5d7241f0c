------------------------ MODULE WorkAdmissionProofs -------------------------
(***************************************************************************)
(* The theorems about WorkAdmission, for any operations, workers, classes, *)
(* configurations and requests, and any lag of a transaction's time.       *)
(*                                                                         *)
(* One lemma for each action shows that it keeps IInv, the invariant of    *)
(* AdmissionTableProofs, and the action properties.  Each puts its step    *)
(* together from the stages proved there.                                  *)
(***************************************************************************)
EXTENDS AdmissionTableProofs

\* A leaf that names no backend is for the SMT solver.
USE SMTT(30)

\* What no step may do.
Kept == OutcomesKept /\ ResultsKept /\ StartsInOrder

LEMMA QuietKept ==
  ASSUME Quiet(ops, ops'), submissions' = submissions
  PROVE  Kept
<1>1. OutcomesKept
  BY Zenon DEF OutcomesKept, Quiet, Terminal
<1>2. ResultsKept
  BY Zenon DEF ResultsKept
<1>3. StartsInOrder
  BY Zenon DEF StartsInOrder, Quiet, Terminal
<1> QED BY <1>1, <1>2, <1>3, Zenon DEF Kept

\* A step that only ends executions and waits.
LEMMA QuietStep ==
  ASSUME AdmissionConstants, IInv, Held(ops', slots', config', held'), Quiet(ops, ops'), Rest',
         submissions' = submissions, bound' = bound, purge' = purge
  PROVE  IInv' /\ Kept
<1>1. Rows(ops', submissions, bound, purge.ids)
  <2>1. bound \in SUBSET Configs /\ purge.ids \in SUBSET Ops
    BY Zenon DEF IInv, Rest
  <2> QED BY <2>1, QuietKeeps, Zenon DEF IInv
<1> QED BY <1>1, QuietKept, Zenon DEF IInv

LEMMA ReadingsAreTimes == ASSUME AdmissionConstants, NEW now \in Readings PROVE now \in Nat
BY DEF AdmissionConstants, Readings, Times

LEMMA InitSound == ASSUME AdmissionConstants, Init PROVE IInv
<1>1. config \in Configs /\ \A c \in Classes : config.active[c] \in Nat
  BY Facts DEF Init, Limits
<1>2. AbsentRow \in Row
  <2>1. (CHOOSE c \in Classes : TRUE) \in Classes
    BY Zenon DEF AdmissionConstants
  <2>2. NoKey \in Key
    BY Zenon DEF NoKey, Key
  <2> QED BY <2>1, <2>2 DEF AbsentRow, Row, Owners, Inputs, Codes
<1>3. ASSUME NEW c \in Classes, NEW n \in Numbers
      PROVE  /\ slots[c][n] = IF n <= config.active[c] THEN FreeSlot ELSE NoSlot
             /\ slots[c][n] \in Slot /\ slots[c][n].op = Null
             /\ slots[c][n].present <=> n <= config.active[c]
  <2>1. slots[c][n] = IF n <= config.active[c] THEN FreeSlot ELSE NoSlot
    BY Zenon DEF Init, Provisioned, Numbers
  <2>2. FreeSlot \in Slot /\ FreeSlot.op = Null /\ FreeSlot.present
    BY DEF FreeSlot, Slot
  <2>3. NoSlot \in Slot /\ NoSlot.op = Null /\ ~NoSlot.present
    BY DEF NoSlot, Slot
  <2> QED BY <2>1, <2>2, <2>3, Zenon
<1>4. Types(ops, slots, held)
  <2>1. slots = [c \in Classes |-> [n \in Numbers |-> slots[c][n]]]
    BY Zenon DEF Init, Provisioned, Numbers
  <2>2. slots \in [Classes -> [Numbers -> Slot]]
    BY <2>1, <1>3
  <2>3. ops \in [Ops -> Row] /\ held \in [Workers -> Fence \cup {NoFence}]
    BY <1>2, Zenon DEF Init
  <2> QED BY <2>2, <2>3, Zenon DEF Types
<1>5. \A o \in Ops : ops[o].state = "absent" /\ ops[o].accepted = 0
  BY Zenon DEF Init, AbsentRow
<1>6. \A o \in Ops, c \in Classes, n \in Numbers : slots[c][n].op # o
  BY <1>3, Facts, Zenon
<1>7. \A w \in Workers : held[w] = NoFence
  BY Zenon DEF Init
<1>8. Held(ops, slots, config, held)
  <2>1. Custody(ops, slots)
    BY <1>5, <1>6, Zenon DEF Custody
  <2>2. Table(slots, config)
    BY <1>3, Zenon DEF Table
  <2>3. Markers(ops, slots)
    BY <1>6, Zenon DEF Markers, Marked
  <2>4. Fences(ops, slots, held)
    BY <1>7, Zenon DEF Fences, Current
  <2> QED BY <1>4, <2>1, <2>2, <2>3, <2>4, Zenon DEF Held
<1>9. /\ submissions \in [SubmissionIds -> Submission]
      /\ \A s \in SubmissionIds : submissions[s].status = "none" /\ submissions[s].op = Null
  <2>1. NoSubmission \in Submission /\ NoSubmission.status = "none" /\ NoSubmission.op = Null
    BY DEF NoSubmission, Submission, Codes
  <2> QED BY <2>1, Zenon DEF Init
<1>10. Idle \in [ids : SUBSET Ops, now : Int] /\ Idle.ids = {}
  BY DEF Idle
<1>11. Rest
  BY <1>1, <1>9, <1>10 DEF Init, Rest, Times, AdmissionConstants
<1>12. Rows(ops, submissions, bound, purge.ids)
  <2>1. QueueFits(ops, bound)
    <3>1. ASSUME NEW c \in Classes
          PROVE  Cardinality(InState(ops, c, "queued")) <= config.queue[c]
      <4>1. InState(ops, c, "queued") = {}
        BY <1>5, Zenon DEF InState
      <4>2. config.queue[c] \in Nat
        BY <1>1, Facts, Zenon DEF Limits
      <4> QED BY <4>1, <4>2, FS_EmptySet
    <3> QED BY <3>1, Zenon DEF QueueFits, Init
  <2>2. VoiceFits(ops) /\ KeysDiffer(ops) /\ Answered(ops, submissions)
    BY <1>5, <1>9, Zenon DEF VoiceFits, KeysDiffer, Answered, Live
  <2>3. purge.ids = {}
    BY <1>10, Zenon DEF Init
  <2> QED BY <2>1, <2>2, <2>3, <1>5 DEF Rows
<1> QED BY <1>8, <1>11, <1>12, Zenon DEF IInv

LEMMA TickStep == ASSUME AdmissionConstants, IInv, Tick PROVE IInv' /\ Kept
<1>1. Rest'
  BY DEF IInv, Rest, Tick, Times, AdmissionConstants
<1>2. Quiet(ops, ops')
  BY Zenon DEF Tick, Quiet
<1> QED BY <1>1, <1>2, QuietStep, Zenon DEF IInv, Tick

LEMMA ConfigureStep == ASSUME AdmissionConstants, IInv, NEW cfg \in Configs, Configure(cfg) PROVE IInv' /\ Kept
<1>1. Rest' /\ ops' = ops /\ held' = held /\ config' = cfg
  BY DEF IInv, Rest, Configure, AdmissionConstants
<1>2. Quiet(ops, ops')
  BY <1>1, Zenon DEF Quiet
<1>3. ASSUME NEW c \in Classes, NEW n \in Numbers
      PROVE  slots'[c][n] = IF slots[c][n].op # Null THEN slots[c][n]
                            ELSE IF n <= cfg.active[c] THEN FreeSlot ELSE NoSlot
  BY Zenon DEF Configure, Numbers
<1>4. FreeSlot \in Slot /\ FreeSlot.op = Null /\ FreeSlot.present
  BY DEF FreeSlot, Slot
<1>5. NoSlot \in Slot /\ NoSlot.op = Null /\ ~NoSlot.present
  BY DEF NoSlot, Slot
<1>6. Types(ops, slots, held)
  BY Zenon DEF IInv, Held
<1>7. Types(ops', slots', held')
  <2>1. \A c \in Classes, n \in Numbers : slots'[c][n] \in Slot
    BY <1>3, <1>4, <1>5, <1>6, RowTypes, Zenon
  <2>2. slots' = [c \in Classes |-> [n \in Numbers |-> slots'[c][n]]]
    BY Zenon DEF Configure, Numbers
  <2> QED BY <2>1, <2>2, <1>1, <1>6, Zenon DEF Types
<1>8. Stops(ops, ops', {})
  BY <1>1, Zenon DEF Stops
<1>9. Vacates(slots, slots', {}, cfg)
  <2>1. ASSUME NEW c \in Classes, NEW n \in Numbers, slots[c][n].op \in Ops PROVE slots'[c][n] = slots[c][n]
    BY <2>1, <1>3, Facts, Zenon
  <2>2. ASSUME NEW c \in Classes, NEW n \in Numbers, slots[c][n].op \notin Ops
        PROVE  slots'[c][n].op = Null /\ (slots'[c][n].present <=> n <= cfg.active[c])
    <3>1. slots[c][n].op = Null
      BY <2>2, <1>6, RowTypes
    <3>2. CASE n <= cfg.active[c]
      BY <3>1, <3>2, <1>3, <1>4, Zenon
    <3>3. CASE ~(n <= cfg.active[c])
      BY <3>1, <3>3, <1>3, <1>5, Zenon
    <3> QED BY <3>2, <3>3, Zenon
  <2> QED BY <2>1, <2>2, Zenon DEF Vacates
<1>10. Held(ops', slots', config', held')
  BY <1>1, <1>7, <1>8, <1>9, ReleaseKeeps, Zenon DEF IInv
<1> QED BY <1>1, <1>2, <1>10, QuietStep, Zenon DEF Configure

LEMMA BindConfigsStep == ASSUME AdmissionConstants, IInv, BindConfigs PROVE IInv' /\ Kept
<1>1. Rest'
  BY Zenon DEF IInv, Rest, BindConfigs
<1>2. Kept
  BY QuietKept, Zenon DEF BindConfigs, Quiet
<1>3. Rows(ops, submissions, bound', purge.ids)
  <2>1. QueueFits(ops, bound')
    BY Zenon DEF IInv, Rows, QueueFits, BindConfigs
  <2> QED BY <2>1, Zenon DEF IInv, Rows
<1> QED BY <1>1, <1>2, <1>3, Zenon DEF IInv, BindConfigs

LEMMA DropStep == ASSUME AdmissionConstants, IInv, NEW w \in Workers, Drop(w) PROVE IInv' /\ Kept
<1>1. Rest' /\ ops' = ops /\ slots' = slots /\ config' = config /\ held' = [held EXCEPT ![w] = NoFence]
  BY Zenon DEF IInv, Rest, Drop
<1>2. Types(ops, slots, held)
  BY Zenon DEF IInv, Held
<1>3. Types(ops, slots, held') /\ \A v \in Workers : held'[v] \in {held[v], NoFence}
  BY <1>1, <1>2, Zenon DEF Types
<1>4. Held(ops, slots, config, held')
  BY <1>3, DropKeeps, Zenon DEF IInv
<1> QED BY <1>1, <1>4, QuietStep, Zenon DEF Quiet, Drop

\* One row is ended and its slots, if it has any, are released.
LEMMA EndOne ==
  ASSUME AdmissionConstants, IInv, NEW o \in Ops, ops[o].state \in {"queued", "running"},
         NEW e \in Row, e.state \in Terminal,
         e.class = ops[o].class, e.owner = ops[o].owner, e.key = ops[o].key,
         e.accepted = ops[o].accepted, e.gen = ops[o].gen,
         ops' = [ops EXCEPT ![o] = e], slots' = ReleaseSlots(slots, {o}),
         UNCHANGED <<clock, config, bound, written, submissions, held, replay, sweep, purge>>
  PROVE  IInv' /\ Kept
<1>1. ops \in [Ops -> Row] /\ Held(ops, slots, config, held) /\ config \in Configs
  BY Zenon DEF IInv, Held, Types, Rest
<1>2. ops' \in [Ops -> Row] /\ ops'[o] = e /\ \A p \in Ops \ {o} : ops'[p] = ops[p]
  BY <1>1, Zenon
<1>3. Ends(ops, ops', {o})
  BY <1>2, Zenon DEF Ends
<1>4. Held(ops', slots', config, held) /\ Quiet(ops, ops')
  BY <1>1, <1>2, <1>3, FinishKeeps, Zenon
<1>5. Rest'
  BY Zenon DEF IInv, Rest
<1> QED BY <1>4, <1>5, QuietStep, Zenon

LEMMA TerminalizeStep ==
  ASSUME AdmissionConstants, IInv, NEW w \in Workers, NEW state \in Outcomes, Terminalize(w, state)
  PROVE  IInv' /\ Kept
<1>1. PICK o \in {held[w].op} : TRUE
  BY Zenon
<1>2. PICK now \in Readings : ops' = [ops EXCEPT ![o] = Ended(ops[o], state, "host", now)]
  BY <1>1, Zenon DEF Terminalize
<1>3. o \in Ops /\ ops[o].state = "running"
  BY <1>1, RowTypes DEF Terminalize, FenceMatches, IInv, Held
<1>4. ops[o] \in Row /\ state \in Terminal /\ "host" \in Codes /\ now \in Int
  BY <1>3, ReadingsAreTimes DEF IInv, Held, Types, AdmissionConstants, Terminal, Codes
<1>5. PICK e \in {Ended(ops[o], state, "host", now)} : TRUE
  BY Zenon
<1>6. /\ e \in Row /\ e.state \in Terminal
      /\ e.class = ops[o].class /\ e.owner = ops[o].owner /\ e.key = ops[o].key
      /\ e.accepted = ops[o].accepted /\ e.gen = ops[o].gen
  BY <1>4, <1>5, EndedRow
<1>7. /\ ops' = [ops EXCEPT ![o] = e] /\ slots' = ReleaseSlots(slots, {o})
      /\ UNCHANGED <<clock, config, bound, written, submissions, held, replay, sweep, purge>>
  BY <1>1, <1>2, <1>5, Zenon DEF Terminalize
<1> QED BY <1>3, <1>6, <1>7, EndOne, Zenon

LEMMA CancelStep == ASSUME AdmissionConstants, IInv, NEW o \in Ops, Cancel(o) PROVE IInv' /\ Kept
<1>1. PICK now \in Readings :
       IF ops[o].state = "queued" \/ AllMarkers(o)
       THEN /\ ops' = [ops EXCEPT ![o] = Ended([ops[o] EXCEPT !.cancel = TRUE], "cancelled", "host", now)]
            /\ slots' = ReleaseSlots(slots, {o})
       ELSE /\ ops' = [ops EXCEPT ![o] = [ops[o] EXCEPT !.cancel = TRUE]]
            /\ UNCHANGED slots
  BY Zenon DEF Cancel
<1>2. /\ ops[o].state \in {"queued", "running"}
      /\ UNCHANGED <<clock, config, bound, written, submissions, held, replay, sweep, purge>>
  BY Zenon DEF Cancel
<1>3. ops \in [Ops -> Row] /\ Held(ops, slots, config, held) /\ Types(ops, slots, held)
  BY Zenon DEF IInv, Held, Types
<1>4. PICK row \in {[ops[o] EXCEPT !.cancel = TRUE]} : TRUE
  BY Zenon
<1>5. /\ row \in Row /\ row.state = ops[o].state
      /\ row.class = ops[o].class /\ row.owner = ops[o].owner /\ row.key = ops[o].key
      /\ row.accepted = ops[o].accepted /\ row.gen = ops[o].gen
  <2>1. ops[o] \in Row
    BY <1>3, Zenon
  <2> QED BY <2>1, <1>4, Zenon DEF Row
<1>6. CASE ops[o].state = "queued" \/ AllMarkers(o)
  <2>1. "cancelled" \in Terminal /\ "host" \in Codes /\ now \in Int
    BY ReadingsAreTimes DEF Terminal, Codes
  <2>2. PICK e \in {Ended(row, "cancelled", "host", now)} : TRUE
    BY Zenon
  <2>3. /\ e \in Row /\ e.state \in Terminal
        /\ e.class = row.class /\ e.owner = row.owner /\ e.key = row.key
        /\ e.accepted = row.accepted /\ e.gen = row.gen
    BY <2>1, <2>2, <1>5, EndedRow
  <2>4. ops' = [ops EXCEPT ![o] = e] /\ slots' = ReleaseSlots(slots, {o})
    BY <1>1, <1>4, <1>6, <2>2, Zenon
  <2> QED BY <1>2, <1>5, <2>3, <2>4, EndOne, Zenon
<1>7. CASE ~(ops[o].state = "queued" \/ AllMarkers(o))
  <2>1. ops[o].state = "running" /\ ~AllMarkers(o)
    BY <1>2, <1>7, Zenon
  <2>2. HoldsChain(o)
    BY <2>1, <1>3, ChainHeld DEF HoldsChain
  <2>3. ~Marked(slots, o)
    BY <2>1, <2>2, <1>3, MarkedWhole, Zenon DEF AllMarkers, Held
  <2>4. ops' \in [Ops -> Row] /\ ops'[o] = row /\ slots' = slots /\ \A p \in Ops \ {o} : ops'[p] = ops[p]
    BY <1>1, <1>3, <1>4, <1>5, <1>7, Zenon
  <2>5. Types(ops', slots, held)
    BY <2>4, <1>3, Zenon DEF Types
  <2>6. \A p \in Ops : /\ ops'[p].state = ops[p].state /\ ops'[p].class = ops[p].class
                       /\ ops'[p].gen = ops[p].gen
    BY <2>4, <1>5, Zenon
  <2>7. Held(ops', slots, config, held)
    BY <2>3, <2>4, <2>5, <2>6, <1>3, RequestKeeps
  <2>8. Quiet(ops, ops')
    BY <2>1, <2>4, <1>5, Zenon DEF Quiet
  <2>9. Rest'
    BY <1>2, Zenon DEF IInv, Rest
  <2> QED BY <2>4, <2>7, <2>8, <2>9, <1>2, QuietStep, Zenon
<1> QED BY <1>6, <1>7, Zenon

LEMMA TerminalizeUnselectedStep ==
  ASSUME AdmissionConstants, IInv, NEW o \in Ops, TerminalizeUnselected(o)
  PROVE  IInv' /\ Kept
<1>1. PICK now \in Readings : ops' = [ops EXCEPT ![o] = Ended(ops[o], "retryable", "host", now)]
  BY Zenon DEF TerminalizeUnselected
<1>2. /\ ops[o].state \in {"queued", "running"} /\ slots' = ReleaseSlots(slots, {o})
      /\ UNCHANGED <<clock, config, bound, written, submissions, held, replay, sweep, purge>>
  BY Zenon DEF TerminalizeUnselected
<1>3. ops[o] \in Row /\ "retryable" \in Terminal /\ "host" \in Codes /\ now \in Int
  BY ReadingsAreTimes DEF IInv, Held, Types, Terminal, Codes
<1>4. PICK e \in {Ended(ops[o], "retryable", "host", now)} : TRUE
  BY Zenon
<1>5. /\ e \in Row /\ e.state \in Terminal
      /\ e.class = ops[o].class /\ e.owner = ops[o].owner /\ e.key = ops[o].key
      /\ e.accepted = ops[o].accepted /\ e.gen = ops[o].gen
  BY <1>3, <1>4, EndedRow
<1>6. ops' = [ops EXCEPT ![o] = e]
  BY <1>1, <1>4, Zenon
<1> QED BY <1>2, <1>5, <1>6, EndOne, Zenon

LEMMA ExpireQueuedStepSound == ASSUME AdmissionConstants, IInv, ExpireQueuedStep PROVE IInv' /\ Kept
<1>1. PICK now \in Readings : ops' = ExpireQueued(ops, now)
  BY Zenon DEF ExpireQueuedStep
<1>2. UNCHANGED <<clock, config, bound, written, slots, submissions, held, replay, sweep, purge>>
  BY Zenon DEF ExpireQueuedStep
<1>3. ops \in [Ops -> Row] /\ Held(ops, slots, config, held) /\ config \in Configs
  BY Zenon DEF IInv, Held, Types, Rest
<1>4. now \in Int
  BY ReadingsAreTimes
<1>5. ops' \in [Ops -> Row] /\ Ends(ops, ops', {})
  BY <1>1, <1>3, <1>4, ExpireQueuedRows DEF Ends
<1>6. Held(ops', slots, config, held) /\ Quiet(ops, ops')
  BY <1>3, <1>5, FinishKeeps, Zenon
<1>7. Rest'
  BY <1>2, Zenon DEF IInv, Rest
<1> QED BY <1>2, <1>6, <1>7, QuietStep, Zenon

LEMMA OpenSweepStep == ASSUME AdmissionConstants, IInv, OpenSweep PROVE IInv' /\ Kept
<1>1. PICK now \in Readings : sweep' = [ids |-> LeaseOver(slots, now), now |-> now]
  BY Zenon DEF OpenSweep
<1>2. UNCHANGED <<clock, config, bound, written, ops, slots, submissions, held, replay, purge>>
  BY Zenon DEF OpenSweep
<1>3. sweep' \in [ids : SUBSET Ops, now : Int]
  BY <1>1, ReadingsAreTimes DEF LeaseOver
<1>4. Rest'
  BY <1>2, <1>3, Zenon DEF IInv, Rest
<1> QED BY <1>2, <1>4, QuietStep, Zenon DEF Quiet, IInv

LEMMA CloseSweepStep == ASSUME AdmissionConstants, IInv, CloseSweep PROVE IInv' /\ Kept
<1>1. PICK ids \in {Swept(sweep.ids, sweep.now)} : TRUE
  BY Zenon
<1>2. PICK now \in Int : now = sweep.now
  BY Zenon DEF IInv, Rest
<1>3. /\ ops' = ExpireLeases(ops, ids, now)
      /\ slots' = ReleaseSlots(slots, ids) \/ (ids = {} /\ slots' = slots)
      /\ sweep' = Idle
      /\ UNCHANGED <<clock, config, bound, written, submissions, held, replay, purge>>
  BY <1>1, <1>2, Zenon DEF CloseSweep
<1>4. ops \in [Ops -> Row] /\ Held(ops, slots, config, held) /\ config \in Configs
  BY Zenon DEF IInv, Held, Types, Rest
<1>5. ops' \in [Ops -> Row] /\ Ends(ops, ops', ids)
  BY <1>3, <1>4, ExpireLeasesRows DEF Ends
<1>6. Held(ops', slots', config, held) /\ Quiet(ops, ops')
  BY <1>3, <1>4, <1>5, FinishKeeps, Zenon
<1>7. Rest'
  <2>1. Idle \in [ids : SUBSET Ops, now : Int]
    BY DEF Idle
  <2> QED BY <2>1, <1>3, Zenon DEF IInv, Rest
<1> QED BY <1>3, <1>6, <1>7, QuietStep, Zenon

LEMMA NoSubmissionType == NoSubmission \in Submission /\ NoSubmission.status = "none" /\ NoSubmission.op = Null
BY DEF NoSubmission, Submission, Codes

LEMMA OpenPurgeStep == ASSUME AdmissionConstants, IInv, OpenPurge PROVE IInv' /\ Kept
<1>1. /\ UNCHANGED <<clock, config, bound, written, ops, slots, held, replay, sweep>>
      /\ \E now \in Readings, gone \in SUBSET SubmissionIds, ids \in SUBSET Ops :
           /\ submissions' = [s \in SubmissionIds |-> IF s \in gone THEN NoSubmission ELSE submissions[s]]
           /\ \A o \in ids : ops[o].state \in Terminal
           /\ purge' = IF ids = {} THEN Idle ELSE [ids |-> ids, now |-> now]
  <2>0. PICK now \in Readings :
          \E gone \in FirstDue([s \in SubmissionIds |-> submissions[s].purge], PurgeableSubmissions(now)) :
          LET subs == [s \in SubmissionIds |-> IF s \in gone THEN NoSubmission ELSE submissions[s]]
              left == {o \in Ops \ Locked : PurgeableOp(o, now) /\ ~Referenced(subs, o)}
          IN  \E ids \in FirstDue([o \in Ops |-> ops[o].purge], left) :
                /\ gone # {} \/ ids # {}
                /\ submissions' = subs
                /\ purge' = IF ids = {} THEN Idle ELSE [ids |-> ids, now |-> now]
    BY Zenon DEF OpenPurge
  <2>1. PICK gone \in FirstDue([s \in SubmissionIds |-> submissions[s].purge], PurgeableSubmissions(now)) :
          LET subs == [s \in SubmissionIds |-> IF s \in gone THEN NoSubmission ELSE submissions[s]]
              left == {o \in Ops \ Locked : PurgeableOp(o, now) /\ ~Referenced(subs, o)}
          IN  \E ids \in FirstDue([o \in Ops |-> ops[o].purge], left) :
                /\ gone # {} \/ ids # {}
                /\ submissions' = subs
                /\ purge' = IF ids = {} THEN Idle ELSE [ids |-> ids, now |-> now]
    BY <2>0, Zenon
  <2> DEFINE subs == [s \in SubmissionIds |-> IF s \in gone THEN NoSubmission ELSE submissions[s]]
             left == {o \in Ops \ Locked : PurgeableOp(o, now) /\ ~Referenced(subs, o)}
  <2>2. PICK ids \in FirstDue([o \in Ops |-> ops[o].purge], left) :
          submissions' = subs /\ purge' = IF ids = {} THEN Idle ELSE [ids |-> ids, now |-> now]
    BY <2>1, Zenon
  <2>3. ids \subseteq left /\ gone \subseteq SubmissionIds
    BY Zenon DEF FirstDue, PurgeableSubmissions
  <2>4. ids \in SUBSET Ops /\ \A o \in ids : ops[o].state \in Terminal
    BY <2>3, Zenon DEF PurgeableOp
  <2>5. UNCHANGED <<clock, config, bound, written, ops, slots, held, replay, sweep>>
    BY Zenon DEF OpenPurge
  <2> QED BY <2>2, <2>3, <2>4, <2>5, Zenon
<1>2. PICK now \in Readings, gone \in SUBSET SubmissionIds, ids \in SUBSET Ops :
           /\ submissions' = [s \in SubmissionIds |-> IF s \in gone THEN NoSubmission ELSE submissions[s]]
           /\ \A o \in ids : ops[o].state \in Terminal
           /\ purge' = IF ids = {} THEN Idle ELSE [ids |-> ids, now |-> now]
  BY <1>1, Zenon
<1>3. \A s \in SubmissionIds : submissions'[s] = submissions[s] \/ submissions'[s] = NoSubmission
  BY <1>2, Zenon
<1>4. submissions' \in [SubmissionIds -> Submission]
  BY <1>2, NoSubmissionType, Zenon DEF IInv, Rest
<1>5. purge' \in [ids : SUBSET Ops, now : Int] /\ \A o \in purge'.ids : ops[o].state \in Terminal
  <2>1. Idle \in [ids : SUBSET Ops, now : Int] /\ Idle.ids = {}
    BY DEF Idle
  <2>2. now \in Int
    BY ReadingsAreTimes
  <2> QED BY <2>1, <2>2, <1>2, Zenon
<1>6. Rest'
  <2>1. \A s \in SubmissionIds : submissions'[s].status # "accepted" => submissions'[s].op = Null
    BY <1>3, NoSubmissionType DEF IInv, Rest
  <2>2. replay # Null => submissions'[replay.submission].status = "none"
    <3>1. ASSUME replay # Null PROVE replay.submission \in SubmissionIds
      BY <3>1, Zenon DEF IInv, Rest, AdmissionConstants, Request
    <3> QED BY <3>1, <1>3, NoSubmissionType, Zenon DEF IInv, Rest
  <2> QED BY <2>1, <2>2, <1>1, <1>4, <1>5, Zenon DEF IInv, Rest
<1>7. Rows(ops, submissions', bound, purge'.ids)
  <2>1. Answered(ops, submissions')
    BY <1>3, NoSubmissionType, Zenon DEF IInv, Rows, Answered
  <2> QED BY <2>1, <1>5, Zenon DEF IInv, Rows
<1>8. Kept
  <2>1. OutcomesKept /\ StartsInOrder
    BY <1>1, Zenon DEF OutcomesKept, StartsInOrder
  <2>2. ResultsKept
    BY <1>3, Zenon DEF ResultsKept
  <2> QED BY <2>1, <2>2, Zenon DEF Kept
<1> QED BY <1>1, <1>6, <1>7, <1>8, Zenon DEF IInv

LEMMA ClosePurgeStep == ASSUME AdmissionConstants, IInv, ClosePurge PROVE IInv' /\ Kept
<1>1. PICK gone \in {{o \in purge.ids : ~Referenced(submissions, o)}} : TRUE
  BY Zenon
<1>2. /\ ops' = [o \in Ops |->
                   IF o \in gone THEN [ops[o] EXCEPT !.state = "purged"]
                   ELSE IF ops[o].parent \in gone THEN [ops[o] EXCEPT !.parent = Null] ELSE ops[o]]
      /\ submissions' = [s \in SubmissionIds |->
                           IF submissions[s].op \in gone THEN [submissions[s] EXCEPT !.op = Null]
                           ELSE submissions[s]]
      /\ purge' = Idle
      /\ UNCHANGED <<clock, config, bound, written, slots, held, replay, sweep>>
  BY <1>1, Zenon DEF ClosePurge
<1>3. gone \subseteq Ops /\ \A o \in gone : ops[o].state \in Terminal /\ ~Referenced(submissions, o)
  BY <1>1, Zenon DEF IInv, Rest, Rows
<1>4. ops \in [Ops -> Row] /\ Types(ops, slots, held) /\ Held(ops, slots, config, held)
  BY Zenon DEF IInv, Held, Types
<1>5. submissions \in [SubmissionIds -> Submission] /\ Null \notin gone
  BY <1>3, Facts, Zenon DEF IInv, Rest
<1>6. submissions' = submissions
  <2>1. ASSUME NEW s \in SubmissionIds PROVE submissions[s].op \notin gone
    BY <1>3, <1>5, Zenon DEF IInv, Rest, Referenced
  <2> QED BY <2>1, <1>2, <1>5, Zenon
<1>7. ASSUME NEW o \in Ops
      PROVE  /\ ops'[o] \in Row
             /\ ops'[o].class = ops[o].class /\ ops'[o].owner = ops[o].owner /\ ops'[o].key = ops[o].key
             /\ ops'[o].accepted = ops[o].accepted /\ ops'[o].gen = ops[o].gen /\ ops'[o].cancel = ops[o].cancel
             /\ ops'[o].state = IF o \in gone THEN "purged" ELSE ops[o].state
             /\ o \notin gone => [ops'[o] EXCEPT !.parent = Null] = [ops[o] EXCEPT !.parent = Null]
  <2>1. ops[o] \in Row
    BY <1>4, Zenon
  <2>2. CASE o \in gone
    <3>1. ops'[o] = [ops[o] EXCEPT !.state = "purged"]
      BY <1>2, <2>2, Zenon
    <3> QED BY <2>1, <2>2, <3>1, Zenon DEF Row
  <2>3. CASE o \notin gone /\ ops[o].parent \in gone
    <3>1. ops'[o] = [ops[o] EXCEPT !.parent = Null]
      BY <1>2, <2>3, Zenon
    <3> QED BY <2>1, <2>3, <3>1, Zenon DEF Row
  <2>4. CASE o \notin gone /\ ops[o].parent \notin gone
    <3>1. ops'[o] = ops[o]
      BY <1>2, <2>4, Zenon
    <3> QED BY <2>1, <2>4, <3>1, Zenon DEF Row
  <2> QED BY <2>2, <2>3, <2>4, Zenon
<1>8. Types(ops', slots, held)
  <2>1. ops' \in [Ops -> Row]
    BY <1>2, <1>7, Zenon
  <2> QED BY <2>1, <1>4, Zenon DEF Types
<1>9. Stops(ops, ops', {})
  BY <1>3, <1>7, Zenon DEF Stops, Terminal
<1>10. Vacates(slots, slots, {}, config)
  <2>1. ASSUME NEW c \in Classes, NEW n \in Numbers, slots[c][n].op \notin Ops
        PROVE  slots[c][n].op = Null /\ (slots[c][n].present <=> n <= config.active[c])
    <3>1. slots[c][n].op = Null
      BY <2>1, <1>4, RowTypes
    <3> QED BY <3>1, <1>4, Zenon DEF Held, Table
  <2> QED BY <2>1, Zenon DEF Vacates
<1>11. Held(ops', slots, config, held)
  BY <1>4, <1>8, <1>9, <1>10, ReleaseKeeps, Zenon
<1>12. Idle \in [ids : SUBSET Ops, now : Int] /\ Idle.ids = {}
  BY DEF Idle
<1>13. Rest'
  BY <1>2, <1>6, <1>12, Zenon DEF IInv, Rest
<1>14. Rows(ops', submissions, bound, {})
  <2>1. Ages(ops, ops')
    BY <1>7, Zenon DEF Ages
  <2>2. /\ QueueFits(ops', bound) /\ VoiceFits(ops') /\ KeysDiffer(ops')
        /\ \A o \in Ops : ops'[o].accepted \in Nat
    BY <2>1, AgesKeeps, Zenon DEF IInv, Rows, Rest
  <2>3. Answered(ops', submissions)
    <3>1. ASSUME NEW s \in SubmissionIds, submissions[s].status = "accepted"
          PROVE  submissions[s].op \in Ops /\ Live(ops'[submissions[s].op])
      <4>1. submissions[s].op \in Ops /\ Live(ops[submissions[s].op])
        BY <3>1, Zenon DEF IInv, Rows, Answered
      <4>2. submissions[s].op \notin gone
        BY <3>1, <1>3, Zenon DEF Referenced
      <4> QED BY <4>1, <4>2, <1>7, Zenon DEF Live
    <3> QED BY <3>1, Zenon DEF Answered
  <2> QED BY <2>2, <2>3, Zenon DEF Rows
<1>15. Kept
  <2>1. OutcomesKept
    BY <1>7, Zenon DEF OutcomesKept
  <2>2. ResultsKept
    BY <1>6, Zenon DEF ResultsKept
  <2>3. StartsInOrder
    BY <1>7, Zenon DEF StartsInOrder
  <2> QED BY <2>1, <2>2, <2>3, Zenon DEF Kept
<1> QED BY <1>2, <1>6, <1>11, <1>12, <1>13, <1>14, <1>15, Zenon DEF IInv

LEMMA OpenReplayStep ==
  ASSUME AdmissionConstants, IInv, NEW r \in Requests, OpenReplay(r) PROVE IInv' /\ Kept
<1>1. Rest'
  BY Zenon DEF IInv, Rest, OpenReplay
<1>2. Quiet(ops, ops')
  BY Zenon DEF OpenReplay, Quiet
<1> QED BY <1>1, <1>2, QuietStep, Zenon DEF IInv, OpenReplay

\* What recording a result changes.
LEMMA RecordedResult ==
  ASSUME AdmissionConstants, submissions \in [SubmissionIds -> Submission],
         NEW r \in Requests, NEW status \in {"accepted", "refused"}, NEW o \in Ops \cup {Null},
         NEW code \in Codes, NEW now \in Int, Recorded(r, status, o, code, now)
  PROVE  /\ r.submission \in SubmissionIds /\ submissions' \in [SubmissionIds -> Submission]
         /\ submissions'[r.submission].status = status /\ submissions'[r.submission].op = o
         /\ \A s \in SubmissionIds \ {r.submission} : submissions'[s] = submissions[s]
<1>1. r.submission \in SubmissionIds
  BY Zenon DEF AdmissionConstants, Request
<1>2. PICK new \in {[status |-> status, op |-> o, code |-> code, purge |-> now + Retention]} : TRUE
  BY Zenon
<1>3. new \in Submission /\ new.status = status /\ new.op = o
  <2>1. now + Retention \in Int
    BY DEF AdmissionConstants
  <2> QED BY <2>1, <1>2 DEF Submission
<1>4. submissions' = [submissions EXCEPT ![r.submission] = new]
  BY <1>2, Zenon DEF Recorded
<1> QED BY <1>1, <1>3, <1>4, Zenon

LEMMA CloseReplayStep == ASSUME AdmissionConstants, IInv, CloseReplay PROVE IInv' /\ Kept
<1>1. PICK r \in Requests : r = replay
  BY Zenon DEF IInv, Rest, CloseReplay
<1>2. PICK now \in Readings, o \in KeyHolders(r) :
       IF ops[o].class = r.class /\ ops[o].input = r.input
       THEN Recorded(r, "accepted", o, "", now)
       ELSE Recorded(r, "refused", Null, "idempotency_conflict", now)
  BY <1>1, Zenon DEF CloseReplay
<1>3. replay' = Null /\ UNCHANGED <<clock, config, bound, written, ops, slots, held, sweep, purge>>
  BY Zenon DEF CloseReplay
<1>4. o \in Ops /\ Live(ops[o]) /\ now \in Int /\ "" \in Codes /\ "idempotency_conflict" \in Codes
  BY ReadingsAreTimes DEF KeyHolders, Live, Codes
<1>5. submissions \in [SubmissionIds -> Submission] /\ submissions[r.submission].status = "none"
  BY <1>1, Zenon DEF IInv, Rest, CloseReplay
<1>6. /\ r.submission \in SubmissionIds /\ submissions' \in [SubmissionIds -> Submission]
      /\ \/ submissions'[r.submission].status = "accepted" /\ submissions'[r.submission].op = o
         \/ submissions'[r.submission].status = "refused" /\ submissions'[r.submission].op = Null
      /\ \A s \in SubmissionIds \ {r.submission} : submissions'[s] = submissions[s]
  <2>1. CASE Recorded(r, "accepted", o, "", now)
    BY <2>1, <1>4, <1>5, RecordedResult, Zenon
  <2>2. CASE Recorded(r, "refused", Null, "idempotency_conflict", now)
    BY <2>2, <1>4, <1>5, RecordedResult, Zenon
  <2> QED BY <1>2, <2>1, <2>2, Zenon
<1>7. Rest'
  <2>1. \A s \in SubmissionIds : submissions'[s].status # "accepted" => submissions'[s].op = Null
    BY <1>6, Zenon DEF IInv, Rest
  <2> QED BY <2>1, <1>3, <1>6, Zenon DEF IInv, Rest
<1>8. Rows(ops, submissions', bound, purge.ids)
  <2>1. Answered(ops, submissions')
    BY <1>4, <1>6, Zenon DEF IInv, Rows, Answered
  <2> QED BY <2>1, Zenon DEF IInv, Rows
<1>9. Kept
  <2>1. OutcomesKept /\ StartsInOrder
    BY <1>3, Zenon DEF OutcomesKept, StartsInOrder
  <2>2. ResultsKept
    BY <1>5, <1>6, Zenon DEF ResultsKept
  <2> QED BY <2>1, <2>2, Zenon DEF Kept
<1> QED BY <1>3, <1>7, <1>8, <1>9, Zenon DEF IInv

LEMMA RenewStep ==
  ASSUME AdmissionConstants, IInv, NEW w \in Workers, RenewExecutionLease(w) PROVE IInv' /\ Kept
<1>1. PICK o \in {held[w].op} : TRUE
  BY Zenon
<1>2. PICK now \in Readings : slots' = Restamped(slots, SlotsOf(slots, o), "common", now + SlotLease)
  BY <1>1, Zenon DEF RenewExecutionLease
<1>3. UNCHANGED <<clock, config, bound, written, ops, submissions, held, replay, sweep, purge>>
  BY Zenon DEF RenewExecutionLease
<1>4. o \in Ops /\ ops[o].state = "running"
  BY <1>1, RowTypes DEF RenewExecutionLease, FenceMatches, IInv, Held
<1>5. PICK expires \in Int : expires = now + SlotLease
  BY ReadingsAreTimes DEF AdmissionConstants
<1>6. Types(ops, slots, held) /\ ops[o].gen \in Nat
  BY <1>4, RowTypes, Zenon DEF IInv, Held
<1>7. Types(ops, slots', held)
  BY <1>2, <1>5, <1>6, RestampedType, Zenon DEF Types
<1>8. Held(ops, slots', config, held)
  <2>1. Continues(ops, ops, o)
    BY <1>4, <1>6 DEF Continues
  <2> QED BY <2>1, <1>2, <1>4, <1>5, <1>7, RestampKeeps, Zenon DEF IInv
<1>9. Rest'
  BY <1>3, Zenon DEF IInv, Rest
<1> QED BY <1>3, <1>8, <1>9, QuietStep, Zenon DEF Quiet

LEMMA ReselectStep ==
  ASSUME AdmissionConstants, IInv, NEW w \in Workers, NEW v \in Workers, ReselectExecution(w, v)
  PROVE  IInv' /\ Kept
<1>1. PICK o \in {held[w].op} : TRUE
  BY Zenon
<1>2. PICK now \in Readings : slots' = Restamped(slots, SlotsOf(slots, o), "common", now + SlotLease)
  BY <1>1, Zenon DEF ReselectExecution
<1>3. /\ UNCHANGED <<clock, config, bound, written, submissions, replay, sweep, purge>>
      /\ ops' = [ops EXCEPT ![o] = [ops[o] EXCEPT !.gen = ops[o].gen + 1]]
      /\ held' = [held EXCEPT ![v] = [op |-> o, gen |-> ops[o].gen + 1]]
  BY <1>1, Zenon DEF ReselectExecution
<1>4. o \in Ops /\ ops[o].state = "running"
  BY <1>1, RowTypes DEF ReselectExecution, FenceMatches, IInv, Held
<1>5. PICK expires \in Int : expires = now + SlotLease
  BY ReadingsAreTimes DEF AdmissionConstants
<1>6. Types(ops, slots, held) /\ ops[o] \in Row /\ ops[o].gen \in Nat
  BY <1>4, RowTypes, Zenon DEF IInv, Held, Types
<1>7. PICK row \in {[ops[o] EXCEPT !.gen = ops[o].gen + 1]} : TRUE
  BY Zenon
<1>8. /\ row \in Row /\ row.state = ops[o].state /\ row.class = ops[o].class /\ row.cancel = ops[o].cancel
      /\ row.owner = ops[o].owner /\ row.key = ops[o].key /\ row.accepted = ops[o].accepted
      /\ row.gen = ops[o].gen + 1
  BY <1>6, <1>7 DEF Row
<1>9. ops' \in [Ops -> Row] /\ ops'[o] = row /\ \A p \in Ops \ {o} : ops'[p] = ops[p]
  BY <1>3, <1>4, <1>6, <1>7, <1>8, Zenon DEF Types
<1>10. PICK f \in Fence : f = [op |-> o, gen |-> ops[o].gen + 1]
  <2>1. ops[o].gen + 1 \in Nat
    BY <1>6
  <2>2. [op |-> o, gen |-> ops[o].gen + 1] \in Fence
    BY <2>1, <1>4, Zenon DEF Fence
  <2> QED BY <2>2, Zenon
<1>11. held' \in [Workers -> Fence \cup {NoFence}] /\ held'[v] = f /\ \A u \in Workers \ {v} : held'[u] = held[u]
  BY <1>3, <1>6, <1>10, Zenon DEF Types
<1>12. held'[v] = [op |-> o, gen |-> ops'[o].gen]
  BY <1>8, <1>9, <1>10, <1>11, Zenon
<1>13. Types(ops', slots', held')
  BY <1>2, <1>5, <1>6, <1>9, <1>11, RestampedType, Zenon DEF Types
<1>14. Continues(ops, ops', o) /\ ops[o].gen < ops'[o].gen
  BY <1>4, <1>6, <1>8, <1>9 DEF Continues
<1>15. Held(ops', slots', config, held')
  <2>1. HandedTo(v, o, ops', held, held')
    BY <1>11, <1>12, Zenon DEF HandedTo
  <2> QED BY <2>1, <1>2, <1>4, <1>5, <1>13, <1>14, RestampKeeps, Zenon DEF IInv
<1>16. Quiet(ops, ops')
  BY <1>4, <1>8, <1>9, Zenon DEF Quiet
<1>17. Rest'
  BY <1>3, Zenon DEF IInv, Rest
<1> QED BY <1>3, <1>15, <1>16, <1>17, QuietStep, Zenon

\* The three ends of a claim, after the sweeps.  rs and sl are the swept table.
LEMMA ClaimNothing ==
  ASSUME AdmissionConstants, IInv, NEW now \in Readings,
         ops' = SweptOps(now), slots' = SweptSlots(now), held' = held,
         UNCHANGED <<clock, config, bound, written, submissions, replay, sweep, purge>>
  PROVE  IInv' /\ Kept
<1>1. now \in Int
  BY ReadingsAreTimes
<1>2. Held(ops', slots', config, held) /\ Quiet(ops, ops')
  BY <1>1, SweepKeeps, Zenon
<1>3. Rest'
  BY Zenon DEF IInv, Rest
<1> QED BY <1>2, <1>3, QuietStep, Zenon

LEMMA PreselectedClaimed ==
  ASSUME AdmissionConstants, IInv, NEW now \in Readings, NEW rs, NEW sl, rs = SweptOps(now), sl = SweptSlots(now),
         NEW w \in Workers, NEW c, NEW o \in Preselected(rs, sl, c),
         ClaimPreselected(w, rs, sl, o, now),
         UNCHANGED <<clock, config, bound, written, submissions, replay, sweep, purge>>
  PROVE  IInv' /\ Kept
<1>1. Held(rs, sl, config, held) /\ Quiet(ops, rs)
  BY ReadingsAreTimes, SweepKeeps
<1>2. o \in Ops /\ rs[o].state = "running" /\ MarkerSlots(sl, o) # {}
  BY Zenon DEF Preselected, InState
<1>3. Marked(sl, o)
  BY <1>2, MarkerPairs DEF Marked
<1>4. MarkerSlots(sl, o) = SlotsOf(sl, o)
  BY <1>1, <1>2, <1>3, MarkedWhole, Zenon DEF Held
<1>5. PICK expires \in Int : expires = now + SlotLease
  BY ReadingsAreTimes DEF AdmissionConstants
<1>6. /\ ops' = rs /\ slots' = Restamped(sl, SlotsOf(sl, o), "common", expires)
      /\ held' = [held EXCEPT ![w] = [op |-> o, gen |-> rs[o].gen]]
  BY <1>4, <1>5, Zenon DEF ClaimPreselected
<1>7. Types(rs, sl, held) /\ rs[o].gen \in Nat
  BY <1>1, <1>2, RowTypes, Zenon DEF Held
<1>8. PICK f \in Fence : f = [op |-> o, gen |-> rs[o].gen]
  <2>1. [op |-> o, gen |-> rs[o].gen] \in Fence
    BY <1>2, <1>7, Zenon DEF Fence
  <2> QED BY <2>1, Zenon
<1>9. held' \in [Workers -> Fence \cup {NoFence}] /\ HandedTo(w, o, rs, held, held')
  BY <1>6, <1>7, <1>8, Zenon DEF Types, HandedTo
<1>10. Types(rs, slots', held')
  BY <1>5, <1>6, <1>7, <1>9, RestampedType, Zenon DEF Types
<1>11. Continues(rs, rs, o)
  BY <1>2, <1>7 DEF Continues
<1>12. Held(rs, slots', config, held')
  BY <1>1, <1>2, <1>3, <1>5, <1>6, <1>9, <1>10, <1>11, RestampKeeps, Zenon
<1>13. Rest'
  BY Zenon DEF IInv, Rest
<1> QED BY <1>1, <1>6, <1>12, <1>13, QuietStep, Zenon

\* o is before every other waiting operation of its class that nobody has locked.
Oldest(rs, o) ==
  \A p \in Ops \ {o} : rs[p].state = "queued" /\ rs[p].class = rs[o].class /\ p \notin Locked => Before(rs, o, p)

LEMMA QueuedClaimed ==
  ASSUME AdmissionConstants, IInv, NEW now \in Readings, NEW rs, NEW sl, rs = SweptOps(now), sl = SweptSlots(now),
         NEW w \in Workers, NEW cfg, NEW o \in Ops, rs[o].state = "queued", Oldest(rs, o),
         ClaimQueued(w, cfg, rs, sl, o, now),
         UNCHANGED <<clock, config, bound, written, submissions, replay, sweep, purge>>
  PROVE  IInv' /\ Kept
<1>1. Held(rs, sl, config, held) /\ Quiet(ops, rs) /\ Rows(rs, submissions, bound, purge.ids)
  BY ReadingsAreTimes, SweepKeeps
<1>2. CASE ~SlotsFree(sl, cfg, rs[o].class)
  BY <1>2, ClaimNothing, Zenon DEF ClaimQueued
<1>3. CASE SlotsFree(sl, cfg, rs[o].class)
  <2>1. PICK row \in {[rs[o] EXCEPT !.state = "running", !.gen = rs[o].gen + 1]} : TRUE
    BY Zenon
  <2>2. Types(rs, sl, held) /\ rs[o] \in Row /\ rs[o].gen \in Nat /\ rs[o].class \in Classes
    BY <1>1, RowTypes, Zenon DEF Held, Types
  <2>3. /\ row \in Row /\ row.state = "running" /\ row.gen = rs[o].gen + 1
        /\ row.class = rs[o].class /\ row.owner = rs[o].owner /\ row.key = rs[o].key /\ row.accepted = rs[o].accepted
    <3>1. PICK g \in Nat : g = rs[o].gen + 1
      BY <2>2
    <3>2. PICK r1 \in Row : r1 = [rs[o] EXCEPT !.gen = g]
      <4>1. [rs[o] EXCEPT !.gen = g] \in Row
        BY <2>2, Zenon DEF Row
      <4> QED BY <4>1, Zenon
    <3>3. /\ r1.gen = g /\ r1.class = rs[o].class /\ r1.owner = rs[o].owner /\ r1.key = rs[o].key
          /\ r1.accepted = rs[o].accepted
      BY <3>2, <2>2, Zenon DEF Row
    <3>4. row = [r1 EXCEPT !.state = "running"]
      BY <2>1, <2>2, <3>1, <3>2, Zenon DEF Row
    <3>5. /\ row \in Row /\ row.state = "running" /\ row.gen = r1.gen
          /\ row.class = r1.class /\ row.owner = r1.owner /\ row.key = r1.key /\ row.accepted = r1.accepted
      BY <3>4, Zenon DEF Row
    <3> QED BY <3>1, <3>3, <3>5, Zenon
  <2>4. PICK expires \in Int : expires = now + SlotLease
    BY ReadingsAreTimes DEF AdmissionConstants
  <2>5. /\ ops' = [rs EXCEPT ![o] = row] /\ slots' = Occupied(sl, cfg, rs[o].class, o, "own", expires)
        /\ held' = [held EXCEPT ![w] = [op |-> o, gen |-> rs[o].gen + 1]]
    BY <1>3, <2>1, <2>4, Zenon DEF ClaimQueued
  <2>6. ops' \in [Ops -> Row] /\ ops'[o] = row /\ \A p \in Ops \ {o} : ops'[p] = rs[p]
    BY <2>2, <2>3, <2>5, Zenon DEF Types
  <2>7. PICK f \in Fence : f = [op |-> o, gen |-> rs[o].gen + 1]
    <3>1. rs[o].gen + 1 \in Nat
      BY <2>2
    <3>2. [op |-> o, gen |-> rs[o].gen + 1] \in Fence
      BY <3>1, Zenon DEF Fence
    <3> QED BY <3>2, Zenon
  <2>8. held' \in [Workers -> Fence \cup {NoFence}] /\ held'[w] = f /\ \A v \in Workers \ {w} : held'[v] = held[v]
    BY <2>2, <2>5, <2>7, Zenon DEF Types
  <2>9. HandedTo(w, o, ops', held, held')
    <3>1. ops'[o].gen = rs[o].gen + 1
      BY <2>3, <2>6, Zenon
    <3> QED BY <3>1, <2>7, <2>8, Zenon DEF HandedTo
  <2>10. slots' \in [Classes -> [Numbers -> Slot]]
    BY <1>3, <2>2, <2>5, OccupiedType, Zenon DEF Types
  <2>11. Types(ops', slots', held')
    BY <2>6, <2>8, <2>10, Zenon DEF Types
  <2>12. Starts(rs, ops', o)
    BY <2>2, <2>3, <2>6 DEF Starts
  <2>13. ops'[o].class = rs[o].class
    BY <2>3, <2>6, Zenon
  <2>14. Held(ops', slots', config, held')
    <3>1. SlotsFree(sl, cfg, ops'[o].class) /\ slots' = Occupied(sl, cfg, ops'[o].class, o, "own", expires)
      BY <1>3, <2>5, <2>13, Zenon
    <3>2. "own" # "marker"
      BY Zenon
    <3> QED BY <3>1, <3>2, <1>1, <2>9, <2>11, <2>12, StartKeeps, Zenon
  <2>15. Rows(ops', submissions, bound, purge.ids)
    <3>1. bound \in SUBSET Configs /\ purge.ids \in SUBSET Ops
      BY Zenon DEF IInv, Rest
    <3> QED BY <3>1, <1>1, <2>2, <2>3, <2>6, <2>12, StartedRows, Zenon
  <2>16. Rest'
    BY Zenon DEF IInv, Rest
  <2>17. Kept
    <3>1. OutcomesKept
      BY <1>1, <2>6 DEF OutcomesKept, Quiet, Terminal
    <3>2. ResultsKept
      BY Zenon DEF ResultsKept
    <3>3. StartsInOrder
      <4>1. SUFFICES ASSUME NEW x \in Ops, NEW p \in Ops, ops[x].state = "queued", ops'[x].state = "running",
                            ops'[p].state = "queued", ops[p].class = ops[x].class, p \notin Locked
                     PROVE  ~Before(ops, p, x)
        BY Zenon DEF StartsInOrder
      <4>2. x = o
        BY <4>1, <1>1, <2>6 DEF Quiet, Terminal
      <4>3. p # o /\ rs[p].state = "queued" /\ rs[p].class = rs[o].class
        <5>1. p # o
          BY <4>1, <2>3, <2>6, Zenon
        <5>2. rs[p].state = "queued"
          BY <4>1, <5>1, <2>6, Zenon
        <5>3. rs[p].class = ops[p].class /\ rs[o].class = ops[o].class
          BY <1>1, Zenon DEF Quiet
        <5> QED BY <5>1, <5>2, <5>3, <4>1, <4>2, Zenon
      <4>4. Before(rs, o, p)
        BY <4>1, <4>3, Zenon DEF Oldest
      <4>5. rs[o].accepted = ops[o].accepted /\ rs[p].accepted = ops[p].accepted
        BY <1>1, Zenon DEF Quiet
      <4>6. ops[o].accepted \in Nat /\ ops[p].accepted \in Nat /\ o \in Nat /\ p \in Nat
        BY Facts, Zenon DEF IInv, Rows
      <4> QED BY <4>2, <4>3, <4>4, <4>5, <4>6 DEF Before
    <3> QED BY <3>1, <3>2, <3>3, Zenon DEF Kept
  <2> QED BY <2>14, <2>15, <2>16, <2>17, Zenon DEF IInv
<1> QED BY <1>2, <1>3, Zenon

LEMMA ClaimNextStep ==
  ASSUME AdmissionConstants, IInv, NEW w \in Workers, NEW c \in Classes, NEW cfg \in bound, ClaimNext(w, c, cfg)
  PROVE  IInv' /\ Kept
<1>1. PICK now \in Readings :
       LET rs    == SweptOps(now)
           sl    == SweptSlots(now)
           ready == Preselected(rs, sl, c) \ Locked
           queue == InState(rs, c, "queued") \ Locked
       IN  /\ SweepsFree(now)
           /\ CASE ready # {} -> ClaimPreselected(w, rs, sl, First(rs, ready), now)
                [] ready = {} /\ queue # {} -> ClaimQueued(w, cfg, rs, sl, First(rs, queue), now)
                [] OTHER -> ops' = rs /\ slots' = sl /\ UNCHANGED held
  BY Zenon DEF ClaimNext
<1>2. PICK rs \in {SweptOps(now)}, sl \in {SweptSlots(now)} : TRUE
  BY Zenon
<1>3. PICK ready \in {Preselected(rs, sl, c) \ Locked}, queue \in {InState(rs, c, "queued") \ Locked} : TRUE
  BY Zenon
<1>4. \/ ready # {} /\ ClaimPreselected(w, rs, sl, First(rs, ready), now)
      \/ queue # {} /\ ClaimQueued(w, cfg, rs, sl, First(rs, queue), now)
      \/ ops' = rs /\ slots' = sl /\ held' = held
  BY <1>1, <1>2, <1>3, Zenon
<1>5. UNCHANGED <<clock, config, bound, written, submissions, replay, sweep, purge>>
  BY Zenon DEF ClaimNext
<1>6. \A o \in Ops : rs[o].accepted \in Nat
  BY <1>2, ReadingsAreTimes, SweepKeeps DEF Rows
<1>7. CASE ready # {} /\ ClaimPreselected(w, rs, sl, First(rs, ready), now)
  <2>1. ready \in SUBSET Ops
    BY <1>3, Zenon DEF Preselected, InState
  <2>2. First(rs, ready) \in Preselected(rs, sl, c)
    BY <1>3, <1>6, <1>7, <2>1, FirstIsLeast, Zenon
  <2> QED BY <1>2, <1>5, <1>7, <2>2, PreselectedClaimed, Zenon
<1>8. CASE queue # {} /\ ClaimQueued(w, cfg, rs, sl, First(rs, queue), now)
  <2>1. queue \in SUBSET Ops
    BY <1>3 DEF InState
  <2>2. PICK o \in queue : o = First(rs, queue) /\ \A p \in queue \ {o} : Before(rs, o, p)
    BY <1>6, <1>8, <2>1, FirstIsLeast, Zenon
  <2>3. o \in Ops /\ rs[o].state = "queued" /\ rs[o].class = c
    BY <1>3, Zenon DEF InState
  <2>4. Oldest(rs, o)
    BY <1>3, <2>2, <2>3 DEF Oldest, InState
  <2> QED BY <1>2, <1>5, <1>8, <2>2, <2>3, <2>4, QueuedClaimed, Zenon
<1>9. CASE ops' = rs /\ slots' = sl /\ held' = held
  BY <1>2, <1>5, <1>9, ClaimNothing, Zenon
<1> QED BY <1>4, <1>7, <1>8, <1>9, Zenon

LEMMA ClaimOperationStep ==
  ASSUME AdmissionConstants, IInv, NEW w \in Workers, NEW o \in Ops, NEW cfg \in bound, ClaimOperation(w, o, cfg)
  PROVE  IInv' /\ Kept
<1>1. PICK now \in Readings :
       LET rs    == SweptOps(now)
           sl    == SweptSlots(now)
           c     == ops[o].class
           queue == InState(rs, c, "queued")
       IN  /\ SweepsFree(now)
           /\ CASE o \in Preselected(rs, sl, c) -> ClaimPreselected(w, rs, sl, o, now)
                [] o \in queue /\ o = First(rs, queue) -> ClaimQueued(w, cfg, rs, sl, o, now)
                [] OTHER -> ops' = rs /\ slots' = sl /\ UNCHANGED held
  BY Zenon DEF ClaimOperation
<1>2. PICK rs \in {SweptOps(now)}, sl \in {SweptSlots(now)} : TRUE
  BY Zenon
<1>3. PICK c \in {ops[o].class}, queue \in {InState(rs, ops[o].class, "queued")} : TRUE
  BY Zenon
<1>4. \/ o \in Preselected(rs, sl, c) /\ ClaimPreselected(w, rs, sl, o, now)
      \/ o \in queue /\ o = First(rs, queue) /\ ClaimQueued(w, cfg, rs, sl, o, now)
      \/ ops' = rs /\ slots' = sl /\ held' = held
  BY <1>1, <1>2, <1>3, Zenon
<1>5. UNCHANGED <<clock, config, bound, written, submissions, replay, sweep, purge>>
  BY Zenon DEF ClaimOperation
<1>6. \A p \in Ops : rs[p].accepted \in Nat
  BY <1>2, ReadingsAreTimes, SweepKeeps DEF Rows
<1>7. CASE o \in Preselected(rs, sl, c) /\ ClaimPreselected(w, rs, sl, o, now)
  BY <1>2, <1>5, <1>7, PreselectedClaimed, Zenon
<1>8. CASE o \in queue /\ o = First(rs, queue) /\ ClaimQueued(w, cfg, rs, sl, o, now)
  <2>1. queue \in SUBSET Ops /\ queue # {}
    BY <1>3, <1>8, Zenon DEF InState
  <2>2. \A p \in queue \ {o} : Before(rs, o, p)
    BY <1>6, <1>8, <2>1, FirstIsLeast, Zenon
  <2>3. rs[o].state = "queued" /\ rs[o].class = ops[o].class
    BY <1>3, <1>8, Zenon DEF InState
  <2>4. Oldest(rs, o)
    BY <1>3, <2>2, <2>3 DEF Oldest, InState
  <2> QED BY <1>2, <1>5, <1>8, <2>3, <2>4, QueuedClaimed, Zenon
<1>9. CASE ops' = rs /\ slots' = sl /\ held' = held
  BY <1>2, <1>5, <1>9, ClaimNothing, Zenon
<1> QED BY <1>4, <1>7, <1>8, <1>9, Zenon

\* A submission: rs and sl are the swept table.
LEMMA Refused ==
  ASSUME AdmissionConstants, IInv, NEW r \in Requests, submissions[r.submission].status = "none",
         replay # Null => replay.submission # r.submission,
         NEW now \in Readings, NEW code \in Codes, Recorded(r, "refused", Null, code, now),
         ops' = SweptOps(now), slots' = SweptSlots(now),
         UNCHANGED <<clock, config, bound, written, held, replay, sweep, purge>>
  PROVE  IInv' /\ Kept
<1>1. now \in Int
  BY ReadingsAreTimes
<1>2. Held(ops', slots', config, held) /\ Quiet(ops, ops') /\ Rows(ops', submissions, bound, purge.ids)
  BY <1>1, SweepKeeps, Zenon
<1>3. /\ r.submission \in SubmissionIds /\ submissions' \in [SubmissionIds -> Submission]
      /\ submissions'[r.submission].status = "refused" /\ submissions'[r.submission].op = Null
      /\ \A s \in SubmissionIds \ {r.submission} : submissions'[s] = submissions[s]
  BY <1>1, RecordedResult, Zenon DEF IInv, Rest
<1>4. Rest'
  <2>1. \A s \in SubmissionIds : submissions'[s].status # "accepted" => submissions'[s].op = Null
    BY <1>3 DEF IInv, Rest
  <2>2. replay # Null => submissions'[replay.submission].status = "none"
    <3>1. ASSUME replay # Null PROVE replay.submission \in SubmissionIds
      BY <3>1, Zenon DEF IInv, Rest, AdmissionConstants, Request
    <3> QED BY <3>1, <1>3, Zenon DEF IInv, Rest
  <2> QED BY <2>1, <2>2, <1>3 DEF IInv, Rest
<1>5. Rows(ops', submissions', bound, purge.ids)
  <2>1. Answered(ops', submissions')
    BY <1>2, <1>3, Zenon DEF Rows, Answered
  <2> QED BY <2>1, <1>2 DEF Rows
<1>6. Kept
  <2>1. OutcomesKept
    BY <1>2, Zenon DEF OutcomesKept, Quiet, Terminal
  <2>2. ResultsKept
    BY <1>3, Zenon DEF ResultsKept
  <2>3. StartsInOrder
    BY <1>2, Zenon DEF StartsInOrder, Quiet, Terminal
  <2> QED BY <2>1, <2>2, <2>3, Zenon DEF Kept
<1> QED BY <1>2, <1>4, <1>5, <1>6, Zenon DEF IInv

LEMMA Accepted ==
  ASSUME AdmissionConstants, IInv, NEW r \in Requests, submissions[r.submission].status = "none",
         replay # Null => replay.submission # r.submission,
         NEW now \in Readings, NEW o \in Ops, ops[o].state = "absent", Recorded(r, "accepted", o, "", now),
         NEW row \in Row, Admits(SweptOps(now), bound, row),
         ops' = [SweptOps(now) EXCEPT ![o] = row], Held(ops', slots', config, held),
         UNCHANGED <<clock, config, bound, written, held, replay, sweep, purge>>
  PROVE  IInv' /\ Kept
<1>1. now \in Int
  BY ONLY AdmissionConstants, now \in Readings, ReadingsAreTimes
<1>2. PICK rs \in {SweptOps(now)} : TRUE
  BY Zenon
<1>3. /\ Quiet(ops, rs) /\ Rows(rs, submissions, bound, purge.ids)
      /\ rs \in [Ops -> Row] /\ rs[o].state = "absent"
  <2>1. Quiet(ops, rs) /\ Rows(rs, submissions, bound, purge.ids) /\ Held(rs, SweptSlots(now), config, held)
    BY <1>1, <1>2, SweepKeeps, Zenon
  <2> QED BY <2>1, Zenon DEF Held, Types, Quiet
<1>4. ops'[o] = row /\ \A p \in Ops \ {o} : ops'[p] = rs[p]
  BY <1>2, <1>3, Zenon
<1>5. /\ r.submission \in SubmissionIds /\ submissions' \in [SubmissionIds -> Submission]
      /\ submissions'[r.submission].status = "accepted" /\ submissions'[r.submission].op = o
      /\ \A s \in SubmissionIds \ {r.submission} : submissions'[s] = submissions[s]
  <2>1. "" \in Codes
    BY Zenon DEF Codes
  <2> QED BY <1>1, <2>1, RecordedResult, Zenon DEF IInv, Rest
<1>6. Rest'
  <2>1. \A s \in SubmissionIds : submissions'[s].status # "accepted" => submissions'[s].op = Null
    BY <1>5, Zenon DEF IInv, Rest
  <2>2. replay # Null => submissions'[replay.submission].status = "none"
    <3>1. ASSUME replay # Null PROVE replay.submission \in SubmissionIds
      BY <3>1, Zenon DEF IInv, Rest, AdmissionConstants, Request
    <3> QED BY <3>1, <1>5, Zenon DEF IInv, Rest
  <2> QED BY <2>1, <2>2, <1>5, Zenon DEF IInv, Rest
<1>7. Rows(ops', submissions', bound, purge.ids)
  <2>1. bound \in SUBSET Configs /\ purge.ids \in SUBSET Ops
    BY Zenon DEF IInv, Rest
  <2>3. \A s \in SubmissionIds : submissions'[s] = submissions[s]
                                   \/ (submissions'[s].status = "accepted" /\ submissions'[s].op = o)
    BY <1>5, Zenon
  <2>4. Admits(rs, bound, ops'[o])
    BY <1>2, <1>4, Zenon
  <2> QED BY ONLY AdmissionConstants, o \in Ops, <1>3, <1>4, <2>1, <2>3, <2>4, NewRows
<1>8. Kept
  <2>1. OutcomesKept
    <3>1. \A p \in Ops : ops[p].state \in Terminal => ops'[p] = ops[p]
      BY <1>3, <1>4, Zenon DEF Quiet, Terminal
    <3> QED BY <3>1, Zenon DEF OutcomesKept
  <2>2. ResultsKept
    BY <1>5, Zenon DEF ResultsKept
  <2>3. StartsInOrder
    <3>1. \A p \in Ops : ops[p].state = "queued" => ops'[p].state # "running"
      BY <1>3, <1>4, Zenon DEF Quiet, Terminal
    <3> QED BY <3>1, Zenon DEF StartsInOrder
  <2> QED BY <2>1, <2>2, <2>3, Zenon DEF Kept
<1> QED BY <1>6, <1>7, <1>8, Zenon DEF IInv

LEMMA SubmitStep ==
  ASSUME AdmissionConstants, IInv, NEW r \in Requests, NEW o \in Ops, NEW cfg \in bound, Submit(r, o, cfg)
  PROVE  IInv' /\ Kept
<1>1. PICK now \in Readings :
       LET rs     == SweptOps(now)
           sl     == SweptSlots(now)
           free   == SlotsFree(sl, cfg, r.class)
           Refuse == /\ Recorded(r, "refused", Null, "capacity_exceeded", now)
                     /\ ops' = rs
                     /\ slots' = sl
       IN  /\ SweepsFree(now)
           /\ r.parent # Null => r.parent \notin Locked /\ RetryAllowed(r, now)
           /\ CASE VoiceFull(rs, r) -> Refuse
                [] ~VoiceFull(rs, r) /\ free ->
                     /\ ops' = [rs EXCEPT ![o] = NewRow(r, "running", now, 0)]
                     /\ slots' = Occupied(sl, cfg, r.class, o, "marker", now + SlotLease)
                     /\ Recorded(r, "accepted", o, "", now)
                [] ~VoiceFull(rs, r) /\ ~free /\ QueueRoom(rs, cfg, r.class) ->
                     /\ cfg.wait[r.class] > 0
                     /\ ops' = [rs EXCEPT ![o] =
                                  NewRow(r, "queued", now, now + cfg.wait[r.class])]
                     /\ slots' = sl
                     /\ Recorded(r, "accepted", o, "", now)
                [] OTHER -> Refuse
  BY Zenon DEF Submit
<1>2. PICK rs \in {SweptOps(now)}, sl \in {SweptSlots(now)} : TRUE
  BY Zenon
<1>3. \/ /\ Recorded(r, "refused", Null, "capacity_exceeded", now)
         /\ ops' = rs /\ slots' = sl
      \/ /\ ~VoiceFull(rs, r) /\ SlotsFree(sl, cfg, r.class)
         /\ ops' = [rs EXCEPT ![o] = NewRow(r, "running", now, 0)]
         /\ slots' = Occupied(sl, cfg, r.class, o, "marker", now + SlotLease)
         /\ Recorded(r, "accepted", o, "", now)
      \/ /\ QueueRoom(rs, cfg, r.class)
         /\ ops' = [rs EXCEPT ![o] = NewRow(r, "queued", now, now + cfg.wait[r.class])]
         /\ slots' = sl
         /\ Recorded(r, "accepted", o, "", now)
  BY <1>1, <1>2, Zenon
<1>4. /\ submissions[r.submission].status = "none" /\ KeyHolders(r) = {} /\ ops[o].state = "absent"
      /\ replay # Null => replay.submission # r.submission
      /\ UNCHANGED <<clock, config, bound, written, held, replay, sweep, purge>>
  BY Zenon DEF Submit, IdentityFree
<1>5. now \in Nat /\ r.class \in Classes /\ cfg \in Configs
  BY ReadingsAreTimes, Zenon DEF AdmissionConstants, Request, IInv, Rest
<1>6. Held(rs, sl, config, held) /\ Quiet(ops, rs) /\ Types(rs, sl, held) /\ rs[o].state = "absent"
  <2>1. Held(rs, sl, config, held) /\ Quiet(ops, rs)
    BY <1>2, <1>5, SweepKeeps
  <2> QED BY <2>1, <1>4, Zenon DEF Held, Quiet
<1>7. \A p \in Ops : Live(rs[p]) /\ rs[p].owner = r.owner /\ rs[p].key = r.key => r.key = NoKey
  <2>1. \A p \in Ops : Live(rs[p]) => /\ ops[p].state \notin {"absent", "purged"}
                                      /\ rs[p].owner = ops[p].owner /\ rs[p].key = ops[p].key
    BY <1>6, Zenon DEF Live, Quiet, Terminal
  <2> QED BY <2>1, <1>4, Zenon DEF KeyHolders
<1>8. CASE /\ Recorded(r, "refused", Null, "capacity_exceeded", now)
           /\ ops' = rs /\ slots' = sl
  <2>1. "capacity_exceeded" \in Codes
    BY Zenon DEF Codes
  <2> QED BY <2>1, <1>2, <1>4, <1>8, Refused, Zenon
<1>9. CASE /\ ~VoiceFull(rs, r) /\ SlotsFree(sl, cfg, r.class)
           /\ ops' = [rs EXCEPT ![o] = NewRow(r, "running", now, 0)]
           /\ slots' = Occupied(sl, cfg, r.class, o, "marker", now + SlotLease)
           /\ Recorded(r, "accepted", o, "", now)
  <2>1. PICK row \in {NewRow(r, "running", now, 0)} : TRUE
    BY Zenon
  <2>2. /\ row \in Row /\ row.state = "running" /\ row.class = r.class /\ row.owner = r.owner
        /\ row.key = r.key /\ row.accepted = now /\ ~row.cancel
    <3>1. "running" \in {"queued", "running"} /\ 0 \in Int
      OBVIOUS
    <3> QED BY ONLY AdmissionConstants, r \in Requests, <2>1, <3>1, <1>5, NewRowType
  <2>3. PICK expires \in Int : expires = now + SlotLease
    BY <1>5 DEF AdmissionConstants
  <2>4. ops' \in [Ops -> Row] /\ ops'[o] = row /\ \A p \in Ops \ {o} : ops'[p] = rs[p]
    BY <1>6, <1>9, <2>1, <2>2, Zenon DEF Types
  <2>5. slots' \in [Classes -> [Numbers -> Slot]]
    BY <1>5, <1>6, <1>9, <2>3, OccupiedType, Zenon DEF Types
  <2>6. Types(ops', slots', held)
    BY <1>6, <2>4, <2>5 DEF Types
  <2>7. Starts(rs, ops', o) /\ ~ops'[o].cancel
    BY <1>6, <2>2, <2>4, Zenon DEF Starts
  <2>8. SlotsFree(sl, cfg, ops'[o].class) /\ slots' = Occupied(sl, cfg, ops'[o].class, o, "marker", expires)
    BY <1>9, <2>2, <2>3, <2>4, Zenon
  <2>9. Held(ops', slots', config, held)
    BY <1>6, <2>6, <2>7, <2>8, StartKeeps, Zenon
  <2>10. r.class \in VoiceClasses => Cardinality(UserWork(rs, r.class, r.owner)) < VoiceLimit
    <3>1. UserWork(rs, r.class, r.owner) \subseteq Ops
      BY Zenon DEF UserWork, InState
    <3>2. Cardinality(UserWork(rs, r.class, r.owner)) \in Nat /\ VoiceLimit \in Nat
      BY <3>1, Facts, FS_Subset, FS_CardinalityType, Zenon DEF AdmissionConstants
    <3>3. r.class \in VoiceClasses => ~(Cardinality(UserWork(rs, r.class, r.owner)) >= VoiceLimit)
      BY <1>9, Zenon DEF VoiceFull, UserWork
    <3> QED BY <3>2, <3>3
  <2>11. Admits(rs, bound, row)
    BY <1>5, <1>7, <2>2, <2>10, Zenon DEF Admits
  <2>12. ops' = [SweptOps(now) EXCEPT ![o] = row] /\ Admits(SweptOps(now), bound, row)
    BY <1>2, <1>9, <2>1, <2>11, Zenon
  <2> QED BY <1>4, <1>9, <2>2, <2>9, <2>12, Accepted, Zenon
<1>10. CASE /\ QueueRoom(rs, cfg, r.class)
            /\ ops' = [rs EXCEPT ![o] = NewRow(r, "queued", now, now + cfg.wait[r.class])]
            /\ slots' = sl
            /\ Recorded(r, "accepted", o, "", now)
  <2>1. PICK deadline \in Int : deadline = now + cfg.wait[r.class]
    <3>1. cfg.wait[r.class] \in Nat
      BY <1>5, Facts, Zenon DEF Limits
    <3> QED BY <3>1, <1>5
  <2>2. PICK row \in {NewRow(r, "queued", now, deadline)} : TRUE
    BY Zenon
  <2>3. /\ row \in Row /\ row.state = "queued" /\ row.class = r.class /\ row.owner = r.owner
        /\ row.key = r.key /\ row.accepted = now
    BY <2>2, <1>5, NewRowType
  <2>4. ops' \in [Ops -> Row] /\ ops'[o] = row /\ \A p \in Ops \ {o} : ops'[p] = rs[p]
    BY <1>6, <1>10, <2>1, <2>2, <2>3, Zenon DEF Types
  <2>5. Types(ops', slots', held)
    BY <1>6, <1>10, <2>4, Zenon DEF Types
  <2>6. Stops(rs, ops', {})
    BY <1>6, <2>3, <2>4, Zenon DEF Stops
  <2>7. Vacates(sl, sl, {}, config)
    <3>1. ASSUME NEW c \in Classes, NEW n \in Numbers, sl[c][n].op \notin Ops
          PROVE  sl[c][n].op = Null /\ (sl[c][n].present <=> n <= config.active[c])
      <4>1. sl[c][n].op = Null
        BY <3>1, <1>6, RowTypes
      <4> QED BY <4>1, <1>6, Zenon DEF Held, Table
    <3> QED BY <3>1, Zenon DEF Vacates
  <2>8. Held(ops', slots', config, held)
    BY <1>6, <1>10, <2>5, <2>6, <2>7, ReleaseKeeps, Zenon
  <2>9. Admits(rs, bound, row)
    BY <1>5, <1>7, <1>10, <2>3, Zenon DEF Admits, QueueRoom
  <2>10. ops' = [SweptOps(now) EXCEPT ![o] = row] /\ Admits(SweptOps(now), bound, row)
    BY <1>2, <1>10, <2>1, <2>2, <2>9, Zenon
  <2> QED BY <1>4, <1>10, <2>3, <2>8, <2>10, Accepted, Zenon
<1> QED BY <1>3, <1>8, <1>9, <1>10, Zenon

-----------------------------------------------------------------------------
LEMMA NextSound == ASSUME AdmissionConstants, IInv, Next PROVE IInv' /\ Kept
<1>1. CASE Tick
  BY <1>1, TickStep, Zenon
<1>2. CASE \E cfg \in Configs : Configure(cfg)
  BY <1>2, ConfigureStep, Zenon
<1>3. CASE BindConfigs
  BY <1>3, BindConfigsStep, Zenon
<1>4. CASE \E r \in Requests : OpenReplay(r)
  BY <1>4, OpenReplayStep, Zenon
<1>5. CASE CloseReplay
  BY <1>5, CloseReplayStep, Zenon
<1>6. CASE \E r \in Requests, o \in Ops, cfg \in bound : Submit(r, o, cfg)
  BY <1>6, SubmitStep, Zenon
<1>7. CASE \E w \in Workers, c \in Classes, cfg \in bound : ClaimNext(w, c, cfg)
  BY <1>7, ClaimNextStep, Zenon
<1>8. CASE \E w \in Workers, o \in Ops, cfg \in bound : ClaimOperation(w, o, cfg)
  BY <1>8, ClaimOperationStep
<1>9. CASE \E w \in Workers : RenewExecutionLease(w)
  BY <1>9, RenewStep, Zenon
<1>10. CASE \E w, v \in Workers : ReselectExecution(w, v)
  BY <1>10, ReselectStep, Zenon
<1>11. CASE \E w \in Workers, state \in Outcomes : Terminalize(w, state)
  BY <1>11, TerminalizeStep, Zenon
<1>12. CASE \E w \in Workers : Drop(w)
  BY <1>12, DropStep, Zenon
<1>13. CASE \E o \in Ops : Cancel(o)
  BY <1>13, CancelStep, Zenon
<1>14. CASE \E o \in Ops : TerminalizeUnselected(o)
  BY <1>14, TerminalizeUnselectedStep, Zenon
<1>15. CASE ExpireQueuedStep
  BY <1>15, ExpireQueuedStepSound, Zenon
<1>16. CASE OpenSweep
  BY <1>16, OpenSweepStep, Zenon
<1>17. CASE CloseSweep
  BY <1>17, CloseSweepStep, Zenon
<1>18. CASE OpenPurge
  BY <1>18, OpenPurgeStep, Zenon
<1>19. CASE ClosePurge
  BY <1>19, ClosePurgeStep, Zenon
<1> QED BY <1>1, <1>2, <1>3, <1>4, <1>5, <1>6, <1>7, <1>8, <1>9, <1>10, <1>11, <1>12, <1>13, <1>14,
           <1>15, <1>16, <1>17, <1>18, <1>19, Zenon DEF Next

\* The invariant holds in every reachable state of the admission tables.
THEOREM Invariant == ASSUME AdmissionConstants PROVE Spec => []IInv
<1>1. Init => IInv
  BY InitSound, Zenon
<1>2. IInv /\ [Next]_vars => IInv'
  <2>1. CASE Next
    BY <2>1, NextSound, Zenon
  <2>2. CASE UNCHANGED vars
    BY <2>2, Zenon DEF vars, IInv, Rest
  <2> QED BY <2>1, <2>2, Zenon
<1> QED BY <1>1, <1>2, PTL DEF Spec

\* Capacity never leaks and is never exceeded: an execution holds one slot in every
\* class of its chain, nothing else holds one, and the slots are those of the
\* committed limits or still occupied (_occupy_slots, _release_slots, configure).
THEOREM CapacityIsSound ==
  ASSUME AdmissionConstants PROVE Spec => [](TypeOK /\ CapacityCustody /\ SlotTableExact)
<1>1. ASSUME IInv PROVE TypeOK /\ CapacityCustody /\ SlotTableExact
  <2>1. TypeOK
    BY <1>1, Zenon DEF IInv, Held, Types, Rest, TypeOK, Numbers
  <2>2. SlotTableExact
    BY <1>1, Zenon DEF IInv, Held, Table, SlotTableExact, Numbers
  <2>3. ASSUME NEW o \in Ops, ops[o].state = "running"
        PROVE  /\ \A c \in Chain[ops[o].class] : Cardinality({n \in 1 .. MaxSlots : slots[c][n].op = o}) = 1
               /\ \A k \in SlotsOf(slots, o) : k[1] \in Chain[ops[o].class]
    <3>1. ASSUME NEW c \in Chain[ops[o].class]
          PROVE  Cardinality({n \in 1 .. MaxSlots : slots[c][n].op = o}) = 1
      <4>1. PICK n \in Numbers : slots[c][n].op = o /\ \A m \in Numbers : slots[c][m].op = o => m = n
        BY <1>1, <2>3, Zenon DEF IInv, Held, Custody
      <4>2. {m \in 1 .. MaxSlots : slots[c][m].op = o} = {n}
        BY <4>1, Zenon DEF Numbers
      <4> QED BY <4>2, FS_Singleton, Zenon
    <3>2. ASSUME NEW k \in SlotsOf(slots, o) PROVE k[1] \in Chain[ops[o].class]
      <4>1. PICK c \in Classes, n \in Numbers : k = <<c, n>> /\ slots[c][n].op = o
        BY SlotPairs
      <4>2. k[1] = c
        BY <4>1, Zenon
      <4> QED BY <4>1, <4>2, <1>1, Zenon DEF IInv, Held, Custody
    <3> QED BY <3>1, <3>2, Zenon
  <2>4. ASSUME NEW o \in Ops, ops[o].state # "running" PROVE SlotsOf(slots, o) = {}
    BY <1>1, <2>4, SlotPairs DEF IInv, Held, Custody
  <2>5. CapacityCustody
    BY <2>3, <2>4, Zenon DEF CapacityCustody
  <2> QED BY <2>1, <2>2, <2>5, Zenon
<1> QED BY <1>1, Invariant, PTL

\* At most one worker has the current fence of an operation, and cancellation of work
\* that no worker has is never only requested (claim_next, claim_operation,
\* reselect_execution, cancel).
THEOREM ExecutionIsExclusive ==
  ASSUME AdmissionConstants PROVE Spec => [](ExclusiveExecution /\ CancelReachesWorker)
<1>1. ASSUME IInv PROVE ExclusiveExecution /\ CancelReachesWorker
  <2>1. ExclusiveExecution
    BY <1>1, Zenon DEF IInv, Held, Fences, Current, ExclusiveExecution, FenceMatches
  <2>2. CancelReachesWorker
    BY <1>1, MarkerPairs DEF IInv, Held, Markers, Marked, CancelReachesWorker
  <2> QED BY <2>1, <2>2, Zenon
<1> QED BY <1>1, Invariant, PTL

\* A queue stays within the limit of some bound configuration, and one user's voice
\* work within the per-user limit (submit, claim_next).
THEOREM LimitsHold == ASSUME AdmissionConstants PROVE Spec => [](QueueBounded /\ VoicePerUser)
<1>1. ASSUME IInv PROVE QueueBounded /\ VoicePerUser
  BY <1>1, Zenon DEF IInv, Rows, QueueFits, VoiceFits, QueueBounded, VoicePerUser, UserWork
<1> QED BY <1>1, Invariant, PTL

\* Every accepted submission still has its operation, and an owner's idempotency key
\* names one operation (submit, the replay, purge_expired).
THEOREM ResultsAreAnswerable ==
  ASSUME AdmissionConstants PROVE Spec => [](AcceptedAnswerable /\ OneOperationPerKey)
<1>1. ASSUME IInv PROVE AcceptedAnswerable /\ OneOperationPerKey
  <2>1. AcceptedAnswerable
    BY <1>1, Facts, Zenon DEF IInv, Rows, Answered, Live, AcceptedAnswerable
  <2>2. OneOperationPerKey
    BY <1>1, Zenon DEF IInv, Rows, KeysDiffer, Live, OneOperationPerKey
  <2> QED BY <2>1, <2>2, Zenon
<1> QED BY <1>1, Invariant, PTL

\* No step rewrites a terminal outcome or a recorded result (terminalize, cancel, the
\* sweeps, submit and purge_expired).
THEOREM HistoryIsKept == ASSUME AdmissionConstants PROVE Spec => [][OutcomesKept /\ ResultsKept]_vars
<1>1. IInv /\ [Next]_vars => [OutcomesKept /\ ResultsKept]_vars
  BY NextSound, Zenon DEF Kept
<1> QED BY <1>1, Invariant, PTL DEF Spec

\* Queued work of a class starts in order of acceptance (claim_next, claim_operation).
THEOREM QueueIsInOrder == ASSUME AdmissionConstants PROVE Spec => QueueInOrder
<1>1. IInv /\ [Next]_vars => [StartsInOrder]_vars
  BY NextSound, Zenon DEF Kept
<1> QED BY <1>1, Invariant, PTL DEF Spec, QueueInOrder
=============================================================================
