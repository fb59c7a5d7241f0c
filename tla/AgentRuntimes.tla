---------------------------- MODULE AgentRuntimes ----------------------------
(***************************************************************************)
(* Where an executable agent runs: host sessions, runtime instances that   *)
(* start, register, beat and stop, and the requests given to them.  Each   *)
(* writer reads a row and later writes it by compare-and-set; a sweeper    *)
(* lists the instances that look expired and ends them one by one later.   *)
(***************************************************************************)
EXTENDS Integers, FiniteSets

CONSTANTS
    Sessions,     \* host session identities
    Instances,    \* runtime instances, all of one agent
    Requests,     \* request identities
    Writers,      \* hosts and products that write instances and requests
    Timeout,      \* startup and liveness timeout
    MaxTime,      \* bound on the clock
    MaxRevision,  \* bound on the state revision of a row
    Null

VARIABLES
    now,      \* the database clock
    session,  \* agent_host_session rows
    inst,     \* agent_runtime_instance rows
    req,      \* agent_runtime_request rows
    held,     \* what each writer has read and not yet written
    listed    \* expiry candidates the sweeper holds

vars == <<now, session, inst, req, held, listed>>

-----------------------------------------------------------------------------

Starting == {"delivering", "starting"}
Running == {"ready", "online", "updating"}
Finished == {"completed", "failed", "cancelled", "retryable"}

InstanceRows ==
    [state: Starting \union Running \union {"stopped", "failed", "offline"},
     ver: 0 .. MaxRevision, since: 0 .. MaxTime, registered: BOOLEAN,
     beat: (0 .. MaxTime) \union {Null}, auth: BOOLEAN, session: Sessions]

RequestRows == [state: {"assigned", "running"} \union Finished,
                ver: 0 .. MaxRevision, inst: Instances]

TypeOK ==
    /\ now \in 0 .. MaxTime
    /\ session \in [Sessions -> {"none", "connected", "disconnected"}]
    /\ \A i \in Instances : inst[i] # Null => inst[i] \in InstanceRows
    /\ \A q \in Requests : req[q] # Null => req[q] \in RequestRows
    /\ \A w \in Writers : held[w] # Null => held[w].of \in Instances \union Requests
    /\ listed \subseteq Instances \X {"startup", "liveness"}

Init ==
    /\ now = 0
    /\ session = [s \in Sessions |-> "none"]
    /\ inst = [i \in Instances |-> Null]
    /\ req = [q \in Requests |-> Null]
    /\ held = [w \in Writers |-> Null]
    /\ listed = {}

-----------------------------------------------------------------------------

\* A replay of any of the three creations finds its row and changes nothing.
CreateHostSession(s) ==
    /\ session[s] = "none"
    /\ session' = [session EXCEPT ![s] = "connected"]
    /\ UNCHANGED <<now, inst, req, held, listed>>

TransitionHostSession(s) ==
    /\ session[s] = "connected"
    /\ session' = [session EXCEPT ![s] = "disconnected"]
    /\ UNCHANGED <<now, inst, req, held, listed>>

CreateRuntimeInstance(i, s) ==
    /\ inst[i] = Null
    /\ session[s] # "none"
    /\ inst' = [inst EXCEPT ![i] = [state |-> "delivering", ver |-> 0, since |-> now,
                                    registered |-> FALSE, beat |-> Null,
                                    auth |-> FALSE, session |-> s]]
    /\ UNCHANGED <<now, session, req, held, listed>>

CreateRuntimeRequest(q, i) ==
    /\ req[q] = Null
    /\ inst[i] # Null
    /\ req' = [req EXCEPT ![q] = [state |-> "assigned", ver |-> 0, inst |-> i]]
    /\ UNCHANGED <<now, session, inst, held, listed>>

Read(w) ==
    /\ held[w] = Null
    /\ \/ \E i \in Instances : inst[i] # Null
                            /\ held' = [held EXCEPT ![w] = [of |-> i, row |-> inst[i]]]
       \/ \E q \in Requests : req[q] # Null
                           /\ held' = [held EXCEPT ![w] = [of |-> q, row |-> req[q]]]
    /\ UNCHANGED <<now, session, inst, req, listed>>

\* What a host reports of the instance it read, each report one transition.
Reports(row) ==
    {r \in {[row EXCEPT !.state = "starting", !.since = now],
            [row EXCEPT !.state = "ready", !.registered = TRUE],
            [row EXCEPT !.beat = now],
            [row EXCEPT !.state = "online", !.auth = TRUE],
            [row EXCEPT !.state = "stopped", !.auth = FALSE]} :
        /\ row.state = "delivering" => r.state = "starting"
        /\ row.state = "starting" => r.state = "ready"
        /\ row.state = "ready" => r.state # "starting"
        /\ row.state \in {"online", "updating"} => r.state \in {row.state, "stopped"}
        /\ r # row /\ row.state \in Starting \union Running}

\* The partial unique index on the authoritative instance of an agent.
SoleAuthority(i, r) == r.auth => \A j \in Instances \ {i} : inst[j] # Null => ~inst[j].auth

Current(row, old) == row.ver = old.ver /\ row.state = old.state

TransitionRuntimeInstance(w) ==
    /\ held[w] # Null
    /\ held[w].of \in Instances
    /\ LET i == held[w].of
           old == held[w].row
       IN  /\ Current(inst[i], old)
           /\ old.ver < MaxRevision
           /\ \E r \in Reports(old) :
                /\ SoleAuthority(i, r)
                /\ inst' = [inst EXCEPT ![i] = [r EXCEPT !.ver = inst[i].ver + 1]]
    /\ held' = [held EXCEPT ![w] = Null]
    /\ UNCHANGED <<now, session, req, listed>>

TransitionRuntimeRequest(w) ==
    /\ held[w] # Null
    /\ held[w].of \in Requests
    /\ held[w].row.state \notin Finished
    /\ LET q == held[w].of
           old == held[w].row
       IN  /\ Current(req[q], old)
           /\ old.ver < MaxRevision
           /\ \E t \in {"running", "completed", "retryable"} \ {old.state} :
                req' = [req EXCEPT ![q].state = t, ![q].ver = @ + 1]
    /\ held' = [held EXCEPT ![w] = Null]
    /\ UNCHANGED <<now, session, inst, listed>>

\* A writer that meets a conflict, or whose process ends, forgets its row.
Forget(w) ==
    /\ held[w] # Null
    /\ held' = [held EXCEPT ![w] = Null]
    /\ UNCHANGED <<now, session, inst, req, listed>>

-----------------------------------------------------------------------------
\* The sweeper.

StartupExpired(row) ==
    /\ row.state \in Starting
    /\ ~row.registered
    /\ row.since + Timeout <= now

LivenessExpired(row) ==
    /\ row.state \in Running
    /\ row.beat # Null
    /\ row.beat + Timeout <= now

ListExpired ==
    /\ listed = {}
    /\ listed' = {<<i, reason>> \in Instances \X {"startup", "liveness"} :
                    /\ inst[i] # Null
                    /\ IF reason = "startup" THEN StartupExpired(inst[i])
                                             ELSE LivenessExpired(inst[i])}
    /\ listed' # {}
    /\ UNCHANGED <<now, session, inst, req, held>>

\* lock_runtime_if_startup_expired or lock_runtime_if_liveness_expired, and
\* the transition its caller makes of the locked row in that transaction.
Expire(c) ==
    LET i == c[1]
        expired == IF c[2] = "startup" THEN StartupExpired(inst[i])
                                       ELSE LivenessExpired(inst[i])
        end == IF c[2] = "startup" THEN "failed" ELSE "offline"
    IN  /\ listed' = listed \ {c}
        /\ IF expired /\ inst[i].ver < MaxRevision
           THEN inst' = [inst EXCEPT ![i].state = end, ![i].auth = FALSE, ![i].ver = @ + 1]
           ELSE UNCHANGED inst
        /\ UNCHANGED <<now, session, req, held>>

Tick ==
    /\ now < MaxTime
    /\ now' = now + 1
    /\ UNCHANGED <<session, inst, req, held, listed>>

-----------------------------------------------------------------------------

Next ==
    \/ \E s \in Sessions : \/ CreateHostSession(s) \/ TransitionHostSession(s)
                           \/ \E i \in Instances : CreateRuntimeInstance(i, s)
    \/ \E q \in Requests, i \in Instances : CreateRuntimeRequest(q, i)
    \/ \E w \in Writers : \/ Read(w) \/ Forget(w)
                          \/ TransitionRuntimeInstance(w) \/ TransitionRuntimeRequest(w)
    \/ ListExpired
    \/ \E c \in listed : Expire(c)
    \/ Tick

Spec == Init /\ [][Next]_vars

-----------------------------------------------------------------------------

\* Of the instances of an agent at most one is authoritative, and that one
\* has registered and has not ended, whatever reports and sweeps raced.
OneAuthority ==
    /\ \A i, j \in Instances : (inst[i] # Null /\ inst[j] # Null) =>
          (inst[i].auth /\ inst[j].auth => i = j)
    /\ \A i \in Instances : inst[i] # Null =>
          /\ inst[i].auth => inst[i].registered /\ inst[i].state \in Running
          /\ inst[i].beat # Null => inst[i].registered

\* A report takes effect only on the row its writer had read: no other
\* report or sweep came in between.
ReportsCurrent ==
    \A w \in Writers : (held[w] # Null /\ held'[w] = Null) =>
        LET o == held[w].of
        IN  IF o \in Instances THEN inst' # inst => inst[o] = held[w].row
            ELSE req' # req => req[o] = held[w].row

\* A sweep ends no instance that is registered or has beaten in time by then,
\* however old the list of candidates it works from.
LiveKept ==
    \A i \in Instances :
        (inst[i] # Null /\ inst'[i].state \in {"failed", "offline"}
                        /\ inst'[i].state # inst[i].state) =>
            now >= Timeout + (IF inst[i].registered THEN inst[i].beat ELSE inst[i].since)

\* An instance that ended and a request that finished stay as they are.
EndedStays ==
    /\ \A i \in Instances :
          (inst[i] # Null /\ inst[i].state \notin Starting \union Running) => inst'[i] = inst[i]
    /\ \A q \in Requests :
          (req[q] # Null /\ req[q].state \in Finished) => req'[q] = req[q]

RuntimeSound == TypeOK /\ OneAuthority
RuntimeKept == ReportsCurrent /\ LiveKept /\ EndedStays
=============================================================================
