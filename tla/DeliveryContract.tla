-------------------------- MODULE DeliveryContract --------------------------
(***************************************************************************)
(* What audit delivery promises a producer, without leases, versions,      *)
(* workers, clocks or transactions.  An entry that was accepted waits      *)
(* until it is taken for an attempt.  The attempt finishes it, gives it    *)
(* back, or gives it up when its attempts are spent.  The sink takes an    *)
(* entry at most once per attempt, at any time after the attempt began,    *)
(* and an entry is done only if the sink took it.                          *)
(***************************************************************************)
EXTENDS Integers

CONSTANTS Entries, MaxAttempts

VARIABLES
  state,    \* [Entries -> {"absent", "waiting", "taken", "done", "dead"}]
  tries,    \* [Entries -> Nat], the attempts begun
  effects   \* [Entries -> Nat], the times the sink took the entry

vars == <<state, tries, effects>>

Init ==
  /\ state = [e \in Entries |-> "absent"]
  /\ tries = [e \in Entries |-> 0]
  /\ effects = [e \in Entries |-> 0]

Move(S, from, to) ==
  /\ S # {}
  /\ \A e \in S : state[e] = from
  /\ state' = [e \in Entries |-> IF e \in S THEN to ELSE state[e]]

Accept(e) == Move({e}, "absent", "waiting") /\ UNCHANGED <<tries, effects>>

Take(S) ==
  /\ Move(S, "waiting", "taken")
  /\ tries' = [e \in Entries |-> IF e \in S THEN tries[e] + 1 ELSE tries[e]]
  /\ UNCHANGED effects

GiveBack(S) == Move(S, "taken", "waiting") /\ UNCHANGED <<tries, effects>>

TakeEffect(e) ==
  /\ effects[e] < tries[e]
  /\ effects' = [effects EXCEPT ![e] = @ + 1]
  /\ UNCHANGED <<state, tries>>

Finish(e) ==
  /\ effects[e] > 0
  /\ Move({e}, "taken", "done")
  /\ UNCHANGED <<tries, effects>>

GiveUp(e) ==
  /\ tries[e] >= MaxAttempts
  /\ Move({e}, "taken", "dead")
  /\ UNCHANGED <<tries, effects>>

Next ==
  \/ \E e \in Entries : Accept(e) \/ TakeEffect(e) \/ Finish(e) \/ GiveUp(e)
  \/ \E S \in SUBSET Entries : Take(S) \/ GiveBack(S)

Spec == Init /\ [][Next]_vars
=============================================================================
