-------------------------- MODULE MCAuditDelivery --------------------------
(* The constants of the AuditDelivery runs. *)
EXTENDS AuditDelivery, TLC

Audit(payload, at) == [topic |-> "audit.publish", payload |-> payload, available_at |-> at]

MCTopics == {"audit.publish", "authority.lifecycle"}

MCClaimTopics == {"audit.publish"}

\* Canonical audit entries, now or later.
MCCanonical == {Audit("canonical", 0), Audit("canonical", 1)}

\* The same, with a payload another producer put under the audit topic.
MCMixed == {Audit("canonical", 0), Audit("malformed", 0)}

\* One entry is followed to the end of the clock; two, or a crash, only at the first
\* tick, where the readings of the callers still make leases expire. Entries are
\* enqueued in the order of their ids, and a crash is not combined with two of them.
Bounds ==
  /\ Present(2) => Present(1)
  /\ Present(2) \/ crashes > 0 => clock = 0
  /\ ~(Present(2) /\ crashes > 0)

BoundedSpec == Init /\ [][Next /\ Bounds']_vars

=============================================================================
