---------------------------- MODULE MCKeyStatus ----------------------------
(* Constants for model checking KeyStatus.                                 *)
EXTENDS KeyStatus, TLC

CONSTANTS a1, a2

Faults == {"auth_failed", "http_429"}
Transient == {"http_429"}
Justifications == {"retired"}
Durations == {1, 2}
OneDuration == {1}
Costs == {1}
Budgets == {0, 1}
CappedBudget == {1}

Payload(sets, s, d, r, l) ==
  [sets |-> sets, status |-> s, after |-> d, reason |-> r, limit |-> l]

EnableEdit    == Payload({"status"}, "active", 0, "", 0)
DisableEdit   == Payload({"status"}, "disabled", 0, "", 0)
RetireEdit    == Payload({"status", "reason"}, "disabled", 0, "retired", 0)
ReasonEdit    == Payload({"reason"}, "active", 0, "retired", 0)
CooldownEdit  == Payload({"status", "until"}, "rate_limited", 2, "", 0)
UnlimitEdit   == Payload({"limit"}, "active", 0, "", 0)

NoEdits == {}
Edits == {EnableEdit, DisableEdit, RetireEdit, ReasonEdit, CooldownEdit, UnlimitEdit}

Symmetry == Permutations(Actor)
=============================================================================
