---------------------------- MODULE KeyLifecycle ----------------------------
(***************************************************************************)
(* What a key's database row promises to the rest of the router, without   *)
(* locks, caches or streak counters: which changes of status may happen by *)
(* themselves, and which two observations each of them rests on.           *)
(*                                                                         *)
(* lastTwo is the pair of latest observations (a fault reason, or "ok")    *)
(* since the streaks were last cleared.  Only an admin may do more than    *)
(* the actions below allow.                                                *)
(***************************************************************************)
EXTENDS Naturals

CONSTANTS Fault, Justification, EmptyOn, Limit

VARIABLES now, row, lastTwo,
          edits     \* flips with every admin write of the row
vars == <<now, row, lastTwo, edits>>

Permanent == {"auth_failed", "insufficient_quota"}
SystemReason == Permanent \cup {"spend_limit_exhausted", "empty_response"}
Reason == Fault \cup Justification \cup SystemReason \cup {""}
Row == [status : {"active", "rate_limited", "disabled", "absent"},
        until : Nat, reason : Reason, spent : Nat, limit : Nat]

Capped == row.limit > 0 /\ row.spent >= row.limit
InService == row.status \in {"active", "rate_limited"}
JustSeen(r) == \/ r \in Fault /\ lastTwo[2] = r
               \/ r = "empty_response" /\ EmptyOn
Nothing == <<"none", "none">>

Init ==
  /\ now = 1
  /\ row \in [status : {"active"}, until : {0}, reason : {""}, spent : {0}, limit : Limit]
  /\ lastTwo = Nothing
  /\ edits = FALSE

Observe(o) == lastTwo' = <<lastTwo[2], o>> /\ UNCHANGED <<now, row>>
Forget == lastTwo' = Nothing /\ UNCHANGED <<now, row>>

(* A cooldown is only ever extended, never on a disabled or capped key.    *)
Cool(r) ==
  /\ JustSeen(r)
  /\ InService /\ ~Capped
  /\ row'.until \in Nat /\ row.until <= row'.until /\ now <= row'.until
  /\ row' = [row EXCEPT !.status = "rate_limited", !.until = row'.until, !.reason = r]
  /\ UNCHANGED <<now, lastTwo>>

Relabel(r) ==
  /\ JustSeen(r)
  /\ row.status = "rate_limited" /\ ~Capped
  /\ row' = [row EXCEPT !.reason = r]
  /\ UNCHANGED <<now, lastTwo>>

(* Two same permanent faults in a row, a spent budget or the provider's    *)
(* empty-answer setting.                                                   *)
Disable(r) ==
  /\ InService
  /\ \/ r \in Permanent /\ lastTwo = <<r, r>>
     \/ r = "spend_limit_exhausted"
     \/ r = "empty_response" /\ EmptyOn
  /\ row' = [row EXCEPT !.status = "disabled", !.reason = r]
  /\ UNCHANGED <<now, lastTwo>>

(* Two successes in a row, no cooldown running, budget left, and not       *)
(* disabled by an admin.                                                   *)
Readmit ==
  /\ lastTwo = <<"ok", "ok">>
  /\ InService \/ (row.status = "disabled" /\ row.reason \in SystemReason)
  /\ ~Capped
  /\ row.until <= now
  /\ row' = [row EXCEPT !.status = "active", !.until = 0, !.reason = ""]
  /\ UNCHANGED <<now, lastTwo>>

Spend ==
  /\ row.status # "absent"
  /\ row'.spent \in Nat /\ row'.spent >= row.spent
  /\ row' = [row EXCEPT !.spent = row'.spent]
  /\ UNCHANGED <<now, lastTwo>>

Tick == now' = now + 1 /\ UNCHANGED <<row, lastTwo>>

Automatic == /\ \/ \E o \in Fault \cup {"ok"} : Observe(o)
                \/ Forget \/ Readmit \/ Spend \/ Tick
                \/ \E r \in Reason : Cool(r) \/ Relabel(r) \/ Disable(r)
             /\ UNCHANGED edits

(* An admin request may write anything a row can hold.                     *)
Administer == row' \in Row /\ edits' = ~edits /\ UNCHANGED <<now, lastTwo>>

Next == Automatic \/ Administer

Spec == Init /\ [][Next]_vars
=============================================================================
