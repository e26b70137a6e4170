----------------------------- MODULE KeyStatus -----------------------------
(***************************************************************************)
(* The life of ONE upstream API key inside the routing engine              *)
(* (selector/selector.go): its database row, the copy of it the selector   *)
(* reads, the observation streaks that drive its status, and the           *)
(* goroutines that work on it.  The engine keeps one such machine per key  *)
(* (lockKeyStatus hands out one mutex per key id) and no operation below   *)
(* reads another key, so one key is enough.                                *)
(*                                                                         *)
(* Every SQL UPDATE is one step, every section under Engine.mu is one      *)
(* step, and the key's status lock is held across them exactly where the   *)
(* code holds it; admin handlers write the row WITHOUT that lock.          *)
(*                                                                         *)
(* Times are naturals; 0 is SQL's NULL (`rate_limited_until IS NULL`), so  *)
(* "NULL or <= t" reads `until <= t`.                                      *)
(***************************************************************************)
EXTENDS Naturals

CONSTANTS
  Actor,            \* goroutines: relay requests, probes, admin requests
  Free,             \* the value of `lock` when no actor holds it
  Fault,            \* failure reasons requests and probes report
  Justification,    \* reasons an admin may type into an edit
  Cooldown,         \* durations a failure may cool a key for
  EmptyCooldown,    \* the 30s of RecordEmptyResponse
  EmptyThreshold,   \* provider setting; 0 = empty detection off
  EmptyWindow,      \* provider setting; 0 = no window
  EmptyDisable,     \* provider setting: disable as well as cool
  Edit,             \* UpdateKey payloads
  Cost, Limit,      \* request costs, lifetime budgets (0 = unlimited)
  MaxNow, MaxSpent, \* bounds of the clock and of the spend counter
  DbMayFail,        \* may a status UPDATE return an error?
  MayCrash          \* may the process die and restart?

Permanent == {"auth_failed", "insufficient_quota"}
SystemReason == Permanent \cup {"spend_limit_exhausted", "empty_response"}
Reason == Fault \cup Justification \cup SystemReason \cup {""}
Status == {"active", "rate_limited", "disabled", "absent"}
Row == [status : Status, until : Nat, reason : Reason, spent : Nat, limit : Nat]
View == [status : Status, until : Nat, reason : Reason]

(* A payload names the fields it sets; `after` is the cooldown it asks     *)
(* for, counted from now.                                                  *)
EditSpace == [sets : SUBSET {"status", "until", "reason", "limit"},
              status : Status \ {"absent"}, after : Nat,
              reason : Justification \cup {""}, limit : Nat]

ASSUME ActorAssumption == Free \notin Actor
ASSUME FaultAssumption == Fault \cap {"", "ok", "none", "empty_response",
                                      "spend_limit_exhausted"} = {}
ASSUME TimeAssumption == /\ Cooldown \subseteq Nat
                         /\ EmptyCooldown \in Nat
                         /\ EmptyWindow \in Nat
                         /\ MaxNow \in Nat
ASSUME EmptyAssumption == EmptyThreshold \in Nat /\ EmptyDisable \in BOOLEAN
ASSUME EditAssumption == Edit \subseteq EditSpace
ASSUME BudgetAssumption == Cost \subseteq Nat /\ Limit \subseteq Nat
                           /\ MaxSpent \in Nat
ASSUME FailureAssumption == DbMayFail \in BOOLEAN /\ MayCrash \in BOOLEAN

VARIABLES
  now,      \* the wall clock
  row,      \* the key's row in SQLite
  mem,      \* the engine's cached copy, which selection reads
  outcome,  \* Engine.outcomes[key]
  lock,     \* Engine.statusLocks[key]: who holds it
  pc, job,  \* where each actor is, and its local variables
  \* History, read by no action: the two latest observations since the
  \* streaks were cleared, the parity of admin writes.
  lastTwo, edits

hist == <<lastTwo, edits>>
vars == <<now, row, mem, outcome, lock, pc, job, hist>>

Capped(r) == r.limit > 0 /\ r.spent >= r.limit
(* Definitions named ..Broken are plausible slips; no other definition uses *)
(* them.  They show that the properties would notice.                      *)
Cached(r) == [status |-> r.status, until |-> r.until, reason |-> r.reason]
Absent == [status |-> "absent", until |-> 0, reason |-> "", spent |-> 0, limit |-> 0]
NewRow(s, l) == [Absent EXCEPT !.status = s, !.limit = l]
FreshOutcome == [succ |-> 0, fail |-> 0, last |-> "", empty |-> 0, lastEmpty |-> 0]
NoJob == [reason |-> "", cooldown |-> 0, disable |-> FALSE, at |-> 0]
UpTo(n, bound) == IF n > bound THEN bound ELSE n

(* Steps that hold the key lock, and those of them that owe the cache an   *)
(* update for an UPDATE already made.                                      *)
CacheStep == {"coolMem", "relabelMem", "disableMem", "readmitMem"}
LockedStep == CacheStep \cup {"cool", "relabel", "disable", "readmit"}
AdminStep == {"reread", "reset", "refresh"}
Step == LockedStep \cup AdminStep \cup {"idle", "empty", "reload", "cap"}

(* A request selects the key on the cached copy alone (isKeyAvailable).    *)
Available == \/ mem.status = "active"
             \/ mem.status = "rate_limited" /\ mem.until # 0 /\ now > mem.until

Init ==
  /\ now = 1
  /\ \E l \in Limit : row = NewRow("active", l)
  /\ mem = Cached(row)
  /\ outcome = FreshOutcome
  /\ lock = Free
  /\ pc = [a \in Actor |-> "idle"]
  /\ job = [a \in Actor |-> NoJob]
  /\ lastTwo = <<"none", "none">>
  /\ edits = FALSE

Goto(a, to) == pc' = [pc EXCEPT ![a] = to]
Return(a) == Goto(a, "idle") /\ job' = [job EXCEPT ![a] = NoJob]
Release(a) == Return(a) /\ lock' = Free
Start(a) == pc[a] = "idle" /\ lock = Free
Locked(a, at) == pc[a] = at /\ lock = a

-----------------------------------------------------------------------------
(* RecordResult: the streak bookkeeping, under the key lock.               *)

Observed(o) == /\ lastTwo' = <<lastTwo[2], o>>
               /\ UNCHANGED edits
Forgotten == lastTwo' = <<"none", "none">> /\ UNCHANGED edits

ObserveSuccess(a) ==
  /\ Start(a)
  /\ outcome' = [FreshOutcome EXCEPT !.succ = UpTo(outcome.succ + 1, 2)]
  /\ Observed("ok")
  /\ IF outcome.succ + 1 >= 2 THEN lock' = a /\ Goto(a, "readmit")
                              ELSE UNCHANGED <<lock, pc>>
  /\ UNCHANGED <<now, row, mem, job>>

ObserveFailure(a, r, d) ==
  LET streak == IF outcome.last = r THEN UpTo(outcome.fail + 1, 2) ELSE 1 IN
  /\ Start(a)
  /\ outcome' = [outcome EXCEPT !.succ = 0, !.fail = streak, !.last = r]
  /\ Observed(r)
  /\ lock' = a
  /\ Goto(a, "cool")
  /\ job' = [job EXCEPT ![a] = [reason |-> r, cooldown |-> d, at |-> 0,
                                disable |-> streak >= 2 /\ r \in Permanent]]
  /\ UNCHANGED <<now, row, mem>>

(* RecordEmptyResponse reads the clock, then takes the lock and counts.    *)
(* The count is only ever compared with the threshold, so it stops there.  *)
EmptyArrives(a) ==
  /\ EmptyThreshold > 0
  /\ pc[a] = "idle"
  /\ Goto(a, "empty")
  /\ job' = [job EXCEPT ![a].at = now]
  /\ UNCHANGED <<now, row, mem, outcome, lock, hist>>

ObserveEmpty(a) ==
  LET stale == /\ EmptyWindow > 0
               /\ outcome.lastEmpty # 0
               /\ job[a].at > outcome.lastEmpty + EmptyWindow
      streak == IF stale THEN 1 ELSE UpTo(outcome.empty + 1, EmptyThreshold)
  IN
  /\ pc[a] = "empty" /\ lock = Free
  /\ outcome' = [outcome EXCEPT !.empty = streak, !.lastEmpty = job[a].at]
  /\ IF streak < EmptyThreshold
       THEN Return(a) /\ UNCHANGED <<lock, hist>>
       ELSE /\ lock' = a
            /\ Goto(a, "cool")
            /\ job' = [job EXCEPT ![a] = [reason |-> "empty_response", at |-> 0,
                          cooldown |-> EmptyCooldown, disable |-> EmptyDisable]]
            /\ UNCHANGED hist
  /\ UNCHANGED <<now, row, mem>>

-----------------------------------------------------------------------------
(* failKeyLocked and persistKeyReason.                                     *)

AfterCoolBroken(a) ==
  UNCHANGED lock /\ IF job[a].disable THEN Goto(a, "disable") /\ UNCHANGED job
                                      ELSE Return(a)
AfterCool(a) == IF job[a].disable THEN Goto(a, "disable") /\ UNCHANGED <<job, lock>>
                                  ELSE Release(a)

CanCoolBroken(until) == row.status \notin {"disabled", "absent"} /\ ~Capped(row)
CanCool(until) == /\ row.status \notin {"disabled", "absent"}
                  /\ row.until <= until
                  /\ ~Capped(row)

CoolRow(a) ==
  LET until == now + job[a].cooldown IN
  /\ Locked(a, "cool")
  /\ IF CanCool(until)
       THEN /\ row' = [row EXCEPT !.status = "rate_limited", !.until = until,
                                  !.reason = job[a].reason]
            /\ job' = [job EXCEPT ![a].at = until]
            /\ Goto(a, "coolMem")
       ELSE Goto(a, "relabel") /\ UNCHANGED <<row, job>>
  /\ UNCHANGED <<now, mem, outcome, lock, hist>>

CoolCacheBroken(a) ==
  /\ Locked(a, "coolMem")
  /\ mem' = [mem EXCEPT !.until = job[a].at, !.reason = job[a].reason]
  /\ AfterCool(a)
  /\ UNCHANGED <<now, row, outcome, hist>>

CoolCache(a) ==
  /\ Locked(a, "coolMem")
  /\ mem' = IF mem.status = "absent" THEN mem
            ELSE [status |-> "rate_limited", until |-> job[a].at, reason |-> job[a].reason]
  /\ AfterCool(a)
  /\ UNCHANGED <<now, row, outcome, hist>>

CanRelabel(r) == row.status = "rate_limited" /\ row.reason # r /\ ~Capped(row)

RelabelRow(a) ==
  /\ Locked(a, "relabel")
  /\ IF CanRelabel(job[a].reason)
       THEN /\ row' = [row EXCEPT !.reason = job[a].reason]
            /\ Goto(a, "relabelMem")
            /\ UNCHANGED <<job, lock>>
       ELSE AfterCool(a) /\ UNCHANGED row
  /\ UNCHANGED <<now, mem, outcome, hist>>

RelabelCache(a) ==
  /\ Locked(a, "relabelMem")
  /\ mem' = IF mem.status = "absent" THEN mem ELSE [mem EXCEPT !.reason = job[a].reason]
  /\ AfterCool(a)
  /\ UNCHANGED <<now, row, outcome, hist>>

-----------------------------------------------------------------------------
(* markKeyDisabledLocked: the row keeps its rate_limited_until, the cache  *)
(* drops it.                                                               *)

DisableRow(a) ==
  /\ Locked(a, "disable")
  /\ IF row.status \notin {"disabled", "absent"}
       THEN /\ row' = [row EXCEPT !.status = "disabled", !.reason = job[a].reason]
            /\ Goto(a, "disableMem")
            /\ UNCHANGED <<job, lock>>
       ELSE Release(a) /\ UNCHANGED row
  /\ UNCHANGED <<now, mem, outcome, hist>>

DisableCache(a) ==
  /\ Locked(a, "disableMem")
  /\ mem' = IF mem.status = "absent" THEN mem
            ELSE [status |-> "disabled", until |-> 0, reason |-> job[a].reason]
  /\ Release(a)
  /\ UNCHANGED <<now, row, outcome, hist>>

CanReadmitBroken == /\ row.status # "absent"
                    /\ row.status # "active" \/ row.reason # "" \/ row.until # 0
                    /\ ~Capped(row) /\ row.until <= now
(* markKeyActiveLocked: one guarded UPDATE.                                *)
CanReadmit ==
  /\ row.status # "absent"
  /\ row.status # "active" \/ row.reason # "" \/ row.until # 0
  /\ row.status # "disabled" \/ row.reason \in SystemReason
  /\ ~Capped(row)
  /\ row.until <= now

ReadmitRow(a) ==
  /\ Locked(a, "readmit")
  /\ IF CanReadmit
       THEN /\ row' = [row EXCEPT !.status = "active", !.until = 0, !.reason = ""]
            /\ Goto(a, "readmitMem")
            /\ UNCHANGED <<job, lock>>
       ELSE Release(a) /\ UNCHANGED row
  /\ UNCHANGED <<now, mem, outcome, hist>>

ReadmitCache(a) ==
  /\ Locked(a, "readmitMem")
  /\ mem' = IF mem.status = "absent" THEN mem
            ELSE [status |-> "active", until |-> 0, reason |-> ""]
  /\ Release(a)
  /\ UNCHANGED <<now, row, outcome, hist>>

(* A status UPDATE that errors changes nothing and is not retried.         *)
DbError(a) ==
  /\ DbMayFail
  /\ lock = a
  /\ \/ pc[a] \in {"cool", "relabel"} /\ AfterCool(a)
     \/ pc[a] \in {"disable", "readmit"} /\ Release(a)
  /\ UNCHANGED <<now, row, mem, outcome, hist>>

-----------------------------------------------------------------------------
(* ChatHandler.applySpendLimit: increment, reload, and only then the lock. *)

AddSpend(a, c) ==
  /\ pc[a] = "idle"
  /\ row.status # "absent" /\ row.spent + c <= MaxSpent
  /\ row' = [row EXCEPT !.spent = @ + c]
  /\ Goto(a, "reload")
  /\ UNCHANGED <<now, mem, outcome, lock, job, hist>>

ReloadSpendBroken(a) ==
  /\ pc[a] = "reload"
  /\ IF row.limit > 0 /\ row.spent > row.limit
       THEN Goto(a, "cap") /\ job' = [job EXCEPT ![a].reason = "spend_limit_exhausted"]
       ELSE Return(a)
  /\ UNCHANGED <<now, row, mem, outcome, lock, hist>>

ReloadSpend(a) ==
  /\ pc[a] = "reload"
  /\ IF row.status # "absent" /\ Capped(row)
       THEN Goto(a, "cap") /\ job' = [job EXCEPT ![a].reason = "spend_limit_exhausted"]
       ELSE Return(a)
  /\ UNCHANGED <<now, row, mem, outcome, lock, hist>>

DisableCapped(a) ==
  /\ pc[a] = "cap" /\ lock = Free
  /\ lock' = a
  /\ Goto(a, "disable")
  /\ UNCHANGED <<now, row, mem, outcome, job, hist>>

-----------------------------------------------------------------------------
(* Admin handlers: write the row without the key lock, then ResetOutcome   *)
(* (which takes it), then Refresh.                                         *)

Edited == edits' = ~edits /\ UNCHANGED lastTwo

AdminWrite(a, newRow, next) ==
  /\ pc[a] = "idle"
  /\ row' = newRow
  /\ Goto(a, next)
  /\ Edited
  /\ UNCHANGED <<now, mem, outcome, lock, job>>

(* An explicit "status":"disabled" without a reason of its own clears the  *)
(* stored reason.                                                          *)
Merge(r, e) ==
  [status |-> IF "status" \in e.sets THEN e.status ELSE r.status,
   until  |-> IF "until" \in e.sets THEN now + e.after ELSE r.until,
   reason |-> CASE "reason" \in e.sets -> e.reason
                [] {"status", "reason"} \cap e.sets = {"status"}
                     /\ e.status = "disabled" -> ""
                [] OTHER -> r.reason,
   spent  |-> r.spent,
   limit  |-> IF "limit" \in e.sets THEN e.limit ELSE r.limit]

UpdateKey(a, e) == row.status # "absent" /\ AdminWrite(a, Merge(row, e), "reread")

ResetKeySpend(a) ==
  /\ row.status # "absent"
  /\ AdminWrite(a, [row EXCEPT !.spent = 0, !.status = "active", !.reason = ""], "reset")

CreateKey(a, s, l) == row.status = "absent" /\ AdminWrite(a, NewRow(s, l), "reset")

DeleteKey(a) == row.status # "absent" /\ AdminWrite(a, Absent, "reset")

(* UpdateKey answers 404 here when the row has meanwhile been deleted.     *)
Reread(a) ==
  /\ pc[a] = "reread"
  /\ Goto(a, IF row.status = "absent" THEN "idle" ELSE "reset")
  /\ UNCHANGED <<now, row, mem, outcome, lock, job, hist>>

ResetOutcomeBroken(a) ==
  /\ pc[a] = "reset"
  /\ outcome' = FreshOutcome
  /\ Forgotten
  /\ Goto(a, "refresh")
  /\ UNCHANGED <<now, row, mem, lock, job>>

ResetOutcome(a) ==
  /\ pc[a] = "reset" /\ lock = Free
  /\ outcome' = FreshOutcome
  /\ Forgotten
  /\ Goto(a, "refresh")
  /\ UNCHANGED <<now, row, mem, lock, job>>

Refresh(a) ==
  /\ pc[a] = "refresh"
  /\ mem' = Cached(row)
  /\ Goto(a, "idle")
  /\ UNCHANGED <<now, row, outcome, lock, job, hist>>

(* Edits of providers, models and routes refresh the engine too.           *)
OtherRefresh ==
  /\ mem' = Cached(row)
  /\ UNCHANGED <<now, row, outcome, lock, pc, job, hist>>

-----------------------------------------------------------------------------
(* The process dies: every goroutine, lock, streak and cached copy goes,   *)
(* the row stays; NewEngine reloads it.                                    *)
Restart ==
  /\ MayCrash
  /\ mem' = Cached(row)
  /\ outcome' = FreshOutcome
  /\ lock' = Free
  /\ pc' = [a \in Actor |-> "idle"]
  /\ job' = [a \in Actor |-> NoJob]
  /\ Forgotten
  /\ UNCHANGED <<now, row>>

Tick ==
  /\ now < MaxNow
  /\ now' = now + 1
  /\ UNCHANGED <<row, mem, outcome, lock, pc, job, hist>>

Observe(a) == \/ ObserveSuccess(a)
              \/ \E r \in Fault, d \in Cooldown : ObserveFailure(a, r, d)
              \/ EmptyArrives(a)
              \/ ObserveEmpty(a)

Settle(a) == \/ CoolRow(a) \/ CoolCache(a) \/ RelabelRow(a) \/ RelabelCache(a)
             \/ DisableRow(a) \/ DisableCache(a) \/ ReadmitRow(a) \/ ReadmitCache(a)
             \/ DbError(a)

Spend(a) == (\E c \in Cost : AddSpend(a, c)) \/ ReloadSpend(a) \/ DisableCapped(a)

Administer(a) ==
  \/ \E e \in Edit : UpdateKey(a, e)
  \/ \E l \in Limit, s \in Status \ {"absent"} : CreateKey(a, s, l)
  \/ ResetKeySpend(a) \/ DeleteKey(a)
  \/ Reread(a) \/ ResetOutcome(a) \/ Refresh(a)

Next == \/ \E a \in Actor : Observe(a) \/ Settle(a) \/ Spend(a) \/ Administer(a)
        \/ OtherRefresh \/ Restart \/ Tick

Spec == Init /\ [][Next]_vars

-----------------------------------------------------------------------------
(* Properties.                                                             *)

Observation == Fault \cup {"ok", "none"}
OutcomeType == [succ : Nat, fail : Nat, last : Fault \cup {""},
                empty : Nat, lastEmpty : Nat]
JobType == [reason : Reason, cooldown : Nat, disable : BOOLEAN, at : Nat]

TypeOK ==
  /\ now \in Nat \ {0}
  /\ row \in Row
  /\ mem \in View
  /\ outcome \in OutcomeType
  /\ lock \in Actor \cup {Free}
  /\ pc \in [Actor -> Step]
  /\ job \in [Actor -> JobType]
  /\ lastTwo \in Observation \X Observation
  /\ edits \in BOOLEAN

(* lockKeyStatus: at most one goroutine is inside the key's status writes, *)
(* and it is the one that holds the lock.                                  *)
LockDiscipline == \A a \in Actor : pc[a] \in LockedStep <=> lock = a

(* The cached copy agrees with the row.  A disabled key's cooldown is the  *)
(* exception: markKeyDisabledLocked drops it from the cache only.          *)
Coherent == /\ mem.status = row.status
            /\ mem.reason = row.reason
            /\ row.status # "disabled" => mem.until = row.until

(* Whenever no goroutine is between a row write and the cache write (or    *)
(* Refresh) it owes, the selector routes on exactly what the database      *)
(* says, however relay results, probes, spend caps, admin edits, deletions *)
(* and restarts interleaved before.                                        *)
CoherentAtRest == (\A a \in Actor : pc[a] \notin CacheStep \cup AdminStep) => Coherent

(* Every automatic change of the row is one the key's life cycle allows    *)
(* (KeyLifecycle), whatever else is in flight.                             *)
Lifecycle == INSTANCE KeyLifecycle
  WITH EmptyOn <- EmptyThreshold > 0
ImplementsLifecycle == Lifecycle!Spec

AdminBusy == \E a \in Actor : pc[a] \in AdminStep
ReportsFailure(a) == pc[a] \in LockedStep \ {"readmit", "readmitMem"} /\ pc'[a] = "idle"
OutOfRotation == mem'.status # "active" \/ Capped(row') \/ AdminBusy

(* When a failed observation has been dealt with, the key is out of        *)
(* rotation, so the retry loop goes on to another one -- unless its budget *)
(* is spent (applySpendLimit is about to disable it), an admin is editing  *)
(* it, or the active row kept an older cooldown through a status edit or a *)
(* spend reset: the guard of failKey leaves a longer one alone.            *)
FailureLeavesRotation ==
  [][ \A a \in Actor :
          ReportsFailure(a) => \/ OutOfRotation
                               \/ row'.status = "active" /\ row'.until # 0 ]_vars

-----------------------------------------------------------------------------
(* Strengthenings: why the properties above hold in every reachable state. *)

(* An admin who has written the row and still has to pass the key lock,    *)
(* or at least to refresh.                                                 *)
Blocked == \E b \in Actor : \/ pc[b] = "reset"
                            \/ pc[b] = "reread" /\ row.status # "absent"
Pending == Blocked \/ \E b \in Actor : pc[b] = "refresh"

(* A goroutine about to write the cache writes what the row says, unless   *)
(* an admin has written the row since: that admin is still before the      *)
(* lock, so its Refresh comes later.                                       *)
Owed(a) ==
  /\ pc[a] = "coolMem" => \/ Blocked
                          \/ /\ row.status = "rate_limited"
                             /\ row.until = job[a].at /\ row.reason = job[a].reason
  /\ pc[a] = "relabelMem" => \/ Blocked
                             \/ /\ row.status = "rate_limited"
                                /\ row.reason = job[a].reason
                                /\ \/ Pending
                                   \/ mem.status = row.status /\ mem.until = row.until
  /\ pc[a] = "disableMem" => \/ Blocked
                             \/ row.status = "disabled" /\ row.reason = job[a].reason
  /\ pc[a] = "readmitMem" => \/ Blocked
                             \/ row.status = "active" /\ row.until = 0 /\ row.reason = ""

CacheInv ==
  /\ \A a \in Actor : Owed(a)
  /\ Pending \/ (mem.status = "absent" <=> row.status = "absent")
  /\ Pending \/ (\E a \in Actor : pc[a] \in CacheStep) \/ Coherent

(* The streak counters abbreviate the observations they count, and what a  *)
(* goroutine does under the lock rests on them.                            *)
StreakInv ==
  /\ outcome.succ >= 1 => lastTwo[2] = "ok"
  /\ outcome.succ >= 2 => lastTwo = <<"ok", "ok">>
  /\ outcome.last # "" => outcome.fail >= 1
  /\ outcome.fail >= 1 => lastTwo[2] = outcome.last
  /\ outcome.fail >= 2 => lastTwo = <<outcome.last, outcome.last>>

CoolStep == {"cool", "coolMem", "relabel", "relabelMem"}
Warranted(a, r) ==
  /\ pc[a] \in CoolStep =>
       \/ r \in Fault /\ lastTwo[2] = r
       \/ r = "empty_response" /\ EmptyThreshold > 0
  /\ pc[a] = "disable" \/ (pc[a] \in CoolStep /\ job[a].disable) =>
       \/ r \in Permanent /\ lastTwo = <<r, r>>
       \/ r = "empty_response" /\ EmptyThreshold > 0
       \/ r = "spend_limit_exhausted" /\ pc[a] = "disable"
  /\ pc[a] = "cap" => r = "spend_limit_exhausted"
  /\ pc[a] = "readmit" => lastTwo = <<"ok", "ok">>
  /\ pc[a] = "empty" => EmptyThreshold > 0

WarrantInv == StreakInv /\ \A a \in Actor : Warranted(a, job[a].reason)

-----------------------------------------------------------------------------
(* Fairness: a goroutine that can run does run, and a Go mutex hands the   *)
(* lock to a waiter that keeps asking for it.  Nothing makes requests,     *)
(* probes, admins, the clock or a crash happen.                            *)
Runs(a) == \/ Settle(a) \/ ReloadSpend(a) \/ Reread(a) \/ Refresh(a)
Acquires(a) == ObserveEmpty(a) \/ DisableCapped(a) \/ ResetOutcome(a)
FairSpec == Spec /\ \A a \in Actor : WF_vars(Runs(a)) /\ SF_vars(Acquires(a))

(* A key whose lifetime budget is used up leaves the rotation.             *)
CappedKeyTakenOut ==
  (Capped(row) /\ row.status = "active") ~> (~Capped(row) \/ row.status # "active")

(* An accepted admin edit gets through the busy key lock to the selector.  *)
EditReachesSelector == \A a \in Actor : pc[a] = "reset" ~> pc[a] = "idle"

=============================================================================
