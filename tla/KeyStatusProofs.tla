--------------------------- MODULE KeyStatusProofs ---------------------------
(***************************************************************************)
(* Proofs about KeyStatus, for any number of goroutines, any reasons,      *)
(* cooldowns, budgets and provider settings, with failing UPDATEs and      *)
(* crashes.                                                                *)
(***************************************************************************)
EXTENDS KeyStatus, TLAPS

USE DEF Step, LockedStep, CacheStep, AdminStep

Assumptions == /\ Free \notin Actor
               /\ Cooldown \subseteq Nat /\ EmptyCooldown \in Nat
               /\ EmptyThreshold \in Nat /\ EmptyDisable \in BOOLEAN
               /\ Edit \subseteq EditSpace
               /\ Cost \subseteq Nat /\ Limit \subseteq Nat

LEMMA ConstantsOK == Assumptions
  BY ActorAssumption, TimeAssumption, EmptyAssumption, EditAssumption, BudgetAssumption
     DEF Assumptions

LEMMA UpToNat ==
  ASSUME NEW n \in Nat, NEW b \in Nat
  PROVE  UpTo(n, b) \in Nat /\ UpTo(n, b) <= b /\ UpTo(n, b) <= n
  BY DEF UpTo

LEMMA NatPlus == \A m, n \in Nat : m + n \in Nat
  OBVIOUS

LEMMA FreshOutcomeType == FreshOutcome \in OutcomeType
  BY DEF FreshOutcome, OutcomeType

(* Initially everything has its type.                                      *)
LEMMA InitType == Init => TypeOK
  <1> SUFFICES ASSUME Init PROVE TypeOK
    OBVIOUS
  <1> USE ConstantsOK DEF Assumptions
  <1>1. row \in Row
    <2>1. PICK l \in Limit : row = NewRow("active", l)
      BY DEF Init
    <2>2. l \in Nat /\ "" \in Reason
      BY DEF Reason
    <2>3. QED
      BY <2>1, <2>2 DEF NewRow, Absent, Row, Status
  <1>2. mem \in View
    BY <1>1 DEF Init, Cached, Row, View
  <1>3. outcome \in OutcomeType
    BY FreshOutcomeType DEF Init
  <1>4. job \in [Actor -> JobType]
    BY DEF Init, NoJob, Reason, JobType
  <1>5. /\ now \in Nat \ {0}
        /\ lock \in Actor \cup {Free}
        /\ pc \in [Actor -> Step]
        /\ lastTwo \in Observation \X Observation
        /\ edits \in BOOLEAN
    <2>1. /\ now = 1 /\ lock = Free /\ pc = [a \in Actor |-> "idle"]
          /\ lastTwo = <<"none", "none">>
          /\ edits = FALSE
      BY DEF Init
    <2>2. lastTwo \in Observation \X Observation
      BY <2>1 DEF Observation
    <2>3. pc \in [Actor -> Step]
      BY <2>1
    <2>4. edits \in BOOLEAN
      BY <2>1, Zenon
    <2>5. now \in Nat \ {0}
      BY <2>1
    <2>6. QED
      BY <2>1, <2>2, <2>3, <2>4, <2>5, Zenon
  <1>6. QED
    BY <1>1, <1>2, <1>3, <1>4, <1>5 DEF TypeOK

(* Jobs: what a goroutine carries stays a job when it moves or returns.    *)
LEMMA JobUpdate ==
  ASSUME job \in [Actor -> JobType], NEW a \in Actor, NEW j \in JobType
  PROVE  [job EXCEPT ![a] = j] \in [Actor -> JobType]
  OBVIOUS

LEMMA ReturnType ==
  ASSUME TypeOK, NEW a \in Actor, Return(a)
  PROVE  pc' \in [Actor -> Step] /\ job' \in [Actor -> JobType]
  <1>1. NoJob \in JobType
    BY DEF NoJob, JobType, Reason
  <1>2. QED
    BY <1>1, JobUpdate DEF TypeOK, Return, Goto

LEMMA AfterCoolType ==
  ASSUME TypeOK, NEW a \in Actor, AfterCool(a)
  PROVE  /\ pc' \in [Actor -> Step]
         /\ job' \in [Actor -> JobType]
         /\ lock' \in Actor \cup {Free}
  BY ReturnType DEF AfterCool, Release, Goto, TypeOK

(* Every observation leaves the streaks, the job and the history well      *)
(* typed.                                                                  *)
LEMMA ObserveType == ASSUME TypeOK, NEW a \in Actor, Observe(a) PROVE TypeOK'
  <1> USE ConstantsOK DEF Assumptions
  <1>f. /\ outcome.succ \in Nat /\ outcome.fail \in Nat
        /\ outcome.empty \in Nat /\ outcome.lastEmpty \in Nat
    BY DEF TypeOK, OutcomeType
  <1>1. ASSUME NEW o \in Fault \cup {"ok"}, Observed(o)
        PROVE  /\ lastTwo' \in Observation \X Observation
               /\ edits' \in BOOLEAN
    BY <1>1, UpToNat DEF TypeOK, Observation, Observed
  <1>2. CASE ObserveSuccess(a)
    <2>1. UpTo(outcome.succ + 1, 2) \in Nat
      <3>1. outcome.succ + 1 \in Nat
        BY <1>f
      <3>2. QED
        BY <3>1, UpToNat
    <2>2. outcome' \in OutcomeType
      BY <1>2, <2>1, FreshOutcomeType DEF ObserveSuccess, OutcomeType
    <2>3. lock' \in Actor \cup {Free} /\ pc' \in [Actor -> Step]
      BY <1>2 DEF ObserveSuccess, Goto, TypeOK
    <2>4. QED
      BY <1>1, <1>2, <2>2, <2>3 DEF ObserveSuccess, TypeOK
  <1>3. ASSUME NEW r \in Fault, NEW d \in Cooldown, ObserveFailure(a, r, d)
        PROVE  TypeOK'
    <2> DEFINE streak == IF outcome.last = r THEN UpTo(outcome.fail + 1, 2) ELSE 1
    <2>1. streak \in Nat
      <3>1. outcome.fail + 1 \in Nat
        BY <1>f
      <3>2. QED
        BY <3>1, UpToNat
    <2>2. outcome' = [outcome EXCEPT !.succ = 0, !.fail = streak, !.last = r]
      BY <1>3 DEF ObserveFailure
    <2>3. outcome' \in OutcomeType
      <3> HIDE DEF streak
      <3> QED BY <2>1, <2>2 DEF TypeOK, OutcomeType
    <2>4. PICK disable \in BOOLEAN :
            job' = [job EXCEPT ![a] = [reason |-> r, cooldown |-> d, at |-> 0,
                                       disable |-> disable]]
      BY <1>3 DEF ObserveFailure
    <2>5. job' \in [Actor -> JobType]
      BY <2>4 DEF JobType, Reason, TypeOK
    <2>6. lock' \in Actor \cup {Free} /\ pc' \in [Actor -> Step]
      BY <1>3 DEF ObserveFailure, Goto, TypeOK
    <2>7. QED
      BY <1>1, <1>3, <2>3, <2>5, <2>6 DEF ObserveFailure, TypeOK
  <1>4. CASE EmptyArrives(a)
    BY <1>4 DEF EmptyArrives, Goto, TypeOK, JobType, hist
  <1>5. CASE ObserveEmpty(a)
    <2> DEFINE stale == /\ EmptyWindow > 0
                        /\ outcome.lastEmpty # 0
                        /\ job[a].at > outcome.lastEmpty + EmptyWindow
               streak == IF stale THEN 1 ELSE UpTo(outcome.empty + 1, EmptyThreshold)
    <2>1. streak \in Nat
      <3>1. outcome.empty + 1 \in Nat
        BY <1>f
      <3>2. UpTo(outcome.empty + 1, EmptyThreshold) \in Nat
        BY <3>1, UpToNat
      <3>3. QED
        BY <3>2
    <2>2. outcome' = [outcome EXCEPT !.empty = streak, !.lastEmpty = job[a].at]
      BY <1>5 DEF ObserveEmpty
    <2>3. job[a].at \in Nat
      BY DEF TypeOK, JobType
    <2>4. outcome' \in OutcomeType
      <3> HIDE DEF streak
      <3> QED BY <2>1, <2>2, <2>3 DEF TypeOK, OutcomeType
    <2>5. \/ Return(a) /\ UNCHANGED <<lock, hist>>
          \/ /\ lock' = a /\ Goto(a, "cool")
             /\ job' = [job EXCEPT ![a] = [reason |-> "empty_response", at |-> 0,
                          cooldown |-> EmptyCooldown, disable |-> EmptyDisable]]
             /\ UNCHANGED hist
      BY <1>5 DEF ObserveEmpty
    <2>6. [reason |-> "empty_response", at |-> 0,
           cooldown |-> EmptyCooldown, disable |-> EmptyDisable] \in JobType
      BY DEF JobType, Reason, SystemReason
    <2>7. job' \in [Actor -> JobType] /\ pc' \in [Actor -> Step]
          /\ lock' \in Actor \cup {Free}
      BY <2>5, <2>6, ReturnType, JobUpdate DEF Goto, TypeOK
    <2>8. UNCHANGED <<now, row, mem>>
      BY <1>5 DEF ObserveEmpty
    <2>9. QED
      BY <2>4, <2>5, <2>7, <2>8 DEF TypeOK, hist
  <1>6. QED
    BY <1>2, <1>3, <1>4, <1>5 DEF Observe

(* The status updates write rows and cached copies of the right shape.     *)
LEMMA SettleType == ASSUME TypeOK, NEW a \in Actor, Settle(a) PROVE TypeOK'
  <1> USE ConstantsOK DEF Assumptions
  <1>f. /\ job[a].reason \in Reason /\ job[a].at \in Nat /\ job[a].cooldown \in Nat
        /\ "" \in Reason /\ now \in Nat
    BY DEF TypeOK, JobType, Reason
  <1>1. CASE CoolRow(a)
    <2>1. now + job[a].cooldown \in Nat
      BY <1>f, NatPlus, Zenon
    <2>2. row' \in Row
      <3>1. \/ row' = row
            \/ row' = [row EXCEPT !.status = "rate_limited",
                                  !.until = now + job[a].cooldown, !.reason = job[a].reason]
        BY <1>1 DEF CoolRow
      <3>2. QED
        BY <1>f, <2>1, <3>1 DEF TypeOK, Row, Status
    <2>3. job' \in [Actor -> JobType]
      BY <1>1, <2>1 DEF CoolRow, TypeOK, JobType
    <2>4. pc' \in [Actor -> Step]
      BY <1>1 DEF CoolRow, TypeOK, Goto
    <2>5. QED
      BY <1>1, <2>2, <2>3, <2>4 DEF CoolRow, TypeOK, hist
  <1>2. CASE CoolCache(a)
    <2>1. mem' \in View
      BY <1>2, <1>f DEF CoolCache, TypeOK, View, Status
    <2>2. QED
      BY <1>2, <2>1, AfterCoolType DEF CoolCache, TypeOK, hist
  <1>3. CASE RelabelRow(a)
    <2>1. row' \in Row
      BY <1>3, <1>f DEF RelabelRow, TypeOK, Row
    <2>2. /\ pc' \in [Actor -> Step]
          /\ job' \in [Actor -> JobType]
          /\ lock' \in Actor \cup {Free}
      BY <1>3, AfterCoolType DEF RelabelRow, Goto, TypeOK
    <2>3. QED
      BY <1>3, <2>1, <2>2 DEF RelabelRow, TypeOK, hist
  <1>4. CASE RelabelCache(a)
    <2>1. mem' \in View
      BY <1>4, <1>f DEF RelabelCache, TypeOK, View
    <2>2. QED
      BY <1>4, <2>1, AfterCoolType DEF RelabelCache, TypeOK, hist
  <1>5. CASE DisableRow(a)
    <2>1. row' \in Row
      <3>1. \/ row' = row
            \/ row' = [row EXCEPT !.status = "disabled", !.reason = job[a].reason]
        BY <1>5 DEF DisableRow
      <3>2. [row EXCEPT !.status = "disabled", !.reason = job[a].reason] \in Row
        BY <1>f DEF TypeOK, Row, Status
      <3>3. QED
        BY <3>1, <3>2 DEF TypeOK
    <2>2. /\ pc' \in [Actor -> Step]
          /\ job' \in [Actor -> JobType]
          /\ lock' \in Actor \cup {Free}
      BY <1>5, ReturnType DEF DisableRow, Release, Goto, TypeOK
    <2>3. QED
      BY <1>5, <2>1, <2>2 DEF DisableRow, TypeOK, hist
  <1>6. CASE DisableCache(a)
    <2>1. mem' \in View
      BY <1>6, <1>f DEF DisableCache, TypeOK, View, Status
    <2>2. QED
      BY <1>6, <2>1, ReturnType DEF DisableCache, Release, TypeOK, hist
  <1>7. CASE ReadmitRow(a)
    <2>1. row' \in Row
      <3>1. \/ row' = row
            \/ row' = [row EXCEPT !.status = "active", !.until = 0, !.reason = ""]
        BY <1>7 DEF ReadmitRow
      <3>2. [row EXCEPT !.status = "active", !.until = 0, !.reason = ""] \in Row
        BY <1>f DEF TypeOK, Row, Status
      <3>3. QED
        BY <3>1, <3>2 DEF TypeOK
    <2>2. /\ pc' \in [Actor -> Step]
          /\ job' \in [Actor -> JobType]
          /\ lock' \in Actor \cup {Free}
      BY <1>7, ReturnType DEF ReadmitRow, Release, Goto, TypeOK
    <2>3. QED
      BY <1>7, <2>1, <2>2 DEF ReadmitRow, TypeOK, hist
  <1>8. CASE ReadmitCache(a)
    <2>1. mem' \in View
      BY <1>8, <1>f DEF ReadmitCache, TypeOK, View, Status
    <2>2. QED
      BY <1>8, <2>1, ReturnType DEF ReadmitCache, Release, TypeOK, hist
  <1>9. CASE DbError(a)
    BY <1>9, ReturnType, AfterCoolType DEF DbError, Release, TypeOK, hist
  <1>10. QED
    BY <1>1, <1>2, <1>3, <1>4, <1>5, <1>6, <1>7, <1>8, <1>9 DEF Settle

LEMMA SpendType == ASSUME TypeOK, NEW a \in Actor, Spend(a) PROVE TypeOK'
  <1> USE ConstantsOK DEF Assumptions
  <1>1. ASSUME NEW c \in Cost, AddSpend(a, c) PROVE TypeOK'
    <2>1. row.spent + c \in Nat
      <3>1. row.spent \in Nat /\ c \in Nat
        BY DEF TypeOK, Row
      <3>2. QED
        BY <3>1
    <2>2. row' \in Row
      BY <1>1, <2>1 DEF AddSpend, TypeOK, Row
    <2>3. QED
      BY <1>1, <2>2 DEF AddSpend, TypeOK, Goto, hist
  <1>2. CASE ReloadSpend(a)
    <2>1. job' \in [Actor -> JobType] /\ pc' \in [Actor -> Step]
      <3>1. CASE Return(a)
        BY <3>1, ReturnType
      <3>2. CASE /\ Goto(a, "cap")
                 /\ job' = [job EXCEPT ![a].reason = "spend_limit_exhausted"]
        <4>1. "spend_limit_exhausted" \in Reason
          BY DEF Reason, SystemReason
        <4>2. QED
          BY <3>2, <4>1 DEF Goto, TypeOK, JobType
      <3>3. QED
        BY <1>2, <3>1, <3>2 DEF ReloadSpend
    <2>2. QED
      BY <1>2, <2>1 DEF ReloadSpend, TypeOK, hist
  <1>3. CASE DisableCapped(a)
    BY <1>3 DEF DisableCapped, TypeOK, Goto, hist
  <1>4. QED
    BY <1>1, <1>2, <1>3 DEF Spend

LEMMA CachedType == ASSUME NEW r \in Row PROVE Cached(r) \in View
  BY DEF Cached, Row, View

LEMMA AbsentType == Absent \in Row
  BY DEF Absent, Row, Status, Reason

LEMMA AdminWriteType ==
  ASSUME TypeOK, NEW a \in Actor, NEW r \in Row, NEW s \in Step, AdminWrite(a, r, s)
  PROVE  TypeOK'
  BY DEF AdminWrite, Edited, Goto, TypeOK

LEMMA MergeType ==
  ASSUME TypeOK, row \in Row, NEW e \in Edit
  PROVE  Merge(row, e) \in Row
  <1> USE ConstantsOK DEF Assumptions
  <1>1. /\ e.status \in Status /\ e.after \in Nat /\ e.limit \in Nat
        /\ e.reason \in Justification \cup {""}
    BY DEF EditSpace
  <1>2. now + e.after \in Nat
    <2>1. now \in Nat
      BY DEF TypeOK
    <2>2. QED
      BY <1>1, <2>1, NatPlus, Zenon
  <1>3. /\ Merge(row, e).status \in Status
        /\ Merge(row, e).until \in Nat
        /\ Merge(row, e).limit \in Nat
        /\ Merge(row, e).spent \in Nat
    BY <1>1, <1>2 DEF Merge, Row
  <1>4. Merge(row, e).reason \in Reason
    BY <1>1 DEF Merge, Row, Reason
  <1>5. QED
    BY <1>3, <1>4 DEF Merge, Row

LEMMA AdministerType == ASSUME TypeOK, NEW a \in Actor, Administer(a) PROVE TypeOK'
  <1> USE ConstantsOK DEF Assumptions
  <1>1. ASSUME NEW e \in Edit, UpdateKey(a, e) PROVE TypeOK'
    BY <1>1, MergeType, AdminWriteType DEF UpdateKey, TypeOK
  <1>2. ASSUME NEW l \in Limit, NEW s \in Status \ {"absent"}, CreateKey(a, s, l)
        PROVE  TypeOK'
    <2>1. NewRow(s, l) \in Row
      BY AbsentType DEF NewRow, Row
    <2>2. QED
      BY <1>2, <2>1, AdminWriteType DEF CreateKey
  <1>3. CASE ResetKeySpend(a)
    <2>1. [row EXCEPT !.spent = 0, !.status = "active", !.reason = ""] \in Row
      <3>1. "" \in Reason
        BY DEF Reason
      <3>2. QED
        BY <3>1 DEF TypeOK, Row, Status
    <2>2. QED
      BY <1>3, <2>1, AdminWriteType DEF ResetKeySpend
  <1>4. CASE DeleteKey(a)
    BY <1>4, AbsentType, AdminWriteType DEF DeleteKey
  <1>5. CASE Reread(a)
    BY <1>5 DEF Reread, Goto, TypeOK, hist
  <1>6. CASE ResetOutcome(a)
    BY <1>6, FreshOutcomeType DEF ResetOutcome, Goto, TypeOK, Forgotten, Observation
  <1>7. CASE Refresh(a)
    BY <1>7, CachedType DEF Refresh, Goto, TypeOK, hist
  <1>8. QED
    BY <1>1, <1>2, <1>3, <1>4, <1>5, <1>6, <1>7 DEF Administer

LEMMA RestartType == ASSUME TypeOK, Restart PROVE TypeOK'
  <1>1. NoJob \in JobType
    BY DEF NoJob, JobType, Reason
  <1>2. QED
    BY <1>1, FreshOutcomeType, CachedType DEF Restart, TypeOK, Forgotten, Observation

(* Every reachable state is well typed.                                    *)
THEOREM TypeCorrect == Spec => []TypeOK
  <1>1. TypeOK /\ [Next]_vars => TypeOK'
    <2> SUFFICES ASSUME TypeOK, [Next]_vars PROVE TypeOK'
      OBVIOUS
    <2>1. CASE OtherRefresh
      BY <2>1, CachedType DEF OtherRefresh, TypeOK, hist
    <2>2. CASE Tick
      BY <2>2 DEF Tick, TypeOK, hist
    <2>3. CASE UNCHANGED vars
      BY <2>3 DEF vars, hist, TypeOK
    <2>4. QED
      BY <2>1, <2>2, <2>3, ObserveType, SettleType, SpendType, AdministerType, RestartType
         DEF Next
  <1>2. QED
    BY InitType, <1>1, PTL DEF Spec

-----------------------------------------------------------------------------
(* The key lock.                                                           *)

LEMMA LockInit == Init => LockDiscipline
  BY ConstantsOK DEF Init, LockDiscipline, Assumptions

(* One goroutine moves; the others stay where they are.                    *)
LEMMA LockMove ==
  ASSUME TypeOK, LockDiscipline, NEW a \in Actor, NEW s \in Step,
         pc' = [pc EXCEPT ![a] = s],
         \/ lock' = a /\ lock \in {Free, a} /\ s \in LockedStep
         \/ lock' = Free /\ lock = a /\ s \notin LockedStep
         \/ lock' = lock /\ pc[a] \notin LockedStep /\ s \notin LockedStep
  PROVE  LockDiscipline'
  BY ConstantsOK DEF TypeOK, LockDiscipline, Assumptions

LEMMA LockNext == TypeOK /\ LockDiscipline /\ [Next]_vars => LockDiscipline'
  <1> SUFFICES ASSUME TypeOK, LockDiscipline, [Next]_vars PROVE LockDiscipline'
    OBVIOUS
  <1>1. ASSUME NEW a \in Actor, Observe(a) PROVE LockDiscipline'
    <2>1. CASE ObserveSuccess(a)
      <3>1. CASE lock' = a /\ Goto(a, "readmit")
        BY <2>1, <3>1, LockMove DEF ObserveSuccess, Start, Goto
      <3>2. CASE UNCHANGED <<lock, pc>>
        BY <3>2 DEF LockDiscipline
      <3>3. QED
        BY <2>1, <3>1, <3>2 DEF ObserveSuccess
    <2>2. ASSUME NEW r \in Fault, NEW d \in Cooldown, ObserveFailure(a, r, d)
          PROVE  LockDiscipline'
      BY <2>2, LockMove DEF ObserveFailure, Start, Goto
    <2>3. CASE EmptyArrives(a)
      BY <2>3, LockMove DEF EmptyArrives, Goto
    <2>4. CASE ObserveEmpty(a)
      <3>1. \/ Goto(a, "idle") /\ lock' = lock
            \/ Goto(a, "cool") /\ lock' = a
        BY <2>4 DEF ObserveEmpty, Return
      <3>2. pc[a] = "empty" /\ lock = Free
        BY <2>4 DEF ObserveEmpty
      <3>3. QED
        BY <3>1, <3>2, LockMove DEF Goto
    <2>5. QED
      BY <1>1, <2>1, <2>2, <2>3, <2>4 DEF Observe
  <1>2. ASSUME NEW a \in Actor, Settle(a) PROVE LockDiscipline'
    <2>1. ASSUME lock = a, AfterCool(a) PROVE LockDiscipline'
      BY <2>1, LockMove DEF AfterCool, Release, Return, Goto
    <2>2. ASSUME lock = a, Release(a) PROVE LockDiscipline'
      BY <2>2, LockMove DEF Release, Return, Goto
    <2>3. ASSUME NEW s \in LockedStep, lock = a, Goto(a, s), lock' = lock
          PROVE  LockDiscipline'
      BY <2>3, LockMove DEF Goto
    <2>4. CASE CoolRow(a)
      BY <2>4, <2>3 DEF CoolRow, Locked
    <2>5. CASE CoolCache(a)
      BY <2>5, <2>1 DEF CoolCache, Locked
    <2>6. CASE RelabelRow(a)
      BY <2>6, <2>1, <2>3 DEF RelabelRow, Locked
    <2>7. CASE RelabelCache(a)
      BY <2>7, <2>1 DEF RelabelCache, Locked
    <2>8. CASE DisableRow(a)
      BY <2>8, <2>2, <2>3 DEF DisableRow, Locked
    <2>9. CASE DisableCache(a)
      BY <2>9, <2>2 DEF DisableCache, Locked
    <2>10. CASE ReadmitRow(a)
      BY <2>10, <2>2, <2>3 DEF ReadmitRow, Locked
    <2>11. CASE ReadmitCache(a)
      BY <2>11, <2>2 DEF ReadmitCache, Locked
    <2>12. CASE DbError(a)
      BY <2>12, <2>1, <2>2 DEF DbError
    <2>13. QED
      BY <1>2, <2>4, <2>5, <2>6, <2>7, <2>8, <2>9, <2>10, <2>11, <2>12 DEF Settle
  <1>3. ASSUME NEW a \in Actor, Spend(a) PROVE LockDiscipline'
    <2>1. ASSUME NEW c \in Cost, AddSpend(a, c) PROVE LockDiscipline'
      BY <2>1, LockMove DEF AddSpend, Goto
    <2>2. CASE ReloadSpend(a)
      <3>1. Goto(a, "cap") \/ Goto(a, "idle")
        BY <2>2 DEF ReloadSpend, Return
      <3>2. lock' = lock /\ pc[a] = "reload"
        BY <2>2 DEF ReloadSpend
      <3>3. QED
        BY <3>1, <3>2, LockMove DEF Goto
    <2>3. CASE DisableCapped(a)
      BY <2>3, LockMove DEF DisableCapped, Goto
    <2>4. QED
      BY <1>3, <2>1, <2>2, <2>3 DEF Spend
  <1>4. ASSUME NEW a \in Actor, Administer(a) PROVE LockDiscipline'
    <2>1. ASSUME NEW r, NEW s \in {"reread", "reset"}, AdminWrite(a, r, s)
          PROVE  LockDiscipline'
      BY <2>1, LockMove DEF AdminWrite, Goto
    <2>2. ASSUME NEW s \in Step \ LockedStep, Goto(a, s), lock' = lock,
                 pc[a] \notin LockedStep
          PROVE  LockDiscipline'
      BY <2>2, LockMove DEF Goto
    <2>3. CASE Reread(a)
      BY <2>3, <2>2 DEF Reread
    <2>4. CASE ResetOutcome(a)
      BY <2>4, <2>2 DEF ResetOutcome
    <2>5. CASE Refresh(a)
      BY <2>5, <2>2 DEF Refresh
    <2>6. QED
      BY <1>4, <2>1, <2>3, <2>4, <2>5
         DEF Administer, UpdateKey, CreateKey, ResetKeySpend, DeleteKey
  <1>5. CASE OtherRefresh \/ Tick \/ UNCHANGED vars
    BY <1>5 DEF OtherRefresh, Tick, vars, LockDiscipline
  <1>6. CASE Restart
    BY <1>6, ConstantsOK DEF Restart, LockDiscipline, Assumptions
  <1>7. QED
    BY <1>1, <1>2, <1>3, <1>4, <1>5, <1>6 DEF Next

(* The lock is held exactly by the goroutine inside the status writes.     *)
THEOREM LockHeld == Spec => []LockDiscipline
  BY TypeCorrect, LockInit, LockNext, PTL DEF Spec

-----------------------------------------------------------------------------
(* The cache.                                                              *)

LEMMA CacheInit == Init => CacheInv
  <1> SUFFICES ASSUME Init PROVE CacheInv
    OBVIOUS
  <1>1. mem = Cached(row) /\ \A a \in Actor : pc[a] = "idle"
    BY DEF Init
  <1>2. Coherent
    BY <1>1 DEF Coherent, Cached
  <1>3. QED
    BY <1>1, <1>2 DEF CacheInv, Owed, Coherent

(* A refresh settles everything that was not already owed.                 *)
LEMMA RefreshedCoherent ==
  ASSUME mem' = Cached(row), row' = row
  PROVE  /\ Coherent'
         /\ mem'.status = row'.status /\ mem'.until = row'.until
  BY DEF Cached, Coherent

(* Only the lock holder is at a cache step.                                *)
LEMMA OneCacheStep ==
  ASSUME LockDiscipline, NEW a \in Actor, NEW b \in Actor, pc[a] \in CacheStep,
         lock \in {b, Free}
  PROVE  a = b
  BY ConstantsOK DEF LockDiscipline, Assumptions

(* Steps of `a` that neither complete nor start an admin request keep      *)
(* every admin where it is.                                                *)
LEMMA AdminsKept ==
  ASSUME TypeOK, NEW a \in Actor, NEW s \in Step, pc' = [pc EXCEPT ![a] = s],
         pc[a] \notin AdminStep, row'.status = "absent" <=> row.status = "absent"
  PROVE  (Blocked => Blocked') /\ (Pending => Pending')
  BY DEF TypeOK, Blocked, Pending

(* A step outside the lock and the admin handlers.                         *)
LEMMA CacheIdleStep ==
  ASSUME TypeOK, CacheInv, NEW a \in Actor, NEW s \in Step \ (CacheStep \cup AdminStep),
         pc[a] \notin CacheStep \cup AdminStep,
         pc' = [pc EXCEPT ![a] = s],
         \A b \in Actor \ {a} : job'[b] = job[b],
         Cached(row') = Cached(row), mem' = mem
  PROVE  CacheInv'
  <1>1. row'.status = row.status /\ row'.until = row.until /\ row'.reason = row.reason
    BY DEF Cached
  <1>2. (Blocked => Blocked') /\ (Pending => Pending')
    BY <1>1, AdminsKept
  <1>3. Coherent => Coherent'
    BY <1>1 DEF Coherent
  <1>4. ASSUME NEW b \in Actor PROVE Owed(b)'
    <2>1. CASE b = a
      BY <2>1 DEF Owed, TypeOK
    <2>2. CASE b # a
      <3>1. pc'[b] = pc[b] /\ job'[b] = job[b] /\ Owed(b)
        BY <2>2 DEF CacheInv, TypeOK
      <3>2. QED
        BY <1>1, <1>2, <3>1 DEF Owed
    <2>3. QED
      BY <2>1, <2>2
  <1>5. (\E b \in Actor : pc[b] \in CacheStep) => \E b \in Actor : pc'[b] \in CacheStep
    BY DEF TypeOK
  <1>6. QED
    BY <1>1, <1>2, <1>3, <1>4, <1>5 DEF CacheInv

(* The lock holder writes the row: it now owes the cache an update.        *)
LEMMA CacheRowStep ==
  ASSUME TypeOK, CacheInv, LockDiscipline, NEW a \in Actor, NEW s \in CacheStep,
         lock = a, pc[a] \notin CacheStep,
         pc' = [pc EXCEPT ![a] = s], mem' = mem,
         row'.status = "absent" <=> row.status = "absent",
         Owed(a)'
  PROVE  CacheInv'
  <1>1. pc[a] \notin AdminStep
    BY DEF LockDiscipline
  <1>2. (Blocked => Blocked') /\ (Pending => Pending')
    BY <1>1, AdminsKept
  <1>3. ASSUME NEW b \in Actor, b # a PROVE Owed(b)'
    BY <1>3, OneCacheStep DEF TypeOK, Owed
  <1>4. pc'[a] \in CacheStep
    BY DEF TypeOK
  <1>5. QED
    BY <1>2, <1>3, <1>4 DEF CacheInv

(* The lock holder writes the cache: what it owed is paid.                 *)
LEMMA CachePayStep ==
  ASSUME TypeOK, CacheInv, LockDiscipline, NEW a \in Actor, NEW s \in Step \ (CacheStep \cup AdminStep),
         lock = a, pc[a] \in CacheStep,
         pc' = [pc EXCEPT ![a] = s], row' = row,
         mem'.status = "absent" <=> mem.status = "absent",
         Blocked \/ Pending \/ Coherent'
  PROVE  CacheInv'
  <1>1. (Blocked => Blocked') /\ (Pending => Pending')
    BY AdminsKept
  <1>2. ASSUME NEW b \in Actor PROVE Owed(b)'
    BY <1>2, OneCacheStep DEF TypeOK, Owed
  <1>3. QED
    BY <1>1, <1>2 DEF CacheInv, Pending

(* How a status write ends when it owes the cache nothing.                 *)
LEMMA Ends ==
  ASSUME TypeOK, NEW a \in Actor, AfterCool(a) \/ Return(a)
  PROVE  /\ \E s \in {"idle", "disable"} : pc' = [pc EXCEPT ![a] = s]
         /\ \A b \in Actor \ {a} : job'[b] = job[b]
  BY DEF AfterCool, Release, Return, Goto, TypeOK

LEMMA CacheSettle ==
  ASSUME TypeOK, CacheInv, LockDiscipline, NEW a \in Actor, Settle(a)
  PROVE  CacheInv'
  <1>e. AfterCool(a) \/ Release(a) =>
          /\ \E s \in {"idle", "disable"} : pc' = [pc EXCEPT ![a] = s]
          /\ \A b \in Actor \ {a} : job'[b] = job[b]
    BY Ends DEF Release
  <1>s. mem.status = "absent" /\ row.status # "absent" => Pending
    BY DEF CacheInv
  <1>o. Owed(a)
    BY DEF CacheInv
  <1>n. ASSUME UNCHANGED <<row, mem>>, AfterCool(a) \/ Release(a), pc[a] \in LockedStep \ CacheStep
        PROVE  CacheInv'
    BY <1>n, <1>e, CacheIdleStep
  <1>p. ASSUME row' = row, AfterCool(a) \/ Release(a), lock = a, pc[a] \in CacheStep,
               mem'.status = "absent" <=> mem.status = "absent",
               Pending \/ Coherent'
        PROVE  CacheInv'
    BY <1>p, <1>e, CachePayStep
  <1>1. CASE CoolRow(a)
    <2>1. CASE CanCool(now + job[a].cooldown)
      <3>1. /\ row' = [row EXCEPT !.status = "rate_limited",
                                  !.until = now + job[a].cooldown, !.reason = job[a].reason]
            /\ job' = [job EXCEPT ![a].at = now + job[a].cooldown]
            /\ pc' = [pc EXCEPT ![a] = "coolMem"]
            /\ row.status # "absent" /\ mem' = mem /\ lock = a /\ pc[a] = "cool"
        BY <1>1, <2>1 DEF CoolRow, Goto, CanCool, Locked
      <3>2. /\ row'.status = "rate_limited" /\ row'.until = now + job[a].cooldown
            /\ row'.reason = job[a].reason
        BY <3>1 DEF TypeOK, Row
      <3>3. job'[a].at = now + job[a].cooldown /\ job'[a].reason = job[a].reason
        BY <3>1 DEF TypeOK, JobType
      <3>4. pc'[a] = "coolMem"
        BY <3>1 DEF TypeOK
      <3>5. Owed(a)'
        BY <3>2, <3>3, <3>4 DEF Owed
      <3>6. QED
        BY <3>1, <3>2, <3>5, CacheRowStep
    <2>2. CASE ~CanCool(now + job[a].cooldown)
      BY <1>1, <2>2, CacheIdleStep DEF CoolRow, Goto, Locked
    <2>3. QED
      BY <2>1, <2>2
  <1>2. CASE CoolCache(a)
    <2>1. /\ pc[a] = "coolMem" /\ lock = a /\ row' = row /\ AfterCool(a)
          /\ \/ mem.status = "absent" /\ mem' = mem
             \/ /\ mem.status # "absent"
                /\ mem' = [status |-> "rate_limited", until |-> job[a].at,
                           reason |-> job[a].reason]
      BY <1>2 DEF CoolCache, Locked
    <2>2. Pending \/ Coherent'
      BY <1>o, <1>s, <2>1 DEF Owed, Coherent, Pending
    <2>3. QED
      BY <1>p, <2>1, <2>2
  <1>3. CASE RelabelRow(a)
    <2>1. CASE CanRelabel(job[a].reason)
      <3>1. /\ row' = [row EXCEPT !.reason = job[a].reason]
            /\ pc' = [pc EXCEPT ![a] = "relabelMem"] /\ job' = job
            /\ mem' = mem /\ lock = a /\ pc[a] = "relabel"
        BY <1>3, <2>1 DEF RelabelRow, Goto, Locked
      <3>2. row'.status = row.status /\ row'.until = row.until /\ row'.reason = job'[a].reason
        BY <3>1 DEF TypeOK, Row
      <3>3. ~\E b \in Actor : pc[b] \in CacheStep
        BY <3>1, OneCacheStep
      <3>4. Pending \/ Coherent
        BY <3>3 DEF CacheInv
      <3>5. Pending => Pending'
        BY <3>1, <3>2, AdminsKept
      <3>6. pc'[a] = "relabelMem"
        BY <3>1 DEF TypeOK
      <3>7. row.status = "rate_limited"
        BY <2>1 DEF CanRelabel
      <3>8. Pending' \/ (mem'.status = row'.status /\ mem'.until = row'.until)
        BY <3>1, <3>2, <3>4, <3>5, <3>7 DEF Coherent
      <3>9. Owed(a)'
        BY <3>2, <3>6, <3>7, <3>8 DEF Owed
      <3>10. QED
        BY <3>1, <3>2, <3>9, CacheRowStep
    <2>2. CASE ~CanRelabel(job[a].reason)
      BY <1>3, <2>2, <1>n DEF RelabelRow, Locked
    <2>3. QED
      BY <2>1, <2>2
  <1>4. CASE RelabelCache(a)
    <2>1. /\ pc[a] = "relabelMem" /\ lock = a /\ row' = row /\ AfterCool(a)
          /\ \/ mem.status = "absent" /\ mem' = mem
             \/ mem.status # "absent" /\ mem' = [mem EXCEPT !.reason = job[a].reason]
      BY <1>4 DEF RelabelCache, Locked
    <2>2. mem'.status = mem.status /\ mem'.until = mem.until
      BY <2>1 DEF TypeOK, View
    <2>3. mem.status # "absent" => mem'.reason = job[a].reason
      BY <2>1 DEF TypeOK, View
    <2>4. Pending \/ Coherent'
      BY <1>o, <1>s, <2>1, <2>2, <2>3 DEF Owed, Coherent, Pending
    <2>5. QED
      BY <1>p, <2>1, <2>2, <2>4
  <1>5. CASE DisableRow(a)
    <2>1. CASE row.status \notin {"disabled", "absent"}
      <3>1. /\ row' = [row EXCEPT !.status = "disabled", !.reason = job[a].reason]
            /\ pc' = [pc EXCEPT ![a] = "disableMem"] /\ job' = job
            /\ mem' = mem /\ lock = a /\ pc[a] = "disable"
        BY <1>5, <2>1 DEF DisableRow, Goto, Locked
      <3>2. row'.status = "disabled" /\ row'.reason = job'[a].reason
        BY <3>1 DEF TypeOK, Row
      <3>3. pc'[a] = "disableMem"
        BY <3>1 DEF TypeOK
      <3>4. Owed(a)'
        BY <3>2, <3>3 DEF Owed
      <3>5. QED
        BY <2>1, <3>1, <3>2, <3>4, CacheRowStep
    <2>2. CASE row.status \in {"disabled", "absent"}
      BY <1>5, <2>2, <1>n DEF DisableRow, Locked
    <2>3. QED
      BY <2>1, <2>2
  <1>6. CASE DisableCache(a)
    <2>1. /\ pc[a] = "disableMem" /\ lock = a /\ row' = row /\ Release(a)
          /\ \/ mem.status = "absent" /\ mem' = mem
             \/ /\ mem.status # "absent"
                /\ mem' = [status |-> "disabled", until |-> 0, reason |-> job[a].reason]
      BY <1>6 DEF DisableCache, Locked
    <2>2. Pending \/ Coherent'
      BY <1>o, <1>s, <2>1 DEF Owed, Coherent, Pending
    <2>3. QED
      BY <1>p, <2>1, <2>2
  <1>7. CASE ReadmitRow(a)
    <2>1. CASE CanReadmit
      <3>1. /\ row' = [row EXCEPT !.status = "active", !.until = 0, !.reason = ""]
            /\ pc' = [pc EXCEPT ![a] = "readmitMem"] /\ row.status # "absent"
            /\ mem' = mem /\ lock = a /\ pc[a] = "readmit"
        BY <1>7, <2>1 DEF ReadmitRow, Goto, Locked, CanReadmit
      <3>2. row'.status = "active" /\ row'.until = 0 /\ row'.reason = ""
        BY <3>1 DEF TypeOK, Row
      <3>3. pc'[a] = "readmitMem"
        BY <3>1 DEF TypeOK
      <3>4. Owed(a)'
        BY <3>2, <3>3 DEF Owed
      <3>5. QED
        BY <3>1, <3>2, <3>4, CacheRowStep
    <2>2. CASE ~CanReadmit
      BY <1>7, <2>2, <1>n DEF ReadmitRow, Locked
    <2>3. QED
      BY <2>1, <2>2
  <1>8. CASE ReadmitCache(a)
    <2>1. /\ pc[a] = "readmitMem" /\ lock = a /\ row' = row /\ Release(a)
          /\ \/ mem.status = "absent" /\ mem' = mem
             \/ /\ mem.status # "absent"
                /\ mem' = [status |-> "active", until |-> 0, reason |-> ""]
      BY <1>8 DEF ReadmitCache, Locked
    <2>2. CASE mem.status = "absent"
      <3>1. mem' = mem
        BY <2>1, <2>2
      <3>2. Pending \/ Coherent'
        BY <1>o, <1>s, <2>1, <2>2, <3>1 DEF Owed, Coherent, Pending
      <3>3. QED
        BY <1>p, <2>1, <2>2, <3>1, <3>2
    <2>3. CASE mem.status # "absent"
      <3>1. mem' = [status |-> "active", until |-> 0, reason |-> ""]
        BY <2>1, <2>3
      <3>2. mem'.status = "active"
        BY <3>1
      <3>3. mem'.until = 0
        BY <3>1
      <3>4. mem'.reason = ""
        BY <3>1
      <3>5. Pending \/ Coherent'
        BY <1>o, <2>1, <3>2, <3>3, <3>4 DEF Owed, Coherent, Pending
      <3>6. QED
        BY <1>p, <2>1, <2>3, <3>2, <3>5
    <2>4. QED
      BY <2>2, <2>3
  <1>9. CASE DbError(a)
    BY <1>9, <1>n DEF DbError
  <1>10. QED
    BY <1>1, <1>2, <1>3, <1>4, <1>5, <1>6, <1>7, <1>8, <1>9 DEF Settle

(* A row written by an admin: nothing can be owed the cache that the       *)
(* Refresh still to come does not repair.                                  *)
LEMMA CacheAdminStep ==
  ASSUME TypeOK, CacheInv, NEW a \in Actor, NEW s \in {"reread", "reset", "refresh"},
         pc' = [pc EXCEPT ![a] = s], job' = job, mem' = mem,
         pc[a] \notin CacheStep,
         \/ s = "reset" \/ (s = "reread" /\ row'.status # "absent")
         \/ s = "refresh" /\ row' = row /\ \A b \in Actor : pc[b] \notin CacheStep
  PROVE  CacheInv'
  <1>1. Pending'
    BY DEF Pending, Blocked, TypeOK
  <1>2. CASE s = "refresh"
    BY <1>1, <1>2 DEF CacheInv, Owed, TypeOK
  <1>3. CASE s # "refresh"
    <2>1. Blocked'
      BY <1>3 DEF Blocked, TypeOK
    <2>2. ASSUME NEW b \in Actor PROVE Owed(b)'
      <3>1. CASE pc'[b] \in CacheStep \ {"relabelMem"}
        BY <2>1, <3>1 DEF Owed
      <3>2. QED
        BY <2>1 DEF Owed
    <2>3. QED
      BY <1>1, <2>2 DEF CacheInv
  <1>4. QED
    BY <1>2, <1>3

LEMMA CacheNext ==
  ASSUME TypeOK, LockDiscipline, CacheInv, [Next]_vars
  PROVE  CacheInv'
  <1>1. ASSUME NEW a \in Actor, Observe(a) PROVE CacheInv'
    <2>1. CASE ObserveSuccess(a)
      <3>1. PICK s \in {"idle", "readmit"} : pc' = [pc EXCEPT ![a] = s]
        BY <2>1 DEF ObserveSuccess, Goto, Start, TypeOK
      <3>2. QED
        BY <2>1, <3>1, CacheIdleStep DEF ObserveSuccess, Start
    <2>2. ASSUME NEW r \in Fault, NEW d \in Cooldown, ObserveFailure(a, r, d)
          PROVE  CacheInv'
      <3>1. /\ pc[a] = "idle" /\ pc' = [pc EXCEPT ![a] = "cool"]
            /\ row' = row /\ mem' = mem
            /\ \A b \in Actor \ {a} : job'[b] = job[b]
        BY <2>2 DEF ObserveFailure, Goto, Start, TypeOK
      <3>2. QED
        BY <3>1, CacheIdleStep
    <2>3. CASE EmptyArrives(a)
      <3>1. /\ pc[a] = "idle" /\ pc' = [pc EXCEPT ![a] = "empty"]
            /\ row' = row /\ mem' = mem
            /\ \A b \in Actor \ {a} : job'[b] = job[b]
        BY <2>3 DEF EmptyArrives, Goto, TypeOK
      <3>2. QED
        BY <3>1, CacheIdleStep
    <2>4. CASE ObserveEmpty(a)
      <3>1. /\ pc[a] = "empty" /\ row' = row /\ mem' = mem
            /\ Return(a) \/ (Goto(a, "cool") /\ \E j : job' = [job EXCEPT ![a] = j])
        BY <2>4 DEF ObserveEmpty
      <3>2. /\ \E s \in {"idle", "cool"} : pc' = [pc EXCEPT ![a] = s]
            /\ \A b \in Actor \ {a} : job'[b] = job[b]
        BY <3>1 DEF Return, Goto, TypeOK
      <3>3. QED
        BY <3>1, <3>2, CacheIdleStep
    <2>5. QED
      BY <1>1, <2>1, <2>2, <2>3, <2>4 DEF Observe
  <1>2. ASSUME NEW a \in Actor, Settle(a) PROVE CacheInv'
    BY <1>2, CacheSettle
  <1>3. ASSUME NEW a \in Actor, Spend(a) PROVE CacheInv'
    <2>1. ASSUME NEW c \in Cost, AddSpend(a, c) PROVE CacheInv'
      <3>1. /\ pc[a] = "idle" /\ pc' = [pc EXCEPT ![a] = "reload"]
            /\ mem' = mem /\ job' = job /\ row' = [row EXCEPT !.spent = @ + c]
        BY <2>1 DEF AddSpend, Goto
      <3>2. Cached(row') = Cached(row)
        BY <3>1 DEF Cached, TypeOK, Row
      <3>3. QED
        BY <3>1, <3>2, CacheIdleStep
    <2>2. CASE ReloadSpend(a)
      <3>1. /\ pc[a] = "reload" /\ row' = row /\ mem' = mem
            /\ Return(a) \/ (Goto(a, "cap") /\ \E j : job' = [job EXCEPT ![a].reason = j])
        BY <2>2 DEF ReloadSpend
      <3>2. /\ \E s \in {"idle", "cap"} : pc' = [pc EXCEPT ![a] = s]
            /\ \A b \in Actor \ {a} : job'[b] = job[b]
        BY <3>1 DEF Return, Goto, TypeOK
      <3>3. QED
        BY <3>1, <3>2, CacheIdleStep
    <2>3. CASE DisableCapped(a)
      BY <2>3, CacheIdleStep DEF DisableCapped, Goto
    <2>4. QED
      BY <1>3, <2>1, <2>2, <2>3 DEF Spend
  <1>4. ASSUME NEW a \in Actor, Administer(a) PROVE CacheInv'
    <2>1. ASSUME NEW e \in Edit, UpdateKey(a, e) PROVE CacheInv'
      <3>1. row'.status \in Status \ {"absent"}
        <4>1. row' = Merge(row, e) /\ row.status \in Status \ {"absent"}
          BY <2>1 DEF UpdateKey, AdminWrite, TypeOK, Row
        <4>2. e.status \in Status \ {"absent"}
          BY ConstantsOK DEF Assumptions, EditSpace
        <4>3. Merge(row, e).status \in {e.status, row.status}
          BY DEF Merge
        <4>4. QED
          BY <4>1, <4>2, <4>3
      <3>2. QED
        BY <2>1, <3>1, CacheAdminStep DEF UpdateKey, AdminWrite, Goto, Status
    <2>2. ASSUME NEW r, AdminWrite(a, r, "reset") PROVE CacheInv'
      BY <2>2, CacheAdminStep DEF AdminWrite, Goto
    <2>3. CASE Reread(a)
      <3>1. /\ pc[a] = "reread" /\ row' = row /\ mem' = mem /\ job' = job
            /\ \/ row.status = "absent" /\ pc' = [pc EXCEPT ![a] = "idle"]
               \/ row.status # "absent" /\ pc' = [pc EXCEPT ![a] = "reset"]
        BY <2>3 DEF Reread, Goto
      <3>2. CASE row.status # "absent"
        BY <3>1, <3>2, CacheAdminStep
      <3>3. CASE row.status = "absent"
        <4>1. pc' = [pc EXCEPT ![a] = "idle"]
          BY <3>1, <3>3
        <4>2. Blocked <=> Blocked'
          BY <3>1, <3>3, <4>1 DEF Blocked, TypeOK
        <4>3. Pending <=> Pending'
          BY <3>1, <4>1, <4>2 DEF Pending, TypeOK
        <4>4. \A b \in Actor : pc[b] \in CacheStep <=> pc'[b] \in CacheStep
          BY <3>1, <4>1 DEF TypeOK
        <4>5. ASSUME NEW b \in Actor PROVE Owed(b)'
          <5>1. Owed(b)
            BY DEF CacheInv
          <5>2. pc'[b] \in CacheStep => pc'[b] = pc[b]
            BY <3>1, <4>1 DEF TypeOK
          <5>3. QED
            BY <3>1, <4>2, <4>3, <5>1, <5>2 DEF Owed
        <4>6. Coherent <=> Coherent'
          BY <3>1 DEF Coherent
        <4>7. QED
          BY <3>1, <4>3, <4>4, <4>5, <4>6 DEF CacheInv
      <3>4. QED
        BY <3>2, <3>3
    <2>4. CASE ResetOutcome(a)
      <3>1. \A b \in Actor : pc[b] \notin CacheStep
        BY <2>4, ConstantsOK DEF ResetOutcome, LockDiscipline, Assumptions
      <3>2. QED
        BY <2>4, <3>1, CacheAdminStep DEF ResetOutcome, Goto
    <2>5. CASE Refresh(a)
      <3>1. /\ pc[a] = "refresh" /\ row' = row /\ mem' = Cached(row) /\ job' = job
            /\ pc' = [pc EXCEPT ![a] = "idle"]
        BY <2>5 DEF Refresh, Goto
      <3>2. Coherent' /\ mem'.status = row'.status /\ mem'.until = row'.until
        BY <3>1, RefreshedCoherent
      <3>3. Blocked => Blocked'
        BY <3>1 DEF Blocked, TypeOK
      <3>4. ASSUME NEW b \in Actor PROVE Owed(b)'
        <4>1. Owed(b)
          BY DEF CacheInv
        <4>2. pc'[b] \in CacheStep => pc'[b] = pc[b]
          BY <3>1 DEF TypeOK
        <4>3. QED
          BY <3>1, <3>2, <3>3, <4>1, <4>2 DEF Owed, Pending
      <3>5. QED
        BY <3>2, <3>4 DEF CacheInv
    <2>6. QED
      BY <1>4, <2>1, <2>2, <2>3, <2>4, <2>5
         DEF Administer, CreateKey, ResetKeySpend, DeleteKey
  <1>5. CASE OtherRefresh
    <2>1. row' = row /\ mem' = Cached(row) /\ job' = job /\ pc' = pc
      BY <1>5 DEF OtherRefresh
    <2>2. Coherent' /\ mem'.status = row'.status /\ mem'.until = row'.until
      BY <2>1, RefreshedCoherent
    <2>3. ASSUME NEW b \in Actor PROVE Owed(b)'
      <3>1. Owed(b)
        BY DEF CacheInv
      <3>2. Blocked => Blocked'
        BY <2>1 DEF Blocked
      <3>3. QED
        BY <2>1, <2>2, <3>1, <3>2 DEF Owed
    <2>4. QED
      BY <2>2, <2>3 DEF CacheInv
  <1>6. CASE Restart
    <2>1. row' = row /\ mem' = Cached(row) /\ \A b \in Actor : pc'[b] = "idle"
      BY <1>6 DEF Restart
    <2>2. Coherent' /\ mem'.status = row'.status
      BY <2>1, RefreshedCoherent
    <2>3. QED
      BY <2>1, <2>2 DEF CacheInv, Owed
  <1>7. CASE Tick \/ UNCHANGED vars
    <2>1. row' = row /\ mem' = mem /\ job' = job /\ pc' = pc
      BY <1>7 DEF Tick, vars
    <2>2. (Blocked' <=> Blocked) /\ (Pending' <=> Pending) /\ (Coherent' <=> Coherent)
      BY <2>1 DEF Blocked, Pending, Coherent
    <2>3. \A b \in Actor : Owed(b) => Owed(b)'
      BY <2>1, <2>2 DEF Owed
    <2>4. QED
      BY <2>1, <2>2, <2>3 DEF CacheInv
  <1>8. QED
    BY <1>1, <1>2, <1>3, <1>4, <1>5, <1>6, <1>7 DEF Next

(* Whenever no goroutine owes the cache an update, the selector routes on  *)
(* exactly the row the database holds.                                     *)
THEOREM CoherenceAtRest == Spec => []CoherentAtRest
  <1>1. CacheInv => CoherentAtRest
    BY DEF CacheInv, CoherentAtRest, Pending, Blocked
  <1>2. QED
    BY <1>1, TypeCorrect, LockHeld, CacheInit, CacheNext, PTL DEF Spec

-----------------------------------------------------------------------------
(* The life cycle: why every status change rests on two observations.      *)

(* StreakInv with the empty reason under a name: SMT mixes no empty string *)
(* with arithmetic.                                                        *)
Unblamed == ""
Streaks(o, seen) ==
  /\ o.succ >= 1 => seen[2] = "ok"
  /\ o.succ >= 2 => seen = <<"ok", "ok">>
  /\ o.last # Unblamed => o.fail >= 1
  /\ o.fail >= 1 => seen[2] = o.last
  /\ o.fail >= 2 => seen = <<o.last, o.last>>

LEMMA StreaksMean ==
  (StreakInv <=> Streaks(outcome, lastTwo)) /\ (StreakInv' <=> Streaks(outcome', lastTwo'))
  BY Zenon DEF StreakInv, Streaks, Unblamed

LEMMA FreshStreaks ==
  FreshOutcome.succ = 0 /\ FreshOutcome.fail = 0 /\ FreshOutcome.last = Unblamed
  BY DEF FreshOutcome, Unblamed

LEMMA WarrantInit == Init => WarrantInv
  <1> SUFFICES ASSUME Init PROVE WarrantInv
    OBVIOUS
  <1>1. outcome.succ = 0 /\ outcome.fail = 0 /\ outcome.last = Unblamed
    BY FreshStreaks DEF Init
  <1>2. StreakInv
    BY <1>1, StreaksMean DEF Streaks
  <1>3. \A a \in Actor : pc[a] = "idle"
    BY DEF Init
  <1>4. QED
    BY <1>2, <1>3 DEF WarrantInv, Warranted, CoolStep

(* One goroutine moves; observations are only noted or forgotten while no  *)
(* other one is inside the lock.                                           *)
LEMMA WarrantMove ==
  ASSUME TypeOK, WarrantInv, StreakInv', NEW a \in Actor, NEW s \in Step,
         pc' = [pc EXCEPT ![a] = s],
         \A b \in Actor \ {a} : job'[b] = job[b],
         lastTwo' = lastTwo \/ \A b \in Actor : pc[b] \notin LockedStep,
         Warranted(a, job[a].reason)'
  PROVE  WarrantInv'
  <1>1. ASSUME NEW b \in Actor \ {a} PROVE Warranted(b, job[b].reason)'
    <2>1. pc'[b] = pc[b] /\ job'[b] = job[b] /\ Warranted(b, job[b].reason)
      BY DEF TypeOK, WarrantInv
    <2>2. CASE lastTwo' = lastTwo
      BY <2>1, <2>2 DEF Warranted
    <2>3. CASE pc[b] \notin LockedStep
      BY <2>1, <2>3 DEF Warranted, CoolStep
    <2>4. QED
      BY <2>2, <2>3
  <1>2. QED
    BY <1>1 DEF WarrantInv

(* A streak of two rests on two observations.                              *)
LEMMA WarrantObserve ==
  ASSUME TypeOK, LockDiscipline, WarrantInv, NEW a \in Actor, Observe(a)
  PROVE  WarrantInv'
  <1> USE ConstantsOK DEF Assumptions
  <1>t. /\ outcome \in OutcomeType /\ pc \in [Actor -> Step] /\ job \in [Actor -> JobType]
        /\ lastTwo = <<lastTwo[1], lastTwo[2]>>
    BY DEF TypeOK
  <1>o. /\ outcome.succ \in Nat /\ outcome.fail \in Nat /\ StreakInv
    BY <1>t DEF OutcomeType, WarrantInv
  <1>l. lock = Free => \A b \in Actor : pc[b] \notin LockedStep
    BY DEF LockDiscipline
  <1>1. CASE ObserveSuccess(a)
    <2> DEFINE n == UpTo(outcome.succ + 1, 2)
    <2>1. /\ outcome' = [FreshOutcome EXCEPT !.succ = n]
          /\ lastTwo' = <<lastTwo[2], "ok">> /\ lock = Free /\ UNCHANGED job
      BY <1>1 DEF ObserveSuccess, Observed, Start
    <2>2. n >= 2 => outcome.succ >= 1
      BY <1>o DEF UpTo
    <2> HIDE DEF n
    <2>3. outcome'.succ = n /\ outcome'.fail = 0 /\ outcome'.last = Unblamed
      BY <2>1 DEF FreshOutcome, Unblamed
    <2>a. outcome.succ >= 1 => lastTwo[2] = "ok"
      BY <1>o DEF StreakInv
    <2>b. lastTwo'[2] = "ok" /\ (outcome.succ >= 1 => lastTwo' = <<"ok", "ok">>)
      BY <2>1, <2>a
    <2>4. StreakInv'
      BY <2>2, <2>3, <2>b, StreaksMean DEF Streaks
    <2>5. \/ outcome.succ + 1 >= 2 /\ pc' = [pc EXCEPT ![a] = "readmit"]
          \/ pc' = pc /\ pc[a] = "idle"
      BY <1>1 DEF ObserveSuccess, Start, Goto
    <2>6. CASE outcome.succ + 1 >= 2 /\ pc' = [pc EXCEPT ![a] = "readmit"]
      <3>1. lastTwo' = <<"ok", "ok">>
        BY <2>6, <2>b, <1>o
      <3>2. Warranted(a, job[a].reason)'
        BY <2>6, <3>1, <1>t DEF Warranted, CoolStep
      <3>3. QED
        BY <2>1, <2>4, <2>6, <3>2, <1>l, WarrantMove
    <2>7. CASE pc' = pc /\ pc[a] = "idle"
      <3>1. pc' = [pc EXCEPT ![a] = "idle"]
        BY <2>7, <1>t
      <3>2. Warranted(a, job[a].reason)'
        BY <2>7 DEF Warranted, CoolStep
      <3>3. QED
        BY <2>1, <2>4, <3>1, <3>2, <1>l, WarrantMove
    <2>8. QED
      BY <2>5, <2>6, <2>7
  <1>2. ASSUME NEW r \in Fault, NEW d \in Cooldown, ObserveFailure(a, r, d)
        PROVE  WarrantInv'
    <2> DEFINE streak == IF outcome.last = r THEN UpTo(outcome.fail + 1, 2) ELSE 1
               disable == streak >= 2 /\ r \in Permanent
    <2>1. /\ outcome' = [outcome EXCEPT !.succ = 0, !.fail = streak, !.last = r]
          /\ lastTwo' = <<lastTwo[2], r>> /\ lock = Free
          /\ pc' = [pc EXCEPT ![a] = "cool"]
          /\ job' = [job EXCEPT ![a] = [reason |-> r, cooldown |-> d, at |-> 0, disable |-> disable]]
      BY <1>2 DEF ObserveFailure, Observed, Start, Goto
    <2>2. r # Unblamed
      BY FaultAssumption DEF Unblamed
    <2>a. outcome.last # Unblamed => outcome.fail >= 1
      BY <1>o, StreaksMean DEF Streaks
    <2>3. streak >= 1 /\ (streak >= 2 => outcome.last = r /\ outcome.fail >= 1)
      BY <1>o, <2>2, <2>a DEF UpTo
    <2>4. streak >= 2 => lastTwo[2] = r
      BY <1>o, <2>3 DEF StreakInv
    <2> HIDE DEF streak
    <2>5. outcome'.succ = 0 /\ outcome'.fail = streak /\ outcome'.last = r
      BY <2>1, <1>t DEF OutcomeType
    <2>b. lastTwo'[2] = r /\ (streak >= 2 => lastTwo' = <<r, r>>)
      BY <2>1, <2>4
    <2>6. StreakInv'
      BY <2>3, <2>5, <2>b, StreaksMean DEF Streaks
    <2>7. job'[a].reason = r /\ job'[a].disable = disable /\ pc'[a] = "cool"
      BY <2>1, <1>t
    <2>8. Warranted(a, job[a].reason)'
      BY <2>1, <2>4, <2>7 DEF Warranted, CoolStep
    <2>9. \A b \in Actor \ {a} : job'[b] = job[b]
      BY <2>1, <1>t
    <2>10. QED
      BY <2>1, <2>6, <2>8, <2>9, <1>l, WarrantMove
  <1>3. CASE EmptyArrives(a)
    <2>1. /\ UNCHANGED <<outcome, lastTwo>> /\ pc' = [pc EXCEPT ![a] = "empty"] /\ EmptyThreshold > 0
          /\ \A b \in Actor \ {a} : job'[b] = job[b]
      BY <1>3, <1>t DEF EmptyArrives, Goto, hist
    <2>2. StreakInv' /\ Warranted(a, job[a].reason)'
      BY <2>1, <1>t, <1>o DEF StreakInv, Warranted, CoolStep
    <2>3. QED
      BY <2>1, <2>2, WarrantMove
  <1>4. CASE ObserveEmpty(a)
    <2>1. /\ UNCHANGED lastTwo /\ pc[a] = "empty"
          /\ outcome'.succ = outcome.succ /\ outcome'.fail = outcome.fail /\ outcome'.last = outcome.last
      BY <1>4, <1>t DEF ObserveEmpty, hist, OutcomeType
    <2>2. StreakInv'
      BY <2>1, <1>o DEF StreakInv
    <2>3. EmptyThreshold > 0
      BY <2>1 DEF WarrantInv, Warranted
    <2>4. \/ Return(a)
          \/ /\ Goto(a, "cool")
             /\ job' = [job EXCEPT ![a] = [reason |-> "empty_response", at |-> 0,
                          cooldown |-> EmptyCooldown, disable |-> EmptyDisable]]
      BY <1>4 DEF ObserveEmpty
    <2>5. CASE Return(a)
      <3>1. pc' = [pc EXCEPT ![a] = "idle"] /\ \A b \in Actor \ {a} : job'[b] = job[b]
        BY <2>5, <1>t DEF Return, Goto
      <3>2. Warranted(a, job[a].reason)'
        BY <3>1, <1>t DEF Warranted, CoolStep
      <3>3. QED
        BY <2>1, <2>2, <3>1, <3>2, WarrantMove
    <2>6. CASE /\ Goto(a, "cool")
               /\ job' = [job EXCEPT ![a] = [reason |-> "empty_response", at |-> 0,
                            cooldown |-> EmptyCooldown, disable |-> EmptyDisable]]
      <3>1. /\ pc' = [pc EXCEPT ![a] = "cool"] /\ \A b \in Actor \ {a} : job'[b] = job[b]
            /\ job'[a].reason = "empty_response"
        BY <2>6, <1>t DEF Goto
      <3>2. Warranted(a, job[a].reason)'
        BY <2>3, <3>1, <1>t DEF Warranted, CoolStep
      <3>3. QED
        BY <2>1, <2>2, <3>1, <3>2, WarrantMove
    <2>7. QED
      BY <2>4, <2>5, <2>6
  <1>5. QED
    BY <1>1, <1>2, <1>3, <1>4 DEF Observe

(* Inside the lock a goroutine keeps the reason it came with.              *)
SettleMove(a) ==
  \/ pc'[a] \in {"idle", "disableMem", "readmitMem"}
  \/ /\ pc'[a] \in {"coolMem", "relabel", "relabelMem"} /\ pc[a] \in CoolStep
     /\ job'[a].reason = job[a].reason /\ job'[a].disable = job[a].disable
  \/ pc'[a] = "disable" /\ pc[a] \in CoolStep /\ job[a].disable /\ job' = job

LEMMA WarrantSettle ==
  ASSUME TypeOK, WarrantInv, NEW a \in Actor, Settle(a)
  PROVE  WarrantInv'
  <1>t. /\ pc \in [Actor -> Step] /\ job \in [Actor -> JobType]
    BY DEF TypeOK
  <1>1. UNCHANGED <<outcome, lastTwo>>
    BY DEF Settle, CoolRow, CoolCache, RelabelRow, RelabelCache, DisableRow, DisableCache, ReadmitRow,
           ReadmitCache, DbError, hist
  <1>2. ASSUME NEW s \in Step, pc' = [pc EXCEPT ![a] = s], \A b \in Actor \ {a} : job'[b] = job[b],
               SettleMove(a)
        PROVE  WarrantInv'
    <2>1. StreakInv'
      BY <1>1 DEF WarrantInv, StreakInv
    <2>2. Warranted(a, job[a].reason)
      BY DEF WarrantInv
    <2>3. Warranted(a, job[a].reason)'
      BY <1>1, <1>2, <2>2, <1>t DEF SettleMove, Warranted, CoolStep
    <2>4. QED
      BY <1>1, <1>2, <2>1, <2>3, WarrantMove
  <1>3. ASSUME Release(a) PROVE WarrantInv'
    <2>1. pc' = [pc EXCEPT ![a] = "idle"] /\ \A b \in Actor \ {a} : job'[b] = job[b]
      BY <1>3, <1>t DEF Release, Return, Goto
    <2>2. QED
      BY <2>1, <1>2, <1>t DEF SettleMove
  <1>4. ASSUME AfterCool(a), pc[a] \in CoolStep PROVE WarrantInv'
    <2>1. CASE job[a].disable
      <3>1. pc' = [pc EXCEPT ![a] = "disable"] /\ job' = job
        BY <1>4, <2>1 DEF AfterCool, Goto
      <3>2. QED
        BY <1>2, <1>4, <2>1, <3>1, <1>t DEF SettleMove
    <2>2. CASE ~job[a].disable
      BY <1>3, <1>4, <2>2 DEF AfterCool
    <2>3. QED
      BY <2>1, <2>2
  <1>5. ASSUME NEW s \in {"coolMem", "relabel", "relabelMem"}, Goto(a, s), pc[a] \in CoolStep,
               \A b \in Actor \ {a} : job'[b] = job[b],
               job'[a].reason = job[a].reason /\ job'[a].disable = job[a].disable
        PROVE  WarrantInv'
    BY <1>2, <1>5, <1>t DEF SettleMove, Goto
  <1>6. ASSUME NEW s \in {"disableMem", "readmitMem"}, Goto(a, s), UNCHANGED job PROVE WarrantInv'
    BY <1>2, <1>6, <1>t DEF SettleMove, Goto
  <1>7. CASE CoolRow(a)
    <2>1. \/ Goto(a, "relabel") /\ UNCHANGED job
          \/ Goto(a, "coolMem") /\ \E until : job' = [job EXCEPT ![a].at = until]
      BY <1>7 DEF CoolRow
    <2>2. /\ \A b \in Actor \ {a} : job'[b] = job[b]
          /\ job'[a].reason = job[a].reason /\ job'[a].disable = job[a].disable
      BY <2>1, <1>t DEF JobType
    <2>3. pc[a] \in CoolStep
      BY <1>7 DEF CoolRow, Locked, CoolStep
    <2>4. QED
      BY <2>1, <2>2, <2>3, <1>5
  <1>8. CASE RelabelRow(a)
    <2>1. pc[a] \in CoolStep
      BY <1>8 DEF RelabelRow, Locked, CoolStep
    <2>2. AfterCool(a) \/ (Goto(a, "relabelMem") /\ UNCHANGED job)
      BY <1>8 DEF RelabelRow
    <2>3. QED
      BY <2>1, <2>2, <1>4, <1>5
  <1>9. CASE CoolCache(a) \/ RelabelCache(a)
    BY <1>9, <1>4 DEF CoolCache, RelabelCache, Locked, CoolStep
  <1>10. CASE DisableRow(a) \/ ReadmitRow(a)
    BY <1>10, <1>3, <1>6 DEF DisableRow, ReadmitRow
  <1>11. CASE DisableCache(a) \/ ReadmitCache(a)
    BY <1>11, <1>3 DEF DisableCache, ReadmitCache
  <1>12. CASE DbError(a)
    BY <1>12, <1>3, <1>4 DEF DbError, CoolStep
  <1>13. QED
    BY <1>7, <1>8, <1>9, <1>10, <1>11, <1>12 DEF Settle

LEMMA WarrantNext ==
  ASSUME TypeOK, LockDiscipline, WarrantInv, [Next]_vars
  PROVE  WarrantInv'
  <1> USE ConstantsOK DEF Assumptions
  <1>t. /\ pc \in [Actor -> Step] /\ job \in [Actor -> JobType] /\ StreakInv
    BY DEF TypeOK, WarrantInv
  <1>1. ASSUME NEW a \in Actor, NEW s \in Step, Goto(a, s), UNCHANGED <<outcome, lastTwo>>,
               \A b \in Actor \ {a} : job'[b] = job[b],
               \/ s \in {"idle", "reload", "reread", "reset", "refresh"}
               \/ s \in {"cap", "disable"} /\ job'[a].reason = "spend_limit_exhausted"
        PROVE  WarrantInv'
    <2>1. pc' = [pc EXCEPT ![a] = s] /\ pc'[a] = s
      BY <1>1, <1>t DEF Goto
    <2>2. StreakInv'
      BY <1>1, <1>t DEF StreakInv
    <2>3. Warranted(a, job[a].reason)'
      BY <1>1, <2>1 DEF Warranted, CoolStep
    <2>4. QED
      BY <1>1, <2>1, <2>2, <2>3, WarrantMove
  <1>2. ASSUME NEW a \in Actor, Spend(a) PROVE WarrantInv'
    <2>1. ASSUME NEW c \in Cost, AddSpend(a, c) PROVE WarrantInv'
      BY <2>1, <1>1 DEF AddSpend, hist
    <2>2. CASE ReloadSpend(a)
      <3>1. UNCHANGED <<outcome, lastTwo>>
        BY <2>2 DEF ReloadSpend, hist
      <3>2. \/ Goto(a, "cap") /\ job' = [job EXCEPT ![a].reason = "spend_limit_exhausted"]
            \/ Goto(a, "idle") /\ job' = [job EXCEPT ![a] = NoJob]
        BY <2>2 DEF ReloadSpend, Return
      <3>3. \A b \in Actor \ {a} : job'[b] = job[b]
        BY <3>2, <1>t
      <3>4. job' = [job EXCEPT ![a].reason = "spend_limit_exhausted"]
              => job'[a].reason = "spend_limit_exhausted"
        BY <1>t DEF JobType
      <3>5. QED
        BY <3>1, <3>2, <3>3, <3>4, <1>1
    <2>3. CASE DisableCapped(a)
      <3>1. job[a].reason = "spend_limit_exhausted"
        BY <2>3 DEF DisableCapped, WarrantInv, Warranted
      <3>2. QED
        BY <2>3, <3>1, <1>1 DEF DisableCapped, hist
    <2>4. QED
      BY <1>2, <2>1, <2>2, <2>3 DEF Spend
  <1>3. ASSUME outcome' = FreshOutcome, lastTwo' = <<"none", "none">> PROVE StreakInv'
    <2>1. outcome'.succ = 0 /\ outcome'.fail = 0 /\ outcome'.last = Unblamed
      BY <1>3, FreshStreaks
    <2>2. QED
      BY <2>1, StreaksMean DEF Streaks
  <1>4. ASSUME NEW a \in Actor, Administer(a) PROVE WarrantInv'
    <2>1. ASSUME NEW r, NEW s \in {"reread", "reset"}, AdminWrite(a, r, s) PROVE WarrantInv'
      BY <2>1, <1>1 DEF AdminWrite, Edited
    <2>2. CASE Reread(a)
      BY <2>2, <1>1 DEF Reread, hist
    <2>3. CASE ResetOutcome(a)
      <3>1. /\ StreakInv' /\ UNCHANGED job /\ lock = Free /\ pc' = [pc EXCEPT ![a] = "refresh"]
        BY <2>3, <1>3 DEF ResetOutcome, Forgotten, Goto
      <3>2. \A b \in Actor : pc[b] \notin LockedStep
        BY <3>1 DEF LockDiscipline
      <3>3. Warranted(a, job[a].reason)'
        BY <3>1, <1>t DEF Warranted, CoolStep
      <3>4. QED
        BY <3>1, <3>2, <3>3, WarrantMove
    <2>4. CASE Refresh(a)
      BY <2>4, <1>1 DEF Refresh, hist
    <2>5. QED
      BY <1>4, <2>1, <2>2, <2>3, <2>4 DEF Administer, UpdateKey, CreateKey, ResetKeySpend, DeleteKey
  <1>5. CASE Restart
    <2>1. StreakInv' /\ \A a \in Actor : pc'[a] = "idle"
      BY <1>3, <1>5 DEF Restart, Forgotten
    <2>2. QED
      BY <2>1 DEF WarrantInv, Warranted, CoolStep
  <1>6. CASE OtherRefresh \/ Tick \/ UNCHANGED vars
    BY <1>6 DEF OtherRefresh, Tick, vars, hist, WarrantInv, StreakInv, Warranted
  <1>7. QED
    BY <1>2, <1>4, <1>5, <1>6, WarrantObserve, WarrantSettle DEF Next

LEMMA AlwaysWarranted == Spec => []WarrantInv
  BY TypeCorrect, LockHeld, WarrantInit, WarrantNext, PTL DEF Spec

-----------------------------------------------------------------------------
(* The refinement: a status change of the row is one of KeyLifecycle's,    *)
(* everything else leaves its variables alone.                             *)

SameRow == UNCHANGED <<now, row, lastTwo, edits>>

LEMMA InitRefines == Init => Lifecycle!Init
  <1> SUFFICES ASSUME Init PROVE Lifecycle!Init
    OBVIOUS
  <1>1. PICK l \in Limit : row = NewRow("active", l)
    BY DEF Init
  <1>2. row = [status |-> "active", until |-> 0, reason |-> "", spent |-> 0, limit |-> l]
    BY <1>1 DEF NewRow, Absent
  <1>3. now = 1 /\ lastTwo = <<"none", "none">> /\ edits = FALSE
    BY DEF Init
  <1>4. QED
    BY <1>2, <1>3 DEF Lifecycle!Init, Lifecycle!Nothing

LEMMA RowFields ==
  ASSUME TypeOK
  PROVE  /\ row.status \in Status /\ row.until \in Nat /\ row.reason \in Reason
         /\ row.spent \in Nat /\ row.limit \in Nat /\ now \in Nat
         /\ row = [status |-> row.status, until |-> row.until, reason |-> row.reason,
                   spent |-> row.spent, limit |-> row.limit]
  BY DEF TypeOK, Row

LEMMA ObserveRefines ==
  ASSUME TypeOK, NEW a \in Actor, Observe(a)
  PROVE  SameRow \/ Lifecycle!Next
  <1>1. CASE ObserveSuccess(a)
    <2>1. Lifecycle!Observe("ok") /\ UNCHANGED edits
      BY <1>1 DEF ObserveSuccess, Observed, Lifecycle!Observe
    <2>2. QED
      BY <2>1 DEF Lifecycle!Next, Lifecycle!Automatic
  <1>2. ASSUME NEW r \in Fault, NEW d \in Cooldown, ObserveFailure(a, r, d)
        PROVE  Lifecycle!Next
    <2>1. Lifecycle!Observe(r) /\ UNCHANGED edits
      BY <1>2 DEF ObserveFailure, Observed, Lifecycle!Observe
    <2>2. QED
      BY <2>1 DEF Lifecycle!Next, Lifecycle!Automatic
  <1>3. CASE EmptyArrives(a) \/ ObserveEmpty(a)
    BY <1>3 DEF EmptyArrives, ObserveEmpty, hist, SameRow
  <1>4. QED
    BY <1>1, <1>2, <1>3 DEF Observe

(* Each guarded UPDATE, where its guard holds.                             *)
LEMMA SettleRefines ==
  ASSUME TypeOK, WarrantInv, NEW a \in Actor, Settle(a)
  PROVE  SameRow \/ Lifecycle!Next
  <1> USE ConstantsOK DEF Assumptions
  <1> DEFINE r == job[a].reason
  <1>t. r \in Reason /\ r \in Lifecycle!Reason /\ job[a].cooldown \in Nat
    BY DEF TypeOK, JobType, Reason, Lifecycle!Reason, SystemReason, Lifecycle!SystemReason,
           Permanent, Lifecycle!Permanent
  <1>w. Warranted(a, r)
    BY DEF WarrantInv
  <1>h. UNCHANGED <<now, lastTwo, edits>>
    BY DEF Settle, CoolRow, CoolCache, RelabelRow, RelabelCache, DisableRow, DisableCache, ReadmitRow,
           ReadmitCache, DbError, hist
  <1>s. pc[a] \in CoolStep => Lifecycle!JustSeen(r)
    BY <1>w DEF Warranted, Lifecycle!JustSeen
  <1> HIDE DEF r
  <1>1. CASE CoolRow(a)
    <2>1. CASE CanCool(now + job[a].cooldown)
      <3> DEFINE until == now + job[a].cooldown
      <3>1. /\ row' = [row EXCEPT !.status = "rate_limited", !.until = until, !.reason = r]
            /\ pc[a] \in CoolStep
        BY <1>1, <2>1 DEF CoolRow, Locked, CoolStep, r
      <3>2. until \in Nat /\ now <= until
        BY <1>t, RowFields
      <3>3. row.status \notin {"disabled", "absent"} /\ row.until <= until /\ ~Capped(row)
        BY <2>1 DEF CanCool
      <3> HIDE DEF until
      <3>4. row'.until = until
        BY <3>1, RowFields
      <3>5. Lifecycle!InService /\ ~Lifecycle!Capped
        BY <3>3, RowFields DEF Lifecycle!InService, Lifecycle!Capped, Capped, Status
      <3>6. Lifecycle!Cool(r)
        BY <1>h, <1>s, <3>1, <3>2, <3>3, <3>4, <3>5 DEF Lifecycle!Cool
      <3>7. QED
        BY <1>h, <1>t, <3>6 DEF Lifecycle!Next, Lifecycle!Automatic
    <2>2. CASE ~CanCool(now + job[a].cooldown)
      BY <1>1, <1>h, <2>2 DEF CoolRow, SameRow
    <2>3. QED
      BY <2>1, <2>2
  <1>2. CASE RelabelRow(a)
    <2>1. CASE CanRelabel(r)
      <3>1. row' = [row EXCEPT !.reason = r] /\ pc[a] \in CoolStep
        BY <1>2, <2>1 DEF RelabelRow, Locked, CoolStep, r
      <3>2. Lifecycle!Relabel(r)
        BY <1>h, <1>s, <2>1, <3>1 DEF Lifecycle!Relabel, Lifecycle!Capped, Capped, CanRelabel
      <3>3. QED
        BY <1>h, <1>t, <3>2 DEF Lifecycle!Next, Lifecycle!Automatic
    <2>2. CASE ~CanRelabel(r)
      BY <1>2, <1>h, <2>2 DEF RelabelRow, SameRow, r
    <2>3. QED
      BY <2>1, <2>2
  <1>3. CASE DisableRow(a)
    <2>1. CASE row.status \notin {"disabled", "absent"}
      <3>1. row' = [row EXCEPT !.status = "disabled", !.reason = r] /\ pc[a] = "disable"
        BY <1>3, <2>1 DEF DisableRow, Locked, r
      <3>2. Lifecycle!InService
        BY <2>1, RowFields DEF Lifecycle!InService, Status
      <3>3. \/ r \in Lifecycle!Permanent /\ lastTwo = <<r, r>>
            \/ r = "spend_limit_exhausted"
            \/ r = "empty_response" /\ EmptyThreshold > 0
        BY <1>w, <3>1 DEF Warranted, Permanent, Lifecycle!Permanent
      <3>4. Lifecycle!Disable(r)
        BY <1>h, <3>1, <3>2, <3>3 DEF Lifecycle!Disable
      <3>5. QED
        BY <1>h, <1>t, <3>4 DEF Lifecycle!Next, Lifecycle!Automatic
    <2>2. CASE row.status \in {"disabled", "absent"}
      BY <1>3, <1>h, <2>2 DEF DisableRow, SameRow
    <2>3. QED
      BY <2>1, <2>2
  <1>4. CASE ReadmitRow(a)
    <2>1. CASE CanReadmit
      <3>1. /\ row' = [row EXCEPT !.status = "active", !.until = 0, !.reason = ""]
            /\ pc[a] = "readmit"
        BY <1>4, <2>1 DEF ReadmitRow, Locked
      <3>2. lastTwo = <<"ok", "ok">>
        BY <1>w, <3>1 DEF Warranted
      <3>3. Lifecycle!InService \/ (row.status = "disabled" /\ row.reason \in Lifecycle!SystemReason)
        BY <2>1, RowFields DEF CanReadmit, Lifecycle!InService, Status, SystemReason,
           Lifecycle!SystemReason, Permanent, Lifecycle!Permanent
      <3>4. Lifecycle!Readmit
        BY <1>h, <2>1, <3>1, <3>2, <3>3 DEF Lifecycle!Readmit, Lifecycle!Capped, Capped, CanReadmit
      <3>5. QED
        BY <1>h, <3>4 DEF Lifecycle!Next, Lifecycle!Automatic
    <2>2. CASE ~CanReadmit
      BY <1>4, <1>h, <2>2 DEF ReadmitRow, SameRow
    <2>3. QED
      BY <2>1, <2>2
  <1>5. CASE CoolCache(a) \/ RelabelCache(a) \/ DisableCache(a) \/ ReadmitCache(a) \/ DbError(a)
    BY <1>5, <1>h DEF CoolCache, RelabelCache, DisableCache, ReadmitCache, DbError, SameRow
  <1>6. QED
    BY <1>1, <1>2, <1>3, <1>4, <1>5 DEF Settle

LEMMA SpendRefines ==
  ASSUME TypeOK, NEW a \in Actor, Spend(a)
  PROVE  SameRow \/ Lifecycle!Next
  <1> USE ConstantsOK DEF Assumptions
  <1>1. ASSUME NEW c \in Cost, AddSpend(a, c) PROVE Lifecycle!Next
    <2> DEFINE spent == row.spent + c
    <2>1. /\ row' = [row EXCEPT !.spent = spent] /\ row.status # "absent"
          /\ UNCHANGED <<now, lastTwo, edits>>
      BY <1>1 DEF AddSpend, hist
    <2>2. spent \in Nat /\ spent >= row.spent
      BY RowFields
    <2> HIDE DEF spent
    <2>3. row'.spent = spent
      BY <2>1, RowFields
    <2>4. Lifecycle!Spend
      BY <2>1, <2>2, <2>3 DEF Lifecycle!Spend
    <2>5. QED
      BY <2>1, <2>4 DEF Lifecycle!Next, Lifecycle!Automatic
  <1>2. CASE ReloadSpend(a) \/ DisableCapped(a)
    BY <1>2 DEF ReloadSpend, DisableCapped, hist, SameRow
  <1>3. QED
    BY <1>1, <1>2 DEF Spend

LEMMA AdministerRefines ==
  ASSUME TypeOK, TypeOK', NEW a \in Actor, Administer(a)
  PROVE  SameRow \/ Lifecycle!Next
  <1>1. ASSUME NEW r, NEW s, AdminWrite(a, r, s) PROVE Lifecycle!Next
    <2>1. row' \in Lifecycle!Row
      BY DEF TypeOK, Row, Status, Lifecycle!Row, Reason, Lifecycle!Reason, SystemReason,
             Lifecycle!SystemReason, Permanent, Lifecycle!Permanent
    <2>2. edits' = ~edits /\ UNCHANGED <<now, lastTwo>>
      BY <1>1 DEF AdminWrite, Edited
    <2>3. QED
      BY <2>1, <2>2 DEF Lifecycle!Next, Lifecycle!Administer
  <1>2. CASE ResetOutcome(a)
    <2>1. Lifecycle!Forget /\ UNCHANGED edits
      BY <1>2 DEF ResetOutcome, Forgotten, Lifecycle!Forget, Lifecycle!Nothing
    <2>2. QED
      BY <2>1 DEF Lifecycle!Next, Lifecycle!Automatic
  <1>3. CASE Reread(a) \/ Refresh(a)
    BY <1>3 DEF Reread, Refresh, hist, SameRow
  <1>4. QED
    BY <1>1, <1>2, <1>3 DEF Administer, UpdateKey, CreateKey, ResetKeySpend, DeleteKey

LEMMA NextRefines ==
  ASSUME TypeOK, TypeOK', WarrantInv, [Next]_vars
  PROVE  [Lifecycle!Next]_(Lifecycle!vars)
  <1>1. SameRow \/ Lifecycle!Next
    <2>1. CASE Restart
      <3>1. Lifecycle!Forget /\ UNCHANGED edits
        BY <2>1 DEF Restart, Forgotten, Lifecycle!Forget, Lifecycle!Nothing
      <3>2. QED
        BY <3>1 DEF Lifecycle!Next, Lifecycle!Automatic
    <2>2. CASE Tick
      <3>1. Lifecycle!Tick /\ UNCHANGED edits
        BY <2>2 DEF Tick, hist, Lifecycle!Tick
      <3>2. QED
        BY <3>1 DEF Lifecycle!Next, Lifecycle!Automatic
    <2>3. CASE OtherRefresh \/ UNCHANGED vars
      BY <2>3 DEF OtherRefresh, vars, hist, SameRow
    <2>4. QED
      BY <2>1, <2>2, <2>3, ObserveRefines, SettleRefines, SpendRefines, AdministerRefines DEF Next
  <1>2. QED
    BY <1>1 DEF SameRow, Lifecycle!vars

(* Nothing but an admin changes a key's row in a way its life cycle does   *)
(* not allow: KeyStatus implements KeyLifecycle, for any reasons, budgets, *)
(* cooldowns and settings and any number of goroutines.                    *)
THEOREM LifecycleImplemented == Spec => ImplementsLifecycle
  BY InitRefines, NextRefines, TypeCorrect, AlwaysWarranted, PTL
     DEF Spec, ImplementsLifecycle, Lifecycle!Spec

-----------------------------------------------------------------------------
(* What a failed observation leaves behind.                                *)

(* A failure whose cooldown UPDATE matched no row goes on to relabel it.   *)
(* The row was then disabled, gone, over its budget or kept a cooldown, and*)
(* stays so until the lock is released, unless an admin has written it,    *)
(* who then waits for that lock.                                           *)
AlreadyOut == \/ Blocked
              \/ row.status \in {"disabled", "absent"}
              \/ row.until # 0
              \/ Capped(row)
PassedOver == \A a \in Actor : pc[a] = "relabel" => AlreadyOut

LEMMA PassedInit == Init => PassedOver
  BY DEF Init, PassedOver

(* One goroutine moves and leaves the row's verdict as it was.             *)
LEMMA PassedMove ==
  ASSUME TypeOK, PassedOver, NEW a \in Actor, NEW s \in Step \ {"relabel"},
         pc' = [pc EXCEPT ![a] = s], AlreadyOut => AlreadyOut'
  PROVE  PassedOver'
  BY DEF TypeOK, PassedOver

LEMMA OutKept ==
  ASSUME TypeOK, NEW a \in Actor, NEW s \in Step, pc' = [pc EXCEPT ![a] = s],
         pc[a] \notin AdminStep, row' = row
  PROVE  AlreadyOut => AlreadyOut'
  BY AdminsKept DEF AlreadyOut, Capped

(* The lock holder alone is inside the status writes: when it leaves the   *)
(* relabelling, nobody is there.                                           *)
LEMMA PassedAlone ==
  ASSUME TypeOK, LockDiscipline, NEW a \in Actor, NEW s \in Step \ {"relabel"}, lock = a,
         pc' = [pc EXCEPT ![a] = s]
  PROVE  PassedOver'
  BY ConstantsOK DEF TypeOK, LockDiscipline, PassedOver, Assumptions

LEMMA PassedSettle ==
  ASSUME TypeOK, LockDiscipline, NEW a \in Actor, Settle(a)
  PROVE  PassedOver'
  <1>t. row.until \in Nat /\ now + job[a].cooldown \in Nat
    <2>1. row.until \in Nat /\ now \in Nat /\ job[a].cooldown \in Nat
      BY DEF TypeOK, Row, JobType
    <2>2. QED
      BY <2>1
  <1>1. CASE CoolRow(a)
    <2>1. CASE CanCool(now + job[a].cooldown)
      BY <1>1, <2>1, PassedAlone DEF CoolRow, Locked, Goto
    <2>2. CASE ~CanCool(now + job[a].cooldown)
      <3>1. pc' = [pc EXCEPT ![a] = "relabel"] /\ row' = row /\ pc[a] = "cool"
        BY <1>1, <2>2 DEF CoolRow, Locked, Goto
      <3>2. row.until # 0 \/ row.status \in {"disabled", "absent"} \/ Capped(row)
        BY <2>2, <1>t DEF CanCool
      <3>3. AlreadyOut'
        BY <3>1, <3>2 DEF AlreadyOut, Capped
      <3>4. QED
        BY <3>3 DEF PassedOver
    <2>3. QED
      BY <2>1, <2>2
  <1>2. CASE ~CoolRow(a)
    <2>1. lock = a
      BY <1>2 DEF Settle, CoolCache, RelabelRow, RelabelCache, DisableRow, DisableCache, ReadmitRow,
                  ReadmitCache, DbError, Locked
    <2>2. \E s \in {"idle", "disable", "relabelMem", "disableMem", "readmitMem"} :
            pc' = [pc EXCEPT ![a] = s]
      BY <1>2 DEF Settle, CoolCache, RelabelRow, RelabelCache, DisableRow, DisableCache, ReadmitRow,
                  ReadmitCache, DbError, AfterCool, Release, Return, Goto
    <2>3. QED
      BY <2>1, <2>2, PassedAlone
  <1>3. QED
    BY <1>1, <1>2

LEMMA PassedNext ==
  ASSUME TypeOK, LockDiscipline, PassedOver, [Next]_vars
  PROVE  PassedOver'
  <1>1. ASSUME NEW a \in Actor, Observe(a) PROVE PassedOver'
    <2>1. row' = row /\ pc[a] \in {"idle", "empty"}
      BY <1>1 DEF Observe, ObserveSuccess, ObserveFailure, EmptyArrives, ObserveEmpty, Start
    <2>2. \E s \in {"readmit", "cool", "empty", "idle"} : pc' = [pc EXCEPT ![a] = s]
      BY <1>1 DEF Observe, ObserveSuccess, ObserveFailure, EmptyArrives, ObserveEmpty, Start, Return,
                  Goto, TypeOK
    <2>3. QED
      BY <2>1, <2>2, OutKept, PassedMove
  <1>2. ASSUME NEW a \in Actor, Settle(a) PROVE PassedOver'
    BY <1>2, PassedSettle
  <1>3. ASSUME NEW a \in Actor, Spend(a) PROVE PassedOver'
    <2>1. ASSUME NEW c \in Cost, AddSpend(a, c) PROVE PassedOver'
      <3>1. /\ pc[a] = "idle" /\ pc' = [pc EXCEPT ![a] = "reload"]
            /\ row' = [row EXCEPT !.spent = row.spent + c]
        BY <2>1 DEF AddSpend, Goto
      <3>2. /\ row'.status = row.status /\ row'.until = row.until /\ row'.limit = row.limit
            /\ row'.spent = row.spent + c
        BY <3>1 DEF TypeOK, Row
      <3>3. c \in Nat /\ row.spent \in Nat /\ row.limit \in Nat
        BY ConstantsOK DEF Assumptions, TypeOK, Row
      <3>4. Capped(row) => Capped(row')
        BY <3>2, <3>3 DEF Capped
      <3>5. Blocked => Blocked'
        BY <3>1, <3>2, AdminsKept
      <3>6. AlreadyOut => AlreadyOut'
        BY <3>2, <3>4, <3>5 DEF AlreadyOut
      <3>7. QED
        BY <3>1, <3>6, PassedMove
    <2>2. CASE ReloadSpend(a) \/ DisableCapped(a)
      <3>1. row' = row /\ pc[a] \in {"reload", "cap"}
        BY <2>2 DEF ReloadSpend, DisableCapped
      <3>2. \E s \in {"cap", "idle", "disable"} : pc' = [pc EXCEPT ![a] = s]
        BY <2>2 DEF ReloadSpend, DisableCapped, Return, Goto
      <3>3. QED
        BY <3>1, <3>2, OutKept, PassedMove
    <2>3. QED
      BY <1>3, <2>1, <2>2 DEF Spend
  <1>4. ASSUME NEW a \in Actor, Administer(a) PROVE PassedOver'
    <2>1. ASSUME NEW r, AdminWrite(a, r, "reset") PROVE PassedOver'
      <3>1. Blocked'
        BY <2>1 DEF AdminWrite, Goto, Blocked, TypeOK
      <3>2. QED
        BY <3>1 DEF PassedOver, AlreadyOut
    <2>2. ASSUME NEW e \in Edit, UpdateKey(a, e) PROVE PassedOver'
      <3>1. row'.status # "absent"
        <4>1. row' = Merge(row, e) /\ row.status # "absent"
          BY <2>2 DEF UpdateKey, AdminWrite
        <4>2. e.status # "absent"
          BY ConstantsOK DEF Assumptions, EditSpace
        <4>3. Merge(row, e).status \in {e.status, row.status}
          BY DEF Merge
        <4>4. QED
          BY <4>1, <4>2, <4>3
      <3>2. pc' = [pc EXCEPT ![a] = "reread"]
        BY <2>2 DEF UpdateKey, AdminWrite, Goto
      <3>3. Blocked'
        BY <3>1, <3>2 DEF Blocked, TypeOK
      <3>4. QED
        BY <3>3 DEF PassedOver, AlreadyOut
    <2>3. CASE Reread(a)
      <3>1. CASE row.status = "absent"
        <4>1. row' = row /\ pc' = [pc EXCEPT ![a] = "idle"]
          BY <2>3, <3>1 DEF Reread, Goto
        <4>2. AlreadyOut'
          BY <3>1, <4>1 DEF AlreadyOut
        <4>3. QED
          BY <4>1, <4>2, PassedMove
      <3>2. CASE row.status # "absent"
        <4>1. pc' = [pc EXCEPT ![a] = "reset"]
          BY <2>3, <3>2 DEF Reread, Goto
        <4>2. Blocked'
          BY <4>1 DEF Blocked, TypeOK
        <4>3. QED
          BY <4>2 DEF PassedOver, AlreadyOut
      <3>3. QED
        BY <3>1, <3>2
    <2>4. CASE ResetOutcome(a)
      <3>1. lock = Free /\ pc' = [pc EXCEPT ![a] = "refresh"]
        BY <2>4 DEF ResetOutcome, Goto
      <3>2. \A b \in Actor : pc'[b] # "relabel"
        BY <3>1, ConstantsOK DEF LockDiscipline, TypeOK, Assumptions
      <3>3. QED
        BY <3>2 DEF PassedOver
    <2>5. CASE Refresh(a)
      <3>1. pc[a] = "refresh" /\ row' = row /\ pc' = [pc EXCEPT ![a] = "idle"]
        BY <2>5 DEF Refresh, Goto
      <3>2. Blocked => Blocked'
        BY <3>1 DEF Blocked, TypeOK
      <3>3. AlreadyOut => AlreadyOut'
        BY <3>1, <3>2 DEF AlreadyOut, Capped
      <3>4. QED
        BY <3>1, <3>3, PassedMove
    <2>6. QED
      BY <1>4, <2>1, <2>2, <2>3, <2>4, <2>5 DEF Administer, CreateKey, ResetKeySpend, DeleteKey
  <1>5. CASE Restart
    BY <1>5 DEF Restart, PassedOver
  <1>6. CASE OtherRefresh \/ Tick \/ UNCHANGED vars
    <2>1. row' = row /\ pc' = pc
      BY <1>6 DEF OtherRefresh, Tick, vars
    <2>2. QED
      BY <2>1 DEF PassedOver, AlreadyOut, Blocked, Capped
  <1>7. QED
    BY <1>1, <1>2, <1>3, <1>4, <1>5, <1>6 DEF Next

(* Outside a cache step the selector sees the row's status, or an admin is *)
(* busy with it.                                                           *)
LEMMA HolderSees ==
  ASSUME LockDiscipline, CacheInv, NEW a \in Actor, lock = a, pc[a] \notin CacheStep
  PROVE  AdminBusy \/ mem.status = row.status
  <1>1. Pending => AdminBusy
    BY DEF Pending, Blocked, AdminBusy
  <1>2. \A b \in Actor : pc[b] \notin CacheStep
    BY DEF LockDiscipline
  <1>3. QED
    BY <1>1, <1>2 DEF CacheInv, Coherent

Dealt == OutOfRotation \/ (row'.status = "active" /\ row'.until # 0)

LEMMA SettledOut ==
  ASSUME ~DbMayFail, TypeOK, LockDiscipline, CacheInv, PassedOver,
         NEW a \in Actor, Settle(a), ReportsFailure(a)
  PROVE  Dealt
  <1>b. Blocked => AdminBusy
    BY DEF Blocked, AdminBusy
  <1>c. Pending => AdminBusy
    BY DEF Pending, Blocked, AdminBusy
  <1>p. /\ pc[a] \in LockedStep \ {"readmit", "readmitMem"} /\ pc'[a] = "idle"
        /\ pc \in [Actor -> Step]
    BY DEF ReportsFailure, TypeOK
  <1>1. CASE CoolRow(a)
    BY <1>1, <1>p DEF CoolRow, Goto
  <1>2. CASE CoolCache(a) \/ DisableCache(a)
    BY <1>2 DEF CoolCache, DisableCache, Dealt, OutOfRotation
  <1>3. CASE RelabelRow(a)
    <2>1. pc[a] = "relabel" /\ lock = a /\ mem' = mem
      BY <1>3 DEF RelabelRow, Locked
    <2>2. row' = row
      BY <1>3, <1>p DEF RelabelRow, Goto
    <2>3. AlreadyOut
      BY <2>1 DEF PassedOver
    <2>4. AdminBusy \/ mem.status = row.status
      BY <2>1, HolderSees
    <2>5. QED
      BY <1>b, <2>1, <2>2, <2>3, <2>4 DEF AlreadyOut, Dealt, OutOfRotation, Capped
  <1>4. CASE RelabelCache(a)
    <2>1. /\ pc[a] = "relabelMem"
          /\ mem' = IF mem.status = "absent" THEN mem ELSE [mem EXCEPT !.reason = job[a].reason]
      BY <1>4 DEF RelabelCache, Locked
    <2>2. mem'.status = mem.status
      BY <2>1 DEF TypeOK, View
    <2>3. Owed(a)
      BY DEF CacheInv
    <2>4. QED
      BY <1>b, <1>c, <2>1, <2>2, <2>3 DEF Owed, Dealt, OutOfRotation
  <1>5. CASE DisableRow(a)
    <2>1. pc[a] = "disable" /\ lock = a /\ mem' = mem
      BY <1>5 DEF DisableRow, Locked
    <2>2. row.status \in {"disabled", "absent"}
      BY <1>5, <1>p DEF DisableRow, Goto
    <2>3. AdminBusy \/ mem.status = row.status
      BY <2>1, HolderSees
    <2>4. QED
      BY <2>1, <2>2, <2>3 DEF Dealt, OutOfRotation
  <1>6. CASE ReadmitRow(a) \/ ReadmitCache(a)
    BY <1>6, <1>p DEF ReadmitRow, ReadmitCache, Locked
  <1>7. QED
    BY <1>1, <1>2, <1>3, <1>4, <1>5, <1>6 DEF Settle, DbError

(* Only a step of its own, inside the lock, ends a goroutine's failure.    *)
LEMMA EndsByItself ==
  ASSUME ~MayCrash, TypeOK, [Next]_vars, NEW a \in Actor, ReportsFailure(a)
  PROVE  Settle(a)
  <1>p. /\ pc[a] \in LockedStep \ {"readmit", "readmitMem"} /\ pc'[a] = "idle"
        /\ pc \in [Actor -> Step]
    BY DEF ReportsFailure, TypeOK
  <1>1. ASSUME NEW b \in Actor, Observe(b) \/ Spend(b) \/ Administer(b)
        PROVE  FALSE
    <2>1. pc[b] \notin LockedStep
      BY <1>1 DEF Observe, ObserveSuccess, ObserveFailure, EmptyArrives, ObserveEmpty, Start,
                  Spend, AddSpend, ReloadSpend, DisableCapped, Administer, UpdateKey, CreateKey,
                  ResetKeySpend, DeleteKey, AdminWrite, Reread, ResetOutcome, Refresh
    <2>2. \E s : pc' = [pc EXCEPT ![b] = s]
      <3>1. CASE Observe(b)
        BY <3>1, <1>p DEF Observe, ObserveSuccess, ObserveFailure, EmptyArrives, ObserveEmpty, Return,
                    Goto
      <3>2. CASE Spend(b)
        BY <3>2 DEF Spend, AddSpend, ReloadSpend, DisableCapped, Return, Goto
      <3>3. CASE Administer(b)
        BY <3>3 DEF Administer, UpdateKey, CreateKey, ResetKeySpend, DeleteKey, AdminWrite, Reread,
                    ResetOutcome, Refresh, Goto
      <3>4. QED
        BY <1>1, <3>1, <3>2, <3>3
    <2>3. QED
      BY <2>1, <2>2, <1>p
  <1>2. ASSUME NEW b \in Actor, Settle(b), a # b
        PROVE  FALSE
    <2>1. \E s : pc' = [pc EXCEPT ![b] = s]
      BY <1>2 DEF Settle, CoolRow, CoolCache, RelabelRow, RelabelCache, DisableRow, DisableCache,
                  ReadmitRow, ReadmitCache, DbError, AfterCool, Release, Return, Goto
    <2>2. QED
      BY <2>1, <1>2, <1>p
  <1>3. ~(OtherRefresh \/ Restart \/ Tick \/ UNCHANGED vars)
    BY <1>p DEF OtherRefresh, Restart, Tick, vars
  <1>4. QED
    BY <1>1, <1>2, <1>3 DEF Next

(* While the database answers and the process lives, a failed observation  *)
(* that has been dealt with leaves the key out of rotation, for any number *)
(* of goroutines, any reasons, cooldowns, budgets and settings; a failing  *)
(* UPDATE changes nothing, so the premise is needed.                       *)
THEOREM FailureTakesOut ==
  ASSUME ~DbMayFail, ~MayCrash
  PROVE  Spec => FailureLeavesRotation
  <1>1. TypeOK /\ LockDiscipline /\ CacheInv /\ PassedOver /\ [Next]_vars
          => [ \A a \in Actor :
                 ReportsFailure(a) => \/ OutOfRotation
                                      \/ row'.status = "active" /\ row'.until # 0 ]_vars
    BY SettledOut, EndsByItself DEF Dealt
  <1>2. QED
    BY <1>1, TypeCorrect, LockHeld, CacheInit, CacheNext, PassedInit, PassedNext, PTL
       DEF Spec, FailureLeavesRotation

=============================================================================
