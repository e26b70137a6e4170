--------------------------- MODULE HealthChecker ---------------------------
(***************************************************************************)
(* The background health checker (health/checker.go): the life of its loop *)
(* goroutines under Start, Stop, Disable and Restart, which main and the   *)
(* settings handler call concurrently, and what a pass of the loop does to *)
(* one key while traffic and admins change the key's row under it.         *)
(*                                                                         *)
(* Every section under Checker.mu is one step, every wait on a done        *)
(* channel another.  A generation's done channel is closed exactly when    *)
(* its loop is "gone".  The passes treat keys independently, so one key is *)
(* enough.                                                                 *)
(***************************************************************************)
EXTENDS Naturals

CONSTANTS
  Main,        \* main: starts the checker, in the end disables it
  Handler,     \* goroutines UpdateSettings spawns to restart it
  Latch,       \* failed probes in a row before probing is given up (6)
  MaxSaves     \* bound: saves of the interval

Caller == Handler \cup {Main}

ASSUME HandlerAssumption == Main \notin Handler
ASSUME LatchAssumption == Latch \in Nat \ {0}
ASSUME SavesAssumption == MaxSaves \in Nat

VARIABLES
  running, disabled,
  gen,           \* generations launched; stopChan and done are those of the last
  loop,          \* per generation: where its goroutine is, stopChan closed?
  interval,      \* c.interval, which the last loop launched took along ...
  read,          \* ... and whether the setting could be read for it
  stoppingDone,  \* the generation being drained, 0 = nil
  activeLoops,
  setting,       \* the saved interval, as the number of the save that wrote it
  asked,         \* history: the last of these saves whose request was answered "ok"
  pc,            \* per caller: the step it is at
  awaited,       \* per caller: the generation it waits for
  written,       \* per caller: the save its request has made and not answered yet
  kind,          \* the key's row, as far as a probe looks at it
  failCount,     \* the key's consecutive failed probes
  recent,        \* was the key probed within activeProbeInterval?
  clearing       \* an admin edit has written the row, ResetFailCount is next

lifecycle == <<running, disabled, gen, loop, interval, read, stoppingDone, activeLoops>>
request == <<setting, asked, written>>
calls == <<request, pc, awaited>>
key == <<kind, failCount, recent, clearing>>
vars == <<lifecycle, calls, key>>

(* "cooling" is rate_limited with its cooldown running, "cooled" with it   *)
(* over; "sick" is disabled by the system; "barred" is disabled by an      *)
(* admin, out of budget (whatever its status) or deleted.                  *)
Kind == {"active", "cooling", "cooled", "sick", "barred"}
(* Definitions named ..Broken are plausible slips; no other definition uses *)
(* them.  They show that the properties would notice.                      *)
ProbeableBroken == {"cooled", "sick"}
Probeable == {"active", "cooled", "sick"}

InPass == {"fresh", "latch", "probe", "reportOk", "reportFail"}
LoopStep == InPass \cup {"select", "leave", "closing", "gone"}
CallStep == {"idle", "saved", "stop", "stopWait", "start", "startWait"}

NewLoop == [at |-> "select", stop |-> FALSE]

Init ==
  /\ running = FALSE /\ disabled = FALSE
  /\ gen = 0 /\ loop = [g \in {} |-> NewLoop]
  /\ stoppingDone = 0 /\ activeLoops = 0
  /\ interval = 0 /\ read = FALSE
  /\ setting = 1 /\ asked = 1
  /\ pc = [a \in Caller |-> IF a = Main THEN "start" ELSE "idle"]
  /\ awaited = [a \in Caller |-> 0] /\ written = [a \in Caller |-> 0]
  /\ kind = "active" /\ failCount = 0 /\ recent = FALSE /\ clearing = FALSE

Goto(a, to) == pc' = [pc EXCEPT ![a] = to]
Gone(g) == g = 0 \/ loop[g].at = "gone"

-----------------------------------------------------------------------------
(* The callers.                                                            *)

(* Saves are numbered from 1, the one an earlier run left; 0 is the        *)
(* interval built into the checker.  GetSetting hides an error, and the    *)
(* interval stays that of the last loop.                                   *)
IntervalBroken(ok) == IF ok /\ gen = 0 THEN setting ELSE interval
Interval(ok) == IF ok THEN setting ELSE interval

Launch ==
  /\ gen' = gen + 1
  /\ loop' = [g \in 1 .. gen + 1 |-> IF g = gen + 1 THEN NewLoop ELSE loop[g]]
  /\ read' \in BOOLEAN /\ interval' = Interval(read')
  /\ running' = TRUE
  /\ activeLoops' = activeLoops + 1
  /\ UNCHANGED <<disabled, stoppingDone>>

MayLaunchBroken == ~running
MayLaunch == ~running /\ ~disabled

(* One turn of Start's loop: nothing to do, a generation to wait for, or   *)
(* the launch of the next one.                                             *)
Start(a) ==
  /\ pc[a] = "start"
  /\ \/ /\ ~MayLaunch
        /\ Goto(a, "idle") /\ UNCHANGED <<lifecycle, awaited>>
     \/ /\ MayLaunch
        /\ stoppingDone # 0 \/ activeLoops # 0
        /\ awaited' = [awaited EXCEPT ![a] = IF stoppingDone # 0 THEN stoppingDone ELSE gen]
        /\ Goto(a, "startWait") /\ UNCHANGED lifecycle
     \/ /\ MayLaunch
        /\ stoppingDone = 0 /\ activeLoops = 0
        /\ Launch
        /\ Goto(a, "idle") /\ UNCHANGED awaited
  /\ UNCHANGED <<request, key>>

(* A caller forgets the generation it has waited for.                      *)
Returned(a) == awaited' = [awaited EXCEPT ![a] = 0]

Resume(a) ==
  /\ pc[a] = "startWait" /\ Gone(awaited[a])
  /\ stoppingDone' = IF stoppingDone = awaited[a] THEN 0 ELSE stoppingDone
  /\ Returned(a) /\ Goto(a, "start")
  /\ UNCHANGED <<running, disabled, gen, loop, interval, read, activeLoops, request, key>>

AfterStopBroken(a) == "idle"
AfterStop(a) == IF a = Main THEN "idle" ELSE "start"

StopBroken(a) ==
  /\ pc[a] = "stop"
  /\ loop' = IF running THEN [loop EXCEPT ![gen].stop = TRUE] ELSE loop
  /\ running' = FALSE
  /\ awaited' = [awaited EXCEPT ![a] = IF running THEN gen ELSE 0]
  /\ Goto(a, IF running THEN "stopWait" ELSE AfterStop(a))
  /\ UNCHANGED <<disabled, gen, interval, read, stoppingDone, activeLoops, request, key>>
Stop(a) ==
  LET drained == IF running THEN gen ELSE stoppingDone IN
  /\ pc[a] = "stop"
  /\ loop' = IF running THEN [loop EXCEPT ![gen].stop = TRUE] ELSE loop
  /\ running' = FALSE
  /\ stoppingDone' = drained
  /\ awaited' = [awaited EXCEPT ![a] = drained]
  /\ Goto(a, IF drained # 0 THEN "stopWait" ELSE AfterStop(a))
  /\ UNCHANGED <<disabled, gen, interval, read, activeLoops, request, key>>

StopReturnsBroken(a) ==
  /\ pc[a] = "stopWait" /\ stoppingDone = 0
  /\ Returned(a) /\ Goto(a, AfterStop(a))
  /\ UNCHANGED <<lifecycle, request, key>>
StopReturns(a) ==
  /\ pc[a] = "stopWait" /\ Gone(awaited[a])
  /\ Returned(a) /\ Goto(a, AfterStop(a))
  /\ UNCHANGED <<lifecycle, request, key>>

(* UpdateSettings saves its settings one by one, the interval among them.  *)
UpdateSettings(h) ==
  /\ pc[h] = "idle" /\ setting <= MaxSaves
  /\ setting' = setting + 1
  /\ written' = [written EXCEPT ![h] = setting']
  /\ Goto(h, "saved")
  /\ UNCHANGED <<lifecycle, asked, awaited, key>>

(* All were saved, Restart is spawned and the answer is "ok"; or another   *)
(* one failed, the answer is an error and the interval stays saved.        *)
Answer(h) ==
  /\ pc[h] = "saved"
  /\ \/ asked' = (IF written[h] > asked THEN written[h] ELSE asked) /\ Goto(h, "stop")
     \/ Goto(h, "idle") /\ UNCHANGED asked
  /\ written' = [written EXCEPT ![h] = 0]
  /\ UNCHANGED <<lifecycle, setting, awaited, key>>

(* The window has been closed.                                             *)
Disable ==
  /\ pc[Main] = "idle" /\ ~disabled
  /\ disabled' = TRUE
  /\ Goto(Main, "stop")
  /\ UNCHANGED <<running, gen, loop, interval, read, stoppingDone, activeLoops,
                 request, awaited, key>>

-----------------------------------------------------------------------------
(* The loop goroutine of generation g.                                     *)

At(g, s) == loop[g].at = s
Move(g, s) == /\ loop' = [loop EXCEPT ![g].at = s]
              /\ UNCHANGED <<running, disabled, gen, interval, read, stoppingDone, calls>>

LoopStops(g) ==
  /\ At(g, "select") /\ loop[g].stop
  /\ Move(g, "leave") /\ UNCHANGED <<activeLoops, key>>

LoopLeaves(g) ==
  /\ At(g, "leave")
  /\ activeLoops' = activeLoops - 1
  /\ Move(g, "closing") /\ UNCHANGED key

LoopCloses(g) == At(g, "closing") /\ Move(g, "gone") /\ UNCHANGED <<activeLoops, key>>

(* The ticker fires: checkAll reads the keys, shouldProbeKey decides.  A   *)
(* select with both channels ready may take either.                        *)
Pass(g) ==
  /\ At(g, "select")
  /\ kind \in Probeable /\ ~(kind = "active" /\ recent)
  /\ Move(g, "fresh") /\ UNCHANGED <<activeLoops, key>>

(* checkKey reads the row again ...                                        *)
Refreshed(g) ==
  /\ At(g, "fresh")
  /\ Move(g, IF kind \in Probeable THEN "latch" ELSE "select")
  /\ UNCHANGED <<activeLoops, key>>

(* ... then looks at the latch.  The probe time is noted before the probe. *)
LatchCheck(g) ==
  /\ At(g, "latch")
  /\ IF failCount >= Latch THEN Move(g, "select") /\ UNCHANGED recent
                           ELSE Move(g, "probe") /\ recent' = TRUE
  /\ UNCHANGED <<activeLoops, kind, failCount, clearing>>

ProbeAnswers(g) ==
  /\ At(g, "probe")
  /\ \/ Move(g, "reportOk") /\ failCount' = 0
     \/ /\ Move(g, "reportFail")
        /\ failCount' = IF failCount < Latch THEN failCount + 1 ELSE failCount
  /\ UNCHANGED <<activeLoops, kind, recent, clearing>>

(* What one more observation may do to the row (KeyStatus has the detail). *)
AfterSuccess == {kind} \cup IF kind \in {"cooled", "sick"} THEN {"active"} ELSE {}
AfterFailure == IF kind \in {"active", "cooling", "cooled"} THEN {"cooling", "sick"}
                                                            ELSE {kind}

(* The engine tells main's callback, which forgives the failed probes of a *)
(* key it makes active; an active key may be made active once more, to     *)
(* clear what is left of a cooldown.                                       *)
Forgiven ==
  IF kind' = "active" THEN {0} \cup (IF kind = "active" THEN {failCount} ELSE {}) ELSE {failCount}

Report(g) ==
  /\ \/ At(g, "reportOk") /\ kind' \in AfterSuccess
     \/ At(g, "reportFail") /\ kind' \in AfterFailure
  /\ failCount' \in Forgiven
  /\ Move(g, "select")
  /\ UNCHANGED <<activeLoops, recent, clearing>>

-----------------------------------------------------------------------------
(* The rest of the program, as the checker meets it.                       *)

Keep == UNCHANGED <<lifecycle, calls>>

(* A relayed request: an observation, or the last of the budget.           *)
Traffic == /\ kind' \in AfterSuccess \cup AfterFailure \cup
                        (IF kind \in {"active", "cooling", "cooled"} THEN {"barred"} ELSE {})
           /\ failCount' \in Forgiven
           /\ Keep /\ UNCHANGED <<recent, clearing>>

CooldownEnds == /\ kind = "cooling" /\ kind' = "cooled"
                /\ Keep /\ UNCHANGED <<failCount, recent, clearing>>

HourPasses == recent /\ recent' = FALSE /\ Keep /\ UNCHANGED <<kind, failCount, clearing>>

(* CreateKey, UpdateKey and DeleteKey write the row, then ResetFailCount.  *)
AdminWrites == /\ ~clearing /\ clearing' = TRUE
               /\ kind' \in Kind \ {"sick"}
               /\ Keep /\ UNCHANGED <<failCount, recent>>
ResetFailCount == /\ clearing /\ clearing' = FALSE /\ failCount' = 0
                  /\ Keep /\ UNCHANGED <<kind, recent>>

(* ResetKeySpend writes the row itself: no callback, and no ResetFailCount. *)
ResetKeySpend == /\ kind # "active" /\ kind' = "active"
                 /\ Keep /\ UNCHANGED <<failCount, recent, clearing>>

Call(a) == Start(a) \/ Resume(a) \/ Stop(a) \/ StopReturns(a) \/ Answer(a)
Loop(g) == \/ LoopStops(g) \/ LoopLeaves(g) \/ LoopCloses(g) \/ Pass(g)
           \/ Refreshed(g) \/ LatchCheck(g) \/ ProbeAnswers(g) \/ Report(g)
Outside == \/ Traffic \/ CooldownEnds \/ HourPasses
           \/ AdminWrites \/ ResetFailCount \/ ResetKeySpend

Next == \/ \E a \in Caller : Call(a)
        \/ \E h \in Handler : UpdateSettings(h)
        \/ Disable
        \/ \E g \in 1 .. gen : Loop(g)
        \/ Outside

Spec == Init /\ [][Next]_vars

-----------------------------------------------------------------------------
(* Properties.                                                             *)

TypeOK ==
  /\ running \in BOOLEAN /\ disabled \in BOOLEAN
  /\ gen \in Nat /\ stoppingDone \in 0 .. gen /\ activeLoops \in Nat
  /\ loop \in [1 .. gen -> [at : LoopStep, stop : BOOLEAN]]
  /\ interval \in Nat /\ read \in BOOLEAN
  /\ setting \in Nat /\ asked \in Nat /\ written \in [Caller -> Nat]
  /\ pc \in [Caller -> CallStep]
  /\ awaited \in [Caller -> 0 .. gen]
  /\ kind \in Kind /\ failCount \in 0 .. Latch
  /\ recent \in BOOLEAN /\ clearing \in BOOLEAN

(* Start's wait for the old generation: however Starts, Stops and Restarts *)
(* interleave, two generations never run passes (and bill probes) at once. *)
OneLoop == \A g, h \in 1 .. gen : loop[g].at # "gone" /\ loop[h].at # "gone" => g = h

(* Disable's contract: once it has returned no loop runs and none is ever  *)
(* started again, so that main can save the windows and exit.              *)
QuietOnceDisabled == disabled /\ pc[Main] = "idle" => \A g \in 1 .. gen : Gone(g)

(* No Restart is overtaken: a running loop that has read the setting has    *)
(* the interval of every request that was told it is saved, unless a       *)
(* Restart that has not yet stopped it is on its way.                      *)
FreshInterval ==
  running /\ read /\ interval < asked => \E a \in Caller : pc[a] = "stop"

-----------------------------------------------------------------------------
(* The invariant behind them.                                              *)

Counted == LoopStep \ {"closing", "gone"}

LoopInv ==
  /\ \A g \in 1 .. gen : g # gen => loop[g].at = "gone"
  /\ running => gen # 0 /\ loop[gen].at \in InPass \cup {"select"} /\ ~loop[gen].stop
  /\ gen # 0 /\ ~running /\ loop[gen].at # "gone" => stoppingDone = gen /\ loop[gen].stop
  /\ gen # 0 /\ loop[gen].at \in {"leave", "closing", "gone"} => ~running
  /\ activeLoops = IF gen # 0 /\ loop[gen].at \in Counted THEN 1 ELSE 0

(* Once disabled and stopped, nothing is launched any more, and main waits *)
(* for the last generation.                                                *)
DisableInv ==
  disabled /\ pc[Main] # "stop" =>
    /\ ~running
    /\ pc[Main] \in {"stopWait", "idle"}
    /\ Gone(gen) \/ (pc[Main] = "stopWait" /\ awaited[Main] = gen)

-----------------------------------------------------------------------------
(* A request answered "ok" is answered for a save that was made, and no     *)
(* request claims a save that was not.                                     *)
SaveInv == asked <= setting /\ \A a \in Caller : written[a] <= setting

-----------------------------------------------------------------------------
(* Fairness: goroutines run, the ticker ticks; a probe answers or times    *)
(* out after ten seconds; a select offered the stop channel again and      *)
(* again takes it.  Only the last generation has steps to take (OneLoop).  *)
FairSpec ==
  /\ Spec
  /\ \A a \in Caller : WF_vars(Call(a))
  /\ WF_vars(\E g \in 1 .. gen : \/ LoopLeaves(g) \/ LoopCloses(g) \/ Pass(g) \/ Refreshed(g)
                                  \/ LatchCheck(g) \/ ProbeAnswers(g) \/ Report(g))
  /\ SF_vars(\E g \in 1 .. gen : LoopStops(g))
  /\ WF_vars(ResetFailCount)

(* No Restart is lost: in the end the checker runs with the interval of     *)
(* the last request that was told it is saved, or could not read it when   *)
(* it was launched, or has been disabled.                                  *)
SettingTakesEffect ==
  []<>(disabled \/ (running /\ (interval >= asked \/ ~read)))

(* Disable returns, so the shutdown that waits for it goes on.             *)
DisableReturns == disabled ~> pc[Main] = "idle"

(* An active key that has not been probed for an hour is probed although   *)
(* no traffic reaches it, unless its probes keep failing (the latch).      *)
Due == running /\ kind = "active" /\ ~recent
DueKeyIsProbed == (Due /\ failCount < Latch) ~> ~Due

=============================================================================
