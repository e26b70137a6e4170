------------------------ MODULE HealthCheckerProofs ------------------------
(***************************************************************************)
(* Proofs about HealthChecker, for any number of handlers, restarts and    *)
(* generations: never two loops, none once Disable has returned, and a     *)
(* running loop has every interval that was acknowledged, could not read   *)
(* the setting, or is about to be restarted.                               *)
(*                                                                         *)
(* The invariant: every generation but the last is gone (LoopInv), because *)
(* stoppingDone keeps naming a last generation that has been stopped and   *)
(* is not gone yet, and Start waits for it.                                *)
(***************************************************************************)
EXTENDS HealthChecker, TLAPS

Inv == TypeOK /\ LoopInv /\ DisableInv /\ SaveInv /\ FreshInterval

LoopType == [at : LoopStep, stop : BOOLEAN]

LEMMA InvInit == Init => Inv
  <1> SUFFICES ASSUME Init PROVE Inv
    OBVIOUS
  <1>1. gen = 0 /\ 1 .. gen = {} /\ ~running /\ ~disabled /\ activeLoops = 0
    BY DEF Init
  <1>2. loop \in [1 .. gen -> LoopType]
    BY <1>1 DEF Init
  <1>3. TypeOK
    <2>1. pc \in [Caller -> CallStep]
      BY DEF Init, CallStep
    <2>2. awaited \in [Caller -> 0 .. gen] /\ stoppingDone \in 0 .. gen
      BY <1>1 DEF Init
    <2>3. kind \in Kind /\ failCount \in 0 .. Latch
      BY LatchAssumption DEF Init, Kind
    <2>4. /\ recent \in BOOLEAN /\ clearing \in BOOLEAN
          /\ setting \in Nat /\ asked \in Nat /\ written \in [Caller -> Nat]
          /\ running \in BOOLEAN /\ disabled \in BOOLEAN
          /\ interval \in Nat /\ read \in BOOLEAN
      BY DEF Init
    <2>5. QED
      BY <1>1, <1>2, <2>1, <2>2, <2>3, <2>4 DEF TypeOK, LoopType
  <1>4. LoopInv /\ DisableInv /\ SaveInv /\ FreshInterval
    BY <1>1 DEF Init, LoopInv, DisableInv, SaveInv, FreshInterval
  <1>5. QED
    BY <1>3, <1>4 DEF Inv

(* A loop goroutine that moves is the one of the last generation.          *)
LEMMA LoopMove ==
  ASSUME TypeOK, LoopInv, NEW g \in 1 .. gen, NEW s \in LoopStep,
         loop' = [loop EXCEPT ![g].at = s], loop[g].at # "gone"
  PROVE  /\ g = gen /\ gen # 0
         /\ loop' \in [1 .. gen -> LoopType]
         /\ loop'[gen].at = s /\ loop'[gen].stop = loop[gen].stop
         /\ \A h \in 1 .. gen : h # gen => loop'[h] = loop[h]
  <1>1. g = gen /\ gen # 0
    BY DEF LoopInv, TypeOK
  <1>2. loop \in [1 .. gen -> LoopType]
    BY DEF TypeOK, LoopType
  <1>3. loop'[g] = [loop[g] EXCEPT !.at = s]
    BY <1>2
  <1>4. loop[g] \in LoopType
    BY <1>2
  <1>5. loop'[g].at = s /\ loop'[g].stop = loop[g].stop /\ loop'[g] \in LoopType
    BY <1>3, <1>4 DEF LoopType
  <1>6. QED
    BY <1>1, <1>2, <1>5

(* What a move of the last generation's loop must respect.                 *)
LEMMA LoopStepInv ==
  ASSUME Inv, NEW g \in 1 .. gen, NEW s \in LoopStep, Move(g, s), loop[g].at # "gone",
         activeLoops' \in Nat,
         kind' \in Kind, failCount' \in 0 .. Latch, recent' \in BOOLEAN, clearing' \in BOOLEAN,
         s \in {"leave", "closing", "gone"} => ~running,
         activeLoops' = IF s \in Counted THEN 1 ELSE 0
  PROVE  Inv'
  <1>0. TypeOK /\ LoopInv /\ DisableInv /\ SaveInv /\ FreshInterval
    BY DEF Inv
  <1>1. /\ loop' = [loop EXCEPT ![g].at = s] /\ running' = running /\ disabled' = disabled
        /\ gen' = gen /\ stoppingDone' = stoppingDone /\ interval' = interval /\ read' = read
        /\ UNCHANGED <<setting, asked, written, pc, awaited>>
    BY DEF Move, calls, request
  <1>2. /\ g = gen /\ gen # 0
        /\ loop' \in [1 .. gen -> LoopType]
        /\ loop'[gen].at = s /\ loop'[gen].stop = loop[gen].stop
        /\ \A h \in 1 .. gen : h # gen => loop'[h] = loop[h]
    BY <1>0, <1>1, LoopMove
  <1>3. TypeOK'
    BY <1>0, <1>1, <1>2 DEF TypeOK, LoopType
  <1>4. LoopInv'
    BY <1>0, <1>1, <1>2 DEF LoopInv, LoopStep, InPass
  <1>5. Gone(gen) => FALSE
    BY <1>2 DEF Gone
  <1>6. DisableInv'
    BY <1>0, <1>1, <1>5 DEF DisableInv, Gone
  <1>7. SaveInv' /\ FreshInterval'
    BY <1>0, <1>1 DEF SaveInv, FreshInterval
  <1>8. QED
    BY <1>3, <1>4, <1>6, <1>7 DEF Inv

LEMMA LoopPreserves == ASSUME Inv, NEW g \in 1 .. gen, Loop(g) PROVE Inv'
  <1>0. TypeOK /\ LoopInv
    BY DEF Inv
  <1>1. /\ loop[g].at # "gone" => g = gen
        /\ activeLoops = IF loop[gen].at \in Counted THEN 1 ELSE 0
    BY <1>0 DEF LoopInv, TypeOK
  <1>2. /\ kind \in Kind /\ failCount \in 0 .. Latch /\ recent \in BOOLEAN
        /\ clearing \in BOOLEAN /\ activeLoops \in Nat
    BY <1>0 DEF TypeOK
  <1>3. CASE LoopStops(g)
    <2>1. Move(g, "leave") /\ loop[g].at = "select" /\ activeLoops' = activeLoops
          /\ loop[g].stop
      BY <1>3 DEF LoopStops, At
    <2>2. ~running
      BY <1>0, <1>1, <2>1 DEF LoopInv
    <2>3. QED
      BY <1>1, <1>2, <1>3, <2>1, <2>2, LoopStepInv
         DEF LoopStops, LoopStep, Counted, key, InPass
  <1>4. CASE LoopLeaves(g)
    <2>1. Move(g, "closing") /\ loop[g].at = "leave" /\ activeLoops' = activeLoops - 1
      BY <1>4 DEF LoopLeaves, At
    <2>2. ~running
      BY <1>0, <1>1, <2>1 DEF LoopInv, InPass
    <2>3. activeLoops = 1
      BY <1>1, <2>1 DEF Counted, LoopStep
    <2>4. QED
      BY <1>1, <1>2, <1>4, <2>1, <2>2, <2>3, LoopStepInv
         DEF LoopLeaves, LoopStep, Counted, key
  <1>5. CASE LoopCloses(g)
    <2>1. Move(g, "gone") /\ loop[g].at = "closing" /\ activeLoops' = activeLoops
      BY <1>5 DEF LoopCloses, At
    <2>2. ~running
      BY <1>0, <1>1, <2>1 DEF LoopInv, InPass
    <2>3. QED
      BY <1>1, <1>2, <1>5, <2>1, <2>2, LoopStepInv
         DEF LoopCloses, LoopStep, Counted, key
  <1>6. ASSUME NEW s \in InPass \cup {"select"}, Move(g, s),
               loop[g].at \in InPass \cup {"select"}, activeLoops' = activeLoops,
               kind' \in Kind, failCount' \in 0 .. Latch, recent' \in BOOLEAN,
               clearing' \in BOOLEAN
        PROVE  Inv'
    BY <1>1, <1>2, <1>6, LoopStepInv DEF LoopStep, Counted, InPass
  <1>7. CASE Pass(g)
    BY <1>2, <1>6, <1>7 DEF Pass, At, key, InPass
  <1>8. CASE Refreshed(g)
    BY <1>2, <1>6, <1>8 DEF Refreshed, At, key, InPass
  <1>9. CASE LatchCheck(g)
    <2>1. recent' \in BOOLEAN
      BY <1>2, <1>9 DEF LatchCheck
    <2>2. /\ \E s \in InPass \cup {"select"} : Move(g, s)
          /\ loop[g].at = "latch" /\ activeLoops' = activeLoops /\ kind' = kind
          /\ failCount' = failCount /\ clearing' = clearing
      BY <1>9 DEF LatchCheck, At, InPass
    <2>3. QED
      BY <1>2, <1>6, <2>1, <2>2 DEF InPass
  <1>10. CASE ProbeAnswers(g)
    <2>1. failCount' \in 0 .. Latch
      BY <1>2, <1>10, LatchAssumption DEF ProbeAnswers
    <2>2. /\ \E s \in InPass \cup {"select"} : Move(g, s)
          /\ loop[g].at = "probe" /\ activeLoops' = activeLoops /\ kind' = kind
          /\ recent' = recent /\ clearing' = clearing
      BY <1>10 DEF ProbeAnswers, At, InPass
    <2>3. QED
      BY <1>2, <1>6, <2>1, <2>2 DEF InPass
  <1>11. CASE Report(g)
    <2>1. kind' \in Kind
      BY <1>2, <1>11 DEF Report, AfterSuccess, AfterFailure, Kind
    <2>2. /\ Move(g, "select")
          /\ loop[g].at \in InPass /\ activeLoops' = activeLoops
          /\ recent' = recent /\ clearing' = clearing
      BY <1>11 DEF Report, At, InPass
    <2>3. failCount' \in 0 .. Latch
      BY <1>2, <1>11, LatchAssumption DEF Report, Forgiven
    <2>4. QED
      BY <1>2, <1>6, <2>1, <2>2, <2>3
  <1>12. QED
    BY <1>3, <1>4, <1>5, <1>7, <1>8, <1>9, <1>10, <1>11 DEF Loop

(* What a call must respect when it leaves the generations alone.          *)
LEMMA CallMove ==
  ASSUME Inv, NEW a \in Caller, NEW s \in CallStep \ {"stop"}, Goto(a, s), pc[a] # "stop",
         UNCHANGED <<lifecycle, setting, key>>, asked' = asked,
         written' \in [Caller -> Nat], \A b \in Caller : written'[b] <= written[b],
         awaited' \in [Caller -> 0 .. gen],
         \A b \in Caller \ {a} : awaited'[b] = awaited[b],
         disabled /\ a = Main => s = "idle" /\ Gone(gen)
  PROVE  Inv'
  <1>0. TypeOK /\ LoopInv /\ DisableInv /\ SaveInv /\ FreshInterval
    BY DEF Inv
  <1>1. /\ loop' = loop /\ running' = running /\ disabled' = disabled
        /\ gen' = gen /\ stoppingDone' = stoppingDone /\ activeLoops' = activeLoops
        /\ setting' = setting /\ interval' = interval /\ read' = read
    BY DEF lifecycle
  <1>2. TypeOK'
    BY <1>0, <1>1 DEF TypeOK, Goto, key
  <1>3. LoopInv'
    BY <1>0, <1>1 DEF LoopInv
  <1>4. pc'[Main] = "stop" <=> pc[Main] = "stop"
    BY <1>0 DEF Goto, TypeOK, Caller
  <1>5. DisableInv'
    <2> SUFFICES ASSUME disabled, pc'[Main] # "stop"
                 PROVE  /\ ~running' /\ pc'[Main] \in {"stopWait", "idle"}
                        /\ Gone(gen)' \/ (pc'[Main] = "stopWait" /\ awaited'[Main] = gen')
      BY <1>1 DEF DisableInv
    <2>1. /\ ~running /\ pc[Main] \in {"stopWait", "idle"}
          /\ Gone(gen) \/ (pc[Main] = "stopWait" /\ awaited[Main] = gen)
      BY <1>0, <1>4 DEF DisableInv
    <2>2. Gone(gen)' <=> Gone(gen)
      BY <1>1 DEF Gone
    <2>3. CASE a = Main
      BY <1>0, <1>1, <2>1, <2>2, <2>3 DEF Goto, TypeOK
    <2>4. CASE a # Main
      <3>1. pc'[Main] = pc[Main]
        BY <1>0, <2>4 DEF Goto, TypeOK, Caller
      <3>2. awaited'[Main] = awaited[Main]
        BY <2>4 DEF Caller
      <3>3. QED
        BY <1>1, <2>1, <2>2, <3>1, <3>2
    <2>5. QED
      BY <2>3, <2>4
  <1>6. FreshInterval'
    <2>1. \A b \in Caller : pc[b] = "stop" => pc'[b] = "stop"
      BY <1>0 DEF Goto, TypeOK
    <2>2. QED
      BY <1>0, <1>1, <2>1 DEF FreshInterval
  <1>7. SaveInv'
    BY <1>0, <1>1 DEF SaveInv, TypeOK
  <1>8. QED
    BY <1>2, <1>3, <1>5, <1>6, <1>7 DEF Inv

(* The launch of the next generation: the old one is gone.                 *)
LEMMA LaunchInv ==
  ASSUME Inv, NEW a \in Caller, pc[a] = "start", MayLaunch, stoppingDone = 0,
         activeLoops = 0, Launch, Goto(a, "idle"), awaited' = awaited,
         UNCHANGED <<request, key>>
  PROVE  Inv'
  <1>0. TypeOK /\ LoopInv /\ DisableInv /\ SaveInv /\ FreshInterval
    BY DEF Inv
  <1>1. /\ gen' = gen + 1 /\ running' /\ activeLoops' = 1 /\ disabled' = disabled
        /\ stoppingDone' = 0 /\ ~running /\ ~disabled /\ gen \in Nat
        /\ UNCHANGED <<setting, asked, written>>
    BY <1>0 DEF Launch, MayLaunch, TypeOK, request
  <1>2. loop' = [g \in 1 .. gen + 1 |-> IF g = gen + 1 THEN NewLoop ELSE loop[g]]
    BY DEF Launch
  <1>3. /\ NewLoop \in LoopType /\ NewLoop.at = "select" /\ ~NewLoop.stop
        /\ read' \in BOOLEAN /\ interval' \in Nat /\ (read' => interval' = setting)
    BY <1>0 DEF NewLoop, LoopType, LoopStep, TypeOK, Launch, Interval
  <1>4. loop \in [1 .. gen -> LoopType]
    BY <1>0 DEF TypeOK, LoopType
  <1>5. \A g \in 1 .. gen + 1 : g = gen + 1 \/ g \in 1 .. gen
    BY <1>1
  <1>6. loop' \in [1 .. gen + 1 -> LoopType]
    BY <1>2, <1>3, <1>4, <1>5
  <1>7. loop'[gen + 1] = NewLoop /\ \A g \in 1 .. gen : loop'[g] = loop[g]
    BY <1>1, <1>2
  <1>8. \A g \in 1 .. gen : loop[g].at = "gone"
    BY <1>0, <1>1 DEF LoopInv
  <1>9. TypeOK'
    <2>1. awaited' \in [Caller -> 0 .. gen']
      BY <1>0, <1>1 DEF TypeOK
    <2>2. pc' \in [Caller -> CallStep]
      BY <1>0 DEF TypeOK, Goto, CallStep
    <2>3. QED
      BY <1>0, <1>1, <1>3, <1>6, <2>1, <2>2 DEF TypeOK, LoopType, key
  <1>10. LoopInv'
    <2>1. \A g \in 1 .. gen' : g # gen' => loop'[g].at = "gone"
      BY <1>1, <1>5, <1>7, <1>8
    <2>2. QED
      BY <1>1, <1>3, <1>7, <2>1 DEF LoopInv, Counted, LoopStep
  <1>11. DisableInv'
    BY <1>1 DEF DisableInv
  <1>12. SaveInv' /\ FreshInterval'
    BY <1>0, <1>1, <1>3 DEF SaveInv, FreshInterval, TypeOK
  <1>13. QED
    BY <1>9, <1>10, <1>11, <1>12 DEF Inv

LEMMA StartPreserves == ASSUME Inv, NEW a \in Caller, Start(a) PROVE Inv'
  <1>0. TypeOK /\ LoopInv /\ DisableInv
    BY DEF Inv
  <1>1. /\ pc[a] = "start" /\ UNCHANGED <<request, setting, key>> /\ (a = Main => ~disabled)
        /\ asked' = asked /\ written' \in [Caller -> Nat]
        /\ \A b \in Caller : written'[b] <= written[b]
    BY <1>0 DEF Start, DisableInv, request, TypeOK
  <1>2. CASE ~MayLaunch /\ Goto(a, "idle") /\ UNCHANGED <<lifecycle, awaited>>
    <2>1. awaited' \in [Caller -> 0 .. gen]
      BY <1>0, <1>2 DEF TypeOK
    <2>2. QED
      BY <1>1, <1>2, <2>1, CallMove DEF CallStep
  <1>3. CASE /\ awaited' = [awaited EXCEPT ![a] = IF stoppingDone # 0 THEN stoppingDone ELSE gen]
             /\ Goto(a, "startWait") /\ UNCHANGED lifecycle
    <2>1. (IF stoppingDone # 0 THEN stoppingDone ELSE gen) \in 0 .. gen
      BY <1>0 DEF TypeOK
    <2>2. awaited' \in [Caller -> 0 .. gen]
      BY <1>0, <1>3, <2>1 DEF TypeOK
    <2>3. \A b \in Caller \ {a} : awaited'[b] = awaited[b]
      BY <1>0, <1>3 DEF TypeOK
    <2>4. QED
      BY <1>1, <1>3, <2>2, <2>3, CallMove DEF CallStep
  <1>4. CASE /\ MayLaunch /\ stoppingDone = 0 /\ activeLoops = 0
             /\ Launch /\ Goto(a, "idle") /\ awaited' = awaited
    BY <1>1, <1>4, LaunchInv
  <1>5. QED
    BY <1>2, <1>3, <1>4 DEF Start

(* Resume forgets the drained generation only when it is gone.             *)
LEMMA ResumePreserves == ASSUME Inv, NEW a \in Caller, Resume(a) PROVE Inv'
  <1>0. TypeOK /\ LoopInv /\ DisableInv /\ SaveInv /\ FreshInterval
    BY DEF Inv
  <1>1. /\ loop' = loop /\ running' = running /\ disabled' = disabled
        /\ gen' = gen /\ activeLoops' = activeLoops /\ interval' = interval /\ read' = read
        /\ UNCHANGED <<setting, asked, written>>
        /\ awaited' = [awaited EXCEPT ![a] = 0] /\ pc' = [pc EXCEPT ![a] = "start"]
        /\ pc[a] = "startWait" /\ Gone(awaited[a]) /\ UNCHANGED key
        /\ stoppingDone' = IF stoppingDone = awaited[a] THEN 0 ELSE stoppingDone
    BY DEF Resume, Returned, Goto, request
  <1>2. TypeOK'
    <2>1. /\ stoppingDone' \in 0 .. gen' /\ pc' \in [Caller -> CallStep]
          /\ awaited' \in [Caller -> 0 .. gen']
      BY <1>0, <1>1 DEF TypeOK, CallStep
    <2>2. QED
      BY <1>0, <1>1, <2>1 DEF TypeOK, key
  <1>3. LoopInv'
    <2>1. gen # 0 /\ loop[gen].at # "gone" /\ stoppingDone = gen => stoppingDone' = gen
      BY <1>1 DEF Gone
    <2>2. QED
      BY <1>0, <1>1, <2>1 DEF LoopInv
  <1>4. DisableInv'
    <2>1. disabled => a # Main
      BY <1>0, <1>1 DEF DisableInv
    <2>2. a # Main => pc'[Main] = pc[Main] /\ awaited'[Main] = awaited[Main]
      BY <1>0, <1>1 DEF TypeOK, Caller
    <2>3. Gone(gen)' <=> Gone(gen)
      BY <1>1 DEF Gone
    <2>4. QED
      BY <1>0, <1>1, <2>1, <2>2, <2>3 DEF DisableInv
  <1>5. SaveInv' /\ FreshInterval'
    <2>1. \A b \in Caller : pc[b] = "stop" => pc'[b] = "stop"
      BY <1>0, <1>1 DEF TypeOK
    <2>2. QED
      BY <1>0, <1>1, <2>1 DEF SaveInv, FreshInterval
  <1>6. QED
    BY <1>2, <1>3, <1>4, <1>5 DEF Inv

(* Stop marks the last generation and names it in stoppingDone.            *)
LEMMA StopPreserves == ASSUME Inv, NEW a \in Caller, Stop(a) PROVE Inv'
  <1>0. TypeOK /\ LoopInv /\ DisableInv /\ SaveInv /\ FreshInterval
    BY DEF Inv
  <1> DEFINE drained == IF running THEN gen ELSE stoppingDone
             next == IF drained # 0 THEN "stopWait" ELSE AfterStop(a)
  <1>1. /\ loop' = IF running THEN [loop EXCEPT ![gen].stop = TRUE] ELSE loop
        /\ running' = FALSE /\ disabled' = disabled /\ stoppingDone' = drained
        /\ gen' = gen /\ activeLoops' = activeLoops /\ interval' = interval /\ read' = read
        /\ UNCHANGED <<setting, asked, written>>
        /\ awaited' = [awaited EXCEPT ![a] = drained]
        /\ pc' = [pc EXCEPT ![a] = next] /\ UNCHANGED key
    BY DEF Stop, Goto, request
  <1>2. drained \in 0 .. gen /\ gen \in Nat /\ (running => gen # 0)
    BY <1>0 DEF TypeOK, LoopInv
  <1>3. /\ loop' \in [1 .. gen -> LoopType]
        /\ \A g \in 1 .. gen : loop'[g].at = loop[g].at
        /\ running => loop'[gen].stop
        /\ ~running => loop' = loop
    <2>1. CASE running
      <3>1. gen \in 1 .. gen
        BY <1>2, <2>1
      <3>2. loop[gen] \in LoopType /\ loop \in [1 .. gen -> LoopType]
        BY <1>0, <3>1 DEF TypeOK, LoopType
      <3>3. loop'[gen] = [loop[gen] EXCEPT !.stop = TRUE]
        BY <1>1, <2>1, <3>1, <3>2
      <3>4. loop'[gen].at = loop[gen].at /\ loop'[gen].stop /\ loop'[gen] \in LoopType
        BY <3>2, <3>3 DEF LoopType
      <3>5. loop' \in [1 .. gen -> LoopType]
        BY <1>1, <2>1, <3>2, <3>3, <3>4
      <3>6. \A g \in 1 .. gen : g # gen => loop'[g] = loop[g]
        BY <1>1, <2>1, <3>2
      <3>7. QED
        BY <2>1, <3>4, <3>5, <3>6
    <2>2. CASE ~running
      BY <1>0, <1>1, <2>2 DEF TypeOK, LoopType
    <2>3. QED
      BY <2>1, <2>2
  <1>4. next \in CallStep
    BY DEF AfterStop, CallStep
  <1>5. TypeOK'
    <2>1. awaited' \in [Caller -> 0 .. gen'] /\ pc' \in [Caller -> CallStep]
      BY <1>0, <1>1, <1>2, <1>4 DEF TypeOK
    <2>2. running' \in BOOLEAN
      BY <1>1
    <2>3. QED
      BY <1>0, <1>1, <1>2, <1>3, <2>1, <2>2 DEF TypeOK, LoopType, key
  <1>6. LoopInv'
    <2>1. gen # 0 => gen \in 1 .. gen
      BY <1>2
    <2>2. gen # 0 /\ loop[gen].at # "gone" => drained = gen /\ loop'[gen].stop
      BY <1>0, <1>3 DEF LoopInv
    <2>3. QED
      BY <1>0, <1>1, <1>3, <2>1, <2>2 DEF LoopInv
  <1>7. DisableInv'
    <2> SUFFICES ASSUME disabled, pc'[Main] # "stop"
                 PROVE  /\ ~running' /\ pc'[Main] \in {"stopWait", "idle"}
                        /\ Gone(gen)' \/ (pc'[Main] = "stopWait" /\ awaited'[Main] = gen')
      BY <1>1 DEF DisableInv
    <2>1. Gone(gen)' <=> Gone(gen)
      BY <1>1, <1>2, <1>3 DEF Gone
    <2>2. CASE a = Main
      <3>1. pc'[Main] = next /\ awaited'[Main] = drained
        BY <1>0, <1>1, <2>2 DEF TypeOK, Caller
      <3>2. AfterStop(a) = "idle"
        BY <2>2 DEF AfterStop
      <3>3. Gone(gen) \/ (drained = gen /\ drained # 0)
        BY <1>0, <1>2 DEF LoopInv, Gone
      <3>4. QED
        BY <1>1, <2>1, <3>1, <3>2, <3>3
    <2>3. CASE a # Main
      <3>1. pc'[Main] = pc[Main] /\ awaited'[Main] = awaited[Main]
        BY <1>0, <1>1, <2>3 DEF TypeOK, Caller
      <3>2. QED
        BY <1>0, <1>1, <2>1, <3>1 DEF DisableInv
    <2>4. QED
      BY <2>2, <2>3
  <1>8. SaveInv' /\ FreshInterval'
    BY <1>0, <1>1 DEF SaveInv, FreshInterval
  <1>9. QED
    BY <1>5, <1>6, <1>7, <1>8 DEF Inv

LEMMA StopReturnsPreserves == ASSUME Inv, NEW a \in Caller, StopReturns(a) PROVE Inv'
  <1>0. TypeOK /\ LoopInv /\ DisableInv
    BY DEF Inv
  <1>1. /\ pc[a] = "stopWait" /\ Gone(awaited[a]) /\ Goto(a, AfterStop(a))
        /\ UNCHANGED <<lifecycle, setting, asked, written, key>>
        /\ awaited' = [awaited EXCEPT ![a] = 0]
    BY DEF StopReturns, Returned, request
  <1>2. AfterStop(a) \in CallStep \ {"stop"}
    BY DEF AfterStop, CallStep
  <1>3. /\ awaited' \in [Caller -> 0 .. gen] /\ written' \in [Caller -> Nat]
        /\ \A b \in Caller \ {a} : awaited'[b] = awaited[b]
        /\ \A b \in Caller : written'[b] <= written[b]
    BY <1>0, <1>1 DEF TypeOK
  <1>4. disabled /\ a = Main => AfterStop(a) = "idle" /\ Gone(gen)
    BY <1>0, <1>1 DEF DisableInv, AfterStop
  <1>5. QED
    BY <1>1, <1>2, <1>3, <1>4, CallMove

(* A request answered "ok" is about to restart the checker.                *)
LEMMA AnswerPreserves == ASSUME Inv, NEW a \in Caller, Answer(a) PROVE Inv'
  <1>0. TypeOK /\ LoopInv /\ DisableInv /\ SaveInv
    BY DEF Inv
  <1>1. /\ pc[a] = "saved" /\ written' = [written EXCEPT ![a] = 0]
        /\ UNCHANGED <<lifecycle, setting, awaited, key>>
    BY DEF Answer
  <1>2. /\ written' \in [Caller -> Nat] /\ \A b \in Caller : written'[b] <= written[b]
        /\ awaited' \in [Caller -> 0 .. gen] /\ awaited' = awaited
        /\ a = Main => ~disabled
    BY <1>0, <1>1 DEF TypeOK, DisableInv
  <1>3. CASE Goto(a, "idle") /\ UNCHANGED asked
    BY <1>1, <1>2, <1>3, CallMove DEF CallStep
  <1>4. CASE asked' = (IF written[a] > asked THEN written[a] ELSE asked) /\ Goto(a, "stop")
    <2>1. /\ pc' = [pc EXCEPT ![a] = "stop"] /\ pc'[a] = "stop"
          /\ UNCHANGED <<running, disabled, gen, loop, interval, read, stoppingDone, activeLoops>>
      BY <1>0, <1>1, <1>4 DEF Goto, lifecycle, TypeOK
    <2>2. asked' \in Nat /\ asked' <= setting
      BY <1>0, <1>4 DEF TypeOK, SaveInv
    <2>3. TypeOK'
      BY <1>0, <1>1, <1>2, <2>1, <2>2 DEF TypeOK, CallStep, key
    <2>4. LoopInv'
      BY <1>0, <2>1 DEF LoopInv
    <2>5. DisableInv'
      BY <1>0, <1>1, <1>2, <2>1 DEF DisableInv, Gone, TypeOK, Caller
    <2>6. SaveInv' /\ FreshInterval'
      BY <1>0, <1>1, <1>2, <2>1, <2>2 DEF SaveInv, FreshInterval, TypeOK
    <2>7. QED
      BY <2>3, <2>4, <2>5, <2>6 DEF Inv
  <1>5. QED
    BY <1>3, <1>4 DEF Answer

LEMMA InvNext == ASSUME Inv, [Next]_vars PROVE Inv'
  <1>0. TypeOK /\ LoopInv /\ DisableInv /\ SaveInv /\ FreshInterval
    BY DEF Inv
  <1>1. ASSUME NEW a \in Caller, Call(a) PROVE Inv'
    BY <1>1, StartPreserves, ResumePreserves, StopPreserves, StopReturnsPreserves,
       AnswerPreserves DEF Call
  <1>2. ASSUME NEW h \in Handler, UpdateSettings(h) PROVE Inv'
    <2>1. /\ setting' = setting + 1 /\ pc' = [pc EXCEPT ![h] = "saved"]
          /\ written' = [written EXCEPT ![h] = setting'] /\ asked' = asked
          /\ pc[h] = "idle" /\ h \in Caller /\ h # Main
          /\ UNCHANGED <<running, disabled, gen, loop, interval, read, stoppingDone,
                         activeLoops, awaited, kind, failCount, recent, clearing>>
      BY <1>2, HandlerAssumption DEF UpdateSettings, Goto, lifecycle, key, Caller
    <2>2. TypeOK'
      <3>1. /\ pc' \in [Caller -> CallStep] /\ setting' \in Nat
            /\ written' \in [Caller -> Nat]
        BY <1>0, <2>1 DEF TypeOK, CallStep
      <3>2. QED
        BY <1>0, <2>1, <3>1 DEF TypeOK
    <2>3. LoopInv'
      BY <1>0, <2>1 DEF LoopInv
    <2>4. pc'[Main] = pc[Main]
      BY <1>0, <2>1 DEF Caller, TypeOK
    <2>5. DisableInv'
      BY <1>0, <2>1, <2>4 DEF DisableInv, Gone
    <2>6. SaveInv'
      BY <1>0, <2>1 DEF SaveInv, TypeOK
    <2>7. FreshInterval'
      <3>1. \A b \in Caller : pc[b] = "stop" => pc'[b] = "stop"
        BY <1>0, <2>1 DEF TypeOK
      <3>2. QED
        BY <1>0, <2>1, <3>1 DEF FreshInterval
    <2>8. QED
      BY <2>2, <2>3, <2>5, <2>6, <2>7 DEF Inv
  <1>3. CASE Disable
    <2>1. /\ disabled' = TRUE /\ pc' = [pc EXCEPT ![Main] = "stop"]
          /\ UNCHANGED <<running, gen, loop, interval, read, stoppingDone, activeLoops,
                         setting, asked, written, awaited, kind, failCount, recent, clearing>>
      BY <1>3 DEF Disable, Goto, request, key
    <2>2. Main \in Caller /\ pc'[Main] = "stop"
      BY <1>0, <2>1 DEF Caller, TypeOK
    <2>3. TypeOK'
      BY <1>0, <2>1 DEF TypeOK, CallStep
    <2>4. LoopInv'
      BY <1>0, <2>1 DEF LoopInv
    <2>5. DisableInv' /\ SaveInv' /\ FreshInterval'
      BY <1>0, <2>1, <2>2 DEF DisableInv, SaveInv, FreshInterval
    <2>6. QED
      BY <2>3, <2>4, <2>5 DEF Inv
  <1>4. ASSUME NEW g \in 1 .. gen, Loop(g) PROVE Inv'
    BY <1>4, LoopPreserves
  <1>5. ASSUME UNCHANGED <<lifecycle, calls>>, kind' \in Kind, failCount' \in 0 .. Latch,
               recent' \in BOOLEAN, clearing' \in BOOLEAN
        PROVE  Inv'
    <2>1. TypeOK'
      BY <1>0, <1>5 DEF TypeOK, lifecycle, calls, request
    <2>2. LoopInv' /\ DisableInv' /\ SaveInv' /\ FreshInterval'
      BY <1>0, <1>5 DEF LoopInv, DisableInv, SaveInv, FreshInterval, Gone, lifecycle, calls, request
    <2>3. QED
      BY <2>1, <2>2 DEF Inv
  <1>6. CASE Outside
    <2>1. UNCHANGED <<lifecycle, calls>>
      BY <1>6 DEF Outside, Traffic, CooldownEnds, HourPasses, AdminWrites,
                  ResetFailCount, ResetKeySpend, Keep
    <2>2. kind' \in Kind
      BY <1>0, <1>6 DEF Outside, Traffic, CooldownEnds, HourPasses, AdminWrites,
                        ResetFailCount, ResetKeySpend, AfterSuccess, AfterFailure, Kind, TypeOK
    <2>3. failCount' \in 0 .. Latch
      BY <1>0, <1>6, LatchAssumption
         DEF Outside, Traffic, CooldownEnds, HourPasses, AdminWrites,
             ResetFailCount, ResetKeySpend, Forgiven, TypeOK
    <2>4. recent' \in BOOLEAN /\ clearing' \in BOOLEAN
      <3>1. recent \in BOOLEAN /\ clearing \in BOOLEAN
        BY <1>0 DEF TypeOK
      <3>2. QED
        BY <1>6, <3>1, Zenon
           DEF Outside, Traffic, CooldownEnds, HourPasses, AdminWrites,
               ResetFailCount, ResetKeySpend
    <2>5. QED
      BY <1>5, <2>1, <2>2, <2>3, <2>4
  <1>7. CASE UNCHANGED vars
    BY <1>0, <1>5, <1>7 DEF vars, key, TypeOK
  <1>8. QED
    BY <1>1, <1>2, <1>3, <1>4, <1>6, <1>7 DEF Next

THEOREM InvAlways == Spec => []Inv
  BY InvInit, InvNext, PTL DEF Spec

(* The checker's variables keep their types.                               *)
THEOREM CheckerTypeCorrect == Spec => []TypeOK
  <1>1. Inv => TypeOK
    BY DEF Inv
  <1>2. QED
    BY <1>1, InvAlways, PTL

(* However Start, Stop, Disable and Restart interleave, at most one loop   *)
(* generation is alive.                                                    *)
THEOREM OneLoopAlways == Spec => []OneLoop
  <1>1. Inv => OneLoop
    BY DEF Inv, LoopInv, OneLoop
  <1>2. QED
    BY <1>1, InvAlways, PTL

(* Once Disable has returned no loop is alive.                             *)
THEOREM QuietAlways == Spec => []QuietOnceDisabled
  <1>1. Inv => QuietOnceDisabled
    <2> SUFFICES ASSUME Inv, disabled, pc[Main] = "idle", NEW g \in 1 .. gen
                 PROVE  Gone(g)
      BY DEF QuietOnceDisabled
    <2>1. Gone(gen)
      BY DEF Inv, DisableInv
    <2>2. g # gen => loop[g].at = "gone"
      BY DEF Inv, LoopInv
    <2>3. QED
      BY <2>1, <2>2 DEF Gone
  <1>2. QED
    BY <1>1, InvAlways, PTL

(* A running loop that has read the setting has the interval of every      *)
(* request that was told it is saved, or a Restart is about to stop it.    *)
THEOREM FreshAlways == Spec => []FreshInterval
  <1>1. Inv => FreshInterval
    BY DEF Inv
  <1>2. QED
    BY <1>1, InvAlways, PTL

=============================================================================
