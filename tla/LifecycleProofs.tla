---------------------------- MODULE LifecycleProofs ----------------------------
(***************************************************************************)
(* windows.json survives, for any number of processes, requests and keys, as *)
(* long as no process is started while another one runs.                     *)
(***************************************************************************)
EXTENDS Lifecycle, TLAPS

Pending(p) == Running(p) \/ helper[p] = "waiting"

\* One process runs or is to be replaced at a time.
OneProcess == \A p, q \in Proc : Pending(p) /\ Pending(q) => p = q

Loaded(p) == at[Main(p)] \notin {"absent", "gone", "load"}

\* Where main is says where the saver may be: it lives between main's two savings.
Places ==
  \A p \in Proc :
    LET m == at[Main(p)]  s == at[Saver(p)] IN
    /\ m \in {"absent", "load", "bind", "serve", "fatal"} => p \notin stopping
    /\ m \in {"join", "drain", "export", "fill", "rename"} => p \in stopping
    /\ m \in {"absent", "load"} \/ (m \in {"list", "drop"} /\ p \notin stopping) => s = "absent"
    /\ m \in {"bind", "serve", "fatal"} => s \in SaveStep \cup {"idle"}
    /\ m = "join" => s # "absent"
    /\ m \in {"drain", "export", "fill", "rename", "gone"} \/ (m \in {"list", "drop"} /\ p \in stopping)
         => s = "done"

\* Requests are with a process that serves, and use keys that have been created.
Held ==
  \A r \in Request :
    /\ flight[r] # Nobody => Serving(flight[r])
    /\ r \in Relay /\ (flight[r] # Nobody \/ r \in answered) => row[KeyOf[r]] # "never"
Listening == port # Nobody => at[Main(port)] \in {"serve", "join"}

\* Nothing but counted hits is ever stored.
Counted ==
  /\ \A p \in Proc : mem[p] \subseteq answered
  /\ \A g \in Goroutine : job[g].hits \subseteq answered
  /\ file.hits \subseteq answered /\ saved \subseteq answered

\* A save in progress.
Saving ==
  \A g \in Goroutine :
    /\ at[g] = "rename" => tmp = Whole(job[g].hits)
    /\ at[g] \in {"fill", "rename"} =>
         \A h \in job[g].hits : KeyOf[h] \in keys => h \in mem[g[1]]

\* A saved hit is wherever the next save may take it from, unless the file could not
\* be read.
KeptSaved ==
  \A h \in saved \ unread : KeyOf[h] \in keys =>
    /\ h \in file.hits
    /\ \A p \in Proc : Loaded(p) => h \in mem[p]
    /\ \A g \in Goroutine : /\ at[g] = "drop" => KeyOf[h] \in job[g].keys
                            /\ at[g] \in {"fill", "rename"} => h \in job[g].hits

\* A counted hit is in the memory of the process that runs, else in the file.
KeptAll ==
  \A h \in answered \ (lost \cup unread) : KeyOf[h] \in keys =>
    /\ \A p \in Proc : Loaded(p) => h \in mem[p]
    /\ (\A p \in Proc : ~Loaded(p)) => h \in file.hits
    /\ \A p \in Proc : at[Main(p)] \in {"fill", "rename"} => h \in job[Main(p)].hits

Inv ==
  /\ TypeOK /\ OneProcess /\ Places /\ Held /\ Listening /\ Counted
  /\ FileWhole /\ Saving /\ KeptSaved /\ KeptAll
------------------------------------------------------------------------------
(* Goroutines, and what a step changes. *)

\* A goroutine is one of its process's two.
LEMMA Names ==
  /\ \A p \in Proc : /\ Main(p) \in Goroutine /\ Main(p)[1] = p /\ Main(p)[2] = "main"
                     /\ Saver(p) \in Goroutine /\ Saver(p)[1] = p /\ Saver(p)[2] = "saver"
  /\ \A p, q \in Proc : Main(p) # Saver(q) /\ (p # q => Main(p) # Main(q) /\ Saver(p) # Saver(q))
  /\ \A g \in Goroutine : /\ g[1] \in Proc
                           /\ \/ g = Main(g[1]) /\ g[2] = "main"
                              \/ g = Saver(g[1]) /\ g[2] = "saver"
  BY DEF Goroutine, Main, Saver

\* Goto moves one goroutine.
LEMMA Moved ==
  ASSUME TypeOK, NEW g \in Goroutine, NEW step, Goto(g, step)
  PROVE  at'[g] = step /\ \A h \in Goroutine : h # g => at'[h] = at[h]
  BY DEF TypeOK, Goto

\* The strengthened invariant holds at the start.
THEOREM InvInit == Init => Inv
  <1>0. SUFFICES ASSUME Init PROVE Inv
    OBVIOUS
  <1>1. \A g \in Goroutine : at[g] = "absent" /\ job[g] = NoJob
    BY <1>0 DEF Init
  <1>2. \A p \in Proc : at[Main(p)] = "absent" /\ at[Saver(p)] = "absent"
    BY <1>1, Names
  <1>3. TypeOK
    BY <1>0, <1>2, LifecycleAssumption
       DEF Init, TypeOK, MainStep, SaverStep, SaveStep, Ended, NoJob, File, Missing
  <1>4. OneProcess
    BY <1>0, <1>2 DEF Init, OneProcess, Pending, Running, Ended
  <1>5. Places
    BY <1>0, <1>2 DEF Init, Places
  <1>6. Held /\ Listening
    BY <1>0 DEF Init, Held, Listening
  <1>7. Counted
    BY <1>0, <1>1 DEF Init, Counted, NoJob, Missing
  <1>8. FileWhole /\ KeptSaved /\ KeptAll
    BY <1>0 DEF Init, FileWhole, KeptSaved, KeptAll, Missing
  <1>9. Saving
    BY <1>0, <1>1 DEF Init, Saving
  <1>10. QED
    BY <1>3, <1>4, <1>5, <1>6, <1>7, <1>8, <1>9 DEF Inv

\* One goroutine at a time prunes and saves, and its process is the loaded one.
LEMMA Exclusive ==
  ASSUME Inv
  PROVE  /\ \A p, q \in Proc : Loaded(p) /\ Loaded(q) => p = q
         /\ \A g \in Goroutine : at[g] \in SaveStep => Loaded(g[1])
         /\ \A g, h \in Goroutine : at[g] \in SaveStep /\ at[h] \in SaveStep => g = h
  <1>1. \A p, q \in Proc : Loaded(p) /\ Loaded(q) => p = q
    BY DEF Inv, OneProcess, Pending, Running, Ended, Loaded
  <1>2. \A p \in Proc : at[Main(p)] \in SaveStep \/ at[Saver(p)] \in SaveStep => Loaded(p)
    BY DEF Inv, Places, TypeOK, SaveStep, Loaded
  <1>3. \A p \in Proc : ~(at[Main(p)] \in SaveStep /\ at[Saver(p)] \in SaveStep)
    BY DEF Inv, Places, SaveStep
  <1>4. \A g \in Goroutine : at[g] \in SaveStep => Loaded(g[1])
    BY <1>2, Names
  <1>5. ASSUME NEW g \in Goroutine, NEW h \in Goroutine, at[g] \in SaveStep, at[h] \in SaveStep
        PROVE  g = h
    <2>1. g[1] \in Proc /\ h[1] \in Proc /\ g[1] = h[1]
      BY <1>1, <1>4, <1>5, Names
    <2>2. QED
      BY <1>3, <1>5, <2>1, Names
  <1>6. QED
    BY <1>1, <1>4, <1>5

\* What a step that leaves the hits alone does not change.
Stored == <<job, mem, disk, row, hist>>
StoredInv == Counted /\ FileWhole /\ Saving /\ KeptSaved /\ KeptAll

\* Such a step that starts no save keeps every promise about hits.
LEMMA StoredKept ==
  ASSUME Inv, UNCHANGED Stored,
         \A p \in Proc : Loaded(p)' = Loaded(p),
         \A g \in Goroutine : at'[g] \in {"drop", "fill", "rename"} => at'[g] = at[g]
  PROVE  StoredInv'
  <1>1. keys' = keys
    BY DEF Stored, keys
  <1>2. Counted' /\ FileWhole'
    BY DEF Inv, Stored, Counted, FileWhole, disk, hist
  <1>3. Saving'
    BY <1>1 DEF Inv, Stored, Saving, disk, hist
  <1>4. KeptSaved'
    BY <1>1 DEF Inv, Stored, KeptSaved, disk, hist
  <1>5. KeptAll'
    <2>1. \A p \in Proc : at'[Main(p)] \in {"fill", "rename"} => at'[Main(p)] = at[Main(p)]
      BY Names
    <2>2. QED
      BY <1>1, <2>1 DEF Inv, Stored, KeptAll, disk, hist
  <1>6. QED
    BY <1>2, <1>3, <1>4, <1>5 DEF StoredInv
------------------------------------------------------------------------------
(* Steps that leave the hits alone. *)

\* Requests stay with processes that go on serving.
LEMMA HeldKept ==
  ASSUME Inv, UNCHANGED <<flight, row, answered>>,
         \A p \in Proc : Serving(p) /\ (\E r \in Request : flight[r] = p) => Serving(p)'
  PROVE  Held'
  BY DEF Inv, TypeOK, Held

\* A start needs that no other process runs or is awaited.
LEMMA LaunchKeeps ==
  ASSUME Inv, ~Together, NEW p \in Proc, Launch(p)
  PROVE  Inv'
  <1>1. /\ at[Main(p)] = "absent" /\ at'[Main(p)] = "load"
        /\ \A h \in Goroutine : h # Main(p) => at'[h] = at[h]
    BY Moved, Names DEF Inv, Launch, Fresh
  <1>2. TypeOK'
    BY <1>1, Names DEF Inv, TypeOK, Launch, Fresh, Goto, MainStep, SaverStep, SaveStep, Ended, disk, hist
  <1>3. OneProcess'
    BY <1>1, Names DEF Inv, TypeOK, OneProcess, Pending, Running, Ended, Launch, Fresh
  <1>4. Places'
    BY <1>1, Names DEF Inv, Places, SaveStep, Launch, Fresh
  <1>5. Held' /\ Listening'
    <2>1. Held'
      BY <1>1, HeldKept, Names DEF Serving, Launch, Fresh, hist
    <2>2. Listening'
      BY <1>1, Names DEF Inv, TypeOK, Listening, Launch, Fresh
    <2>3. QED
      BY <2>1, <2>2
  <1>6. StoredInv'
    BY <1>1, StoredKept, Names DEF Loaded, Stored, Launch, Fresh
  <1>7. QED
    BY <1>2, <1>3, <1>4, <1>5, <1>6 DEF Inv, StoredInv

\* Only a bound port lets requests in.
LEMMA BindKeeps ==
  ASSUME Inv, NEW p \in Proc, Bind(p)
  PROVE  Inv'
  <1>1. /\ at[Main(p)] = "bind"
        /\ \/ port' = p /\ at'[Main(p)] = "serve"
           \/ port' = port /\ at'[Main(p)] = "fatal"
        /\ \A h \in Goroutine : h # Main(p) => at'[h] = at[h]
    BY Moved, Names DEF Inv, Bind
  <1>2. TypeOK'
    <2>1. at' \in [Goroutine -> MainStep \cup SaverStep]
      <3>1. PICK step \in {"serve", "fatal"} : at' = [at EXCEPT ![Main(p)] = step]
        BY DEF Bind, Goto
      <3>2. QED
        BY <3>1 DEF Inv, TypeOK, MainStep
    <2>2. \A q \in Proc : at'[Main(q)] \in MainStep /\ at'[Saver(q)] \in SaverStep
      BY <1>1, Names DEF Inv, TypeOK, MainStep
    <2>3. port' \in Proc \cup {Nobody}
      BY <1>1 DEF Inv, TypeOK
    <2>4. QED
      BY <2>1, <2>2, <2>3 DEF Inv, TypeOK, Bind, disk, hist
  <1>3. OneProcess'
    BY <1>1, Names DEF Inv, TypeOK, OneProcess, Pending, Running, Ended, Bind
  <1>4. Places'
    BY <1>1, Names DEF Inv, Places, SaveStep, Bind
  <1>5. Held' /\ Listening'
    <2>1. Held'
      BY <1>1, HeldKept, Names DEF Serving, Bind, hist
    <2>2. Listening'
      BY <1>1, Names DEF Inv, TypeOK, Listening, Bind
    <2>3. QED
      BY <2>1, <2>2
  <1>6. StoredInv'
    BY <1>1, StoredKept, Names DEF Loaded, Stored, Bind
  <1>7. QED
    BY <1>2, <1>3, <1>4, <1>5, <1>6 DEF Inv, StoredInv

\* The persister begins a save.
LEMMA TickKeeps ==
  ASSUME Inv, NEW p \in Proc, Tick(p)
  PROVE  Inv'
  <1>1. /\ at[Saver(p)] = "idle" /\ at'[Saver(p)] = "list"
        /\ \A h \in Goroutine : h # Saver(p) => at'[h] = at[h]
    BY Moved, Names DEF Inv, Tick
  <1>2. TypeOK'
    BY <1>1, Names DEF Inv, TypeOK, Tick, Goto, MainStep, SaverStep, SaveStep, Ended, disk, hist
  <1>3. OneProcess'
    BY <1>1, Names DEF Inv, TypeOK, OneProcess, Pending, Running, Ended, Tick
  <1>4. Places'
    BY <1>1, Names DEF Inv, Places, SaveStep, Tick
  <1>5. Held' /\ Listening'
    <2>1. Held'
      BY <1>1, HeldKept, Names DEF Serving, Tick, hist
    <2>2. Listening'
      BY <1>1, Names DEF Inv, TypeOK, Listening, Tick
    <2>3. QED
      BY <2>1, <2>2
  <1>6. StoredInv'
    BY <1>1, StoredKept, Names DEF Loaded, Stored, Tick
  <1>7. QED
    BY <1>2, <1>3, <1>4, <1>5, <1>6 DEF Inv, StoredInv

\* From here on no request is accepted.
LEMMA QuitKeeps ==
  ASSUME Inv, NEW p \in Proc, Quit(p)
  PROVE  Inv'
  <1>1. /\ at[Main(p)] = "serve" /\ at'[Main(p)] = "join"
        /\ \A h \in Goroutine : h # Main(p) => at'[h] = at[h]
    BY Moved, Names DEF Inv, Quit
  <1>2. TypeOK'
    BY <1>1, Names DEF Inv, TypeOK, Quit, Goto, MainStep, SaverStep, SaveStep, Ended, disk, hist
  <1>3. OneProcess'
    BY <1>1, Names DEF Inv, TypeOK, OneProcess, Pending, Running, Ended, Quit
  <1>4. Places'
    BY <1>1, Names DEF Inv, Places, SaveStep, Quit
  <1>5. Held' /\ Listening'
    <2>1. Held'
      BY <1>1, HeldKept, Names DEF Serving, Quit, hist
    <2>2. Listening'
      BY <1>1, Names DEF Inv, TypeOK, Listening, Quit
    <2>3. QED
      BY <2>1, <2>2
  <1>6. StoredInv'
    BY <1>1, StoredKept, Names DEF Loaded, Stored, Quit
  <1>7. QED
    BY <1>2, <1>3, <1>4, <1>5, <1>6 DEF Inv, StoredInv

\* The persister ends between two saves.
LEMMA StopSaverKeeps ==
  ASSUME Inv, NEW p \in Proc, StopSaver(p)
  PROVE  Inv'
  <1>1. /\ at[Saver(p)] = "idle" /\ at[Main(p)] = "join" /\ at'[Saver(p)] = "done"
        /\ \A h \in Goroutine : h # Saver(p) => at'[h] = at[h]
    BY Moved, Names DEF Inv, StopSaver
  <1>2. TypeOK'
    BY <1>1, Names DEF Inv, TypeOK, StopSaver, Goto, MainStep, SaverStep, SaveStep, Ended, disk, hist
  <1>3. OneProcess'
    BY <1>1, Names DEF Inv, TypeOK, OneProcess, Pending, Running, Ended, StopSaver
  <1>4. Places'
    BY <1>1, Names DEF Inv, Places, SaveStep, StopSaver
  <1>5. Held' /\ Listening'
    <2>1. Held'
      BY <1>1, HeldKept, Names DEF Serving, StopSaver, hist
    <2>2. Listening'
      BY <1>1, Names DEF Inv, TypeOK, Listening, StopSaver
    <2>3. QED
      BY <2>1, <2>2
  <1>6. StoredInv'
    BY <1>1, StoredKept, Names DEF Loaded, Stored, StopSaver
  <1>7. QED
    BY <1>2, <1>3, <1>4, <1>5, <1>6 DEF Inv, StoredInv

\* main goes on when the persister is gone.
LEMMA JoinKeeps ==
  ASSUME Inv, NEW p \in Proc, Join(p)
  PROVE  Inv'
  <1>1. /\ at[Main(p)] = "join" /\ at[Saver(p)] = "done" /\ at'[Main(p)] = "drain"
        /\ \A h \in Goroutine : h # Main(p) => at'[h] = at[h]
    BY Moved, Names DEF Inv, Join
  <1>2. TypeOK'
    BY <1>1, Names DEF Inv, TypeOK, Join, Goto, MainStep, SaverStep, SaveStep, Ended, disk, hist
  <1>3. OneProcess'
    BY <1>1, Names DEF Inv, TypeOK, OneProcess, Pending, Running, Ended, Join
  <1>4. Places'
    BY <1>1, Names DEF Inv, Places, SaveStep, Join
  <1>5. Held' /\ Listening'
    <2>1. Held'
      BY <1>1, HeldKept, Names DEF Serving, Join, hist
    <2>2. Listening'
      BY <1>1, Names DEF Inv, TypeOK, Listening, Join
    <2>3. QED
      BY <2>1, <2>2
  <1>6. StoredInv'
    BY <1>1, StoredKept, Names DEF Loaded, Stored, Join
  <1>7. QED
    BY <1>2, <1>3, <1>4, <1>5, <1>6 DEF Inv, StoredInv

\* main saves when nothing is in flight.
LEMMA DrainKeeps ==
  ASSUME Inv, NEW p \in Proc, Drain(p)
  PROVE  Inv'
  <1>1. /\ at[Main(p)] = "drain" /\ at'[Main(p)] = "list"
        /\ \A h \in Goroutine : h # Main(p) => at'[h] = at[h]
    BY Moved, Names DEF Inv, Drain
  <1>2. TypeOK'
    BY <1>1, Names DEF Inv, TypeOK, Drain, Goto, MainStep, SaverStep, SaveStep, Ended, disk, hist
  <1>3. OneProcess'
    BY <1>1, Names DEF Inv, TypeOK, OneProcess, Pending, Running, Ended, Drain
  <1>4. Places'
    BY <1>1, Names DEF Inv, Places, SaveStep, Drain
  <1>5. Held' /\ Listening'
    <2>1. Held'
      BY <1>1, HeldKept, Names DEF Serving, Drain, hist
    <2>2. Listening'
      BY <1>1, Names DEF Inv, TypeOK, Listening, Drain
    <2>3. QED
      BY <2>1, <2>2
  <1>6. StoredInv'
    BY <1>1, StoredKept, Names DEF Loaded, Stored, Drain
  <1>7. QED
    BY <1>2, <1>3, <1>4, <1>5, <1>6 DEF Inv, StoredInv

\* The new process takes the place of the one that is gone.
LEMMA RelaunchKeeps ==
  ASSUME Inv, NEW p \in Proc, NEW q \in Proc, Relaunch(p, q)
  PROVE  Inv'
  <1>1. /\ at[Main(q)] = "absent" /\ at'[Main(q)] = "load"
        /\ \A h \in Goroutine : h # Main(q) => at'[h] = at[h]
    BY Moved, Names DEF Inv, Relaunch, Fresh
  <1>2. TypeOK'
    BY <1>1, Names DEF Inv, TypeOK, Relaunch, Fresh, Goto, MainStep, SaverStep, SaveStep, Ended, disk, hist
  <1>3. OneProcess'
    BY <1>1, Names DEF Inv, TypeOK, OneProcess, Pending, Running, Ended, Relaunch, Fresh
  <1>4. Places'
    BY <1>1, Names DEF Inv, Places, SaveStep, Relaunch, Fresh
  <1>5. Held' /\ Listening'
    <2>1. Held'
      BY <1>1, HeldKept, Names DEF Serving, Relaunch, Fresh, hist
    <2>2. Listening'
      BY <1>1, Names DEF Inv, TypeOK, Listening, Relaunch, Fresh
    <2>3. QED
      BY <2>1, <2>2
  <1>6. StoredInv'
    BY <1>1, StoredKept, Names DEF Loaded, Stored, Relaunch, Fresh
  <1>7. QED
    BY <1>2, <1>3, <1>4, <1>5, <1>6 DEF Inv, StoredInv


\* Steps that move no goroutine.
LEMMA AcceptKeeps ==
  ASSUME Inv, NEW r \in Request, Accept(r)
  PROVE  Inv'
  <1>1. port \in Proc /\ Serving(port) /\ flight' = [flight EXCEPT ![r] = port]
    BY DEF Inv, TypeOK, Listening, Serving, Accept
  <1>2. r \in Relay => row[KeyOf[r]] # "never"
    BY DEF Accept, keys
  <1>3. TypeOK'
    BY <1>1 DEF Inv, TypeOK, Accept, disk, hist
  <1>4. OneProcess' /\ Places' /\ Listening'
    BY DEF Inv, OneProcess, Pending, Running, Places, Listening, Accept
  <1>5. Held'
    BY <1>1, <1>2 DEF Inv, TypeOK, Held, Serving, Accept, hist
  <1>6. StoredInv'
    BY StoredKept DEF Loaded, Stored, Accept
  <1>7. QED
    BY <1>3, <1>4, <1>5, <1>6 DEF Inv, StoredInv

\* A request that ends without a hit.
LEMMA GiveUpKeeps ==
  ASSUME Inv, NEW r \in Request, GiveUp(r)
  PROVE  Inv'
  <1>1. TypeOK'
    BY DEF Inv, TypeOK, GiveUp, disk, hist
  <1>2. OneProcess' /\ Places' /\ Listening'
    BY DEF Inv, OneProcess, Pending, Running, Places, Listening, GiveUp
  <1>3. Held'
    BY DEF Inv, TypeOK, Held, Serving, GiveUp, hist
  <1>4. StoredInv'
    BY StoredKept DEF Loaded, Stored, GiveUp
  <1>5. QED
    BY <1>1, <1>2, <1>3, <1>4 DEF Inv, StoredInv

\* A helper is scheduled or gives up while its process runs.
LEMMA HelperKeeps ==
  ASSUME Inv, NEW p \in Proc, Restart(p) \/ Abandon(p)
  PROVE  Inv'
  <1>1. Running(p) /\ \A q \in Proc : q # p => helper'[q] = helper[q]
    BY DEF Inv, TypeOK, Running, Ended, Restart, Abandon
  <1>2. TypeOK'
    BY DEF Inv, TypeOK, Restart, Abandon, disk, hist
  <1>3. OneProcess'
    BY <1>1 DEF Inv, OneProcess, Pending, Running, Restart, Abandon
  <1>4. Places' /\ Listening'
    BY DEF Inv, Places, Listening, Restart, Abandon
  <1>5. Held'
    BY HeldKept DEF Serving, Restart, Abandon, hist
  <1>6. StoredInv'
    BY StoredKept DEF Loaded, Stored, Restart, Abandon
  <1>7. QED
    BY <1>2, <1>3, <1>4, <1>5, <1>6 DEF Inv, StoredInv

\* Nothing happens.
LEMMA StutterKeeps ==
  ASSUME Inv, UNCHANGED vars
  PROVE  Inv'
  <1>1. TypeOK' /\ OneProcess' /\ Places' /\ Listening'
    BY DEF Inv, TypeOK, OneProcess, Pending, Running, Places, Listening, vars, disk, hist
  <1>2. Held'
    BY HeldKept DEF Serving, vars, hist
  <1>3. StoredInv'
    BY StoredKept DEF Loaded, Stored, vars
  <1>4. QED
    BY <1>1, <1>2, <1>3 DEF Inv, StoredInv

------------------------------------------------------------------------------
(* Where the goroutines are after a step of a save. *)

Placed ==
  /\ at \in [Goroutine -> MainStep \cup SaverStep]
  /\ \A p \in Proc : at[Main(p)] \in MainStep /\ at[Saver(p)] \in SaverStep
Control == Placed /\ OneProcess /\ Places /\ Held /\ Listening

Elsewhere == <<stopping, port, flight, row, helper, answered>>

\* A step from one place of a pruning or of a save to the next.
LEMMA SaveGoesOn ==
  ASSUME Inv, NEW g \in Goroutine, NEW step, Goto(g, step), UNCHANGED Elsewhere,
         \/ at[g] \in {"list", "drop"} /\ step \in {"list", "drop"}
         \/ at[g] \in {"export", "fill"} /\ step \in {"fill", "rename"}
  PROVE  Control'
  <1>1. /\ g[1] \in Proc
        /\ at'[g] = step /\ \A h \in Goroutine : h # g => at'[h] = at[h]
    BY Moved, Names DEF Inv
  <1>2. \A p \in Proc : Serving(p)' = Serving(p) /\ Running(p)' = Running(p)
    BY <1>1, Names DEF Serving, Running, Ended
  <1>3. Placed'
    BY <1>1, Names DEF Inv, TypeOK, Placed, Goto, MainStep, SaverStep, SaveStep
  <1>4. OneProcess'
    BY <1>2 DEF Inv, OneProcess, Pending, Elsewhere
  <1>5. Places'
    BY <1>1, Names DEF Inv, Places, SaveStep, Elsewhere
  <1>6. Held'
    BY <1>2, HeldKept DEF Elsewhere
  <1>7. Listening'
    BY <1>1, Names DEF Inv, TypeOK, Listening, Elsewhere
  <1>8. QED
    BY <1>3, <1>4, <1>5, <1>6, <1>7 DEF Control

\* After its pruning at startup main goes on to bind; all others save.
LEMMA PrunedMoves ==
  ASSUME Inv, NEW g \in Goroutine, at[g] \in {"list", "drop"}, Pruned(g)
  PROVE  LET p == g[1] IN
         /\ p \in Proc
         /\ \/ /\ g = Main(p) /\ p \notin stopping
               /\ at' = [at EXCEPT ![g] = "bind", ![Saver(p)] = "idle"]
               /\ at'[g] = "bind" /\ at'[Saver(p)] = "idle"
            \/ /\ g = Saver(p) \/ p \in stopping
               /\ at' = [at EXCEPT ![g] = "export"]
               /\ at'[g] = "export" /\ at'[Saver(p)] = IF g = Saver(p) THEN "export" ELSE at[Saver(p)]
         /\ \A h \in Goroutine \ {g, Saver(p)} : at'[h] = at[h]
  <1>1. CASE g[2] = "main" /\ g[1] \notin stopping
    BY <1>1, Names DEF Inv, TypeOK, Pruned
  <1>2. CASE ~(g[2] = "main" /\ g[1] \notin stopping)
    BY <1>2, Names DEF Inv, TypeOK, Pruned, Goto
  <1>3. QED
    BY <1>1, <1>2

\* The end of a pruning.
LEMMA PruningDone ==
  ASSUME Inv, NEW g \in Goroutine, at[g] \in {"list", "drop"}, Pruned(g), UNCHANGED Elsewhere
  PROVE  Control'
  <1>1. \A p \in Proc : Serving(p) => Serving(p)'
    BY PrunedMoves, Names DEF Serving
  <1>2. \A p \in Proc : Running(p)' = Running(p)
    BY PrunedMoves, Names DEF Running, Ended
  <1>3. Placed'
    <2>1. at' \in [Goroutine -> MainStep \cup SaverStep]
      BY PrunedMoves DEF Inv, TypeOK, MainStep, SaverStep, SaveStep
    <2>2. \A p \in Proc : at'[Main(p)] \in MainStep /\ at'[Saver(p)] \in SaverStep
      <3>1. \A p \in Proc : /\ at'[Main(p)] \in {at[Main(p)], "bind", "export"}
                            /\ at'[Saver(p)] \in {at[Saver(p)], "idle", "export"}
        BY PrunedMoves, Names
      <3>2. QED
        BY <3>1 DEF Inv, TypeOK, MainStep, SaverStep, SaveStep
    <2>3. QED
      BY <2>1, <2>2 DEF Placed
  <1>4. OneProcess'
    BY <1>2 DEF Inv, OneProcess, Pending, Elsewhere
  <1>5. Places'
    BY PrunedMoves, Names DEF Inv, Places, SaveStep, Elsewhere
  <1>6. Held'
    BY <1>1, HeldKept DEF Elsewhere
  <1>7. Listening'
    BY PrunedMoves, Names DEF Inv, TypeOK, Listening, Elsewhere
  <1>8. QED
    BY <1>3, <1>4, <1>5, <1>6, <1>7 DEF Control

\* The end of a save.
LEMMA SaveDone ==
  ASSUME Inv, NEW g \in Goroutine, at[g] \in {"fill", "rename"}, Saved(g), UNCHANGED Elsewhere
  PROVE  /\ Control'
         /\ at'[g] \in {"gone", "idle"} /\ \A h \in Goroutine : h # g => at'[h] = at[h]
         /\ g = Main(g[1]) => at'[g] = "gone"
  <1>1. /\ g[1] \in Proc
        /\ \/ g = Main(g[1]) /\ at'[g] = "gone"
           \/ g = Saver(g[1]) /\ at'[g] = "idle"
        /\ \A h \in Goroutine : h # g => at'[h] = at[h]
    BY Moved, Names DEF Inv, Saved
  <1>2. \A p \in Proc : Serving(p)' = Serving(p) /\ (Running(p)' => Running(p))
    BY <1>1, Names DEF Serving, Running, Ended
  <1>3. Placed'
    BY <1>1, Names DEF Inv, TypeOK, Placed, Saved, Goto, MainStep, SaverStep, SaveStep, Ended
  <1>4. OneProcess'
    BY <1>2 DEF Inv, OneProcess, Pending, Elsewhere
  <1>5. Places'
    BY <1>1, Names DEF Inv, Places, SaveStep, Elsewhere
  <1>6. Held'
    BY <1>2, HeldKept DEF Elsewhere
  <1>7. Listening'
    BY <1>1, Names DEF Inv, TypeOK, Listening, Elsewhere
  <1>8. QED
    BY <1>1, <1>3, <1>4, <1>5, <1>6, <1>7, Names DEF Control

------------------------------------------------------------------------------
(* Steps that read or change hits. *)

\* The process that loads is the only one, so the file has every hit.
LEMMA LoadKeeps ==
  ASSUME Inv, NEW p \in Proc, Load(p)
  PROVE  Inv'
  <1>1. /\ at[Main(p)] = "load" /\ at'[Main(p)] = "list"
        /\ \A h \in Goroutine : h # Main(p) => at'[h] = at[h]
        /\ keys' = keys
        /\ UNCHANGED <<job, disk, stopping, port, flight, row, helper, answered, saved, lost>>
    BY Moved, Names DEF Inv, TypeOK, Load, keys
  <1>2. \A q \in Proc : (Loaded(q)' => q = p) /\ ~Loaded(q)
    BY <1>1, Names DEF Inv, OneProcess, Pending, Running, Ended, Loaded
  <1>3. /\ mem' \in [Proc -> SUBSET Relay] /\ \A q \in Proc : mem'[q] \subseteq answered
        /\ unread' \subseteq Relay /\ unread \subseteq unread'
        /\ \/ mem'[p] = file.hits
           \/ file.hits \subseteq unread'
    <2>1. file.hits \subseteq Relay
      BY DEF Inv, TypeOK, Counted
    <2>2. QED
      BY <2>1 DEF Inv, TypeOK, Counted, Load
  <1>4. TypeOK'
    <2>1. at' \in [Goroutine -> MainStep \cup SaverStep]
      BY DEF Inv, TypeOK, Load, Goto, MainStep, SaveStep
    <2>2. \A q \in Proc : at'[Main(q)] \in MainStep /\ at'[Saver(q)] \in SaverStep
      BY <1>1, Names DEF Inv, TypeOK, MainStep, SaveStep
    <2>3. QED
      BY <1>1, <1>3, <2>1, <2>2 DEF Inv, TypeOK, disk
  <1>5. OneProcess'
    BY <1>1, Names DEF Inv, OneProcess, Pending, Running, Ended
  <1>6. Places'
    BY <1>1, Names DEF Inv, Places, SaveStep
  <1>7. Held'
    BY <1>1, HeldKept, Names DEF Serving
  <1>8. Listening'
    BY <1>1, Names DEF Inv, TypeOK, Listening
  <1>9. Counted' /\ FileWhole'
    BY <1>1, <1>3 DEF Inv, Counted, FileWhole, disk
  <1>10. \A g \in Goroutine : at'[g] \notin {"drop", "fill", "rename"}
    BY <1>1, <1>2, Names, Exclusive DEF SaveStep
  <1>11. Saving'
    BY <1>10 DEF Saving
  <1>12. KeptSaved'
    BY <1>1, <1>2, <1>3, <1>10 DEF Inv, KeptSaved, disk
  <1>13. KeptAll'
    <2>1. \A h \in answered \ (lost \cup unread) : KeyOf[h] \in keys => h \in file.hits
      BY <1>2 DEF Inv, KeptAll
    <2>2. QED
      BY <1>1, <1>2, <1>3, <1>10, <2>1, Names DEF KeptAll, disk
  <1>14. QED
    BY <1>4, <1>5, <1>6, <1>7, <1>8, <1>9, <1>11, <1>12, <1>13 DEF Inv

\* The keys listed include those of all saved hits: no key comes back.
LEMMA ListKeeps ==
  ASSUME Inv, NEW g \in Goroutine, List(g)
  PROVE  Inv'
  <1>1. UNCHANGED Elsewhere /\ UNCHANGED <<mem, disk, row, hist>> /\ keys' = keys
    BY DEF List, Elsewhere, hist, keys
  <1>2. CASE Pruned(g) /\ UNCHANGED job
    <2>1. Control'
      BY <1>1, <1>2, PruningDone DEF List
    <2>2. TypeOK'
      BY <1>1, <1>2, <2>1 DEF Inv, TypeOK, Control, Placed, Elsewhere, disk, hist
    <2>3. at[g] = "list"
      BY DEF List
    <2>4. \A p \in Proc : Loaded(p)' = Loaded(p)
      BY <1>2, <2>3, PrunedMoves, Names DEF Loaded
    <2>5. \A h \in Goroutine : at'[h] \in {"drop", "fill", "rename"} => at'[h] = at[h]
      BY <1>2, <2>3, PrunedMoves, Names
    <2>6. StoredInv'
      BY <1>1, <1>2, <2>4, <2>5, StoredKept DEF Stored
    <2>7. QED
      BY <2>1, <2>2, <2>6 DEF Inv, StoredInv, Control
  <1>3. CASE Goto(g, "drop") /\ job' = [job EXCEPT ![g].keys = keys]
    <2>1. Control'
      BY <1>1, <1>3, SaveGoesOn DEF List
    <2>2. /\ at[g] = "list" /\ at'[g] = "drop" /\ \A h \in Goroutine : h # g => at'[h] = at[h]
          /\ job'[g].keys = keys /\ job'[g].hits = job[g].hits
          /\ \A h \in Goroutine : h # g => job'[h] = job[h]
      BY <1>3, Moved DEF Inv, TypeOK, List
    <2>3. job' \in [Goroutine -> [keys : SUBSET Key, hits : SUBSET Relay]]
      BY <1>3 DEF Inv, TypeOK, keys
    <2>4. TypeOK'
      BY <1>1, <2>1, <2>3 DEF Inv, TypeOK, Control, Placed, Elsewhere, disk, hist
    <2>5. Counted' /\ FileWhole'
      BY <1>1, <2>2 DEF Inv, Counted, FileWhole, disk, hist
    <2>6. Saving'
      BY <1>1, <2>2 DEF Inv, Saving, disk
    <2>7. \A p \in Proc : Loaded(p)' = Loaded(p)
      BY <2>2, Names DEF Loaded
    <2>8. KeptSaved'
      BY <1>1, <2>2, <2>7 DEF Inv, KeptSaved, disk, hist
    <2>9. \A p \in Proc : at'[Main(p)] \in {"fill", "rename"} =>
                            at'[Main(p)] = at[Main(p)] /\ job'[Main(p)] = job[Main(p)]
      BY <2>2, Names
    <2>10. KeptAll'
      BY <1>1, <2>7, <2>9 DEF Inv, KeptAll, disk, hist
    <2>11. QED
      BY <2>1, <2>4, <2>5, <2>6, <2>8, <2>10 DEF Inv, Control
  <1>4. QED
    BY <1>2, <1>3 DEF List

\* What is pruned with its key still there counts as lost, and was never saved.
LEMMA PruneKeeps ==
  ASSUME Inv, NEW g \in Goroutine, Prune(g)
  PROVE  Inv'
  <1> DEFINE p == g[1]
             gone == {h \in mem[p] : KeyOf[h] \notin job[g].keys}
  <1>1. /\ UNCHANGED Elsewhere /\ UNCHANGED <<disk, row, answered, saved, unread>> /\ keys' = keys
        /\ at[g] = "drop" /\ Pruned(g) /\ p \in Proc
    BY Names DEF Prune, Elsewhere, keys
  <1>2. Control'
    BY <1>1, PruningDone
  <1>3. /\ mem'[p] = mem[p] \ gone /\ \A q \in Proc : q # p => mem'[q] = mem[q]
        /\ job'[g] = NoJob /\ \A h \in Goroutine : h # g => job'[h] = job[h]
        /\ lost' = lost \cup {h \in gone : KeyOf[h] \in keys}
    BY <1>1 DEF Inv, TypeOK, Prune
  <1>4. TypeOK'
    <2>1. /\ job' \in [Goroutine -> [keys : SUBSET Key, hits : SUBSET Relay]]
          /\ mem' \in [Proc -> SUBSET Relay]
          /\ lost' \subseteq Relay
      BY <1>1, <1>3 DEF Inv, TypeOK, Prune, NoJob
    <2>2. QED
      BY <1>1, <1>2, <2>1 DEF Inv, TypeOK, Control, Placed, Elsewhere, disk
  <1>5. \A q \in Proc : Loaded(q)' = Loaded(q)
    BY <1>1, PrunedMoves, Names DEF Loaded
  <1>6. \A h \in Goroutine : at'[h] \notin {"drop", "fill", "rename"}
    BY <1>1, PrunedMoves, Names, Exclusive DEF SaveStep
  <1>7. Counted' /\ FileWhole'
    BY <1>1, <1>3 DEF Inv, Counted, FileWhole, disk, NoJob
  <1>8. Saving'
    BY <1>6 DEF Saving
  <1>9. KeptSaved'
    BY <1>1, <1>3, <1>5, <1>6 DEF Inv, KeptSaved, disk
  <1>10. KeptAll'
    BY <1>1, <1>3, <1>5, <1>6, Names DEF Inv, KeptAll, disk
  <1>11. QED
    BY <1>2, <1>4, <1>7, <1>8, <1>9, <1>10 DEF Inv, Control

\* The memory that is exported has every saved hit, and main's every hit.
LEMMA ExportKeeps ==
  ASSUME Inv, NEW g \in Goroutine, Export(g)
  PROVE  Inv'
  <1>1. /\ UNCHANGED Elsewhere /\ UNCHANGED <<mem, file, row, hist>> /\ keys' = keys
        /\ at[g] = "export" /\ at'[g] = "fill" /\ \A h \in Goroutine : h # g => at'[h] = at[h]
        /\ g[1] \in Proc /\ job'[g].hits = mem[g[1]]
        /\ \A h \in Goroutine : h # g => job'[h] = job[h]
    BY Moved, Names DEF Inv, TypeOK, Export, Elsewhere, hist, keys
  <1>2. Control'
    BY SaveGoesOn, <1>1 DEF Export
  <1>3. TypeOK'
    <2>1. /\ job' \in [Goroutine -> [keys : SUBSET Key, hits : SUBSET Relay]]
          /\ tmp' \in File
      BY <1>1 DEF Inv, TypeOK, Export, File, Torn
    <2>2. QED
      BY <1>1, <1>2, <2>1 DEF Inv, TypeOK, Control, Placed, Elsewhere, hist
  <1>4. \A q \in Proc : Loaded(q)' = Loaded(q)
    BY <1>1, Names DEF Loaded
  <1>5. Loaded(g[1]) /\ \A h \in Goroutine : h # g => at[h] \notin SaveStep
    BY <1>1, Exclusive DEF SaveStep
  <1>6. Counted' /\ FileWhole'
    BY <1>1 DEF Inv, Counted, FileWhole, hist
  <1>7. Saving'
    BY <1>1, <1>5 DEF Saving, SaveStep
  <1>8. KeptSaved'
    BY <1>1, <1>4, <1>5 DEF Inv, KeptSaved, SaveStep, hist
  <1>9. KeptAll'
    <2>1. \A q \in Proc : at'[Main(q)] \in {"fill", "rename"} => Main(q) = g /\ q = g[1]
      BY <1>1, <1>5, Names DEF SaveStep
    <2>2. QED
      BY <1>1, <1>4, <1>5, <2>1 DEF Inv, KeptAll, hist
  <1>10. QED
    BY <1>2, <1>3, <1>6, <1>7, <1>8, <1>9 DEF Inv, Control

\* What the end of a save leaves of the memory and the goroutines' notes.
LEMMA ClosedLeaves ==
  ASSUME Inv, NEW g \in Goroutine, at[g] \in {"fill", "rename"}, Saved(g), Closed(g)
  PROVE  /\ job' \in [Goroutine -> [keys : SUBSET Key, hits : SUBSET Relay]]
         /\ mem' \in [Proc -> SUBSET Relay]
         /\ job'[g].hits = {} /\ \A h \in Goroutine : h # g => job'[h] = job[h]
         /\ \A q \in Proc : mem'[q] \subseteq mem[q]
         /\ \A q \in Proc : Loaded(q)' => Loaded(q) /\ mem'[q] = mem[q]
         /\ g = Saver(g[1]) => \A q \in Proc : Loaded(q)' = Loaded(q)
         /\ g = Main(g[1]) => \A q \in Proc : ~Loaded(q)'
         /\ \A h \in Goroutine : at'[h] \notin {"drop", "fill", "rename"}
  <1>1. /\ g[1] \in Proc
        /\ \/ g = Main(g[1]) /\ at'[g] = "gone" /\ mem' = [mem EXCEPT ![g[1]] = {}]
           \/ g = Saver(g[1]) /\ at'[g] = "idle" /\ mem' = mem
        /\ \A h \in Goroutine : h # g => at'[h] = at[h]
        /\ job' = [job EXCEPT ![g] = NoJob]
    BY Moved, Names DEF Inv, Saved, Closed
  <1>2. /\ job' \in [Goroutine -> [keys : SUBSET Key, hits : SUBSET Relay]]
        /\ job'[g].hits = {} /\ \A h \in Goroutine : h # g => job'[h] = job[h]
    BY <1>1 DEF Inv, TypeOK, NoJob
  <1>3. mem' \in [Proc -> SUBSET Relay] /\ \A q \in Proc : mem'[q] \subseteq mem[q]
    BY <1>1 DEF Inv, TypeOK
  <1>4. \A h \in Goroutine : at'[h] \notin {"drop", "fill", "rename"}
    BY <1>1, Exclusive DEF SaveStep
  <1>5. CASE g = Main(g[1])
    <2>1. \A q \in Proc : Loaded(q) => q = g[1]
      BY <1>1, Exclusive DEF SaveStep
    <2>2. \A q \in Proc : ~Loaded(q)'
      BY <1>1, <1>5, <2>1, Names DEF Loaded
    <2>3. QED
      BY <1>1, <1>2, <1>3, <1>4, <1>5, <2>2, Names
  <1>6. CASE g = Saver(g[1])
    <2>1. \A q \in Proc : Loaded(q)' = Loaded(q)
      BY <1>1, <1>6, Names DEF Loaded
    <2>2. QED
      BY <1>1, <1>2, <1>3, <1>4, <1>6, <2>1, Names
  <1>7. QED
    BY <1>1, <1>5, <1>6

\* The temporary file is whole, or this save is given up.
LEMMA FillKeeps ==
  ASSUME Inv, NEW g \in Goroutine, Fill(g)
  PROVE  Inv'
  <1>1. /\ UNCHANGED Elsewhere /\ UNCHANGED <<file, row, answered, saved, unread>> /\ keys' = keys
        /\ at[g] = "fill" /\ g[1] \in Proc
    BY Names DEF Fill, Elsewhere, keys
  <1>2. CASE tmp' = Whole(job[g].hits) /\ Goto(g, "rename") /\ UNCHANGED <<job, mem, lost>>
    <2>1. Control'
      BY <1>1, <1>2, SaveGoesOn
    <2>2. at'[g] = "rename" /\ \A h \in Goroutine : h # g => at'[h] = at[h]
      BY <1>2, Moved DEF Inv
    <2>3. tmp' \in File
      BY <1>2 DEF Inv, TypeOK, File, Whole
    <2>4. TypeOK'
      BY <1>1, <1>2, <2>1, <2>3 DEF Inv, TypeOK, Control, Placed, Elsewhere
    <2>5. \A q \in Proc : Loaded(q)' = Loaded(q)
      BY <1>1, <2>2, Names DEF Loaded
    <2>6. Counted' /\ FileWhole'
      BY <1>1, <1>2 DEF Inv, Counted, FileWhole
    <2>7. \A h \in Goroutine : h # g => at[h] \notin SaveStep
      BY <1>1, Exclusive DEF SaveStep
    <2>8. Saving'
      BY <1>1, <1>2, <2>2, <2>7 DEF Inv, Saving, SaveStep
    <2>9. KeptSaved'
      BY <1>1, <1>2, <2>2, <2>5 DEF Inv, KeptSaved
    <2>10. \A q \in Proc : at'[Main(q)] \in {"fill", "rename"} => at[Main(q)] \in {"fill", "rename"}
      BY <1>1, <2>2, Names
    <2>11. KeptAll'
      BY <1>1, <1>2, <2>5, <2>10 DEF Inv, KeptAll
    <2>12. QED
      BY <2>1, <2>4, <2>6, <2>8, <2>9, <2>11 DEF Inv, Control
  <1>3. CASE /\ Saved(g) /\ Closed(g) /\ UNCHANGED tmp
             /\ lost' = IF g[2] = "main" THEN lost \cup (mem[g[1]] \ file.hits) ELSE lost
    <2>1. Control'
      BY <1>1, <1>3, SaveDone
    <2>2. lost \subseteq lost' /\ lost' \subseteq Relay
      BY <1>1, <1>3 DEF Inv, TypeOK
    <2>3. TypeOK'
      BY <1>1, <1>3, <2>1, <2>2, ClosedLeaves DEF Inv, TypeOK, Control, Placed, Elsewhere
    <2>4. Counted' /\ FileWhole'
      <3>1. \A h \in Goroutine : job'[h].hits \subseteq answered
        BY <1>1, <1>3, ClosedLeaves DEF Inv, Counted
      <3>2. \A q \in Proc : mem'[q] \subseteq answered
        BY <1>1, <1>3, ClosedLeaves DEF Inv, Counted
      <3>3. QED
        BY <1>1, <3>1, <3>2 DEF Inv, Counted, FileWhole
    <2>5. Saving'
      BY <1>1, <1>3, ClosedLeaves DEF Saving
    <2>6. KeptSaved'
      BY <1>1, <1>3, ClosedLeaves DEF Inv, KeptSaved
    <2>7. KeptAll'
      <3>1. CASE g = Main(g[1])
        <4>1. Loaded(g[1]) /\ lost' = lost \cup (mem[g[1]] \ file.hits)
          BY <1>1, <1>3, <3>1, Exclusive, Names DEF SaveStep
        <4>2. \A h \in answered \ (lost' \cup unread) : KeyOf[h] \in keys => h \in file.hits
          BY <1>1, <4>1 DEF Inv, KeptAll
        <4>3. QED
          BY <1>1, <1>3, <3>1, <4>2, ClosedLeaves, Names DEF KeptAll
      <3>2. CASE g = Saver(g[1])
        <4>1. lost' = lost
          BY <1>1, <1>3, <3>2, Names
        <4>2. QED
          BY <1>1, <1>3, <3>2, <4>1, ClosedLeaves, Names DEF Inv, KeptAll
      <3>3. QED
        BY <3>1, <3>2, Names
    <2>8. QED
      BY <2>1, <2>3, <2>4, <2>5, <2>6, <2>7 DEF Inv, Control
  <1>4. QED
    BY <1>2, <1>3 DEF Fill

\* The new file has the hits of the old one.
LEMMA RenameKeeps ==
  ASSUME Inv, NEW g \in Goroutine, Rename(g)
  PROVE  Inv'
  <1>1. /\ UNCHANGED Elsewhere /\ UNCHANGED <<row, answered, lost, unread>> /\ keys' = keys
        /\ at[g] = "rename" /\ g[1] \in Proc /\ Saved(g) /\ Closed(g)
    BY Names DEF Rename, Elsewhere, keys
  <1>2. /\ tmp = Whole(job[g].hits) /\ file' = Whole(job[g].hits) /\ tmp' = Missing
        /\ saved' = saved \cup job[g].hits
    <2>1. tmp = Whole(job[g].hits)
      BY <1>1 DEF Inv, Saving
    <2>2. QED
      BY <2>1 DEF Rename, Whole
  <1>3. file'.hits = job[g].hits /\ file'.state = "whole"
    BY <1>2 DEF Whole
  <1>4. Control'
    BY <1>1, SaveDone
  <1>5. TypeOK'
    <2>1. /\ job[g].hits \subseteq Relay
          /\ file' \in File /\ tmp' \in File /\ saved' \subseteq Relay
      BY <1>2 DEF Inv, TypeOK, File, Whole, Missing
    <2>2. QED
      BY <1>1, <1>4, <2>1, ClosedLeaves DEF Inv, TypeOK, Control, Placed, Elsewhere
  <1>6. Counted' /\ FileWhole'
    <2>1. \A h \in Goroutine : job'[h].hits \subseteq answered
      BY <1>1, ClosedLeaves DEF Inv, Counted
    <2>2. \A q \in Proc : mem'[q] \subseteq answered
      BY <1>1, ClosedLeaves DEF Inv, Counted
    <2>3. QED
      BY <1>1, <1>2, <1>3, <2>1, <2>2 DEF Inv, Counted, FileWhole
  <1>7. Saving'
    BY <1>1, ClosedLeaves DEF Saving
  <1>8. KeptSaved'
    <2>1. \A h \in saved' \ unread : KeyOf[h] \in keys => h \in job[g].hits
      BY <1>1, <1>2 DEF Inv, KeptSaved
    <2>2. \A h \in saved' \ unread, q \in Proc : KeyOf[h] \in keys /\ Loaded(q)' => h \in mem'[q]
      <3>1. SUFFICES ASSUME NEW h \in saved' \ unread, NEW q \in Proc, KeyOf[h] \in keys, Loaded(q)'
                     PROVE  h \in mem'[q]
        OBVIOUS
      <3>2. Loaded(q) /\ mem'[q] = mem[q] /\ q = g[1]
        BY <1>1, <3>1, ClosedLeaves, Exclusive DEF SaveStep
      <3>3. QED
        BY <1>1, <2>1, <3>1, <3>2 DEF Inv, Saving
    <2>3. QED
      BY <1>1, <1>3, <2>1, <2>2, ClosedLeaves DEF KeptSaved
  <1>9. KeptAll'
    <2>1. CASE g = Main(g[1])
      <3>1. \A h \in answered \ (lost \cup unread) : KeyOf[h] \in keys => h \in job[g].hits
        BY <1>1, <2>1 DEF Inv, KeptAll
      <3>2. QED
        BY <1>1, <1>3, <2>1, <3>1, ClosedLeaves, Names DEF KeptAll
    <2>2. CASE g = Saver(g[1])
      <3>1. Loaded(g[1])
        BY <1>1, Exclusive DEF SaveStep
      <3>2. QED
        BY <1>1, <2>2, <3>1, ClosedLeaves, Names DEF Inv, KeptAll
    <2>3. QED
      BY <2>1, <2>2, Names
  <1>10. QED
    BY <1>4, <1>5, <1>6, <1>7, <1>8, <1>9 DEF Inv, Control

\* A hit is counted in the process that serves, which has not begun its last save.
LEMMA AnswerKeeps ==
  ASSUME Inv, NEW r \in Request, Answer(r)
  PROVE  Inv'
  <1> DEFINE p == flight[r]
  <1>1. /\ r \in Relay /\ p \in Proc /\ Serving(p) /\ row[KeyOf[r]] # "never"
        /\ mem' = [mem EXCEPT ![p] = @ \cup {r}] /\ answered' = answered \cup {r}
        /\ flight' = [flight EXCEPT ![r] = Nobody]
        /\ UNCHANGED <<at, job, disk, stopping, port, row, helper, saved, lost, unread>> /\ keys' = keys
    BY DEF Inv, TypeOK, Held, Answer, keys
  <1>2. mem'[p] = mem[p] \cup {r} /\ \A q \in Proc : mem[q] \subseteq mem'[q] /\ (q # p => mem'[q] = mem[q])
    BY <1>1 DEF Inv, TypeOK
  <1>3. Loaded(p) /\ \A q \in Proc : Loaded(q) => q = p
    BY <1>1, Exclusive DEF Serving, Loaded
  <1>4. TypeOK'
    BY <1>1 DEF Inv, TypeOK, disk
  <1>5. OneProcess' /\ Places' /\ Listening'
    BY <1>1 DEF Inv, OneProcess, Pending, Running, Places, Listening
  <1>6. Held'
    BY <1>1 DEF Inv, TypeOK, Held, Serving
  <1>7. Counted' /\ FileWhole'
    BY <1>1, <1>2 DEF Inv, Counted, FileWhole, disk
  <1>8. Saving'
    BY <1>1, <1>2, Names DEF Inv, Saving, disk
  <1>9. KeptSaved'
    BY <1>1, <1>2 DEF Inv, KeptSaved, Loaded, disk
  <1>10. KeptAll'
    <2>1. \A q \in Proc : at[Main(q)] \notin {"fill", "rename"}
      BY <1>1, <1>3 DEF Serving, Loaded
    <2>2. QED
      BY <1>1, <1>2, <1>3, <2>1 DEF Inv, KeptAll, Loaded, disk
  <1>11. QED
    BY <1>4, <1>5, <1>6, <1>7, <1>8, <1>9, <1>10 DEF Inv

\* No request has used a key that is only now created.
LEMMA CreateKeyKeeps ==
  ASSUME Inv, NEW k \in Key, CreateKey(k)
  PROVE  Inv'
  <1>1. /\ row[k] = "never" /\ row' = [row EXCEPT ![k] = "here"]
        /\ UNCHANGED <<at, job, mem, disk, stopping, port, flight, helper, hist>>
    BY DEF CreateKey
  <1>2. \A h \in answered : KeyOf[h] \in keys' => KeyOf[h] \in keys
    BY <1>1 DEF Inv, TypeOK, Held, Request, keys
  <1>3. TypeOK'
    BY <1>1 DEF Inv, TypeOK, disk, hist
  <1>4. OneProcess' /\ Places' /\ Listening'
    BY <1>1 DEF Inv, OneProcess, Pending, Running, Places, Listening
  <1>5. Held'
    BY <1>1, LifecycleAssumption DEF Inv, TypeOK, Held, Serving, hist
  <1>6. Counted' /\ FileWhole'
    BY <1>1 DEF Inv, Counted, FileWhole, disk, hist
  <1>7. Saving'
    BY <1>1, <1>2 DEF Inv, Counted, Saving, disk
  <1>8. KeptSaved'
    BY <1>1, <1>2 DEF Inv, Counted, KeptSaved, Loaded, disk, hist
  <1>9. KeptAll'
    BY <1>1, <1>2 DEF Inv, KeptAll, Loaded, disk, hist
  <1>10. QED
    BY <1>3, <1>4, <1>5, <1>6, <1>7, <1>8, <1>9 DEF Inv

\* Only hits of the deleted key are dropped.
LEMMA DeleteKeyKeeps ==
  ASSUME Inv, NEW k \in Key, DeleteKey(k)
  PROVE  Inv'
  <1>1. PICK p \in Proc : mem' = [mem EXCEPT ![p] = {h \in @ : KeyOf[h] # k}]
    BY DEF DeleteKey
  <1>2. /\ row[k] = "here" /\ row' = [row EXCEPT ![k] = "deleted"]
        /\ UNCHANGED <<at, job, disk, stopping, port, flight, helper, hist>>
    BY DEF DeleteKey
  <1>3. keys' = keys \ {k}
    BY <1>2 DEF Inv, TypeOK, keys
  <1>4. \A q \in Proc : mem'[q] \subseteq mem[q] /\ \A h \in mem[q] : KeyOf[h] # k => h \in mem'[q]
    BY <1>1 DEF Inv, TypeOK
  <1>5. TypeOK'
    BY <1>1, <1>2 DEF Inv, TypeOK, disk, hist
  <1>6. OneProcess' /\ Places' /\ Listening'
    BY <1>2 DEF Inv, OneProcess, Pending, Running, Places, Listening
  <1>7. Held'
    BY <1>2, LifecycleAssumption DEF Inv, TypeOK, Held, Serving, hist
  <1>8. Counted' /\ FileWhole'
    BY <1>2, <1>4 DEF Inv, Counted, FileWhole, disk, hist
  <1>9. Saving'
    BY <1>2, <1>3, <1>4, Names DEF Inv, Saving, disk
  <1>10. KeptSaved'
    BY <1>2, <1>3, <1>4 DEF Inv, KeptSaved, Loaded, disk, hist
  <1>11. KeptAll'
    BY <1>2, <1>3, <1>4 DEF Inv, KeptAll, Loaded, disk, hist
  <1>12. QED
    BY <1>5, <1>6, <1>7, <1>8, <1>9, <1>10, <1>11 DEF Inv

\* A crash loses what was not yet saved.
LEMMA CrashKeeps ==
  ASSUME Inv, NEW p \in Proc, Crash(p)
  PROVE  Inv'
  <1>1. /\ Running(p)
        /\ at'[Main(p)] = "gone" /\ at'[Saver(p)] = "done"
        /\ \A g \in Goroutine \ {Main(p), Saver(p)} : at'[g] = at[g] /\ job'[g] = job[g]
        /\ job'[Main(p)] = NoJob /\ job'[Saver(p)] = NoJob
        /\ mem'[p] = {} /\ \A q \in Proc : q # p => mem'[q] = mem[q]
        /\ lost' = lost \cup (mem[p] \ file.hits)
        /\ UNCHANGED <<disk, stopping, row, helper, answered, saved, unread>> /\ keys' = keys
    BY Names DEF Inv, TypeOK, Crash, keys
  <1>2. \A q \in Proc : ~Running(q)' /\ (Running(q) => q = p)
    BY <1>1, Names DEF Inv, OneProcess, Pending, Running, Ended
  <1>3. TypeOK'
    <2>1. at' \in [Goroutine -> MainStep \cup SaverStep]
      BY DEF Inv, TypeOK, Crash, MainStep, SaverStep, Ended
    <2>2. \A q \in Proc : at'[Main(q)] \in MainStep /\ at'[Saver(q)] \in SaverStep
      BY <1>1, Names DEF Inv, TypeOK, MainStep, SaverStep, Ended
    <2>3. /\ job' \in [Goroutine -> [keys : SUBSET Key, hits : SUBSET Relay]]
          /\ mem' \in [Proc -> SUBSET Relay]
      BY DEF Inv, TypeOK, Crash, NoJob
    <2>4. /\ port' \in Proc \cup {Nobody}
          /\ flight' \in [Request -> Proc \cup {Nobody}]
      BY DEF Inv, TypeOK, Crash
    <2>5. lost' \subseteq Relay
      BY <1>1 DEF Inv, TypeOK
    <2>6. QED
      BY <1>1, <2>1, <2>2, <2>3, <2>4, <2>5 DEF Inv, TypeOK, disk
  <1>4. OneProcess'
    BY <1>1, <1>2 DEF Inv, OneProcess, Pending
  <1>5. Places'
    BY <1>1, Names DEF Inv, Places
  <1>6. \A q \in Proc : Serving(q) \/ at[Main(q)] \in {"serve", "join"} => q = p
    BY <1>2 DEF Serving, Running, Ended
  <1>7. Held'
    BY <1>1, <1>6 DEF Inv, TypeOK, Held, Crash
  <1>8. Listening'
    BY <1>6 DEF Inv, TypeOK, Listening, Crash
  <1>9. Counted' /\ FileWhole'
    <2>1. \A g \in Goroutine : job'[g].hits \subseteq answered
      BY <1>1 DEF Inv, Counted, NoJob
    <2>2. \A q \in Proc : mem'[q] \subseteq answered
      BY <1>1 DEF Inv, Counted
    <2>3. QED
      BY <1>1, <2>1, <2>2 DEF Inv, Counted, FileWhole, disk
  <1>10. \A q \in Proc : ~Loaded(q)'
    BY <1>2 DEF Loaded, Running, Ended
  <1>11. \A g \in Goroutine : at'[g] \notin {"drop", "fill", "rename"}
    BY <1>1, <1>2, Exclusive, Names DEF Loaded, Running, Ended, SaveStep
  <1>12. Saving' /\ KeptSaved'
    BY <1>1, <1>10, <1>11 DEF Inv, Saving, KeptSaved, disk
  <1>13. KeptAll'
    <2>1. \A h \in answered \ (lost' \cup unread) : KeyOf[h] \in keys => h \in file.hits
      BY <1>1, <1>2 DEF Inv, KeptAll, Loaded, Running, Ended
    <2>2. QED
      BY <1>1, <1>10, <1>11, <2>1, Names DEF KeptAll, disk
  <1>14. QED
    BY <1>3, <1>4, <1>5, <1>7, <1>8, <1>9, <1>12, <1>13 DEF Inv

------------------------------------------------------------------------------
\* Every step keeps it, if processes are not started beside one another.
THEOREM InvNext == ASSUME ~Together, Inv, [Next]_vars PROVE Inv'
  <1>1. ASSUME NEW p \in Proc,
               \/ Launch(p) \/ Tick(p) \/ Quit(p) \/ Restart(p) \/ Abandon(p) \/ Crash(p)
        PROVE  Inv'
    BY <1>1, LaunchKeeps, TickKeeps, QuitKeeps, HelperKeeps, CrashKeeps
  <1>2. ASSUME NEW g \in Goroutine, Step(g) PROVE Inv'
    BY <1>2, ListKeeps, PruneKeeps, ExportKeeps, FillKeeps, RenameKeeps DEF Step
  <1>3. ASSUME NEW p \in Proc, Advance(p) PROVE Inv'
    <2>1. CASE Load(p) \/ Bind(p) \/ StopSaver(p) \/ Join(p) \/ Drain(p)
      BY <2>1, LoadKeeps, BindKeeps, StopSaverKeeps, JoinKeeps, DrainKeeps
    <2>2. CASE \E w \in {"main", "saver"} : Step(<<p, w>>)
      BY <1>2, <2>2 DEF Goroutine
    <2>3. QED
      BY <1>3, <2>1, <2>2 DEF Advance
  <1>4. ASSUME NEW p \in Proc, NEW q \in Proc, Relaunch(p, q) PROVE Inv'
    BY <1>4, RelaunchKeeps
  <1>5. ASSUME NEW r \in Request, Accept(r) \/ Answer(r) \/ GiveUp(r) \/ StopStream(r)
        PROVE  Inv'
    BY <1>5, AcceptKeeps, AnswerKeeps, GiveUpKeeps DEF StopStream
  <1>6. ASSUME NEW k \in Key, CreateKey(k) \/ DeleteKey(k) PROVE Inv'
    BY <1>6, CreateKeyKeeps, DeleteKeyKeeps
  <1>7. CASE UNCHANGED vars
    BY <1>7, StutterKeeps
  <1>8. QED
    BY <1>1, <1>3, <1>4, <1>5, <1>6, <1>7 DEF Next

\* So it always holds.
THEOREM InvAlways == ASSUME ~Together PROVE Spec => []Inv
  BY InvInit, InvNext, PTL DEF Spec

\* The variables keep their types.
THEOREM LifecycleTypeCorrect == ASSUME ~Together PROVE Spec => []TypeOK
  <1>1. Inv => TypeOK
    BY DEF Inv
  <1>2. QED
    BY <1>1, InvAlways, PTL

\* windows.json is never half written: the persister and the last save, which
\* share a temporary file, never overlap.
THEOREM FileAlwaysWhole == ASSUME ~Together PROVE Spec => []FileWhole
  <1>1. Inv => FileWhole
    BY DEF Inv
  <1>2. QED
    BY <1>1, InvAlways, PTL

\* What a save has put in windows.json stays there as long as its key exists,
\* through crashes, full disks, failing queries and restarts, until a process that
\* starts cannot read the file.
THEOREM SavedAlwaysStays == ASSUME ~Together PROVE Spec => []SavedStays
  <1>1. Inv => SavedStays
    BY DEF Inv, KeptSaved, SavedStays
  <1>2. QED
    BY <1>1, InvAlways, PTL

\* A graceful exit loses no hit, whatever was in flight when the window closed, but
\* those in a file that could not be read.
THEOREM ExitAlwaysKeepsAll == ASSUME ~Together PROVE Spec => []ExitKeepsAll
  <1>1. Inv => ExitKeepsAll
    BY DEF Inv, KeptAll, ExitKeepsAll, Running, Loaded, Ended
  <1>2. QED
    BY <1>1, InvAlways, PTL
================================================================================
