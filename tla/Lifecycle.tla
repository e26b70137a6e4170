-------------------------------- MODULE Lifecycle --------------------------------
(***************************************************************************)
(* The processes of one installation: main's startup and graceful shutdown,  *)
(* the goroutine that persists the rate windows, the requests in flight, the *)
(* helper that relaunches the program after a restart, and crashes.          *)
(*                                                                         *)
(* A process has two goroutines that touch windows.json: <<p, "main">> loads *)
(* it, prunes and saves at the end; <<p, "saver">> prunes and saves every 15  *)
(* seconds.  Of a window only its hits matter; a relay request is its hit.   *)
(***************************************************************************)
EXTENDS Integers, FiniteSets

CONSTANTS
  Processes,   \* bound: how many processes are ever started
  Relay,       \* requests that are counted in a key's windows
  Stream,      \* connections to the event stream, which never end by themselves
  Key, KeyOf,  \* the keys, and the key each relay request uses
  FirstKeys,   \* the keys there are to begin with
  Nobody,
  Together     \* whether a process may be started while another one runs

ASSUME LifecycleAssumption ==
  /\ KeyOf \in [Relay -> Key] /\ FirstKeys \subseteq Key /\ Together \in BOOLEAN
  /\ Relay \cap Stream = {} /\ Processes \in Nat /\ Nobody \notin Nat

VARIABLES
  at, job,     \* where each goroutine is; the keys it listed, the hits it exported
  mem,         \* the hits in each process's WindowManager
  file, tmp,   \* windows.json and windows.json.tmp
  stopping,    \* the processes whose BeginShutdown has run
  port,        \* the process that listens
  flight,      \* the process that handles each request; Nobody when none does
  row,         \* the keys' rows in the database, whose ids are never used again
  helper,      \* what became of the relauncher of each process
  \* History, which decides nothing but that a request comes once: the hits
  \* counted, those a finished save put in the file, those lost to a crash, to a
  \* full disk, or to a pruning that listed the keys before theirs was created.
  answered, saved, lost,
  unread       \* and those in the file when a process could not read it

hist == <<answered, saved, lost, unread>>
disk == <<file, tmp>>
\* In the order they are started.
Proc == 1 .. Processes

vars == <<at, job, mem, disk, stopping, port, flight, row, helper, hist>>

Request == Relay \cup Stream
Goroutine == Proc \X {"main", "saver"}
Main(p) == <<p, "main">>
Saver(p) == <<p, "saver">>

\* A file; one that is not there or not whole has no hits to read.
File == [state : {"whole"}, hits : SUBSET Relay] \cup [state : {"torn", "missing"}, hits : {{}}]
Whole(hits) == [state |-> "whole", hits |-> hits]
Torn == [state |-> "torn", hits |-> {}]
Missing == [state |-> "missing", hits |-> {}]

NoJob == [keys |-> {}, hits |-> {}]

SaveStep == {"list", "drop", "export", "fill", "rename"}
Ended == {"absent", "gone"}
MainStep == Ended \cup SaveStep \cup {"load", "bind", "serve", "fatal", "join", "drain"}
SaverStep == SaveStep \cup {"absent", "idle", "done"}
Running(p) == at[Main(p)] \notin Ended
Serving(p) == at[Main(p)] \in {"serve", "join", "drain"}

Init ==
  /\ at = [g \in Goroutine |-> "absent"]
  /\ job = [g \in Goroutine |-> NoJob]
  /\ mem = [p \in Proc |-> {}]
  /\ file = Missing /\ tmp = Missing
  /\ stopping = {} /\ port = Nobody
  /\ flight = [r \in Request |-> Nobody]
  /\ row = [k \in Key |-> IF k \in FirstKeys THEN "here" ELSE "never"]
  /\ helper = [p \in Proc |-> "none"]
  /\ answered = {} /\ saved = {} /\ lost = {} /\ unread = {}

keys == {k \in Key : row[k] = "here"}

Goto(g, step) == at' = [at EXCEPT ![g] = step]
------------------------------------------------------------------------------
(* Startup *)

Fresh(p) == at[Main(p)] = "absent" /\ \A q \in 1 .. p - 1 : at[Main(q)] # "absent"

\* The user starts the program.
Launch(p) ==
  /\ Fresh(p)
  /\ Together \/ \A q \in Proc : ~Running(q) /\ helper[q] # "waiting"
  /\ Goto(Main(p), "load")
  /\ UNCHANGED <<job, mem, disk, stopping, port, flight, row, helper, hist>>

\* LoadFromFile: a missing or corrupt file is ignored.  A whole file that cannot be
\* read is an error, with which main goes on as if there were no file.
Load(p) ==
  /\ at[Main(p)] = "load"
  /\ \/ mem' = [mem EXCEPT ![p] = file.hits] /\ UNCHANGED unread
     \/ unread' = unread \cup file.hits /\ UNCHANGED mem
  /\ Goto(Main(p), "list")
  /\ UNCHANGED <<job, disk, stopping, port, flight, row, helper, answered, saved, lost>>

\* After startup's pruning the saver is started and main binds the port; every
\* other pruning comes before a save.
Pruned(g) ==
  IF g[2] = "main" /\ g[1] \notin stopping
  THEN at' = [at EXCEPT ![g] = "bind", ![Saver(g[1])] = "idle"]
  ELSE Goto(g, "export")

\* Mutant: a failing query counts as an empty list.
ListBroken(g) ==
  /\ at[g] = "list"
  /\ \E listed \in {keys, {}} : job' = [job EXCEPT ![g].keys = listed]
  /\ Goto(g, "drop")
  /\ UNCHANGED <<mem, disk, stopping, port, flight, row, helper, hist>>

\* The ids of the keys are read, or the query fails and nothing is pruned.
List(g) ==
  /\ at[g] = "list"
  /\ \/ Goto(g, "drop") /\ job' = [job EXCEPT ![g].keys = keys]
     \/ Pruned(g) /\ UNCHANGED job
  /\ UNCHANGED <<mem, disk, stopping, port, flight, row, helper, hist>>

\* Prune with the ids read before.
Prune(g) ==
  LET gone == {h \in mem[g[1]] : KeyOf[h] \notin job[g].keys} IN
  /\ at[g] = "drop"
  /\ mem' = [mem EXCEPT ![g[1]] = @ \ gone]
  /\ job' = [job EXCEPT ![g] = NoJob]
  /\ lost' = lost \cup {h \in gone : KeyOf[h] \in keys}
  /\ Pruned(g)
  /\ UNCHANGED <<disk, stopping, port, flight, row, helper, answered, saved, unread>>

\* Only one process can bind; the other one says so in a message box, while its
\* saver runs.
Bind(p) ==
  /\ at[Main(p)] = "bind"
  /\ IF port = Nobody
     THEN port' = p /\ Goto(Main(p), "serve")
     ELSE Goto(Main(p), "fatal") /\ UNCHANGED port
  /\ UNCHANGED <<job, mem, disk, stopping, flight, row, helper, hist>>
------------------------------------------------------------------------------
(* Saving the windows: SaveToFile *)

Tick(p) ==
  /\ at[Saver(p)] = "idle"
  /\ Goto(Saver(p), "list")
  /\ UNCHANGED <<job, mem, disk, stopping, port, flight, row, helper, hist>>

Saved(g) == Goto(g, IF g[2] = "main" THEN "gone" ELSE "idle")

\* The memory of a process ends with it.
Closed(g) ==
  /\ job' = [job EXCEPT ![g] = NoJob]
  /\ mem' = IF g[2] = "main" THEN [mem EXCEPT ![g[1]] = {}] ELSE mem

\* ExportAll, and the temporary file is opened anew.
Export(g) ==
  /\ at[g] = "export"
  /\ job' = [job EXCEPT ![g].hits = mem[g[1]]]
  /\ tmp' = Torn
  /\ Goto(g, "fill")
  /\ UNCHANGED <<mem, file, stopping, port, flight, row, helper, hist>>

\* It is written whole, or the disk is full and this save is given up.
Fill(g) ==
  /\ at[g] = "fill"
  /\ \/ /\ tmp' = Whole(job[g].hits)
        /\ Goto(g, "rename")
        /\ UNCHANGED <<job, mem, lost>>
     \/ /\ Saved(g)
        /\ lost' = IF g[2] = "main" THEN lost \cup (mem[g[1]] \ file.hits) ELSE lost
        /\ Closed(g)
        /\ UNCHANGED tmp
  /\ UNCHANGED <<file, stopping, port, flight, row, helper, answered, saved, unread>>

Rename(g) ==
  /\ at[g] = "rename"
  /\ IF tmp.state = "missing" THEN UNCHANGED <<disk, saved>>
     ELSE file' = tmp /\ tmp' = Missing /\ saved' = saved \cup job[g].hits
  /\ Saved(g) /\ Closed(g)
  /\ UNCHANGED <<stopping, port, flight, row, helper, answered, lost, unread>>
------------------------------------------------------------------------------
(* Requests *)

\* The shutdown middleware cuts the connection of a request that comes later.
Accept(r) ==
  /\ port # Nobody /\ port \notin stopping
  /\ flight[r] = Nobody /\ r \notin answered
  /\ r \in Relay => KeyOf[r] \in keys
  /\ flight' = [flight EXCEPT ![r] = port]
  /\ UNCHANGED <<at, job, mem, disk, stopping, port, row, helper, hist>>

\* A relay is counted and its handler returns.
Answer(r) ==
  /\ r \in Relay /\ flight[r] # Nobody
  /\ mem' = [mem EXCEPT ![flight[r]] = @ \cup {r}]
  /\ answered' = answered \cup {r}
  /\ flight' = [flight EXCEPT ![r] = Nobody]
  /\ UNCHANGED <<at, job, disk, stopping, port, row, helper, saved, lost, unread>>

\* A request fails or its client goes away.
GiveUp(r) ==
  /\ flight[r] # Nobody
  /\ flight' = [flight EXCEPT ![r] = Nobody]
  /\ UNCHANGED <<at, job, mem, disk, stopping, port, row, helper, hist>>

\* StreamEvents returns when the shutdown signal is given.
StopStream(s) == s \in Stream /\ flight[s] \in stopping /\ GiveUp(s)

CreateKey(k) ==
  /\ \E p \in Proc : Serving(p)
  /\ row[k] = "never" /\ row' = [row EXCEPT ![k] = "here"]
  /\ UNCHANGED <<at, job, mem, disk, stopping, port, flight, helper, hist>>

\* The row, then the windows in memory.
DeleteKey(k) ==
  /\ row[k] = "here" /\ row' = [row EXCEPT ![k] = "deleted"]
  /\ \E p \in Proc : /\ Serving(p)
                     /\ mem' = [mem EXCEPT ![p] = {h \in @ : KeyOf[h] # k}]
  /\ UNCHANGED <<at, job, disk, stopping, port, flight, helper, hist>>
------------------------------------------------------------------------------
(* Shutdown, restart, crash *)

\* Mutant: BeginShutdown is forgotten.
QuitBroken(p) ==
  /\ at[Main(p)] = "serve"
  /\ Goto(Main(p), "join")
  /\ UNCHANGED <<job, mem, disk, stopping, port, flight, row, helper, hist>>

\* The window's message loop returns; BeginShutdown, close(stopPersist).
Quit(p) ==
  /\ at[Main(p)] = "serve"
  /\ stopping' = stopping \cup {p}
  /\ Goto(Main(p), "join")
  /\ UNCHANGED <<job, mem, disk, port, flight, row, helper, hist>>

StopSaver(p) ==
  /\ at[Saver(p)] = "idle" /\ at[Main(p)] = "join"
  /\ Goto(Saver(p), "done")
  /\ UNCHANGED <<job, mem, disk, stopping, port, flight, row, helper, hist>>

\* Mutant: main does not wait for the saver.
JoinBroken(p) ==
  /\ at[Main(p)] = "join"
  /\ port' = Nobody /\ Goto(Main(p), "drain")
  /\ UNCHANGED <<job, mem, disk, stopping, flight, row, helper, hist>>

\* The saver is done, and Server.Shutdown closes the listener.
Join(p) ==
  /\ at[Main(p)] = "join" /\ at[Saver(p)] = "done"
  /\ port' = Nobody /\ Goto(Main(p), "drain")
  /\ UNCHANGED <<job, mem, disk, stopping, flight, row, helper, hist>>

\* Mutant: requests in flight are not waited for.
DrainBroken(p) ==
  /\ at[Main(p)] = "drain"
  /\ Goto(Main(p), "list")
  /\ UNCHANGED <<job, mem, disk, stopping, port, flight, row, helper, hist>>

\* Server.Shutdown returns once nothing is in flight; pruning and saving follow.
Drain(p) ==
  /\ at[Main(p)] = "drain" /\ \A r \in Request : flight[r] # p
  /\ Goto(Main(p), "list")
  /\ UNCHANGED <<job, mem, disk, stopping, port, flight, row, helper, hist>>

\* Restart schedules one helper; the window is then closed.
Restart(p) ==
  /\ at[Main(p)] = "serve" /\ helper[p] = "none"
  /\ helper' = [helper EXCEPT ![p] = "waiting"]
  /\ UNCHANGED <<at, job, mem, disk, stopping, port, flight, row, hist>>

\* Mutant: the helper does not wait for the process to be gone.
RelaunchBroken(p, q) ==
  /\ helper[p] = "waiting" /\ Fresh(q)
  /\ helper' = [helper EXCEPT ![p] = "done"]
  /\ Goto(Main(q), "load")
  /\ UNCHANGED <<job, mem, disk, stopping, port, flight, row, hist>>

\* The helper finds the process gone and starts a new one.
Relaunch(p, q) ==
  /\ helper[p] = "waiting" /\ ~Running(p) /\ Fresh(q)
  /\ helper' = [helper EXCEPT ![p] = "done"]
  /\ Goto(Main(q), "load")
  /\ UNCHANGED <<job, mem, disk, stopping, port, flight, row, hist>>

\* After some 5 minutes the helper gives up.
Abandon(p) ==
  /\ helper[p] = "waiting" /\ Running(p)
  /\ helper' = [helper EXCEPT ![p] = "gaveUp"]
  /\ UNCHANGED <<at, job, mem, disk, stopping, port, flight, row, hist>>

\* The process is killed, or its message box is dismissed.
Crash(p) ==
  /\ Running(p)
  /\ at' = [at EXCEPT ![Main(p)] = "gone", ![Saver(p)] = "done"]
  /\ job' = [job EXCEPT ![Main(p)] = NoJob, ![Saver(p)] = NoJob]
  /\ mem' = [mem EXCEPT ![p] = {}]
  /\ port' = IF port = p THEN Nobody ELSE port
  /\ flight' = [r \in Request |-> IF flight[r] = p THEN Nobody ELSE flight[r]]
  /\ lost' = lost \cup (mem[p] \ file.hits)
  /\ UNCHANGED <<disk, stopping, row, helper, answered, saved, unread>>
------------------------------------------------------------------------------
Step(g) == List(g) \/ Prune(g) \/ Export(g) \/ Fill(g) \/ Rename(g)

Advance(p) ==
  \/ Load(p) \/ Bind(p) \/ StopSaver(p) \/ Join(p) \/ Drain(p)
  \/ \E w \in {"main", "saver"} : Step(<<p, w>>)

Next ==
  \/ \E p \in Proc : Launch(p) \/ Advance(p) \/ Tick(p) \/ Quit(p) \/ Restart(p) \/ Abandon(p) \/ Crash(p)
  \/ \E p, q \in Proc : Relaunch(p, q)
  \/ \E r \in Request : Accept(r) \/ Answer(r) \/ GiveUp(r) \/ StopStream(r)
  \/ \E k \in Key : CreateKey(k) \/ DeleteKey(k)

Spec == Init /\ [][Next]_vars

\* Goroutines go on, a scheduled restart closes the window, a relay in flight
\* ends, an event stream is told to stop, and a helper looks every second.
Fairness ==
  /\ \A p \in Proc :
       /\ WF_vars(Load(p) \/ Bind(p) \/ Join(p) \/ Drain(p) \/ Step(Main(p)))
       /\ SF_vars(StopSaver(p))
       /\ WF_vars(Step(Saver(p)))
       /\ WF_vars(helper[p] = "waiting" /\ Quit(p))
       /\ WF_vars(\E q \in Proc : Relaunch(p, q))
  /\ \A r \in Relay : WF_vars(Answer(r))
  /\ \A s \in Stream : WF_vars(StopStream(s))

FairSpec == Spec /\ Fairness
------------------------------------------------------------------------------
\* Types.
TypeOK ==
  /\ at \in [Goroutine -> MainStep \cup SaverStep]
  /\ \A p \in Proc : at[Main(p)] \in MainStep /\ at[Saver(p)] \in SaverStep
  /\ job \in [Goroutine -> [keys : SUBSET Key, hits : SUBSET Relay]]
  /\ mem \in [Proc -> SUBSET Relay]
  /\ {file, tmp} \subseteq File
  /\ stopping \subseteq Proc /\ port \in Proc \cup {Nobody}
  /\ flight \in [Request -> Proc \cup {Nobody}]
  /\ row \in [Key -> {"never", "here", "deleted"}]
  /\ helper \in [Proc -> {"none", "waiting", "gaveUp", "done"}]
  /\ answered \subseteq Relay /\ saved \subseteq Relay
  /\ lost \subseteq Relay /\ unread \subseteq Relay

\* SaveToFile's promise: a crash at any moment, or a save beside another one,
\* never leaves half a file.
FileWhole == file.state # "torn"

\* main's comment: a crash or a forced kill loses at most the last seconds.  A hit
\* that a save has put in the file stays there as long as its key exists and every
\* process since could read the file.
SavedStays == \A h \in saved \ unread : KeyOf[h] \in keys => h \in file.hits

\* When no process runs, the file has every hit that was counted, but those of
\* deleted keys, those a crash, a full disk or a file that could not be read cost,
\* and those of a key created between the two steps of a pruning: a graceful exit
\* loses nothing.
ExitKeepsAll ==
  (\A p \in Proc : ~Running(p)) =>
    \A h \in answered \ (lost \cup unread) : KeyOf[h] \in keys => h \in file.hits

\* Once its window is closed a process ends: every relay in flight ends, and the
\* event streams, which do not end by themselves, are told to.
ShutdownEnds == \A p \in Proc : at[Main(p)] = "join" ~> ~Running(p)

\* A restart whose helper does not give up brings a process that serves.
RestartReturns ==
  \A p \in Proc :
    helper[p] = "waiting" /\ (\E q \in Proc : at[Main(q)] = "absent")
      ~> \/ helper[p] = "gaveUp"
         \/ helper[p] = "done" /\ \E q \in Proc : q > p /\ at[Main(q)] \in {"serve", "gone"}
================================================================================
