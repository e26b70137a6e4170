--------------------------- MODULE SlidingWindow ---------------------------
(***************************************************************************)
(* One rate window of one key (window/window.go): a ring of N buckets, S   *)
(* ticks each, and the time of its last rotation -- a Go time, which       *)
(* carries a monotonic reading until it has been through windows.json.     *)
(*                                                                         *)
(* `now` is monotonic time, which stands still while the machine sleeps;   *)
(* `skew` is how far the wall clock has moved against it, by sleep, by a   *)
(* time server or by hand.  The request, token and cost buckets rotate     *)
(* alike, so one ring of sets of recorded hits stands for the three.       *)
(***************************************************************************)
EXTENDS Integers

CONSTANTS
  N, S,             \* buckets of a window, ticks of a bucket
  Hit,              \* requests that get recorded
  NoWindow,         \* no window for the key
  MaxTime, MaxMove  \* bounds: ticks, and how far the wall clock moves in all

ASSUME WindowAssumption == N \in Nat \ {0} /\ S \in Nat \ {0}
ASSUME BoundAssumption == MaxTime \in Nat /\ MaxMove \in Nat

VARIABLES
  now, skew,
  alive,  \* the process runs
  win,    \* the window in memory; none until its first hit
  file,   \* the window in windows.json
  \* History, read by no action: when each hit was recorded, the hits a crash
  \* or an admin dropped, how far the wall clock has moved ahead and back.
  at, dropped, ahead, back

vars == <<now, skew, alive, win, file, at, dropped, ahead, back>>

Index == 0..N - 1
Never == -1
Wall == now + skew
Stamp == [mono : BOOLEAN, at : Nat, wall : Int]
Window == [ring : [Index -> SUBSET Hit], head : Index, stamp : Stamp]
ASSUME NoWindowAssumption == NoWindow \notin Window

Here == [mono |-> TRUE, at |-> now, wall |-> Wall]
Empty == [i \in Index |-> {}]
(* NewSlidingWindow                                                        *)
New == [ring |-> Empty, head |-> 0, stamp |-> Here]
HitsOf(w) == IF w = NoWindow THEN {} ELSE UNION {w.ring[i] : i \in Index}

(* time.Now().Sub(lastCleanup): the monotonic readings if both have one.   *)
Elapsed(w) == IF w.stamp.mono THEN now - w.stamp.at ELSE Wall - w.stamp.wall

(* lastCleanup.Add moves both readings.                                    *)
Later(t, d) == [t EXCEPT !.at = IF t.mono THEN @ + d ELSE 0, !.wall = @ + d]

(* Definitions named ..Broken are plausible slips; no other definition uses *)
(* them.  They show that the properties would notice.                      *)
Rotate(w, n) ==
  LET passed == {(w.head + j) % N : j \in 1..n} IN
  [ring |-> [i \in Index |-> IF i \in passed THEN {} ELSE w.ring[i]],
   head |-> (w.head + n) % N,
   stamp |-> Later(w.stamp, n * S)]

(* advance()                                                               *)
AdvanceBroken(w) ==
  LET n == Elapsed(w) \div S IN
  CASE Elapsed(w) < 0 -> [w EXCEPT !.stamp = Here]
    [] n >= N -> [w EXCEPT !.ring = Empty, !.head = 0]
    [] n \in 1..N - 1 -> Rotate(w, n)
    [] OTHER -> w
Advance(w) ==
  LET n == Elapsed(w) \div S IN
  CASE Elapsed(w) < 0 -> [w EXCEPT !.stamp = Here]
    [] n >= N -> New
    [] n \in 1..N - 1 -> Rotate(w, n)
    [] OTHER -> w

-----------------------------------------------------------------------------
Init ==
  /\ now = 0 /\ skew = 0 /\ alive = TRUE
  /\ win = NoWindow /\ file = NoWindow
  /\ at = [h \in Hit |-> Never]
  /\ dropped = {} /\ ahead = 0 /\ back = 0

(* IncrementAllWithCost: the window is created by its first hit.           *)
Record(h) ==
  LET w == Advance(IF win = NoWindow THEN New ELSE win) IN
  /\ alive /\ at[h] = Never
  /\ win' = [w EXCEPT !.ring[w.head] = @ \cup {h}]
  /\ at' = [at EXCEPT ![h] = now]
  /\ UNCHANGED <<now, skew, alive, file, dropped, ahead, back>>

(* Count, TokenCount and CostCount rotate before they sum.                 *)
Count ==
  /\ alive /\ win # NoWindow
  /\ win' = Advance(win)
  /\ UNCHANGED <<now, skew, alive, file, at, dropped, ahead, back>>

(* Remove: the key was deleted.                                            *)
Remove ==
  /\ alive /\ win # NoWindow
  /\ win' = NoWindow
  /\ dropped' = dropped \cup HitsOf(win)
  /\ UNCHANGED <<now, skew, alive, file, at, ahead, back>>

(* exportState writes the wall reading only, and does not rotate.          *)
Export(w) == IF w = NoWindow THEN NoWindow
             ELSE [w EXCEPT !.stamp = [mono |-> FALSE, at |-> 0, wall |-> @.wall]]
Save ==
  /\ alive
  /\ file' = Export(win)
  /\ UNCHANGED <<now, skew, alive, win, at, dropped, ahead, back>>

(* The process ends, with or without a last Save.                          *)
Stop ==
  /\ alive
  /\ alive' = FALSE /\ win' = NoWindow
  /\ dropped' = dropped \cup (HitsOf(win) \ HitsOf(file))
  /\ UNCHANGED <<now, skew, file, at, ahead, back>>

(* importState: a time of rotation that lies in the future becomes now.    *)
ImportBroken(f) == IF f = NoWindow THEN NoWindow ELSE [f EXCEPT !.stamp = Here]
Import(f) ==
  IF f = NoWindow THEN NoWindow
  ELSE IF f.stamp.wall > Wall THEN [f EXCEPT !.stamp = Here] ELSE f
Start ==
  /\ ~alive
  /\ alive' = TRUE /\ win' = Import(file)
  /\ UNCHANGED <<now, skew, file, at, dropped, ahead, back>>

Tick ==
  /\ now < MaxTime
  /\ now' = now + 1
  /\ UNCHANGED <<skew, alive, win, file, at, dropped, ahead, back>>

(* The clock is set, or the machine sleeps.                                *)
ClockMoves ==
  \E d \in -MaxMove..MaxMove :
    /\ d # 0 /\ ahead + back + (IF d > 0 THEN d ELSE -d) <= MaxMove
    /\ skew' = skew + d
    /\ ahead' = IF d > 0 THEN ahead + d ELSE ahead
    /\ back' = IF d < 0 THEN back - d ELSE back
    /\ UNCHANGED <<now, alive, win, file, at, dropped>>

Next ==
  \/ \E h \in Hit : Record(h)
  \/ Count \/ Remove \/ Save \/ Stop \/ Start \/ Tick \/ ClockMoves

Spec == Init /\ [][Next]_vars

-----------------------------------------------------------------------------
(* Properties.                                                             *)

TypeOK ==
  /\ now \in Nat /\ skew \in Int /\ alive \in BOOLEAN
  /\ win \in Window \cup {NoWindow} /\ file \in Window \cup {NoWindow}
  /\ at \in [Hit -> Nat \cup {Never}]
  /\ dropped \subseteq Hit
  /\ ahead \in Nat /\ back \in Nat

(* What Count would sum now.                                               *)
Counted == IF win = NoWindow THEN {} ELSE HitsOf(Advance(win))

(* A limit is enforced: a hit counts for at least N - 1 buckets, across    *)
(* restarts too, less only what the wall clock has ever moved ahead.       *)
CountsYoung ==
  alive => \A h \in Hit \ dropped :
    at[h] # Never /\ now - at[h] + ahead <= (N - 1) * S => h \in Counted

(* A limit is released: after N buckets a hit no longer counts, however    *)
(* the process was restarted, but for what the wall clock moved back.      *)
ForgetsOld ==
  \A h \in Counted : at[h] # Never /\ now - at[h] < N * S + back
=============================================================================
