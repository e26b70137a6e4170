------------------------ MODULE SlidingWindowProofs ------------------------
(* Proofs about SlidingWindow, for windows of any length and any clock.    *)
EXTENDS SlidingWindow, TLAPS

-----------------------------------------------------------------------------
(* Arithmetic of the ring.                                                 *)

LEMMA ModWrap == \A x \in 0..2 * N - 1 : x % N = IF x < N THEN x ELSE x - N
BY WindowAssumption

LEMMA DivS ==
  \A e \in Int : (e \div S) \in Int /\ (e \div S) * S <= e /\ e < (e \div S) * S + S
BY WindowAssumption

LEMMA TimesMono == \A m, n \in Int : m <= n => m * S <= n * S
BY WindowAssumption

LEMMA TimesAdd == \A m, n \in Int : (m + n) * S = m * S + n * S /\ m * S \in Int
BY WindowAssumption

(* How many buckets ago bucket i was the head.                             *)
Behind(w, i) == IF i <= w.head THEN w.head - i ELSE w.head - i + N

LEMMA BehindType ==
  ASSUME NEW w \in Window, NEW i \in Index
  PROVE  Behind(w, i) \in 0..N - 1
BY WindowAssumption DEF Behind, Window, Index

(* Rotating empties the oldest buckets and moves the others n further away. *)
LEMMA RotateRing ==
  ASSUME NEW w \in Window, NEW n \in 1..N - 1
  PROVE  /\ Rotate(w, n) \in Window
         /\ \A i \in Index : Behind(w, i) + n < N =>
              /\ Rotate(w, n).ring[i] = w.ring[i]
              /\ Behind(Rotate(w, n), i) = Behind(w, i) + n
         /\ \A i \in Index : Behind(w, i) + n >= N => Rotate(w, n).ring[i] = {}
<1> DEFINE v == Rotate(w, n)
           passed == {(w.head + j) % N : j \in 1..n}
           hd == (w.head + n) % N
           rg == [i \in Index |-> IF i \in passed THEN {} ELSE w.ring[i]]
<1>1. /\ w.head \in 0..N - 1 /\ w.ring \in [Index -> SUBSET Hit] /\ w.stamp \in Stamp
      /\ N \in Nat \ {0} /\ S \in Nat \ {0}
  BY WindowAssumption DEF Window, Index
<1>2. \A j \in 1..n : /\ w.head + j < N => (w.head + j) % N = w.head + j
                      /\ w.head + j >= N => (w.head + j) % N = w.head + j - N
  <2> SUFFICES ASSUME NEW j \in 1..n
               PROVE  /\ w.head + j < N => (w.head + j) % N = w.head + j
                      /\ w.head + j >= N => (w.head + j) % N = w.head + j - N
    OBVIOUS
  <2> DEFINE x == w.head + j
  <2>1. x \in 0..2 * N - 1
    BY <1>1
  <2> HIDE DEF x
  <2>2. x % N = IF x < N THEN x ELSE x - N
    BY <2>1, ModWrap
  <2>3. (x < N => x % N = x) /\ (x >= N => x % N = x - N)
    BY <2>1, <2>2, <1>1
  <2> QED BY <2>3, <1>1, Z3 DEF x
<1>3. /\ w.head + n < N => hd = w.head + n
      /\ w.head + n >= N => hd = w.head + n - N
      /\ hd \in Index
  <2>1. n \in 1..n
    OBVIOUS
  <2>2. /\ w.head + n < N => hd = w.head + n
        /\ w.head + n >= N => hd = w.head + n - N
    BY <1>2, <2>1
  <2> HIDE DEF hd
  <2> QED BY <1>1, <2>2 DEF Index
<1>4. ASSUME NEW i \in Index
      PROVE  i \in passed <=> Behind(w, i) + n >= N
  <2>1. ASSUME i \in passed PROVE Behind(w, i) + n >= N
    <3>1. PICK j \in 1..n : i = (w.head + j) % N
      BY <2>1
    <3>2. (w.head + j < N /\ i = w.head + j) \/ (w.head + j >= N /\ i = w.head + j - N)
      BY <1>1, <1>2, <3>1
    <3> QED BY <1>1, <3>2 DEF Behind, Index
  <2>2. ASSUME Behind(w, i) + n >= N PROVE i \in passed
    <3>1. CASE i <= w.head
      <4> DEFINE j == N - (w.head - i)
      <4>1. j \in 1..n /\ w.head + j >= N /\ w.head + j - N = i
        <5>1. i \in 0..N - 1 /\ w.head - i + n >= N
          BY <2>2, <3>1 DEF Behind, Index
        <5> QED BY <1>1, <3>1, <5>1
      <4> HIDE DEF j
      <4> QED BY <1>2, <4>1
    <3>2. CASE i > w.head
      <4> DEFINE j == i - w.head
      <4>1. j \in 1..n /\ w.head + j < N /\ w.head + j = i
        <5>1. i \in 0..N - 1 /\ w.head - i + N + n >= N
          BY <1>1, <2>2, <3>2 DEF Behind, Index
        <5> QED BY <1>1, <3>2, <5>1
      <4> HIDE DEF j
      <4> QED BY <1>2, <4>1
    <3> QED BY <1>1, <3>1, <3>2 DEF Index
  <2> HIDE DEF passed
  <2> QED BY <2>1, <2>2
<1>5. n * S \in Nat
  BY <1>1
<1>6. Later(w.stamp, n * S) \in Stamp
  <2> DEFINE a == IF w.stamp.mono THEN w.stamp.at + n * S ELSE 0
             b == w.stamp.wall + n * S
  <2>1. a \in Nat /\ b \in Int
    BY <1>1, <1>5 DEF Stamp
  <2>2. Later(w.stamp, n * S) = [w.stamp EXCEPT !.at = a, !.wall = b]
    BY <1>1 DEF Later, Stamp
  <2> HIDE DEF a, b
  <2> QED BY <1>1, <2>1, <2>2 DEF Stamp
<1>7. rg \in [Index -> SUBSET Hit]
  <2> HIDE DEF passed
  <2> QED BY <1>1
<1>8. v = [ring |-> rg, head |-> hd, stamp |-> Later(w.stamp, n * S)]
  BY DEF Rotate
<1>9. v \in Window /\ v.ring = rg /\ v.head = hd
  <2> HIDE DEF rg, hd, v
  <2> QED BY <1>3, <1>6, <1>7, <1>8 DEF Window
<1>10. \A i \in Index : (i \in passed => rg[i] = {}) /\ (i \notin passed => rg[i] = w.ring[i])
  <2> HIDE DEF passed
  <2> QED OBVIOUS
<1> HIDE DEF passed, rg, hd, v
<1>11. ASSUME NEW i \in Index, Behind(w, i) + n < N
       PROVE  v.ring[i] = w.ring[i] /\ Behind(v, i) = Behind(w, i) + n
  <2>0. Behind(w, i) \in 0..N - 1
    BY BehindType
  <2>1. i \notin passed
    BY <1>1, <1>4, <1>11, <2>0
  <2>2. v.ring[i] = w.ring[i]
    BY <1>9, <1>10, <2>1
  <2>3. Behind(v, i) = Behind(w, i) + n
    <3>1. i \in 0..N - 1 /\ v.head = hd /\ hd \in 0..N - 1
      BY <1>3, <1>9 DEF Index
    <3>2. CASE i <= w.head
      BY <1>1, <1>3, <1>11, <3>1, <3>2 DEF Behind
    <3>3. CASE i > w.head
      BY <1>1, <1>3, <1>11, <3>1, <3>3 DEF Behind
    <3> QED BY <1>1, <3>1, <3>2, <3>3
  <2> QED BY <2>2, <2>3
<1>12. ASSUME NEW i \in Index, Behind(w, i) + n >= N PROVE v.ring[i] = {}
  BY <1>4, <1>9, <1>10, <1>12
<1>13. /\ v \in Window
       /\ \A i \in Index : Behind(w, i) + n < N =>
            v.ring[i] = w.ring[i] /\ Behind(v, i) = Behind(w, i) + n
       /\ \A i \in Index : Behind(w, i) + n >= N => v.ring[i] = {}
  BY <1>9, <1>11, <1>12
<1> QED BY <1>13 DEF v

-----------------------------------------------------------------------------
(* How a bucket's place in the ring tells the age of a hit in it.  A ring  *)
(* places the hit at the start of its bucket: Elapsed + Lag ago.  That is  *)
(* off by less than a bucket, and by what the wall clock moved.            *)
Lag(w, i) == Behind(w, i) * S
Age(h) == now - at[h]
Near(x, h) == -back <= x - Age(h) /\ x - Age(h) <= S - 1 + ahead

Fits(w, i, h) ==
  /\ at[h] \in Nat /\ at[h] <= now
  /\ Near(Wall - w.stamp.wall + Lag(w, i), h)
  /\ w.stamp.mono => Near(now - w.stamp.at + Lag(w, i), h)
  /\ Lag(w, i) - Age(h) <= S - 1 + ahead

Drift(w) == Wall - w.stamp.wall - (now - w.stamp.at)
Sound(w) ==
  /\ w.stamp.mono => w.stamp.at <= now /\ -back <= Drift(w) /\ Drift(w) <= ahead
  /\ \A i \in Index : \A h \in w.ring[i] : Fits(w, i, h)

(* A hit the window may have forgotten.                                    *)
Gone(h) == Age(h) + ahead > (N - 1) * S

Held == IF alive THEN HitsOf(win) ELSE HitsOf(file)
Inv ==
  /\ TypeOK
  /\ win # NoWindow => Sound(win)
  /\ file # NoWindow => Sound(file)
  /\ \A h \in Hit \ dropped : at[h] # Never => at[h] <= now /\ (h \in Held \/ Gone(h))

LEMMA LagType ==
  ASSUME NEW w \in Window, NEW i \in Index
  PROVE  Lag(w, i) \in 0..(N - 1) * S
<1>1. Behind(w, i) \in 0..N - 1
  BY BehindType
<1>2. Behind(w, i) * S <= (N - 1) * S /\ 0 * S <= Behind(w, i) * S
  BY <1>1, TimesMono, WindowAssumption
<1> QED BY <1>1, <1>2, WindowAssumption DEF Lag

LEMMA WindowFields ==
  ASSUME NEW w \in Window
  PROVE  /\ w.ring \in [Index -> SUBSET Hit] /\ w.head \in 0..N - 1
         /\ w.stamp.mono \in BOOLEAN /\ w.stamp.at \in Nat /\ w.stamp.wall \in Int
         /\ w # NoWindow
BY NoWindowAssumption DEF Window, Stamp, Index

LEMMA HereType == TypeOK => Here \in Stamp /\ New \in Window
<1> SUFFICES ASSUME TypeOK PROVE Here \in Stamp /\ New \in Window
  OBVIOUS
<1>1. Here \in Stamp
  BY DEF TypeOK, Here, Stamp, Wall
<1>2. Empty \in [Index -> SUBSET Hit] /\ 0 \in Index
  BY WindowAssumption DEF Empty, Index
<1> QED BY <1>1, <1>2 DEF New, Window

LEMMA NewSound ==
  ASSUME TypeOK
  PROVE  Sound(New) /\ Elapsed(New) = 0 /\ HitsOf(New) = {}
<1>1. New.stamp.mono = TRUE /\ New.stamp.at = now /\ New.stamp.wall = Wall
  BY DEF New, Here
<1>2. \A i \in Index : New.ring[i] = {}
  BY DEF New, Empty
<1>3. Elapsed(New) = 0 /\ Drift(New) = 0
  BY <1>1 DEF Elapsed, Drift, TypeOK, Wall
<1>4. New \in Window
  BY HereType
<1> QED BY <1>1, <1>2, <1>3, <1>4, WindowFields DEF Sound, HitsOf, TypeOK

LEMMA NoWindowHits == HitsOf(NoWindow) = {}
BY DEF HitsOf

LEMMA InRing ==
  ASSUME NEW w \in Window, NEW h
  PROVE  h \in HitsOf(w) <=> \E i \in Index : h \in w.ring[i]
BY WindowFields DEF HitsOf

(* Rotation moves the time of the last rotation and the lag in step.       *)
LEMMA RotateSound ==
  ASSUME TypeOK, NEW w \in Window, Sound(w),
         NEW n \in 1..N - 1, n * S <= Elapsed(w), Elapsed(w) < n * S + S
  PROVE  /\ Rotate(w, n) \in Window /\ Sound(Rotate(w, n))
         /\ Elapsed(Rotate(w, n)) \in 0..S - 1
         /\ HitsOf(Rotate(w, n)) \subseteq HitsOf(w)
         /\ \A h \in HitsOf(w) \ HitsOf(Rotate(w, n)) : Gone(h)
<1> DEFINE v == Rotate(w, n)
<1>1. /\ v \in Window
      /\ \A i \in Index : Behind(w, i) + n < N =>
           v.ring[i] = w.ring[i] /\ Behind(v, i) = Behind(w, i) + n
      /\ \A i \in Index : Behind(w, i) + n >= N => v.ring[i] = {}
  BY RotateRing
<1>2. v.stamp = Later(w.stamp, n * S)
  BY DEF Rotate
<1> DEFINE d == n * S
<1>3. d \in Nat /\ S \in Nat \ {0} /\ N \in Nat \ {0} /\ now \in Nat /\ Wall \in Int
      /\ ahead \in Nat /\ back \in Nat
  BY WindowAssumption, TimesAdd DEF TypeOK, Wall
<1>4. /\ v.stamp.mono = w.stamp.mono
      /\ v.stamp.wall = w.stamp.wall + d
      /\ w.stamp.mono => v.stamp.at = w.stamp.at + d
  BY <1>2, <1>3 DEF Later, Window, Stamp
<1> HIDE DEF v, d
<1>5. Elapsed(v) = Elapsed(w) - d /\ Elapsed(w) \in Int
  BY <1>3, <1>4, WindowFields DEF Elapsed
<1>6. Elapsed(v) \in 0..S - 1
  BY <1>3, <1>5 DEF d
<1>7. ASSUME NEW i \in Index, NEW h \in v.ring[i]
      PROVE  h \in w.ring[i] /\ Fits(v, i, h)
  <2>1. Behind(w, i) \in 0..N - 1
    BY BehindType
  <2>2. Behind(w, i) + n < N
    BY <1>1, <1>3, <1>7, <2>1
  <2>3. h \in w.ring[i] /\ Behind(v, i) = Behind(w, i) + n
    BY <1>1, <1>7, <2>2
  <2>4. Lag(v, i) = Lag(w, i) + d
    BY <2>1, <2>3, TimesAdd DEF Lag, d
  <2>5. Lag(w, i) \in Int
    BY LagType, WindowAssumption
  <2>6. Fits(w, i, h) /\ at[h] \in Nat
    BY <2>3 DEF Sound, Fits
  <2>7. Lag(v, i) - Age(h) <= S - 1 + ahead
    <3>1. CASE w.stamp.mono
      <4>1. d <= now - w.stamp.at
        BY <3>1 DEF Elapsed, d
      <4> QED BY <1>3, <2>4, <2>5, <2>6, <3>1, <4>1, WindowFields DEF Fits, Near, Age
    <3>2. CASE ~w.stamp.mono
      <4>1. d <= Wall - w.stamp.wall
        BY <3>2 DEF Elapsed, d
      <4> QED BY <1>3, <2>4, <2>5, <2>6, <4>1, WindowFields DEF Fits, Near, Age
    <3> QED BY <3>1, <3>2
  <2>8. Near(Wall - v.stamp.wall + Lag(v, i), h)
    BY <1>3, <1>4, <2>4, <2>5, <2>6, WindowFields DEF Fits, Near, Age
  <2>9. v.stamp.mono => Near(now - v.stamp.at + Lag(v, i), h)
    BY <1>3, <1>4, <2>4, <2>5, <2>6, WindowFields DEF Fits, Near, Age
  <2> QED BY <2>3, <2>6, <2>7, <2>8, <2>9 DEF Fits
<1>8. Sound(v)
  <2>1. ASSUME v.stamp.mono
        PROVE  v.stamp.at <= now /\ -back <= Drift(v) /\ Drift(v) <= ahead
    <3>1. w.stamp.at + d <= now
      BY <1>3, <1>4, <2>1, WindowFields DEF Elapsed, d
    <3>2. Drift(v) = Drift(w)
      BY <1>3, <1>4, <2>1, WindowFields DEF Drift
    <3> QED BY <1>4, <2>1, <3>1, <3>2 DEF Sound
  <2> QED BY <1>7, <2>1 DEF Sound
<1>9. HitsOf(v) \subseteq HitsOf(w)
  BY <1>1, <1>7, InRing
<1>10. ASSUME NEW h \in HitsOf(w) \ HitsOf(v) PROVE Gone(h)
  <2>1. PICK i \in Index : h \in w.ring[i]
    BY InRing
  <2>2. Behind(w, i) \in 0..N - 1
    BY BehindType
  <2>3. Behind(w, i) + n >= N
    BY <1>1, <1>3, <1>10, <2>1, <2>2, InRing
  <2>4. (N - 1) * S + S <= Lag(w, i) + d
    <3>1. (N - 1) * S + S = N * S /\ N * S <= (Behind(w, i) + n) * S
      BY <1>3, <2>2, <2>3, TimesMono
    <3> QED BY <2>2, <3>1, TimesAdd DEF Lag, d
  <2>5. Lag(w, i) \in Int /\ (N - 1) * S \in Int
    BY <1>3, LagType
  <2>6. Fits(w, i, h) /\ at[h] \in Nat
    BY <2>1 DEF Sound, Fits
  <2> Age(h) \in Int
    BY <1>3, <2>6 DEF Age
  <2>7. d <= Elapsed(w)
    BY DEF d
  <2>8. Elapsed(w) + Lag(w, i) - Age(h) <= S - 1 + ahead
    <3>1. CASE w.stamp.mono
      <4>1. Elapsed(w) = now - w.stamp.at /\ Near(now - w.stamp.at + Lag(w, i), h)
        BY <2>6, <3>1 DEF Elapsed, Fits
      <4> QED BY <1>3, <2>5, <4>1, WindowFields DEF Near
    <3>2. CASE ~w.stamp.mono
      <4>1. Elapsed(w) = Wall - w.stamp.wall /\ Near(Wall - w.stamp.wall + Lag(w, i), h)
        BY <2>6, <3>2 DEF Elapsed, Fits
      <4> QED BY <1>3, <2>5, <4>1, WindowFields DEF Near
    <3> QED BY <3>1, <3>2
  <2> QED BY <1>3, <1>5, <2>4, <2>5, <2>6, <2>7, <2>8 DEF Gone, Age
<1>11. /\ v \in Window /\ Sound(v)
       /\ Elapsed(v) \in 0..S - 1
       /\ HitsOf(v) \subseteq HitsOf(w)
       /\ \A h \in HitsOf(w) \ HitsOf(v) : Gone(h)
  BY <1>1, <1>6, <1>8, <1>9, <1>10
<1> QED BY <1>11 DEF v

(* advance() keeps what it should and forgets nothing young.               *)
LEMMA AdvanceSound ==
  ASSUME TypeOK, NEW w \in Window, Sound(w)
  PROVE  /\ Advance(w) \in Window /\ Sound(Advance(w))
         /\ Elapsed(Advance(w)) \in 0..S - 1
         /\ HitsOf(Advance(w)) \subseteq HitsOf(w)
         /\ \A h \in HitsOf(w) \ HitsOf(Advance(w)) : Gone(h)
<1> DEFINE e == Elapsed(w)
           n == e \div S
<1>1. /\ S \in Nat \ {0} /\ N \in Nat \ {0} /\ now \in Nat /\ Wall \in Int /\ skew \in Int
      /\ ahead \in Nat /\ back \in Nat
  BY WindowAssumption DEF TypeOK, Wall
<1>2. e \in Int
  BY <1>1, WindowFields DEF Elapsed
<1>3. n \in Int /\ n * S <= e /\ e < n * S + S
  BY <1>2, DivS
<1>4. CASE e < 0
  <2> DEFINE v == [w EXCEPT !.stamp = Here]
  <2>1. Advance(w) = v
    <3>1. ~(n >= N) /\ n \notin 1..N - 1
      <4>1. CASE n >= 0
        <5>1. 0 * S <= n * S
          BY <1>3, <4>1, TimesMono
        <5> QED BY <1>1, <1>2, <1>3, <1>4, <5>1
      <4>2. CASE n < 0
        BY <1>1, <1>3, <4>2
      <4> QED BY <1>3, <4>1, <4>2
    <3> QED BY <1>4, <3>1 DEF Advance
  <2>2. v \in Window /\ v.ring = w.ring /\ v.head = w.head /\ v.stamp = Here
    BY HereType DEF Window
  <2>3. v.stamp.mono = TRUE /\ v.stamp.at = now /\ v.stamp.wall = Wall
    BY <2>2 DEF Here
  <2> HIDE DEF v
  <2>4. ASSUME w.stamp.mono PROVE FALSE
    BY <1>1, <1>4, <2>4, WindowFields DEF Sound, Elapsed
  <2>5. ASSUME NEW i \in Index, NEW h \in v.ring[i] PROVE Fits(v, i, h)
    <3>1. Lag(v, i) = Lag(w, i) /\ Lag(w, i) \in Int
      BY <2>2, LagType, WindowAssumption DEF Lag, Behind
    <3>2. Fits(w, i, h) /\ at[h] \in Nat
      BY <2>2, <2>5 DEF Sound, Fits
    <3>3. Wall - w.stamp.wall < 0 /\ w.stamp.wall \in Int
      BY <1>4, <2>4, WindowFields DEF Elapsed
    <3>4. Near(Lag(w, i), h)
      BY <1>1, <3>1, <3>2, <3>3 DEF Fits, Near, Age
    <3> QED BY <1>1, <2>3, <3>1, <3>2, <3>4 DEF Fits, Near, Age
  <2>6. Drift(v) = 0 /\ Elapsed(v) = 0
    BY <1>1, <2>3 DEF Drift, Elapsed
  <2>7. HitsOf(v) = HitsOf(w)
    BY <2>2, WindowFields DEF HitsOf
  <2> QED BY <1>1, <2>1, <2>2, <2>3, <2>5, <2>6, <2>7 DEF Sound
<1>5. CASE e >= 0 /\ n >= N
  <2>1. Advance(w) = New
    <3>1. ~(e < 0)
      BY <1>2, <1>5
    <3>2. ~(n \in 0..N - 1)
      BY <1>1, <1>3, <1>5
    <3> QED BY <1>5, <3>1, <3>2 DEF Advance
  <2>2. /\ New \in Window /\ Sound(New) /\ Elapsed(New) \in 0..S - 1 /\ HitsOf(New) = {}
    BY <1>1, HereType, NewSound
  <2>3. ASSUME NEW h \in HitsOf(w) PROVE Gone(h)
    <3>1. PICK i \in Index : h \in w.ring[i]
      BY InRing
    <3>2. Lag(w, i) \in 0..(N - 1) * S /\ (N - 1) * S + S = N * S /\ (N - 1) * S \in Int
      BY <1>1, LagType
    <3>3. Fits(w, i, h) /\ at[h] \in Nat
      BY <3>1 DEF Sound, Fits
    <3> Age(h) \in Int
      BY <1>1, <3>3 DEF Age
    <3>4. N * S <= e
      <4>1. N * S <= n * S
        BY <1>1, <1>3, <1>5, TimesMono
      <4> QED BY <1>1, <1>2, <1>3, <4>1
    <3>5. e + Lag(w, i) - Age(h) <= S - 1 + ahead
      <4>1. CASE w.stamp.mono
        <5>1. e = now - w.stamp.at /\ Near(now - w.stamp.at + Lag(w, i), h)
          BY <3>3, <4>1 DEF Elapsed, Fits
        <5> QED BY <1>1, <3>2, <5>1, WindowFields DEF Near
      <4>2. CASE ~w.stamp.mono
        <5>1. e = Wall - w.stamp.wall /\ Near(Wall - w.stamp.wall + Lag(w, i), h)
          BY <3>3, <4>2 DEF Elapsed, Fits
        <5> QED BY <1>1, <3>2, <5>1, WindowFields DEF Near
      <4> QED BY <4>1, <4>2
    <3> HIDE DEF e
    <3>6. N * S \in Int
      BY <1>1
    <3> DEFINE full == (N - 1) * S
               all == N * S
    <3> HIDE DEF full, all
    <3>7. full + S = all /\ full \in Int /\ all \in Int /\ all <= e /\ Lag(w, i) >= 0
      BY <3>2, <3>4, <3>6, <1>1 DEF full, all
    <3>8. Age(h) + ahead > full
      BY <1>1, <1>2, <3>2, <3>3, <3>5, <3>7 DEF Age
    <3> QED BY <3>8 DEF Gone, full
  <2> QED BY <2>1, <2>2, <2>3
<1>6. CASE e >= 0 /\ n < N
  <2>1. n \in 0..N - 1
    <3>1. CASE n < 0
      <4> HIDE DEF n
      <4>1. (n + 1) * S = n * S + 1 * S /\ n * S \in Int
        BY <1>3, TimesAdd
      <4>2. n + 1 \in Int /\ n + 1 <= 0
        BY <1>3, <3>1
      <4>3. (n + 1) * S <= 0 * S
        BY <4>2, TimesMono
      <4> HIDE DEF e
      <4> QED BY <1>1, <1>2, <1>3, <1>6, <4>1, <4>3
    <3>2. CASE n >= 0
      BY <1>1, <1>3, <1>6, <3>2
    <3> QED BY <1>3, <3>1, <3>2
  <2>2. ~(e < 0) /\ ~(n >= N)
    BY <1>1, <1>2, <1>3, <1>6
  <2>3. CASE n = 0
    <3>1. Advance(w) = w
      BY <2>2, <2>3 DEF Advance
    <3>2. e \in 0..S - 1
      BY <1>1, <1>2, <1>3, <1>6, <2>3
    <3> QED BY <3>1, <3>2
  <2>4. CASE n # 0
    <3>1. n \in 1..N - 1
      BY <2>1, <2>4, <1>1
    <3>2. Advance(w) = Rotate(w, n)
      BY <2>2, <3>1 DEF Advance
    <3> HIDE DEF n
    <3> QED BY <1>3, <3>1, <3>2, RotateSound
  <2> QED BY <2>3, <2>4
<1> QED BY <1>1, <1>2, <1>3, <1>4, <1>5, <1>6

-----------------------------------------------------------------------------
(* How the other steps of a window keep it sound.                          *)

LEMMA ExportSound ==
  ASSUME TypeOK, NEW w \in Window, Sound(w)
  PROVE  Export(w) \in Window /\ Sound(Export(w)) /\ HitsOf(Export(w)) = HitsOf(w)
<1> DEFINE t == [mono |-> FALSE, at |-> 0, wall |-> w.stamp.wall]
           v == [w EXCEPT !.stamp = t]
<1>1. Export(w) = v
  BY WindowFields DEF Export
<1>2. t \in Stamp
  BY WindowFields DEF Stamp
<1>3. t.mono = FALSE /\ t.wall = w.stamp.wall
  OBVIOUS
<1> HIDE DEF t
<1>4. v \in Window /\ v.ring = w.ring /\ v.head = w.head /\ v.stamp = t
  BY <1>2 DEF Window
<1> HIDE DEF v
<1>5. ASSUME NEW i \in Index, NEW h \in v.ring[i] PROVE Fits(v, i, h)
  <2>1. Lag(v, i) = Lag(w, i)
    BY <1>4 DEF Lag, Behind
  <2>2. Fits(w, i, h)
    BY <1>4, <1>5 DEF Sound
  <2> QED BY <1>3, <1>4, <2>1, <2>2 DEF Fits
<1>6. HitsOf(v) = HitsOf(w)
  BY <1>4, WindowFields DEF HitsOf
<1> QED BY <1>1, <1>3, <1>4, <1>5, <1>6 DEF Sound

LEMMA ImportSound ==
  ASSUME TypeOK, NEW w \in Window, Sound(w)
  PROVE  Import(w) \in Window /\ Sound(Import(w)) /\ HitsOf(Import(w)) = HitsOf(w)
<1>1. CASE w.stamp.wall > Wall
  <2> DEFINE v == [w EXCEPT !.stamp = Here]
  <2>1. Import(w) = v
    BY <1>1, WindowFields DEF Import
  <2>2. v \in Window /\ v.ring = w.ring /\ v.head = w.head /\ v.stamp = Here
    BY HereType DEF Window
  <2>3. v.stamp.mono = TRUE /\ v.stamp.at = now /\ v.stamp.wall = Wall
    BY <2>2 DEF Here
  <2> HIDE DEF v
  <2>4. now \in Nat /\ Wall \in Int /\ ahead \in Nat /\ back \in Nat
    BY DEF TypeOK, Wall
  <2>5. ASSUME NEW i \in Index, NEW h \in v.ring[i] PROVE Fits(v, i, h)
    <3>1. Lag(v, i) = Lag(w, i) /\ Lag(w, i) \in Int
      BY <2>2, LagType, WindowAssumption DEF Lag, Behind
    <3>2. Fits(w, i, h) /\ at[h] \in Nat
      BY <2>2, <2>5 DEF Sound, Fits
    <3>3. Near(Lag(w, i), h)
      BY <1>1, <2>4, <3>1, <3>2, WindowFields DEF Fits, Near, Age
    <3> QED BY <2>3, <2>4, <3>1, <3>2, <3>3 DEF Fits, Near, Age
  <2>6. Drift(v) = 0
    BY <2>3, <2>4 DEF Drift
  <2>7. HitsOf(v) = HitsOf(w)
    BY <2>2, WindowFields DEF HitsOf
  <2> QED BY <2>1, <2>2, <2>3, <2>4, <2>5, <2>6, <2>7 DEF Sound
<1>2. CASE ~(w.stamp.wall > Wall)
  BY <1>2, WindowFields DEF Import
<1> QED BY <1>1, <1>2

(* A window that a step does not touch stays sound while time passes, the  *)
(* wall clock moves and hits not yet recorded are recorded.                *)
LEMMA UntouchedSound ==
  ASSUME TypeOK, TypeOK', NEW w \in Window, Sound(w),
         \A h \in Hit : at[h] # Never => at'[h] = at[h],
         \/ now' = now + 1 /\ UNCHANGED <<skew, ahead, back>>
         \/ UNCHANGED <<now, skew, ahead, back>>
         \/ /\ UNCHANGED now
            /\ \E d \in Int : /\ skew' = skew + d
                              /\ d >= 0 => ahead' = ahead + d /\ back' = back
                              /\ d <= 0 => ahead' = ahead /\ back' = back - d
  PROVE  Sound(w)'
<1> USE DEF TypeOK
<1>1. PICK d \in Int, e \in {0, 1} :
        /\ now' = now + e /\ skew' = skew + d /\ ahead' >= ahead /\ back' >= back
        /\ ahead' >= ahead + d /\ back' >= back - d
  <2>1. CASE now' = now + 1 /\ UNCHANGED <<skew, ahead, back>>
    BY <2>1
  <2>2. CASE UNCHANGED <<now, skew, ahead, back>>
    BY <2>2
  <2>3. CASE /\ UNCHANGED now
             /\ \E d \in Int : /\ skew' = skew + d
                               /\ d >= 0 => ahead' = ahead + d /\ back' = back
                               /\ d <= 0 => ahead' = ahead /\ back' = back - d
    BY <2>3
  <2> QED BY <2>1, <2>2, <2>3
<1>2. \A i \in Index, h \in Hit : Fits(w, i, h) => Fits(w, i, h)'
  <2> SUFFICES ASSUME NEW i \in Index, NEW h \in Hit, Fits(w, i, h) PROVE Fits(w, i, h)'
    OBVIOUS
  <2>1. at[h] \in Nat /\ at'[h] = at[h] /\ Lag(w, i) \in Int
    BY LagType, WindowAssumption DEF Fits, Never
  <2>2. S \in Nat
    BY WindowAssumption
  <2> QED BY <1>1, <2>1, <2>2, WindowFields DEF Fits, Near, Age, Wall
<1>3. w.stamp.mono => w.stamp.at <= now' /\ -back' <= Drift(w)' /\ Drift(w)' <= ahead'
  BY <1>1, WindowFields DEF Sound, Drift, Wall
<1> QED BY <1>2, <1>3, WindowFields DEF Sound

-----------------------------------------------------------------------------
(* The inductive step.                                                     *)

LEMMA InitInv == Init => Inv
<1> SUFFICES ASSUME Init PROVE Inv
  OBVIOUS
<1> QED BY DEF Init, Inv, TypeOK, Never

LEMMA RecordInv == ASSUME Inv, NEW h \in Hit, Record(h) PROVE Inv'
<1> DEFINE o == IF win = NoWindow THEN New ELSE win
<1>1. TypeOK /\ now \in Nat /\ Wall \in Int /\ ahead \in Nat /\ back \in Nat
      /\ S \in Nat \ {0} /\ N \in Nat \ {0}
  BY WindowAssumption DEF Inv, TypeOK, Wall
<1>2. /\ o \in Window /\ Sound(o) /\ (HitsOf(o) = IF win = NoWindow THEN {} ELSE HitsOf(win))
  <2>1. CASE win = NoWindow
    BY <1>1, <2>1, HereType, NewSound
  <2>2. CASE win # NoWindow
    BY <1>1, <2>2 DEF Inv, TypeOK
  <2> QED BY <2>1, <2>2
<1>3. PICK w : w = Advance(o)
  OBVIOUS
<1>4. /\ w \in Window /\ Sound(w) /\ Elapsed(w) \in 0..S - 1
      /\ HitsOf(w) \subseteq HitsOf(o)
      /\ \A x \in HitsOf(o) \ HitsOf(w) : Gone(x)
  <2> HIDE DEF o
  <2> QED BY <1>3, <1>1, <1>2, AdvanceSound
<1> DEFINE rg == [w.ring EXCEPT ![w.head] = @ \cup {h}]
<1>5. PICK v : v = [w EXCEPT !.ring = rg]
  OBVIOUS
<1>6. win' = v
  BY <1>3, <1>5 DEF Record
<1> HIDE DEF o
<1>7. /\ rg \in [Index -> SUBSET Hit] /\ w.head \in Index
      /\ rg[w.head] = w.ring[w.head] \cup {h}
      /\ \A i \in Index : i # w.head => rg[i] = w.ring[i]
  BY <1>4, WindowFields DEF Index
<1> HIDE DEF rg
<1>8. v \in Window /\ v.ring = rg /\ v.head = w.head /\ v.stamp = w.stamp
  BY <1>4, <1>5, <1>7 DEF Window
<1>9. /\ at[h] = Never /\ at' = [at EXCEPT ![h] = now]
      /\ UNCHANGED <<now, skew, alive, file, dropped, ahead, back>>
      /\ alive = TRUE
  BY DEF Record, Inv, TypeOK
<1>10. at'[h] = now /\ \A x \in Hit : x # h => at'[x] = at[x]
  BY <1>1, <1>9 DEF TypeOK
<1>11. TypeOK'
  BY <1>1, <1>6, <1>8, <1>9 DEF TypeOK
<1>12. Sound(w)' /\ (file' # NoWindow => Sound(file)')
  <2>1. \A x \in Hit : at[x] # Never => at'[x] = at[x]
    BY <1>9, <1>10
  <2>2. UNCHANGED <<now, skew, ahead, back>>
    BY <1>9
  <2>3. Sound(w)'
    BY <1>1, <1>4, <1>11, <2>1, <2>2, UntouchedSound
  <2>4. ASSUME file' # NoWindow PROVE Sound(file)'
    <3>1. PICK f : f = file
      OBVIOUS
    <3>2. f \in Window /\ Sound(f) /\ f = file'
      BY <1>1, <1>9, <2>4, <3>1 DEF Inv, TypeOK
    <3>3. Sound(f)'
      BY <1>1, <1>11, <2>1, <2>2, <3>2, UntouchedSound
    <3> QED BY <3>2, <3>3
  <2> QED BY <2>3, <2>4
<1>13. Sound(v)'
  <2>1. ASSUME NEW i \in Index, NEW x \in v.ring[i] PROVE Fits(v, i, x)'
    <3>1. Lag(v, i) = Lag(w, i)
      BY <1>8 DEF Lag, Behind
    <3>2. CASE x \in w.ring[i]
      <4>1. Fits(w, i, x)'
        BY <1>12, <3>2 DEF Sound
      <4> QED BY <1>8, <3>1, <4>1 DEF Fits
    <3>3. CASE x \notin w.ring[i]
      <4>1. i = w.head /\ x = h
        BY <1>7, <1>8, <2>1, <3>3
      <4>2. Lag(w, w.head) = 0
        BY <1>1, <1>4, WindowFields DEF Lag, Behind
      <4>3. Age(x)' = 0 /\ at'[x] = now /\ now' = now
        BY <1>1, <1>9, <1>10, <4>1 DEF Age
      <4>4. /\ w.stamp.mono => now - w.stamp.at \in 0..S - 1
            /\ -back <= Wall - w.stamp.wall /\ Wall - w.stamp.wall <= S - 1 + ahead
        <5>1. CASE w.stamp.mono
          BY <1>1, <1>4, <5>1, WindowFields DEF Elapsed, Sound, Drift
        <5>2. CASE ~w.stamp.mono
          BY <1>1, <1>4, <5>2, WindowFields DEF Elapsed
        <5> QED BY <5>1, <5>2
      <4>5. Wall' = Wall
        BY <1>9 DEF Wall
      <4> QED BY <1>1, <1>8, <1>9, <3>1, <4>1, <4>2, <4>3, <4>4, <4>5, <1>4, WindowFields
              DEF Fits, Near
    <3> QED BY <3>2, <3>3
  <2>2. Drift(v)' = Drift(w)'
    BY <1>8 DEF Drift
  <2> QED BY <1>8, <1>12, <2>1, <2>2 DEF Sound
<1>14. HitsOf(w) \cup {h} \subseteq HitsOf(v)
  BY <1>4, <1>7, <1>8, InRing
<1>15. ASSUME NEW x \in Hit \ dropped', at'[x] # Never
       PROVE  at'[x] <= now' /\ (x \in Held' \/ Gone(x)')
  <2>1. Held' = HitsOf(v)
    BY <1>6, <1>9, <1>8, WindowFields DEF Held
  <2>2. CASE x = h
    BY <1>1, <1>9, <1>10, <1>14, <2>1, <2>2
  <2>3. CASE x # h
    <3>1. at[x] # Never /\ x \in Hit \ dropped
      BY <1>9, <1>10, <1>15, <2>3
    <3>2. at[x] <= now /\ (x \in Held \/ Gone(x))
      BY <3>1 DEF Inv
    <3>3. Gone(x) => Gone(x)'
      BY <1>9, <1>10, <2>3 DEF Gone, Age
    <3>4. x \in Held => x \in HitsOf(v) \/ Gone(x)
      BY <1>2, <1>4, <1>9, <1>14, NoWindowHits DEF Held
    <3> QED BY <1>9, <1>10, <2>1, <2>3, <3>2, <3>3, <3>4
  <2> QED BY <2>2, <2>3
<1> QED BY <1>6, <1>9, <1>11, <1>12, <1>13, <1>15 DEF Inv

LEMMA CountInv == ASSUME Inv, Count PROVE Inv'
<1>1. TypeOK /\ win \in Window /\ Sound(win) /\ alive = TRUE /\ win' = Advance(win)
  BY DEF Count, Inv, TypeOK
<1>2. UNCHANGED <<now, skew, alive, file, at, dropped, ahead, back>>
  BY DEF Count
<1>3. PICK w : w = Advance(win)
  OBVIOUS
<1>4. /\ w \in Window /\ Sound(w) /\ HitsOf(w) \subseteq HitsOf(win)
      /\ \A x \in HitsOf(win) \ HitsOf(w) : Gone(x)
  BY <1>1, <1>3, AdvanceSound
<1>5. win' = w /\ w # NoWindow
  BY <1>1, <1>3, <1>4, WindowFields
<1>6. TypeOK'
  BY <1>1, <1>2, <1>4, <1>5 DEF TypeOK
<1>7. Sound(w)' /\ (file' # NoWindow => Sound(file)')
  <2>1. \A i \in Index : \A x : Fits(w, i, x) => Fits(w, i, x)'
    BY <1>2 DEF Fits, Near, Age, Wall, Lag, Behind
  <2>2. Drift(w)' = Drift(w)
    BY <1>2 DEF Drift, Wall
  <2> QED BY <1>2, <1>4, <2>1, <2>2 DEF Sound, Inv, Fits, Near, Age, Wall, Lag, Behind, Drift
<1>8. ASSUME NEW x \in Hit \ dropped', at'[x] # Never
      PROVE  at'[x] <= now' /\ (x \in Held' \/ Gone(x)')
  <2>1. at[x] <= now /\ (x \in HitsOf(win) \/ Gone(x))
    BY <1>1, <1>2, <1>8 DEF Inv, Held
  <2>2. Gone(x)' = Gone(x)
    BY <1>2 DEF Gone, Age
  <2>3. Held' = HitsOf(w)
    BY <1>1, <1>2, <1>5 DEF Held
  <2> QED BY <1>2, <1>4, <2>1, <2>2, <2>3
<1> QED BY <1>2, <1>5, <1>6, <1>7, <1>8 DEF Inv

LEMMA RemoveInv == ASSUME Inv, Remove PROVE Inv'
<1>1. /\ alive = TRUE /\ win' = NoWindow /\ dropped' = dropped \cup HitsOf(win)
      /\ UNCHANGED <<now, skew, alive, file, at, ahead, back>>
  BY DEF Remove, Inv, TypeOK
<1>2. HitsOf(win) \subseteq Hit
  BY NoWindowHits, WindowFields DEF Inv, TypeOK, HitsOf
<1>3. TypeOK'
  BY <1>1, <1>2 DEF TypeOK, Inv
<1>4. file' # NoWindow => Sound(file)'
  BY <1>1 DEF Inv, Sound, Fits, Near, Age, Wall, Lag, Behind, Drift
<1>5. ASSUME NEW x \in Hit \ dropped', at'[x] # Never
      PROVE  at'[x] <= now' /\ (x \in Held' \/ Gone(x)')
  <2>1. at[x] <= now /\ Gone(x)
    BY <1>1, <1>5 DEF Inv, Held
  <2> QED BY <1>1, <2>1 DEF Gone, Age
<1> QED BY <1>1, <1>3, <1>4, <1>5 DEF Inv

LEMMA SaveInv == ASSUME Inv, Save PROVE Inv'
<1>1. /\ alive = TRUE /\ file' = Export(win)
      /\ UNCHANGED <<now, skew, alive, win, at, dropped, ahead, back>>
  BY DEF Save, Inv, TypeOK
<1>2. PICK f : f = Export(win)
  OBVIOUS
<1>3. f = NoWindow \/ (f \in Window /\ Sound(f))
  BY <1>2, ExportSound DEF Inv, TypeOK, Export
<1>4. TypeOK'
  BY <1>1, <1>2, <1>3 DEF TypeOK, Inv
<1>5. (win' # NoWindow => Sound(win)') /\ (f # NoWindow => Sound(f)')
  BY <1>1, <1>3 DEF Inv, Sound, Fits, Near, Age, Wall, Lag, Behind, Drift
<1>6. ASSUME NEW x \in Hit \ dropped', at'[x] # Never
      PROVE  at'[x] <= now' /\ (x \in Held' \/ Gone(x)')
  <2>1. at[x] <= now /\ (x \in Held \/ Gone(x))
    BY <1>1, <1>6 DEF Inv
  <2> QED BY <1>1, <2>1 DEF Gone, Age, Held
<1> QED BY <1>1, <1>2, <1>4, <1>5, <1>6 DEF Inv

LEMMA StopInv == ASSUME Inv, Stop PROVE Inv'
<1>1. /\ alive = TRUE /\ alive' = FALSE /\ win' = NoWindow
      /\ dropped' = dropped \cup (HitsOf(win) \ HitsOf(file))
      /\ UNCHANGED <<now, skew, file, at, ahead, back>>
  BY DEF Stop, Inv, TypeOK
<1>2. HitsOf(win) \subseteq Hit
  BY NoWindowHits, WindowFields DEF Inv, TypeOK, HitsOf
<1>3. TypeOK'
  BY <1>1, <1>2 DEF TypeOK, Inv
<1>4. file' # NoWindow => Sound(file)'
  BY <1>1 DEF Inv, Sound, Fits, Near, Age, Wall, Lag, Behind, Drift
<1>5. ASSUME NEW x \in Hit \ dropped', at'[x] # Never
      PROVE  at'[x] <= now' /\ (x \in Held' \/ Gone(x)')
  <2>1. at[x] <= now /\ (x \in HitsOf(win) \/ Gone(x))
    BY <1>1, <1>5 DEF Inv, Held
  <2>2. x \in HitsOf(file) \/ Gone(x)
    BY <1>1, <1>5, <2>1
  <2>3. Held' = HitsOf(file)
    BY <1>1 DEF Held, HitsOf
  <2> QED BY <1>1, <2>1, <2>2, <2>3 DEF Gone, Age
<1> QED BY <1>1, <1>3, <1>4, <1>5 DEF Inv

LEMMA StartInv == ASSUME Inv, Start PROVE Inv'
<1>1. /\ alive = FALSE /\ alive' = TRUE /\ win' = Import(file)
      /\ UNCHANGED <<now, skew, file, at, dropped, ahead, back>>
  BY DEF Start, Inv, TypeOK
<1>2. PICK w : w = Import(file)
  OBVIOUS
<1>3. (w = NoWindow \/ (w \in Window /\ Sound(w))) /\ HitsOf(w) = HitsOf(file)
  <2>1. CASE file = NoWindow
    BY <1>2, <2>1 DEF Import
  <2>2. CASE file # NoWindow
    BY <1>2, <2>2, ImportSound DEF Inv, TypeOK
  <2> QED BY <2>1, <2>2
<1>4. TypeOK'
  BY <1>1, <1>2, <1>3 DEF TypeOK, Inv
<1>5. (file' # NoWindow => Sound(file)') /\ (w # NoWindow => Sound(w)')
  BY <1>1, <1>3 DEF Inv, Sound, Fits, Near, Age, Wall, Lag, Behind, Drift
<1>6. ASSUME NEW x \in Hit \ dropped', at'[x] # Never
      PROVE  at'[x] <= now' /\ (x \in Held' \/ Gone(x)')
  <2>1. at[x] <= now /\ (x \in HitsOf(file) \/ Gone(x))
    BY <1>1, <1>6 DEF Inv, Held
  <2>2. Held' = HitsOf(w)
    BY <1>1, <1>2 DEF Held
  <2> QED BY <1>1, <1>3, <2>1, <2>2 DEF Gone, Age
<1> QED BY <1>1, <1>2, <1>4, <1>5, <1>6 DEF Inv

(* Time passes or the wall clock moves; nothing else changes.              *)
LEMMA ClockInv ==
  ASSUME Inv, TypeOK', UNCHANGED <<alive, win, file, at, dropped>>,
         \/ now' = now + 1 /\ UNCHANGED <<skew, ahead, back>>
         \/ /\ UNCHANGED now
            /\ \E d \in Int : /\ skew' = skew + d
                              /\ d >= 0 => ahead' = ahead + d /\ back' = back
                              /\ d <= 0 => ahead' = ahead /\ back' = back - d
  PROVE  Inv'
<1>1. ASSUME NEW w \in Window, Sound(w) PROVE Sound(w)'
  BY <1>1, UntouchedSound DEF Inv
<1>2. (win' # NoWindow => Sound(win)') /\ (file' # NoWindow => Sound(file)')
  <2>1. PICK w, f : w = win /\ f = file
    OBVIOUS
  <2>2. (w # NoWindow => w \in Window /\ Sound(w)) /\ (f # NoWindow => f \in Window /\ Sound(f))
    BY <2>1 DEF Inv, TypeOK
  <2>3. (w # NoWindow => Sound(w)') /\ (f # NoWindow => Sound(f)')
    BY <1>1, <2>2
  <2>4. w = win' /\ f = file'
    BY <2>1
  <2> QED BY <2>3, <2>4
<1>3. ASSUME NEW x \in Hit \ dropped', at'[x] # Never
      PROVE  at'[x] <= now' /\ (x \in Held' \/ Gone(x)')
  <2>1. at[x] <= now /\ (x \in Held \/ Gone(x)) /\ at[x] \in Nat /\ at' = at
    BY <1>3 DEF Inv, TypeOK
  <2>2. now' >= now /\ ahead' >= ahead /\ now' \in Nat /\ now \in Nat
        /\ ahead \in Nat /\ ahead' \in Nat
    BY DEF Inv, TypeOK
  <2>3. Held' = Held
    BY DEF Held, HitsOf
  <2>4. Gone(x) => Gone(x)'
    BY <2>1, <2>2, WindowAssumption DEF Gone, Age
  <2> QED BY <2>1, <2>2, <2>3, <2>4
<1> QED BY <1>2, <1>3 DEF Inv

LEMMA StepInv == Inv /\ [Next]_vars => Inv'
<1> SUFFICES ASSUME Inv, [Next]_vars PROVE Inv'
  OBVIOUS
<1>1. CASE \E h \in Hit : Record(h)
  BY <1>1, RecordInv
<1>2. CASE Count
  BY <1>2, CountInv
<1>3. CASE Remove
  BY <1>3, RemoveInv
<1>4. CASE Save
  BY <1>4, SaveInv
<1>5. CASE Stop
  BY <1>5, StopInv
<1>6. CASE Start
  BY <1>6, StartInv
<1>7. CASE Tick
  <2>1. /\ now' = now + 1
        /\ UNCHANGED <<skew, alive, win, file, at, dropped, ahead, back>>
    BY <1>7 DEF Tick
  <2>2. TypeOK'
    BY <2>1 DEF Inv, TypeOK
  <2> QED BY <2>1, <2>2, ClockInv
<1>8. CASE ClockMoves
  <2>1. PICK d \in -MaxMove..MaxMove :
          /\ skew' = skew + d
          /\ ahead' = IF d > 0 THEN ahead + d ELSE ahead
          /\ back' = IF d < 0 THEN back - d ELSE back
          /\ UNCHANGED <<now, alive, win, file, at, dropped>>
    BY <1>8 DEF ClockMoves
  <2>2. d \in Int
    BY <2>1, BoundAssumption
  <2>3. ahead \in Nat /\ back \in Nat
    BY DEF Inv, TypeOK
  <2>4. (d >= 0 => ahead' = ahead + d /\ back' = back)
        /\ (d <= 0 => ahead' = ahead /\ back' = back - d)
    BY <2>1, <2>2, <2>3
  <2>5. TypeOK'
    BY <2>1, <2>2, <2>4 DEF Inv, TypeOK
  <2> QED BY <2>1, <2>2, <2>4, <2>5, ClockInv
<1>9. CASE UNCHANGED vars
  BY <1>9 DEF vars, Inv, TypeOK, Sound, Fits, Near, Age, Wall, Lag, Behind, Drift, Held, HitsOf, Gone
<1> QED BY <1>1, <1>2, <1>3, <1>4, <1>5, <1>6, <1>7, <1>8, <1>9 DEF Next

-----------------------------------------------------------------------------
(* What the invariant means for what Count sums.                           *)

LEMMA InvCounts == Inv => CountsYoung
<1> SUFFICES ASSUME Inv, alive, NEW h \in Hit \ dropped, at[h] # Never,
                    now - at[h] + ahead <= (N - 1) * S
             PROVE  h \in Counted
  BY DEF CountsYoung
<1>1. h \in HitsOf(win)
  <2>1. h \in Held \/ Gone(h)
    BY DEF Inv
  <2>2. ~Gone(h)
    <3>1. at[h] \in Nat /\ now \in Nat /\ ahead \in Nat /\ (N - 1) * S \in Int
      BY WindowAssumption DEF Inv, TypeOK
    <3> QED BY <3>1 DEF Gone, Age
  <2> QED BY <2>1, <2>2 DEF Held
<1>2. win # NoWindow /\ win \in Window /\ Sound(win)
  BY <1>1, NoWindowHits DEF Inv, TypeOK
<1>3. h \in HitsOf(Advance(win)) \/ Gone(h)
  BY <1>1, <1>2, AdvanceSound DEF Inv
<1>4. ~Gone(h)
  <2>1. at[h] \in Nat /\ now \in Nat /\ ahead \in Nat /\ (N - 1) * S \in Int
    BY WindowAssumption DEF Inv, TypeOK
  <2> QED BY <2>1 DEF Gone, Age
<1> QED BY <1>2, <1>3, <1>4 DEF Counted

LEMMA InvForgets == Inv => ForgetsOld
<1> SUFFICES ASSUME Inv, NEW h \in Counted
             PROVE  at[h] # Never /\ now - at[h] < N * S + back
  BY DEF ForgetsOld
<1>1. win # NoWindow /\ win \in Window /\ Sound(win) /\ h \in HitsOf(Advance(win))
  BY DEF Counted, Inv, TypeOK
<1>2. PICK w : w = Advance(win)
  OBVIOUS
<1>3. w \in Window /\ Sound(w) /\ Elapsed(w) \in 0..S - 1
  BY <1>1, <1>2, AdvanceSound DEF Inv
<1>4. PICK i \in Index : h \in w.ring[i]
  BY <1>1, <1>2, <1>3, InRing
<1>5. Fits(w, i, h) /\ at[h] \in Nat /\ at[h] # Never
  BY <1>3, <1>4 DEF Sound, Fits, Never
<1>6. /\ Lag(w, i) <= (N - 1) * S /\ Lag(w, i) \in Int
      /\ (N - 1) * S \in Int /\ N * S \in Int /\ (N - 1) * S + S = N * S
  <2>1. (N - 1) * S \in Int /\ N * S \in Int /\ (N - 1) * S + S = N * S
    BY WindowAssumption
  <2>2. Lag(w, i) \in 0..(N - 1) * S
    BY <1>3, LagType
  <2> DEFINE full == (N - 1) * S
  <2> HIDE DEF full
  <2>3. Lag(w, i) <= full /\ Lag(w, i) \in Int
    BY <2>1, <2>2 DEF full
  <2> QED BY <2>1, <2>3 DEF full
<1>7. now \in Nat /\ back \in Nat /\ ahead \in Nat /\ Wall \in Int /\ S \in Nat
  BY WindowAssumption DEF Inv, TypeOK, Wall
<1>8. -back <= Elapsed(w) + Lag(w, i) - Age(h)
  <2>1. CASE w.stamp.mono
    <3>1. Elapsed(w) = now - w.stamp.at /\ Near(now - w.stamp.at + Lag(w, i), h)
      BY <1>5, <2>1 DEF Elapsed, Fits
    <3> QED BY <1>3, <1>5, <1>6, <1>7, <3>1, WindowFields DEF Near, Age
  <2>2. CASE ~w.stamp.mono
    <3>1. Elapsed(w) = Wall - w.stamp.wall /\ Near(Wall - w.stamp.wall + Lag(w, i), h)
      BY <1>5, <2>2 DEF Elapsed, Fits
    <3> QED BY <1>3, <1>5, <1>6, <1>7, <3>1, WindowFields DEF Near, Age
  <2> QED BY <2>1, <2>2
<1> QED BY <1>3, <1>5, <1>6, <1>7, <1>8 DEF Age

-----------------------------------------------------------------------------
(* Type correctness of the ring, its stamps and the history, for windows   *)
(* of any length (advance, importState).                                   *)
THEOREM WindowTypeCorrect == Spec => []TypeOK
<1>1. Inv => TypeOK
  BY DEF Inv
<1> QED BY <1>1, InitInv, StepInv, PTL DEF Spec

(* However often the process restarts and the clock moves, a hit counts    *)
(* against the limit for N - 1 buckets, less what the clock moved ahead.   *)
THEOREM LimitEnforced == Spec => []CountsYoung
BY InitInv, StepInv, InvCounts, PTL DEF Spec

(* And no hit counts longer than N buckets and what the clock moved back.  *)
THEOREM LimitReleased == Spec => []ForgetsOld
BY InitInv, StepInv, InvForgets, PTL DEF Spec
=============================================================================
