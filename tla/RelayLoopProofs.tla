-------------------------- MODULE RelayLoopProofs --------------------------
(* Proofs about RelayLoop, for any requests, keys, routes and answers.     *)
EXTENDS RelayLoop, TLAPS, FiniteSetTheorems, WellFoundedInduction

-----------------------------------------------------------------------------
(* Selection.                                                              *)

(* Every non-empty set of routes has a first tier.                         *)
LEMMA TierNonEmpty ==
  ASSUME NEW S \in SUBSET Route, S # {}
  PROVE  Tier(S) # {} /\ Tier(S) \subseteq S
<1> DEFINE P == {Priority[x] : x \in S}
<1>0. Priority \in [Route -> Nat]
  BY TopologyAssumption DEF TopologyAssumption
<1>1. P \subseteq Nat /\ P # {}
  <2>1. \A x \in S : Priority[x] \in Nat
    BY <1>0
  <2> QED BY <2>1
<1>2. PICK p \in P : \A q \in P : ~ (<<q, p>> \in OpToRel(<, Nat))
  BY <1>1, NatLessThanWellFounded, WFMin
<1>3. PICK x \in S : Priority[x] = p
  BY <1>2
<1>4. \A y \in S : Priority[x] <= Priority[y]
  <2> TAKE y \in S
  <2>1. Priority[y] \in P /\ Priority[x] \in Nat /\ Priority[y] \in Nat
    BY TopologyAssumption DEF TopologyAssumption
  <2>2. ~ (Priority[y] < Priority[x])
    BY <1>2, <1>3, <2>1 DEF OpToRel
  <2> QED BY <2>1, <2>2
<1> QED BY <1>3, <1>4 DEF Tier

(* The keys SelectKey may return belong to the route and are usable.       *)
LEMMA SelectSound ==
  ASSUME NEW view, NEW x, NEW k \in SelectKey(view, x)
  PROVE  k \in KeysOf[x] /\ Usable(view, k)
BY DEF SelectKey, Least

(* Entering a tier touches the request's own scan only, starts at the      *)
(* first of at least one route and keeps the key objects it reads.         *)
LEMMA EnterTierSound ==
  ASSUME scan \in [Request -> ScanSpace], NEW r \in Request,
         NEW S \in SUBSET Route, S # {}, EnterTier(r, S)
  PROVE  /\ scan' \in [Request -> ScanSpace]
         /\ scan'[r].pos = 1 /\ 1 <= Len(scan'[r].order)
         /\ scan'[r].fresh = scan[r].fresh /\ scan'[r].frozen = scan[r].frozen
         /\ \A q \in Request \ {r} : scan'[q] = scan[q]
<1>1. IsFiniteSet(Tier(S)) /\ Tier(S) # {} /\ Tier(S) \subseteq Route
  BY TierNonEmpty, FS_Subset, TopologyAssumption DEF TopologyAssumption
<1>2. Cardinality(Tier(S)) \in Nat /\ Cardinality(Tier(S)) # 0
  BY <1>1, FS_CardinalityType, FS_EmptySet
<1>3. PICK o \in Orders(Tier(S)) :
        scan' = [scan EXCEPT ![r] = [@ EXCEPT !.rest = S \ Tier(S), !.order = o,
                                              !.pos = 1, !.pass = 1, !.hot = FALSE]]
  BY DEF EnterTier
<1>4. o \in Seq(Route) /\ Len(o) = Cardinality(Tier(S))
  BY <1>1, <1>2, <1>3 DEF Orders
<1>5. scan[r] \in ScanSpace /\ S \ Tier(S) \in SUBSET Route
  OBVIOUS
<1> DEFINE new == [scan[r] EXCEPT !.rest = S \ Tier(S), !.order = o,
                                  !.pos = 1, !.pass = 1, !.hot = FALSE]
<1>6. /\ new \in ScanSpace
      /\ new.pos = 1 /\ new.order = o
      /\ new.fresh = scan[r].fresh /\ new.frozen = scan[r].frozen
  <2>1. 1 \in Nat \ {0} /\ 1 \in 1..2 /\ FALSE \in BOOLEAN
    OBVIOUS
  <2>2. new \in ScanSpace
    BY <1>4, <1>5, <2>1, Zenon DEF ScanSpace
  <2> QED BY <1>5, <2>2 DEF ScanSpace
<1>7. scan' = [scan EXCEPT ![r] = new]
  BY <1>3
<1> HIDE DEF new
<1> QED BY <1>2, <1>4, <1>6, <1>7

-----------------------------------------------------------------------------
(* Types.                                                                  *)

(* TypeOK without the history of the running selection.                    *)
CodeTypes ==
  /\ routes \subseteq Route /\ up \subseteq Key
  /\ usage \in [Key -> Nat] /\ empties \in [Key -> 0..EmptyThreshold]
  /\ pc \in [Request -> Place]
  /\ job \in [Request -> JobSpace]
  /\ scan \in [Request -> ScanSpace]
  /\ trace \in [Request -> [contacts : Nat, met : Int, burned : SUBSET Key]]
  /\ \A r \in Request :
       /\ pc[r] \in Holding => job[r].route \in Route /\ Mine(r) \in KeysOf[job[r].route]
       /\ pc[r] = "scan" => scan[r].pos <= Len(scan[r].order)

LEMMA KeysOfType == \A x \in Route : KeysOf[x] \subseteq Key
BY TopologyAssumption DEF TopologyAssumption

LEMMA Frame ==
  ASSUME CodeTypes, NEW r \in Request,
         routes' \subseteq Route, up' \subseteq Key,
         usage' \in [Key -> Nat], empties' \in [Key -> 0..EmptyThreshold],
         pc' \in [Request -> Place], job' \in [Request -> JobSpace],
         scan' \in [Request -> ScanSpace],
         trace' \in [Request -> [contacts : Nat, met : Int, burned : SUBSET Key]],
         \A q \in Request \ {r} : pc'[q] = pc[q] /\ job'[q] = job[q] /\ scan'[q] = scan[q],
         pc'[r] \in Holding => job'[r].route \in Route /\ job'[r].key \in KeysOf[job'[r].route],
         pc'[r] = "scan" => scan'[r].pos <= Len(scan'[r].order)
  PROVE  CodeTypes'
<1>1. ASSUME NEW q \in Request
      PROVE  /\ pc'[q] \in Holding => job'[q].route \in Route /\ job'[q].key \in KeysOf[job'[q].route]
             /\ pc'[q] = "scan" => scan'[q].pos <= Len(scan'[q].order)
  <2>1. CASE q = r
    BY <2>1
  <2>2. CASE q # r
    BY <2>2 DEF CodeTypes, Mine
  <2> QED BY <2>1, <2>2
<1> QED BY <1>1 DEF CodeTypes, Mine

(* What the edits of a request's locals leave alone.                       *)
Kept(r) == /\ job'[r].kind = job[r].kind /\ job'[r].retries = job[r].retries
           /\ \A q \in Request \ {r} : job'[q] = job[q]

LEMMA GotoTypes ==
  ASSUME pc \in [Request -> Place], NEW r \in Request, NEW to \in Place, Goto(r, to)
  PROVE  /\ pc' \in [Request -> Place] /\ pc'[r] = to
         /\ \A q \in Request \ {r} : pc'[q] = pc[q]
BY DEF Goto

LEMMA AnswerTypes ==
  ASSUME pc \in [Request -> Place], job \in [Request -> JobSpace],
         NEW r \in Request, NEW a \in Answers, Answer(r, a)
  PROVE  /\ pc' \in [Request -> Place] /\ pc'[r] = "done"
         /\ \A q \in Request \ {r} : pc'[q] = pc[q]
         /\ job' \in [Request -> JobSpace] /\ Kept(r)
         /\ job'[r].attempt = job[r].attempt /\ job'[r].last = job[r].last
         /\ job'[r].answer = a
<1> DEFINE j == [job[r] EXCEPT !.answer = a, !.route = NoRoute, !.key = NoKey]
<1>1. job[r] \in JobSpace
  OBVIOUS
<1>2. j \in JobSpace
  BY <1>1, Zenon DEF JobSpace
<1>3. /\ j.kind = job[r].kind /\ j.retries = job[r].retries
      /\ j.attempt = job[r].attempt /\ j.last = job[r].last /\ j.answer = a
  BY <1>1 DEF JobSpace
<1>4. job' = [job EXCEPT ![r] = j] /\ pc' = [pc EXCEPT ![r] = "done"]
  BY DEF Answer, Goto
<1>5. "done" \in Place
  BY DEF Place
<1> HIDE DEF j
<1> QED BY <1>2, <1>3, <1>4, <1>5 DEF Kept

LEMMA SpendAttemptTypes ==
  ASSUME pc \in [Request -> Place], job \in [Request -> JobSpace],
         NEW r \in Request, NEW status \in Int, SpendAttempt(r, status)
  PROVE  /\ pc' \in [Request -> Place] /\ pc'[r] = "select"
         /\ \A q \in Request \ {r} : pc'[q] = pc[q]
         /\ job' \in [Request -> JobSpace] /\ Kept(r)
         /\ job'[r].attempt = job[r].attempt + 1 /\ job'[r].last = status
         /\ job'[r].answer = job[r].answer
<1> DEFINE j == [job[r] EXCEPT !.attempt = job[r].attempt + 1, !.last = status, !.route = NoRoute, !.key = NoKey]
<1>1. job[r] \in JobSpace /\ job[r].attempt + 1 \in Nat
  BY DEF JobSpace
<1>2. j \in JobSpace
  BY <1>1, Zenon DEF JobSpace
<1>3. /\ j.kind = job[r].kind /\ j.retries = job[r].retries
      /\ j.attempt = job[r].attempt + 1 /\ j.last = status /\ j.answer = job[r].answer
  BY <1>1 DEF JobSpace
<1>4. job' = [job EXCEPT ![r] = j] /\ pc' = [pc EXCEPT ![r] = "select"]
  BY DEF SpendAttempt, Goto
<1>5. "select" \in Place
  BY DEF Place
<1> HIDE DEF j
<1> QED BY <1>2, <1>3, <1>4, <1>5 DEF Kept

TraceTypes == trace \in [Request -> [contacts : Nat, met : Int, burned : SUBSET Key]]
OthersTrace(r) == \A q \in Request \ {r} : trace'[q] = trace[q]

(* A blamed key leaves the rotation and joins the keys seen failing.       *)
LEMMA BlameKeyTypes ==
  ASSUME CodeTypes, NEW r \in Request, NEW status \in Int, BlameKey(r, status),
         Mine(r) \in Key
  PROVE  /\ SpendAttempt(r, status)
         /\ up' = up \ {Mine(r)}
         /\ TraceTypes' /\ OthersTrace(r)
         /\ trace'[r].burned = trace[r].burned \cup {Mine(r)}
         /\ trace'[r].met = status /\ trace'[r].contacts = trace[r].contacts
<1> DEFINE t == [trace[r] EXCEPT !.met = status, !.burned = trace[r].burned \cup {Mine(r)}]
<1>1. trace[r] \in [contacts : Nat, met : Int, burned : SUBSET Key]
  BY DEF CodeTypes
<1>2. /\ t \in [contacts : Nat, met : Int, burned : SUBSET Key]
      /\ t.burned = trace[r].burned \cup {Mine(r)} /\ t.met = status
      /\ t.contacts = trace[r].contacts
  BY <1>1
<1>3. trace' = [trace EXCEPT ![r] = t]
  BY DEF BlameKey
<1> HIDE DEF t
<1> QED BY <1>2, <1>3 DEF BlameKey, TraceTypes, OthersTrace, CodeTypes

(* A success observation may re-admit the key, for every request alike.    *)
LEMMA ObserveSuccessTypes ==
  ASSUME CodeTypes, NEW k \in Key, ObserveSuccess(k)
  PROVE  /\ empties' \in [Key -> 0..EmptyThreshold]
         /\ up' \subseteq Key /\ TraceTypes'
         /\ up' \subseteq up \cup {k}
         /\ \A q \in Request : /\ trace'[q].contacts = trace[q].contacts
                               /\ trace'[q].met = trace[q].met
                               /\ trace'[q].burned \subseteq trace[q].burned
                               /\ up' # up => k \notin trace'[q].burned
<1>1. empties' \in [Key -> 0..EmptyThreshold]
  BY SettingAssumption DEF ObserveSuccess, CodeTypes, SettingAssumption
<1>2. CASE UNCHANGED <<up, trace>>
  BY <1>1, <1>2 DEF CodeTypes, TraceTypes
<1>3. CASE /\ up' = up \cup {k}
           /\ trace' = [r \in Request |-> [trace[r] EXCEPT !.burned = @ \ {k}]]
  <2>1. ASSUME NEW q \in Request
        PROVE  /\ trace'[q] \in [contacts : Nat, met : Int, burned : SUBSET Key]
               /\ trace'[q].contacts = trace[q].contacts /\ trace'[q].met = trace[q].met
               /\ trace'[q].burned = trace[q].burned \ {k}
    BY <1>3 DEF CodeTypes
  <2> QED BY <1>1, <1>3, <2>1 DEF CodeTypes, TraceTypes
<1> QED BY <1>2, <1>3 DEF ObserveSuccess

LEMMA RecordEmptyTypes ==
  ASSUME CodeTypes, NEW r \in Request, RecordEmpty(r), Mine(r) \in Key
  PROVE  /\ empties' \in [Key -> 0..EmptyThreshold]
         /\ up' \subseteq up /\ TraceTypes' /\ OthersTrace(r)
         /\ trace'[r].contacts = trace[r].contacts /\ trace'[r].met = 200
         /\ trace'[r].burned \ {Mine(r)} \subseteq trace[r].burned
         /\ Mine(r) \in up' => trace'[r].burned = trace[r].burned
<1> DEFINE streak == AtMost(empties[Mine(r)] + 1, EmptyThreshold)
           trips == EmptyThreshold > 0 /\ streak = EmptyThreshold
           b == IF trips THEN trace[r].burned \cup {Mine(r)} ELSE trace[r].burned
           t == [trace[r] EXCEPT !.met = 200, !.burned = b]
<1>1. streak \in 0..EmptyThreshold
  BY SettingAssumption DEF AtMost, CodeTypes, SettingAssumption
<1>2. trace[r] \in [contacts : Nat, met : Int, burned : SUBSET Key] /\ b \subseteq Key
  BY DEF CodeTypes
<1>3. /\ t \in [contacts : Nat, met : Int, burned : SUBSET Key]
      /\ t.burned = b /\ t.met = 200 /\ t.contacts = trace[r].contacts
  <2> HIDE DEF b
  <2>1. b \in SUBSET Key /\ 200 \in Int
    BY <1>2
  <2>2. t \in [contacts : Nat, met : Int, burned : SUBSET Key]
    BY <1>2, <2>1, Zenon
  <2>3. t.burned = b
    BY <1>2
  <2> QED BY <1>2, <2>2, <2>3
<1>4. /\ trace' = [trace EXCEPT ![r] = t]
      /\ empties' = [empties EXCEPT ![Mine(r)] = streak]
      /\ up' = IF trips THEN up \ {Mine(r)} ELSE up
  BY DEF RecordEmpty
<1>5. CASE trips
  BY <1>1, <1>3, <1>4, <1>5 DEF CodeTypes, TraceTypes, OthersTrace
<1>6. CASE ~trips
  BY <1>1, <1>3, <1>4, <1>6 DEF CodeTypes, TraceTypes, OthersTrace
<1> QED BY <1>5, <1>6

LEMMA CountRequestTypes ==
  ASSUME usage \in [Key -> Nat], NEW k \in Key, CountRequest(k)
  PROVE  /\ usage' \in [Key -> Nat]
         /\ \A j \in Key \ {k} : usage'[j] = usage[j]
         /\ Limit[k] > 0 => usage'[k] = usage[k] + 1
<1>1. Limit[k] \in Nat
  BY TopologyAssumption DEF TopologyAssumption
<1>2. CASE Limit[k] = 0
  BY <1>2 DEF CountRequest
<1>3. CASE Limit[k] # 0
  BY <1>1, <1>3 DEF CountRequest
<1> QED BY <1>2, <1>3

(* The next route leaves the request in its selection, or without a key.   *)
LEMMA NextRouteTypes ==
  ASSUME CodeTypes, NEW r \in Request, pc[r] = "scan", NextRoute(r)
  PROVE  /\ pc' \in [Request -> Place] /\ pc'[r] \in {"scan", "nokey"}
         /\ scan' \in [Request -> ScanSpace]
         /\ \A q \in Request \ {r} : pc'[q] = pc[q] /\ scan'[q] = scan[q]
         /\ pc'[r] = "scan" => /\ scan'[r].pos <= Len(scan'[r].order)
                               /\ scan'[r].fresh = scan[r].fresh
                               /\ scan'[r].frozen = scan[r].frozen
<1> DEFINE s == scan[r]
<1>0. s \in ScanSpace /\ s.pos <= Len(s.order) /\ Len(s.order) \in Nat
  BY DEF CodeTypes, ScanSpace
<1>1. CASE s.pos < Len(s.order)
  <2> DEFINE n == [s EXCEPT !.pos = s.pos + 1, !.hot = FALSE]
  <2>1. s.pos + 1 \in Nat \ {0} /\ s.pos + 1 <= Len(s.order) /\ FALSE \in BOOLEAN
    BY <1>0, <1>1 DEF ScanSpace
  <2>2. n \in ScanSpace
    BY <1>0, <2>1, Zenon DEF ScanSpace
  <2>3. n.pos = s.pos + 1 /\ n.order = s.order /\ n.fresh = s.fresh /\ n.frozen = s.frozen
    BY <1>0 DEF ScanSpace
  <2>4. scan' = [scan EXCEPT ![r] = n] /\ pc' = pc
    BY <1>1 DEF NextRoute
  <2> HIDE DEF n
  <2> QED BY <2>1, <2>2, <2>3, <2>4 DEF CodeTypes
<1>2. CASE ~(s.pos < Len(s.order)) /\ s.pass = 1
  <2> DEFINE n == [s EXCEPT !.pos = 1, !.pass = 2, !.hot = FALSE]
  <2>1. 1 \in Nat \ {0} /\ 2 \in 1..2 /\ FALSE \in BOOLEAN /\ 1 <= Len(s.order)
    BY <1>0 DEF ScanSpace
  <2>2. n \in ScanSpace
    BY <1>0, <2>1, Zenon DEF ScanSpace
  <2>3. n.pos = 1 /\ n.order = s.order /\ n.fresh = s.fresh /\ n.frozen = s.frozen
    BY <1>0 DEF ScanSpace
  <2>4. scan' = [scan EXCEPT ![r] = n] /\ pc' = pc
    BY <1>2 DEF NextRoute
  <2> HIDE DEF n
  <2> QED BY <2>1, <2>2, <2>3, <2>4 DEF CodeTypes
<1>3. CASE ~(s.pos < Len(s.order)) /\ s.pass # 1 /\ s.rest # {}
  <2>1. s.rest \in SUBSET Route
    BY <1>0 DEF ScanSpace
  <2>2. EnterTier(r, s.rest) /\ pc' = pc
    BY <1>3 DEF NextRoute
  <2> QED BY <1>3, <2>1, <2>2, EnterTierSound DEF CodeTypes
<1>4. CASE ~(s.pos < Len(s.order)) /\ s.pass # 1 /\ s.rest = {}
  <2>1. scan' = [scan EXCEPT ![r] = NoScan] /\ pc' = [pc EXCEPT ![r] = "nokey"]
    BY <1>4 DEF NextRoute, StopScan, Goto
  <2>2. NoScan \in ScanSpace
    BY DEF NoScan, ScanSpace
  <2> QED BY <2>1, <2>2 DEF CodeTypes, Place
<1> QED BY <1>1, <1>2, <1>3, <1>4

(* Every step of a request preserves the types.                            *)
LEMMA MineType ==
  ASSUME CodeTypes, NEW r \in Request, pc[r] \in Holding
  PROVE  Mine(r) \in Key
BY KeysOfType DEF CodeTypes

LEMMA ArriveTypes ==
  ASSUME CodeTypes, NEW r \in Request, Arrive(r)
  PROVE  CodeTypes'
<1>1. PICK kind \in Kind, n \in RetrySetting \cup {DefaultRetries} :
        job' = [job EXCEPT ![r] = [NoJob EXCEPT !.kind = kind, !.retries = Retries(n),
                                     !.answer = IF routes = {} THEN "no_routes" ELSE "none"]]
  BY DEF Arrive
<1> DEFINE a == IF routes = {} THEN "no_routes" ELSE "none"
           j == [NoJob EXCEPT !.kind = kind, !.retries = Retries(n), !.answer = a]
<1>2. Retries(n) \in Nat /\ kind \in AllKinds
  BY SettingAssumption, InputAssumption DEF Retries, AtMost, SettingAssumption, InputAssumption
<1>3. a \in Answers
  BY DEF Answers
<1>4. NoJob \in JobSpace
  BY DEF NoJob, JobSpace, AllKinds, Answers
<1>5. j \in JobSpace
  <2> HIDE DEF a
  <2> QED BY <1>2, <1>3, <1>4, Zenon DEF JobSpace
<1>6. job' = [job EXCEPT ![r] = j]
  BY <1>1
<1>7. /\ pc' = [pc EXCEPT ![r] = IF routes = {} THEN "done" ELSE "select"]
      /\ (IF routes = {} THEN "done" ELSE "select") \in Place \ (Holding \cup {"scan"})
  BY DEF Arrive, Goto, Place, Holding
<1> HIDE DEF j
<1>8. /\ job' \in [Request -> JobSpace] /\ pc' \in [Request -> Place]
      /\ pc'[r] \notin Holding /\ pc'[r] # "scan"
      /\ \A q \in Request \ {r} : pc'[q] = pc[q] /\ job'[q] = job[q]
  BY <1>5, <1>6, <1>7 DEF CodeTypes
<1> QED BY <1>8, Frame DEF Arrive, CodeTypes

LEMMA LeaveTypes ==
  ASSUME CodeTypes, NEW r \in Request, Leave(r)
  PROVE  CodeTypes'
<1>1. NoJob \in JobSpace /\ NoTrace \in [contacts : Nat, met : Int, burned : SUBSET Key]
  BY DEF NoJob, JobSpace, AllKinds, Answers, NoTrace
<1>2. "idle" \in Place \ (Holding \cup {"scan"})
  BY DEF Place, Holding
<1>3. /\ job' \in [Request -> JobSpace] /\ pc' \in [Request -> Place]
      /\ trace' \in [Request -> [contacts : Nat, met : Int, burned : SUBSET Key]]
      /\ pc'[r] = "idle"
      /\ \A q \in Request \ {r} : pc'[q] = pc[q] /\ job'[q] = job[q]
  BY <1>1, <1>2 DEF CodeTypes, Leave, Goto
<1> QED BY <1>2, <1>3, Frame DEF Leave, CodeTypes

LEMMA LookTypes ==
  ASSUME CodeTypes, NEW r \in Request, Look(r)
  PROVE  CodeTypes'
<1> DEFINE left == routes \ job[r].excluded
<1>1. left \in SUBSET Route
  BY DEF CodeTypes
<1>2. "nokey" \in Place \ (Holding \cup {"scan"}) /\ "scan" \in Place \ Holding
  BY DEF Place, Holding
<1>3. CASE left = {}
  <2>1. Goto(r, "nokey") /\ UNCHANGED scan
    BY <1>3 DEF Look
  <2>2. /\ pc' \in [Request -> Place] /\ pc'[r] = "nokey"
        /\ \A q \in Request \ {r} : pc'[q] = pc[q]
    BY <1>2, <2>1, GotoTypes DEF CodeTypes
  <2>3. UNCHANGED <<routes, up, usage, empties, job, trace, scan>>
    BY <2>1 DEF Look
  <2> QED BY <1>2, <2>2, <2>3, Frame DEF CodeTypes
<1>4. CASE left # {}
  <2>1. Goto(r, "scan") /\ EnterTier(r, left)
    BY <1>4 DEF Look
  <2>2. /\ scan' \in [Request -> ScanSpace]
        /\ scan'[r].pos <= Len(scan'[r].order)
        /\ \A q \in Request \ {r} : scan'[q] = scan[q]
    BY <1>1, <1>4, <2>1, EnterTierSound DEF CodeTypes
  <2>3. /\ pc' \in [Request -> Place] /\ pc'[r] = "scan"
        /\ \A q \in Request \ {r} : pc'[q] = pc[q]
    BY <1>2, <2>1, GotoTypes DEF CodeTypes
  <2>4. UNCHANGED <<routes, up, usage, empties, job, trace>>
    BY DEF Look
  <2> QED BY <1>2, <2>2, <2>3, <2>4, Frame DEF CodeTypes
<1> QED BY <1>3, <1>4

LEMMA CheckImmediateTypes ==
  ASSUME CodeTypes, NEW r \in Request, CheckImmediate(r)
  PROVE  CodeTypes'
<1>1. pc[r] = "scan" /\ scan[r] \in ScanSpace
  BY DEF CheckImmediate, CodeTypes
<1>2. CASE scan' = [scan EXCEPT ![r].hot = TRUE] /\ UNCHANGED pc
  <2> DEFINE n == [scan[r] EXCEPT !.hot = TRUE]
  <2>1. n \in ScanSpace
    BY <1>1, Zenon DEF ScanSpace
  <2>2. n.pos = scan[r].pos /\ n.order = scan[r].order
    BY <1>1 DEF ScanSpace
  <2>3. scan' = [scan EXCEPT ![r] = n] /\ pc' = pc
    BY <1>2
  <2> HIDE DEF n
  <2>4. /\ scan' \in [Request -> ScanSpace] /\ scan'[r].pos <= Len(scan'[r].order)
        /\ \A q \in Request \ {r} : scan'[q] = scan[q]
    BY <1>1, <2>1, <2>2, <2>3 DEF CodeTypes
  <2> QED BY <1>1, <2>3, <2>4, Frame DEF CheckImmediate, CodeTypes, Holding
<1>3. CASE NextRoute(r)
  BY <1>1, <1>3, NextRouteTypes, Frame DEF CheckImmediate, CodeTypes, Holding
<1> QED BY <1>2, <1>3 DEF CheckImmediate

LEMMA TryRouteTypes ==
  ASSUME CodeTypes, NEW r \in Request, TryRoute(r)
  PROVE  CodeTypes'
<1> DEFINE x == scan[r].order[scan[r].pos]
<1>1. pc[r] = "scan" /\ scan[r] \in ScanSpace /\ job[r] \in JobSpace
  BY DEF TryRoute, CodeTypes
<1>2. x \in Route
  <2>1. /\ scan[r].order \in Seq(Route) /\ scan[r].pos \in Nat \ {0}
        /\ scan[r].pos <= Len(scan[r].order)
    BY <1>1 DEF CodeTypes, ScanSpace
  <2> QED BY <2>1
<1>3. CASE NextRoute(r) /\ UNCHANGED job
  BY <1>1, <1>3, NextRouteTypes, Frame DEF TryRoute, CodeTypes, Holding
<1>4. ASSUME NEW k \in SelectKey(View(r), x),
             job' = [job EXCEPT ![r].route = x, ![r].key = k], StopScan(r), Goto(r, "forward")
      PROVE  CodeTypes'
  <2> DEFINE j == [job[r] EXCEPT !.route = x, !.key = k]
  <2>1. k \in KeysOf[x] /\ k \in Key
    BY <1>2, SelectSound, KeysOfType
  <2>2. j \in JobSpace
    <3> HIDE DEF x
    <3> QED BY <1>1, <1>2, <2>1, Zenon DEF JobSpace
  <2>3. j.route = x /\ j.key = k
    BY <1>1 DEF JobSpace
  <2>4. job' = [job EXCEPT ![r] = j]
    BY <1>1, <1>4 DEF CodeTypes
  <2>5. NoScan \in ScanSpace /\ "forward" \in Place
    BY DEF NoScan, ScanSpace, Place
  <2> HIDE DEF j
  <2>6. /\ job' \in [Request -> JobSpace] /\ job'[r].route = x /\ job'[r].key = k
        /\ scan' \in [Request -> ScanSpace]
        /\ \A q \in Request \ {r} : job'[q] = job[q] /\ scan'[q] = scan[q]
    BY <1>4, <2>2, <2>3, <2>4, <2>5 DEF StopScan, CodeTypes
  <2>7. /\ pc' \in [Request -> Place] /\ pc'[r] = "forward"
        /\ \A q \in Request \ {r} : pc'[q] = pc[q]
    BY <1>4, <2>5, GotoTypes DEF CodeTypes
  <2>8. UNCHANGED <<routes, up, usage, empties, trace>>
    BY DEF TryRoute
  <2> HIDE DEF x
  <2> QED BY <1>2, <2>1, <2>6, <2>7, <2>8, Frame DEF CodeTypes
<1> QED BY <1>3, <1>4 DEF TryRoute

LEMMA FrameStay ==
  ASSUME CodeTypes, NEW r \in Request, pc[r] \in Holding, NEW to \in Holding, Goto(r, to),
         UNCHANGED <<routes, job, scan>>, up' \subseteq Key, usage' \in [Key -> Nat],
         empties' \in [Key -> 0..EmptyThreshold], TraceTypes'
  PROVE  CodeTypes'
<1>1. to \in Place /\ to # "scan"
  BY DEF Holding, Place
<1>2. /\ pc' \in [Request -> Place] /\ pc'[r] = to
      /\ \A q \in Request \ {r} : pc'[q] = pc[q]
  BY <1>1, GotoTypes DEF CodeTypes
<1>3. job[r].route \in Route /\ job[r].key \in KeysOf[job[r].route]
  BY DEF CodeTypes, Mine
<1> QED BY <1>1, <1>2, <1>3, Frame DEF CodeTypes, TraceTypes

LEMMA FrameOut ==
  ASSUME CodeTypes, NEW r \in Request, NEW to \in {"select", "done"},
         pc' \in [Request -> Place], pc'[r] = to, job' \in [Request -> JobSpace],
         \A q \in Request \ {r} : pc'[q] = pc[q] /\ job'[q] = job[q],
         UNCHANGED <<routes, scan>>, up' \subseteq Key, usage' \in [Key -> Nat],
         empties' \in [Key -> 0..EmptyThreshold], TraceTypes'
  PROVE  CodeTypes'
<1>1. to \notin Holding /\ to # "scan"
  BY DEF Holding
<1> QED BY <1>1, Frame DEF CodeTypes, TraceTypes

LEMMA AnswerFrame ==
  ASSUME CodeTypes, NEW r \in Request, NEW a \in Answers, Answer(r, a),
         UNCHANGED <<routes, scan>>, up' \subseteq Key, usage' \in [Key -> Nat],
         empties' \in [Key -> 0..EmptyThreshold], TraceTypes'
  PROVE  CodeTypes'
<1>1. pc \in [Request -> Place] /\ job \in [Request -> JobSpace]
  BY DEF CodeTypes
<1>2. /\ pc' \in [Request -> Place] /\ pc'[r] = "done" /\ job' \in [Request -> JobSpace]
      /\ \A q \in Request \ {r} : pc'[q] = pc[q] /\ job'[q] = job[q]
  BY <1>1, AnswerTypes DEF Kept
<1> QED BY <1>2, FrameOut

LEMMA SpendFrame ==
  ASSUME CodeTypes, NEW r \in Request, NEW status \in Int, SpendAttempt(r, status),
         UNCHANGED <<routes, scan>>, up' \subseteq Key, usage' \in [Key -> Nat],
         empties' \in [Key -> 0..EmptyThreshold], TraceTypes'
  PROVE  CodeTypes'
<1>1. pc \in [Request -> Place] /\ job \in [Request -> JobSpace]
  BY DEF CodeTypes
<1>2. /\ pc' \in [Request -> Place] /\ pc'[r] = "select" /\ job' \in [Request -> JobSpace]
      /\ \A q \in Request \ {r} : pc'[q] = pc[q] /\ job'[q] = job[q]
  BY <1>1, SpendAttemptTypes DEF Kept
<1> QED BY <1>2, FrameOut

LEMMA Unmoved == CodeTypes => /\ up \subseteq Key /\ usage \in [Key -> Nat]
                              /\ empties \in [Key -> 0..EmptyThreshold] /\ TraceTypes
BY DEF CodeTypes, TraceTypes

LEMMA GiveUpTypes ==
  ASSUME CodeTypes, NEW r \in Request, GiveUp(r)
  PROVE  CodeTypes'
<1>1. \E a \in Answers : Answer(r, a)
  BY DEF GiveUp, Answers
<1>2. UNCHANGED <<routes, up, usage, empties, scan, trace>>
  BY DEF GiveUp
<1> QED BY <1>1, <1>2, AnswerFrame, Unmoved DEF TraceTypes

LEMMA TerminateTypes ==
  ASSUME CodeTypes, NEW r \in Request, Terminate(r)
  PROVE  CodeTypes'
<1>1. TerminalStatus(job[r].last) \in Answers
  BY DEF TerminalStatus, Answers
<1>2. UNCHANGED <<routes, up, usage, empties, scan, trace>> /\ Answer(r, TerminalStatus(job[r].last))
  BY DEF Terminate
<1> QED BY <1>1, <1>2, AnswerFrame, Unmoved DEF TraceTypes

LEMMA ExcludeTypes ==
  ASSUME CodeTypes, NEW r \in Request, Exclude(r)
  PROVE  CodeTypes' /\ Kept(r) /\ job'[r].attempt = job[r].attempt /\ job'[r].last = job[r].last
         /\ job'[r].answer = job[r].answer
<1> DEFINE e == job[r].excluded \cup {job[r].route}
           j == [job[r] EXCEPT !.excluded = e, !.route = NoRoute, !.key = NoKey]
<1>1. job[r] \in JobSpace /\ job[r].route \in Route
  BY DEF Exclude, CodeTypes, Holding
<1>2. e \in SUBSET Route
  BY <1>1 DEF JobSpace
<1>3. j \in JobSpace
  <2> HIDE DEF e
  <2> QED BY <1>1, <1>2, Zenon DEF JobSpace
<1>4. /\ j.kind = job[r].kind /\ j.retries = job[r].retries
      /\ j.attempt = job[r].attempt /\ j.last = job[r].last /\ j.answer = job[r].answer
  BY <1>1 DEF JobSpace
<1>5. job' = [job EXCEPT ![r] = j] /\ Goto(r, "select") /\ "select" \in Place
  BY DEF Exclude, Place
<1> HIDE DEF j
<1>6. /\ job' \in [Request -> JobSpace] /\ job'[r] = j
      /\ \A q \in Request \ {r} : job'[q] = job[q]
  BY <1>3, <1>5 DEF CodeTypes
<1>7. /\ pc' \in [Request -> Place] /\ pc'[r] = "select"
      /\ \A q \in Request \ {r} : pc'[q] = pc[q]
  BY <1>5, GotoTypes DEF CodeTypes
<1>8. UNCHANGED <<routes, up, usage, empties, scan, trace>>
  BY DEF Exclude
<1>9. CodeTypes'
  BY <1>6, <1>7, <1>8, FrameOut, Unmoved DEF TraceTypes
<1> QED BY <1>4, <1>6, <1>9 DEF Kept

LEMMA ContactTypes ==
  ASSUME CodeTypes, NEW r \in Request, Contact(r)
  PROVE  /\ CodeTypes' /\ OthersTrace(r)
         /\ trace'[r].contacts = trace[r].contacts + 1
         /\ trace'[r].met = trace[r].met /\ trace'[r].burned = trace[r].burned
<1> DEFINE t == [trace[r] EXCEPT !.contacts = trace[r].contacts + 1]
<1>1. trace[r] \in [contacts : Nat, met : Int, burned : SUBSET Key]
  BY DEF CodeTypes
<1>2. /\ t \in [contacts : Nat, met : Int, burned : SUBSET Key]
      /\ t.contacts = trace[r].contacts + 1 /\ t.met = trace[r].met /\ t.burned = trace[r].burned
  BY <1>1
<1>3. trace' = [trace EXCEPT ![r] = t]
  BY DEF Contact
<1> HIDE DEF t
<1>4. TraceTypes' /\ OthersTrace(r) /\ trace'[r] = t
  BY <1>2, <1>3 DEF CodeTypes, TraceTypes, OthersTrace
<1>5. CodeTypes'
  BY <1>4, FrameStay, Unmoved DEF Contact, Holding
<1> QED BY <1>2, <1>4, <1>5

LEMMA ForwardErrorTypes ==
  ASSUME CodeTypes, NEW r \in Request, ForwardError(r)
  PROVE  CodeTypes'
<1>1. pc[r] \in Holding /\ UNCHANGED <<routes, usage, empties, scan>>
  BY DEF ForwardError, Holding
<1>2. CASE Answer(r, "abandoned") /\ UNCHANGED <<up, trace>>
  BY <1>1, <1>2, AnswerFrame, Unmoved DEF Answers, TraceTypes
<1>3. CASE BlameKey(r, 0)
  <2>1. Mine(r) \in Key
    BY <1>1, MineType
  <2>2. SpendAttempt(r, 0) /\ up' = up \ {Mine(r)} /\ TraceTypes'
    BY <1>3, <2>1, BlameKeyTypes
  <2> QED BY <1>1, <2>2, SpendFrame, Unmoved
<1> QED BY <1>2, <1>3 DEF ForwardError

LEMMA KeyFaultTypes ==
  ASSUME CodeTypes, NEW r \in Request, KeyFault(r)
  PROVE  CodeTypes'
<1>1. pc[r] \in Holding /\ UNCHANGED <<routes, usage, empties, scan>>
  BY DEF KeyFault, Holding
<1>2. PICK p \in Reply : BlameKey(r, p.status)
  BY DEF KeyFault
<1>3. p.status \in Int
  BY InputAssumption DEF InputAssumption, AllReplies
<1>4. Mine(r) \in Key
  BY <1>1, MineType
<1>5. SpendAttempt(r, p.status) /\ up' = up \ {Mine(r)} /\ TraceTypes'
  BY <1>2, <1>3, <1>4, BlameKeyTypes
<1> QED BY <1>1, <1>3, <1>5, SpendFrame, Unmoved

LEMMA PassErrorTypes ==
  ASSUME CodeTypes, NEW r \in Request, PassError(r)
  PROVE  CodeTypes'
<1>1. pc[r] \in Holding /\ UNCHANGED <<routes, usage, scan>>
  BY DEF PassError, Holding
<1>2. PICK p \in Reply :
        /\ Answer(r, IF p.body = "unreadable" THEN "unreadable" ELSE "upstream_error")
        /\ IF p.body = "unreadable" THEN UNCHANGED <<up, empties, trace>>
                                    ELSE ObserveSuccess(Mine(r))
  BY DEF PassError
<1>3. Mine(r) \in Key
  BY <1>1, MineType
<1>4. CASE p.body = "unreadable"
  BY <1>1, <1>2, <1>4, AnswerFrame, Unmoved DEF Answers, TraceTypes
<1>5. CASE p.body # "unreadable"
  <2>1. up' \subseteq Key /\ empties' \in [Key -> 0..EmptyThreshold] /\ TraceTypes'
    BY <1>2, <1>3, <1>5, ObserveSuccessTypes
  <2> QED BY <1>1, <1>2, <1>5, <2>1, AnswerFrame, Unmoved DEF Answers
<1> QED BY <1>4, <1>5

LEMMA EmptyAnswerTypes ==
  ASSUME CodeTypes, NEW r \in Request, EmptyAnswer(r)
  PROVE  CodeTypes'
<1>1. pc[r] \in Holding /\ UNCHANGED <<routes, usage, scan>> /\ SpendAttempt(r, 200)
      /\ RecordEmpty(r)
  BY DEF EmptyAnswer, Holding
<1>2. Mine(r) \in Key
  BY <1>1, MineType
<1>3. up' \subseteq up /\ empties' \in [Key -> 0..EmptyThreshold] /\ TraceTypes'
  BY <1>1, <1>2, RecordEmptyTypes
<1> QED BY <1>1, <1>3, SpendFrame, Unmoved

LEMMA CompleteTypes ==
  ASSUME CodeTypes, NEW r \in Request, Complete(r)
  PROVE  CodeTypes'
<1>1. pc[r] \in Holding /\ UNCHANGED <<routes, up, empties, job, scan, trace>>
      /\ CountRequest(Mine(r)) /\ Goto(r, "settle")
  BY DEF Complete, Holding
<1>2. usage' \in [Key -> Nat]
  BY <1>1, MineType, CountRequestTypes, Unmoved
<1> QED BY <1>1, <1>2, FrameStay, Unmoved DEF Holding, TraceTypes

LEMMA BeginStreamTypes ==
  ASSUME CodeTypes, NEW r \in Request, BeginStream(r)
  PROVE  CodeTypes'
<1>1. pc[r] \in Holding /\ UNCHANGED <<routes, up, usage, empties, job, scan, trace>>
      /\ Goto(r, "stream")
  BY DEF BeginStream, Holding
<1> QED BY <1>1, FrameStay, Unmoved DEF Holding, TraceTypes

LEMMA EndStreamTypes ==
  ASSUME CodeTypes, NEW r \in Request, EndStream(r)
  PROVE  CodeTypes'
<1>1. pc[r] \in Holding /\ UNCHANGED <<routes, scan>> /\ Mine(r) \in Key
  BY MineType DEF EndStream, Holding
<1>2. CASE Answer(r, "broken") /\ UNCHANGED <<up, usage, empties, trace>>
  BY <1>1, <1>2, AnswerFrame, Unmoved DEF Answers, TraceTypes
<1>3. CASE EmptyEnabled /\ RecordEmpty(r) /\ Answer(r, "ok") /\ UNCHANGED usage
  <2>1. up' \subseteq up /\ empties' \in [Key -> 0..EmptyThreshold] /\ TraceTypes'
    BY <1>1, <1>3, RecordEmptyTypes
  <2> QED BY <1>1, <1>3, <2>1, AnswerFrame, Unmoved DEF Answers
<1>4. CASE CountRequest(Mine(r)) /\ Goto(r, "settle") /\ UNCHANGED <<up, empties, job, trace>>
  <2>1. usage' \in [Key -> Nat]
    BY <1>1, <1>4, CountRequestTypes, Unmoved
  <2> QED BY <1>1, <1>4, <2>1, FrameStay, Unmoved DEF Holding, TraceTypes
<1> QED BY <1>2, <1>3, <1>4 DEF EndStream

LEMMA SettleTypes ==
  ASSUME CodeTypes, NEW r \in Request, Settle(r)
  PROVE  CodeTypes'
<1>1. pc[r] \in Holding /\ UNCHANGED <<routes, usage, job, scan>> /\ Goto(r, "spend")
      /\ ObserveSuccess(Mine(r)) /\ Mine(r) \in Key
  BY MineType DEF Settle, Holding
<1>2. up' \subseteq Key /\ empties' \in [Key -> 0..EmptyThreshold] /\ TraceTypes'
  BY <1>1, ObserveSuccessTypes
<1> QED BY <1>1, <1>2, FrameStay, Unmoved DEF Holding

LEMMA SpendLimitTypes ==
  ASSUME CodeTypes, NEW r \in Request, SpendLimit(r)
  PROVE  CodeTypes'
<1>1. /\ UNCHANGED <<routes, usage, empties, scan, trace>> /\ Answer(r, "ok")
      /\ up' \in {up, up \ {Mine(r)}}
  BY DEF SpendLimit
<1> QED BY <1>1, AnswerFrame, Unmoved DEF Answers, TraceTypes

LEMMA DisconnectTypes ==
  ASSUME CodeTypes, NEW r \in Request, Disconnect(r)
  PROVE  CodeTypes' /\ Kept(r) /\ job'[r].attempt = job[r].attempt
         /\ job'[r].last = job[r].last /\ job'[r].key = job[r].key /\ job'[r].answer = job[r].answer
<1> DEFINE j == [job[r] EXCEPT !.gone = TRUE]
<1>1. job[r] \in JobSpace /\ TRUE \in BOOLEAN
  BY DEF CodeTypes
<1>2. j \in JobSpace
  BY <1>1, Zenon DEF JobSpace
<1>3. /\ j.kind = job[r].kind /\ j.retries = job[r].retries /\ j.answer = job[r].answer
      /\ j.attempt = job[r].attempt /\ j.last = job[r].last
      /\ j.route = job[r].route /\ j.key = job[r].key
  BY <1>1 DEF JobSpace
<1>4. job' = [job EXCEPT ![r] = j]
  BY <1>1 DEF Disconnect, CodeTypes
<1> HIDE DEF j
<1>5. /\ job' \in [Request -> JobSpace] /\ job'[r] = j
      /\ \A q \in Request \ {r} : job'[q] = job[q]
  BY <1>2, <1>4 DEF CodeTypes
<1>6. /\ pc[r] \in Holding /\ pc[r] # "scan"
      /\ UNCHANGED <<routes, up, usage, empties, pc, scan, trace>>
  BY DEF Disconnect, Holding
<1>7. job[r].route \in Route /\ job[r].key \in KeysOf[job[r].route]
  BY <1>6 DEF CodeTypes, Mine
<1>8. CodeTypes'
  BY <1>3, <1>5, <1>6, <1>7, Frame DEF CodeTypes
<1> QED BY <1>3, <1>5, <1>8 DEF Kept

LEMMA RefreshTypes ==
  ASSUME CodeTypes, Refresh
  PROVE  CodeTypes'
<1>1. ASSUME NEW q \in Request
      PROVE  /\ scan'[q] \in ScanSpace
             /\ scan'[q].pos = scan[q].pos /\ scan'[q].order = scan[q].order
  <2> DEFINE n == [scan[q] EXCEPT !.fresh = FALSE, !.frozen = up]
  <2>1. scan[q] \in ScanSpace /\ up \in SUBSET Key /\ FALSE \in BOOLEAN
    BY DEF CodeTypes
  <2>2. n \in ScanSpace
    BY <2>1, Zenon DEF ScanSpace
  <2>3. n.pos = scan[q].pos /\ n.order = scan[q].order
    BY <2>1 DEF ScanSpace
  <2>4. scan'[q] = n \/ scan'[q] = scan[q]
    BY DEF Refresh
  <2> HIDE DEF n
  <2> QED BY <2>1, <2>2, <2>3, <2>4
<1>2. scan' \in [Request -> ScanSpace]
  BY <1>1 DEF Refresh
<1> QED BY <1>1, <1>2 DEF Refresh, CodeTypes, Mine

LEMMA BenchTypes ==
  ASSUME CodeTypes, NEW k \in Key, Bench(k)
  PROVE  CodeTypes'
BY DEF Bench, CodeTypes, Mine

LEMMA ReadmitTypes ==
  ASSUME CodeTypes, NEW k \in Key, Readmit(k)
  PROVE  /\ CodeTypes'
         /\ \A q \in Request : /\ trace'[q].burned = trace[q].burned \ {k}
                               /\ trace'[q].contacts = trace[q].contacts
                               /\ trace'[q].met = trace[q].met
<1>1. ASSUME NEW q \in Request
      PROVE  /\ trace'[q] \in [contacts : Nat, met : Int, burned : SUBSET Key]
             /\ trace'[q].burned = trace[q].burned \ {k}
             /\ trace'[q].contacts = trace[q].contacts /\ trace'[q].met = trace[q].met
  BY DEF Readmit, CodeTypes
<1>2. trace' \in [Request -> [contacts : Nat, met : Int, burned : SUBSET Key]]
  BY <1>1 DEF Readmit
<1> QED BY <1>1, <1>2 DEF Readmit, CodeTypes, Mine

LEMMA WindowSlidesTypes ==
  ASSUME CodeTypes, NEW k \in Key, WindowSlides(k)
  PROVE  CodeTypes' /\ \A j \in Key : usage'[j] <= usage[j]
<1>1. PICK n \in 0..usage[k] - 1 : usage' = [usage EXCEPT ![k] = n]
  BY DEF WindowSlides
<1>2. usage \in [Key -> Nat] /\ n \in Nat /\ n <= usage[k]
  BY <1>1 DEF CodeTypes
<1>3. usage' \in [Key -> Nat] /\ \A j \in Key : usage'[j] <= usage[j]
  BY <1>1, <1>2
<1> QED BY <1>3 DEF WindowSlides, CodeTypes, Mine

SightTypes == /\ sight \in [Request -> [up : SUBSET Key, quiet : BOOLEAN]]
              /\ stayed \in [Request -> SUBSET Key]

LEMMA WatchTypes ==
  ASSUME CodeTypes, CodeTypes', SightTypes, Watch
  PROVE  /\ SightTypes'
         /\ \A r \in Request :
              pc'[r] = "scan" =>
                sight'[r].up = IF pc[r] # "scan" THEN up ELSE sight[r].up \cup up'
<1>1. ASSUME NEW r \in Request
      PROVE  /\ sight'[r] \in [up : SUBSET Key, quiet : BOOLEAN]
             /\ pc'[r] = "scan" =>
                  sight'[r].up = IF pc[r] # "scan" THEN up ELSE sight[r].up \cup up'
  <2>1. CASE pc'[r] # "scan"
    BY <2>1 DEF Watch, NoSight
  <2>2. CASE pc'[r] = "scan" /\ pc[r] # "scan"
    <3>1. sight'[r] = [up |-> up, quiet |-> TRUE]
      BY <2>2 DEF Watch
    <3> QED BY <2>2, <3>1 DEF CodeTypes
  <2>3. CASE pc'[r] = "scan" /\ pc[r] = "scan"
    <3> DEFINE u == sight[r].up \cup up'
               b == sight[r].quiet /\ <<routes, up, usage>>' = <<routes, up, usage>>
    <3>1. sight'[r] = [up |-> u, quiet |-> b]
      BY <2>3 DEF Watch
    <3>2. u \in SUBSET Key
      BY DEF CodeTypes, SightTypes
    <3>3. b \in BOOLEAN
      BY Zenon DEF SightTypes
    <3> HIDE DEF u, b
    <3>4. sight'[r].up = u
      BY <3>1
    <3>5. [up |-> u, quiet |-> b] \in [up : SUBSET Key, quiet : BOOLEAN]
      BY <3>2, <3>3, Zenon
    <3>6. sight'[r] \in [up : SUBSET Key, quiet : BOOLEAN]
      BY <3>1, <3>5
    <3> QED BY <2>3, <3>4, <3>6 DEF u
  <2> QED BY <2>1, <2>2, <2>3
<1>2. sight' = [r \in Request |-> sight'[r]]
  BY DEF Watch
<1>3. stayed' \in [Request -> SUBSET Key]
  BY DEF Watch, SightTypes, Offer
<1>4. sight' \in [Request -> [up : SUBSET Key, quiet : BOOLEAN]]
  BY <1>1, <1>2
<1> QED BY <1>1, <1>3, <1>4 DEF SightTypes

LEMMA TypesSplit == TypeOK <=> CodeTypes /\ SightTypes
BY DEF TypeOK, CodeTypes, SightTypes

LEMMA InitTypes == Init => CodeTypes /\ SightTypes
<1> SUFFICES ASSUME Init PROVE CodeTypes /\ SightTypes
  OBVIOUS
<1>1. NoJob \in JobSpace /\ NoScan \in ScanSpace
  BY DEF NoJob, JobSpace, AllKinds, Answers, NoScan, ScanSpace
<1>2. /\ NoTrace \in [contacts : Nat, met : Int, burned : SUBSET Key]
      /\ NoSight \in [up : SUBSET Key, quiet : BOOLEAN]
  BY DEF NoTrace, NoSight
<1>3. "idle" \in Place \ (Holding \cup {"scan"})
  BY DEF Place, Holding
<1>4. [k \in Key |-> 0] \in [Key -> 0..EmptyThreshold]
  BY SettingAssumption DEF SettingAssumption
<1> QED BY <1>1, <1>2, <1>3, <1>4 DEF Init, CodeTypes, SightTypes

LEMMA ServeTypes ==
  ASSUME CodeTypes, NEW r \in Request, Serve(r)
  PROVE  CodeTypes'
BY LeaveTypes, LookTypes, CheckImmediateTypes, TryRouteTypes,
   GiveUpTypes, ExcludeTypes, ContactTypes, ForwardErrorTypes,
   KeyFaultTypes, PassErrorTypes, EmptyAnswerTypes, CompleteTypes,
   BeginStreamTypes, EndStreamTypes, SettleTypes, SpendLimitTypes,
   TerminateTypes DEF Serve

LEMMA SurroundingsTypes == CodeTypes /\ Surroundings => CodeTypes'
BY ArriveTypes, DisconnectTypes, BenchTypes, ReadmitTypes, WindowSlidesTypes, RefreshTypes
   DEF Surroundings

LEMMA StutterTypes == CodeTypes /\ SightTypes /\ UNCHANGED vars => CodeTypes' /\ SightTypes'
BY DEF CodeTypes, SightTypes, vars, code, Mine

LEMMA NextTypes == CodeTypes /\ SightTypes /\ [Next]_vars => CodeTypes' /\ SightTypes'
BY ServeTypes, SurroundingsTypes, StutterTypes, WatchTypes DEF Next

(* The state always has its types: every request that holds a key holds    *)
(* one of its route's provider, and selection never leaves its route list. *)
THEOREM RelayTypeCorrect == Spec => []TypeOK
<1>1. Init => CodeTypes /\ SightTypes
  BY InitTypes
<1> QED BY <1>1, NextTypes, TypesSplit, PTL DEF Spec

-----------------------------------------------------------------------------
(* Safety.  Each step of a request either walks its selection or handles   *)
(* an outcome; both are summed up by what the invariants read.             *)

Flight == {"forward", "sent", "stream"}

OthersStay(r) == \A q \in Request \ {r} : pc'[q] = pc[q] /\ job'[q] = job[q]

(* Selection steps: locals of the selection change, a usable key is taken. *)
Walks(r) ==
  /\ UNCHANGED <<up, usage, trace>> /\ OthersStay(r)
  /\ \A q \in Request \ {r} : scan'[q] = scan[q]
  /\ pc[r] \in {"select", "scan"} /\ pc'[r] \in {"scan", "nokey", "forward"}
  /\ pc'[r] = "scan" => scan'[r].fresh = scan[r].fresh /\ scan'[r].frozen = scan[r].frozen
  /\ pc'[r] # "scan" => scan'[r] = NoScan \/ (pc[r] = "select" /\ scan' = scan)
  /\ pc'[r] = "forward" => pc[r] = "scan" /\ Usable(View(r), job'[r].key)

(* A key that becomes available is on no request's list of failures, and   *)
(* one that goes onto it is not available.                                 *)
Burns == \A q \in Request : /\ trace'[q].burned \cap (up' \ up) = {}
                            /\ (trace'[q].burned \ trace[q].burned) \cap up' = {}
NoNewBurns(Q) == \A q \in Q : trace'[q].burned \subseteq trace[q].burned

Handles(r) ==
  /\ UNCHANGED scan /\ OthersStay(r)
  /\ pc[r] # "scan" /\ pc'[r] # "scan"
  /\ pc'[r] \in Flight => pc[r] \in Flight /\ job'[r].key = job[r].key
  /\ pc'[r] \in {"forward", "sent"} =>
       pc[r] \in {"forward", "sent"} /\ trace'[r].burned \subseteq trace[r].burned
  /\ \/ UNCHANGED usage
     \/ pc[r] \in Flight /\ pc'[r] \notin Flight /\ CountRequest(job[r].key)
  /\ Burns /\ NoNewBurns(Request \ {r})

LEMMA LookWalks ==
  ASSUME CodeTypes, NEW r \in Request, Look(r)
  PROVE  Walks(r)
<1> DEFINE left == routes \ job[r].excluded
<1>1. pc[r] = "select" /\ UNCHANGED <<up, usage, job, trace>>
  BY DEF Look
<1>2. CASE left = {}
  <2>1. Goto(r, "nokey") /\ UNCHANGED scan /\ "nokey" \in Place
    BY <1>2 DEF Look, Place
  <2> QED BY <1>1, <2>1, GotoTypes DEF Walks, OthersStay, CodeTypes
<1>3. CASE left # {}
  <2>1. Goto(r, "scan") /\ EnterTier(r, left) /\ left \in SUBSET Route /\ "scan" \in Place
    BY <1>3 DEF Look, CodeTypes, Place
  <2>2. /\ scan'[r].fresh = scan[r].fresh /\ scan'[r].frozen = scan[r].frozen
        /\ \A q \in Request \ {r} : scan'[q] = scan[q]
    BY <1>3, <2>1, EnterTierSound DEF CodeTypes
  <2> QED BY <1>1, <2>1, <2>2, GotoTypes DEF Walks, OthersStay, CodeTypes
<1> QED BY <1>2, <1>3

LEMMA NextRouteWalks ==
  ASSUME CodeTypes, NEW r \in Request, pc[r] = "scan", NextRoute(r),
         UNCHANGED <<up, usage, job, trace>>
  PROVE  Walks(r)
<1>1. pc'[r] = "nokey" => scan'[r] = NoScan
  BY DEF NextRoute, StopScan, CodeTypes
<1>2. /\ pc'[r] \in {"scan", "nokey"}
      /\ \A q \in Request \ {r} : pc'[q] = pc[q] /\ scan'[q] = scan[q]
      /\ pc'[r] = "scan" => scan'[r].fresh = scan[r].fresh /\ scan'[r].frozen = scan[r].frozen
  BY NextRouteTypes
<1>3. pc'[r] # "forward" /\ (pc'[r] # "scan" => scan'[r] = NoScan) /\ pc[r] \in {"select", "scan"}
      /\ pc'[r] \in {"scan", "nokey", "forward"}
  BY <1>1, <1>2
<1>4. OthersStay(r)
  BY <1>2 DEF OthersStay
<1> QED BY <1>2, <1>3, <1>4 DEF Walks

LEMMA CheckImmediateWalks ==
  ASSUME CodeTypes, NEW r \in Request, CheckImmediate(r)
  PROVE  Walks(r)
<1>1. pc[r] = "scan" /\ scan[r] \in ScanSpace /\ UNCHANGED <<up, usage, job, trace>>
  BY DEF CheckImmediate, CodeTypes
<1>2. CASE scan' = [scan EXCEPT ![r].hot = TRUE] /\ UNCHANGED pc
  <2> DEFINE n == [scan[r] EXCEPT !.hot = TRUE]
  <2>1. n.fresh = scan[r].fresh /\ n.frozen = scan[r].frozen
    BY <1>1 DEF ScanSpace
  <2>2. scan'[r] = n /\ \A q \in Request \ {r} : scan'[q] = scan[q]
    BY <1>2 DEF CodeTypes
  <2> HIDE DEF n
  <2> QED BY <1>1, <1>2, <2>1, <2>2 DEF Walks, OthersStay
<1>3. CASE NextRoute(r)
  BY <1>1, <1>3, NextRouteWalks
<1> QED BY <1>2, <1>3 DEF CheckImmediate

LEMMA TryRouteWalks ==
  ASSUME CodeTypes, NEW r \in Request, TryRoute(r)
  PROVE  Walks(r)
<1> DEFINE x == scan[r].order[scan[r].pos]
<1>1. pc[r] = "scan" /\ UNCHANGED <<up, usage, trace>>
  BY DEF TryRoute
<1>2. CASE NextRoute(r) /\ UNCHANGED job
  BY <1>1, <1>2, NextRouteWalks
<1>3. ASSUME NEW k \in SelectKey(View(r), x),
             job' = [job EXCEPT ![r].route = x, ![r].key = k], StopScan(r), Goto(r, "forward")
      PROVE  Walks(r)
  <2>1. job[r] \in JobSpace
    BY DEF CodeTypes
  <2>2. job'[r].key = k
    <3>1. job'[r] = [job[r] EXCEPT !.route = x, !.key = k]
      BY <1>3 DEF CodeTypes
    <3> HIDE DEF x
    <3> QED BY <2>1, <3>1 DEF JobSpace
  <2>3. /\ scan'[r] = NoScan /\ \A q \in Request \ {r} : scan'[q] = scan[q]
    BY <1>3 DEF StopScan, CodeTypes
  <2>4. \A q \in Request \ {r} : job'[q] = job[q]
    <3> HIDE DEF x
    <3> QED BY <1>3 DEF CodeTypes
  <2>5. /\ pc'[r] = "forward" /\ \A q \in Request \ {r} : pc'[q] = pc[q]
    BY <1>3, GotoTypes DEF CodeTypes, Place
  <2>6. Usable(View(r), k)
    BY SelectSound
  <2> HIDE DEF x
  <2> QED BY <1>1, <2>2, <2>3, <2>4, <2>5, <2>6 DEF Walks, OthersStay
<1> QED BY <1>2, <1>3 DEF TryRoute

(* Steps that leave `up` or shrink it and change no list of failures.      *)
LEMMA NoBurns ==
  ASSUME TraceTypes, UNCHANGED trace, up' \subseteq up
  PROVE  Burns /\ NoNewBurns(Request)
BY DEF Burns, NoNewBurns

(* Leaving the loop, or returning to its head, ends the flight.            *)
LEMMA OutHandles ==
  ASSUME NEW r \in Request, pc'[r] \in {"idle", "select", "done"}, UNCHANGED <<usage, scan>>,
         pc[r] # "scan", OthersStay(r), Burns, NoNewBurns(Request \ {r})
  PROVE  Handles(r)
BY DEF Handles, Flight

LEMMA AnswerHandles ==
  ASSUME CodeTypes, NEW r \in Request, NEW a \in Answers, Answer(r, a),
         UNCHANGED <<usage, scan>>, pc[r] # "scan", Burns, NoNewBurns(Request \ {r})
  PROVE  Handles(r)
<1>1. pc'[r] = "done" /\ OthersStay(r)
  BY AnswerTypes DEF CodeTypes, OthersStay, Kept
<1> QED BY <1>1, OutHandles

LEMMA SpendHandles ==
  ASSUME CodeTypes, NEW r \in Request, NEW status \in Int, SpendAttempt(r, status),
         UNCHANGED <<usage, scan>>, pc[r] # "scan", Burns, NoNewBurns(Request \ {r})
  PROVE  Handles(r)
<1>1. pc'[r] = "select" /\ OthersStay(r)
  BY SpendAttemptTypes DEF CodeTypes, OthersStay, Kept
<1> QED BY <1>1, OutHandles

LEMMA BlameKeyHandles ==
  ASSUME CodeTypes, NEW r \in Request, NEW status \in Int, BlameKey(r, status),
         UNCHANGED <<usage, scan>>, pc[r] \in {"forward", "sent"}
  PROVE  Handles(r)
<1>1. Mine(r) \in Key
  BY MineType DEF Holding
<1>2. /\ SpendAttempt(r, status) /\ up' = up \ {Mine(r)} /\ OthersTrace(r)
      /\ trace'[r].burned = trace[r].burned \cup {Mine(r)}
  BY <1>1, BlameKeyTypes
<1>3. Burns /\ NoNewBurns(Request \ {r})
  BY <1>2 DEF Burns, NoNewBurns, OthersTrace
<1> QED BY <1>2, <1>3, SpendHandles

LEMMA RecordEmptyBurns ==
  ASSUME CodeTypes, NEW r \in Request, RecordEmpty(r), Mine(r) \in Key
  PROVE  Burns /\ NoNewBurns(Request \ {r})
<1>1. /\ up' \subseteq up /\ OthersTrace(r)
      /\ trace'[r].burned \ {Mine(r)} \subseteq trace[r].burned
      /\ Mine(r) \in up' => trace'[r].burned = trace[r].burned
  BY RecordEmptyTypes
<1> QED BY <1>1 DEF Burns, NoNewBurns, OthersTrace

LEMMA ObserveSuccessBurns ==
  ASSUME CodeTypes, NEW k \in Key, ObserveSuccess(k)
  PROVE  Burns /\ NoNewBurns(Request)
<1>1. /\ up' \subseteq up \cup {k}
      /\ \A q \in Request : /\ trace'[q].burned \subseteq trace[q].burned
                            /\ up' # up => k \notin trace'[q].burned
  BY ObserveSuccessTypes
<1> QED BY <1>1 DEF Burns, NoNewBurns

LEMMA ArriveHandles ==
  ASSUME CodeTypes, NEW r \in Request, Arrive(r)
  PROVE  Handles(r)
<1>1. PICK j : job' = [job EXCEPT ![r] = j]
  BY DEF Arrive
<1>2. pc'[r] \in {"select", "done"} /\ \A q \in Request \ {r} : pc'[q] = pc[q]
  BY DEF Arrive, Goto, CodeTypes
<1>3. OthersStay(r) /\ pc[r] # "scan" /\ UNCHANGED <<up, usage, scan, trace>>
  BY <1>1, <1>2 DEF Arrive, OthersStay, CodeTypes
<1> QED BY <1>2, <1>3, NoBurns, OutHandles, Unmoved DEF NoNewBurns

LEMMA LeaveHandles ==
  ASSUME CodeTypes, NEW r \in Request, Leave(r)
  PROVE  Handles(r)
<1>1. pc'[r] = "idle" /\ OthersStay(r) /\ pc[r] # "scan" /\ UNCHANGED <<up, usage, scan>>
  BY DEF Leave, Goto, CodeTypes, OthersStay
<1>2. trace'[r].burned = {} /\ \A q \in Request \ {r} : trace'[q] = trace[q]
  BY DEF Leave, CodeTypes, NoTrace
<1>3. Burns /\ NoNewBurns(Request \ {r})
  BY <1>1, <1>2 DEF Burns, NoNewBurns
<1> QED BY <1>1, <1>3, OutHandles

LEMMA GiveUpHandles ==
  ASSUME CodeTypes, NEW r \in Request, GiveUp(r)
  PROVE  Handles(r)
<1>1. \E a \in Answers : Answer(r, a)
  BY DEF GiveUp, Answers
<1>2. pc[r] # "scan" /\ UNCHANGED <<up, usage, scan, trace>>
  BY DEF GiveUp
<1> QED BY <1>1, <1>2, NoBurns, AnswerHandles, Unmoved DEF NoNewBurns

LEMMA TerminateHandles ==
  ASSUME CodeTypes, NEW r \in Request, Terminate(r)
  PROVE  Handles(r)
<1>1. TerminalStatus(job[r].last) \in Answers
  BY DEF TerminalStatus, Answers
<1>2. /\ pc[r] # "scan" /\ UNCHANGED <<up, usage, scan, trace>>
      /\ Answer(r, TerminalStatus(job[r].last))
  BY DEF Terminate
<1> QED BY <1>1, <1>2, NoBurns, AnswerHandles, Unmoved DEF NoNewBurns

LEMMA ExcludeHandles ==
  ASSUME CodeTypes, NEW r \in Request, Exclude(r)
  PROVE  Handles(r)
<1>1. pc'[r] = "select" /\ \A q \in Request \ {r} : pc'[q] = pc[q]
  BY DEF Exclude, Goto, CodeTypes
<1>2. OthersStay(r)
  BY <1>1, ExcludeTypes DEF OthersStay, Kept
<1>3. pc[r] # "scan" /\ UNCHANGED <<up, usage, scan, trace>>
  BY DEF Exclude
<1> QED BY <1>1, <1>2, <1>3, NoBurns, OutHandles, Unmoved DEF NoNewBurns

LEMMA ContactHandles ==
  ASSUME CodeTypes, NEW r \in Request, Contact(r)
  PROVE  Handles(r)
<1>1. /\ pc[r] = "forward" /\ pc'[r] = "sent" /\ UNCHANGED <<up, usage, job, scan>>
      /\ \A q \in Request \ {r} : pc'[q] = pc[q]
  BY DEF Contact, Goto, CodeTypes
<1>2. OthersTrace(r) /\ trace'[r].burned = trace[r].burned
  BY ContactTypes
<1>3. Burns /\ NoNewBurns(Request)
  BY <1>1, <1>2 DEF Burns, NoNewBurns, OthersTrace
<1> QED BY <1>1, <1>2, <1>3 DEF Handles, OthersStay, Flight, NoNewBurns

LEMMA ForwardErrorHandles ==
  ASSUME CodeTypes, NEW r \in Request, ForwardError(r)
  PROVE  Handles(r)
<1>1. pc[r] \in {"forward", "sent"} /\ UNCHANGED <<usage, scan>>
  BY DEF ForwardError
<1>2. CASE Answer(r, "abandoned") /\ UNCHANGED <<up, trace>>
  BY <1>1, <1>2, NoBurns, AnswerHandles, Unmoved DEF NoNewBurns, Answers
<1>3. CASE BlameKey(r, 0)
  BY <1>1, <1>3, BlameKeyHandles
<1> QED BY <1>2, <1>3 DEF ForwardError

LEMMA DisconnectHandles ==
  ASSUME CodeTypes, NEW r \in Request, Disconnect(r)
  PROVE  Handles(r)
<1>1. pc[r] = "sent" /\ UNCHANGED <<up, usage, pc, scan, trace>>
  BY DEF Disconnect
<1>2. OthersStay(r) /\ job'[r].key = job[r].key
  BY <1>1, DisconnectTypes DEF OthersStay, Kept
<1>3. Burns /\ NoNewBurns(Request)
  BY <1>1, NoBurns, Unmoved
<1> QED BY <1>1, <1>2, <1>3 DEF Handles, Flight, NoNewBurns

LEMMA KeyFaultHandles ==
  ASSUME CodeTypes, NEW r \in Request, KeyFault(r)
  PROVE  Handles(r)
<1>1. pc[r] \in {"forward", "sent"} /\ UNCHANGED <<usage, scan>>
  BY DEF KeyFault
<1>2. PICK p \in Reply : BlameKey(r, p.status)
  BY DEF KeyFault
<1>3. p.status \in Int
  BY InputAssumption DEF InputAssumption, AllReplies
<1> QED BY <1>1, <1>2, <1>3, BlameKeyHandles

LEMMA PassErrorHandles ==
  ASSUME CodeTypes, NEW r \in Request, PassError(r)
  PROVE  Handles(r)
<1>1. pc[r] = "sent" /\ UNCHANGED <<usage, scan>>
  BY DEF PassError
<1>2. PICK p \in Reply :
        /\ Answer(r, IF p.body = "unreadable" THEN "unreadable" ELSE "upstream_error")
        /\ IF p.body = "unreadable" THEN UNCHANGED <<up, empties, trace>>
                                    ELSE ObserveSuccess(Mine(r))
  BY DEF PassError
<1>3. CASE p.body = "unreadable"
  BY <1>1, <1>2, <1>3, NoBurns, AnswerHandles, Unmoved DEF NoNewBurns, Answers
<1>4. CASE p.body # "unreadable"
  <2>1. Mine(r) \in Key
    BY <1>1, MineType DEF Holding
  <2>2. Burns /\ NoNewBurns(Request)
    BY <1>2, <1>4, <2>1, ObserveSuccessBurns
  <2> QED BY <1>1, <1>2, <1>4, <2>2, AnswerHandles DEF NoNewBurns, Answers
<1> QED BY <1>3, <1>4

LEMMA EmptyAnswerHandles ==
  ASSUME CodeTypes, NEW r \in Request, EmptyAnswer(r)
  PROVE  Handles(r)
<1>1. pc[r] = "sent" /\ UNCHANGED <<usage, scan>> /\ SpendAttempt(r, 200) /\ RecordEmpty(r)
  BY DEF EmptyAnswer
<1>2. Mine(r) \in Key
  BY <1>1, MineType DEF Holding
<1>3. Burns /\ NoNewBurns(Request \ {r})
  BY <1>1, <1>2, RecordEmptyBurns
<1>4. 200 \in Int /\ pc[r] # "scan"
  BY <1>1
<1> QED BY <1>1, <1>3, <1>4, SpendHandles

LEMMA CompleteHandles ==
  ASSUME CodeTypes, NEW r \in Request, Complete(r)
  PROVE  Handles(r)
<1>1. /\ pc[r] = "sent" /\ CountRequest(job[r].key) /\ UNCHANGED <<up, job, scan, trace>>
      /\ pc'[r] = "settle" /\ \A q \in Request \ {r} : pc'[q] = pc[q]
  BY DEF Complete, Goto, CodeTypes, Mine
<1>2. Burns /\ NoNewBurns(Request)
  BY <1>1, NoBurns, Unmoved
<1> QED BY <1>1, <1>2 DEF Handles, OthersStay, Flight, NoNewBurns

LEMMA BeginStreamHandles ==
  ASSUME CodeTypes, NEW r \in Request, BeginStream(r)
  PROVE  Handles(r)
<1>1. /\ pc[r] = "sent" /\ UNCHANGED <<up, usage, job, scan, trace>>
      /\ pc'[r] = "stream" /\ \A q \in Request \ {r} : pc'[q] = pc[q]
  BY DEF BeginStream, Goto, CodeTypes
<1>2. Burns /\ NoNewBurns(Request)
  BY <1>1, NoBurns, Unmoved
<1> QED BY <1>1, <1>2 DEF Handles, OthersStay, Flight, NoNewBurns

LEMMA EndStreamHandles ==
  ASSUME CodeTypes, NEW r \in Request, EndStream(r)
  PROVE  Handles(r)
<1>1. pc[r] = "stream" /\ UNCHANGED scan
  BY DEF EndStream
<1>2. CASE Answer(r, "broken") /\ UNCHANGED <<up, usage, empties, trace>>
  BY <1>1, <1>2, NoBurns, AnswerHandles, Unmoved DEF NoNewBurns, Answers
<1>3. CASE EmptyEnabled /\ RecordEmpty(r) /\ Answer(r, "ok") /\ UNCHANGED usage
  <2>1. Mine(r) \in Key
    BY <1>1, MineType DEF Holding
  <2> QED BY <1>1, <1>3, <2>1, RecordEmptyBurns, AnswerHandles DEF Answers
<1>4. CASE CountRequest(Mine(r)) /\ Goto(r, "settle") /\ UNCHANGED <<up, empties, job, trace>>
  <2>1. Burns /\ NoNewBurns(Request)
    BY <1>4, NoBurns, Unmoved
  <2>2. pc'[r] = "settle" /\ \A q \in Request \ {r} : pc'[q] = pc[q]
    BY <1>4 DEF Goto, CodeTypes
  <2> QED BY <1>1, <1>4, <2>1, <2>2 DEF Handles, OthersStay, Flight, NoNewBurns, Mine
<1> QED BY <1>2, <1>3, <1>4 DEF EndStream

LEMMA SettleHandles ==
  ASSUME CodeTypes, NEW r \in Request, Settle(r)
  PROVE  Handles(r)
<1>1. /\ pc[r] = "settle" /\ UNCHANGED <<usage, job, scan>> /\ ObserveSuccess(Mine(r))
      /\ pc'[r] = "spend" /\ \A q \in Request \ {r} : pc'[q] = pc[q]
  BY DEF Settle, Goto, CodeTypes
<1>2. Mine(r) \in Key
  BY <1>1, MineType DEF Holding
<1>3. Burns /\ NoNewBurns(Request)
  BY <1>1, <1>2, ObserveSuccessBurns
<1> QED BY <1>1, <1>3 DEF Handles, OthersStay, Flight, NoNewBurns

LEMMA SpendLimitHandles ==
  ASSUME CodeTypes, NEW r \in Request, SpendLimit(r)
  PROVE  Handles(r)
<1>1. /\ pc[r] # "scan" /\ UNCHANGED <<usage, scan, trace>> /\ Answer(r, "ok")
      /\ up' \subseteq up
  BY DEF SpendLimit
<1> QED BY <1>1, NoBurns, AnswerHandles, Unmoved DEF NoNewBurns, Answers

LEMMA ServeMoves ==
  ASSUME CodeTypes, NEW r \in Request, Serve(r) \/ Arrive(r) \/ Disconnect(r)
  PROVE  Walks(r) \/ Handles(r)
BY LookWalks, CheckImmediateWalks, TryRouteWalks, ArriveHandles, LeaveHandles, GiveUpHandles,
   TerminateHandles, ExcludeHandles, ContactHandles, ForwardErrorHandles, DisconnectHandles,
   KeyFaultHandles, PassErrorHandles, EmptyAnswerHandles, CompleteHandles, BeginStreamHandles,
   EndStreamHandles, SettleHandles, SpendLimitHandles DEF Serve

(* What the environment does to the lists and the counts.                  *)
LEMMA BenchMoves ==
  ASSUME CodeTypes, NEW k \in Key, Bench(k)
  PROVE  UNCHANGED <<pc, job, scan, usage>> /\ Burns /\ NoNewBurns(Request)
BY NoBurns, Unmoved DEF Bench

LEMMA ReadmitMoves ==
  ASSUME CodeTypes, NEW k \in Key, Readmit(k)
  PROVE  UNCHANGED <<pc, job, scan, usage>> /\ Burns /\ NoNewBurns(Request)
<1>1. \A q \in Request : trace'[q].burned = trace[q].burned \ {k}
  BY ReadmitTypes
<1> QED BY <1>1 DEF Readmit, Burns, NoNewBurns

LEMMA WindowSlidesMoves ==
  ASSUME CodeTypes, NEW k \in Key, WindowSlides(k)
  PROVE  /\ UNCHANGED <<pc, job, scan>> /\ Burns /\ NoNewBurns(Request)
         /\ \A j \in Key : usage'[j] <= usage[j]
<1>1. UNCHANGED <<up, pc, job, scan, trace>>
  BY DEF WindowSlides
<1> QED BY <1>1, WindowSlidesTypes, NoBurns, Unmoved

LEMMA RefreshMoves ==
  ASSUME CodeTypes, Refresh, NEW q \in Request
  PROVE  /\ UNCHANGED <<up, usage, pc, job, trace>>
         /\ pc[q] # "scan" => scan'[q] = scan[q]
         /\ pc[q] = "scan" =>
              \/ scan'[q] = scan[q]
              \/ scan'[q].fresh = FALSE /\ scan'[q].frozen = up
<1>1. scan[q] \in ScanSpace
  BY DEF CodeTypes
<1>2. [scan[q] EXCEPT !.fresh = FALSE, !.frozen = up].fresh = FALSE
  BY <1>1 DEF ScanSpace
<1>3. [scan[q] EXCEPT !.fresh = FALSE, !.frozen = up].frozen = up
  BY <1>1 DEF ScanSpace
<1>4. CASE pc[q] = "scan" /\ scan[q].fresh
  BY <1>2, <1>3, <1>4 DEF Refresh
<1>5. CASE ~(pc[q] = "scan" /\ scan[q].fresh)
  BY <1>5 DEF Refresh
<1> QED BY <1>4, <1>5 DEF Refresh

-----------------------------------------------------------------------------
(* The requests in flight that hold key k; each of them will count against *)
(* its limit once.                                                         *)
InFlight(k) == {r \in Request : pc[r] \in Flight /\ job[r].key = k}

(* The inductive strengthening of OvershootBounded.                        *)
Booked ==
  \A k \in Key : Limit[k] > 0 =>
    usage[k] + Cardinality(InFlight(k)) <= Limit[k] + Cardinality(Request) - 1

LEMMA InFlightFinite ==
  \A k : /\ IsFiniteSet(InFlight(k)) /\ Cardinality(InFlight(k)) \in Nat
         /\ Cardinality(InFlight(k)) <= Cardinality(Request)
         /\ Cardinality(Request) \in Nat
BY FS_Subset, FS_CardinalityType, TopologyAssumption DEF TopologyAssumption, InFlight

LEMMA InFlightNextFinite ==
  \A k : /\ IsFiniteSet(InFlight(k)') /\ Cardinality(InFlight(k)') \in Nat
         /\ Cardinality(InFlight(k)') <= Cardinality(Request)
BY FS_Subset, FS_CardinalityType, TopologyAssumption DEF TopologyAssumption, InFlight

LEMMA FewerBooked ==
  ASSUME CodeTypes, CodeTypes', Booked, NEW k \in Key, Limit[k] > 0,
         InFlight(k)' \subseteq InFlight(k), usage'[k] <= usage[k]
  PROVE  usage'[k] + Cardinality(InFlight(k)') <= Limit[k] + Cardinality(Request) - 1
<1>1. Cardinality(InFlight(k)') <= Cardinality(InFlight(k))
  BY InFlightFinite, FS_Subset
<1>2. usage[k] \in Nat /\ usage'[k] \in Nat /\ Limit[k] \in Nat
  BY TopologyAssumption DEF CodeTypes, TopologyAssumption
<1> QED BY <1>1, <1>2, InFlightFinite, InFlightNextFinite DEF Booked

LEMMA WalkBooked ==
  ASSUME CodeTypes, CodeTypes', Booked, NEW r \in Request, Walks(r)
  PROVE  Booked'
<1> SUFFICES ASSUME NEW k \in Key, Limit[k] > 0
             PROVE  usage'[k] + Cardinality(InFlight(k)') <= Limit[k] + Cardinality(Request) - 1
  BY DEF Booked
<1>1. usage' = usage /\ pc'[r] \in {"scan", "nokey", "forward"}
  BY DEF Walks
<1>2. CASE pc'[r] = "forward" /\ job'[r].key = k
  <2>1. usage[k] < Limit[k]
    BY <1>2 DEF Walks, Usable
  <2>2. usage[k] \in Nat /\ Limit[k] \in Nat
    BY TopologyAssumption DEF CodeTypes, TopologyAssumption
  <2>3. /\ Cardinality(InFlight(k)') \in Nat /\ Cardinality(Request) \in Nat
        /\ Cardinality(InFlight(k)') <= Cardinality(Request)
    BY InFlightFinite, InFlightNextFinite
  <2>4. usage'[k] = usage[k]
    BY <1>1
  <2> QED BY <2>1, <2>2, <2>3, <2>4
<1>3. CASE ~(pc'[r] = "forward" /\ job'[r].key = k)
  <2>1. InFlight(k)' \subseteq InFlight(k)
    BY <1>1, <1>3 DEF InFlight, Walks, OthersStay, Flight
  <2>2. usage'[k] <= usage[k]
    BY <1>1 DEF CodeTypes
  <2> QED BY <2>1, <2>2, FewerBooked
<1> QED BY <1>2, <1>3

LEMMA HandleBooked ==
  ASSUME CodeTypes, CodeTypes', Booked, NEW r \in Request, Handles(r)
  PROVE  Booked'
<1> SUFFICES ASSUME NEW k \in Key, Limit[k] > 0
             PROVE  usage'[k] + Cardinality(InFlight(k)') <= Limit[k] + Cardinality(Request) - 1
  BY DEF Booked
<1>1. InFlight(k)' \subseteq InFlight(k)
  BY DEF InFlight, Handles, OthersStay
<1>2. CASE usage' = usage
  <2>1. usage'[k] <= usage[k]
    BY <1>2 DEF CodeTypes
  <2> QED BY <1>1, <2>1, FewerBooked
<1>3. CASE pc[r] \in Flight /\ pc'[r] \notin Flight /\ CountRequest(job[r].key)
  <2>1. job[r].key \in Key
    BY <1>3, MineType DEF Flight, Holding, Mine
  <2>2. /\ \A j \in Key \ {job[r].key} : usage'[j] = usage[j]
        /\ Limit[job[r].key] > 0 => usage'[job[r].key] = usage[job[r].key] + 1
    BY <1>3, <2>1, CountRequestTypes DEF CodeTypes
  <2>3. CASE job[r].key # k
    <3>1. usage'[k] <= usage[k]
      BY <2>2, <2>3 DEF CodeTypes
    <3> QED BY <1>1, <3>1, FewerBooked
  <2>4. CASE job[r].key = k
    <3>1. r \in InFlight(k) /\ r \notin InFlight(k)'
      BY <1>3, <2>4 DEF InFlight
    <3>2. InFlight(k)' \subseteq InFlight(k) \ {r}
      BY <1>1, <3>1
    <3>3. /\ IsFiniteSet(InFlight(k) \ {r})
          /\ Cardinality(InFlight(k) \ {r}) = Cardinality(InFlight(k)) - 1
      BY <3>1, InFlightFinite, FS_RemoveElement
    <3>4. Cardinality(InFlight(k)') <= Cardinality(InFlight(k)) - 1
      BY <3>2, <3>3, FS_Subset
    <3>5. usage'[k] = usage[k] + 1 /\ usage[k] \in Nat /\ Limit[k] \in Nat
      BY <2>2, <2>4, TopologyAssumption DEF CodeTypes, TopologyAssumption
    <3> QED BY <3>4, <3>5, InFlightFinite, InFlightNextFinite DEF Booked
  <2> QED BY <2>3, <2>4
<1> QED BY <1>2, <1>3 DEF Handles

(* Steps that leave the requests where they are and count nothing.         *)
LEMMA StillBooked ==
  ASSUME CodeTypes, CodeTypes', Booked, UNCHANGED <<pc, job>>,
         \A k \in Key : usage'[k] <= usage[k]
  PROVE  Booked'
<1> SUFFICES ASSUME NEW k \in Key, Limit[k] > 0
             PROVE  usage'[k] + Cardinality(InFlight(k)') <= Limit[k] + Cardinality(Request) - 1
  BY DEF Booked
<1>1. InFlight(k)' = InFlight(k)
  BY DEF InFlight
<1> QED BY <1>1, FewerBooked

LEMMA UsageStays ==
  ASSUME CodeTypes, UNCHANGED usage
  PROVE  \A k \in Key : usage'[k] <= usage[k]
BY DEF CodeTypes

LEMMA NextBooked == CodeTypes /\ CodeTypes' /\ Booked /\ [Next]_vars => Booked'
<1> SUFFICES ASSUME CodeTypes, CodeTypes', Booked, [Next]_vars
             PROVE  Booked'
  OBVIOUS
<1>1. ASSUME NEW r \in Request, Serve(r) \/ Arrive(r) \/ Disconnect(r)
      PROVE  Booked'
  BY <1>1, ServeMoves, WalkBooked, HandleBooked
<1>2. ASSUME NEW k \in Key, Bench(k) \/ Readmit(k)
      PROVE  Booked'
  BY <1>2, BenchMoves, ReadmitMoves, UsageStays, StillBooked
<1>3. ASSUME NEW k \in Key, WindowSlides(k)
      PROVE  Booked'
  BY <1>3, WindowSlidesMoves, StillBooked
<1>4. CASE Refresh
  BY <1>4, UsageStays, StillBooked DEF Refresh
<1>5. CASE UNCHANGED vars
  BY <1>5, UsageStays, StillBooked DEF vars, code
<1> QED BY <1>1, <1>2, <1>3, <1>4, <1>5 DEF Next, Surroundings

LEMMA InitBooked == Init => Booked
<1> SUFFICES ASSUME Init, NEW k \in Key, Limit[k] > 0
             PROVE  usage[k] + Cardinality(InFlight(k)) <= Limit[k] + Cardinality(Request) - 1
  BY DEF Booked
<1>1. InFlight(k) = {} /\ usage[k] = 0
  BY DEF Init, InFlight, Flight
<1>2. Cardinality(InFlight(k)) = 0
  BY <1>1, FS_EmptySet
<1>3. Limit[k] \in Nat
  BY TopologyAssumption DEF TopologyAssumption
<1> QED BY <1>1, <1>2, <1>3, InFlightFinite

LEMMA BookedBounds == CodeTypes /\ Booked => OvershootBounded
<1> SUFFICES ASSUME CodeTypes, Booked, NEW k \in Key, Limit[k] > 0
             PROVE  usage[k] <= Limit[k] + Cardinality(Request) - 1
  BY DEF OvershootBounded
<1>1. usage[k] \in Nat /\ Limit[k] \in Nat
  BY TopologyAssumption DEF CodeTypes, TopologyAssumption
<1> QED BY <1>1, InFlightFinite DEF Booked

(* However many requests run, a key's limit is overshot by fewer requests  *)
(* than run: RecordSuccess counts a request after its answer, SelectKey    *)
(* checks the count before, and nothing is reserved in between.            *)
THEOREM OvershootAlwaysBounded == Spec => []OvershootBounded
BY NextTypes, InitTypes, InitBooked, NextBooked, BookedBounds, PTL DEF Spec

-----------------------------------------------------------------------------
(* The key objects a selection reads: the engine's, or those it found when *)
(* it began.                                                               *)
FreshOutside == \A r \in Request : pc[r] # "scan" => scan[r].fresh = TRUE

LEMMA ViewIs ==
  ASSUME CodeTypes, NEW r \in Request
  PROVE  /\ scan[r].fresh = TRUE => View(r) = up
         /\ scan[r].fresh = FALSE => View(r) = scan[r].frozen
         /\ scan[r].fresh \in BOOLEAN
<1>1. scan[r].fresh \in BOOLEAN
  BY DEF CodeTypes, ScanSpace
<1> QED BY <1>1 DEF View

LEMMA ViewIsNext ==
  ASSUME CodeTypes', NEW r \in Request
  PROVE  /\ scan'[r].fresh = TRUE => View(r)' = up'
         /\ scan'[r].fresh = FALSE => View(r)' = scan'[r].frozen
         /\ scan'[r].fresh \in BOOLEAN
<1>1. scan'[r].fresh \in BOOLEAN
  BY DEF CodeTypes, ScanSpace
<1> QED BY <1>1 DEF View

(* A running selection keeps its key objects, or reads the engine's.       *)
ViewStays(r) ==
  pc'[r] = "scan" =>
    \/ pc[r] = "scan" /\ View(r)' \in {View(r), up'}
    \/ View(r)' = up' /\ UNCHANGED up

LEMMA SameScanView ==
  ASSUME CodeTypes, CodeTypes', FreshOutside, NEW q \in Request,
         scan'[q] = scan[q], pc'[q] = pc[q]
  PROVE  ViewStays(q)
BY ViewIs, ViewIsNext DEF ViewStays

LEMMA WalksView ==
  ASSUME CodeTypes, CodeTypes', FreshOutside, NEW r \in Request, Walks(r), NEW q \in Request
  PROVE  ViewStays(q) /\ (pc'[q] # "scan" => scan'[q].fresh = TRUE)
<1>1. CASE q # r
  <2>1. scan'[q] = scan[q] /\ pc'[q] = pc[q]
    BY <1>1 DEF Walks, OthersStay
  <2> QED BY <2>1, SameScanView DEF FreshOutside
<1>2. CASE q = r /\ pc'[r] = "scan"
  <2>1. /\ scan'[r].fresh = scan[r].fresh /\ scan'[r].frozen = scan[r].frozen /\ up' = up
        /\ pc[r] \in {"select", "scan"}
    BY <1>2 DEF Walks
  <2>2. CASE pc[r] = "select"
    <3>1. scan'[r].fresh = TRUE
      BY <2>1, <2>2 DEF FreshOutside
    <3> QED BY <1>2, <2>1, <3>1, ViewIsNext DEF ViewStays
  <2>3. CASE pc[r] = "scan"
    BY <1>2, <2>1, <2>3, ViewIs, ViewIsNext DEF ViewStays
  <2> QED BY <2>1, <2>2, <2>3
<1>3. CASE q = r /\ pc'[r] # "scan"
  <2>1. scan'[r] = NoScan \/ (pc[r] = "select" /\ scan' = scan)
    BY <1>3 DEF Walks
  <2>2. scan'[r].fresh = TRUE
    BY <2>1 DEF FreshOutside, NoScan
  <2> QED BY <1>3, <2>2 DEF ViewStays
<1> QED BY <1>1, <1>2, <1>3

LEMMA HandlesView ==
  ASSUME CodeTypes, CodeTypes', FreshOutside, NEW r \in Request, Handles(r), NEW q \in Request
  PROVE  ViewStays(q) /\ (pc'[q] # "scan" => scan'[q].fresh = TRUE)
<1>1. CASE q # r
  <2>1. scan'[q] = scan[q] /\ pc'[q] = pc[q]
    BY <1>1 DEF Handles, OthersStay
  <2> QED BY <2>1, SameScanView DEF FreshOutside
<1>2. CASE q = r
  BY <1>2 DEF Handles, ViewStays, FreshOutside
<1> QED BY <1>1, <1>2

LEMMA RefreshView ==
  ASSUME CodeTypes, CodeTypes', FreshOutside, Refresh, NEW q \in Request
  PROVE  ViewStays(q) /\ (pc'[q] # "scan" => scan'[q].fresh = TRUE)
<1>1. up' = up /\ pc' = pc
  BY RefreshMoves
<1>2. CASE scan'[q] = scan[q]
  BY <1>1, <1>2, SameScanView DEF FreshOutside
<1>3. CASE pc[q] = "scan" /\ scan'[q].fresh = FALSE /\ scan'[q].frozen = up
  <2>1. View(q)' = up'
    BY <1>1, <1>3, ViewIsNext
  <2> QED BY <1>1, <1>3, <2>1 DEF ViewStays
<1> QED BY <1>2, <1>3, RefreshMoves

LEMMA StillView ==
  ASSUME CodeTypes, CodeTypes', FreshOutside, UNCHANGED <<pc, scan>>, NEW q \in Request
  PROVE  ViewStays(q) /\ (pc'[q] # "scan" => scan'[q].fresh = TRUE)
BY SameScanView DEF FreshOutside

LEMMA NextView ==
  ASSUME CodeTypes, CodeTypes', FreshOutside, [Next]_vars
  PROVE  FreshOutside' /\ \A q \in Request : ViewStays(q)
<1> SUFFICES ASSUME NEW q \in Request
             PROVE  ViewStays(q) /\ (pc'[q] # "scan" => scan'[q].fresh = TRUE)
  BY DEF FreshOutside
<1>1. ASSUME NEW r \in Request, Serve(r) \/ Arrive(r) \/ Disconnect(r)
      PROVE  ViewStays(q) /\ (pc'[q] # "scan" => scan'[q].fresh = TRUE)
  BY <1>1, ServeMoves, WalksView, HandlesView
<1>2. ASSUME NEW k \in Key, Bench(k) \/ Readmit(k) \/ WindowSlides(k)
      PROVE  ViewStays(q) /\ (pc'[q] # "scan" => scan'[q].fresh = TRUE)
  BY <1>2, BenchMoves, ReadmitMoves, WindowSlidesMoves, StillView
<1>3. CASE Refresh
  BY <1>3, RefreshView
<1>4. CASE UNCHANGED vars
  BY <1>4, StillView DEF vars, code
<1> QED BY <1>1, <1>2, <1>3, <1>4 DEF Next, Surroundings

LEMMA InitFresh == Init => FreshOutside
BY DEF Init, FreshOutside, NoScan

-----------------------------------------------------------------------------
(* What a running selection reads was available since it began.            *)
Seen == \A r \in Request : pc[r] = "scan" => View(r) \subseteq sight[r].up

LEMMA NextSeen ==
  CodeTypes /\ CodeTypes' /\ SightTypes /\ FreshOutside /\ Seen /\ [Next]_vars => Seen'
<1> SUFFICES ASSUME CodeTypes, CodeTypes', SightTypes, FreshOutside, Seen, [Next]_vars,
                    NEW r \in Request, pc'[r] = "scan"
             PROVE  View(r)' \subseteq sight'[r].up
  BY DEF Seen
<1>1. CASE Next
  <2>1. sight'[r].up = IF pc[r] # "scan" THEN up ELSE sight[r].up \cup up'
    BY <1>1, WatchTypes DEF Next
  <2>2. ViewStays(r)
    BY NextView
  <2>3. CASE pc[r] = "scan" /\ View(r)' \in {View(r), up'}
    BY <2>1, <2>3 DEF Seen
  <2>4. CASE View(r)' = up' /\ UNCHANGED up
    BY <2>1, <2>4
  <2> QED BY <2>2, <2>3, <2>4 DEF ViewStays
<1>2. CASE UNCHANGED vars
  <2>1. View(r)' = View(r)
    BY <1>2 DEF vars, code, View
  <2> QED BY <1>2, <2>1 DEF vars, code, Seen
<1> QED BY <1>1, <1>2

LEMMA PickSeen ==
  ASSUME CodeTypes, Seen, [Next]_vars, NEW r \in Request, pc[r] = "scan", pc'[r] = "forward"
  PROVE  LET k == job'[r].key IN
         k \in sight[r].up /\ (Limit[k] = 0 \/ usage[k] < Limit[k])
<1>1. ASSUME NEW q \in Request, Serve(q) \/ Arrive(q) \/ Disconnect(q)
      PROVE  Usable(View(r), job'[r].key)
  <2>1. Walks(q) \/ Handles(q)
    BY <1>1, ServeMoves
  <2>2. r = q
    BY <2>1 DEF Walks, Handles, OthersStay
  <2> QED BY <2>1, <2>2 DEF Walks, Handles
<1>2. ASSUME NEW k \in Key, Bench(k) \/ Readmit(k) \/ WindowSlides(k)
      PROVE  FALSE
  BY <1>2, BenchMoves, ReadmitMoves, WindowSlidesMoves
<1>3. ~Refresh /\ ~UNCHANGED vars
  BY DEF Refresh, vars, code
<1>4. Usable(View(r), job'[r].key)
  BY <1>1, <1>2, <1>3 DEF Next, Surroundings
<1> QED BY <1>4 DEF Usable, Seen

LEMMA InitSeen == Init => Seen
BY DEF Init, Seen

(* Refresh swaps the route table under running selections, which go on     *)
(* reading the key objects they found: still, the key one of them returns  *)
(* was available during that selection and is below its limit.             *)
THEOREM PickAlwaysAvailable == Spec => PickWasAvailable
<1>2. CodeTypes /\ CodeTypes' /\ FreshOutside /\ [Next]_vars => FreshOutside'
  BY NextView
<1>3. CodeTypes /\ Seen /\ [Next]_vars =>
        [\A r \in Request :
           pc[r] = "scan" /\ pc'[r] = "forward" =>
             LET k == job'[r].key IN
             k \in sight[r].up /\ (Limit[k] = 0 \/ usage[k] < Limit[k])]_vars
  BY PickSeen
<1> QED BY NextTypes, <1>2, <1>3, InitTypes, InitFresh, InitSeen, NextSeen, PTL
        DEF Spec, PickWasAvailable

-----------------------------------------------------------------------------
(* No key a request has seen fail is available to it, in the engine or in  *)
(* the objects its running selection reads, unless re-admitted since.      *)
Clean ==
  /\ \A r \in Request : trace[r].burned \cap up = {}
  /\ \A r \in Request : pc[r] = "scan" => trace[r].burned \cap View(r) = {}
  /\ NoRepeat

(* A selection in progress gains no failures.                              *)
LEMMA CleanStep ==
  ASSUME Clean, Burns, NEW q \in Request, ViewStays(q),
         pc[q] = "scan" => trace'[q].burned \subseteq trace[q].burned
  PROVE  /\ trace'[q].burned \cap up' = {}
         /\ pc'[q] = "scan" => trace'[q].burned \cap View(q)' = {}
<1>1. trace'[q].burned \cap up' = {}
  BY DEF Clean, Burns
<1> QED BY <1>1 DEF Clean, ViewStays

LEMMA WalksClean ==
  ASSUME Clean, NEW r \in Request, Walks(r), \A q \in Request : ViewStays(q)
  PROVE  Clean'
<1>1. Burns /\ UNCHANGED trace
  BY DEF Walks, Burns
<1>2. ASSUME NEW q \in Request, pc'[q] \in {"forward", "sent"}
      PROVE  job'[q].key \notin trace'[q].burned
  <2>1. CASE q = r
    <3>1. pc[r] = "scan" /\ job'[r].key \in View(r)
      BY <1>2, <2>1 DEF Walks, Usable
    <3> QED BY <1>1, <2>1, <3>1 DEF Clean
  <2>2. CASE q # r
    BY <1>1, <1>2, <2>2 DEF Walks, OthersStay, Clean, NoRepeat, Mine
  <2> QED BY <2>1, <2>2
<1>3. \A q \in Request : /\ trace'[q].burned \cap up' = {}
                         /\ pc'[q] = "scan" => trace'[q].burned \cap View(q)' = {}
  BY <1>1, CleanStep
<1> QED BY <1>2, <1>3 DEF Clean, NoRepeat, Mine

LEMMA HandlesClean ==
  ASSUME Clean, NEW r \in Request, Handles(r), \A q \in Request : ViewStays(q)
  PROVE  Clean'
<1>1. /\ Burns /\ pc[r] # "scan"
      /\ \A q \in Request \ {r} : trace'[q].burned \subseteq trace[q].burned
  BY DEF Handles, NoNewBurns
<1>2. ASSUME NEW q \in Request, pc'[q] \in {"forward", "sent"}
      PROVE  job'[q].key \notin trace'[q].burned
  <2>1. CASE q = r
    <3>1. /\ pc[r] \in {"forward", "sent"} /\ job'[r].key = job[r].key
          /\ trace'[r].burned \subseteq trace[r].burned
      BY <1>2, <2>1 DEF Handles, Flight
    <3> QED BY <2>1, <3>1 DEF Clean, NoRepeat, Mine
  <2>2. CASE q # r
    BY <1>1, <1>2, <2>2 DEF Handles, OthersStay, Clean, NoRepeat, Mine
  <2> QED BY <2>1, <2>2
<1>3. ASSUME NEW q \in Request
      PROVE  /\ trace'[q].burned \cap up' = {}
             /\ pc'[q] = "scan" => trace'[q].burned \cap View(q)' = {}
  BY <1>1, CleanStep
<1> QED BY <1>2, <1>3 DEF Clean, NoRepeat, Mine

LEMMA StillClean ==
  ASSUME Clean, UNCHANGED <<pc, job>>, Burns, NoNewBurns(Request),
         \A q \in Request : ViewStays(q)
  PROVE  Clean'
<1>1. \A q \in Request : trace'[q].burned \subseteq trace[q].burned
  BY DEF NoNewBurns
<1>2. ASSUME NEW q \in Request
      PROVE  /\ trace'[q].burned \cap up' = {}
             /\ pc'[q] = "scan" => trace'[q].burned \cap View(q)' = {}
  BY <1>1, CleanStep
<1>3. NoRepeat'
  BY <1>1 DEF Clean, NoRepeat, Mine
<1> QED BY <1>2, <1>3 DEF Clean

LEMMA NextClean ==
  CodeTypes /\ CodeTypes' /\ FreshOutside /\ Clean /\ [Next]_vars => Clean'
<1> SUFFICES ASSUME CodeTypes, CodeTypes', FreshOutside, Clean, [Next]_vars
             PROVE  Clean'
  OBVIOUS
<1>1. \A q \in Request : ViewStays(q)
  BY NextView
<1>2. ASSUME NEW r \in Request, Serve(r) \/ Arrive(r) \/ Disconnect(r)
      PROVE  Clean'
  BY <1>1, <1>2, ServeMoves, WalksClean, HandlesClean
<1>3. ASSUME NEW k \in Key, Bench(k) \/ Readmit(k) \/ WindowSlides(k)
      PROVE  Clean'
  BY <1>1, <1>3, BenchMoves, ReadmitMoves, WindowSlidesMoves, StillClean
<1>4. CASE Refresh
  <2>1. UNCHANGED <<up, pc, job, trace>>
    BY <1>4 DEF Refresh
  <2>2. Burns /\ NoNewBurns(Request)
    BY <2>1 DEF Burns, NoNewBurns
  <2> QED BY <1>1, <2>1, <2>2, StillClean
<1>5. CASE UNCHANGED vars
  <2>1. UNCHANGED <<up, pc, job, trace>>
    BY <1>5 DEF vars, code
  <2>2. Burns /\ NoNewBurns(Request)
    BY <2>1 DEF Burns, NoNewBurns
  <2> QED BY <1>1, <2>1, <2>2, StillClean
<1> QED BY <1>2, <1>3, <1>4, <1>5 DEF Next, Surroundings

LEMMA InitClean == Init => Clean
BY DEF Init, Clean, NoRepeat, NoTrace

(* Failover is real: whatever admins, probes and other requests do, a      *)
(* request is never sent to a key it has itself seen fail, unless that key *)
(* was re-admitted in between.                                             *)
THEOREM FailoverNeverRepeats == Spec => []NoRepeat
<1>2. CodeTypes /\ CodeTypes' /\ FreshOutside /\ [Next]_vars => FreshOutside'
  BY NextView
<1>3. Clean => NoRepeat
  BY DEF Clean
<1> QED BY NextTypes, <1>2, <1>3, InitTypes, InitFresh, InitClean, NextClean, PTL DEF Spec

-----------------------------------------------------------------------------
(* What a request has spent and met.                                       *)

Looping == {"select", "scan", "nokey", "forward"}

(* Contacts made against attempts spent and configured.                    *)
Paid(at, j, contacts) ==
  /\ j.retries <= MaxRetries
  /\ contacts <= j.retries + 1
  /\ at \in Looping => /\ contacts <= j.attempt
                       /\ j.kind # "malformed" => j.attempt = contacts
  /\ at \in Looping \ {"select"} => j.attempt <= j.retries
  /\ at = "select" => j.attempt <= j.retries + 1
  /\ at = "sent" => /\ j.attempt <= j.retries /\ contacts <= j.attempt + 1
                    /\ j.kind # "malformed" => contacts = j.attempt + 1
  /\ at = "idle" => contacts = 0

(* What the loop remembers is what the request met last.                   *)
Claim(a, met) == /\ a = "key_invalid" => met \in {400, 401}
                 /\ a = "forbidden" => met = 403
                 /\ a = "quota" => met = 402
                 /\ a = "all_failed" => met \in {0, 200, 500}
Told(at, j, met) ==
  /\ met \in {0, 200, 400, 401, 402, 403, 429, 500}
  /\ at \in Looping \cup {"sent"} => j.last = met
  /\ at = "idle" => met = 0
  /\ at # "done" => j.answer = "none"
  /\ Claim(j.answer, met)

Account(r) == Paid(pc[r], job[r], trace[r].contacts) /\ Told(pc[r], job[r], trace[r].met)
Accounts == \A r \in Request : Account(r)

SameMeetings(Q) == \A q \in Q : /\ trace'[q].contacts = trace[q].contacts
                                /\ trace'[q].met = trace[q].met

LEMMA Counts ==
  ASSUME CodeTypes, NEW r \in Request
  PROVE  /\ job[r].attempt \in Nat /\ job[r].retries \in Nat /\ job[r].last \in Int
         /\ trace[r].contacts \in Nat /\ trace[r].met \in Int /\ MaxRetries \in Nat
  BY SettingAssumption DEF CodeTypes, JobSpace, SettingAssumption

(* Moves that spend nothing and meet nothing.                              *)
LEMMA MoveAccount ==
  ASSUME CodeTypes, NEW r \in Request, Account(r), SameMeetings(Request),
         job'[r].kind = job[r].kind, job'[r].retries = job[r].retries,
         job'[r].attempt = job[r].attempt, job'[r].last = job[r].last,
         job'[r].answer = job[r].answer,
         \/ pc'[r] = pc[r]
         \/ pc[r] \in Looping /\ pc'[r] \in Looping /\ job[r].attempt <= job[r].retries
         \/ pc[r] # "idle" /\ pc'[r] \in {"stream", "settle", "spend"} /\ pc[r] # "done"
  PROVE  Account(r)'
<1>1. Paid(pc'[r], job'[r], trace'[r].contacts)
  BY Counts DEF Account, Paid, SameMeetings, Looping
<1>2. Told(pc'[r], job'[r], trace'[r].met)
  BY DEF Account, Told, SameMeetings, Looping
<1> QED BY <1>1, <1>2 DEF Account

LEMMA AnswerAccount ==
  ASSUME CodeTypes, NEW r \in Request, Account(r), NEW a \in Answers, Answer(r, a),
         trace'[r].contacts = trace[r].contacts, trace'[r].met \in {trace[r].met, 200},
         Claim(a, trace'[r].met)
  PROVE  Account(r)'
<1>1. /\ pc'[r] = "done" /\ job'[r].retries = job[r].retries /\ job'[r].answer = a
  BY AnswerTypes DEF CodeTypes, Kept
<1>2. Paid(pc'[r], job'[r], trace'[r].contacts)
  BY <1>1, Counts DEF Account, Paid, Looping
<1>3. Told(pc'[r], job'[r], trace'[r].met)
  BY <1>1 DEF Account, Told, Looping
<1> QED BY <1>2, <1>3 DEF Account

LEMMA SpendAccount ==
  ASSUME CodeTypes, NEW r \in Request, Account(r), NEW status \in Int, SpendAttempt(r, status),
         trace'[r].contacts = trace[r].contacts, trace'[r].met = status,
         status \in {0, 200, 400, 401, 402, 403, 429, 500},
         pc[r] = "sent" \/ (pc[r] = "forward" /\ job[r].kind = "malformed")
  PROVE  Account(r)'
<1>1. /\ pc'[r] = "select" /\ job'[r].retries = job[r].retries /\ job'[r].kind = job[r].kind
      /\ job'[r].attempt = job[r].attempt + 1 /\ job'[r].last = status
      /\ job'[r].answer = job[r].answer
  BY SpendAttemptTypes DEF CodeTypes, Kept
<1>2. Paid(pc'[r], job'[r], trace'[r].contacts)
  BY <1>1, Counts DEF Account, Paid, Looping
<1>3. Told(pc'[r], job'[r], trace'[r].met)
  <2>1. job[r].answer = "none"
    BY DEF Account, Told
  <2> QED BY <1>1, <2>1 DEF Told, Looping, Claim
<1> QED BY <1>2, <1>3 DEF Account

(* An answer that says nothing about what was met.                         *)
LEMMA NoClaim ==
  ASSUME NEW a \in Answers \ {"key_invalid", "forbidden", "quota", "all_failed"}, NEW met
  PROVE  Claim(a, met)
  BY DEF Claim

LEMMA ArriveAccount ==
  ASSUME CodeTypes, NEW r \in Request, Account(r), Arrive(r)
  PROVE  Account(r)'
<1>1. PICK kind \in Kind, n \in RetrySetting \cup {DefaultRetries} :
        job' = [job EXCEPT ![r] = [NoJob EXCEPT !.kind = kind, !.retries = Retries(n),
                                     !.answer = IF routes = {} THEN "no_routes" ELSE "none"]]
  BY DEF Arrive
<1> DEFINE a == IF routes = {} THEN "no_routes" ELSE "none"
           j == [NoJob EXCEPT !.kind = kind, !.retries = Retries(n), !.answer = a]
<1>2. Retries(n) \in Nat /\ Retries(n) <= MaxRetries
  BY SettingAssumption DEF Retries, AtMost, SettingAssumption
<1>3. j.retries = Retries(n) /\ j.attempt = 0 /\ j.last = 0 /\ j.answer = a
  <2> HIDE DEF a
  <2> QED BY DEF NoJob
<1>4. job'[r] = j
  BY <1>1 DEF CodeTypes
<1> HIDE DEF j
<1>5. /\ pc[r] = "idle" /\ pc'[r] = (IF routes = {} THEN "done" ELSE "select") /\ trace' = trace
  BY DEF Arrive, Goto, CodeTypes
<1>6. Paid(pc'[r], job'[r], trace'[r].contacts)
  BY <1>2, <1>3, <1>4, <1>5, Counts DEF Account, Paid, Looping
<1>7. Told(pc'[r], job'[r], trace'[r].met)
  BY <1>3, <1>4, <1>5 DEF Account, Told, Looping, Claim
<1> QED BY <1>6, <1>7 DEF Account

LEMMA LeaveAccount ==
  ASSUME CodeTypes, NEW r \in Request, Leave(r)
  PROVE  Account(r)' /\ SameMeetings(Request \ {r})
<1>1. /\ pc'[r] = "idle" /\ job'[r] = NoJob /\ trace'[r] = NoTrace
      /\ \A q \in Request \ {r} : trace'[q] = trace[q]
  BY DEF Leave, Goto, CodeTypes
<1>2. /\ NoJob.retries = 0 /\ NoJob.answer = "none" /\ NoTrace.contacts = 0 /\ NoTrace.met = 0
  BY DEF NoJob, NoTrace
<1>3. Paid(pc'[r], job'[r], trace'[r].contacts)
  BY <1>1, <1>2, SettingAssumption DEF Paid, Looping, SettingAssumption
<1>4. Told(pc'[r], job'[r], trace'[r].met)
  BY <1>1, <1>2 DEF Told, Looping, Claim
<1> QED BY <1>1, <1>3, <1>4 DEF Account, SameMeetings

LEMMA WalkAccount ==
  ASSUME CodeTypes, NEW r \in Request, Account(r), Look(r) \/ CheckImmediate(r) \/ TryRoute(r)
  PROVE  Account(r)' /\ SameMeetings(Request)
<1>1. Walks(r)
  BY LookWalks, CheckImmediateWalks, TryRouteWalks
<1>2. /\ UNCHANGED trace /\ pc[r] \in {"select", "scan"} /\ pc'[r] \in {"scan", "nokey", "forward"}
  BY <1>1 DEF Walks
<1>3. job[r].attempt <= job[r].retries
  BY Counts DEF Look, CheckImmediate, TryRoute, Account, Paid, Looping
<1>4. /\ job'[r].kind = job[r].kind /\ job'[r].retries = job[r].retries
      /\ job'[r].attempt = job[r].attempt /\ job'[r].last = job[r].last
      /\ job'[r].answer = job[r].answer
  <2>1. ASSUME NEW x, NEW k, job' = [job EXCEPT ![r].route = x, ![r].key = k]
        PROVE  /\ job'[r].kind = job[r].kind /\ job'[r].retries = job[r].retries
               /\ job'[r].attempt = job[r].attempt /\ job'[r].last = job[r].last
               /\ job'[r].answer = job[r].answer
    <3>1. job[r] \in JobSpace
      BY DEF CodeTypes
    <3>2. job'[r] = [job[r] EXCEPT !.route = x, !.key = k]
      BY <2>1 DEF CodeTypes
    <3> QED BY <3>1, <3>2 DEF JobSpace
  <2>2. job' = job \/ \E x, k : job' = [job EXCEPT ![r].route = x, ![r].key = k]
    BY Zenon DEF Look, CheckImmediate, TryRoute
  <2> QED BY <2>1, <2>2
<1>5. SameMeetings(Request)
  BY <1>2 DEF SameMeetings
<1>6. pc[r] \in Looping /\ pc'[r] \in Looping
  BY <1>2 DEF Looping
<1> QED BY <1>3, <1>4, <1>5, <1>6, MoveAccount

LEMMA GiveUpAccount ==
  ASSUME CodeTypes, NEW r \in Request, Account(r), GiveUp(r)
  PROVE  Account(r)' /\ SameMeetings(Request)
<1>1. \E a \in {"unsupported", "exhausted"} : Answer(r, a)
  BY DEF GiveUp
<1>2. UNCHANGED trace
  BY DEF GiveUp
<1> QED BY <1>1, <1>2, AnswerAccount, NoClaim DEF SameMeetings, Answers

(* The status the loop ended on is the one the answer is made of.          *)
LEMMA TerminateAccount ==
  ASSUME CodeTypes, NEW r \in Request, Account(r), Terminate(r)
  PROVE  Account(r)' /\ SameMeetings(Request)
<1>1. /\ UNCHANGED trace /\ Answer(r, TerminalStatus(job[r].last)) /\ pc[r] = "select"
  BY DEF Terminate
<1>2. /\ job[r].last = trace[r].met
      /\ trace[r].met \in {0, 200, 400, 401, 402, 403, 429, 500}
  BY <1>1 DEF Account, Told, Looping
<1>3. Claim(TerminalStatus(job[r].last), trace'[r].met) /\ TerminalStatus(job[r].last) \in Answers
  BY <1>1, <1>2 DEF Claim, TerminalStatus, Answers
<1> QED BY <1>1, <1>3, AnswerAccount DEF SameMeetings

LEMMA ExcludeAccount ==
  ASSUME CodeTypes, NEW r \in Request, Account(r), Exclude(r)
  PROVE  Account(r)' /\ SameMeetings(Request)
<1>1. /\ UNCHANGED trace /\ pc[r] = "forward" /\ pc'[r] = "select"
  BY DEF Exclude, Goto, CodeTypes
<1>2. job[r].attempt <= job[r].retries
  BY <1>1 DEF Account, Paid, Looping
<1>3. SameMeetings(Request)
  BY <1>1 DEF SameMeetings
<1>4. pc[r] \in Looping /\ pc'[r] \in Looping
  BY <1>1 DEF Looping
<1> QED BY <1>2, <1>3, <1>4, ExcludeTypes, MoveAccount DEF Kept

LEMMA ContactAccount ==
  ASSUME CodeTypes, NEW r \in Request, Account(r), Contact(r)
  PROVE  Account(r)' /\ SameMeetings(Request \ {r})
<1>1. /\ pc[r] = "forward" /\ pc'[r] = "sent" /\ job' = job
  BY DEF Contact, Goto, CodeTypes
<1>2. /\ OthersTrace(r) /\ trace'[r].contacts = trace[r].contacts + 1
      /\ trace'[r].met = trace[r].met
  BY ContactTypes
<1>3. Paid(pc'[r], job'[r], trace'[r].contacts)
  BY <1>1, <1>2, Counts DEF Account, Paid, Looping
<1>4. Told(pc'[r], job'[r], trace'[r].met)
  BY <1>1, <1>2 DEF Account, Told, Looping
<1> QED BY <1>2, <1>3, <1>4 DEF Account, SameMeetings, OthersTrace

LEMMA BlameAccount ==
  ASSUME CodeTypes, NEW r \in Request, Account(r), NEW status \in Int, BlameKey(r, status),
         status \in {0, 400, 401, 402, 403, 429, 500},
         pc[r] = "sent" \/ (pc[r] = "forward" /\ job[r].kind = "malformed")
  PROVE  Account(r)' /\ SameMeetings(Request \ {r})
<1>1. Mine(r) \in Key
  BY MineType DEF Holding
<1>2. /\ SpendAttempt(r, status) /\ OthersTrace(r)
      /\ trace'[r].met = status /\ trace'[r].contacts = trace[r].contacts
  BY <1>1, BlameKeyTypes
<1> QED BY <1>2, SpendAccount DEF SameMeetings, OthersTrace

LEMMA ForwardErrorAccount ==
  ASSUME CodeTypes, NEW r \in Request, Account(r), ForwardError(r)
  PROVE  Account(r)' /\ SameMeetings(Request \ {r})
<1>1. CASE Answer(r, "abandoned") /\ UNCHANGED <<up, trace>>
  BY <1>1, AnswerAccount, NoClaim DEF SameMeetings, Answers
<1>2. CASE BlameKey(r, 0)
  BY <1>2, BlameAccount DEF ForwardError, Unconvertible
<1> QED BY <1>1, <1>2 DEF ForwardError

LEMMA KeyFaultAccount ==
  ASSUME CodeTypes, NEW r \in Request, Account(r), KeyFault(r)
  PROVE  Account(r)' /\ SameMeetings(Request \ {r})
<1>1. PICK p \in Reply : BlamesKey(p) /\ BlameKey(r, p.status)
  BY DEF KeyFault
<1>2. p.status \in {400, 401, 402, 403, 429, 500}
  <2>1. p.status \in {402, 403, 500} \/ p.status \in {401, 429} \/ p.status = 400
    BY <1>1 DEF BlamesKey
  <2> QED BY <2>1
<1>3. pc[r] = "sent" /\ p.status \in Int
  BY <1>2 DEF KeyFault
<1> QED BY <1>1, <1>2, <1>3, BlameAccount

LEMMA PassErrorAccount ==
  ASSUME CodeTypes, NEW r \in Request, Account(r), PassError(r)
  PROVE  Account(r)' /\ SameMeetings(Request)
<1>1. PICK p \in Reply :
        /\ Answer(r, IF p.body = "unreadable" THEN "unreadable" ELSE "upstream_error")
        /\ IF p.body = "unreadable" THEN UNCHANGED <<up, empties, trace>>
                                    ELSE ObserveSuccess(Mine(r))
  BY DEF PassError
<1>2. SameMeetings(Request)
  <2>1. Mine(r) \in Key
    BY MineType DEF Holding, PassError
  <2> QED BY <1>1, <2>1, ObserveSuccessTypes DEF SameMeetings
<1>3. \E a \in {"unreadable", "upstream_error"} : Answer(r, a)
  BY <1>1
<1> QED BY <1>2, <1>3, AnswerAccount, NoClaim DEF SameMeetings, Answers

LEMMA EmptyAnswerAccount ==
  ASSUME CodeTypes, NEW r \in Request, Account(r), EmptyAnswer(r)
  PROVE  Account(r)' /\ SameMeetings(Request \ {r})
<1>1. pc[r] = "sent" /\ SpendAttempt(r, 200) /\ RecordEmpty(r)
  BY DEF EmptyAnswer
<1>2. OthersTrace(r) /\ trace'[r].contacts = trace[r].contacts /\ trace'[r].met = 200
  BY <1>1, MineType, RecordEmptyTypes DEF Holding
<1> QED BY <1>1, <1>2, SpendAccount DEF SameMeetings, OthersTrace

LEMMA SuccessAccount ==
  ASSUME CodeTypes, NEW r \in Request, Account(r),
         Complete(r) \/ BeginStream(r) \/ Settle(r) \/ Disconnect(r)
  PROVE  Account(r)' /\ SameMeetings(Request)
<1>1. CASE Complete(r) \/ BeginStream(r)
  <2>1. /\ job' = job /\ trace' = trace /\ pc[r] = "sent" /\ pc'[r] \in {"settle", "stream"}
    BY <1>1 DEF Complete, BeginStream, Goto, CodeTypes
  <2> QED BY <2>1, MoveAccount DEF SameMeetings
<1>2. CASE Settle(r)
  <2>1. /\ job' = job /\ pc[r] = "settle" /\ pc'[r] = "spend" /\ ObserveSuccess(Mine(r))
    BY <1>2 DEF Settle, Goto, CodeTypes
  <2>2. SameMeetings(Request)
    BY <2>1, MineType, ObserveSuccessTypes DEF Holding, SameMeetings
  <2> QED BY <2>1, <2>2, MoveAccount
<1>3. CASE Disconnect(r)
  <2>1. UNCHANGED <<pc, trace>>
    BY <1>3 DEF Disconnect
  <2> QED BY <1>3, <2>1, DisconnectTypes, MoveAccount DEF SameMeetings, Kept
<1> QED BY <1>1, <1>2, <1>3

LEMMA EndAccount ==
  ASSUME CodeTypes, NEW r \in Request, Account(r), EndStream(r) \/ SpendLimit(r)
  PROVE  Account(r)' /\ SameMeetings(Request \ {r})
<1>1. CASE UNCHANGED trace /\ \E a \in {"broken", "ok"} : Answer(r, a)
  BY <1>1, AnswerAccount, NoClaim DEF SameMeetings, Answers
<1>2. CASE EndStream(r) /\ RecordEmpty(r) /\ Answer(r, "ok")
  <2>1. OthersTrace(r) /\ trace'[r].contacts = trace[r].contacts /\ trace'[r].met = 200
    BY <1>2, MineType, RecordEmptyTypes DEF Holding, EndStream
  <2> QED BY <1>2, <2>1, AnswerAccount, NoClaim DEF SameMeetings, OthersTrace, Answers
<1>3. CASE EndStream(r) /\ Goto(r, "settle") /\ UNCHANGED <<job, trace>>
  <2>1. pc[r] = "stream" /\ pc'[r] = "settle"
    BY <1>3 DEF EndStream, Goto, CodeTypes
  <2> QED BY <1>3, <2>1, MoveAccount DEF SameMeetings
<1> QED BY <1>1, <1>2, <1>3 DEF EndStream, SpendLimit

LEMMA NextAccounts ==
  CodeTypes /\ Accounts /\ [Next]_vars => Accounts'
<1> SUFFICES ASSUME CodeTypes, Accounts, [Next]_vars, NEW q \in Request
             PROVE  Account(q)'
  BY DEF Accounts
<1>a. Account(q)
  BY DEF Accounts
<1>s. ASSUME pc'[q] = pc[q], job'[q] = job[q], SameMeetings({q})
      PROVE  Account(q)'
  BY <1>a, <1>s DEF Account, SameMeetings
<1>1. ASSUME NEW r \in Request, Serve(r) \/ Arrive(r) \/ Disconnect(r)
      PROVE  Account(q)'
  <2>1. Account(r)
    BY DEF Accounts
  <2>2. Arrive(r) => UNCHANGED trace
    BY DEF Arrive
  <2>3. Account(r)' /\ SameMeetings(Request \ {r})
    <3>1. CASE Arrive(r)
      BY <2>1, <2>2, <3>1, ArriveAccount DEF SameMeetings
    <3>2. CASE Serve(r) \/ Disconnect(r)
      BY <2>1, <3>2, LeaveAccount, WalkAccount, GiveUpAccount, TerminateAccount, ExcludeAccount,
         ContactAccount, ForwardErrorAccount, KeyFaultAccount, PassErrorAccount,
         EmptyAnswerAccount, SuccessAccount, EndAccount DEF Serve, SameMeetings
    <3> QED BY <1>1, <3>1, <3>2
  <2>4. OthersStay(r)
    BY <1>1, ServeMoves DEF Walks, Handles
  <2> QED BY <1>s, <2>3, <2>4 DEF OthersStay, SameMeetings
<1>2. ASSUME NEW k \in Key, Readmit(k)
      PROVE  Account(q)'
  BY <1>s, <1>2, ReadmitTypes DEF Readmit, SameMeetings
<1>3. CASE UNCHANGED <<pc, job, trace>>
  BY <1>s, <1>3 DEF SameMeetings
<1> QED BY <1>1, <1>2, <1>3 DEF Next, Surroundings, Bench, WindowSlides, Refresh, vars, code

LEMMA InitAccounts == Init => Accounts
<1> SUFFICES ASSUME Init, NEW r \in Request PROVE Account(r)
  BY DEF Accounts
<1>1. /\ pc[r] = "idle" /\ job[r] = NoJob /\ trace[r] = NoTrace
  BY DEF Init
<1>2. /\ NoJob.retries = 0 /\ NoJob.answer = "none" /\ NoTrace.contacts = 0 /\ NoTrace.met = 0
  BY DEF NoJob, NoTrace
<1>3. Paid(pc[r], job[r], trace[r].contacts)
  BY <1>1, <1>2, SettingAssumption DEF Paid, Looping, SettingAssumption
<1>4. Told(pc[r], job[r], trace[r].met)
  BY <1>1, <1>2 DEF Told, Looping, Claim
<1> QED BY <1>3, <1>4 DEF Account

LEMMA AlwaysAccounts == Spec => []Accounts
BY NextTypes, InitTypes, InitAccounts, NextAccounts, PTL DEF Spec

(* Whatever the settings, a request contacts upstreams at most once more   *)
(* than the configured retries, and routes it skips as unable to serve it  *)
(* cost it no attempt.                                                     *)
THEOREM EveryAttemptPaid == Spec => []AttemptsPaid
<1>1. Accounts => AttemptsPaid
  BY DEF Accounts, Account, Paid, AttemptsPaid, Looping
<1> QED BY <1>1, AlwaysAccounts, PTL

(* The terminal error a client gets is that of its request's last attempt. *)
THEOREM AnswerTellsLast == Spec => []TerminalTellsLast
<1>1. Accounts => TerminalTellsLast
  BY DEF Accounts, Account, Told, Claim, TerminalTellsLast
<1> QED BY <1>1, AlwaysAccounts, PTL

-----------------------------------------------------------------------------
(* What a selection has found out, while nothing it reads has changed.     *)

Serves(x) == SelectKey(up, x) # {}
Hot(x) == HasImmediate(up, x)
Left(r) == routes \ job[r].excluded
TierOf(s) == {s.order[i] : i \in 1..Len(s.order)}

(* The routes at hand are of one priority, those still to come of later    *)
(* ones.                                                                   *)
Sorted(s, left) ==
  /\ s.rest \subseteq left /\ TierOf(s) \subseteq left
  /\ \A x \in TierOf(s) : \A y \in TierOf(s) : Priority[x] = Priority[y]
  /\ \A x \in TierOf(s) : \A y \in s.rest : Priority[x] < Priority[y]

(* The routes left behind have nothing to offer.                           *)
Searched(s, left) ==
  /\ \A x \in left \ (TierOf(s) \cup s.rest) : ~Serves(x)
  /\ s.pass = 1 => /\ \A i \in 1..s.pos - 1 : ~Hot(s.order[i])
                   /\ s.hot => Hot(s.order[s.pos])
  /\ s.pass = 2 => /\ \A x \in TierOf(s) : ~Hot(x)
                   /\ \A i \in 1..s.pos - 1 : ~Serves(s.order[i])

Tracked(r) == /\ View(r) = up
              /\ Sorted(scan[r], Left(r)) /\ Searched(scan[r], Left(r))
Tracking == \A r \in Request : pc[r] = "scan" /\ sight[r].quiet => Tracked(r)

(* Every non-empty set of keys has one of least sort order.                *)
LEMMA LeastNonEmpty ==
  ASSUME NEW S \in SUBSET Key, S # {}
  PROVE  Least(S) # {}
<1> DEFINE P == {Rank[k] : k \in S}
<1>0. Rank \in [Key -> Nat]
  BY TopologyAssumption DEF TopologyAssumption
<1>1. P \subseteq Nat /\ P # {}
  <2>1. \A k \in S : Rank[k] \in Nat
    BY <1>0
  <2> QED BY <2>1
<1>2. PICK p \in P : \A q \in P : ~ (<<q, p>> \in OpToRel(<, Nat))
  BY <1>1, NatLessThanWellFounded, WFMin
<1>3. PICK k \in S : Rank[k] = p
  BY <1>2
<1>4. \A j \in S : Rank[k] <= Rank[j]
  <2> TAKE j \in S
  <2>1. Rank[j] \in P /\ Rank[k] \in Nat /\ Rank[j] \in Nat
    BY <1>0
  <2>2. ~ (Rank[j] < Rank[k])
    BY <1>2, <1>3, <2>1 DEF OpToRel
  <2> QED BY <2>1, <2>2
<1> QED BY <1>3, <1>4 DEF Least

(* SelectKey answers nil only if no key is usable: a route with an         *)
(* immediate key has one to offer.                                         *)
LEMMA HotServes ==
  ASSUME NEW x \in Route, Hot(x)
  PROVE  Serves(x)
<1>1. PICK k \in KeysOf[x] : Strategy[k] = "immediate" /\ Usable(up, k)
  BY DEF Hot, HasImmediate
<1> DEFINE eager == {j \in {i \in KeysOf[x] : Usable(up, i)} : Strategy[j] # "lazy"}
<1>2. k \in eager /\ eager \subseteq Key
  BY <1>1, KeysOfType
<1>3. SelectKey(up, x) = Least(eager)
  BY <1>2 DEF SelectKey
<1> HIDE DEF eager
<1> QED BY <1>2, <1>3, LeastNonEmpty DEF Serves

LEMMA SameService ==
  ASSUME UNCHANGED <<up, usage>>, NEW x
  PROVE  (Serves(x)' <=> Serves(x)) /\ (Hot(x)' <=> Hot(x))
BY DEF Serves, Hot, SelectKey, HasImmediate, Usable, Least

(* What is known of a selection depends on its route lists and position.   *)
LEMMA TrackedStays ==
  ASSUME UNCHANGED <<routes, up, usage>>, NEW r \in Request, job'[r] = job[r], Tracked(r),
         View(r)' = up',
         scan'[r].rest = scan[r].rest, scan'[r].order = scan[r].order,
         scan'[r].pos = scan[r].pos, scan'[r].pass = scan[r].pass, scan'[r].hot = scan[r].hot
  PROVE  Tracked(r)'
<1>1. Left(r)' = Left(r) /\ TierOf(scan[r])' = TierOf(scan[r])
  BY DEF Left, TierOf
<1>2. Sorted(scan[r], Left(r))'
  BY <1>1 DEF Tracked, Sorted
<1>3. Searched(scan[r], Left(r))'
  BY <1>1, SameService DEF Tracked, Searched
<1> QED BY <1>2, <1>3 DEF Tracked

(* A tier is entered once every route outside the rest has been found      *)
(* unable.                                                                 *)
LEMMA EnterTierTracks ==
  ASSUME CodeTypes, CodeTypes', NEW r \in Request, UNCHANGED <<routes, up, usage, job>>,
         NEW S \in SUBSET Left(r), S # {}, EnterTier(r, S), View(r) = up,
         \A x \in Left(r) \ S : ~Serves(x)
  PROVE  Tracked(r)'
<1>0. S \subseteq Route
  BY DEF Left, CodeTypes
<1>1. IsFiniteSet(Tier(S)) /\ Tier(S) # {} /\ Tier(S) \subseteq S
  BY <1>0, TierNonEmpty, FS_Subset, TopologyAssumption DEF TopologyAssumption
<1>2. PICK o \in Orders(Tier(S)) :
        scan' = [scan EXCEPT ![r] = [@ EXCEPT !.rest = S \ Tier(S), !.order = o,
                                              !.pos = 1, !.pass = 1, !.hot = FALSE]]
  BY DEF EnterTier
<1>3. /\ scan'[r].rest = S \ Tier(S) /\ scan'[r].order = o
      /\ scan'[r].pos = 1 /\ scan'[r].pass = 1 /\ scan'[r].hot = FALSE
      /\ scan'[r].fresh = scan[r].fresh /\ scan'[r].frozen = scan[r].frozen
  BY <1>2 DEF CodeTypes, ScanSpace
<1>4. TierOf(scan[r])' = Tier(S)
  <2>1. Cardinality(Tier(S)) \in Nat
    BY <1>1, FS_CardinalityType
  <2>2. Len(o) = Cardinality(Tier(S)) /\ DOMAIN o = 1..Cardinality(Tier(S))
    BY <1>2, <2>1 DEF Orders
  <2> QED BY <1>2, <1>3, <2>2 DEF Orders, TierOf
<1>5. /\ \A x \in Tier(S) : \A y \in Tier(S) : Priority[x] = Priority[y]
      /\ \A x \in Tier(S) : \A y \in S \ Tier(S) : Priority[x] < Priority[y]
  <2>1. \A x \in S : Priority[x] \in Nat
    BY <1>0, TopologyAssumption DEF TopologyAssumption
  <2> QED BY <1>1, <2>1 DEF Tier
<1>6. Left(r)' = Left(r)
  BY DEF Left
<1>7. Sorted(scan[r], Left(r))'
  BY <1>1, <1>3, <1>4, <1>5, <1>6 DEF Sorted
<1>8. Searched(scan[r], Left(r))'
  <2>1. \A x \in Left(r) \ S : ~Serves(x)'
    BY SameService
  <2>2. Tier(S) \cup (S \ Tier(S)) = S
    BY <1>1
  <2> QED BY <1>3, <1>4, <1>6, <2>1, <2>2 DEF Searched
<1>9. View(r)' = up'
  BY <1>3, ViewIs, ViewIsNext
<1> QED BY <1>7, <1>8, <1>9 DEF Tracked

(* The route at hand has nothing (more) to offer: what the search knows    *)
(* when it goes on, and when it ends.                                      *)
LEMMA NextRouteTracks ==
  ASSUME CodeTypes, CodeTypes', NEW r \in Request, pc[r] = "scan", Tracked(r), NextRoute(r),
         UNCHANGED <<routes, up, usage, job>>,
         scan[r].pass = 1 => ~Hot(scan[r].order[scan[r].pos]),
         scan[r].pass = 2 => ~Serves(scan[r].order[scan[r].pos])
  PROVE  /\ pc'[r] = "scan" => Tracked(r)'
         /\ pc'[r] = "nokey" => \A x \in Left(r) : ~Serves(x)
<1> DEFINE s == scan[r]
<1>0. /\ s \in ScanSpace /\ s.pos <= Len(s.order) /\ Len(s.order) \in Nat
      /\ s.pos \in Nat \ {0} /\ s.pass \in {1, 2} /\ View(r) = up
  BY DEF CodeTypes, ScanSpace, Tracked
<1>t. Sorted(s, Left(r)) /\ Searched(s, Left(r)) /\ Left(r)' = Left(r)
  BY DEF Tracked, Left
<1>1. CASE s.pos < Len(s.order)
  <2>1. scan' = [scan EXCEPT ![r].pos = @ + 1, ![r].hot = FALSE] /\ pc' = pc
    BY <1>1 DEF NextRoute
  <2>2. /\ scan'[r].rest = s.rest /\ scan'[r].order = s.order /\ scan'[r].pass = s.pass
        /\ scan'[r].pos = s.pos + 1 /\ scan'[r].hot = FALSE
        /\ scan'[r].fresh = s.fresh /\ scan'[r].frozen = s.frozen
    BY <2>1 DEF CodeTypes, ScanSpace
  <2> HIDE DEF s
  <2>3. TierOf(scan[r])' = TierOf(s)
    BY <2>2 DEF TierOf
  <2>4. Sorted(scan[r], Left(r))'
    BY <1>t, <2>2, <2>3 DEF Sorted
  <2>5. \A i \in 1..scan'[r].pos - 1 : i \in 1..s.pos - 1 \/ i = s.pos
    BY <1>0, <2>2
  <2>6. Searched(scan[r], Left(r))'
    BY <1>t, <2>2, <2>3, <2>5, SameService DEF Searched, s
  <2>7. View(r)' = up'
    BY <1>0, <2>2, ViewIs, ViewIsNext DEF s
  <2> QED BY <2>1, <2>4, <2>6, <2>7 DEF Tracked
<1>2. CASE ~(s.pos < Len(s.order)) /\ s.pass = 1
  <2>1. scan' = [scan EXCEPT ![r].pos = 1, ![r].pass = 2, ![r].hot = FALSE] /\ pc' = pc
    BY <1>2 DEF NextRoute
  <2>2. /\ scan'[r].rest = s.rest /\ scan'[r].order = s.order /\ scan'[r].pass = 2
        /\ scan'[r].pos = 1 /\ scan'[r].hot = FALSE
        /\ scan'[r].fresh = s.fresh /\ scan'[r].frozen = s.frozen
    BY <2>1 DEF CodeTypes, ScanSpace
  <2> HIDE DEF s
  <2>3. TierOf(scan[r])' = TierOf(s)
    BY <2>2 DEF TierOf
  <2>4. Sorted(scan[r], Left(r))'
    BY <1>t, <2>2, <2>3 DEF Sorted
  <2>5. \A i \in 1..Len(s.order) : i \in 1..s.pos - 1 \/ i = s.pos
    BY <1>0, <1>2
  <2>6. \A x \in TierOf(s) : ~Hot(x)
    BY <1>t, <1>2, <2>5 DEF Searched, TierOf, s
  <2>7. Searched(scan[r], Left(r))'
    BY <1>t, <2>2, <2>3, <2>6, SameService DEF Searched
  <2>8. View(r)' = up'
    BY <1>0, <2>2, ViewIs, ViewIsNext DEF s
  <2> QED BY <2>1, <2>4, <2>7, <2>8 DEF Tracked
<1>3. CASE ~(s.pos < Len(s.order)) /\ s.pass # 1
  <2>1. \A i \in 1..Len(s.order) : i \in 1..s.pos - 1 \/ i = s.pos
    BY <1>0, <1>3
  <2>2. s.pass = 2
    BY <1>0, <1>3
  <2>3. \A x \in Left(r) \ s.rest : ~Serves(x)
    BY <1>t, <2>1, <2>2 DEF Searched, TierOf
  <2>4. CASE s.rest # {}
    <3>1. EnterTier(r, s.rest) /\ s.rest \subseteq Left(r) /\ pc' = pc
      BY <1>3, <1>t, <2>4 DEF NextRoute, Sorted
    <3> QED BY <1>0, <2>3, <2>4, <3>1, EnterTierTracks
  <2>5. CASE s.rest = {}
    <3>1. pc'[r] = "nokey"
      BY <1>3, <2>5 DEF NextRoute, Goto, CodeTypes
    <3> QED BY <2>3, <2>5, <3>1
  <2> QED BY <2>4, <2>5
<1> QED BY <1>1, <1>2, <1>3

(* The route a search stops at is one of the best.                         *)
LEMMA FoundIsBest ==
  ASSUME CodeTypes, NEW r \in Request, pc[r] = "scan", Tracked(r),
         scan[r].pass = 2 \/ scan[r].hot, Serves(scan[r].order[scan[r].pos])
  PROVE  scan[r].order[scan[r].pos] \in Best(Left(r))
<1> DEFINE s == scan[r]
           x == s.order[s.pos]
           able == {y \in Left(r) : SelectKey(up, y) # {}}
           tier == {y \in able : \A z \in able : Priority[y] <= Priority[z]}
           hot == {y \in tier : HasImmediate(up, y)}
<1>0. /\ s.pos <= Len(s.order) /\ Len(s.order) \in Nat
      /\ s.pos \in Nat \ {0} /\ s.pass \in {1, 2}
  BY DEF CodeTypes, ScanSpace
<1>1. x \in TierOf(s)
  BY <1>0 DEF TierOf
<1>2. Sorted(s, Left(r)) /\ Searched(s, Left(r)) /\ Left(r) \subseteq Route
  BY DEF Tracked, Left, CodeTypes
<1>3. \A y \in Left(r) : Priority[y] \in Nat
  BY <1>2, TopologyAssumption DEF TopologyAssumption
<1>4. \A y \in able : y \in Left(r) /\ Serves(y)
  BY DEF Serves
<1>5. \A y \in Left(r) : Serves(y) => y \in able
  BY DEF Serves
<1>h. \A y \in tier : y \in hot <=> Hot(y)
  BY DEF Hot
<1>b. Best(Left(r)) = IF hot # {} THEN hot ELSE tier
  BY DEF Best
<1> HIDE DEF s, able, hot
<1>6. \A y \in able : y \in TierOf(s) \cup s.rest
  BY <1>2, <1>4 DEF Searched
<1>7. \A y \in able : Priority[x] <= Priority[y]
  BY <1>1, <1>2, <1>3, <1>4, <1>6 DEF Sorted
<1>8. x \in able
  BY <1>1, <1>2, <1>5 DEF Sorted, s
<1>9. x \in tier
  BY <1>7, <1>8
<1>10. CASE s.pass = 1
  <2>1. Hot(x)
    BY <1>2, <1>10 DEF Searched, s
  <2> QED BY <1>9, <1>b, <1>h, <2>1 DEF s
<1>11. CASE s.pass = 2
  <2>1. \A y \in tier : y \in TierOf(s)
    <3> SUFFICES ASSUME NEW y \in tier, y \in s.rest PROVE FALSE
      BY <1>6
    <3>1. Priority[x] < Priority[y]
      BY <1>1, <1>2 DEF Sorted
    <3>2. Priority[y] <= Priority[x]
      BY <1>8
    <3>3. Priority[x] \in Nat /\ Priority[y] \in Nat
      BY <1>3, <1>4, <1>8
    <3> QED BY <3>1, <3>2, <3>3
  <2>2. \A y \in tier : ~Hot(y)
    BY <1>2, <1>11, <2>1 DEF Searched
  <2>3. hot \subseteq tier
    BY DEF hot
  <2>4. hot = {}
    BY <1>h, <2>2, <2>3
  <2> QED BY <1>9, <1>b, <2>4 DEF s
<1> QED BY <1>0, <1>10, <1>11

LEMMA NoneIsBest ==
  ASSUME NEW r \in Request, \A x \in Left(r) : ~Serves(x)
  PROVE  Best(Left(r)) = {}
BY DEF Best, Serves

(* The steps of a selection.                                               *)
LEMMA LookTracks ==
  ASSUME CodeTypes, CodeTypes', FreshOutside, NEW r \in Request, Look(r), pc'[r] = "scan"
  PROVE  Tracked(r)'
<1>1. pc[r] = "select" /\ UNCHANGED <<routes, up, usage, job>>
  BY DEF Look
<1>2. Left(r) # {} /\ EnterTier(r, Left(r))
  BY DEF Look, Left, Goto, CodeTypes
<1>3. View(r) = up
  BY <1>1, ViewIs DEF FreshOutside
<1> QED BY <1>1, <1>2, <1>3, EnterTierTracks

LEMMA CheckImmediateTracks ==
  ASSUME CodeTypes, CodeTypes', NEW r \in Request, Tracked(r), CheckImmediate(r)
  PROVE  /\ pc'[r] = "scan" => Tracked(r)'
         /\ pc'[r] = "nokey" => \A x \in Left(r) : ~Serves(x)
         /\ pc'[r] # "forward"
<1> DEFINE x == scan[r].order[scan[r].pos]
<1>1. /\ pc[r] = "scan" /\ scan[r].pass = 1 /\ scan[r] \in ScanSpace
      /\ UNCHANGED <<routes, up, usage, job>>
  BY DEF CheckImmediate, CodeTypes
<1>2. HasImmediate(View(r), x) <=> Hot(x)
  BY DEF Tracked, Hot
<1>3. CASE Hot(x)
  <2>1. scan' = [scan EXCEPT ![r].hot = TRUE] /\ pc' = pc
    BY <1>2, <1>3 DEF CheckImmediate
  <2>2. /\ scan'[r].rest = scan[r].rest /\ scan'[r].order = scan[r].order
        /\ scan'[r].pass = scan[r].pass /\ scan'[r].pos = scan[r].pos
        /\ scan'[r].fresh = scan[r].fresh /\ scan'[r].frozen = scan[r].frozen
    BY <2>1, <1>1 DEF CodeTypes, ScanSpace
  <2> HIDE DEF x
  <2>3. Left(r)' = Left(r) /\ TierOf(scan[r])' = TierOf(scan[r])
    BY <1>1, <2>2 DEF Left, TierOf
  <2>4. Sorted(scan[r], Left(r))'
    BY <2>2, <2>3 DEF Tracked, Sorted
  <2>5. Searched(scan[r], Left(r))'
    BY <1>1, <1>3, <2>2, <2>3, SameService DEF Tracked, Searched, x
  <2>6. View(r)' = up'
    BY <1>1, <2>2, ViewIs, ViewIsNext DEF Tracked
  <2> QED BY <1>1, <2>1, <2>4, <2>5, <2>6 DEF Tracked
<1>4. CASE ~Hot(x)
  <2>1. NextRoute(r)
    BY <1>2, <1>4 DEF CheckImmediate
  <2>2. pc'[r] # "forward"
    BY <1>1, <2>1, NextRouteTypes
  <2> QED BY <1>1, <1>4, <2>1, <2>2, NextRouteTracks
<1> QED BY <1>3, <1>4

LEMMA TryRouteTracks ==
  ASSUME CodeTypes, CodeTypes', NEW r \in Request, Tracked(r), TryRoute(r)
  PROVE  /\ pc'[r] = "scan" => Tracked(r)'
         /\ pc'[r] = "nokey" => \A x \in Left(r) : ~Serves(x)
         /\ pc'[r] = "forward" => job'[r].route \in Best(Left(r))
<1> DEFINE x == scan[r].order[scan[r].pos]
<1>1. /\ pc[r] = "scan" /\ (scan[r].pass = 2 \/ scan[r].hot) /\ scan[r] \in ScanSpace
      /\ UNCHANGED <<routes, up, usage>>
  BY DEF TryRoute, CodeTypes
<1>2. (SelectKey(View(r), x) # {}) <=> Serves(x)
  BY DEF Tracked, Serves
<1>3. CASE SelectKey(View(r), x) = {} /\ NextRoute(r) /\ UNCHANGED job
  <2>1. x \in Route
    <3>1. /\ scan[r].order \in Seq(Route) /\ scan[r].pos \in Nat \ {0}
          /\ scan[r].pos <= Len(scan[r].order)
      BY <1>1 DEF CodeTypes, ScanSpace
    <3> QED BY <3>1
  <2>2. ~Serves(x) /\ ~Hot(x)
    BY <1>2, <1>3, <2>1, HotServes
  <2>3. pc'[r] # "forward"
    BY <1>1, <1>3, NextRouteTypes
  <2> QED BY <1>1, <1>3, <2>2, <2>3, NextRouteTracks
<1>4. ASSUME NEW k \in SelectKey(View(r), x),
             job' = [job EXCEPT ![r].route = x, ![r].key = k], StopScan(r), Goto(r, "forward")
      PROVE  /\ pc'[r] = "forward" /\ job'[r].route \in Best(Left(r))
  <2>1. Serves(x)
    BY <1>2
  <2>2. x \in Best(Left(r))
    BY <1>1, <2>1, FoundIsBest
  <2>3. job'[r].route = x
    <3>1. job[r] \in JobSpace /\ job'[r] = [job[r] EXCEPT !.route = x, !.key = k]
      BY <1>4 DEF CodeTypes
    <3> HIDE DEF x
    <3> QED BY <3>1 DEF JobSpace
  <2>4. pc'[r] = "forward"
    BY <1>4 DEF Goto, CodeTypes
  <2> QED BY <2>2, <2>3, <2>4
<1> QED BY <1>3, <1>4 DEF TryRoute

(* A quiet selection has seen its routes, keys and windows stand still.    *)
LEMMA QuietStep ==
  ASSUME SightTypes, Watch, NEW r \in Request, pc[r] = "scan", pc'[r] = "scan", sight'[r].quiet
  PROVE  sight[r].quiet /\ UNCHANGED <<routes, up, usage>>
<1> DEFINE b == sight[r].quiet /\ <<routes, up, usage>>' = <<routes, up, usage>>
<1>1. sight'[r] = [up |-> sight[r].up \cup up', quiet |-> b]
  BY DEF Watch
<1>2. sight'[r].quiet = b
  <2> HIDE DEF b
  <2> QED BY <1>1
<1>3. b
  <2> HIDE DEF b
  <2> QED BY <1>2, Zenon
<1>4. <<routes, up, usage>>' = <<routes, up, usage>>
  BY <1>3, Zenon DEF b
<1> QED BY <1>3, <1>4, Zenon DEF b

(* Whoever moves: a selection that goes on, or starts, is tracked.         *)
LEMMA NextTracking ==
  CodeTypes /\ CodeTypes' /\ SightTypes /\ FreshOutside /\ Tracking /\ [Next]_vars => Tracking'
<1> SUFFICES ASSUME CodeTypes, CodeTypes', SightTypes, FreshOutside, Tracking, [Next]_vars,
                    NEW q \in Request, pc'[q] = "scan", sight'[q].quiet
             PROVE  Tracked(q)'
  BY DEF Tracking
<1>v. ViewStays(q)
  BY NextView
<1>w. /\ Next /\ pc[q] = "scan" => Tracked(q) /\ UNCHANGED <<routes, up, usage>>
  BY QuietStep DEF Next, Tracking
<1>1. ASSUME Next, pc[q] = "scan", job'[q] = job[q], scan'[q] = scan[q]
      PROVE  Tracked(q)'
  <2>1. Tracked(q) /\ UNCHANGED <<routes, up, usage>>
    BY <1>1, <1>w
  <2>2. View(q)' = up'
    BY <2>1, <1>v DEF ViewStays, Tracked
  <2> QED BY <1>1, <2>1, <2>2, TrackedStays
<1>2. ASSUME Next, NEW r \in Request, Serve(r) \/ Arrive(r) \/ Disconnect(r)
      PROVE  Tracked(q)'
  <2>1. Walks(r) \/ Handles(r)
    BY <1>2, ServeMoves
  <2>2. CASE q # r
    <3>1. pc'[q] = pc[q] /\ job'[q] = job[q] /\ scan'[q] = scan[q]
      BY <2>1, <2>2 DEF Walks, Handles, OthersStay
    <3> QED BY <1>1, <1>2, <3>1
  <2>3. CASE q = r
    <3>1. pc[r] \in {"select", "scan"}
      BY <2>1, <2>3 DEF Walks, Handles
    <3>2. Look(r) \/ CheckImmediate(r) \/ TryRoute(r)
      <4>1. pc'[r] \notin {"idle", "done", "select", "sent", "stream", "settle", "spend"}
        BY <2>3
      <4> QED BY <1>2, <2>3, <3>1, <4>1 DEF Serve, Arrive, Leave, GiveUp, Exclude, Contact,
                 ForwardError, KeyFault, PassError, EmptyAnswer, Complete, BeginStream, EndStream,
                 Settle, SpendLimit, Terminate, Disconnect, Answer, Goto, CodeTypes
    <3>3. CASE Look(r)
      BY <2>3, <3>3, LookTracks
    <3>4. CASE CheckImmediate(r) \/ TryRoute(r)
      <4>1. pc[r] = "scan"
        BY <3>4 DEF CheckImmediate, TryRoute
      <4> QED BY <1>2, <1>w, <2>3, <3>4, <4>1, CheckImmediateTracks, TryRouteTracks
    <3> QED BY <3>2, <3>3, <3>4
  <2> QED BY <2>2, <2>3
<1>3. ASSUME Next, NEW k \in Key, Bench(k) \/ Readmit(k) \/ WindowSlides(k)
      PROVE  Tracked(q)'
  <2>1. UNCHANGED <<pc, job, scan>>
    BY <1>3 DEF Bench, Readmit, WindowSlides
  <2> QED BY <1>1, <1>3, <2>1
<1>4. CASE Next /\ Refresh
  <2>1. UNCHANGED <<pc, job>> /\ pc[q] = "scan"
    BY <1>4 DEF Refresh
  <2>2. Tracked(q) /\ UNCHANGED <<routes, up, usage>>
    BY <1>4, <1>w, <2>1
  <2>3. View(q)' = up'
    BY <2>2, <1>v DEF ViewStays, Tracked
  <2>4. /\ scan'[q].rest = scan[q].rest /\ scan'[q].order = scan[q].order
        /\ scan'[q].pos = scan[q].pos /\ scan'[q].pass = scan[q].pass
        /\ scan'[q].hot = scan[q].hot
    BY <1>4 DEF Refresh, CodeTypes, ScanSpace
  <2> QED BY <2>1, <2>2, <2>3, <2>4, TrackedStays
<1>5. CASE UNCHANGED vars
  <2>1. UNCHANGED <<routes, up, usage, pc, job, scan, sight>>
    BY <1>5 DEF vars, code
  <2>2. Tracked(q)
    BY <2>1 DEF Tracking
  <2>3. View(q)' = up'
    BY <2>1, <2>2, ViewIs, ViewIsNext DEF Tracked
  <2> QED BY <2>1, <2>2, <2>3, TrackedStays
<1> QED BY <1>2, <1>3, <1>4, <1>5 DEF Next, Surroundings

LEMMA InitTracking == Init => Tracking
BY DEF Init, Tracking

LEMMA QuietEnd ==
  ASSUME CodeTypes, CodeTypes', Tracking, [Next]_vars,
         NEW r \in Request, pc[r] = "scan", sight[r].quiet, pc'[r] \in {"forward", "nokey"}
  PROVE  /\ pc'[r] = "forward" => job'[r].route \in Best(Left(r))
         /\ pc'[r] = "nokey" => Best(Left(r)) = {}
<1>1. Tracked(r)
  BY DEF Tracking
<1>2. CheckImmediate(r) \/ TryRoute(r)
  <2>1. ASSUME NEW q \in Request, Serve(q) \/ Arrive(q) \/ Disconnect(q) PROVE q = r
    BY <2>1, ServeMoves DEF Walks, Handles, OthersStay
  <2>2. pc' # pc
    OBVIOUS
  <2>3. Serve(r) \/ Arrive(r) \/ Disconnect(r)
    BY <2>1, <2>2 DEF Next, Surroundings, Bench, Readmit, WindowSlides, Refresh, vars, code
  <2>4. pc[r] = "scan"
    OBVIOUS
  <2> QED BY <2>3, <2>4 DEF Serve, Arrive, Look, Leave, GiveUp, Exclude, Contact,
             ForwardError, KeyFault, PassError, EmptyAnswer, Complete, BeginStream, EndStream,
             Settle, SpendLimit, Terminate, Disconnect
<1> QED BY <1>1, <1>2, CheckImmediateTracks, TryRouteTracks, NoneIsBest

(* When nothing changes while it runs, a selection returns one of the best *)
(* routes -- the first tier with a usable key, in it a route with an       *)
(* immediate key -- and gives up only if no route has one, for any routes, *)
(* tiers, keys, strategies and orders within a tier.                       *)
THEOREM SelectionIsBest == Spec => SelectionFindsBest
<1>1. CodeTypes /\ CodeTypes' /\ FreshOutside /\ [Next]_vars => FreshOutside'
  BY NextView
<1>2. CodeTypes /\ CodeTypes' /\ Tracking /\ [Next]_vars =>
        [\A r \in Request :
           LET best == Best(routes \ job[r].excluded) IN
           pc[r] = "scan" /\ sight[r].quiet =>
             /\ pc'[r] = "forward" => job'[r].route \in best
             /\ pc'[r] = "nokey" => best = {}]_vars
  BY QuietEnd DEF Left
<1> QED BY NextTypes, <1>1, <1>2, InitTypes, InitFresh, InitTracking, NextTracking, PTL
        DEF Spec, SelectionFindsBest

-----------------------------------------------------------------------------
(* The keys a selection still has before it.                               *)

(* Only routes that cannot serve the request are excluded from it.         *)
Barred == \A r \in Request : \A x \in job[r].excluded :
            job[r].kind = "embed" /\ x \in Converting
SameCase(r) == job'[r].kind = job[r].kind /\ job'[r].excluded = job[r].excluded

LEMMA AnswerCase ==
  ASSUME CodeTypes, NEW r \in Request, NEW a, Answer(r, a)
  PROVE  SameCase(r)
<1> DEFINE j == [job[r] EXCEPT !.answer = a, !.route = NoRoute, !.key = NoKey]
<1>1. job[r] \in JobSpace /\ job'[r] = j
  BY DEF CodeTypes, Answer
<1>2. j.kind = job[r].kind /\ j.excluded = job[r].excluded
  BY <1>1 DEF JobSpace
<1> QED BY <1>1, <1>2 DEF SameCase

LEMMA SpendCase ==
  ASSUME CodeTypes, NEW r \in Request, NEW status, SpendAttempt(r, status)
  PROVE  SameCase(r)
<1> DEFINE j == [job[r] EXCEPT !.attempt = job[r].attempt + 1, !.last = status,
                               !.route = NoRoute, !.key = NoKey]
<1>1. job[r] \in JobSpace /\ job'[r] = j
  BY DEF CodeTypes, SpendAttempt
<1>2. j.kind = job[r].kind /\ j.excluded = job[r].excluded
  BY <1>1 DEF JobSpace
<1> QED BY <1>1, <1>2 DEF SameCase

LEMMA TryRouteCase ==
  ASSUME CodeTypes, NEW r \in Request, TryRoute(r)
  PROVE  SameCase(r)
<1> DEFINE x == scan[r].order[scan[r].pos]
<1>1. job[r] \in JobSpace
  BY DEF CodeTypes
<1>2. ASSUME NEW k, job' = [job EXCEPT ![r].route = x, ![r].key = k]
      PROVE  SameCase(r)
  <2> HIDE DEF x
  <2>1. job'[r] = [job[r] EXCEPT !.route = x, !.key = k]
    BY <1>2 DEF CodeTypes
  <2> QED BY <1>1, <2>1 DEF JobSpace, SameCase
<1> QED BY <1>2 DEF TryRoute, SameCase

LEMMA DisconnectCase ==
  ASSUME CodeTypes, NEW r \in Request, Disconnect(r)
  PROVE  SameCase(r)
<1>1. job[r] \in JobSpace /\ job'[r] = [job[r] EXCEPT !.gone = TRUE]
  BY DEF CodeTypes, Disconnect
<1> QED BY <1>1 DEF JobSpace, SameCase

LEMMA ServeCase ==
  ASSUME CodeTypes, NEW r \in Request, Serve(r) \/ Disconnect(r)
  PROVE  SameCase(r) \/ Exclude(r) \/ Leave(r)
<1>1. ASSUME NEW a, Answer(r, a) PROVE SameCase(r)
  BY <1>1, AnswerCase
<1>2. ASSUME NEW status, SpendAttempt(r, status) PROVE SameCase(r)
  BY <1>2, SpendCase
<1>3. CASE UNCHANGED job
  BY <1>3 DEF SameCase
<1>4. CASE GiveUp(r) \/ Terminate(r) \/ PassError(r) \/ SpendLimit(r)
  BY <1>1, <1>4 DEF GiveUp, Terminate, PassError, SpendLimit
<1>5. CASE EndStream(r)
  BY <1>1, <1>3, <1>5 DEF EndStream
<1>6. CASE ForwardError(r) \/ KeyFault(r) \/ EmptyAnswer(r)
  BY <1>1, <1>2, <1>6 DEF ForwardError, KeyFault, EmptyAnswer, BlameKey
<1>7. CASE Look(r) \/ CheckImmediate(r) \/ Contact(r) \/ Complete(r) \/ BeginStream(r) \/ Settle(r)
  BY <1>3, <1>7 DEF Look, CheckImmediate, Contact, Complete, BeginStream, Settle
<1> QED BY <1>4, <1>5, <1>6, <1>7, TryRouteCase, DisconnectCase DEF Serve

LEMMA NextBarred == CodeTypes /\ Barred /\ [Next]_vars => Barred'
<1> SUFFICES ASSUME CodeTypes, Barred, [Next]_vars,
                    NEW q \in Request, NEW x \in job'[q].excluded
             PROVE  job'[q].kind = "embed" /\ x \in Converting
  BY DEF Barred
<1>1. CASE SameCase(q)
  BY <1>1 DEF SameCase, Barred
<1>2. CASE job'[q] = job[q]
  BY <1>2 DEF Barred
<1>3. ASSUME NEW r \in Request, Serve(r) \/ Arrive(r) \/ Disconnect(r)
      PROVE  job'[q].kind = "embed" /\ x \in Converting
  <2>1. CASE q # r
    BY <1>2, <1>3, <2>1, ServeMoves DEF Walks, Handles, OthersStay
  <2>2. CASE q = r /\ Exclude(r)
    <3> DEFINE j == [job[r] EXCEPT !.excluded = job[r].excluded \cup {job[r].route},
                                   !.route = NoRoute, !.key = NoKey]
    <3>1. job[r] \in JobSpace /\ job'[r] = j
      BY <2>2 DEF CodeTypes, Exclude
    <3>2. j.kind = job[r].kind /\ j.excluded = job[r].excluded \cup {job[r].route}
      BY <3>1 DEF JobSpace
    <3> QED BY <2>2, <3>1, <3>2 DEF Exclude, Unsupported, Barred
  <2>3. CASE q = r /\ Leave(r)
    BY <2>3 DEF Leave, NoJob, CodeTypes
  <2>4. CASE q = r /\ Arrive(r)
    <3>1. PICK kind \in Kind, n \in RetrySetting \cup {DefaultRetries} :
            job' = [job EXCEPT ![r] = [NoJob EXCEPT !.kind = kind, !.retries = Retries(n),
                                         !.answer = IF routes = {} THEN "no_routes" ELSE "none"]]
      BY <2>4 DEF Arrive
    <3> DEFINE a == IF routes = {} THEN "no_routes" ELSE "none"
    <3>2. job'[r] = [NoJob EXCEPT !.kind = kind, !.retries = Retries(n), !.answer = a]
      BY <3>1 DEF CodeTypes
    <3> HIDE DEF a
    <3>3. job'[r].excluded = {}
      BY <3>2 DEF NoJob
    <3> QED BY <2>4, <3>3
  <2> QED BY <1>1, <1>3, <2>1, <2>2, <2>3, <2>4, ServeCase
<1>4. CASE UNCHANGED job
  BY <1>2, <1>4
<1> QED BY <1>3, <1>4 DEF Next, Surroundings, Bench, Readmit, WindowSlides, Refresh, vars, code

LEMMA InitBarred == Init => Barred
BY DEF Init, Barred, NoJob

(* A route not yet tried, or with the second pass still to come, has k.    *)
Ahead(s, k) ==
  \/ \E x \in s.rest : k \in KeysOf[x]
  \/ \E i \in 1..Len(s.order) : (s.pass = 1 \/ s.pos <= i) /\ k \in KeysOf[s.order[i]]

(* Entering a tier leaves every key of its routes and the rest ahead.      *)
LEMMA EnterTierAhead ==
  ASSUME CodeTypes, NEW r \in Request, NEW S \in SUBSET Route, S # {}, EnterTier(r, S),
         NEW x \in S, NEW k \in KeysOf[x]
  PROVE  Ahead(scan'[r], k)
<1>1. IsFiniteSet(Tier(S)) /\ Tier(S) \subseteq S
  BY TierNonEmpty, FS_Subset, TopologyAssumption DEF TopologyAssumption
<1>2. PICK o \in Orders(Tier(S)) :
        scan' = [scan EXCEPT ![r] = [@ EXCEPT !.rest = S \ Tier(S), !.order = o,
                                              !.pos = 1, !.pass = 1, !.hot = FALSE]]
  BY DEF EnterTier
<1>3. scan'[r].rest = S \ Tier(S) /\ scan'[r].order = o /\ scan'[r].pass = 1
  BY <1>2 DEF CodeTypes, ScanSpace
<1>4. Len(o) = Cardinality(Tier(S)) /\ DOMAIN o = 1..Len(o)
  <2>1. Cardinality(Tier(S)) \in Nat
    BY <1>1, FS_CardinalityType
  <2> QED BY <1>2, <2>1 DEF Orders
<1>5. CASE x \in Tier(S)
  <2>1. PICK i \in DOMAIN o : o[i] = x
    BY <1>2, <1>5 DEF Orders
  <2> QED BY <1>3, <1>4, <2>1 DEF Ahead
<1>6. CASE x \notin Tier(S)
  BY <1>3, <1>6 DEF Ahead
<1> QED BY <1>5, <1>6

(* What is ahead stays ahead when a route without the key, or one tried    *)
(* for its immediate keys only, is left: the search does not end there.    *)
LEMMA NextRouteAhead ==
  ASSUME CodeTypes, NEW r \in Request, pc[r] = "scan", NextRoute(r), NEW k, Ahead(scan[r], k),
         scan[r].pass = 1 \/ k \notin KeysOf[scan[r].order[scan[r].pos]]
  PROVE  pc'[r] = "scan" /\ Ahead(scan'[r], k)
<1> DEFINE s == scan[r]
<1>0. /\ s \in ScanSpace /\ s.pos <= Len(s.order) /\ Len(s.order) \in Nat
      /\ s.pos \in Nat \ {0} /\ s.pass \in {1, 2} /\ s.rest \subseteq Route
  BY DEF CodeTypes, ScanSpace
<1>1. CASE s.pos < Len(s.order)
  <2>1. scan' = [scan EXCEPT ![r].pos = @ + 1, ![r].hot = FALSE] /\ pc' = pc
    BY <1>1 DEF NextRoute
  <2>2. /\ scan'[r].rest = s.rest /\ scan'[r].order = s.order /\ scan'[r].pass = s.pass
        /\ scan'[r].pos = s.pos + 1
    BY <2>1 DEF CodeTypes, ScanSpace
  <2> HIDE DEF s
  <2>3. CASE \E x \in s.rest : k \in KeysOf[x]
    BY <2>1, <2>2, <2>3 DEF Ahead
  <2>4. ASSUME NEW i \in 1..Len(s.order), s.pass = 1 \/ s.pos <= i, k \in KeysOf[s.order[i]]
        PROVE  Ahead(scan'[r], k)
    <3>1. s.pass = 1 \/ i # s.pos
      BY <2>4 DEF s
    <3>2. s.pass = 1 \/ s.pos + 1 <= i
      BY <1>0, <2>4, <3>1
    <3> QED BY <2>2, <2>4, <3>2 DEF Ahead
  <2> QED BY <2>1, <2>3, <2>4 DEF Ahead, s
<1>2. CASE ~(s.pos < Len(s.order)) /\ s.pass = 1
  <2>1. scan' = [scan EXCEPT ![r].pos = 1, ![r].pass = 2, ![r].hot = FALSE] /\ pc' = pc
    BY <1>2 DEF NextRoute
  <2>2. scan'[r].rest = s.rest /\ scan'[r].order = s.order /\ scan'[r].pos = 1
    BY <2>1 DEF CodeTypes, ScanSpace
  <2> HIDE DEF s
  <2>3. CASE \E x \in s.rest : k \in KeysOf[x]
    BY <2>1, <2>2, <2>3 DEF Ahead
  <2>4. ASSUME NEW i \in 1..Len(s.order), k \in KeysOf[s.order[i]]
        PROVE  Ahead(scan'[r], k)
    <3>1. scan'[r].pos <= i
      BY <1>0, <2>2
    <3> QED BY <2>2, <2>4, <3>1 DEF Ahead
  <2>5. pc'[r] = "scan"
    BY <2>1
  <2>6. \/ \E x \in s.rest : k \in KeysOf[x]
        \/ \E i \in 1..Len(s.order) : k \in KeysOf[s.order[i]]
    BY DEF Ahead, s
  <2> QED BY <2>3, <2>4, <2>5, <2>6
<1>3. CASE ~(s.pos < Len(s.order)) /\ s.pass # 1
  <2>1. PICK x \in s.rest : k \in KeysOf[x]
    <3> HIDE DEF s
    <3>1. ASSUME NEW i \in 1..Len(s.order), s.pos <= i PROVE i = s.pos
      BY <1>0, <1>3, <3>1
    <3> QED BY <1>3, <3>1 DEF Ahead, s
  <2>2. EnterTier(r, s.rest) /\ pc' = pc
    BY <1>3, <2>1 DEF NextRoute
  <2> QED BY <1>0, <2>1, <2>2, EnterTierAhead
<1> QED BY <1>1, <1>2, <1>3

LEMMA SelectKeyFinds ==
  ASSUME NEW view, NEW x \in Route, NEW k \in KeysOf[x], Usable(view, k)
  PROVE  SelectKey(view, x) # {}
<1> DEFINE usable == {j \in KeysOf[x] : Usable(view, j)}
           eager == {j \in usable : Strategy[j] # "lazy"}
<1>1. usable \in SUBSET Key /\ eager \in SUBSET Key /\ k \in usable
  BY KeysOfType
<1>2. SelectKey(view, x) = IF eager # {} THEN Least(eager) ELSE Least(usable)
  BY DEF SelectKey
<1> HIDE DEF usable, eager
<1> QED BY <1>1, <1>2, LeastNonEmpty

(* A step of a selection that has a usable key ahead finds one, or goes on *)
(* with it still ahead.                                                    *)
LEMMA ScanKeepsAhead ==
  ASSUME CodeTypes, NEW r \in Request, CheckImmediate(r) \/ TryRoute(r),
         NEW k, k \in View(r), Usable(up, k), Ahead(scan[r], k)
  PROVE  /\ pc'[r] # "nokey"
         /\ pc'[r] = "scan" => Ahead(scan'[r], k)
<1> DEFINE x == scan[r].order[scan[r].pos]
<1>1. pc[r] = "scan" /\ scan[r] \in ScanSpace
  BY DEF CheckImmediate, TryRoute, CodeTypes
<1>2. CASE CheckImmediate(r)
  <2>1. CASE NextRoute(r)
    BY <1>1, <1>2, <2>1, NextRouteAhead DEF CheckImmediate
  <2>2. CASE scan' = [scan EXCEPT ![r].hot = TRUE] /\ pc' = pc
    <3>1. /\ scan'[r].rest = scan[r].rest /\ scan'[r].order = scan[r].order
          /\ scan'[r].pass = scan[r].pass /\ scan'[r].pos = scan[r].pos
      BY <1>1, <2>2 DEF CodeTypes, ScanSpace
    <3> QED BY <1>1, <2>2, <3>1 DEF Ahead
  <2> QED BY <1>2, <2>1, <2>2 DEF CheckImmediate
<1>3. CASE TryRoute(r) /\ SelectKey(View(r), x) = {} /\ NextRoute(r)
  <2>1. x \in Route
    <3>1. /\ scan[r].order \in Seq(Route) /\ scan[r].pos \in Nat \ {0}
          /\ scan[r].pos <= Len(scan[r].order)
      BY <1>1 DEF CodeTypes, ScanSpace
    <3> QED BY <3>1
  <2>2. Usable(View(r), k)
    BY DEF Usable
  <2>3. k \notin KeysOf[x]
    <3> HIDE DEF x
    <3> QED BY <1>3, <2>1, <2>2, SelectKeyFinds DEF x
  <2> QED BY <1>1, <1>3, <2>3, NextRouteAhead
<1>4. CASE TryRoute(r) /\ Goto(r, "forward")
  BY <1>4 DEF Goto, CodeTypes
<1> QED BY <1>2, <1>3, <1>4 DEF TryRoute

(* What has been usable since the selection began is usable now, in its    *)
(* key objects too, and ahead of it.                                       *)
Promised(r) == \A k \in stayed[r] : k \in View(r) /\ Usable(up, k) /\ Ahead(scan[r], k)
Promises == \A r \in Request : pc[r] = "scan" => Promised(r)

(* The next step of a selection is its own, or leaves its lists alone.     *)
LEMMA ScanStep ==
  ASSUME CodeTypes, [Next]_vars, NEW q \in Request,
         pc[q] = "scan" \/ pc'[q] \in {"scan", "nokey"}
  PROVE  \/ pc[q] = "select" /\ Look(q)
         \/ pc[q] = "scan" /\ (CheckImmediate(q) \/ TryRoute(q))
         \/ /\ pc'[q] = pc[q] /\ scan'[q].rest = scan[q].rest
            /\ scan'[q].order = scan[q].order
            /\ scan'[q].pos = scan[q].pos /\ scan'[q].pass = scan[q].pass
<1>1. ASSUME NEW r \in Request, Serve(r) \/ Arrive(r) \/ Disconnect(r), q # r
      PROVE  pc'[q] = pc[q] /\ scan'[q] = scan[q]
  BY <1>1, ServeMoves DEF Walks, Handles, OthersStay
<1>2. CASE Serve(q) \/ Arrive(q) \/ Disconnect(q)
  BY <1>2 DEF Serve, Arrive, Leave, Look, CheckImmediate, TryRoute, GiveUp, Exclude, Contact,
       ForwardError, KeyFault, PassError, EmptyAnswer, Complete, BeginStream, EndStream,
       Settle, SpendLimit, Terminate, Disconnect, Answer, SpendAttempt, BlameKey, Goto, CodeTypes
<1>3. CASE UNCHANGED <<pc, scan>>
  BY <1>3
<1>4. CASE Refresh
  <2>1. pc' = pc
    BY <1>4 DEF Refresh
  <2>2. /\ scan'[q].rest = scan[q].rest /\ scan'[q].order = scan[q].order
        /\ scan'[q].pos = scan[q].pos /\ scan'[q].pass = scan[q].pass
    BY <1>4 DEF Refresh, CodeTypes, ScanSpace
  <2> QED BY <2>1, <2>2
<1> QED BY <1>1, <1>2, <1>3, <1>4
     DEF Next, Surroundings, Bench, Readmit, WindowSlides, vars, code

LEMMA WatchStayed ==
  ASSUME Watch, NEW r \in Request, pc'[r] = "scan"
  PROVE  stayed'[r] = IF pc[r] # "scan" THEN Offer(r) ELSE {k \in stayed[r] : Usable(up, k)'}
BY DEF Watch

LEMMA NextPromises ==
  CodeTypes /\ CodeTypes' /\ FreshOutside /\ Barred /\ Promises /\ [Next]_vars => Promises'
<1> SUFFICES ASSUME CodeTypes, CodeTypes', FreshOutside, Barred, Promises, [Next]_vars,
                    NEW q \in Request, pc'[q] = "scan", NEW k \in stayed'[q]
             PROVE  k \in View(q)' /\ Usable(up, k)' /\ Ahead(scan'[q], k)
  BY DEF Promises, Promised, Ahead
<1>1. ViewStays(q)
  BY NextView
<1>2. CASE Next /\ pc[q] = "scan"
  <2>1. k \in stayed[q] /\ Usable(up, k)'
    BY <1>2, WatchStayed DEF Next
  <2>2. k \in View(q) /\ Usable(up, k) /\ Ahead(scan[q], k)
    BY <1>2, <2>1 DEF Promises, Promised
  <2>3. k \in View(q)'
    BY <1>1, <1>2, <2>1, <2>2 DEF ViewStays, Usable
  <2>4. Ahead(scan'[q], k)
    BY <1>2, <2>2, ScanStep, ScanKeepsAhead DEF Ahead
  <2> QED BY <2>1, <2>3, <2>4
<1>3. CASE Next /\ pc[q] # "scan"
  <2>1. k \in Offer(q)
    BY <1>3, WatchStayed DEF Next
  <2>2. Look(q)
    BY <1>3, ScanStep
  <2>3. PICK x \in routes : ~(job[q].kind = "embed" /\ x \in Converting) /\ k \in KeysOf[x]
    BY <2>1 DEF Offer
  <2> DEFINE left == routes \ job[q].excluded
  <2>4. x \in left /\ left \in SUBSET Route
    BY <2>3 DEF Barred, CodeTypes
  <2>5. EnterTier(q, left) /\ UNCHANGED <<up, usage>>
    BY <2>2, <2>4 DEF Look
  <2>6. Ahead(scan'[q], k)
    <3> HIDE DEF left
    <3> QED BY <2>3, <2>4, <2>5, EnterTierAhead
  <2>7. Usable(up, k)'
    BY <2>1, <2>5 DEF Offer, Usable
  <2> QED BY <1>1, <1>3, <2>6, <2>7 DEF ViewStays, Usable
<1>4. CASE UNCHANGED vars
  <2>1. UNCHANGED <<up, usage, pc, scan, stayed>>
    BY <1>4 DEF vars, code
  <2> QED BY <2>1 DEF Promises, Promised, View, Usable
<1> QED BY <1>2, <1>3, <1>4

LEMMA InitPromises == Init => Promises
BY DEF Init, Promises

LEMMA StayedEnd ==
  ASSUME CodeTypes, Barred, Promises, [Next]_vars, NEW r \in Request, pc'[r] = "nokey"
  PROVE  /\ pc[r] = "select" => Offer(r) = {}
         /\ pc[r] = "scan" => stayed[r] = {}
<1>1. ASSUME pc[r] = "select" PROVE Offer(r) = {}
  <2>1. Look(r)
    BY <1>1, ScanStep
  <2>2. routes \ job[r].excluded = {}
    BY <2>1 DEF Look, Goto, CodeTypes
  <2> QED BY <2>2 DEF Offer, Barred
<1>2. ASSUME pc[r] = "scan", NEW k \in stayed[r] PROVE FALSE
  <2>1. k \in View(r) /\ Usable(up, k) /\ Ahead(scan[r], k)
    BY <1>2 DEF Promises, Promised
  <2>2. CheckImmediate(r) \/ TryRoute(r)
    BY <1>2, ScanStep
  <2> QED BY <2>1, <2>2, ScanKeepsAhead
<1> QED BY <1>1, <1>2

(* While admins swap the route table and the key objects under a running   *)
(* selection, and keys come and go, it gives up only if no key has been    *)
(* usable, on a route that can serve the request, ever since it began: for *)
(* any routes, tiers, keys, limits and number of requests.                 *)
THEOREM StayedAlwaysFound == Spec => StayedIsFound
<1>1. CodeTypes /\ CodeTypes' /\ FreshOutside /\ [Next]_vars => FreshOutside'
  BY NextView
<1>2. CodeTypes /\ Barred /\ Promises /\ [Next]_vars =>
        [\A r \in Request :
           pc'[r] = "nokey" =>
             /\ pc[r] = "select" => Offer(r) = {}
             /\ pc[r] = "scan" => stayed[r] = {}]_vars
  BY StayedEnd
<1> QED BY NextTypes, <1>1, <1>2, InitTypes, InitFresh, InitBarred, NextBarred, InitPromises,
           NextPromises, PTL DEF Spec, StayedIsFound

=============================================================================
