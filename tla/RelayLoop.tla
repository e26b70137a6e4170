----------------------------- MODULE RelayLoop -----------------------------
(***************************************************************************)
(* Concurrent requests for one model group: the bounded retry loop of      *)
(* handler/chat.go (handleRelay) around route and key selection            *)
(* (selector/selector.go: RetryLoop, SelectKey).                           *)
(*                                                                         *)
(* Of a key only its availability in the engine's cache matters here       *)
(* (KeyStatus has the rest): `up`.  Refresh replaces the cached keys by    *)
(* new objects, so a selection that started before it goes on reading the  *)
(* old ones: scan.frozen.  The windows are shared and always read live.    *)
(*                                                                         *)
(* RecordResult is one step here.  Where KeyStatus lets a failed key stay  *)
(* in rotation (a failing UPDATE, an older cooldown), this module has it   *)
(* cooled and readmitted.                                                  *)
(***************************************************************************)
EXTENDS Integers, FiniteSets, Sequences

CONSTANTS
  Request,        \* goroutines serving requests for the group
  Key, Route,     \* Route: the group's routes, enabled or not
  NoKey, NoRoute, \* no key or route selected
  KeysOf,         \* the keys of each route's provider
  Priority,       \* of each route; smaller is tried first, only the order matters
  Rank,           \* of each key: sort_order, then id
  Strategy,       \* of each key: "immediate", "lazy" or "" (never set)
  Converting,     \* routes whose provider speaks another format (anthropic)
  Limit,          \* request limit of each key's window; 0 = none
  EmptyEnabled, EmptyThreshold,        \* the provider's empty-answer failover
  RetrySetting,   \* values saved for server.retry_times or the group's own
  DefaultRetries, MaxRetries,          \* 3 and 20 in the code
  Kind,           \* kinds of request that arrive
  Reply           \* answers upstreams give

AllKinds == {"chat", "stream", "embed", "malformed"}
(* An upstream answer: its status and what its body turns out to be.  500  *)
(* stands for 5xx, 408, 409 and 425; 302 for 3xx; 404 for every other 4xx. *)
AllReplies ==
  [status : {429}, body : {"plain", "quota", "unreadable"}]
  \cup [status : {401}, body : {"plain", "model", "unreadable"}]
  \cup [status : {400}, body : {"plain", "key", "unreadable"}]
  \cup [status : {402, 403, 500}, body : {"plain"}]
  \cup [status : {302, 404}, body : {"plain", "unreadable"}]
  \cup [status : {200}, body : {"plain", "empty", "error", "malformed", "unreadable"}]

ASSUME TopologyAssumption ==
  /\ IsFiniteSet(Request) /\ IsFiniteSet(Route)
  /\ NoKey \notin Key /\ NoRoute \notin Route
  /\ KeysOf \in [Route -> SUBSET Key] /\ Priority \in [Route -> Nat]
  /\ Rank \in [Key -> Nat] /\ \A j, k \in Key : Rank[j] = Rank[k] => j = k
  /\ Strategy \in [Key -> {"immediate", "lazy", ""}]
  /\ Converting \subseteq Route
  /\ Limit \in [Key -> Nat]
ASSUME SettingAssumption ==
  /\ EmptyEnabled \in BOOLEAN /\ EmptyThreshold \in Nat
  /\ RetrySetting \subseteq Int /\ DefaultRetries \in Nat /\ MaxRetries \in Nat
ASSUME InputAssumption == Kind \subseteq AllKinds /\ Reply \subseteq AllReplies

VARIABLES
  routes,   \* the cached enabled routes of the group
  up,       \* cached key objects: isKeyAvailable
  usage,    \* requests in each limited key's window
  empties,  \* each key's empty-answer streak
  pc, job,  \* where each request is, and the locals of its retry loop
  scan,     \* the locals of its running RetryLoop
  \* History, read by no action: what each request has met so far, what has
  \* been true since its selection began, and the keys that could have served
  \* it all that time.
  trace, sight, stayed

code == <<routes, up, usage, empties, pc, job, scan>>
vars == <<code, trace, sight, stayed>>

NoJob == [kind |-> "chat", retries |-> 0, attempt |-> 0, excluded |-> {}, last |-> 0,
          route |-> NoRoute, key |-> NoKey, gone |-> FALSE, answer |-> "none"]
NoScan == [rest |-> {}, order |-> <<>>, pos |-> 1, pass |-> 1, hot |-> FALSE,
           fresh |-> TRUE, frozen |-> {}]
NoTrace == [contacts |-> 0, met |-> 0, burned |-> {}]
NoSight == [up |-> {}, quiet |-> TRUE]

Init ==
  /\ routes \in SUBSET Route
  /\ up = Key
  /\ usage = [k \in Key |-> 0]
  /\ empties = [k \in Key |-> 0]
  /\ pc = [r \in Request |-> "idle"]
  /\ job = [r \in Request |-> NoJob]
  /\ scan = [r \in Request |-> NoScan]
  /\ trace = [r \in Request |-> NoTrace]
  /\ sight = [r \in Request |-> NoSight]
  /\ stayed = [r \in Request |-> {}]

Goto(r, to) == pc' = [pc EXCEPT ![r] = to]
Answer(r, a) ==
  /\ Goto(r, "done")
  /\ job' = [job EXCEPT ![r] = [@ EXCEPT !.answer = a, !.route = NoRoute, !.key = NoKey]]

-----------------------------------------------------------------------------
(* Key selection, reading one set of cached key objects.                   *)

(* Definitions named ..Broken are plausible slips; no other definition uses *)
(* them.  They show that the properties would notice.                      *)
UsableBroken(view, k) == k \in view /\ (Limit[k] = 0 \/ usage[k] <= Limit[k])
Usable(view, k) == k \in view /\ (Limit[k] = 0 \/ usage[k] < Limit[k])
(* The keys of least sort order: one, or none of an empty set.             *)
Least(S) == {k \in S : \A j \in S : Rank[k] <= Rank[j]}

HasImmediate(view, x) ==
  \E k \in KeysOf[x] : Strategy[k] = "immediate" /\ Usable(view, k)

(* SelectKey: the empty set stands for nil.                                *)
SelectKeyBroken(view, x) ==
  LET usable == {k \in KeysOf[x] : k \in view} IN
  Least(usable)
SelectKey(view, x) ==
  LET usable == {k \in KeysOf[x] : Usable(view, k)}
      eager == {k \in usable : Strategy[k] # "lazy"}
  IN  IF eager # {} THEN Least(eager) ELSE Least(usable)

TierBroken(S) == {x \in S : \A y \in S : Priority[x] >= Priority[y]}
Tier(S) == {x \in S : \A y \in S : Priority[x] <= Priority[y]}
(* weightedOrder: every order has a positive probability.                  *)
Orders(S) == {o \in [1..Cardinality(S) -> S] : \A x \in S : \E i \in DOMAIN o : o[i] = x}

View(r) == IF scan[r].fresh THEN up ELSE scan[r].frozen

-----------------------------------------------------------------------------
(* A request arrives.  Requests refused before the loop (unreadable body,  *)
(* unknown model) touch nothing and are left out.                          *)

AtMost(n, bound) == IF n > bound THEN bound ELSE n
Retries(n) == IF n < 0 THEN 0 ELSE AtMost(n, MaxRetries)

Arrive(r) ==
  /\ pc[r] = "idle"
  /\ \E kind \in Kind, n \in RetrySetting \cup {DefaultRetries} :
       job' = [job EXCEPT ![r] = [NoJob EXCEPT !.kind = kind, !.retries = Retries(n),
                                    !.answer = IF routes = {} THEN "no_routes" ELSE "none"]]
  /\ Goto(r, IF routes = {} THEN "done" ELSE "select")
  /\ UNCHANGED <<routes, up, usage, empties, scan, trace>>

Leave(r) ==
  /\ pc[r] = "done"
  /\ Goto(r, "idle")
  /\ job' = [job EXCEPT ![r] = NoJob]
  /\ trace' = [trace EXCEPT ![r] = NoTrace]
  /\ UNCHANGED <<routes, up, usage, empties, scan>>

(* RetryLoop: take the routes not excluded, lowest priority value first.   *)
EnterTier(r, S) ==
  \E o \in Orders(Tier(S)) :
    scan' = [scan EXCEPT ![r] = [@ EXCEPT !.rest = S \ Tier(S), !.order = o,
                                          !.pos = 1, !.pass = 1, !.hot = FALSE]]
StopScan(r) == scan' = [scan EXCEPT ![r] = NoScan]

Look(r) ==
  LET left == routes \ job[r].excluded IN
  /\ pc[r] = "select" /\ job[r].attempt <= job[r].retries
  /\ IF left = {} THEN Goto(r, "nokey") /\ UNCHANGED scan
                  ELSE Goto(r, "scan") /\ EnterTier(r, left)
  /\ UNCHANGED <<routes, up, usage, empties, job, trace>>

(* The route at hand yields nothing: the next one, the second pass (routes *)
(* without an immediate key), or the next tier.                            *)
NextRouteBroken(r) ==
  LET s == scan[r] IN
  IF s.pos < Len(s.order)
    THEN scan' = [scan EXCEPT ![r].pos = @ + 1, ![r].hot = FALSE] /\ UNCHANGED pc
  ELSE IF s.rest # {} THEN EnterTier(r, s.rest) /\ UNCHANGED pc
  ELSE StopScan(r) /\ Goto(r, "nokey")
NextRoute(r) ==
  LET s == scan[r] IN
  IF s.pos < Len(s.order)
    THEN scan' = [scan EXCEPT ![r].pos = @ + 1, ![r].hot = FALSE] /\ UNCHANGED pc
  ELSE IF s.pass = 1
    THEN scan' = [scan EXCEPT ![r].pos = 1, ![r].pass = 2, ![r].hot = FALSE] /\ UNCHANGED pc
  ELSE IF s.rest # {} THEN EnterTier(r, s.rest) /\ UNCHANGED pc
  ELSE StopScan(r) /\ Goto(r, "nokey")

CheckImmediate(r) ==
  /\ pc[r] = "scan" /\ scan[r].pass = 1 /\ ~scan[r].hot
  /\ IF HasImmediate(View(r), scan[r].order[scan[r].pos])
       THEN scan' = [scan EXCEPT ![r].hot = TRUE] /\ UNCHANGED pc
       ELSE NextRoute(r)
  /\ UNCHANGED <<routes, up, usage, empties, job, trace>>

TryRoute(r) ==
  LET x == scan[r].order[scan[r].pos]
      found == SelectKey(View(r), x)
  IN
  /\ pc[r] = "scan" /\ (scan[r].pass = 2 \/ scan[r].hot)
  /\ \/ /\ found = {}
        /\ NextRoute(r)
        /\ UNCHANGED job
     \/ \E k \in found :
          /\ job' = [job EXCEPT ![r].route = x, ![r].key = k]
          /\ StopScan(r) /\ Goto(r, "forward")
  /\ UNCHANGED <<routes, up, usage, empties, trace>>

(* No key: the routes are read once more to tell "nothing can serve this"  *)
(* from "everything is exhausted".                                         *)
GiveUp(r) ==
  /\ pc[r] = "nokey"
  /\ Answer(r, IF job[r].excluded # {} /\ Cardinality(job[r].excluded) = Cardinality(routes)
                 THEN "unsupported" ELSE "exhausted")
  /\ UNCHANGED <<routes, up, usage, empties, scan, trace>>

-----------------------------------------------------------------------------
(* ForwardRequest and what the loop does with its outcome.                 *)

Mine(r) == job[r].key

(* RecordResult(key, false, ..) cools the key; the attempt is spent.       *)
SpendAttemptBroken(r, status) ==
  /\ job' = [job EXCEPT ![r] = [@ EXCEPT !.attempt = job[r].attempt + 1,
                                         !.last = IF status = 0 THEN @ ELSE status,
                                         !.route = NoRoute, !.key = NoKey]]
  /\ Goto(r, "select")
SpendAttempt(r, status) ==
  /\ job' = [job EXCEPT ![r] = [@ EXCEPT !.attempt = job[r].attempt + 1, !.last = status,
                                         !.route = NoRoute, !.key = NoKey]]
  /\ Goto(r, "select")
BlameKeyBroken(r, status) ==
  /\ UNCHANGED up
  /\ SpendAttempt(r, status)
  /\ trace' = [trace EXCEPT ![r].met = status, ![r].burned = @ \cup {Mine(r)}]
BlameKey(r, status) ==
  /\ up' = up \ {Mine(r)}
  /\ SpendAttempt(r, status)
  /\ trace' = [trace EXCEPT ![r].met = status, ![r].burned = @ \cup {Mine(r)}]

(* Embeddings never go to an anthropic provider: the route is excluded and *)
(* no attempt spent.  A body that cannot be converted fails like a broken  *)
(* connection, before any connection is made.                              *)
Unsupported(r) == job[r].kind = "embed" /\ job[r].route \in Converting
Unconvertible(r) == job[r].kind = "malformed" /\ job[r].route \in Converting

ExcludeBroken(r) ==
  /\ pc[r] = "forward" /\ Unsupported(r)
  /\ job' = [job EXCEPT ![r] = [@ EXCEPT !.excluded = job[r].excluded \cup {job[r].route},
                                         !.attempt = @ + 1, !.route = NoRoute, !.key = NoKey]]
  /\ Goto(r, "select")
  /\ UNCHANGED <<routes, up, usage, empties, scan, trace>>
ExcludeForgetful(r) ==
  /\ pc[r] = "forward" /\ Unsupported(r)
  /\ job' = [job EXCEPT ![r] = [@ EXCEPT !.route = NoRoute, !.key = NoKey]]
  /\ Goto(r, "select")
  /\ UNCHANGED <<routes, up, usage, empties, scan, trace>>
Exclude(r) ==
  /\ pc[r] = "forward" /\ Unsupported(r)
  /\ job' = [job EXCEPT ![r] = [@ EXCEPT !.excluded = job[r].excluded \cup {job[r].route},
                                         !.route = NoRoute, !.key = NoKey]]
  /\ Goto(r, "select")
  /\ UNCHANGED <<routes, up, usage, empties, scan, trace>>

Contact(r) ==
  /\ pc[r] = "forward" /\ ~Unsupported(r) /\ ~Unconvertible(r)
  /\ Goto(r, "sent")
  /\ trace' = [trace EXCEPT ![r].contacts = @ + 1]
  /\ UNCHANGED <<routes, up, usage, empties, job, scan>>

(* No response.  A client that has gone takes its request with it.         *)
ForwardError(r) ==
  /\ \/ pc[r] = "sent"
     \/ pc[r] = "forward" /\ Unconvertible(r)
  /\ IF job[r].gone THEN Answer(r, "abandoned") /\ UNCHANGED <<up, trace>>
                    ELSE BlameKey(r, 0)
  /\ UNCHANGED <<routes, usage, empties, scan>>

Disconnect(r) ==
  /\ pc[r] = "sent" /\ ~job[r].gone
  /\ job' = [job EXCEPT ![r].gone = TRUE]
  /\ UNCHANGED <<routes, up, usage, empties, pc, scan, trace>>

BlamesKey(p) == \/ p.status \in {402, 403, 500}
                \/ p.status \in {401, 429} /\ p.body # "unreadable"
                \/ p.status = 400 /\ p.body = "key"
Success(p) == p.status = 200

KeyFault(r) ==
  /\ pc[r] = "sent"
  /\ \E p \in Reply : BlamesKey(p) /\ BlameKey(r, p.status)
  /\ UNCHANGED <<routes, usage, empties, scan>>

(* RecordResult(key, true): the empty streak ends, and a second success in *)
(* a row re-admits a key that was cooled meanwhile.                        *)
ObserveSuccess(k) ==
  /\ empties' = [empties EXCEPT ![k] = 0]
  /\ \/ UNCHANGED <<up, trace>>
     \/ up' = up \cup {k} /\ trace' = [r \in Request |-> [trace[r] EXCEPT !.burned = @ \ {k}]]

(* The upstream answered but not with a completion: the client gets the    *)
(* error and, unless the body broke off, the key the credit of an answer.  *)
PassError(r) ==
  /\ pc[r] = "sent"
  /\ \E p \in Reply :
       /\ ~BlamesKey(p)
       /\ \/ ~Success(p)
          \/ job[r].kind # "stream" /\ p.body \in {"error", "malformed", "unreadable"}
       /\ p.body = "malformed" => job[r].route \in Converting
       /\ Answer(r, IF p.body = "unreadable" THEN "unreadable" ELSE "upstream_error")
       /\ IF p.body = "unreadable" THEN UNCHANGED <<up, empties, trace>>
                                   ELSE ObserveSuccess(Mine(r))
  /\ UNCHANGED <<routes, usage, scan>>

(* An empty answer of a provider that opted in: RecordEmptyResponse cools  *)
(* the key at the threshold (0 = never).                                   *)
RecordEmpty(r) ==
  LET k == Mine(r)
      streak == AtMost(empties[k] + 1, EmptyThreshold)
      trips == EmptyThreshold > 0 /\ streak = EmptyThreshold
  IN
  /\ empties' = [empties EXCEPT ![k] = streak]
  /\ up' = IF trips THEN up \ {k} ELSE up
  /\ trace' = [trace EXCEPT ![r].met = 200,
                            ![r].burned = IF trips THEN @ \cup {k} ELSE @]

EmptyAnswer(r) ==
  /\ pc[r] = "sent" /\ job[r].kind # "stream" /\ EmptyEnabled
  /\ \E p \in Reply : Success(p) /\ p.body = "empty"
  /\ RecordEmpty(r)
  /\ SpendAttempt(r, 200)
  /\ UNCHANGED <<routes, usage, scan>>

(* RecordSuccess: the request counts in the key's window from here on.     *)
CountRequest(k) == usage' = IF Limit[k] = 0 THEN usage ELSE [usage EXCEPT ![k] = @ + 1]

Complete(r) ==
  /\ pc[r] = "sent" /\ job[r].kind # "stream"
  /\ \E p \in Reply : Success(p) /\ (p.body = "plain" \/ (p.body = "empty" /\ ~EmptyEnabled))
  /\ CountRequest(Mine(r))
  /\ Goto(r, "settle")
  /\ UNCHANGED <<routes, up, empties, job, scan, trace>>

(* A stream is committed to the client before its end is known.            *)
BeginStream(r) ==
  /\ pc[r] = "sent" /\ job[r].kind = "stream"
  /\ \E p \in Reply : Success(p)
  /\ Goto(r, "stream")
  /\ UNCHANGED <<routes, up, usage, empties, job, scan, trace>>

EndStream(r) ==
  /\ pc[r] = "stream"
  /\ \/ Answer(r, "broken") /\ UNCHANGED <<up, usage, empties, trace>>
     \/ EmptyEnabled /\ RecordEmpty(r) /\ Answer(r, "ok") /\ UNCHANGED usage
     \/ CountRequest(Mine(r)) /\ Goto(r, "settle") /\ UNCHANGED <<up, empties, job, trace>>
  /\ UNCHANGED <<routes, scan>>

(* The success observation, then applySpendLimit, which may find the       *)
(* lifetime budget spent.                                                  *)
Settle(r) ==
  /\ pc[r] = "settle"
  /\ ObserveSuccess(Mine(r))
  /\ Goto(r, "spend")
  /\ UNCHANGED <<routes, usage, job, scan>>

SpendLimit(r) ==
  /\ pc[r] = "spend"
  /\ up' \in {up, up \ {Mine(r)}}
  /\ Answer(r, "ok")
  /\ UNCHANGED <<routes, usage, empties, scan, trace>>

TerminalStatus(last) ==
  CASE last = 429 -> "exhausted"
    [] last \in {400, 401} -> "key_invalid"
    [] last = 403 -> "forbidden"
    [] last = 402 -> "quota"
    [] OTHER -> "all_failed"

Terminate(r) ==
  /\ pc[r] = "select" /\ job[r].attempt > job[r].retries
  /\ Answer(r, TerminalStatus(job[r].last))
  /\ UNCHANGED <<routes, up, usage, empties, scan, trace>>

-----------------------------------------------------------------------------
(* What happens around the requests.                                       *)

(* A key cools or is disabled by a probe, an admin or another group's      *)
(* request; it comes back when its cooldown ends or one of them says so.   *)
Bench(k) ==
  /\ k \in up
  /\ up' = up \ {k}
  /\ UNCHANGED <<routes, usage, empties, pc, job, scan, trace>>

Readmit(k) ==
  /\ k \notin up
  /\ up' = up \cup {k}
  /\ trace' = [r \in Request |-> [trace[r] EXCEPT !.burned = @ \ {k}]]
  /\ UNCHANGED <<routes, usage, empties, pc, job, scan>>

WindowSlides(k) ==
  /\ usage[k] > 0
  /\ \E n \in 0..usage[k] - 1 : usage' = [usage EXCEPT ![k] = n]
  /\ UNCHANGED <<routes, up, empties, pc, job, scan, trace>>

(* An admin write ends in Engine.Refresh: a new route table over new key   *)
(* objects.                                                                *)
Refresh ==
  /\ routes' \in SUBSET Route
  /\ scan' = [r \in Request |->
                IF pc[r] = "scan" /\ scan[r].fresh
                THEN [scan[r] EXCEPT !.fresh = FALSE, !.frozen = up] ELSE scan[r]]
  /\ UNCHANGED <<up, usage, empties, pc, job, trace>>

Serve(r) ==
  \/ Leave(r) \/ Look(r) \/ CheckImmediate(r) \/ TryRoute(r) \/ GiveUp(r)
  \/ Exclude(r) \/ Contact(r) \/ ForwardError(r) \/ KeyFault(r)
  \/ PassError(r) \/ EmptyAnswer(r) \/ Complete(r) \/ BeginStream(r) \/ EndStream(r)
  \/ Settle(r) \/ SpendLimit(r) \/ Terminate(r)
Surroundings ==
  \/ \E r \in Request : Arrive(r) \/ Disconnect(r)
  \/ \E k \in Key : Bench(k) \/ Readmit(k) \/ WindowSlides(k)
  \/ Refresh

(* The usable keys of the routes of the table that can serve a request.    *)
Offer(r) ==
  {k \in Key : /\ \E x \in routes : /\ ~(job[r].kind = "embed" /\ x \in Converting)
                                   /\ k \in KeysOf[x]
               /\ Usable(up, k)}

(* Upkeep of `sight`: the keys that were up at some moment of the running  *)
(* selection, and whether nothing it reads changed while it ran; and of    *)
(* `stayed`: what was on offer when it began and has been usable since.    *)
Watch ==
  /\ sight' = [r \in Request |->
       CASE pc'[r] # "scan" -> NoSight
         [] pc'[r] = "scan" /\ pc[r] # "scan" -> [up |-> up, quiet |-> TRUE]
         [] OTHER -> [up |-> sight[r].up \cup up',
                      quiet |-> sight[r].quiet /\ <<routes, up, usage>>' = <<routes, up, usage>>]]
  /\ stayed' = [r \in Request |->
       CASE pc'[r] # "scan" -> {}
         [] pc'[r] = "scan" /\ pc[r] # "scan" -> Offer(r)
         [] OTHER -> {k \in stayed[r] : Usable(up, k)'}]

Next == ((\E r \in Request : Serve(r)) \/ Surroundings) /\ Watch

Spec == Init /\ [][Next]_vars

(* net/http serves every request in a goroutine of its own, and an         *)
(* upstream answers or its client times out.                               *)
FairSpec == Spec /\ \A r \in Request : WF_vars(Serve(r) /\ Watch)

-----------------------------------------------------------------------------
(* Properties.                                                             *)

Answers == {"none", "no_routes", "unsupported", "exhausted", "abandoned", "unreadable",
            "upstream_error", "broken", "ok", "key_invalid", "forbidden", "quota", "all_failed"}
Place == {"idle", "select", "scan", "nokey", "forward", "sent", "stream", "settle", "spend", "done"}
Holding == {"forward", "sent", "stream", "settle", "spend"}
JobSpace == [kind : AllKinds, retries : Nat, attempt : Nat, excluded : SUBSET Route,
             last : Int, route : Route \cup {NoRoute}, key : Key \cup {NoKey},
             gone : BOOLEAN, answer : Answers]
ScanSpace == [rest : SUBSET Route, order : Seq(Route), pos : Nat \ {0}, pass : 1..2,
              hot : BOOLEAN, fresh : BOOLEAN, frozen : SUBSET Key]

(* The types of the state and, for a request that holds a route and a key, *)
(* that the key is one of the route's provider.                            *)
TypeOK ==
  /\ routes \subseteq Route /\ up \subseteq Key
  /\ usage \in [Key -> Nat] /\ empties \in [Key -> 0..EmptyThreshold]
  /\ pc \in [Request -> Place]
  /\ job \in [Request -> JobSpace]
  /\ scan \in [Request -> ScanSpace]
  /\ trace \in [Request -> [contacts : Nat, met : Int, burned : SUBSET Key]]
  /\ sight \in [Request -> [up : SUBSET Key, quiet : BOOLEAN]]
  /\ stayed \in [Request -> SUBSET Key]
  /\ \A r \in Request :
       /\ pc[r] \in Holding => job[r].route \in Route /\ Mine(r) \in KeysOf[job[r].route]
       /\ pc[r] = "scan" => scan[r].pos <= Len(scan[r].order)

(* Selection checks a limit that only finished requests count against, so  *)
(* concurrent requests overshoot it -- but never by more than the number   *)
(* of the other requests in flight.                                        *)
OvershootBounded ==
  \A k \in Key : Limit[k] > 0 => usage[k] <= Limit[k] + Cardinality(Request) - 1

(* Failover: a request never goes back to a key it has itself seen fail,   *)
(* unless that key was re-admitted since.                                  *)
NoRepeat ==
  \A r \in Request : pc[r] \in {"forward", "sent"} => Mine(r) \notin trace[r].burned

(* However stale the route entries a selection walks, the key it picks was *)
(* available at some moment of that selection and is within its limit now. *)
PickWasAvailable ==
  [][ \A r \in Request :
        pc[r] = "scan" /\ pc'[r] = "forward" =>
          LET k == job'[r].key IN
          k \in sight[r].up /\ (Limit[k] = 0 \/ usage[k] < Limit[k]) ]_vars

(* The best choices by the documentation of RetryLoop and SelectKey: the   *)
(* first tier with a usable key; in it a route with an immediate key if    *)
(* there is one; on the route an eager key before a lazy one, by rank.     *)
Best(left) ==
  LET able == {x \in left : SelectKey(up, x) # {}}
      tier == {x \in able : \A y \in able : Priority[x] <= Priority[y]}
      hot == {x \in tier : HasImmediate(up, x)}
  IN  IF hot # {} THEN hot ELSE tier

(* When nothing changes while a selection runs, it finds one of the best,  *)
(* and gives up only if no route of the group has a usable key.            *)
SelectionFindsBest ==
  [][ \A r \in Request :
        LET best == Best(routes \ job[r].excluded) IN
        pc[r] = "scan" /\ sight[r].quiet =>
          /\ pc'[r] = "forward" => job'[r].route \in best
          /\ pc'[r] = "nokey" => best = {} ]_vars

(* At most one contact more than the configured retries; and apart from    *)
(* bodies that cannot be converted every attempt spent was a contact, so   *)
(* routes that cannot serve the request cost none.                         *)
AttemptsPaid ==
  \A r \in Request :
    /\ job[r].retries <= MaxRetries
    /\ trace[r].contacts <= job[r].retries + 1
    /\ pc[r] \in {"select", "scan", "nokey", "forward"} /\ job[r].kind # "malformed"
         => job[r].attempt = trace[r].contacts

(* The terminal error tells what the LAST attempt met, not an earlier one. *)
TerminalTellsLast ==
  \A r \in Request :
    LET a == job[r].answer  met == trace[r].met IN
    /\ a = "key_invalid" => met \in {400, 401}
    /\ a = "forbidden" => met = 403
    /\ a = "quota" => met = 402
    /\ a = "all_failed" => met \in {0, 200, 500}

(* Whatever admins, probes and other requests change while a selection     *)
(* runs, it does not give up, and so no client is refused, as long as the  *)
(* table it began with had a route that can serve the request with a key   *)
(* that was usable all the time.                                           *)
StayedIsFound ==
  [][ \A r \in Request :
        pc'[r] = "nokey" =>
          /\ pc[r] = "select" => Offer(r) = {}
          /\ pc[r] = "scan" => stayed[r] = {} ]_vars

(* Every request that arrives is answered or abandoned.                    *)
EveryRequestEnds == \A r \in Request : pc[r] = "select" ~> pc[r] = "done"
=============================================================================
