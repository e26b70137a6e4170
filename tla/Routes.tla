-------------------------------- MODULE Routes --------------------------------
(***************************************************************************)
(* The admin API's route table (handler/admin.go), the order that browser    *)
(* tabs drag it into, and the engine's copy of it (Engine.Refresh).          *)
(*                                                                          *)
(* A tab saves an order under a version: a timestamp, its client id and a    *)
(* sequence number. Requests may be lost, late, reordered and repeated (a     *)
(* closing page sends its last order once more). The server has one database *)
(* connection: no statement runs while a transaction is open, and between the *)
(* single statements of a handler those of the others do.                    *)
(***************************************************************************)
EXTENDS Integers

CONSTANTS
  Tab,           \* tabs: their client ids, in their order
  Editor,        \* goroutines of the handlers that edit routes
  Orders,        \* the reorder handler (routeReorderMu admits one at a time)
  Route,         \* route ids, never used again (AUTOINCREMENT)
  Group, Provider,
  First,         \* the rows there are at the start
  Payload,       \* the rows that clients send
  Ranking,       \* what a tab sends: a priority for each route it shows
  Free,          \* nobody
  Unused, Deleted, \* a route id not given yet, and one whose row is gone
  Horizon,       \* the latest timestamp the server accepts
  Clock,         \* bound: what each tab's clock shows
  MaxOrders,     \* bound: orders each tab saves
  MaxEdits       \* bound: edits of the table

Row == [group : Group, provider : Provider, priority : Nat]
Rows == [Route -> Row \cup {Unused, Deleted}]
Actor == Editor \cup {Orders}

ASSUME RoutesAssumption ==
  /\ Tab \subseteq Nat \ {0}
  /\ Orders \notin Editor /\ Free \notin Actor \cup Route
  /\ Unused \notin Row /\ Deleted \notin Row /\ Unused # Deleted
  /\ First \in Rows /\ Payload \subseteq Row
  /\ \A ranks \in Ranking : /\ DOMAIN ranks \subseteq Route
                            /\ ranks \in [DOMAIN ranks -> Nat]
  /\ Horizon \in Int /\ Clock \in [Tab -> SUBSET Nat] /\ MaxOrders \in [Tab -> Nat]
  /\ MaxEdits \in Nat

VARIABLES
  tabs,          \* per tab: its last timestamp and sequence, the version it has seen
  net,           \* the orders ever sent; any of them may arrive again and again
  version,       \* the stored route order version
  tx,            \* ReorderRoutes' open transaction, or Free
  rows, groups, providers,   \* the tables
  cache,         \* the engine's routes
  engine,        \* who holds the engine's lock
  job,           \* per goroutine: where it is and its locals
  edits,         \* edits so far
  latest,        \* history: the order committed last
  applied,       \* history: the versions of all orders committed
  touched,       \* history: routes written since the last order, but by orders
  gone           \* history: routes whose deletion was answered

orderVars == <<tabs, net, version, tx, latest, applied>>
tableVars == <<rows, groups, providers, edits, touched>>
engineVars == <<cache, engine, gone>>
vars == <<orderVars, tableVars, engineVars, job>>
------------------------------------------------------------------------------
(* Versions *)

Version == [time : Nat, tab : Tab \cup {0}, sequence : Nat]
Zero == [time |-> 0, tab |-> 0, sequence |-> 0]

\* Mutant: the client ids do not decide between equal timestamps.
NewerBroken(candidate, current) ==
  \/ current = Zero
  \/ candidate.tab = current.tab /\ candidate.sequence > current.sequence
  \/ candidate.tab # current.tab /\ candidate.time >= current.time

\* newerRouteOrderVersion
Newer(candidate, current) ==
  \/ current = Zero
  \/ /\ candidate.tab = current.tab
     /\ candidate.sequence > current.sequence
  \/ /\ candidate.tab # current.tab
     /\ \/ candidate.time > current.time
        \/ candidate.time = current.time /\ candidate.tab > current.tab

\* observeRouteOrderVersion
Later(v, w) ==
  \/ v.time > w.time
  \/ v.time = w.time /\ v.tab > w.tab
  \/ v.time = w.time /\ v.tab = w.tab /\ v.sequence > w.sequence

\* The committed version's timestamp is never below the one before it.
Committed(order) ==
  [order EXCEPT !.time = IF version.time > @ THEN version.time ELSE @]
------------------------------------------------------------------------------
Exists(r) == rows[r] \notin {Unused, Deleted}

\* What Refresh makes of the tables it has read.
Served(table, gs, ps) ==
  [r \in Route |-> IF /\ table[r] \notin {Unused, Deleted}
                      /\ table[r].group \in gs /\ table[r].provider \in ps
                   THEN table[r] ELSE Unused]

\* A handler's victims (history): what it deleted and nobody saved again since.
Idle == [at |-> "idle", id |-> Free, row |-> Unused, victims |-> {},
         groups |-> {}, providers |-> {}, routes |-> Unused]

Init ==
  /\ tabs = [t \in Tab |-> [last |-> 0, sequence |-> 0, seen |-> Zero]]
  /\ net = {} /\ version = Zero /\ tx = Free
  /\ rows = First /\ groups = Group /\ providers = Provider
  /\ cache = Served(First, Group, Provider) /\ engine = Free
  /\ job = [a \in Actor |-> Idle] /\ edits = 0
  /\ latest = Free /\ applied = {} /\ touched = {} /\ gone = {}
------------------------------------------------------------------------------
(* The tabs (web/src/api/routeOrder.ts) *)

\* Mutant: the timestamp does not respect what the tab has seen of the others.
FloorBroken(t) == tabs[t].last

\* nextRouteOrderVersion takes a timestamp above it.
Floor(t) ==
  IF tabs[t].last > tabs[t].seen.time THEN tabs[t].last ELSE tabs[t].seen.time

\* persistRouteOrder sends an order under nextRouteOrderVersion.
Save(t) ==
  /\ tabs[t].sequence < MaxOrders[t]
  /\ \E clock \in Clock[t], ranks \in Ranking :
       LET time == IF clock > Floor(t) THEN clock ELSE Floor(t) + 1
           sequence == tabs[t].sequence + 1
       IN /\ tabs' = [tabs EXCEPT ![t].last = time, ![t].sequence = sequence]
          /\ net' = net \cup {[version |-> [time |-> time, tab |-> t, sequence |-> sequence],
                               ranks |-> ranks, seen |-> tabs[t].seen]}
  /\ UNCHANGED <<version, tx, latest, applied, tableVars, engineVars, job>>

\* The header of an answer arrives, of GetRoutes or of a save, however late.
Observe(t) ==
  /\ \E v \in applied : Later(v, tabs[t].seen) /\ tabs' = [tabs EXCEPT ![t].seen = v]
  /\ UNCHANGED <<net, version, tx, latest, applied, tableVars, engineVars, job>>
------------------------------------------------------------------------------
(* ReorderRoutes *)

Arrives(order) == job[Orders].at = "idle" /\ tx = Free /\ order.version.time <= Horizon

\* 409: the answer carries the stored version (and may be lost on its way).
Refuse ==
  /\ \E order \in net :
       LET t == order.version.tab
       IN /\ Arrives(order) /\ ~Newer(order.version, version)
          /\ tabs' = [tabs EXCEPT ![t].seen = IF Later(version, @) THEN version ELSE @]
  /\ UNCHANGED <<net, version, tx, latest, applied, tableVars, engineVars, job>>

Accept ==
  /\ \E order \in net :
       /\ Arrives(order) /\ Newer(order.version, version)
       /\ tx' = [order |-> order, rows |-> rows, todo |-> DOMAIN order.ranks]
  /\ UNCHANGED <<tabs, net, version, latest, applied, tableVars, engineVars, job>>

\* Mutant: the UPDATEs run outside the transaction.
WriteRankBroken ==
  /\ tx # Free
  /\ \E r \in tx.todo :
       /\ rows' = [rows EXCEPT ![r] = IF Exists(r) THEN [@ EXCEPT !.priority = tx.order.ranks[r]] ELSE @]
       /\ tx' = [tx EXCEPT !.todo = @ \ {r}, !.rows = rows']
  /\ UNCHANGED <<tabs, net, version, latest, applied, groups, providers, edits, touched, engineVars, job>>

\* An UPDATE of a route that is gone changes nothing.
WriteRank ==
  /\ tx # Free
  /\ \E r \in tx.todo :
       tx' = [tx EXCEPT !.todo = @ \ {r},
                        !.rows[r] = IF @ \in Row THEN [@ EXCEPT !.priority = tx.order.ranks[r]] ELSE @]
  /\ UNCHANGED <<tabs, net, version, latest, applied, tableVars, engineVars, job>>

\* The version is saved with the priorities.
Commit ==
  /\ tx # Free /\ tx.todo = {}
  /\ rows' = tx.rows
  /\ version' = Committed(tx.order.version)
  /\ latest' = tx.order /\ applied' = applied \cup {version'} /\ touched' = {}
  /\ tx' = Free
  /\ job' = [job EXCEPT ![Orders].at = "lock"]
  /\ UNCHANGED <<tabs, net, groups, providers, edits, engineVars>>

\* The client has gone (the request's context is cancelled) or a statement failed.
Rollback ==
  /\ tx # Free
  /\ tx' = Free
  /\ UNCHANGED <<tabs, net, version, latest, applied, tableVars, engineVars, job>>
------------------------------------------------------------------------------
(* The handlers that edit routes, one statement at a time *)

Moves(e, from, to) ==
  /\ job[e].at = from /\ tx = Free
  /\ job' = [job EXCEPT ![e] = IF to = "idle" THEN Idle ELSE [@ EXCEPT !.at = to]]

Begins(e) == job[e].at = "idle" /\ tx = Free /\ edits < MaxEdits /\ edits' = edits + 1

\* UpdateRoute reads the row, binds the payload over it, and will save it whole.
UpdateRoute(e) ==
  /\ Begins(e)
  /\ \E r \in Route :
       /\ Exists(r)
       /\ \E row \in Payload :
            job' = [job EXCEPT ![e].at = "group", ![e].id = r, ![e].row = row]
  /\ UNCHANGED <<orderVars, rows, groups, providers, touched, engineVars>>

CreateRoute(e) ==
  /\ Begins(e)
  /\ \E row \in Payload :
       job' = [job EXCEPT ![e].at = "group", ![e].id = Free, ![e].row = row]
  /\ UNCHANGED <<orderVars, rows, groups, providers, touched, engineVars>>

\* 400 when the group, then the provider, does not exist.
CheckGroup(e) ==
  /\ Moves(e, "group", IF job[e].row.group \in groups THEN "provider" ELSE "idle")
  /\ UNCHANGED <<orderVars, tableVars, engineVars>>

CheckProvider(e) ==
  /\ Moves(e, "provider", IF job[e].row.provider \notin providers THEN "idle"
                          ELSE IF job[e].id = Free /\ job[e].row.priority = 0
                          THEN "last" ELSE "unique")
  /\ UNCHANGED <<orderVars, tableVars, engineVars>>

\* A new route goes to the end of its group.
Siblings(e) == {r \in Route : Exists(r) /\ rows[r].group = job[e].row.group}

PlaceLast(e) ==
  /\ job[e].at = "last" /\ tx = Free
  /\ \E priority \in {0} \cup {rows[r].priority + 1 : r \in Siblings(e)} :
       /\ \A r \in Siblings(e) : priority > rows[r].priority
       /\ job' = [job EXCEPT ![e].at = "unique", ![e].row.priority = priority]
  /\ UNCHANGED <<orderVars, tableVars, engineVars>>

CheckUnique(e) ==
  /\ Moves(e, "unique", IF \E r \in Siblings(e) \ {job[e].id} : rows[r].provider = job[e].row.provider
                        THEN "idle" ELSE IF job[e].id = Free THEN "insert" ELSE "save")
  /\ UNCHANGED <<orderVars, tableVars, engineVars>>

\* Save updates the row, or inserts it again when it was deleted meanwhile.
SaveRow(e) ==
  /\ job[e].at = "save" /\ tx = Free
  /\ job' = [a \in Actor |-> [job[a] EXCEPT !.at = IF a = e THEN "lock" ELSE @,
                                            !.victims = @ \ {job[e].id}]]
  /\ rows' = [rows EXCEPT ![job[e].id] = job[e].row]
  /\ touched' = touched \cup {job[e].id} /\ gone' = gone \ {job[e].id}
  /\ UNCHANGED <<orderVars, groups, providers, edits, cache, engine>>

InsertRow(e) ==
  /\ Moves(e, "insert", "lock")
  /\ \E r \in Route : /\ rows[r] = Unused
                      /\ rows' = [rows EXCEPT ![r] = job[e].row]
                      /\ touched' = touched \cup {r}
  /\ UNCHANGED <<orderVars, groups, providers, edits, engineVars>>

Remove(e, victims) ==
  /\ rows' = [r \in Route |-> IF r \in victims THEN Deleted ELSE rows[r]]
  /\ job' = [job EXCEPT ![e].at = "lock", ![e].victims = victims]

DeleteRoute(e) ==
  /\ Begins(e)
  /\ \E r \in Route : Remove(e, {q \in {r} : Exists(q)})
  /\ UNCHANGED <<orderVars, groups, providers, touched, engineVars>>

\* DeleteModelGroup and DeleteProvider, each with its routes in one transaction.
DeleteModelGroup(e) ==
  /\ Begins(e)
  /\ \E g \in groups : /\ groups' = groups \ {g}
                       /\ Remove(e, {r \in Route : Exists(r) /\ rows[r].group = g})
  /\ UNCHANGED <<orderVars, providers, touched, engineVars>>

DeleteProvider(e) ==
  /\ Begins(e)
  /\ \E p \in providers : /\ providers' = providers \ {p}
                          /\ Remove(e, {r \in Route : Exists(r) /\ rows[r].provider = p})
  /\ UNCHANGED <<orderVars, groups, touched, engineVars>>
------------------------------------------------------------------------------
(* Refresh, by any of them, before it answers *)

\* Mutant: the tables are read before the lock is taken.
LockBroken(a) ==
  /\ job[a].at = "lock"
  /\ engine' = a
  /\ job' = [job EXCEPT ![a].at = "providers"]
  /\ UNCHANGED <<orderVars, tableVars, cache, gone>>

Lock(a) ==
  /\ job[a].at = "lock" /\ engine = Free
  /\ engine' = a
  /\ job' = [job EXCEPT ![a].at = "providers"]
  /\ UNCHANGED <<orderVars, tableVars, cache, gone>>

ReadProviders(a) ==
  /\ job[a].at = "providers" /\ tx = Free
  /\ job' = [job EXCEPT ![a].at = "groups", ![a].providers = providers]
  /\ UNCHANGED <<orderVars, tableVars, engineVars>>

ReadGroups(a) ==
  /\ job[a].at = "groups" /\ tx = Free
  /\ job' = [job EXCEPT ![a].at = "routes", ![a].groups = groups]
  /\ UNCHANGED <<orderVars, tableVars, engineVars>>

ReadRoutes(a) ==
  /\ job[a].at = "routes" /\ tx = Free
  /\ job' = [job EXCEPT ![a].at = "publish",
                        ![a].routes = Served(rows, job[a].groups, job[a].providers)]
  /\ UNCHANGED <<orderVars, tableVars, engineVars>>

\* The new routes, the lock, and the answer.
Publish(a) ==
  /\ job[a].at = "publish"
  /\ cache' = job[a].routes /\ engine' = Free
  /\ gone' = gone \cup job[a].victims
  /\ job' = [job EXCEPT ![a] = Idle]
  /\ UNCHANGED <<orderVars, tableVars>>

\* A crash, then NewEngine's Refresh.
Restart ==
  /\ tx' = Free /\ engine' = Free
  /\ job' = [a \in Actor |-> Idle]
  /\ cache' = Served(rows, groups, providers)
  /\ UNCHANGED <<tabs, net, version, latest, applied, tableVars, gone>>
------------------------------------------------------------------------------
EditorStep(e) ==
  \/ CheckGroup(e) \/ CheckProvider(e) \/ PlaceLast(e) \/ CheckUnique(e)
  \/ SaveRow(e) \/ InsertRow(e)

RefreshStep(a) == Lock(a) \/ ReadProviders(a) \/ ReadGroups(a) \/ ReadRoutes(a) \/ Publish(a)

Next ==
  \/ \E t \in Tab : Save(t) \/ Observe(t)
  \/ Refuse \/ Accept \/ WriteRank \/ Commit \/ Rollback
  \/ \E e \in Editor : \/ UpdateRoute(e) \/ CreateRoute(e) \/ EditorStep(e)
                       \/ DeleteRoute(e) \/ DeleteModelGroup(e) \/ DeleteProvider(e)
  \/ \E a \in Actor : RefreshStep(a)
  \/ Restart

Spec == Init /\ [][Next]_vars
------------------------------------------------------------------------------
Order == [version : Version, ranks : Ranking, seen : Version]
Step == {"idle", "group", "provider", "last", "unique", "save", "insert",
         "lock", "providers", "groups", "routes", "publish"}
Job == [at : Step, id : Route \cup {Free}, row : Row \cup {Unused}, victims : SUBSET Route,
        groups : SUBSET Group, providers : SUBSET Provider,
        routes : [Route -> Row \cup {Unused}] \cup {Unused}]

TypeOK ==
  /\ tabs \in [Tab -> [last : Nat, sequence : Nat, seen : Version]]
  /\ net \subseteq Order
  /\ tx \in {Free} \cup [order : Order, rows : Rows, todo : SUBSET Route]
  /\ version \in Version /\ applied \subseteq Version
  /\ rows \in Rows /\ groups \subseteq Group /\ providers \subseteq Provider
  /\ cache \in [Route -> Row \cup {Unused}]
  /\ engine \in Actor \cup {Free}
  /\ job \in [Actor -> Job]
  /\ latest \in Order \cup {Free}
  /\ touched \subseteq Route /\ gone \subseteq Route

(* Nothing that happens to the requests brings an order back: the order that  *)
(* is committed is later than the one before it, and its tab has committed    *)
(* none as new before. newerRouteOrderVersion compares only with the stored   *)
(* version, which other tabs have overwritten in between.                     *)
OrdersAdvance ==
  [][ version' # version =>
        /\ Later(version', version)
        /\ \A v \in applied : v.tab = version'.tab => v.sequence < version'.sequence ]_vars

(* Only an order whose tab did not know better is refused: one that the tab's *)
(* own later order has replaced, or that loses to a version the tab had not   *)
(* seen when it saved. Who has seen the order and drags again is never told   *)
(* that the order is stale, whatever the clocks say.                          *)
RefusedUnseen ==
  \A order \in net :
    \/ Newer(order.version, version)
    \/ version.tab = order.version.tab /\ version.sequence >= order.version.sequence
    \/ version.time > order.seen.time

(* The priorities in the table are those of the order under the stored        *)
(* version, all of them or (before the first) none: a cancelled request, a    *)
(* failed UPDATE or a crash leaves no order half applied. Routes that were    *)
(* created or edited since have the priority they were saved with.            *)
OrderWhole ==
  latest # Free =>
    \A r \in (DOMAIN latest.ranks) \ touched :
      Exists(r) => rows[r].priority = latest.ranks[r]

(* When a delete has been answered the engine does not route to it any more,  *)
(* though other refreshes read the tables before it and publish after it; and *)
(* with no handler running the engine's routes are those of the database.     *)
EditsShown ==
  /\ \A r \in gone : cache[r] = Unused
  /\ (\A a \in Actor : job[a] = Idle) => cache = Served(rows, groups, providers)
===============================================================================
