----------------------------- MODULE RoutesProofs -----------------------------
(***************************************************************************)
(* Proofs about Routes, for any tabs, clocks, editors, tables and numbers of *)
(* orders and edits.                                                         *)
(***************************************************************************)
EXTENDS Routes, TLAPS

Reading == {"providers", "groups", "routes", "publish"}

EditStep(e) ==
  \/ UpdateRoute(e) \/ CreateRoute(e) \/ EditorStep(e)
  \/ DeleteRoute(e) \/ DeleteModelGroup(e) \/ DeleteProvider(e)
------------------------------------------------------------------------------
(* Types: a handler has a row and a route wherever it uses them. *)

JobLocals ==
  \A a \in Actor :
    /\ job[a].at \in {"group", "provider", "last", "unique", "save", "insert"} => job[a].row \in Row
    /\ job[a].at = "save" => job[a].id \in Route
    /\ job[a].at = "publish" => job[a].routes \in [Route -> Row \cup {Unused}]

\* And a transaction has a priority for each route it still has to write.
Locals ==
  /\ JobLocals
  /\ tx # Free => tx.todo \subseteq DOMAIN tx.order.ranks

Types == TypeOK /\ Locals

LEMMA ServedType ==
  ASSUME NEW table \in Rows, NEW gs, NEW ps
  PROVE  Served(table, gs, ps) \in [Route -> Row \cup {Unused}]
  <1>1. \A r \in Route : table[r] \in Row \cup {Unused, Deleted}
    BY DEF Rows
  <1>2. QED
    BY <1>1 DEF Served

\* A goroutine's next place in its handler keeps everybody's types.
LEMMA JobType ==
  ASSUME Types, NEW a \in Actor, NEW j \in Job,
         j.at \in {"group", "provider", "last", "unique", "save", "insert"} => j.row \in Row,
         j.at = "save" => j.id \in Route,
         j.at = "publish" => j.routes \in [Route -> Row \cup {Unused}],
         job' = [job EXCEPT ![a] = j]
  PROVE  job' \in [Actor -> Job] /\ JobLocals'
  <1>1. job \in [Actor -> Job]
    BY DEF Types, TypeOK
  <1>2. \A b \in Actor : job'[b] = IF b = a THEN j ELSE job[b]
    BY <1>1
  <1>3. QED
    BY <1>1, <1>2 DEF Types, Locals, JobLocals

\* Whoever has finished goes on to Refresh.
LEMMA JobLock ==
  ASSUME Types, NEW a \in Actor, job' = [job EXCEPT ![a].at = "lock"]
  PROVE  job' \in [Actor -> Job] /\ JobLocals'
  <1>1. job[a] \in Job
    BY DEF Types, TypeOK
  <1>2. [job[a] EXCEPT !.at = "lock"] \in Job
    BY <1>1 DEF Job, Step
  <1>3. [job[a] EXCEPT !.at = "lock"].at = "lock"
    BY <1>1 DEF Job
  <1>4. QED
    BY <1>2, <1>3, JobType

LEMMA IdleType == Idle \in Job
  BY DEF Idle, Job, Step

LEMMA InitTypes == ASSUME RoutesAssumption, Init PROVE Types
  <1>1. Served(First, Group, Provider) \in [Route -> Row \cup {Unused}]
    BY ServedType DEF RoutesAssumption
  <1>2. Zero \in Version
    BY DEF Zero, Version
  <1>3. TypeOK
    BY <1>1, <1>2, IdleType DEF Init, TypeOK, RoutesAssumption
  <1>4. Locals
    BY DEF Init, Locals, JobLocals, Idle
  <1>5. QED
    BY <1>3, <1>4 DEF Types

\* Steps of the tabs and of ReorderRoutes.
LEMMA OrderTypes ==
  ASSUME RoutesAssumption, Types,
         (\E t \in Tab : Save(t) \/ Observe(t)) \/ Refuse \/ Accept \/ WriteRank \/ Commit \/ Rollback
  PROVE  Types'
  <1> USE DEF Types
  <1>1. ASSUME NEW t \in Tab, Save(t) PROVE Types'
    <2>1. PICK clock \in Clock[t], ranks \in Ranking :
            LET time == IF clock > Floor(t) THEN clock ELSE Floor(t) + 1
                sequence == tabs[t].sequence + 1
            IN /\ tabs' = [tabs EXCEPT ![t].last = time, ![t].sequence = sequence]
               /\ net' = net \cup {[version |-> [time |-> time, tab |-> t, sequence |-> sequence],
                                    ranks |-> ranks, seen |-> tabs[t].seen]}
      BY <1>1 DEF Save
    <2>2. clock \in Nat /\ Floor(t) \in Nat
      BY DEF RoutesAssumption, Floor, TypeOK, Version
    <2> DEFINE time == IF clock > Floor(t) THEN clock ELSE Floor(t) + 1
               sequence == tabs[t].sequence + 1
    <2>3. time \in Nat /\ sequence \in Nat /\ tabs[t].seen \in Version
      BY <2>2 DEF TypeOK
    <2> HIDE DEF time, sequence
    <2>4. tabs' \in [Tab -> [last : Nat, sequence : Nat, seen : Version]]
      BY <2>1, <2>3 DEF TypeOK, time, sequence
    <2>5. [time |-> time, tab |-> t, sequence |-> sequence] \in Version
      BY <2>3 DEF Version
    <2>6. net' \subseteq Order
      BY <2>1, <2>3, <2>5 DEF TypeOK, Order, time, sequence
    <2>7. QED
      BY <1>1, <2>4, <2>6 DEF Save, TypeOK, Locals, JobLocals, tableVars, engineVars
  <1>2. ASSUME NEW t \in Tab, Observe(t) PROVE Types'
    BY <1>2 DEF Observe, TypeOK, Locals, JobLocals, tableVars, engineVars
  <1>3. CASE Refuse
    <2>1. PICK order \in net :
            tabs' = [tabs EXCEPT ![order.version.tab].seen = IF Later(version, @) THEN version ELSE @]
      BY <1>3 DEF Refuse
    <2>2. \A t \in Tab : (IF Later(version, tabs[t].seen) THEN version ELSE tabs[t].seen) \in Version
      BY DEF TypeOK
    <2>3. tabs' \in [Tab -> [last : Nat, sequence : Nat, seen : Version]]
      <3> DEFINE u == order.version.tab
                 seen == IF Later(version, tabs[u].seen) THEN version ELSE tabs[u].seen
      <3>1. tabs' = [tabs EXCEPT ![u] = [tabs[u] EXCEPT !.seen = seen]]
        BY <2>1
      <3>2. u \in Tab => seen \in Version
        BY <2>2
      <3> HIDE DEF u, seen
      <3>3. u \in Tab => [tabs[u] EXCEPT !.seen = seen] \in [last : Nat, sequence : Nat, seen : Version]
        BY <3>2 DEF TypeOK
      <3>4. QED
        BY <3>1, <3>3 DEF TypeOK
    <2>4. QED
      BY <1>3, <2>3 DEF Refuse, TypeOK, Locals, JobLocals, tableVars, engineVars
  <1>4. CASE Accept
    <2>1. PICK order \in net : tx' = [order |-> order, rows |-> rows, todo |-> DOMAIN order.ranks]
      BY <1>4 DEF Accept
    <2>2. order \in Order /\ DOMAIN order.ranks \subseteq Route
      BY DEF TypeOK, Order, RoutesAssumption
    <2>3. tx' \in [order : Order, rows : Rows, todo : SUBSET Route]
      BY <2>1, <2>2 DEF TypeOK
    <2>4. QED
      BY <1>4, <2>1, <2>3 DEF Accept, TypeOK, Locals, JobLocals, tableVars, engineVars
  <1>5. CASE WriteRank
    <2>1. PICK r \in tx.todo :
            tx' = [tx EXCEPT !.todo = @ \ {r},
                             !.rows[r] = IF @ \in Row THEN [@ EXCEPT !.priority = tx.order.ranks[r]] ELSE @]
      BY <1>5 DEF WriteRank
    <2>2. tx \in [order : Order, rows : Rows, todo : SUBSET Route]
      BY <1>5 DEF WriteRank, TypeOK
    <2> DEFINE row == IF tx.rows[r] \in Row THEN [tx.rows[r] EXCEPT !.priority = tx.order.ranks[r]]
                      ELSE tx.rows[r]
    <2>3. row \in Row \cup {Unused, Deleted}
      <3>1. r \in Route /\ tx.rows[r] \in Row \cup {Unused, Deleted}
        BY <2>2 DEF Rows
      <3>2. CASE tx.rows[r] \in Row
        <4>1. tx.order.ranks[r] \in Nat
          BY <1>5, <2>2 DEF RoutesAssumption, Order, Locals, WriteRank
        <4>2. QED
          BY <3>2, <4>1 DEF Row
      <3>3. QED
        BY <3>1, <3>2
    <2> HIDE DEF row
    <2>4. tx' = [tx EXCEPT !.todo = @ \ {r}, !.rows = [@ EXCEPT ![r] = row]]
      BY <2>1, <2>2 DEF row, Rows
    <2>5. tx' \in [order : Order, rows : Rows, todo : SUBSET Route]
      BY <2>2, <2>3, <2>4 DEF Rows
    <2>6. QED
      BY <1>5, <2>4, <2>5 DEF WriteRank, TypeOK, Locals, JobLocals, tableVars, engineVars
  <1>6. CASE Commit
    <2>1. tx \in [order : Order, rows : Rows, todo : SUBSET Route]
      BY <1>6 DEF Commit, TypeOK
    <2>2. version' \in Version /\ rows' \in Rows
      BY <1>6, <2>1 DEF Commit, Committed, TypeOK, Order, Version
    <2>3. applied' \subseteq Version /\ tx' = Free /\ touched' = {} /\ latest' \in Order
      BY <1>6, <2>1, <2>2 DEF Commit, TypeOK
    <2>4. job' \in [Actor -> Job] /\ JobLocals'
      BY <1>6, JobLock DEF Commit, Actor
    <2>5. QED
      BY <1>6, <2>2, <2>3, <2>4 DEF Commit, TypeOK, Locals, engineVars
  <1>7. CASE Rollback
    BY <1>7 DEF Rollback, TypeOK, Locals, JobLocals, tableVars, engineVars
  <1>8. QED
    BY <1>1, <1>2, <1>3, <1>4, <1>5, <1>6, <1>7

\* A handler reads, checks and moves on; the tables stay as they are.
LEMMA MoveType ==
  ASSUME Types, NEW e \in Actor, NEW to \in Step,
         job' = [job EXCEPT ![e] = IF to = "idle" THEN Idle ELSE [@ EXCEPT !.at = to]],
         to \in {"group", "provider", "last", "unique", "save", "insert"} => job[e].row \in Row,
         to = "save" => job[e].id \in Route,
         to # "publish"
  PROVE  job' \in [Actor -> Job] /\ JobLocals'
  <1>1. job[e] \in Job
    BY DEF Types, TypeOK
  <1> DEFINE j == IF to = "idle" THEN Idle ELSE [job[e] EXCEPT !.at = to]
  <1>2. job' = [job EXCEPT ![e] = j]
    OBVIOUS
  <1>3. /\ j \in Job
        /\ j.at \in {"group", "provider", "last", "unique", "save", "insert"} => j.row \in Row
        /\ j.at = "save" => j.id \in Route
        /\ j.at # "publish"
    <2>1. CASE to = "idle"
      BY <2>1, IdleType DEF Idle
    <2>2. CASE to # "idle"
      BY <1>1, <2>2 DEF Job
    <2>3. QED
      BY <2>1, <2>2
  <1> HIDE DEF j
  <1>4. QED
    BY <1>2, <1>3, JobType

LEMMA EditTypes ==
  ASSUME RoutesAssumption, Types, NEW e \in Editor, EditStep(e)
  PROVE  Types'
  <1>a. e \in Actor /\ job[e] \in Job
    BY DEF Types, TypeOK, Actor
  <1>b. ASSUME job' \in [Actor -> Job] /\ JobLocals', UNCHANGED <<orderVars, tableVars, engineVars>>
        PROVE  Types'
    BY <1>b DEF Types, TypeOK, Locals, orderVars, tableVars, engineVars
  <1>1. CASE UpdateRoute(e)
    <2>1. PICK r \in Route, row \in Payload :
            job' = [job EXCEPT ![e].at = "group", ![e].id = r, ![e].row = row]
      BY <1>1 DEF UpdateRoute
    <2>2. row \in Row
      BY DEF RoutesAssumption
    <2> DEFINE j == [job[e] EXCEPT !.at = "group", !.id = r, !.row = row]
    <2>3. job' = [job EXCEPT ![e] = j]
      BY <2>1
    <2>4. j \in Job /\ j.at = "group" /\ j.row \in Row
      BY <1>a, <2>2 DEF Job, Step
    <2> HIDE DEF j
    <2>5. job' \in [Actor -> Job] /\ JobLocals'
      BY <1>a, <2>3, <2>4, JobType
    <2>6. QED
      BY <1>1, <2>5 DEF UpdateRoute, Types, TypeOK, Locals, orderVars, engineVars
  <1>2. CASE CreateRoute(e)
    <2>1. PICK row \in Payload :
            job' = [job EXCEPT ![e].at = "group", ![e].id = Free, ![e].row = row]
      BY <1>2 DEF CreateRoute
    <2>2. row \in Row
      BY DEF RoutesAssumption
    <2> DEFINE j == [job[e] EXCEPT !.at = "group", !.id = Free, !.row = row]
    <2>3. job' = [job EXCEPT ![e] = j]
      BY <2>1
    <2>4. j \in Job /\ j.at = "group" /\ j.row \in Row
      BY <1>a, <2>2 DEF Job, Step
    <2> HIDE DEF j
    <2>5. job' \in [Actor -> Job] /\ JobLocals'
      BY <1>a, <2>3, <2>4, JobType
    <2>6. QED
      BY <1>2, <2>5 DEF CreateRoute, Types, TypeOK, Locals, orderVars, engineVars
  <1>3. CASE CheckGroup(e)
    <2>1. job[e].row \in Row
      BY <1>3, <1>a DEF CheckGroup, Moves, Types, Locals, JobLocals
    <2> DEFINE to == IF job[e].row.group \in groups THEN "provider" ELSE "idle"
    <2>2. to \in {"provider", "idle"}
      OBVIOUS
    <2>3. job' = [job EXCEPT ![e] = IF to = "idle" THEN Idle ELSE [@ EXCEPT !.at = to]]
      BY <1>3 DEF CheckGroup, Moves
    <2> HIDE DEF to
    <2>4. job' \in [Actor -> Job] /\ JobLocals'
      BY <1>a, <2>1, <2>2, <2>3, MoveType DEF Step
    <2>5. QED
      BY <1>3, <1>b, <2>4 DEF CheckGroup
  <1>4. CASE CheckProvider(e)
    <2>1. job[e].row \in Row
      BY <1>4, <1>a DEF CheckProvider, Moves, Types, Locals, JobLocals
    <2> DEFINE to == IF job[e].row.provider \notin providers THEN "idle"
                     ELSE IF job[e].id = Free /\ job[e].row.priority = 0 THEN "last" ELSE "unique"
    <2>2. to \in {"idle", "last", "unique"}
      OBVIOUS
    <2>3. job' = [job EXCEPT ![e] = IF to = "idle" THEN Idle ELSE [@ EXCEPT !.at = to]]
      BY <1>4 DEF CheckProvider, Moves
    <2> HIDE DEF to
    <2>4. job' \in [Actor -> Job] /\ JobLocals'
      BY <1>a, <2>1, <2>2, <2>3, MoveType DEF Step
    <2>5. QED
      BY <1>4, <1>b, <2>4 DEF CheckProvider
  <1>5. CASE PlaceLast(e)
    <2>1. PICK priority \in {0} \cup {rows[r].priority + 1 : r \in Siblings(e)} :
            job' = [job EXCEPT ![e].at = "unique", ![e].row.priority = priority]
      BY <1>5 DEF PlaceLast
    <2>2. \A r \in Siblings(e) : rows[r].priority \in Nat
      BY DEF Siblings, Exists, Types, TypeOK, Rows, Row
    <2>3. priority \in Nat
      BY <2>2
    <2>4. job[e].row \in Row
      BY <1>5, <1>a DEF PlaceLast, Types, Locals, JobLocals
    <2> DEFINE row == [job[e].row EXCEPT !.priority = priority]
               j == [job[e] EXCEPT !.at = "unique", !.row = row]
    <2>5. job' = [job EXCEPT ![e] = j]
      BY <1>a, <2>1 DEF Job
    <2>6. row \in Row
      BY <2>3, <2>4 DEF Row
    <2> HIDE DEF row
    <2>7. j \in Job /\ j.at = "unique" /\ j.row \in Row
      BY <1>a, <2>6 DEF Job, Step
    <2> HIDE DEF j
    <2>8. job' \in [Actor -> Job] /\ JobLocals'
      BY <1>a, <2>5, <2>7, JobType
    <2>9. QED
      BY <1>5, <1>b, <2>8 DEF PlaceLast
  <1>6. CASE CheckUnique(e)
    <2>1. job[e].row \in Row /\ (job[e].id # Free => job[e].id \in Route)
      BY <1>6, <1>a DEF CheckUnique, Moves, Types, Locals, JobLocals, Job
    <2> DEFINE to == IF \E r \in Siblings(e) \ {job[e].id} : rows[r].provider = job[e].row.provider
                     THEN "idle" ELSE IF job[e].id = Free THEN "insert" ELSE "save"
    <2>2. to \in {"idle", "insert", "save"} /\ (to = "save" => job[e].id # Free)
      OBVIOUS
    <2>3. job' = [job EXCEPT ![e] = IF to = "idle" THEN Idle ELSE [@ EXCEPT !.at = to]]
      BY <1>6 DEF CheckUnique, Moves
    <2> HIDE DEF to
    <2>4. job' \in [Actor -> Job] /\ JobLocals'
      BY <1>a, <2>1, <2>2, <2>3, MoveType DEF Step
    <2>5. QED
      BY <1>6, <1>b, <2>4 DEF CheckUnique
  <1>7. CASE SaveRow(e)
    <2>1. job[e].row \in Row /\ job[e].id \in Route
      BY <1>7, <1>a DEF SaveRow, Types, Locals, JobLocals
    <2>2. \A a \in Actor :
            /\ job'[a] = [job[a] EXCEPT !.at = IF a = e THEN "lock" ELSE @, !.victims = @ \ {job[e].id}]
            /\ job[a] \in Job
      BY <1>7 DEF SaveRow, Types, TypeOK
    <2>3. \A a \in Actor : /\ job'[a] \in Job
                           /\ job'[a].at = IF a = e THEN "lock" ELSE job[a].at
                           /\ job'[a].row = job[a].row /\ job'[a].id = job[a].id
                           /\ job'[a].routes = job[a].routes
      <3> TAKE a \in Actor
      <3> DEFINE at == IF a = e THEN "lock" ELSE job[a].at
                 victims == job[a].victims \ {job[e].id}
      <3>1. at \in Step /\ victims \in SUBSET Route
        BY <2>2 DEF Job, Step
      <3>2. job'[a] = [job[a] EXCEPT !.at = at, !.victims = victims]
        BY <2>2
      <3>3. job[a] \in Job
        BY <2>2
      <3> HIDE DEF at, victims
      <3>4. /\ job'[a] \in Job /\ job'[a].at = at
            /\ job'[a].row = job[a].row /\ job'[a].id = job[a].id
            /\ job'[a].routes = job[a].routes
        BY <3>1, <3>2, <3>3 DEF Job
      <3>5. QED
        BY <3>4 DEF at
    <2>4. job' \in [Actor -> Job]
      BY <1>7, <2>3 DEF SaveRow
    <2>5. JobLocals'
      BY <2>3 DEF JobLocals, Types, Locals
    <2>6. rows' \in Rows
      BY <1>7, <2>1 DEF SaveRow, Types, TypeOK, Rows
    <2>7. touched' \subseteq Route /\ gone' \subseteq Route
      BY <1>7, <2>1 DEF SaveRow, Types, TypeOK
    <2>8. QED
      BY <1>7, <2>4, <2>5, <2>6, <2>7 DEF SaveRow, Types, TypeOK, Locals, orderVars
  <1>8. CASE InsertRow(e)
    <2>1. job[e].row \in Row
      BY <1>8, <1>a DEF InsertRow, Moves, Types, Locals, JobLocals
    <2>2. rows' \in Rows /\ touched' \subseteq Route
      BY <1>8, <2>1 DEF InsertRow, Types, TypeOK, Rows
    <2>3. job' = [job EXCEPT ![e].at = "lock"]
      BY <1>8 DEF InsertRow, Moves
    <2>4. job' \in [Actor -> Job] /\ JobLocals'
      BY <1>a, <2>3, JobLock
    <2>5. QED
      BY <1>8, <2>2, <2>4 DEF InsertRow, Types, TypeOK, Locals, orderVars, engineVars
  <1>c. ASSUME NEW victims \in SUBSET Route, Remove(e, victims)
        PROVE  rows' \in Rows /\ job' \in [Actor -> Job] /\ JobLocals'
    <2>1. rows' \in Rows
      BY <1>c DEF Remove, Types, TypeOK, Rows
    <2> DEFINE j == [job[e] EXCEPT !.at = "lock", !.victims = victims]
    <2>2. job' = [job EXCEPT ![e] = j]
      BY <1>c DEF Remove
    <2>3. j \in Job /\ j.at = "lock"
      BY <1>a, <1>c DEF Job, Step
    <2> HIDE DEF j
    <2>4. QED
      BY <1>a, <2>1, <2>2, <2>3, JobType
  <1>9. CASE DeleteRoute(e)
    <2>1. rows' \in Rows /\ job' \in [Actor -> Job] /\ JobLocals'
      <3>1. PICK r \in Route : Remove(e, {q \in {r} : Exists(q)})
        BY <1>9 DEF DeleteRoute
      <3> DEFINE victims == {q \in {r} : Exists(q)}
      <3>2. victims \in SUBSET Route
        OBVIOUS
      <3> HIDE DEF victims
      <3>3. QED
        BY <1>c, <3>1, <3>2 DEF victims
    <2>2. QED
      BY <1>9, <2>1 DEF DeleteRoute, Types, TypeOK, Locals, orderVars, engineVars
  <1>10. CASE DeleteModelGroup(e)
    <2>1. rows' \in Rows /\ job' \in [Actor -> Job] /\ JobLocals'
      <3>1. PICK g \in groups : Remove(e, {r \in Route : Exists(r) /\ rows[r].group = g})
        BY <1>10 DEF DeleteModelGroup
      <3>2. QED
        BY <1>c, <3>1
    <2>2. groups' \subseteq Group
      BY <1>10 DEF DeleteModelGroup, Types, TypeOK
    <2>3. QED
      BY <1>10, <2>1, <2>2 DEF DeleteModelGroup, Types, TypeOK, Locals, orderVars, engineVars
  <1>11. CASE DeleteProvider(e)
    <2>1. rows' \in Rows /\ job' \in [Actor -> Job] /\ JobLocals'
      <3>1. PICK p \in providers : Remove(e, {r \in Route : Exists(r) /\ rows[r].provider = p})
        BY <1>11 DEF DeleteProvider
      <3>2. QED
        BY <1>c, <3>1
    <2>2. providers' \subseteq Provider
      BY <1>11 DEF DeleteProvider, Types, TypeOK
    <2>3. QED
      BY <1>11, <2>1, <2>2 DEF DeleteProvider, Types, TypeOK, Locals, orderVars, engineVars
  <1>12. QED
    BY <1>1, <1>2, <1>3, <1>4, <1>5, <1>6, <1>7, <1>8, <1>9, <1>10, <1>11 DEF EditStep, EditorStep

LEMMA RefreshTypes ==
  ASSUME RoutesAssumption, Types, NEW a \in Actor, RefreshStep(a)
  PROVE  Types'
  <1>a. job[a] \in Job
    BY DEF Types, TypeOK
  <1>b. ASSUME NEW j \in Job, j.at \in {"idle"} \cup Reading,
               j.at = "publish" => j.routes \in [Route -> Row \cup {Unused}],
               job' = [job EXCEPT ![a] = j]
        PROVE  job' \in [Actor -> Job] /\ JobLocals'
    BY <1>b, JobType DEF Reading
  <1>1. CASE Lock(a)
    <2> DEFINE j == [job[a] EXCEPT !.at = "providers"]
    <2>1. j \in Job /\ j.at = "providers"
      BY <1>a DEF Job, Step
    <2>2. job' = [job EXCEPT ![a] = j]
      BY <1>1 DEF Lock
    <2> HIDE DEF j
    <2>3. job' \in [Actor -> Job] /\ JobLocals'
      BY <1>b, <2>1, <2>2 DEF Reading
    <2>4. QED
      BY <1>1, <2>3 DEF Lock, Types, TypeOK, Locals, orderVars, tableVars
  <1>2. CASE ReadProviders(a)
    <2> DEFINE j == [job[a] EXCEPT !.at = "groups", !.providers = providers]
    <2>1. j \in Job /\ j.at = "groups"
      BY <1>a DEF Job, Step, Types, TypeOK
    <2>2. job' = [job EXCEPT ![a] = j]
      BY <1>2 DEF ReadProviders
    <2> HIDE DEF j
    <2>3. job' \in [Actor -> Job] /\ JobLocals'
      BY <1>b, <2>1, <2>2 DEF Reading
    <2>4. QED
      BY <1>2, <2>3 DEF ReadProviders, Types, TypeOK, Locals, orderVars, tableVars, engineVars
  <1>3. CASE ReadGroups(a)
    <2> DEFINE j == [job[a] EXCEPT !.at = "routes", !.groups = groups]
    <2>1. j \in Job /\ j.at = "routes"
      BY <1>a DEF Job, Step, Types, TypeOK
    <2>2. job' = [job EXCEPT ![a] = j]
      BY <1>3 DEF ReadGroups
    <2> HIDE DEF j
    <2>3. job' \in [Actor -> Job] /\ JobLocals'
      BY <1>b, <2>1, <2>2 DEF Reading
    <2>4. QED
      BY <1>3, <2>3 DEF ReadGroups, Types, TypeOK, Locals, orderVars, tableVars, engineVars
  <1>4. CASE ReadRoutes(a)
    <2> DEFINE served == Served(rows, job[a].groups, job[a].providers)
               j == [job[a] EXCEPT !.at = "publish", !.routes = served]
    <2>1. served \in [Route -> Row \cup {Unused}]
      BY ServedType DEF Types, TypeOK
    <2>2. job' = [job EXCEPT ![a] = j]
      BY <1>4 DEF ReadRoutes
    <2> HIDE DEF served
    <2>3. j \in Job /\ j.at = "publish" /\ j.routes = served
      BY <1>a, <2>1 DEF Job, Step
    <2> HIDE DEF j
    <2>4. job' \in [Actor -> Job] /\ JobLocals'
      BY <1>b, <2>1, <2>2, <2>3 DEF Reading
    <2>5. QED
      BY <1>4, <2>4 DEF ReadRoutes, Types, TypeOK, Locals, orderVars, tableVars, engineVars
  <1>5. CASE Publish(a)
    <2>1. Idle.at = "idle"
      BY DEF Idle
    <2>2. job' \in [Actor -> Job] /\ JobLocals'
      BY <1>5, <1>b, <2>1, IdleType DEF Publish
    <2>3. job[a].routes \in [Route -> Row \cup {Unused}] /\ job[a].victims \subseteq Route
      BY <1>5, <1>a DEF Publish, Types, Locals, JobLocals, Job
    <2>4. QED
      BY <1>5, <2>2, <2>3 DEF Publish, Types, TypeOK, Locals, orderVars, tableVars
  <1>6. QED
    BY <1>1, <1>2, <1>3, <1>4, <1>5 DEF RefreshStep

LEMMA RestartTypes ==
  ASSUME RoutesAssumption, Types, Restart PROVE Types'
  <1>1. Served(rows, groups, providers) \in [Route -> Row \cup {Unused}]
    BY ServedType DEF Types, TypeOK
  <1>2. \A a \in Actor : job'[a] = Idle
    BY DEF Restart
  <1>3. Idle.at = "idle"
    BY DEF Idle
  <1>4. JobLocals'
    BY <1>2, <1>3 DEF JobLocals
  <1>5. QED
    BY <1>1, <1>4, IdleType DEF Restart, Types, TypeOK, Locals, tableVars

\* What a step of the specification is, by its kinds.
OrderStep ==
  (\E t \in Tab : Save(t) \/ Observe(t)) \/ Refuse \/ Accept \/ WriteRank \/ Commit \/ Rollback

LEMMA Kinds ==
  ASSUME [Next]_vars
  PROVE  \/ OrderStep
         \/ \E e \in Editor : EditStep(e)
         \/ \E a \in Actor : RefreshStep(a)
         \/ Restart
         \/ UNCHANGED vars
  BY DEF Next, OrderStep, EditStep

LEMMA StepTypes == ASSUME RoutesAssumption, Types, [Next]_vars PROVE Types'
  <1>1. CASE OrderStep
    BY <1>1, OrderTypes DEF OrderStep
  <1>2. CASE UNCHANGED vars
    BY <1>2 DEF vars, orderVars, tableVars, engineVars, Types, TypeOK, Locals, JobLocals
  <1>3. QED
    BY <1>1, <1>2, Kinds, EditTypes, RefreshTypes, RestartTypes

LEMMA AlwaysTypes == Spec => []Types
  <1>1. Init => Types
    BY InitTypes, RoutesAssumption
  <1>2. Types /\ [Next]_vars => Types'
    BY StepTypes, RoutesAssumption
  <1>3. QED
    BY <1>1, <1>2, PTL DEF Spec

\* Every variable keeps its type, whatever the handlers and the tabs do.
THEOREM TypesAlways == Spec => []TypeOK
  <1>1. Types => TypeOK
    BY DEF Types
  <1>2. QED
    BY <1>1, AlwaysTypes, PTL
------------------------------------------------------------------------------
(* The versions *)

\* A tab's timestamp is above all it had seen.
Ahead == \A order \in net : order.seen.time < order.version.time

\* Only the tabs send, and only ReorderRoutes has a transaction.
LEMMA FrameOrder ==
  /\ \A e \in Editor : EditStep(e) => UNCHANGED orderVars
  /\ \A a \in Actor : RefreshStep(a) => UNCHANGED orderVars
  BY DEF EditStep, EditorStep, RefreshStep, UpdateRoute, CreateRoute, CheckGroup, CheckProvider,
         PlaceLast, CheckUnique, SaveRow, InsertRow, DeleteRoute, DeleteModelGroup, DeleteProvider,
         Lock, ReadProviders, ReadGroups, ReadRoutes, Publish

LEMMA FrameNet ==
  ASSUME [Next]_vars
  PROVE  net' = net \/ \E t \in Tab : Save(t)
  <1>1. CASE OrderStep
    BY <1>1 DEF OrderStep, Observe, Refuse, Accept, WriteRank, Commit, Rollback
  <1>2. Restart => net' = net
    BY DEF Restart
  <1>3. UNCHANGED orderVars => net' = net
    BY DEF orderVars
  <1>4. UNCHANGED vars => net' = net
    BY DEF vars, orderVars
  <1>5. QED
    BY <1>1, <1>2, <1>3, <1>4, Kinds, FrameOrder

\* What nextRouteOrderVersion makes.
LEMMA Drawn ==
  ASSUME RoutesAssumption, Types, NEW t \in Tab, Save(t)
  PROVE  \E time \in Nat, ranks \in Ranking :
           /\ time > tabs[t].last /\ time > tabs[t].seen.time
           /\ tabs' = [tabs EXCEPT ![t].last = time, ![t].sequence = tabs[t].sequence + 1]
           /\ net' = net \cup {[version |-> [time |-> time, tab |-> t,
                                             sequence |-> tabs[t].sequence + 1],
                                ranks |-> ranks, seen |-> tabs[t].seen]}
  <1>1. PICK clock \in Clock[t], ranks \in Ranking :
          LET time == IF clock > Floor(t) THEN clock ELSE Floor(t) + 1
              sequence == tabs[t].sequence + 1
          IN /\ tabs' = [tabs EXCEPT ![t].last = time, ![t].sequence = sequence]
             /\ net' = net \cup {[version |-> [time |-> time, tab |-> t, sequence |-> sequence],
                                  ranks |-> ranks, seen |-> tabs[t].seen]}
    BY DEF Save
  <1>2. /\ tabs[t].last \in Nat /\ tabs[t].seen.time \in Nat /\ clock \in Nat
        /\ Floor(t) \in Nat /\ Floor(t) >= tabs[t].last /\ Floor(t) >= tabs[t].seen.time
    BY DEF RoutesAssumption, Floor, Types, TypeOK, Version
  <1> DEFINE time == IF clock > Floor(t) THEN clock ELSE Floor(t) + 1
  <1>3. time \in Nat /\ time > tabs[t].last /\ time > tabs[t].seen.time
    BY <1>2
  <1>4. /\ tabs' = [tabs EXCEPT ![t].last = time, ![t].sequence = tabs[t].sequence + 1]
        /\ net' = net \cup {[version |-> [time |-> time, tab |-> t,
                                          sequence |-> tabs[t].sequence + 1],
                             ranks |-> ranks, seen |-> tabs[t].seen]}
    BY <1>1
  <1> HIDE DEF time
  <1>5. QED
    BY <1>3, <1>4

LEMMA AheadKept == ASSUME RoutesAssumption, Types, Ahead, [Next]_vars PROVE Ahead'
  <1>1. CASE net' = net
    BY <1>1 DEF Ahead
  <1>2. CASE \E t \in Tab : Save(t)
    <2>1. PICK t \in Tab : Save(t)
      BY <1>2
    <2>2. PICK time \in Nat, ranks \in Ranking :
            /\ time > tabs[t].seen.time
            /\ net' = net \cup {[version |-> [time |-> time, tab |-> t,
                                              sequence |-> tabs[t].sequence + 1],
                                 ranks |-> ranks, seen |-> tabs[t].seen]}
      BY <2>1, Drawn
    <2>3. tabs[t].seen.time \in Nat
      BY DEF Types, TypeOK, Version
    <2>4. QED
      BY <2>2, <2>3 DEF Ahead
  <1>3. QED
    BY <1>1, <1>2, FrameNet

LEMMA AlwaysAhead == Spec => []Ahead
  <1>1. Init => Ahead
    BY DEF Init, Ahead
  <1>2. Types /\ Ahead /\ [Next]_vars => Ahead'
    BY AheadKept, RoutesAssumption
  <1>3. QED
    BY <1>1, <1>2, AlwaysTypes, PTL DEF Spec

\* Only an order whose tab did not know better is refused, for any clocks.
THEOREM RefusedUnseenAlways == Spec => []RefusedUnseen
  <1>1. Types /\ Ahead => RefusedUnseen
    <2> SUFFICES ASSUME Types, Ahead, NEW order \in net,
                        ~Newer(order.version, version),
                        ~(version.time > order.seen.time)
                 PROVE  /\ version.tab = order.version.tab
                        /\ version.sequence >= order.version.sequence
      BY DEF RefusedUnseen
    <2>1. /\ order.version.time \in Nat /\ order.version.sequence \in Nat
          /\ order.seen.time \in Nat /\ version.time \in Nat /\ version.sequence \in Nat
      BY DEF Types, TypeOK, Order, Version
    <2>2. order.seen.time < order.version.time
      BY DEF Ahead
    <2>3. QED
      BY <2>1, <2>2 DEF Newer
  <1>2. QED
    BY <1>1, AlwaysTypes, AlwaysAhead, PTL
------------------------------------------------------------------------------
(* The priorities *)

\* Inductive: and the transaction has written what it does not have to any more.
Written ==
  tx # Free =>
    \A r \in (DOMAIN tx.order.ranks) \ tx.todo :
      tx.rows[r] \in Row => tx.rows[r].priority = tx.order.ranks[r]

LEMMA WrittenKept ==
  ASSUME RoutesAssumption, Types, Written, [Next]_vars PROVE Written'
  <1>1. ASSUME UNCHANGED tx PROVE Written'
    BY <1>1 DEF Written
  <1>2. ASSUME tx' = Free PROVE Written'
    BY <1>2 DEF Written
  <1>3. CASE Accept
    <2>1. PICK order \in net : tx' = [order |-> order, rows |-> rows, todo |-> DOMAIN order.ranks]
      BY <1>3 DEF Accept
    <2>2. QED
      BY <2>1 DEF Written
  <1>4. CASE WriteRank
    <2>1. PICK r \in tx.todo :
            tx' = [tx EXCEPT !.todo = @ \ {r},
                             !.rows[r] = IF @ \in Row THEN [@ EXCEPT !.priority = tx.order.ranks[r]] ELSE @]
      BY <1>4 DEF WriteRank
    <2>2. tx \in [order : Order, rows : Rows, todo : SUBSET Route] /\ r \in Route
      BY <1>4 DEF WriteRank, Types, TypeOK
    <2> DEFINE row == IF tx.rows[r] \in Row THEN [tx.rows[r] EXCEPT !.priority = tx.order.ranks[r]]
                      ELSE tx.rows[r]
    <2>3. row \in Row => row.priority = tx.order.ranks[r]
      BY DEF Row
    <2>4. tx' = [tx EXCEPT !.todo = @ \ {r}, !.rows = [@ EXCEPT ![r] = row]]
      BY <2>1, <2>2 DEF Rows
    <2> HIDE DEF row
    <2>5. /\ tx'.order = tx.order /\ tx'.todo = tx.todo \ {r}
          /\ tx'.rows = [tx.rows EXCEPT ![r] = row]
      BY <2>2, <2>4
    <2>6. \A q \in Route : tx'.rows[q] = IF q = r THEN row ELSE tx.rows[q]
      BY <2>2, <2>5 DEF Rows
    <2>7. DOMAIN tx.order.ranks \subseteq Route
      BY <2>2 DEF Order, RoutesAssumption
    <2>8. tx # Free
      BY <1>4 DEF WriteRank
    <2>9. QED
      BY <2>3, <2>5, <2>6, <2>7, <2>8 DEF Written
  <1>5. CASE OrderStep
    BY <1>1, <1>2, <1>3, <1>4, <1>5 DEF OrderStep, Save, Observe, Refuse, Commit, Rollback
  <1>6. CASE Restart
    BY <1>2, <1>6 DEF Restart
  <1>7. UNCHANGED orderVars \/ UNCHANGED vars => UNCHANGED tx
    BY DEF orderVars, vars
  <1>8. QED
    BY <1>1, <1>5, <1>6, <1>7, Kinds, FrameOrder

\* An edit leaves every route that it does not mark as touched or delete.
LEMMA EditWhole ==
  ASSUME Types, NEW e \in Editor, EditStep(e)
  PROVE  \A r \in Route : \/ rows'[r] = rows[r]
                          \/ rows'[r] = Deleted
                          \/ r \in touched'
  <1>1. ASSUME NEW victims, Remove(e, victims)
        PROVE  \A r \in Route : rows'[r] = rows[r] \/ rows'[r] = Deleted
    BY <1>1 DEF Remove
  <1>2. CASE DeleteRoute(e) \/ DeleteModelGroup(e) \/ DeleteProvider(e)
    BY <1>1, <1>2 DEF DeleteRoute, DeleteModelGroup, DeleteProvider
  <1>3. CASE SaveRow(e) \/ InsertRow(e)
    BY <1>3 DEF SaveRow, InsertRow, Types, TypeOK, Rows
  <1>4. CASE UpdateRoute(e) \/ CreateRoute(e) \/ CheckGroup(e) \/ CheckProvider(e)
             \/ PlaceLast(e) \/ CheckUnique(e)
    BY <1>4 DEF UpdateRoute, CreateRoute, CheckGroup, CheckProvider, PlaceLast, CheckUnique, tableVars
  <1>5. QED
    BY <1>2, <1>3, <1>4 DEF EditStep, EditorStep

LEMMA EditTouched ==
  ASSUME NEW e \in Editor, EditStep(e) PROVE touched \subseteq touched'
  BY DEF EditStep, EditorStep, UpdateRoute, CreateRoute, CheckGroup, CheckProvider,
         PlaceLast, CheckUnique, SaveRow, InsertRow, DeleteRoute, DeleteModelGroup, DeleteProvider,
         tableVars

LEMMA WholeKept ==
  ASSUME RoutesAssumption, Types, Written, OrderWhole, [Next]_vars PROVE OrderWhole'
  <1>1. ASSUME UNCHANGED <<latest, rows, touched>> PROVE OrderWhole'
    BY <1>1 DEF OrderWhole, Exists
  <1>2. CASE Commit
    <2>1. /\ latest' = tx.order /\ rows' = tx.rows /\ touched' = {}
          /\ tx # Free /\ tx.todo = {}
      BY <1>2 DEF Commit
    <2>2. tx \in [order : Order, rows : Rows, todo : SUBSET Route]
      BY <2>1 DEF Types, TypeOK
    <2>3. DOMAIN tx.order.ranks \subseteq Route
      BY <2>2 DEF Order, RoutesAssumption
    <2>4. \A r \in Route : tx.rows[r] \notin {Unused, Deleted} => tx.rows[r] \in Row
      BY <2>2 DEF Rows
    <2>5. QED
      BY <2>1, <2>3, <2>4 DEF OrderWhole, Written, Exists
  <1>3. CASE OrderStep
    BY <1>1, <1>2, <1>3 DEF OrderStep, Save, Observe, Refuse, Accept, WriteRank, Rollback, tableVars
  <1>4. ASSUME NEW e \in Editor, EditStep(e) PROVE OrderWhole'
    <2>1. latest' = latest
      BY <1>4, FrameOrder DEF orderVars
    <2>2. latest # Free => DOMAIN latest.ranks \subseteq Route
      BY DEF Types, TypeOK, Order, RoutesAssumption
    <2>3. QED
      BY <1>4, <2>1, <2>2, EditWhole, EditTouched DEF OrderWhole, Exists
  <1>5. ASSUME NEW a \in Actor, RefreshStep(a) PROVE OrderWhole'
    <2>1. UNCHANGED <<latest, rows, touched>>
      BY <1>5 DEF RefreshStep, Lock, ReadProviders, ReadGroups, ReadRoutes, Publish, orderVars, tableVars
    <2>2. QED
      BY <1>1, <2>1
  <1>6. CASE Restart
    BY <1>1, <1>6 DEF Restart, tableVars
  <1>7. CASE UNCHANGED vars
    BY <1>1, <1>7 DEF vars, orderVars, tableVars
  <1>8. QED
    BY <1>3, <1>4, <1>5, <1>6, <1>7, Kinds

LEMMA AlwaysWritten == Spec => []Written
  <1>1. Init => Written
    BY DEF Init, Written
  <1>2. Types /\ Written /\ [Next]_vars => Written'
    BY WrittenKept, RoutesAssumption
  <1>3. QED
    BY <1>1, <1>2, AlwaysTypes, PTL DEF Spec

\* The table's priorities are one order's, however its transaction ends.
THEOREM OrderWholeAlways == Spec => []OrderWhole
  <1>1. Init => OrderWhole
    BY DEF Init, OrderWhole
  <1>2. Types /\ Written /\ OrderWhole /\ [Next]_vars => OrderWhole'
    BY WholeKept, RoutesAssumption
  <1>3. QED
    BY <1>1, <1>2, AlwaysTypes, AlwaysWritten, PTL DEF Spec
------------------------------------------------------------------------------
(* The engine's routes *)

\* The engine's lock is held by the handler that reads the tables.
OneReader == \A a \in Actor : engine = a <=> job[a].at \in Reading

\* ReorderRoutes refreshes when it has committed; its transaction deletes nothing back.
Quiet ==
  tx # Free => /\ job[Orders].at = "idle"
               /\ \A r \in Route : rows[r] = Deleted => tx.rows[r] = Deleted

Buried ==
  /\ \A r \in gone : rows[r] = Deleted /\ cache[r] = Unused
  /\ \A a \in Actor : \A r \in job[a].victims : rows[r] = Deleted

Caught ==
  \A a \in Actor : job[a].at = "publish" =>
    \A r \in gone \cup job[a].victims : job[a].routes[r] = Unused

\* Unless a handler still has to refresh, nobody has read what was written since.
UpToDate ==
  (\A a \in Actor : job[a].at # "lock") =>
    /\ engine = Free => cache = Served(rows, groups, providers)
    /\ \A a \in Actor :
         /\ job[a].at \in {"groups", "routes"} => job[a].providers = providers
         /\ job[a].at = "routes" => job[a].groups = groups
         /\ job[a].at = "publish" => job[a].routes = Served(rows, groups, providers)

Shown == OneReader /\ Quiet /\ Buried /\ Caught /\ UpToDate

\* What one statement of an editing handler may do.
Effect(e) ==
  /\ tx = Free /\ UNCHANGED <<tx, engine, cache>> /\ gone' \subseteq gone
  /\ job[e].at \notin Reading /\ job[e].at # "lock" /\ job'[e].at \notin Reading
  /\ job'[e].at = "lock" \/ UNCHANGED <<rows, groups, providers>>
  /\ \A a \in Actor \ {e} :
       /\ job'[a].at = job[a].at /\ job'[a].providers = job[a].providers
       /\ job'[a].groups = job[a].groups /\ job'[a].routes = job[a].routes
       /\ job'[a].victims \subseteq job[a].victims
  /\ \A r \in Route :
       /\ rows[r] = Deleted /\ rows'[r] # Deleted =>
            r \notin gone' /\ \A a \in Actor : r \notin job'[a].victims
       /\ r \in job'[e].victims /\ r \notin job[e].victims => rows'[r] = Deleted

\* A handler that reads, checks and moves on.
LEMMA MoveEffect ==
  ASSUME RoutesAssumption, Types, NEW e \in Editor, NEW j \in Job,
         job[e].at \notin Reading, job[e].at # "lock", j.at \notin Reading,
         j.victims \subseteq job[e].victims,
         tx = Free, job' = [job EXCEPT ![e] = j],
         UNCHANGED <<orderVars, rows, groups, providers, engineVars>>
  PROVE  Effect(e)
  <1>1. e \in Actor /\ job \in [Actor -> Job]
    BY DEF Actor, Types, TypeOK
  <1>2. job'[e] = j /\ \A a \in Actor \ {e} : job'[a] = job[a]
    BY <1>1
  <1>3. QED
    BY <1>2 DEF Effect, orderVars, engineVars

LEMMA EffectOfMoves ==
  ASSUME RoutesAssumption, Types, NEW e \in Editor, NEW from, NEW to, Moves(e, from, to),
         from \notin Reading, from # "lock", to \in Step, to \notin Reading,
         UNCHANGED <<orderVars, rows, groups, providers, engineVars>>
  PROVE  Effect(e)
  <1>1. e \in Actor /\ job[e] \in Job
    BY DEF Actor, Types, TypeOK
  <1> DEFINE j == IF to = "idle" THEN Idle ELSE [job[e] EXCEPT !.at = to]
  <1>2. job' = [job EXCEPT ![e] = j] /\ job[e].at = from /\ tx = Free
    BY DEF Moves
  <1>3. j \in Job /\ j.at \notin Reading /\ j.victims \subseteq job[e].victims
    <2>1. CASE to = "idle"
      BY <2>1, IdleType DEF Idle, Reading
    <2>2. CASE to # "idle"
      BY <1>1, <2>2 DEF Job
    <2>3. QED
      BY <2>1, <2>2
  <1> HIDE DEF j
  <1>4. QED
    BY <1>2, <1>3, MoveEffect

LEMMA EffectOfRemove ==
  ASSUME RoutesAssumption, Types, NEW e \in Editor, NEW victims \in SUBSET Route,
         Remove(e, victims), job[e].at = "idle", tx = Free,
         UNCHANGED <<orderVars, engineVars>>
  PROVE  Effect(e)
  <1>1. e \in Actor /\ job \in [Actor -> Job] /\ job[e] \in Job
    BY DEF Actor, Types, TypeOK
  <1>2. job'[e] = [job[e] EXCEPT !.at = "lock", !.victims = victims]
    BY <1>1 DEF Remove
  <1>3. job'[e].at = "lock" /\ job'[e].victims = victims
    BY <1>1, <1>2 DEF Job
  <1>4. \A a \in Actor \ {e} : job'[a] = job[a]
    BY <1>1 DEF Remove
  <1>5. \A r \in Route : rows'[r] = IF r \in victims THEN Deleted ELSE rows[r]
    BY DEF Remove
  <1>6. QED
    BY <1>3, <1>4, <1>5 DEF Effect, orderVars, engineVars, Reading

LEMMA EditEffect ==
  ASSUME RoutesAssumption, Types, NEW e \in Editor, EditStep(e)
  PROVE  Effect(e)
  <1>a. e \in Actor /\ job \in [Actor -> Job] /\ job[e] \in Job
    BY DEF Types, TypeOK, Actor
  <1>1. CASE UpdateRoute(e)
    <2>1. PICK r \in Route, row \in Payload :
            job' = [job EXCEPT ![e].at = "group", ![e].id = r, ![e].row = row]
      BY <1>1 DEF UpdateRoute
    <2>2. row \in Row
      BY DEF RoutesAssumption
    <2> DEFINE j == [job[e] EXCEPT !.at = "group", !.id = r, !.row = row]
    <2>3. job' = [job EXCEPT ![e] = j]
      BY <2>1
    <2>4. j \in Job /\ j.at = "group" /\ j.victims = job[e].victims
      BY <1>a, <2>2 DEF Job, Step
    <2> HIDE DEF j
    <2>5. QED
      BY <1>1, <2>3, <2>4, MoveEffect DEF UpdateRoute, Begins, Reading
  <1>2. CASE CreateRoute(e)
    <2>1. PICK row \in Payload :
            job' = [job EXCEPT ![e].at = "group", ![e].id = Free, ![e].row = row]
      BY <1>2 DEF CreateRoute
    <2>2. row \in Row
      BY DEF RoutesAssumption
    <2> DEFINE j == [job[e] EXCEPT !.at = "group", !.id = Free, !.row = row]
    <2>3. job' = [job EXCEPT ![e] = j]
      BY <2>1
    <2>4. j \in Job /\ j.at = "group" /\ j.victims = job[e].victims
      BY <1>a, <2>2 DEF Job, Step
    <2> HIDE DEF j
    <2>5. QED
      BY <1>2, <2>3, <2>4, MoveEffect DEF CreateRoute, Begins, Reading
  <1>3. CASE CheckGroup(e)
    <2> DEFINE to == IF job[e].row.group \in groups THEN "provider" ELSE "idle"
    <2>1. Moves(e, "group", to) /\ to \in {"provider", "idle"}
      BY <1>3 DEF CheckGroup
    <2> HIDE DEF to
    <2>2. QED
      BY <1>3, <2>1, EffectOfMoves DEF CheckGroup, tableVars, Reading, Step
  <1>4. CASE CheckProvider(e)
    <2> DEFINE to == IF job[e].row.provider \notin providers THEN "idle"
                     ELSE IF job[e].id = Free /\ job[e].row.priority = 0 THEN "last" ELSE "unique"
    <2>1. Moves(e, "provider", to) /\ to \in {"idle", "last", "unique"}
      BY <1>4 DEF CheckProvider
    <2> HIDE DEF to
    <2>2. QED
      BY <1>4, <2>1, EffectOfMoves DEF CheckProvider, tableVars, Reading, Step
  <1>5. CASE PlaceLast(e)
    <2>1. PICK priority : job' = [job EXCEPT ![e].at = "unique", ![e].row.priority = priority]
      BY <1>5 DEF PlaceLast
    <2> DEFINE row == [job[e].row EXCEPT !.priority = priority]
               j == [job[e] EXCEPT !.at = "unique", !.row = row]
    <2>2. job' = [job EXCEPT ![e] = j]
      BY <1>a, <2>1 DEF Job
    <2> HIDE DEF row
    <2>3. j.at = "unique" /\ j.victims = job[e].victims
      BY <1>a DEF Job
    <2>4. j \in Job
      <3>1. job'[e] = j /\ job' \in [Actor -> Job]
        BY <1>a, <1>5, <2>2, EditTypes DEF EditStep, EditorStep, Types, TypeOK
      <3>2. QED
        BY <1>a, <3>1
    <2> HIDE DEF j
    <2>5. QED
      BY <1>5, <2>2, <2>3, <2>4, MoveEffect DEF PlaceLast, tableVars, Reading
  <1>6. CASE CheckUnique(e)
    <2> DEFINE to == IF \E r \in Siblings(e) \ {job[e].id} : rows[r].provider = job[e].row.provider
                     THEN "idle" ELSE IF job[e].id = Free THEN "insert" ELSE "save"
    <2>1. Moves(e, "unique", to) /\ to \in {"idle", "insert", "save"}
      BY <1>6 DEF CheckUnique
    <2> HIDE DEF to
    <2>2. QED
      BY <1>6, <2>1, EffectOfMoves DEF CheckUnique, tableVars, Reading, Step
  <1>7. CASE SaveRow(e)
    <2>1. \A a \in Actor :
            job'[a] = [job[a] EXCEPT !.at = IF a = e THEN "lock" ELSE @, !.victims = @ \ {job[e].id}]
      BY <1>7 DEF SaveRow
    <2>2. \A a \in Actor : /\ job'[a].at = IF a = e THEN "lock" ELSE job[a].at
                           /\ job'[a].victims = job[a].victims \ {job[e].id}
                           /\ job'[a].providers = job[a].providers
                           /\ job'[a].groups = job[a].groups
                           /\ job'[a].routes = job[a].routes
      <3> TAKE a \in Actor
      <3> DEFINE at == IF a = e THEN "lock" ELSE job[a].at
                 victims == job[a].victims \ {job[e].id}
      <3>1. job[a] \in Job /\ job'[a] = [job[a] EXCEPT !.at = at, !.victims = victims]
        BY <1>a, <2>1
      <3> HIDE DEF at, victims
      <3>2. /\ job'[a].at = at /\ job'[a].victims = victims
            /\ job'[a].providers = job[a].providers
            /\ job'[a].groups = job[a].groups /\ job'[a].routes = job[a].routes
        BY <3>1 DEF Job
      <3>3. QED
        BY <3>2 DEF at, victims
    <2>3. /\ \A r \in Route : r # job[e].id => rows'[r] = rows[r]
          /\ gone' = gone \ {job[e].id} /\ job[e].at = "save" /\ tx = Free
          /\ UNCHANGED <<tx, engine, cache>>
      BY <1>7 DEF SaveRow, Types, TypeOK, Rows, orderVars
    <2>4. QED
      BY <1>a, <2>2, <2>3 DEF Effect, Reading
  <1>8. CASE InsertRow(e)
    <2>1. job' = [job EXCEPT ![e].at = "lock"] /\ job[e].at = "insert" /\ tx = Free
      BY <1>8 DEF InsertRow, Moves
    <2>2. job'[e].at = "lock" /\ job'[e].victims = job[e].victims
      BY <1>a, <2>1 DEF Job
    <2>3. \A a \in Actor \ {e} : job'[a] = job[a]
      BY <1>a, <2>1
    <2>4. \A r \in Route : rows[r] = Deleted => rows'[r] = Deleted
      BY <1>8 DEF InsertRow, Types, TypeOK, Rows, RoutesAssumption
    <2>5. UNCHANGED <<tx, engine, cache, gone>>
      BY <1>8 DEF InsertRow, orderVars, engineVars
    <2>6. QED
      BY <2>1, <2>2, <2>3, <2>4, <2>5 DEF Effect, Reading
  <1>9. CASE DeleteRoute(e)
    <2>1. PICK r \in Route : Remove(e, {q \in {r} : Exists(q)})
      BY <1>9 DEF DeleteRoute
    <2> DEFINE victims == {q \in {r} : Exists(q)}
    <2>2. victims \in SUBSET Route /\ Remove(e, victims)
      BY <2>1
    <2> HIDE DEF victims
    <2>3. QED
      BY <1>9, <2>2, EffectOfRemove DEF DeleteRoute, Begins
  <1>10. CASE DeleteModelGroup(e)
    <2>1. PICK g \in groups : Remove(e, {r \in Route : Exists(r) /\ rows[r].group = g})
      BY <1>10 DEF DeleteModelGroup
    <2>2. QED
      BY <1>10, <2>1, EffectOfRemove DEF DeleteModelGroup, Begins
  <1>11. CASE DeleteProvider(e)
    <2>1. PICK p \in providers : Remove(e, {r \in Route : Exists(r) /\ rows[r].provider = p})
      BY <1>11 DEF DeleteProvider
    <2>2. QED
      BY <1>11, <2>1, EffectOfRemove DEF DeleteProvider, Begins
  <1>12. QED
    BY <1>1, <1>2, <1>3, <1>4, <1>5, <1>6, <1>7, <1>8, <1>9, <1>10, <1>11 DEF EditStep, EditorStep

LEMMA EditShown ==
  ASSUME RoutesAssumption, Types, Shown, NEW e \in Editor, EditStep(e)
  PROVE  Shown'
  <1>1. Effect(e) /\ Types'
    BY EditEffect, EditTypes
  <1>2. e \in Actor /\ gone \subseteq Route /\ \A a \in Actor : job[a].victims \subseteq Route
    BY DEF Actor, Types, TypeOK, Job
  <1>3. OneReader'
    BY <1>1, <1>2 DEF Shown, OneReader, Effect
  <1>4. Quiet'
    BY <1>1 DEF Quiet, Effect
  <1>5. Buried'
    <2>1. \A r \in gone' : rows'[r] = Deleted /\ cache'[r] = Unused
      BY <1>1, <1>2 DEF Shown, Buried, Effect
    <2>2. \A a \in Actor : \A r \in job'[a].victims : rows'[r] = Deleted
      <3> SUFFICES ASSUME NEW a \in Actor, NEW r \in job'[a].victims PROVE rows'[r] = Deleted
        OBVIOUS
      <3>1. r \in Route
        BY <1>1 DEF Types, TypeOK, Job
      <3>2. r \in job[a].victims => rows[r] = Deleted
        BY DEF Shown, Buried
      <3>3. QED
        BY <1>1, <3>1, <3>2 DEF Effect
    <2>3. QED
      BY <2>1, <2>2 DEF Buried
  <1>6. Caught'
    BY <1>1, <1>2 DEF Shown, Caught, Effect, Reading
  <1>7. UpToDate'
    <2>1. CASE job'[e].at = "lock"
      BY <1>2, <2>1 DEF UpToDate
    <2>2. CASE job'[e].at # "lock"
      BY <1>1, <1>2, <2>2 DEF Shown, UpToDate, Effect, Reading
    <2>3. QED
      BY <2>1, <2>2
  <1>8. QED
    BY <1>3, <1>4, <1>5, <1>6, <1>7 DEF Shown

LEMMA DeletedUnserved ==
  ASSUME NEW r \in Route, rows[r] = Deleted, NEW gs, NEW ps
  PROVE  Served(rows, gs, ps)[r] = Unused
  BY DEF Served

LEMMA RefreshShown ==
  ASSUME RoutesAssumption, Types, Shown, NEW a \in Actor, RefreshStep(a)
  PROVE  Shown'
  <1> USE DEF Shown
  <1>a. job \in [Actor -> Job] /\ job[a] \in Job /\ a # Free
    BY DEF Types, TypeOK, RoutesAssumption
  <1>b. /\ UNCHANGED <<orderVars, tableVars>> /\ UNCHANGED <<tx, rows, groups, providers>>
        /\ job[a].at # "idle"
    BY DEF RefreshStep, Lock, ReadProviders, ReadGroups, ReadRoutes, Publish, orderVars, tableVars
  <1>c. /\ gone \subseteq Route
        /\ \A b \in Actor : job[b].victims \subseteq Route
    BY DEF Types, TypeOK, Job
  \* Whatever it does, the transaction is not its own.
  <1>d. Quiet'
    <2>1. tx # Free => a # Orders
      BY <1>b DEF Quiet
    <2>2. \A b \in Actor \ {a} : job'[b] = job[b]
      BY <1>a DEF RefreshStep, Lock, ReadProviders, ReadGroups, ReadRoutes, Publish
    <2>3. Orders \in Actor
      BY DEF Actor
    <2>4. QED
      BY <1>b, <2>1, <2>2, <2>3 DEF Quiet
  <1>1. CASE Lock(a)
    <2>1. job' = [job EXCEPT ![a].at = "providers"] /\ engine = Free /\ engine' = a
          /\ job[a].at = "lock" /\ UNCHANGED <<cache, gone>>
      BY <1>1 DEF Lock
    <2>2. job'[a].at = "providers" /\ job'[a].victims = job[a].victims
      BY <1>a, <2>1 DEF Job
    <2>3. \A b \in Actor \ {a} : job'[b] = job[b]
      BY <1>a, <2>1
    <2>4. \A b \in Actor : job[b].at \notin Reading
      BY <2>1 DEF OneReader, RoutesAssumption
    <2>5. OneReader'
      BY <2>1, <2>2, <2>3, <2>4 DEF OneReader, Reading
    <2>6. Buried' /\ Caught'
      BY <1>b, <2>1, <2>2, <2>3 DEF Buried, Caught
    <2>7. UpToDate'
      BY <1>a, <2>1, <2>2, <2>3, <2>4 DEF UpToDate, Reading
    <2>8. QED
      BY <1>d, <2>5, <2>6, <2>7
  <1>2. CASE ReadProviders(a)
    <2>0. job' = [job EXCEPT ![a].at = "groups", ![a].providers = providers]
      BY <1>2 DEF ReadProviders
    <2>1. job[a].at = "providers" /\ UNCHANGED <<cache, gone, engine>>
      BY <1>2 DEF ReadProviders, engineVars
    <2>2. job'[a].at = "groups" /\ job'[a].victims = job[a].victims /\ job'[a].providers = providers
      BY <1>a, <2>0 DEF Job
    <2>3. \A b \in Actor \ {a} : job'[b] = job[b]
      BY <1>a, <2>0
    <2>4. OneReader'
      BY <2>1, <2>2, <2>3 DEF OneReader, Reading
    <2>5. Buried'
      BY <1>b, <2>1, <2>2, <2>3 DEF Buried
    <2>6. Caught'
      BY <2>1, <2>2, <2>3 DEF Caught
    <2>7. UpToDate'
      BY <1>b, <2>1, <2>2, <2>3 DEF UpToDate, Reading
    <2>8. QED
      BY <1>d, <2>4, <2>5, <2>6, <2>7
  <1>3. CASE ReadGroups(a)
    <2>0. job' = [job EXCEPT ![a].at = "routes", ![a].groups = groups]
      BY <1>3 DEF ReadGroups
    <2>1. job[a].at = "groups" /\ UNCHANGED <<cache, gone, engine>>
      BY <1>3 DEF ReadGroups, engineVars
    <2>2. /\ job'[a].at = "routes" /\ job'[a].victims = job[a].victims
          /\ job'[a].groups = groups /\ job'[a].providers = job[a].providers
      BY <1>a, <2>0 DEF Job
    <2>3. \A b \in Actor \ {a} : job'[b] = job[b]
      BY <1>a, <2>0
    <2>4. OneReader'
      BY <2>1, <2>2, <2>3 DEF OneReader, Reading
    <2>5. Buried'
      BY <1>b, <2>1, <2>2, <2>3 DEF Buried
    <2>6. Caught'
      BY <2>1, <2>2, <2>3 DEF Caught
    <2>7. UpToDate'
      BY <1>b, <2>1, <2>2, <2>3 DEF UpToDate, Reading
    <2>8. QED
      BY <1>d, <2>4, <2>5, <2>6, <2>7
  <1>4. CASE ReadRoutes(a)
    <2> DEFINE served == Served(rows, job[a].groups, job[a].providers)
    <2>0. job' = [job EXCEPT ![a].at = "publish", ![a].routes = served]
      BY <1>4 DEF ReadRoutes
    <2>1. job[a].at = "routes" /\ UNCHANGED <<cache, gone, engine>>
      BY <1>4 DEF ReadRoutes, engineVars
    <2>2. \A r \in Route : rows[r] = Deleted => served[r] = Unused
      BY DeletedUnserved
    <2>3. (\A b \in Actor : job[b].at # "lock") => served = Served(rows, groups, providers)
      BY <2>1 DEF UpToDate
    <2> HIDE DEF served
    <2>4. job'[a].at = "publish" /\ job'[a].victims = job[a].victims /\ job'[a].routes = served
      BY <1>a, <2>0 DEF Job
    <2>5. \A b \in Actor \ {a} : job'[b] = job[b]
      BY <1>a, <2>0
    <2>6. OneReader'
      BY <2>1, <2>4, <2>5 DEF OneReader, Reading
    <2>7. Buried'
      BY <1>b, <2>1, <2>4, <2>5 DEF Buried
    <2>8. \A r \in gone \cup job[a].victims : served[r] = Unused
      BY <1>c, <2>2 DEF Buried
    <2>9. Caught'
      BY <2>1, <2>4, <2>5, <2>8 DEF Caught
    <2>10. Served(rows, groups, providers)' = Served(rows, groups, providers)
      BY <1>b
    <2>11. UpToDate'
      BY <1>a, <1>b, <2>1, <2>3, <2>4, <2>5, <2>10 DEF UpToDate, Reading
    <2>12. QED
      BY <1>d, <2>6, <2>7, <2>9, <2>11
  <1>5. CASE Publish(a)
    <2>1. /\ job' = [job EXCEPT ![a] = Idle] /\ job[a].at = "publish"
          /\ cache' = job[a].routes /\ engine' = Free /\ gone' = gone \cup job[a].victims
      BY <1>5 DEF Publish
    <2>2. job'[a] = Idle /\ Idle.at = "idle" /\ Idle.victims = {}
      BY <1>a, <2>1 DEF Idle
    <2>3. \A b \in Actor \ {a} : job'[b] = job[b]
      BY <1>a, <2>1
    <2>4. engine = a /\ \A b \in Actor \ {a} : job[b].at \notin Reading
      BY <2>1 DEF OneReader, Reading
    <2>5. OneReader'
      BY <2>1, <2>2, <2>3, <2>4 DEF OneReader, Reading, RoutesAssumption
    <2>6. Buried'
      BY <1>b, <2>1, <2>2, <2>3 DEF Buried, Caught
    <2>7. Caught'
      BY <2>2, <2>3, <2>4 DEF Caught, Reading
    <2>8. UpToDate'
      BY <1>b, <2>1, <2>2, <2>3, <2>4 DEF UpToDate, Reading
    <2>9. QED
      BY <1>d, <2>5, <2>6, <2>7, <2>8
  <1>6. QED
    BY <1>1, <1>2, <1>3, <1>4, <1>5 DEF RefreshStep

LEMMA OrderShown ==
  ASSUME RoutesAssumption, Types, Shown, OrderStep
  PROVE  Shown'
  <1> USE DEF Shown
  <1>1. ASSUME UNCHANGED <<tableVars, engineVars, job>>, Quiet' PROVE Shown'
    BY <1>1 DEF OneReader, Buried, Caught, UpToDate, tableVars, engineVars
  <1>2. CASE \E t \in Tab : Save(t) \/ Observe(t)
    BY <1>1, <1>2 DEF Save, Observe, Quiet, tableVars
  <1>3. CASE Refuse
    BY <1>1, <1>3 DEF Refuse, Quiet, tableVars
  <1>4. CASE Accept
    <2>1. tx'.rows = rows /\ job[Orders].at = "idle" /\ UNCHANGED <<tableVars, engineVars, job>>
      BY <1>4 DEF Accept, Arrives
    <2>2. QED
      BY <1>1, <2>1 DEF Quiet, tableVars
  <1>5. CASE WriteRank
    <2>1. PICK r \in tx.todo :
            tx' = [tx EXCEPT !.todo = @ \ {r},
                             !.rows[r] = IF @ \in Row THEN [@ EXCEPT !.priority = tx.order.ranks[r]] ELSE @]
      BY <1>5 DEF WriteRank
    <2>2. tx \in [order : Order, rows : Rows, todo : SUBSET Route] /\ tx # Free
      BY <1>5 DEF WriteRank, Types, TypeOK
    <2> DEFINE row == IF tx.rows[r] \in Row THEN [tx.rows[r] EXCEPT !.priority = tx.order.ranks[r]]
                      ELSE tx.rows[r]
    <2>3. tx' = [tx EXCEPT !.todo = @ \ {r}, !.rows = [@ EXCEPT ![r] = row]]
      BY <2>1, <2>2 DEF Rows
    <2>4. tx.rows[r] = Deleted => row = Deleted
      BY DEF RoutesAssumption
    <2> HIDE DEF row
    <2>5. tx'.rows = [tx.rows EXCEPT ![r] = row]
      BY <2>2, <2>3
    <2>6. \A q \in Route : tx.rows[q] = Deleted => tx'.rows[q] = Deleted
      BY <2>2, <2>4, <2>5 DEF Rows
    <2>7. Quiet'
      BY <1>5, <2>2, <2>6 DEF WriteRank, Quiet, tableVars
    <2>8. QED
      BY <1>1, <1>5, <2>7 DEF WriteRank
  <1>6. CASE Commit
    <2>1. /\ job' = [job EXCEPT ![Orders].at = "lock"] /\ rows' = tx.rows /\ tx # Free /\ tx' = Free
          /\ UNCHANGED <<groups, providers, cache, engine, gone>>
      BY <1>6 DEF Commit, engineVars
    <2>2. Orders \in Actor /\ job \in [Actor -> Job] /\ job[Orders] \in Job
      BY DEF Actor, Types, TypeOK
    <2>3. job[Orders].at = "idle" /\ \A r \in Route : rows[r] = Deleted => rows'[r] = Deleted
      BY <2>1 DEF Quiet
    <2>4. job'[Orders].at = "lock" /\ job'[Orders].victims = job[Orders].victims
      BY <2>1, <2>2 DEF Job
    <2>5. \A a \in Actor \ {Orders} : job'[a] = job[a]
      BY <2>1, <2>2
    <2>6. gone \subseteq Route /\ \A a \in Actor : job[a].victims \subseteq Route
      BY DEF Types, TypeOK, Job
    <2>7. OneReader'
      BY <2>1, <2>3, <2>4, <2>5 DEF OneReader, Reading
    <2>8. Buried'
      BY <2>1, <2>3, <2>4, <2>5, <2>6 DEF Buried
    <2>9. Quiet' /\ Caught' /\ UpToDate'
      BY <2>1, <2>2, <2>4, <2>5 DEF Quiet, Caught, UpToDate
    <2>10. QED
      BY <2>7, <2>8, <2>9
  <1>7. CASE Rollback
    BY <1>1, <1>7 DEF Rollback, Quiet
  <1>8. QED
    BY <1>2, <1>3, <1>4, <1>5, <1>6, <1>7 DEF OrderStep

LEMMA RestartShown ==
  ASSUME RoutesAssumption, Types, Shown, Restart
  PROVE  Shown'
  <1>1. \A a \in Actor : job'[a] = Idle
    BY DEF Restart
  <1>2. Idle.at = "idle" /\ Idle.victims = {}
    BY DEF Idle
  <1>3. /\ tx' = Free /\ engine' = Free /\ gone' = gone /\ cache' = Served(rows, groups, providers)
        /\ rows' = rows /\ groups' = groups /\ providers' = providers
    BY DEF Restart, tableVars
  <1>4. gone \subseteq Route
    BY DEF Types, TypeOK
  <1>5. OneReader' /\ Quiet' /\ Caught'
    BY <1>1, <1>2, <1>3 DEF OneReader, Quiet, Caught, Reading, RoutesAssumption
  <1>6. Buried'
    BY <1>1, <1>2, <1>3, <1>4, DeletedUnserved DEF Shown, Buried
  <1>7. UpToDate'
    BY <1>1, <1>2, <1>3 DEF UpToDate
  <1>8. QED
    BY <1>5, <1>6, <1>7 DEF Shown

LEMMA InitShown == ASSUME RoutesAssumption, Init PROVE Shown
  <1>1. Idle.at = "idle" /\ Idle.victims = {}
    BY DEF Idle
  <1>2. QED
    BY <1>1 DEF Init, Shown, OneReader, Quiet, Buried, Caught, UpToDate, Reading, RoutesAssumption

LEMMA AlwaysShown == Spec => []Shown
  <1>1. Init => Shown
    BY InitShown, RoutesAssumption
  <1>2. Types /\ Shown /\ [Next]_vars => Shown'
    <2> SUFFICES ASSUME Types, Shown, [Next]_vars PROVE Shown'
      OBVIOUS
    <2>1. CASE UNCHANGED vars
      BY <2>1 DEF vars, orderVars, tableVars, engineVars,
                  Shown, OneReader, Quiet, Buried, Caught, UpToDate
    <2>2. QED
      BY <2>1, Kinds, OrderShown, EditShown, RefreshShown, RestartShown, RoutesAssumption
  <1>3. QED
    BY <1>1, <1>2, AlwaysTypes, PTL DEF Spec

\* No answered delete is served again, for any handlers and any tables.
THEOREM EditsShownAlways == Spec => []EditsShown
  <1>1. Types /\ Shown => EditsShown
    <2> SUFFICES ASSUME Types, Shown PROVE EditsShown
      OBVIOUS
    <2>1. \A r \in gone : cache[r] = Unused
      BY DEF Shown, Buried
    <2>2. ASSUME \A a \in Actor : job[a] = Idle
          PROVE  cache = Served(rows, groups, providers)
      <3>1. \A a \in Actor : job[a].at \notin Reading /\ job[a].at # "lock"
        BY <2>2 DEF Idle, Reading
      <3>2. engine = Free
        BY <3>1 DEF Shown, OneReader, Types, TypeOK
      <3>3. QED
        BY <3>1, <3>2 DEF Shown, UpToDate
    <2>3. QED
      BY <2>1, <2>2 DEF EditsShown
  <1>2. QED
    BY <1>1, AlwaysTypes, AlwaysShown, PTL
------------------------------------------------------------------------------
(* Orders only advance *)

\* A tab's orders: below its counters, and in the order of both.
Sent ==
  /\ \A o \in net :
       /\ o.version.tab \in Tab /\ o.version.time > 0
       /\ o.version.sequence <= tabs[o.version.tab].sequence
       /\ o.version.time <= tabs[o.version.tab].last
  /\ \A o1, o2 \in net :
       o1.version.tab = o2.version.tab /\ o1.version.sequence <= o2.version.sequence =>
         o1.version.time <= o2.version.time

\* The transaction's order was newer than the stored version, and still is.
Pending == tx # Free => tx.order \in net /\ Newer(tx.order.version, version)

\* A committed version is an order's, raised; the stored one is the latest of all.
Past ==
  /\ version = Zero => applied = {}
  /\ \A v \in applied :
       /\ \E o \in net : /\ o.version.tab = v.tab /\ o.version.sequence = v.sequence
                         /\ o.version.time <= v.time
       /\ v = version \/ Later(version, v)
       /\ v.tab = version.tab => v.sequence <= version.sequence

LEMMA SentKept ==
  ASSUME RoutesAssumption, Types, Sent, NEW t \in Tab, Save(t)
  PROVE  Sent'
  <1>1. PICK time \in Nat, ranks \in Ranking :
          /\ time > tabs[t].last /\ time > tabs[t].seen.time
          /\ tabs' = [tabs EXCEPT ![t].last = time, ![t].sequence = tabs[t].sequence + 1]
          /\ net' = net \cup {[version |-> [time |-> time, tab |-> t,
                                            sequence |-> tabs[t].sequence + 1],
                               ranks |-> ranks, seen |-> tabs[t].seen]}
    BY Drawn
  <1>2. /\ tabs[t].last \in Nat /\ tabs[t].sequence \in Nat
        /\ tabs \in [Tab -> [last : Nat, sequence : Nat, seen : Version]]
    BY DEF Types, TypeOK
  <1>3. /\ tabs'[t].last = time /\ tabs'[t].sequence = tabs[t].sequence + 1
        /\ \A u \in Tab \ {t} : tabs'[u] = tabs[u]
    BY <1>1, <1>2
  <1>4. \A o \in net : /\ o.version.time \in Nat /\ o.version.sequence \in Nat
                       /\ o.version.tab \in Tab
                       /\ tabs[o.version.tab].sequence \in Nat
                       /\ tabs[o.version.tab].last \in Nat
    BY <1>2 DEF Types, TypeOK, Order, Version, Sent
  <1> DEFINE sent == [version |-> [time |-> time, tab |-> t, sequence |-> tabs[t].sequence + 1],
                      ranks |-> ranks, seen |-> tabs[t].seen]
  <1>5. /\ sent.version.time = time /\ sent.version.tab = t
        /\ sent.version.sequence = tabs[t].sequence + 1
        /\ net' = net \cup {sent}
    BY <1>1
  <1> HIDE DEF sent
  <1>6. ASSUME NEW o \in net'
        PROVE  /\ o.version.tab \in Tab /\ o.version.time > 0
               /\ o.version.sequence <= tabs'[o.version.tab].sequence
               /\ o.version.time <= tabs'[o.version.tab].last
    <2>1. CASE o = sent
      BY <1>1, <1>2, <1>3, <1>5, <2>1
    <2>2. CASE o \in net
      <3>1. /\ o.version.tab \in Tab /\ o.version.time > 0
            /\ o.version.sequence <= tabs[o.version.tab].sequence
            /\ o.version.time <= tabs[o.version.tab].last
        BY <2>2 DEF Sent
      <3>2. CASE o.version.tab = t
        BY <1>1, <1>2, <1>3, <1>4, <2>2, <3>1, <3>2
      <3>3. CASE o.version.tab # t
        BY <1>3, <3>1, <3>3
      <3>4. QED
        BY <3>2, <3>3
    <2>3. QED
      BY <1>5, <2>1, <2>2
  <1>7. ASSUME NEW o1 \in net', NEW o2 \in net',
               o1.version.tab = o2.version.tab, o1.version.sequence <= o2.version.sequence
        PROVE  o1.version.time <= o2.version.time
    <2>1. CASE o1 \in net /\ o2 \in net
      BY <1>7, <2>1 DEF Sent
    <2>2. CASE o1 = sent /\ o2 = sent
      BY <1>5, <2>2
    <2>3. CASE o1 \in net /\ o2 = sent
      <3>1. o1.version.time <= tabs[t].last
        BY <1>5, <1>7, <2>3 DEF Sent
      <3>2. QED
        BY <1>1, <1>2, <1>4, <1>5, <2>3, <3>1
    <2>4. CASE o1 = sent /\ o2 \in net
      <3>1. o2.version.sequence <= tabs[t].sequence
        BY <1>5, <1>7, <2>4 DEF Sent
      <3>2. o2.version.sequence \in Nat
        BY <1>4, <2>4
      <3>3. QED
        BY <1>2, <1>5, <1>7, <2>4, <3>1, <3>2
    <2>5. QED
      BY <1>5, <2>1, <2>2, <2>3, <2>4
  <1>8. QED
    BY <1>6, <1>7 DEF Sent

\* What Commit stores, and that it is later than what was stored.
LEMMA Stored ==
  ASSUME RoutesAssumption, Types, Sent, Pending, Past, Commit
  PROVE  /\ version' \in Version /\ version'.time > 0
         /\ version'.tab = tx.order.version.tab /\ version'.sequence = tx.order.version.sequence
         /\ version'.time >= tx.order.version.time
         /\ Later(version', version)
         /\ \A v \in applied : v.tab = version'.tab => v.sequence < version'.sequence
  <1> DEFINE c == tx.order.version
  <1>1. tx # Free /\ tx.order \in net /\ Newer(c, version) /\ version' = Committed(c)
    BY DEF Commit, Pending
  <1>2. c \in Version /\ c.time > 0 /\ version \in Version
    BY <1>1 DEF Types, TypeOK, Order, Sent
  <1>3. /\ c.time \in Nat /\ c.sequence \in Nat /\ c.tab \in Nat
        /\ version.time \in Nat /\ version.sequence \in Nat /\ version.tab \in Nat
    BY <1>2 DEF Version, RoutesAssumption
  <1> DEFINE time == IF version.time > c.time THEN version.time ELSE c.time
  <1>4. time \in Nat /\ time >= version.time /\ time >= c.time
    BY <1>3
  <1>5. version' = [c EXCEPT !.time = time]
    BY <1>1 DEF Committed
  <1>9. time = version.time \/ time = c.time
    OBVIOUS
  <1>8. \A o1, o2 \in net :
          o1.version.tab = o2.version.tab /\ o1.version.sequence <= o2.version.sequence =>
            o1.version.time <= o2.version.time
    BY DEF Sent
  <1> HIDE DEF time
  <1>6. /\ version' \in Version /\ version'.time = time
        /\ version'.tab = c.tab /\ version'.sequence = c.sequence
    BY <1>2, <1>4, <1>5 DEF Version
  <1>7. \/ version = Zero
        \/ c.tab = version.tab /\ c.sequence > version.sequence
        \/ /\ c.tab # version.tab
           /\ \/ c.time > version.time
              \/ c.time = version.time /\ c.tab > version.tab
    BY <1>1 DEF Newer
  <1>10. Later(version', version)
    <2>1. CASE version = Zero
      BY <1>2, <1>3, <1>4, <1>6, <2>1 DEF Later, Zero
    <2>2. CASE version # Zero
      BY <1>3, <1>4, <1>6, <1>7, <2>2 DEF Later
    <2>3. QED
      BY <2>1, <2>2
  <1>11. ASSUME NEW v \in applied, v.tab = c.tab PROVE v.sequence < c.sequence
    <2>1. /\ v.time \in Nat /\ v.sequence \in Nat /\ v.tab \in Nat
      BY DEF Types, TypeOK, Version, RoutesAssumption
    <2>2. /\ version # Zero
          /\ v = version \/ Later(version, v)
          /\ v.tab = version.tab => v.sequence <= version.sequence
      BY DEF Past
    <2>3. CASE c.tab = version.tab
      BY <1>3, <1>7, <1>11, <2>1, <2>2, <2>3
    <2>4. CASE c.tab # version.tab
      <3>1. PICK o \in net : /\ o.version.tab = v.tab /\ o.version.sequence = v.sequence
                             /\ o.version.time <= v.time
        BY DEF Past
      <3>2. o.version.time \in Nat
        BY DEF Types, TypeOK, Order, Version
      <3>3. v.time < c.time
        BY <1>3, <1>7, <1>11, <2>1, <2>2, <2>4 DEF Later
      <3>4. CASE c.sequence <= v.sequence
        <4>1. c.time <= o.version.time
          BY <1>1, <1>8, <1>11, <3>1, <3>4
        <4>2. QED
          BY <1>3, <2>1, <3>1, <3>2, <3>3, <4>1
      <3>5. QED
        BY <1>3, <2>1, <3>4
    <2>5. QED
      BY <2>3, <2>4
  <1>12. QED
    BY <1>2, <1>3, <1>4, <1>6, <1>10, <1>11

Versions == Sent /\ Pending /\ Past

LEMMA VersionsKept ==
  ASSUME RoutesAssumption, Types, Versions, [Next]_vars
  PROVE  Versions'
  <1> USE DEF Versions
  <1>1. ASSUME UNCHANGED <<net, version, applied, tx>>,
               \A t \in Tab : tabs'[t].last = tabs[t].last /\ tabs'[t].sequence = tabs[t].sequence
        PROVE  Versions'
    BY <1>1 DEF Sent, Pending, Past
  <1>2. ASSUME NEW t \in Tab, Save(t) PROVE Versions'
    <2>1. Sent'
      BY <1>2, SentKept
    <2>2. net \subseteq net' /\ UNCHANGED <<version, applied, tx>>
      BY <1>2 DEF Save
    <2>3. QED
      BY <2>1, <2>2 DEF Pending, Past
  <1>3. CASE \E t \in Tab : Observe(t)
    <2>1. PICK t \in Tab, v \in applied : tabs' = [tabs EXCEPT ![t].seen = v]
      BY <1>3 DEF Observe
    <2>2. \A u \in Tab : tabs'[u].last = tabs[u].last /\ tabs'[u].sequence = tabs[u].sequence
      BY <2>1 DEF Types, TypeOK
    <2>3. QED
      BY <1>1, <1>3, <2>2 DEF Observe
  <1>4. CASE Refuse
    <2>1. PICK t, v : tabs' = [tabs EXCEPT ![t].seen = v]
      BY <1>4 DEF Refuse
    <2>2. \A u \in Tab : tabs'[u].last = tabs[u].last /\ tabs'[u].sequence = tabs[u].sequence
      BY <2>1 DEF Types, TypeOK
    <2>3. QED
      BY <1>1, <1>4, <2>2 DEF Refuse
  <1>5. CASE Accept
    <2>1. PICK order \in net :
            /\ Newer(order.version, version)
            /\ tx' = [order |-> order, rows |-> rows, todo |-> DOMAIN order.ranks]
      BY <1>5 DEF Accept
    <2>2. tx'.order = order
      BY <2>1
    <2>3. UNCHANGED <<tabs, net, version, applied>>
      BY <1>5 DEF Accept
    <2>4. QED
      BY <2>1, <2>2, <2>3 DEF Sent, Pending, Past
  <1>6. CASE WriteRank
    <2>1. PICK r, row : tx' = [tx EXCEPT !.todo = @ \ {r}, !.rows[r] = row]
      BY <1>6 DEF WriteRank
    <2>2. tx \in [order : Order, rows : Rows, todo : SUBSET Route] /\ tx # Free
      BY <1>6 DEF WriteRank, Types, TypeOK
    <2>3. tx'.order = tx.order
      BY <2>1, <2>2
    <2>4. UNCHANGED <<tabs, net, version, applied>>
      BY <1>6 DEF WriteRank
    <2>5. QED
      BY <2>2, <2>3, <2>4 DEF Sent, Pending, Past
  <1>7. CASE Commit
    <2>1. /\ version' \in Version /\ version'.time > 0
          /\ version'.tab = tx.order.version.tab /\ version'.sequence = tx.order.version.sequence
          /\ version'.time >= tx.order.version.time
          /\ Later(version', version)
          /\ \A v \in applied : v.tab = version'.tab => v.sequence < version'.sequence
      BY <1>7, Stored
    <2>2. /\ tx.order \in net /\ applied' = applied \cup {version'} /\ tx' = Free
          /\ UNCHANGED <<tabs, net>>
      BY <1>7 DEF Commit, Pending
    <2>3. /\ version \in Version /\ applied \subseteq Version /\ tx.order \in Order
      BY <2>2 DEF Types, TypeOK
    <2>4. version' # Zero
      BY <2>1 DEF Zero, Version
    <2>5. ASSUME NEW v \in applied PROVE Later(version', v)
      <3>1. /\ v.time \in Nat /\ v.tab \in Nat /\ v.sequence \in Nat
            /\ version.time \in Nat /\ version.tab \in Nat /\ version.sequence \in Nat
            /\ version'.time \in Nat /\ version'.tab \in Nat /\ version'.sequence \in Nat
        BY <2>1, <2>3 DEF Version, RoutesAssumption
      <3>2. v = version \/ Later(version, v)
        BY DEF Past
      <3>3. QED
        BY <2>1, <3>1, <3>2 DEF Later
    <2>6. ASSUME NEW v \in applied'
          PROVE  /\ \E o \in net' : /\ o.version.tab = v.tab /\ o.version.sequence = v.sequence
                                    /\ o.version.time <= v.time
                 /\ v = version' \/ Later(version', v)
                 /\ v.tab = version'.tab => v.sequence <= version'.sequence
      <3>1. CASE v \in applied
        <4>1. v.sequence \in Nat /\ version'.sequence \in Nat
          BY <2>1, <2>3, <3>1 DEF Version
        <4>2. \E o \in net' : /\ o.version.tab = v.tab /\ o.version.sequence = v.sequence
                              /\ o.version.time <= v.time
          BY <2>2, <3>1 DEF Past
        <4>3. QED
          BY <2>1, <2>5, <3>1, <4>1, <4>2
      <3>2. CASE v = version'
        <4>1. /\ version'.time \in Nat /\ version'.sequence \in Nat
              /\ tx.order.version.time \in Nat
          BY <2>1, <2>3 DEF Version, Order
        <4>2. QED
          BY <2>1, <2>2, <3>2, <4>1
      <3>3. QED
        BY <2>2, <3>1, <3>2
    <2>7. Past'
      BY <2>4, <2>6 DEF Past
    <2>8. Sent' /\ Pending'
      BY <2>2 DEF Sent, Pending
    <2>9. QED
      BY <2>7, <2>8
  <1>8. CASE Rollback \/ Restart
    BY <1>8 DEF Rollback, Restart, Sent, Pending, Past
  <1>9. CASE UNCHANGED orderVars
    BY <1>1, <1>9 DEF orderVars
  <1>10. CASE UNCHANGED vars
    BY <1>9, <1>10 DEF vars
  <1>11. CASE OrderStep
    BY <1>2, <1>3, <1>4, <1>5, <1>6, <1>7, <1>8, <1>11 DEF OrderStep
  <1>12. QED
    BY <1>8, <1>9, <1>10, <1>11, Kinds, FrameOrder

LEMMA AlwaysVersions == Spec => []Versions
  <1>1. Init => Versions
    BY DEF Init, Versions, Sent, Pending, Past
  <1>2. Types /\ Versions /\ [Next]_vars => Versions'
    BY VersionsKept, RoutesAssumption
  <1>3. QED
    BY <1>1, <1>2, AlwaysTypes, PTL DEF Spec

\* Orders advance, however the requests are lost, late and repeated.
THEOREM OrdersAdvanceAlways == Spec => OrdersAdvance
  <1> DEFINE Advance ==
        version' # version =>
          /\ Later(version', version)
          /\ \A v \in applied : v.tab = version'.tab => v.sequence < version'.sequence
  <1>1. Types /\ Versions /\ [Next]_vars => Advance
    <2> SUFFICES ASSUME Types, Versions, [Next]_vars, version' # version PROVE Advance
      OBVIOUS
    <2>1. CASE Commit
      BY <2>1, Stored, RoutesAssumption DEF Versions
    <2>2. CASE OrderStep
      BY <2>1, <2>2 DEF OrderStep, Save, Observe, Refuse, Accept, WriteRank, Rollback
    <2>3. CASE Restart
      BY <2>3 DEF Restart
    <2>4. ~UNCHANGED orderVars /\ ~UNCHANGED vars
      BY DEF vars, orderVars
    <2>5. QED
      BY <2>2, <2>3, <2>4, Kinds, FrameOrder
  <1>2. QED
    BY <1>1, AlwaysTypes, AlwaysVersions, PTL DEF Spec, OrdersAdvance
===============================================================================
