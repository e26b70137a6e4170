----------------------------- MODULE LedgerProofs -----------------------------
(***************************************************************************)
(* Proofs about Ledger, for any processes, slots, routes, names, prices and  *)
(* numbers of requests and edits.                                            *)
(***************************************************************************)
EXTENDS Ledger, TLAPS

Step(i) ==
  \/ Launch(i) \/ InspectPrices(i) \/ ConvertPrices(i) \/ AddColumns(i)
  \/ InspectIndex(i) \/ RebuildIndex(i) \/ CheckFold(i) \/ Fold(i)
  \/ CheckIngress(i) \/ BeginRemap(i) \/ Remap(i) \/ CommitRemap(i) \/ Serve(i) \/ Fail(i)
  \/ Ask(i) \/ LookupExact(i) \/ LookupWildcard(i) \/ RecordConsumption(i)
  \/ SetRule(i) \/ \E who \in Loader : LoadPricing(i, who) \/ InstallPricing(i, who)

LEMMA Steps ==
  ASSUME [Next]_vars PROVE (\E i \in Instance : Step(i)) \/ UNCHANGED vars
  BY DEF Next, Step
------------------------------------------------------------------------------
(* What a process that has come to a step of Init may rely on, as no process *)
(* ever takes back what another one's migration did.                         *)

Ingress == {"ingress", "remap", "settings", "serve"}
Folding == {"fold", "folding"} \cup Ingress
Columns == {"columns", "index", "rebuild"} \cup Folding

Stage ==
  /\ at \in [Instance -> {"down", "prices", "convert"} \cup Columns]
  /\ DOMAIN job = Instance
  /\ \A i \in Instance :
       /\ at[i] \in Columns => schema # "k"
       /\ at[i] \in Folding => index = "model"
       /\ at[i] \in Ingress => folded
       /\ at[i] \in {"settings", "serve"} => marked
       /\ job[i] # None => at[i] = "serve"
       /\ tx # None => at[tx.by] = "remap" /\ tx.by \in Instance

\* Migrations are not undone.
LEMMA Lasting ==
  ASSUME NEW i \in Instance, Step(i)
  PROVE  /\ schema # "k" => schema' # "k"
         /\ index = "model" => index' = "model"
         /\ folded => folded' = TRUE
         /\ marked => marked' = TRUE
  <1>1. CASE \/ Launch(i) \/ InspectPrices(i) \/ InspectIndex(i) \/ CheckFold(i) \/ CheckIngress(i)
             \/ Serve(i)
    BY <1>1 DEF Launch, InspectPrices, InspectIndex, CheckFold, CheckIngress, Serve, dbVars
  <1>2. CASE \/ ConvertPrices(i) \/ AddColumns(i) \/ RebuildIndex(i) \/ Fold(i) \/ BeginRemap(i)
             \/ Remap(i) \/ CommitRemap(i) \/ Fail(i)
    BY <1>2 DEF ConvertPrices, AddColumns, RebuildIndex, Fold, BeginRemap, Remap, CommitRemap, Fail
  <1>3. CASE \/ Ask(i) \/ LookupExact(i) \/ LookupWildcard(i) \/ RecordConsumption(i)
             \/ SetRule(i) \/ \E who \in Loader : LoadPricing(i, who) \/ InstallPricing(i, who)
    BY <1>3 DEF Ask, LookupExact, LookupWildcard, RecordConsumption, SetRule, LoadPricing,
                InstallPricing, dbVars
  <1>4. QED
    BY <1>1, <1>2, <1>3 DEF Step

\* A process that only goes on in Init.
LEMMA GotoStage ==
  ASSUME Stage, NEW i \in Instance, Step(i),
         NEW step \in {"down", "prices", "convert"} \cup Columns, Goto(i, step),
         at[i] # "serve", at[i] # "remap", UNCHANGED <<job, tx>>,
         step \in Columns => schema' # "k",
         step \in Folding => index' = "model",
         step \in Ingress => folded',
         step \in {"settings", "serve"} => marked'
  PROVE  Stage'
  <1>1. at' = [at EXCEPT ![i] = step]
    BY DEF Goto
  <1>2. at' \in [Instance -> {"down", "prices", "convert"} \cup Columns]
    BY <1>1 DEF Stage
  <1>3. ASSUME NEW j \in Instance
        PROVE  /\ at'[j] \in Columns => schema' # "k"
               /\ at'[j] \in Folding => index' = "model"
               /\ at'[j] \in Ingress => folded'
               /\ at'[j] \in {"settings", "serve"} => marked'
               /\ job'[j] # None => at'[j] = "serve"
    BY <1>1, <1>3, Lasting DEF Stage
  <1>4. tx' # None => at'[tx'.by] = "remap" /\ tx'.by \in Instance
    BY <1>1 DEF Stage
  <1>5. QED
    BY <1>2, <1>3, <1>4 DEF Stage

LEMMA StageKept ==
  ASSUME LedgerAssumption, Stage, NEW i \in Instance, Step(i)
  PROVE  Stage'
  <1> USE DEF Ingress, Folding, Columns
  <1>a. at \in [Instance -> {"down", "prices", "convert"} \cup Columns]
    BY DEF Stage
  <1>b. at[i] \in Columns => schema' # "k"
    BY Lasting DEF Stage
  <1>c. at[i] \in Folding => index' = "model"
    BY Lasting DEF Stage
  <1>d. at[i] \in Ingress => folded'
    BY Lasting DEF Stage
  <1>1. CASE Launch(i)
    BY <1>1, GotoStage DEF Launch, dbVars, serveVars
  <1>2. CASE InspectPrices(i)
    <2>1. CASE schema = "k"
      BY <1>2, <2>1, GotoStage DEF InspectPrices, dbVars, serveVars
    <2>2. CASE schema # "k"
      BY <1>2, <2>2, GotoStage DEF InspectPrices, dbVars, serveVars
    <2>3. QED
      BY <2>1, <2>2
  <1>3. CASE ConvertPrices(i)
    <2>1. schema' # "k"
      BY <1>3 DEF ConvertPrices
    <2>2. QED
      BY <1>3, <2>1, GotoStage DEF ConvertPrices, serveVars
  <1>4. CASE AddColumns(i)
    <2>1. schema' # "k"
      BY <1>4 DEF AddColumns
    <2>2. QED
      BY <1>4, <2>1, GotoStage DEF AddColumns, serveVars
  <1>5. CASE InspectIndex(i)
    <2>1. CASE index = "model"
      BY <1>5, <1>b, <2>1, GotoStage, Lasting DEF InspectIndex, dbVars, serveVars
    <2>2. CASE index # "model"
      BY <1>5, <1>b, <2>2, GotoStage DEF InspectIndex, dbVars, serveVars
    <2>3. QED
      BY <2>1, <2>2
  <1>6. CASE RebuildIndex(i)
    BY <1>6, <1>b, GotoStage DEF RebuildIndex, serveVars
  <1>7. CASE CheckFold(i)
    <2>1. CASE folded
      BY <1>7, <1>b, <1>c, <2>1, GotoStage, Lasting DEF CheckFold, dbVars, serveVars
    <2>2. CASE ~folded
      BY <1>7, <1>b, <1>c, <2>2, GotoStage DEF CheckFold, dbVars, serveVars
    <2>3. QED
      BY <2>1, <2>2
  <1>8. CASE Fold(i)
    <2>1. CASE folded
      BY <1>8, <2>1, GotoStage DEF Fold, serveVars
    <2>2. CASE ~folded
      BY <1>8, <1>b, <1>c, <2>2, GotoStage DEF Fold, serveVars
    <2>3. QED
      BY <2>1, <2>2
  <1>9. CASE CheckIngress(i)
    <2>1. CASE marked
      BY <1>9, <1>b, <1>c, <1>d, <2>1, GotoStage, Lasting DEF CheckIngress, dbVars, serveVars
    <2>2. CASE ~marked
      BY <1>9, <1>b, <1>c, <1>d, <2>2, GotoStage DEF CheckIngress, dbVars, serveVars
    <2>3. QED
      BY <2>1, <2>2
  <1>10. CASE BeginRemap(i)
    <2>1. /\ at[i] = "remap" /\ tx'.by = i
          /\ UNCHANGED <<at, index, folded, marked, schema, job>>
      BY <1>10 DEF BeginRemap, serveVars
    <2>2. QED
      BY <2>1 DEF Stage
  <1>11. CASE Remap(i)
    <2>1. PICK left, table : tx' = [tx EXCEPT !.left = left, !.rows = table]
      BY <1>11 DEF Remap
    <2>2. /\ tx # None /\ tx.by = i
          /\ UNCHANGED <<at, index, folded, marked, schema, job>>
      BY <1>11 DEF Remap, serveVars
    <2>3. tx'.by = tx.by
      BY <2>1
    <2>4. QED
      BY <2>2, <2>3 DEF Stage
  <1>12. CASE CommitRemap(i)
    <2>1. /\ at[i] = "remap" /\ at' = [at EXCEPT ![i] = "settings"] /\ tx' = None /\ marked' = TRUE
          /\ UNCHANGED <<index, folded, schema, job>>
      BY <1>12 DEF CommitRemap, Goto, serveVars, Stage
    <2>2. at' \in [Instance -> {"down", "prices", "convert"} \cup Columns]
      BY <1>a, <2>1
    <2>3. QED
      BY <1>a, <2>1, <2>2 DEF Stage
  <1>13. CASE Serve(i)
    <2>1. /\ at[i] = "settings" /\ at' = [at EXCEPT ![i] = "serve"]
          /\ UNCHANGED <<index, folded, schema, marked, tx, job>>
      BY <1>13 DEF Serve, Goto, dbVars
    <2>2. at' \in [Instance -> {"down", "prices", "convert"} \cup Columns]
      BY <1>a, <2>1
    <2>3. QED
      BY <1>a, <2>1, <2>2 DEF Stage
  <1>14. CASE Fail(i)
    <2>0. UNCHANGED <<index, folded, schema, marked>>
      BY <1>14 DEF Fail
    <2>1. at' = [at EXCEPT ![i] = "down"] /\ job' = [job EXCEPT ![i] = None]
      BY <1>14 DEF Fail, Goto
    <2>2. /\ \A j \in Instance : j # i => at'[j] = at[j] /\ job'[j] = job[j]
          /\ DOMAIN job' = Instance
      BY <1>a, <2>1 DEF Stage
    <2>3. at'[i] = "down" /\ at' \in [Instance -> {"down", "prices", "convert"} \cup Columns]
      BY <1>a, <2>1
    <2>4. job'[i] = None
      BY <2>1 DEF Stage
    <2>5. tx' # None => tx' = tx /\ tx.by # i
      BY <1>14 DEF Fail
    <2>6. QED
      BY <2>0, <2>2, <2>3, <2>4, <2>5 DEF Stage
  <1>15. ASSUME at[i] = "serve", UNCHANGED <<at, index, folded, marked, schema, tx>>,
                \A j \in Instance : j # i /\ job'[j] # None => job[j] # None,
                DOMAIN job' = Instance
         PROVE  Stage'
    BY <1>15 DEF Stage
  <1>16. CASE Ask(i)
    BY <1>15, <1>16 DEF Ask, dbVars, Stage
  <1>17. CASE LookupExact(i) \/ LookupWildcard(i)
    <2>1. at[i] = "serve" /\ UNCHANGED <<at, dbVars>>
      BY <1>17 DEF LookupExact, LookupWildcard, Stage
    <2>2. PICK j : job' = [job EXCEPT ![i] = j]
      BY <1>17 DEF LookupExact, LookupWildcard, Charge, Finish
    <2>3. QED
      BY <1>15, <2>1, <2>2 DEF dbVars, Stage
  <1>18. CASE RecordConsumption(i)
    BY <1>15, <1>18 DEF RecordConsumption, Finish, Stage
  <1>19. CASE SetRule(i)
    <2>1. DOMAIN job' = Instance /\ \A j \in Instance : job[j] = None => job'[j] = None
      BY <1>19 DEF SetRule
    <2>2. QED
      BY <1>15, <1>19, <2>1 DEF SetRule
  <1>20. CASE \E who \in Loader : LoadPricing(i, who) \/ InstallPricing(i, who)
    BY <1>20 DEF LoadPricing, InstallPricing, Stage, dbVars
  <1>21. QED
    BY <1>1, <1>2, <1>3, <1>4, <1>5, <1>6, <1>7, <1>8, <1>9, <1>10, <1>11, <1>12, <1>13, <1>14,
       <1>16, <1>17, <1>18, <1>19, <1>20 DEF Step

LEMMA AlwaysStage == Spec => []Stage
  <1>1. Init => Stage
    BY DEF Init, Stage, Columns, Folding, Ingress
  <1>2. Stage /\ [Next]_vars => Stage'
    <2> SUFFICES ASSUME Stage, [Next]_vars PROVE Stage'
      OBVIOUS
    <2>1. CASE UNCHANGED vars
      BY <2>1 DEF vars, dbVars, serveVars, Stage
    <2>2. QED
      BY <2>1, Steps, StageKept, LedgerAssumption
  <1>3. QED
    BY <1>1, <1>2, PTL DEF Spec
------------------------------------------------------------------------------
(* Prices *)

\* A rule, a cached price and a price on its way to the cache is one that was set.
Book ==
  /\ rules \in [Priced -> Nat] /\ held \in [Priced -> SUBSET Nat]
  /\ schema = "k" => \A p \in Priced : held[p] = {1000 * rules[p]}
  /\ schema # "k" => \A p \in Priced : rules[p] \in held[p]
  /\ calc \in [Instance -> [Priced -> Nat]]
  /\ \A i \in Instance : \A p \in Priced : calc[i][p] = 0 \/ calc[i][p] \in held[p]
  /\ DOMAIN load = Instance
  /\ \A i \in Instance : \A who \in Loader :
       DOMAIN load[i] = Loader
       /\ (load[i][who] \notin {None, Saved} =>
             /\ load[i][who] \in [Priced -> Nat]
             /\ \A p \in Priced : load[i][who][p] = 0 \/ load[i][who][p] \in held[p])

LEMMA UnpricedType == Unpriced \in [Priced -> Nat] /\ \A p \in Priced : Unpriced[p] = 0
  BY DEF Unpriced

LEMMA InitBook == ASSUME LedgerAssumption, Init PROVE Book
  <1>1. rules \in [Priced -> Nat]
    BY DEF Init, LedgerAssumption
  <1>2. held = [p \in Priced |-> {IF schema = "k" THEN 1000 * rules[p] ELSE rules[p]}]
    BY DEF Init
  <1>3. held \in [Priced -> SUBSET Nat]
    <2>1. \A p \in Priced : 1000 * rules[p] \in Nat /\ rules[p] \in Nat
      BY <1>1
    <2>2. QED
      BY <1>2, <2>1
  <1>4. /\ schema = "k" => \A p \in Priced : held[p] = {1000 * rules[p]}
        /\ schema # "k" => \A p \in Priced : rules[p] \in held[p]
    BY <1>2
  <1>5. /\ calc = [i \in Instance |-> Unpriced] /\ load = [i \in Instance |-> Idle]
    BY DEF Init
  <1>6. \A i \in Instance : \A who \in Loader : DOMAIN load[i] = Loader /\ load[i][who] = None
    BY <1>5 DEF Idle
  <1>7. QED
    BY <1>1, <1>3, <1>4, <1>5, <1>6, UnpricedType DEF Book

LEMMA BookKept ==
  ASSUME LedgerAssumption, Stage, Book, NEW i \in Instance, Step(i)
  PROVE  Book'
  <1>a. ASSUME UNCHANGED <<rules, held, schema, calc, load>> PROVE Book'
    BY <1>a DEF Book
  <1>1. CASE \/ Launch(i) \/ InspectPrices(i) \/ InspectIndex(i) \/ CheckFold(i) \/ CheckIngress(i)
    BY <1>1, <1>a DEF Launch, InspectPrices, InspectIndex, CheckFold, CheckIngress, dbVars, serveVars
  <1>2. CASE RebuildIndex(i) \/ Fold(i) \/ BeginRemap(i) \/ Remap(i) \/ CommitRemap(i)
    BY <1>2, <1>a DEF RebuildIndex, Fold, BeginRemap, Remap, CommitRemap, serveVars
  <1>3. CASE Ask(i) \/ LookupExact(i) \/ LookupWildcard(i) \/ RecordConsumption(i)
    BY <1>3, <1>a DEF Ask, LookupExact, LookupWildcard, RecordConsumption, dbVars
  <1>4. CASE ConvertPrices(i)
    <2>1. UNCHANGED <<held, calc, load>>
      BY <1>4 DEF ConvertPrices, serveVars
    <2>2. CASE schema = "k"
      <3>1. schema' = "m" /\ rules' = [p \in Priced |-> 1000 * rules[p]]
        BY <1>4, <2>2 DEF ConvertPrices
      <3>2. \A p \in Priced : 1000 * rules[p] \in Nat
        BY DEF Book
      <3>3. rules' \in [Priced -> Nat] /\ \A p \in Priced : rules'[p] \in held[p]
        BY <2>2, <3>1, <3>2 DEF Book
      <3>4. QED
        BY <2>1, <3>1, <3>3 DEF Book
    <2>3. CASE schema # "k"
      BY <1>4, <1>a, <2>1, <2>3 DEF ConvertPrices
    <2>4. QED
      BY <2>2, <2>3
  <1>5. CASE AddColumns(i)
    <2>1. schema # "k"
      BY <1>5 DEF AddColumns, Stage, Columns
    <2>2. QED
      BY <1>5, <1>a, <2>1 DEF AddColumns, serveVars
  <1>6. CASE Serve(i)
    <2>1. schema # "k"
      BY <1>6 DEF Serve, Stage, Columns, Folding, Ingress
    <2>2. PICK prices \in {rules, Unpriced} : calc' = [calc EXCEPT ![i] = prices]
      BY <1>6 DEF Serve
    <2>3. prices \in [Priced -> Nat] /\ \A p \in Priced : prices[p] = 0 \/ prices[p] \in held[p]
      BY <2>1, UnpricedType DEF Book
    <2>4. UNCHANGED <<rules, held, schema, load>>
      BY <1>6 DEF Serve, dbVars
    <2>5. QED
      BY <2>2, <2>3, <2>4 DEF Book
  <1>7. CASE Fail(i)
    <2>1. /\ calc' = [calc EXCEPT ![i] = Unpriced] /\ load' = [load EXCEPT ![i] = Idle]
          /\ UNCHANGED <<rules, held, schema>>
      BY <1>7 DEF Fail
    <2>2. DOMAIN load' = Instance /\ load'[i] = Idle /\ \A j \in Instance \ {i} : load'[j] = load[j]
      BY <2>1 DEF Book
    <2>3. DOMAIN Idle = Loader /\ \A who \in Loader : Idle[who] = None
      BY DEF Idle
    <2>4. calc' \in [Instance -> [Priced -> Nat]]
      BY <2>1, UnpricedType DEF Book
    <2>5. calc'[i] = Unpriced /\ \A j \in Instance \ {i} : calc'[j] = calc[j]
      BY <2>1 DEF Book
    <2>6. QED
      BY <2>1, <2>2, <2>3, <2>4, <2>5, UnpricedType DEF Book
  <1>8. CASE SetRule(i)
    <2>1. PICK p \in Priced, rate \in Rates :
            /\ rules' = [rules EXCEPT ![p] = rate]
            /\ held' = [held EXCEPT ![p] = @ \cup {rate}]
      BY <1>8 DEF SetRule
    <2>2. rate \in Nat
      BY DEF LedgerAssumption
    <2>3. /\ load' = [load EXCEPT ![i].handler = Saved]
          /\ UNCHANGED <<schema, calc>> /\ schema # "k"
      BY <1>8 DEF SetRule, Stage, Columns, Folding, Ingress
    <2>4. /\ rules' \in [Priced -> Nat] /\ held' \in [Priced -> SUBSET Nat]
          /\ \A q \in Priced : rules'[q] \in held'[q] /\ held[q] \subseteq held'[q]
      BY <2>1, <2>2, <2>3 DEF Book
    <2>5. DOMAIN load' = Instance
      BY <2>3 DEF Book
    <2>6. \A j \in Instance : \A who \in Loader :
            DOMAIN load'[j] = Loader /\ (load'[j][who] = load[j][who] \/ load'[j][who] = Saved)
      BY <2>3 DEF Book
    <2>7. QED
      BY <2>3, <2>4, <2>5, <2>6 DEF Book
  <1>9. ASSUME NEW who \in Loader, LoadPricing(i, who) PROVE Book'
    <2>1. schema # "k"
      BY <1>9 DEF LoadPricing, Stage, Columns, Folding, Ingress
    <2>2. PICK read \in {rules, None} : load' = [load EXCEPT ![i][who] = read]
      BY <1>9 DEF LoadPricing
    <2>3. /\ DOMAIN load' = Instance
          /\ \A j \in Instance : \A w \in Loader :
               DOMAIN load'[j] = Loader /\ (load'[j][w] = load[j][w] \/ load'[j][w] = read)
      BY <2>2 DEF Book
    <2>4. UNCHANGED <<rules, held, schema, calc>>
      BY <1>9 DEF LoadPricing, dbVars
    <2>5. QED
      BY <2>1, <2>3, <2>4 DEF Book
  <1>10. ASSUME NEW who \in Loader, InstallPricing(i, who) PROVE Book'
    <2>1. /\ calc' = [calc EXCEPT ![i] = load[i][who]] /\ load' = [load EXCEPT ![i][who] = None]
          /\ load[i][who] \notin {None, Saved} /\ UNCHANGED <<rules, held, schema>>
      BY <1>10 DEF InstallPricing, dbVars
    <2>2. /\ DOMAIN load' = Instance
          /\ \A j \in Instance : \A w \in Loader :
               DOMAIN load'[j] = Loader /\ (load'[j][w] = load[j][w] \/ load'[j][w] = None)
      BY <2>1 DEF Book
    <2>3. load[i][who] \in [Priced -> Nat]
          /\ \A p \in Priced : load[i][who][p] = 0 \/ load[i][who][p] \in held[p]
      BY <2>1 DEF Book
    <2>4. /\ calc' \in [Instance -> [Priced -> Nat]]
          /\ \A j \in Instance : \A p \in Priced : calc'[j][p] = 0 \/ calc'[j][p] \in held[p]
      BY <2>1, <2>3 DEF Book
    <2>5. QED
      BY <2>1, <2>2, <2>4 DEF Book
  <1>11. QED
    BY <1>1, <1>2, <1>3, <1>4, <1>5, <1>6, <1>7, <1>8, <1>9, <1>10 DEF Step

LEMMA AlwaysBook == Spec => []Book
  <1>1. Init => Book
    BY InitBook, LedgerAssumption
  <1>2. Stage /\ Book /\ [Next]_vars => Book'
    <2> SUFFICES ASSUME Stage, Book, [Next]_vars PROVE Book'
      OBVIOUS
    <2>1. CASE UNCHANGED vars
      BY <2>1 DEF vars, dbVars, serveVars, Book
    <2>2. QED
      BY <2>1, Steps, BookKept, LedgerAssumption
  <1>3. QED
    BY <1>1, <1>2, AlwaysStage, PTL DEF Spec

\* A request whose model lost its rule is free, and one that is priced has a price
\* its model had.
Fair(request) ==
  LET target == request.route.target IN
  /\ rules[target] = 0 => request.free
  /\ request.step = "wildcard" => request.free
  /\ request.step = "record" => request.free \/ request.price \in held[target] \ {0}

Request == [slot : Slot, route : Routes, step : {"exact", "wildcard", "record"}, price : Nat,
            free : BOOLEAN]

Requests ==
  /\ DOMAIN job = Instance
  /\ \A i \in Instance : job[i] # None => job[i] \in Request /\ Fair(job[i])

LEMMA RequestsKept ==
  ASSUME LedgerAssumption, Stage, Book, Requests, NEW i \in Instance, Step(i)
  PROVE  Requests'
  <1>a. ASSUME UNCHANGED <<job, rules, held>> PROVE Requests'
    BY <1>a DEF Requests, Fair
  <1>b. ASSUME UNCHANGED <<rules, held>>, DOMAIN job' = Instance,
               \A j \in Instance \ {i} : job'[j] = job[j],
               job'[i] # None => job'[i] \in Request /\ Fair(job'[i])
        PROVE  Requests'
    BY <1>b DEF Requests, Fair
  <1>c. \A route \in Routes : route.target \in Priced
    BY DEF LedgerAssumption, Priced
  <1>1. CASE \/ Launch(i) \/ InspectPrices(i) \/ InspectIndex(i) \/ CheckFold(i) \/ CheckIngress(i)
    BY <1>1, <1>a DEF Launch, InspectPrices, InspectIndex, CheckFold, CheckIngress, dbVars, serveVars
  <1>2. CASE RebuildIndex(i) \/ Fold(i) \/ BeginRemap(i) \/ Remap(i) \/ CommitRemap(i)
    BY <1>2, <1>a DEF RebuildIndex, Fold, BeginRemap, Remap, CommitRemap, serveVars
  <1>3. CASE Serve(i) \/ \E who \in Loader : LoadPricing(i, who) \/ InstallPricing(i, who)
    BY <1>3, <1>a DEF Serve, LoadPricing, InstallPricing, dbVars
  \* Prices are converted before anybody serves.
  <1>4. CASE ConvertPrices(i) \/ AddColumns(i)
    <2>1. CASE schema = "k"
      <3>1. \A j \in Instance : job[j] = None
        BY <2>1 DEF Stage, Columns, Folding, Ingress
      <3>2. job' = job
        BY <1>4 DEF ConvertPrices, AddColumns, serveVars
      <3>3. QED
        BY <3>1, <3>2 DEF Requests
    <2>2. CASE schema # "k"
      BY <1>4, <1>a, <2>2 DEF ConvertPrices, AddColumns, serveVars
    <2>3. QED
      BY <2>1, <2>2
  <1>5. CASE Fail(i)
    <2>1. job' = [job EXCEPT ![i] = None] /\ UNCHANGED <<rules, held>>
      BY <1>5 DEF Fail
    <2>2. QED
      BY <1>b, <2>1 DEF Requests
  <1>6. CASE Ask(i)
    <2>1. PICK slot \in Slot, route \in Routes :
            job' = [job EXCEPT ![i] = [slot |-> slot, route |-> route, step |-> "exact", price |-> 0,
                                       free |-> rules[route.target] = 0]]
      BY <1>6 DEF Ask
    <2> DEFINE free == rules[route.target] = 0
               request == [slot |-> slot, route |-> route, step |-> "exact", price |-> 0, free |-> free]
    <2>2. request \in Request
      BY DEF Request
    <2>3. /\ request.route = route /\ request.step = "exact"
          /\ rules[route.target] = 0 => request.free
      OBVIOUS
    <2>4. job'[i] = request /\ DOMAIN job' = Instance /\ \A j \in Instance \ {i} : job'[j] = job[j]
      BY <2>1 DEF Requests
    <2> HIDE DEF request
    <2>5. UNCHANGED <<rules, held>>
      BY <1>6 DEF Ask, dbVars
    <2>6. Fair(request)
      BY <2>3, <2>5 DEF Fair
    <2>7. QED
      BY <1>b, <2>2, <2>4, <2>5, <2>6 DEF Fair
  <1>7. CASE LookupExact(i) \/ LookupWildcard(i)
    <2>1. job[i] # None /\ job[i] \in Request /\ Fair(job[i]) /\ UNCHANGED <<rules, held>>
      BY <1>7 DEF LookupExact, LookupWildcard, Requests, dbVars
    <2> DEFINE target == job[i].route.target
    <2>2. target \in Priced /\ Wildcard \in Priced
      BY <1>c, <2>1 DEF Request, Priced
    <2>3. /\ rules[target] \in Nat /\ rules[Wildcard] \in Nat
          /\ calc[i][target] \in Nat /\ calc[i][Wildcard] \in Nat
          /\ rules[target] \in held[target]
          /\ calc[i][target] # 0 => calc[i][target] \in held[target]
      <3>1. schema # "k"
        BY <1>7, <2>1 DEF Stage, Columns, Folding, Ingress
      <3>2. QED
        BY <2>2, <3>1 DEF Book
    <2>4. ASSUME NEW price \in Nat, Charge(i, price),
                 job[i].free \/ price \in held[target] \ {0}
          PROVE  Requests'
      <3> DEFINE request == [job[i] EXCEPT !.price = price, !.step = "record"]
      <3>1. job' = [job EXCEPT ![i] = request]
        BY <2>4 DEF Charge
      <3>2. request \in Request
        BY <2>1 DEF Request
      <3>3. /\ request.route = job[i].route /\ request.step = "record" /\ request.price = price
            /\ request.free = job[i].free
        BY <2>1 DEF Request
      <3> HIDE DEF request
      <3>4. Fair(request)
        BY <2>1, <2>4, <3>3 DEF Fair
      <3>5. job'[i] = request /\ DOMAIN job' = Instance /\ \A j \in Instance \ {i} : job'[j] = job[j]
        BY <3>1 DEF Requests
      <3>6. QED
        BY <1>b, <2>1, <3>2, <3>4, <3>5 DEF Fair
    <2>5. ASSUME job' = [job EXCEPT ![i].step = "wildcard"], rules[target] = 0
          PROVE  Requests'
      <3> DEFINE request == [job[i] EXCEPT !.step = "wildcard"]
      <3>1. job' = [job EXCEPT ![i] = request]
        BY <2>5
      <3>2. request \in Request
        BY <2>1 DEF Request
      <3>3. /\ request.route = job[i].route /\ request.step = "wildcard"
            /\ request.free = job[i].free
        BY <2>1 DEF Request
      <3> HIDE DEF request
      <3>4. Fair(request)
        BY <2>1, <2>5, <3>3 DEF Fair
      <3>5. job'[i] = request /\ DOMAIN job' = Instance /\ \A j \in Instance \ {i} : job'[j] = job[j]
        BY <3>1 DEF Requests
      <3>6. QED
        BY <1>b, <2>1, <3>2, <3>4, <3>5 DEF Fair
    <2>6. ASSUME Finish(i) PROVE Requests'
      BY <1>b, <2>1, <2>6 DEF Finish, Requests
    <2>7. CASE LookupExact(i)
      <3>1. \/ rules[target] # 0 /\ Charge(i, rules[target])
            \/ rules[target] = 0 /\ job' = [job EXCEPT ![i].step = "wildcard"]
            \/ calc[i][target] # 0 /\ Charge(i, calc[i][target])
            \/ Finish(i)
        BY <2>7 DEF LookupExact
      <3> HIDE DEF target
      <3>2. QED
        BY <2>3, <2>4, <2>5, <2>6, <3>1
    <2>8. CASE LookupWildcard(i)
      <3>1. job[i].free
        BY <2>1, <2>8 DEF LookupWildcard, Fair
      <3>2. \/ Charge(i, rules[Wildcard]) \/ Charge(i, calc[i][target]) \/ Charge(i, calc[i][Wildcard])
        BY <2>8 DEF LookupWildcard
      <3> HIDE DEF target
      <3>3. QED
        BY <2>3, <2>4, <3>1, <3>2
    <2>9. QED
      BY <1>7, <2>7, <2>8
  <1>8. CASE RecordConsumption(i)
    <2>1. job' = [job EXCEPT ![i] = None] /\ UNCHANGED <<rules, held>>
      BY <1>8 DEF RecordConsumption, Finish
    <2>2. QED
      BY <1>b, <2>1 DEF Requests
  <1>9. CASE SetRule(i)
    <2>1. PICK p \in Priced, rate \in Rates :
            /\ rules' = [rules EXCEPT ![p] = rate]
            /\ held' = [held EXCEPT ![p] = @ \cup {rate}]
            /\ job' = [j \in Instance |->
                 IF job[j] # None /\ job[j].route.target = p
                 THEN [job[j] EXCEPT !.free = @ \/ rate = 0] ELSE job[j]]
      BY <1>9 DEF SetRule
    <2>2. \A q \in Priced : /\ held[q] \subseteq held'[q]
                            /\ q # p => rules'[q] = rules[q]
                            /\ rules'[p] = rate
      BY <2>1 DEF Book
    <2>3. ASSUME NEW j \in Instance, job'[j] # None
          PROVE  /\ job'[j] \in Request
                 /\ job'[j].route = job[j].route /\ job'[j].step = job[j].step
                 /\ job'[j].price = job[j].price /\ job[j] \in Request /\ Fair(job[j])
                 /\ job[j].free => job'[j].free
                 /\ job[j].route.target = p /\ rate = 0 => job'[j].free
      <3>1. job[j] # None
        BY <2>1, <2>3
      <3>2. job[j] \in Request /\ Fair(job[j])
        BY <3>1 DEF Requests
      <3>3. CASE job[j].route.target = p
        <4> DEFINE free == job[j].free \/ rate = 0
        <4>1. job'[j] = [job[j] EXCEPT !.free = free]
          BY <2>1, <3>1, <3>3
        <4>2. free \in BOOLEAN
          OBVIOUS
        <4>3. (job[j].free => free) /\ (rate = 0 => free)
          OBVIOUS
        <4> HIDE DEF free
        <4>4. /\ job'[j] \in Request /\ job'[j].free = free
              /\ job'[j].route = job[j].route /\ job'[j].step = job[j].step
              /\ job'[j].price = job[j].price
          BY <3>2, <4>1, <4>2 DEF Request
        <4>5. QED
          BY <3>2, <4>3, <4>4
      <3>4. CASE job[j].route.target # p
        <4>1. job'[j] = job[j]
          BY <2>1, <3>4
        <4>2. QED
          BY <3>2, <3>4, <4>1
      <3>5. QED
        BY <3>3, <3>4
    <2>4. ASSUME NEW j \in Instance, job'[j] # None
          PROVE  job'[j] \in Request /\ (Fair(job[j]))'
      <3> DEFINE target == job[j].route.target
      <3>1. target \in Priced
        BY <1>c, <2>3, <2>4 DEF Request
      <3>2. rules'[target] = 0 => job'[j].free
        <4>1. CASE target = p
          BY <2>2, <2>3, <2>4, <4>1
        <4>2. CASE target # p
          <5>1. rules'[target] = rules[target]
            BY <2>2, <3>1, <4>2
          <5>2. QED
            BY <2>3, <2>4, <5>1 DEF Fair
        <4>3. QED
          BY <4>1, <4>2
      <3>3. held[target] \subseteq held'[target]
        BY <2>2, <3>1
      <3>4. QED
        BY <2>3, <2>4, <3>2, <3>3 DEF Fair
    <2>5. DOMAIN job' = Instance
      BY <2>1
    <2>6. QED
      BY <2>4, <2>5 DEF Requests, Fair
  <1>10. QED
    BY <1>1, <1>2, <1>3, <1>4, <1>5, <1>6, <1>7, <1>8, <1>9 DEF Step

LEMMA AlwaysRequests == Spec => []Requests
  <1>1. Init => Requests
    BY DEF Init, Requests
  <1>2. Stage /\ Book /\ Requests /\ [Next]_vars => Requests'
    <2> SUFFICES ASSUME Stage, Book, Requests, [Next]_vars PROVE Requests'
      OBVIOUS
    <2>1. CASE UNCHANGED vars
      BY <2>1 DEF vars, dbVars, serveVars, Requests, Fair
    <2>2. QED
      BY <2>1, Steps, RequestsKept, LedgerAssumption
  <1>3. QED
    BY <1>1, <1>2, AlwaysStage, AlwaysBook, PTL DEF Spec

\* No failed lookup makes a request cheaper, for any processes and prices.
THEOREM NeverUnderbilledAlways == Spec => NeverUnderbilled
  <1> DEFINE Priced1 ==
        \A i \in Instance :
          RecordConsumption(i) => job[i].free \/ job[i].price \in held[job[i].route.target] \ {0}
  <1>1. Requests /\ [Next]_vars => Priced1
    BY DEF Requests, Fair, RecordConsumption
  <1>2. QED
    BY <1>1, AlwaysRequests, PTL DEF Spec, NeverUnderbilled
------------------------------------------------------------------------------
(* Names *)

LEMMA AskedGroup ==
  ASSUME NEW slot \in Slot, NEW g \in Group PROVE Asked(slot, g) = g
  BY DEF Asked

LEMMA AskedPending ==
  ASSUME NEW slot \in Slot, NEW m \in Remaps, m.provider = ProviderOf[slot]
  PROVE  /\ Asked(slot, m.target) = m.group
         /\ m.target \in Name \ Group /\ m.group \in Group
  <1>1. /\ m.target \in Target \ Group /\ m.group \in Group
        /\ GroupsOf(ProviderOf[slot], m.target) = {m.group}
    BY DEF Remaps
  <1>2. \A g \in Group : GroupsOf(ProviderOf[slot], m.target) = {g} => g = m.group
    BY <1>1
  <1>3. QED
    BY <1>1, <1>2 DEF Asked, Name

LEMMA AskedSettled ==
  ASSUME NEW slot \in Slot, NEW name \in Name,
         ~\E m \in Remaps : m.provider = ProviderOf[slot] /\ m.target = name
  PROVE  Asked(slot, name) = name
  <1>1. ASSUME name \notin Group, NEW g \in Group, GroupsOf(ProviderOf[slot], name) = {g}
        PROVE  FALSE
    <2>1. PICK route \in Routes : route.target = name /\ ProviderOf[slot] \in {route.provider, Nobody}
      BY <1>1 DEF GroupsOf
    <2> DEFINE m == [provider |-> ProviderOf[slot], target |-> name, group |-> g]
    <2>2. m \in Remaps
      BY <1>1, <2>1 DEF Remaps, Name
    <2>3. m.provider = ProviderOf[slot] /\ m.target = name
      OBVIOUS
    <2>4. QED
      BY <2>2, <2>3
  <1>2. QED
    BY <1>1 DEF Asked
------------------------------------------------------------------------------
(* Rows *)

Table == [Slot -> [Name -> Row]]
Transaction == [by : Instance, left : SUBSET Remaps, rows : Table]

\* The input tokens of a table whose cached tokens are folded in, or are not.
Tokens(table, in) ==
  \A slot \in Slot : \A n \in Name :
    ProviderOf[slot] # Nobody =>
      /\ in \/ slot \notin Anthropic => table[slot][n].input = 2 * table[slot][n].requests
      /\ ~in /\ slot \in Anthropic => table[slot][n].input = table[slot][n].requests

\* What an older build left of a slot, by the name it stands under now.
Lone(table, slot, name) ==
  /\ table[slot][name].requests = 1
  /\ \A n \in Name \ {name} : table[slot][n] = Empty
  /\ \A n \in Name : said[slot][n] = IF n = Asked(slot, name) THEN 1 ELSE 0

\* Nothing is left under a name that a remapping would change.
Settled(table) ==
  \A slot \in Slot : \A m \in Remaps :
    m.provider = ProviderOf[slot] => table[slot][m.target] = Empty

Types == rows \in Table /\ said \in [Slot -> [Name -> Nat]] /\ (tx # None => tx \in Transaction)

Counted == Tokens(rows, folded) /\ (tx # None => Tokens(tx.rows, TRUE))

\* Before the marker a slot is as it was; a transaction has renamed it or will.
Unmarked ==
  ~marked =>
    /\ \A slot \in Slot : \E name \in Name : Lone(rows, slot, name)
    /\ tx # None =>
         \A slot \in Slot : \E name \in Name :
           /\ Lone(tx.rows, slot, name)
           /\ \A m \in Remaps : m.provider = ProviderOf[slot] /\ m.target = name => m \in tx.left

\* After it rows are by the model asked for; a second remapping finds nothing to do.
Marked ==
  marked =>
    /\ \A slot \in Slot : \A n \in Name : rows[slot][n].requests = said[slot][n]
    /\ (\E i \in Instance : at[i] = "remap") => Settled(rows)
    /\ tx # None => tx.rows = rows

Kept == Types /\ Counted /\ Unmarked /\ Marked

LEMMA EmptyRow == Empty \in Row /\ Empty.requests = 0 /\ Empty.input = 0
  BY DEF Empty, Row

LEMMA FoldedRow ==
  ASSUME NEW slot \in Slot, NEW row \in Row
  PROVE  /\ Folded(slot, row) \in Row
         /\ Folded(slot, row).requests = row.requests
         /\ row = Empty => Folded(slot, row) = Empty
         /\ ProviderOf[slot] # Nobody =>
              /\ slot \in Anthropic => Folded(slot, row).input = row.input + row.requests
              /\ slot \notin Anthropic => Folded(slot, row).input = row.input
  <1>1. CASE slot \in Anthropic /\ ProviderOf[slot] # Nobody
    <2> DEFINE n == row.input + row.requests
    <2>1. n \in Nat
      BY DEF Row
    <2>2. Folded(slot, row) = [row EXCEPT !.input = n]
      BY <1>1 DEF Folded
    <2>3. row = Empty => n = 0
      BY EmptyRow
    <2> HIDE DEF n
    <2>4. Folded(slot, row) \in Row /\ Folded(slot, row).requests = row.requests /\ Folded(slot, row).input = n
      BY <2>1, <2>2 DEF Row
    <2>5. row = Empty => Folded(slot, row) = Empty
      BY <2>2, <2>3 DEF Empty
    <2>6. QED
      BY <1>1, <2>4, <2>5 DEF n
  <1>2. CASE ~(slot \in Anthropic /\ ProviderOf[slot] # Nobody)
    BY <1>2 DEF Folded
  <1>3. QED
    BY <1>1, <1>2

\* Of one slot: what a remapping makes of its line.
LEMMA RemappedLine ==
  ASSUME NEW table \in Table, NEW m \in Remaps
  PROVE  /\ Remapped(m, table) \in Table
         /\ \A slot \in Slot :
              /\ ProviderOf[slot] # m.provider => Remapped(m, table)[slot] = table[slot]
              /\ ProviderOf[slot] = m.provider =>
                   /\ Remapped(m, table)[slot][m.target] = Empty
                   /\ Remapped(m, table)[slot][m.group] =
                        IF table[slot][m.target] = Empty THEN table[slot][m.group]
                        ELSE table[slot][m.target]
                   /\ \A n \in Name \ {m.target, m.group} :
                        Remapped(m, table)[slot][n] = table[slot][n]
  <1>1. m.target \in Name /\ m.group \in Name /\ m.target # m.group
    BY DEF Remaps, Name
  <1>2. ASSUME NEW slot \in Slot
        PROVE  /\ Remapped(m, table)[slot] \in [Name -> Row]
               /\ ProviderOf[slot] # m.provider => Remapped(m, table)[slot] = table[slot]
               /\ ProviderOf[slot] = m.provider =>
                    /\ Remapped(m, table)[slot][m.target] = Empty
                    /\ Remapped(m, table)[slot][m.group] =
                         IF table[slot][m.target] = Empty THEN table[slot][m.group]
                         ELSE table[slot][m.target]
                    /\ \A n \in Name \ {m.target, m.group} :
                         Remapped(m, table)[slot][n] = table[slot][n]
    <2> DEFINE line == table[slot]
               row == IF line[m.target] = Empty THEN line[m.group] ELSE line[m.target]
    <2>1. line \in [Name -> Row] /\ row \in Row
      BY <1>1 DEF Table
    <2>2. CASE ProviderOf[slot] # m.provider
      BY <2>1, <2>2 DEF Remapped
    <2>3. CASE ProviderOf[slot] = m.provider
      <3>1. Remapped(m, table)[slot] = [line EXCEPT ![m.target] = Empty, ![m.group] = row]
        BY <1>1, <2>1, <2>3 DEF Remapped
      <3> DEFINE r == row
      <3> HIDE DEF row
      <3>2. QED
        BY <1>1, <2>1, <2>3, <3>1, EmptyRow DEF row
    <2>4. QED
      BY <2>2, <2>3
  <1>3. Remapped(m, table) \in Table
    BY <1>2 DEF Remapped, Table
  <1>4. QED
    BY <1>2, <1>3

LEMMA InitKept == ASSUME LedgerAssumption, Init PROVE Kept
  <1>1. PICK name \in [Slot -> UNION {Legacy[slot] : slot \in Slot}] :
          /\ \A slot \in Slot : name[slot] \in Legacy[slot]
          /\ rows = [slot \in Slot |-> [n \in Name |->
               IF n # name[slot] THEN Empty
               ELSE IF folded THEN Folded(slot, [requests |-> 1, input |-> PromptTokens(slot)])
               ELSE [requests |-> 1, input |-> PromptTokens(slot)]]]
          /\ said = [slot \in Slot |-> [n \in Name |->
               IF n = (IF marked THEN name[slot] ELSE Asked(slot, name[slot])) THEN 1 ELSE 0]]
    BY DEF Init
  <1>2. tx = None /\ \A i \in Instance : at[i] = "down"
    BY DEF Init
  <1>3. ASSUME NEW slot \in Slot
        PROVE  /\ name[slot] \in Name
               /\ rows[slot] \in [Name -> Row]
               /\ rows[slot][name[slot]].requests = 1
               /\ \A n \in Name \ {name[slot]} : rows[slot][n] = Empty
               /\ ProviderOf[slot] # Nobody =>
                    /\ folded \/ slot \notin Anthropic => rows[slot][name[slot]].input = 2
                    /\ ~folded /\ slot \in Anthropic => rows[slot][name[slot]].input = 1
    <2> DEFINE row == [requests |-> 1, input |-> PromptTokens(slot)]
    <2>1. name[slot] \in Name
      BY <1>1 DEF LedgerAssumption
    <2>2. /\ row \in Row /\ row.requests = 1
          /\ slot \in Anthropic => row.input = 1
          /\ slot \notin Anthropic => row.input = 2
      BY DEF PromptTokens, Row
    <2>3. \A n \in Name : rows[slot][n] =
            IF n # name[slot] THEN Empty ELSE IF folded THEN Folded(slot, row) ELSE row
      BY <1>1
    <2>4. rows[slot] = [n \in Name |->
            IF n # name[slot] THEN Empty ELSE IF folded THEN Folded(slot, row) ELSE row]
      BY <1>1
    <2> HIDE DEF row
    <2>5. /\ Folded(slot, row) \in Row /\ Folded(slot, row).requests = 1
          /\ ProviderOf[slot] # Nobody => Folded(slot, row).input = 2
      BY <2>2, FoldedRow
    <2>6. QED
      BY <2>1, <2>2, <2>3, <2>4, <2>5, EmptyRow
  <1>4. \A slot \in Slot : \A n \in Name :
          said[slot][n] = IF n = (IF marked THEN name[slot] ELSE Asked(slot, name[slot])) THEN 1 ELSE 0
    BY <1>1
  <1>5. Types
    <2>1. rows \in Table
      <3>1. rows = [slot \in Slot |-> rows[slot]]
        BY <1>1
      <3>2. QED
        BY <1>3, <3>1 DEF Table
    <2>2. said \in [Slot -> [Name -> Nat]]
      BY <1>1
    <2>3. QED
      BY <1>2, <2>1, <2>2 DEF Types
  <1>6. Counted
    BY <1>2, <1>3, EmptyRow DEF Counted, Tokens
  <1>7. Unmarked
    BY <1>2, <1>3, <1>4 DEF Unmarked, Lone
  <1>8. Marked
    <2>1. marked => \A slot \in Slot : \A n \in Name : rows[slot][n].requests = said[slot][n]
      BY <1>3, <1>4, EmptyRow
    <2>2. QED
      BY <1>2, <2>1 DEF Marked
  <1>9. QED
    BY <1>5, <1>6, <1>7, <1>8 DEF Kept

\* Of a slot in a transaction that has yet to set the marker.
Renaming(table, left, slot) ==
  \E name \in Name :
    /\ Lone(table, slot, name)
    /\ \A m \in Remaps : m.provider = ProviderOf[slot] /\ m.target = name => m \in left

\* A step that writes no consumption, and comes to a remapping only without the marker.
LEMMA KeptFrame ==
  ASSUME Kept, UNCHANGED <<rows, said, folded, marked>>, tx' = tx \/ tx' = None,
         \A j \in Instance : at'[j] = "remap" => at[j] = "remap" \/ ~marked
  PROVE  Kept'
  <1>1. Types'
    BY DEF Kept, Types, Table, Transaction, Row
  <1>2. Counted'
    BY DEF Kept, Counted, Tokens
  <1>3. Unmarked'
    <2>1. ASSUME NEW slot \in Slot, NEW name \in Name PROVE Lone(rows, slot, name) => Lone(rows, slot, name)'
      BY DEF Lone, Asked
    <2>2. CASE tx' = None
      BY <2>1, <2>2 DEF Kept, Unmarked
    <2>3. CASE tx' = tx
      <3>1. ASSUME NEW slot \in Slot, NEW name \in Name
            PROVE  Lone(tx.rows, slot, name) => Lone(tx.rows, slot, name)'
        BY <2>3 DEF Lone, Asked
      <3>2. QED
        BY <2>1, <2>3, <3>1 DEF Kept, Unmarked
    <2>4. QED
      BY <2>2, <2>3
  <1>4. Marked'
    BY DEF Kept, Marked, Settled
  <1>5. QED
    BY <1>1, <1>2, <1>3, <1>4 DEF Kept

LEMMA FoldKept ==
  ASSUME Stage, Kept, NEW i \in Instance, Fold(i)
  PROVE  Kept'
  <1>1. CASE folded
    <2>1. UNCHANGED <<rows, said, folded, marked, tx>> /\ Goto(i, "down")
      BY <1>1 DEF Fold, serveVars
    <2>2. \A j \in Instance : at'[j] = "remap" => at[j] = "remap"
      BY <2>1 DEF Goto, Stage
    <2>3. QED
      BY <2>1, <2>2, KeptFrame
  <1>2. CASE ~folded
    <2>1. /\ tx = None /\ tx' = None /\ UNCHANGED <<said, marked>> /\ folded' = TRUE
          /\ rows' = FoldRows /\ Goto(i, "ingress")
      BY <1>2 DEF Fold, serveVars
    <2>2. \A j \in Instance : at'[j] = "remap" => at[j] = "remap"
      BY <2>1 DEF Goto, Stage
    <2>3. ASSUME NEW slot \in Slot, NEW n \in Name
          PROVE  /\ rows[slot][n] \in Row
                 /\ rows'[slot][n] = Folded(slot, rows[slot][n])
      BY <2>1 DEF Kept, Types, Table, FoldRows
    <2>4. ASSUME NEW slot \in Slot, NEW n \in Name
          PROVE  /\ rows'[slot][n] \in Row
                 /\ rows'[slot][n].requests = rows[slot][n].requests
                 /\ rows[slot][n] = Empty => rows'[slot][n] = Empty
                 /\ ProviderOf[slot] # Nobody =>
                      /\ slot \in Anthropic =>
                           rows'[slot][n].input = rows[slot][n].input + rows[slot][n].requests
                      /\ slot \notin Anthropic => rows'[slot][n].input = rows[slot][n].input
      <3> DEFINE row == rows[slot][n]
      <3>1. row \in Row /\ rows'[slot][n] = Folded(slot, row)
        BY <2>3
      <3> HIDE DEF row
      <3>2. QED
        BY <3>1, FoldedRow DEF row
    <2>5. Types'
      <3>1. rows' = [slot \in Slot |-> [n \in Name |-> rows'[slot][n]]]
        BY <2>1, <2>3 DEF FoldRows
      <3>2. rows' \in Table
        BY <2>4, <3>1 DEF Table
      <3>3. QED
        BY <2>1, <3>2 DEF Kept, Types
    <2>6. Counted'
      <3>1. ASSUME NEW slot \in Slot, NEW n \in Name, ProviderOf[slot] # Nobody
            PROVE  rows'[slot][n].input = 2 * rows'[slot][n].requests
        <4>1. /\ slot \notin Anthropic => rows[slot][n].input = 2 * rows[slot][n].requests
              /\ slot \in Anthropic => rows[slot][n].input = rows[slot][n].requests
          BY <1>2, <3>1 DEF Kept, Counted, Tokens
        <4>2. rows[slot][n].requests \in Nat
          BY <2>3 DEF Row
        <4>3. QED
          BY <2>4, <3>1, <4>1, <4>2
      <3>2. QED
        BY <2>1, <3>1 DEF Counted, Tokens
    <2>7. Unmarked'
      <3>1. ASSUME NEW slot \in Slot, NEW name \in Name, Lone(rows, slot, name)
            PROVE  Lone(rows, slot, name)'
        BY <2>1, <2>4, <3>1 DEF Lone, Asked
      <3>2. QED
        BY <2>1, <3>1 DEF Kept, Unmarked
    <2>8. Marked'
      <3>1. marked => \A slot \in Slot : \A n \in Name : rows'[slot][n].requests = said'[slot][n]
        BY <2>1, <2>4 DEF Kept, Marked
      <3>2. Settled(rows) => Settled(rows)'
        BY <2>4 DEF Settled, Remaps, Name
      <3>3. QED
        BY <2>1, <2>2, <3>1, <3>2 DEF Kept, Marked
    <2>9. QED
      BY <2>5, <2>6, <2>7, <2>8 DEF Kept
  <1>3. QED
    BY <1>1, <1>2

LEMMA BeginKept ==
  ASSUME Stage, Kept, NEW i \in Instance, BeginRemap(i)
  PROVE  Kept'
  <1>1. /\ tx' = [by |-> i, left |-> Remaps, rows |-> rows]
        /\ at[i] = "remap" /\ UNCHANGED <<at, rows, said, folded, marked>>
    BY DEF BeginRemap, serveVars
  <1>2. folded
    BY <1>1 DEF Stage, Ingress
  <1>3. tx'.left = Remaps /\ tx'.rows = rows
    BY <1>1
  <1>4. Types'
    BY <1>1 DEF Kept, Types, Transaction
  <1>5. Counted'
    BY <1>1, <1>2, <1>3 DEF Kept, Counted, Tokens
  <1>6. Unmarked'
    BY <1>1, <1>3 DEF Kept, Unmarked, Lone, Asked
  <1>7. Marked'
    BY <1>1, <1>3 DEF Kept, Marked, Settled
  <1>8. QED
    BY <1>4, <1>5, <1>6, <1>7 DEF Kept

\* One UPDATE, on a slot as an older build left it.
LEMMA RemapLone ==
  ASSUME NEW table \in Table, NEW left \in SUBSET Remaps, NEW m \in Remaps, NEW slot \in Slot,
         Renaming(table, left, slot)
  PROVE  Renaming(Remapped(m, table), left \ {m}, slot)
  <1> DEFINE new == Remapped(m, table)
  <1>1. PICK name \in Name :
          /\ Lone(table, slot, name)
          /\ \A o \in Remaps : o.provider = ProviderOf[slot] /\ o.target = name => o \in left
    BY DEF Renaming
  <1>2. /\ ProviderOf[slot] # m.provider => new[slot] = table[slot]
        /\ ProviderOf[slot] = m.provider =>
             /\ new[slot][m.target] = Empty
             /\ new[slot][m.group] =
                  IF table[slot][m.target] = Empty THEN table[slot][m.group] ELSE table[slot][m.target]
             /\ \A n \in Name \ {m.target, m.group} : new[slot][n] = table[slot][n]
    BY RemappedLine
  <1> HIDE DEF new
  <1>3. CASE m.provider = ProviderOf[slot] /\ m.target = name
    <2>1. Asked(slot, name) = m.group /\ m.group \in Group /\ m.target \in Name \ Group
      BY <1>3, AskedPending
    <2>2. m.group \in Name /\ Asked(slot, m.group) = m.group
      BY <2>1, AskedGroup DEF Name
    <2>3. table[slot][name] # Empty
      BY <1>1, EmptyRow DEF Lone
    <2>4. new[slot][m.group].requests = 1
      BY <1>1, <1>2, <1>3, <2>3 DEF Lone
    <2>5. \A n \in Name \ {m.group} : new[slot][n] = Empty
      BY <1>1, <1>2, <1>3 DEF Lone
    <2>6. Lone(new, slot, m.group)
      BY <1>1, <2>1, <2>2, <2>4, <2>5 DEF Lone
    <2>7. \A o \in Remaps : o.target # m.group
      BY <2>1 DEF Remaps
    <2>8. QED
      BY <2>2, <2>6, <2>7 DEF Renaming, new
  <1>4. CASE ~(m.provider = ProviderOf[slot] /\ m.target = name)
    <2>1. \A n \in Name : new[slot][n] = table[slot][n]
      <3>1. CASE ProviderOf[slot] # m.provider
        BY <1>2, <3>1
      <3>2. CASE ProviderOf[slot] = m.provider
        <4>1. m.target \in Name
          BY DEF Remaps, Name
        <4>2. table[slot][m.target] = Empty
          BY <1>1, <1>4, <3>2, <4>1 DEF Lone
        <4>3. QED
          BY <1>2, <3>2, <4>2
      <3>3. QED
        BY <3>1, <3>2
    <2>2. Lone(new, slot, name)
      BY <1>1, <2>1 DEF Lone
    <2>3. \A o \in Remaps : o.provider = ProviderOf[slot] /\ o.target = name => o \in left \ {m}
      BY <1>1, <1>4
    <2>4. QED
      BY <2>2, <2>3 DEF Renaming, new
  <1>5. QED
    BY <1>3, <1>4

\* One UPDATE moves whole rows, or none.
LEMMA RemapTokens ==
  ASSUME NEW table \in Table, NEW m \in Remaps, Tokens(table, TRUE)
  PROVE  Tokens(Remapped(m, table), TRUE)
  <1>1. ASSUME NEW slot \in Slot, NEW n \in Name
        PROVE  \/ Remapped(m, table)[slot][n] = Empty
               \/ \E o \in Name : Remapped(m, table)[slot][n] = table[slot][o]
    <2>1. m.target \in Name /\ m.group \in Name
      BY DEF Remaps, Name
    <2>2. QED
      BY <2>1, RemappedLine
  <1>2. QED
    BY <1>1, EmptyRow DEF Tokens

LEMMA RemapSettled ==
  ASSUME NEW table \in Table, NEW m \in Remaps, Settled(table)
  PROVE  Remapped(m, table) = table
  <1>1. Remapped(m, table) \in Table
    BY RemappedLine
  <1>2. ASSUME NEW slot \in Slot PROVE Remapped(m, table)[slot] = table[slot]
    <2>1. Remapped(m, table)[slot] \in [Name -> Row] /\ table[slot] \in [Name -> Row]
      BY <1>1 DEF Table
    <2>2. ASSUME NEW n \in Name PROVE Remapped(m, table)[slot][n] = table[slot][n]
      BY RemappedLine DEF Settled
    <2>3. QED
      BY <2>1, <2>2
  <1>3. QED
    BY <1>1, <1>2 DEF Table

LEMMA RemapKept ==
  ASSUME Stage, Kept, NEW i \in Instance, Remap(i)
  PROVE  Kept'
  <1>1. PICK m \in tx.left : tx' = [tx EXCEPT !.left = @ \ {m}, !.rows = Remapped(m, @)]
    BY DEF Remap
  <1>2. tx # None /\ tx.by = i /\ UNCHANGED <<at, rows, said, folded, marked>>
    BY DEF Remap, serveVars
  <1>3. /\ tx \in Transaction /\ tx.by \in Instance /\ tx.left \in SUBSET Remaps /\ tx.rows \in Table
        /\ m \in Remaps
    BY <1>2 DEF Kept, Types, Transaction
  <1>4. /\ tx' = [by |-> tx.by, left |-> tx.left \ {m}, rows |-> Remapped(m, tx.rows)]
        /\ tx'.left = tx.left \ {m} /\ tx'.rows = Remapped(m, tx.rows)
    BY <1>1, <1>3 DEF Transaction
  <1>5. Remapped(m, tx.rows) \in Table
    BY <1>3, RemappedLine
  <1>6. Types'
    BY <1>2, <1>3, <1>4, <1>5 DEF Kept, Types, Transaction
  <1>7. Counted'
    <2>1. Tokens(rows, folded) /\ Tokens(tx.rows, TRUE)
      BY <1>2 DEF Kept, Counted
    <2>2. Tokens(Remapped(m, tx.rows), TRUE)
      BY <1>3, <2>1, RemapTokens
    <2>3. QED
      BY <1>2, <1>4, <2>1, <2>2 DEF Counted, Tokens
  <1>8. Unmarked'
    <2>1. CASE marked
      BY <1>2, <2>1 DEF Unmarked
    <2>2. CASE ~marked
      <3>1. ASSUME NEW slot \in Slot PROVE Renaming(tx.rows, tx.left, slot)
        BY <1>2, <2>2 DEF Kept, Unmarked, Renaming
      <3>2. ASSUME NEW slot \in Slot PROVE Renaming(Remapped(m, tx.rows), tx.left \ {m}, slot)
        BY <1>3, <3>1, RemapLone
      <3>3. ASSUME NEW slot \in Slot, NEW name \in Name
            PROVE  /\ Lone(rows, slot, name) => Lone(rows, slot, name)'
                   /\ Lone(Remapped(m, tx.rows), slot, name) => Lone(tx.rows, slot, name)'
        BY <1>2, <1>4 DEF Lone, Asked
      <3>4. QED
        BY <1>2, <1>4, <2>2, <3>2, <3>3 DEF Kept, Unmarked, Renaming
    <2>3. QED
      BY <2>1, <2>2
  <1>9. Marked'
    <2>1. CASE marked
      <3>1. Settled(rows) /\ tx.rows = rows
        BY <1>2, <2>1 DEF Kept, Marked, Stage
      <3>2. Remapped(m, tx.rows) = rows
        BY <1>3, <3>1, RemapSettled
      <3>3. QED
        BY <1>2, <1>4, <3>1, <3>2 DEF Kept, Marked, Settled
    <2>2. CASE ~marked
      BY <1>2, <2>2 DEF Marked
    <2>3. QED
      BY <2>1, <2>2
  <1>10. QED
    BY <1>6, <1>7, <1>8, <1>9 DEF Kept

LEMMA CommitKept ==
  ASSUME Stage, Kept, NEW i \in Instance, CommitRemap(i)
  PROVE  Kept'
  <1>1. /\ tx # None /\ tx.by = i /\ tx.left = {} /\ rows' = tx.rows /\ marked' = TRUE /\ tx' = None
        /\ Goto(i, "settings") /\ UNCHANGED <<said, folded>>
    BY DEF CommitRemap, serveVars
  <1>2. tx.rows \in Table /\ folded
    BY <1>1 DEF Kept, Types, Transaction, Stage, Ingress
  <1>3. Types'
    BY <1>1, <1>2 DEF Kept, Types
  <1>4. Counted'
    BY <1>1, <1>2 DEF Kept, Counted, Tokens
  <1>5. Unmarked'
    BY <1>1 DEF Unmarked
  <1>6. /\ Settled(tx.rows)
        /\ \A slot \in Slot : \A n \in Name : tx.rows[slot][n].requests = said[slot][n]
    <2>1. CASE marked
      BY <1>1, <2>1 DEF Kept, Marked, Stage
    <2>2. CASE ~marked
      <3>1. ASSUME NEW slot \in Slot
            PROVE  /\ \A m \in Remaps : m.provider = ProviderOf[slot] => tx.rows[slot][m.target] = Empty
                   /\ \A n \in Name : tx.rows[slot][n].requests = said[slot][n]
        <4>1. PICK name \in Name :
                /\ Lone(tx.rows, slot, name)
                /\ \A m \in Remaps : m.provider = ProviderOf[slot] /\ m.target = name => m \in tx.left
          BY <1>1, <2>2 DEF Kept, Unmarked
        <4>2. \A m \in Remaps : m.provider = ProviderOf[slot] => m.target # name
          BY <1>1, <4>1
        <4>3. Asked(slot, name) = name
          BY <4>2, AskedSettled
        <4>4. \A m \in Remaps : m.target \in Name
          BY DEF Remaps, Name
        <4>5. QED
          BY <4>1, <4>2, <4>3, <4>4, EmptyRow DEF Lone
      <3>2. QED
        BY <3>1 DEF Settled
    <2>3. QED
      BY <2>1, <2>2
  <1>7. Marked'
    BY <1>1, <1>6 DEF Marked, Settled
  <1>8. QED
    BY <1>3, <1>4, <1>5, <1>7 DEF Kept

LEMMA RecordKept ==
  ASSUME LedgerAssumption, Stage, Requests, Kept, NEW i \in Instance, RecordConsumption(i)
  PROVE  Kept'
  <1> DEFINE slot == job[i].slot
             name == job[i].route.group
             row == [requests |-> rows[slot][name].requests + 1,
                     input |-> rows[slot][name].input + InputTokens(slot)]
  <1>1. /\ rows' = [rows EXCEPT ![slot][name] = row]
        /\ said' = [said EXCEPT ![slot][name] = @ + 1]
        /\ tx = None /\ tx' = None /\ job[i] # None /\ UNCHANGED <<at, folded, marked>>
    BY DEF RecordConsumption
  <1>2. folded /\ marked
    BY <1>1 DEF Stage, Ingress
  <1>3. slot \in Slot /\ name \in Group /\ name \in Name
    BY <1>1 DEF Requests, Request, LedgerAssumption, Name
  <1>4. InputTokens(slot) = 2
    BY DEF InputTokens, PromptTokens
  <1> HIDE DEF slot, name
  <1>5. rows \in Table /\ said \in [Slot -> [Name -> Nat]]
    BY DEF Kept, Types
  <1>6. rows[slot] \in [Name -> Row] /\ rows[slot][name] \in Row
    BY <1>3, <1>5 DEF Table
  <1>7. /\ row \in Row /\ row.requests = rows[slot][name].requests + 1
        /\ row.input = rows[slot][name].input + 2
    BY <1>4, <1>6 DEF Row
  <1> HIDE DEF row
  <1>8. /\ rows' \in Table
        /\ rows'[slot][name] = row
        /\ \A s \in Slot : \A n \in Name : s # slot \/ n # name => rows'[s][n] = rows[s][n]
    <2>1. rows' = [rows EXCEPT ![slot] = [rows[slot] EXCEPT ![name] = row]]
      BY <1>1, <1>3, <1>5 DEF Table
    <2> DEFINE line == [rows[slot] EXCEPT ![name] = row]
    <2>2. /\ line \in [Name -> Row] /\ line[name] = row
          /\ \A n \in Name : n # name => line[n] = rows[slot][n]
      BY <1>3, <1>6, <1>7
    <2>3. rows' = [rows EXCEPT ![slot] = line]
      BY <2>1
    <2> HIDE DEF line
    <2>4. QED
      BY <1>3, <1>5, <2>2, <2>3 DEF Table
  <1>9. /\ said' \in [Slot -> [Name -> Nat]]
        /\ said'[slot][name] = said[slot][name] + 1
        /\ \A s \in Slot : \A n \in Name : s # slot \/ n # name => said'[s][n] = said[s][n]
    BY <1>1, <1>3, <1>5
  <1>10. Types'
    BY <1>1, <1>8, <1>9 DEF Types
  <1>11. Counted'
    <2>1. ASSUME NEW s \in Slot, NEW n \in Name, ProviderOf[s] # Nobody
          PROVE  rows'[s][n].input = 2 * rows'[s][n].requests
      <3>1. rows[s][n].input = 2 * rows[s][n].requests
        BY <1>2, <2>1 DEF Kept, Counted, Tokens
      <3>2. CASE s = slot /\ n = name
        <4>1. rows[s][n].requests \in Nat
          BY <1>6, <3>2 DEF Row
        <4>2. QED
          BY <1>7, <1>8, <3>1, <3>2, <4>1
      <3>3. CASE s # slot \/ n # name
        BY <1>8, <3>1, <3>3
      <3>4. QED
        BY <3>2, <3>3
    <2>2. QED
      BY <1>1, <1>2, <2>1 DEF Counted, Tokens
  <1>12. Unmarked'
    BY <1>1, <1>2 DEF Unmarked
  <1>13. Marked'
    <2>1. \A s \in Slot : \A n \in Name : rows'[s][n].requests = said'[s][n]
      <3>1. \A s \in Slot : \A n \in Name : rows[s][n].requests = said[s][n]
        BY <1>2 DEF Kept, Marked
      <3>2. QED
        BY <1>3, <1>7, <1>8, <1>9, <3>1
    <2>2. Settled(rows) => Settled(rows)'
      <3>1. \A m \in Remaps : m.target \in Name /\ m.target # name
        BY <1>3 DEF Remaps, Name
      <3>2. QED
        BY <1>8, <3>1 DEF Settled
    <2>3. QED
      BY <1>1, <2>1, <2>2 DEF Kept, Marked
  <1>14. QED
    BY <1>10, <1>11, <1>12, <1>13 DEF Kept

LEMMA KeptKept ==
  ASSUME LedgerAssumption, Stage, Requests, Kept, NEW i \in Instance, Step(i)
  PROVE  Kept'
  <1>a. ASSUME UNCHANGED <<rows, said, folded, marked, tx, at>> PROVE Kept'
    BY <1>a, KeptFrame
  <1>b. ASSUME UNCHANGED <<rows, said, folded, marked>>, tx' = tx \/ tx' = None,
               NEW step, Goto(i, step), step # "remap" \/ ~marked
        PROVE  Kept'
    <2>1. \A j \in Instance : at'[j] = "remap" => at[j] = "remap" \/ ~marked
      BY <1>b DEF Goto, Stage
    <2>2. QED
      BY <1>b, <2>1, KeptFrame
  <1>1. CASE Launch(i) \/ InspectPrices(i) \/ InspectIndex(i) \/ CheckFold(i)
    BY <1>1, <1>b DEF Launch, InspectPrices, InspectIndex, CheckFold, dbVars, serveVars
  <1>2. CASE CheckIngress(i)
    BY <1>2, <1>b DEF CheckIngress, dbVars, serveVars
  <1>3. CASE ConvertPrices(i) \/ AddColumns(i) \/ RebuildIndex(i)
    BY <1>3, <1>b DEF ConvertPrices, AddColumns, RebuildIndex, serveVars
  <1>4. CASE Serve(i) \/ Fail(i)
    BY <1>4, <1>b DEF Serve, Fail, dbVars
  <1>5. CASE Ask(i) \/ LookupExact(i) \/ LookupWildcard(i)
    BY <1>5, <1>a DEF Ask, LookupExact, LookupWildcard, dbVars
  <1>6. CASE SetRule(i) \/ \E who \in Loader : LoadPricing(i, who) \/ InstallPricing(i, who)
    BY <1>6, <1>a DEF SetRule, LoadPricing, InstallPricing, dbVars
  <1>7. QED
    BY <1>1, <1>2, <1>3, <1>4, <1>5, <1>6, FoldKept, BeginKept, RemapKept, CommitKept, RecordKept DEF Step

LEMMA AlwaysKept == Spec => []Kept
  <1>1. Init => Kept
    BY InitKept, LedgerAssumption
  <1>2. Stage /\ Requests /\ Kept /\ [Next]_vars => Kept'
    <2> SUFFICES ASSUME Stage, Requests, Kept, [Next]_vars PROVE Kept'
      OBVIOUS
    <2>1. CASE UNCHANGED vars
      BY <2>1, KeptFrame DEF vars, dbVars, serveVars
    <2>2. QED
      BY <2>1, Steps, KeptKept, LedgerAssumption
  <1>3. QED
    BY <1>1, <1>2, AlwaysStage, AlwaysRequests, PTL DEF Spec

\* The ledger is exact once anybody serves, for any history of migrations, any number of
\* processes that run them at once, and a death or a failure at any of their steps.
THEOREM LedgerExactAlways == Spec => []LedgerExact
  <1>1. Stage /\ Book /\ Kept => LedgerExact
    <2> SUFFICES ASSUME Stage, Book, Kept, NEW i \in Instance, at[i] = "serve"
                 PROVE  /\ index = "model" /\ schema # "k"
                        /\ \A p \in Priced : rules[p] \in held[p]
                        /\ \A slot \in Slot, n \in Name :
                             /\ rows[slot][n].requests = said[slot][n]
                             /\ ProviderOf[slot] # Nobody => rows[slot][n].input = 2 * rows[slot][n].requests
      BY DEF LedgerExact
    <2>1. index = "model" /\ schema # "k" /\ folded /\ marked
      BY DEF Stage, Columns, Folding, Ingress
    <2>2. \A p \in Priced : rules[p] \in held[p]
      BY <2>1 DEF Book
    <2>3. \A slot \in Slot, n \in Name : rows[slot][n].requests = said[slot][n]
      BY <2>1 DEF Kept, Marked
    <2>4. \A slot \in Slot, n \in Name :
            ProviderOf[slot] # Nobody => rows[slot][n].input = 2 * rows[slot][n].requests
      BY <2>1 DEF Kept, Counted, Tokens
    <2>5. QED
      BY <2>1, <2>2, <2>3, <2>4
  <1>2. QED
    BY <1>1, AlwaysStage, AlwaysBook, AlwaysKept, PTL
===============================================================================
