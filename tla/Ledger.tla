-------------------------------- MODULE Ledger --------------------------------
(***************************************************************************)
(* What usage cost: the migrations that Init runs on a database of an older  *)
(* build (db/db.go), prices and the hourly consumption rows (billing/). Any   *)
(* number of processes may be started on one database, as nothing stops a    *)
(* second one before it has run Init; each may die at any step, and a failing *)
(* statement ends Init and the process with it. A transaction is one step,    *)
(* but for the remapping of model names, one UPDATE each.                     *)
(*                                                                          *)
(* Every request has one uncached and one cached input token. A price of 0 is *)
(* no rule.                                                                   *)
(***************************************************************************)
EXTENDS Integers, FiniteSets

CONSTANTS
  Instance,      \* processes
  Slot,          \* a key in an hour
  Anthropic,     \* the slots of keys of Anthropic providers
  ProviderOf,    \* per slot its key's provider, or Nobody when the key is gone
  Group,         \* the live group ids: models clients ask for
  Target,        \* the models that routes ask for upstream
  Routes,        \* records of a provider, a group and a target
  Legacy,        \* per slot the names an older build may have recorded it under
  Rates,         \* prices an admin may set
  Nobody, Wildcard, None, Saved,
  MaxRequests,   \* bound: requests recorded
  MaxEdits       \* bound: price edits

Name == Group \cup Target
Priced == Target \cup {Wildcard}

ASSUME LedgerAssumption ==
  /\ Anthropic \subseteq Slot
  /\ \A route \in Routes : route.group \in Group /\ route.target \in Target
  /\ Legacy \in [Slot -> SUBSET Name]
  /\ Rates \subseteq Nat /\ 0 \in Rates
  /\ Wildcard \notin Target /\ None \notin Instance
  /\ MaxRequests \in Nat /\ MaxEdits \in Nat

VARIABLES
  at,            \* per process: the step of Init it is at, "down" or "serve"
  index,         \* what idx_key_hour covers: "hour" (key and hour) or "model" too
  rows,          \* consumptions by slot and model name
  folded,        \* the flag migration.input_tokens_incl_cache
  marked,        \* the marker consumption.model_source
  schema,        \* the columns of pricings: "k" per 1K, "m" per 1M, or "both"
  rules,         \* the prices in the columns in use
  tx,            \* the open transaction of a remapping, or None
  calc,          \* per process: the calculator's prices
  job,           \* per process: the request it records, or None
  load,          \* per process and loader: Saved, the prices it has read, or None
  count, edits,  \* requests and edits so far
  said,          \* history: requests by slot and the model they asked for
  held           \* history: the prices per 1M that each rule was given, 0 for none

dbVars == <<index, rows, folded, marked, schema, rules, tx>>
serveVars == <<calc, job, load, count, edits, said, held>>
vars == <<at, dbVars, serveVars>>

Row == [requests : Nat, input : Nat]
Empty == [requests |-> 0, input |-> 0]
Loader == {"handler", "refresh"}
Idle == [who \in Loader |-> None]
Unpriced == [p \in Priced |-> 0]
------------------------------------------------------------------------------
(* The usage that a request reports, and what is recorded of it *)

PromptTokens(slot) == IF slot \in Anthropic THEN 1 ELSE 2

\* RecordConsumption folds cached tokens where the format leaves them out.
InputTokens(slot) == IF slot \in Anthropic THEN PromptTokens(slot) + 1 ELSE PromptTokens(slot)

\* migrateAnthropicInputTokensOnce; rows of deleted keys have no type.
Folded(slot, row) ==
  IF slot \in Anthropic /\ ProviderOf[slot] # Nobody
  THEN [row EXCEPT !.input = @ + row.requests] ELSE row

\* migrateConsumptionModelToIngress: a name with a single group among the routes
\* of the key's provider (of all, when the key is gone) becomes that group's id; a
\* live group's id stays.
GroupsOf(provider, target) ==
  {route.group : route \in {r \in Routes : r.target = target /\ provider \in {r.provider, Nobody}}}

\* Mutant: a live group's id is renamed too when a route asks for it upstream.
RemapsBroken ==
  {m \in [provider : {route.provider : route \in Routes} \cup {Nobody}, target : Target, group : Group] :
     GroupsOf(m.provider, m.target) = {m.group}}

Remaps ==
  {m \in [provider : {route.provider : route \in Routes} \cup {Nobody},
          target : Target \ Group, group : Group] :
     GroupsOf(m.provider, m.target) = {m.group}}

Remapped(m, old) ==
  [slot \in Slot |->
     IF ProviderOf[slot] # m.provider THEN old[slot]
     ELSE [old[slot] EXCEPT ![m.target] = Empty,
             ![m.group] = IF old[slot][m.target] = Empty THEN @ ELSE old[slot][m.target]]]

\* The model a recorded name stands for: of a name that is no live group's id, the
\* only group its provider's routes could have served it for.
Asked(slot, name) ==
  IF name \notin Group /\ \E g \in Group : GroupsOf(ProviderOf[slot], name) = {g}
  THEN CHOOSE g \in Group : GroupsOf(ProviderOf[slot], name) = {g}
  ELSE name
------------------------------------------------------------------------------
(* A database as an older build left it: at most one row a slot, each of the *)
(* migrations run by then or not.                                            *)

Init ==
  /\ at = [i \in Instance |-> "down"]
  /\ index = "hour"
  /\ folded \in BOOLEAN /\ marked \in BOOLEAN /\ schema \in {"k", "m", "both"}
  /\ \E name \in [Slot -> UNION {Legacy[slot] : slot \in Slot}] :
       /\ \A slot \in Slot : name[slot] \in Legacy[slot]
       /\ rows = [slot \in Slot |-> [n \in Name |->
            IF n # name[slot] THEN Empty
            ELSE IF folded THEN Folded(slot, [requests |-> 1, input |-> PromptTokens(slot)])
            ELSE [requests |-> 1, input |-> PromptTokens(slot)]]]
       /\ said = [slot \in Slot |-> [n \in Name |->
            IF n = (IF marked THEN name[slot] ELSE Asked(slot, name[slot])) THEN 1 ELSE 0]]
  /\ rules \in [Priced -> Rates]
  /\ held = [p \in Priced |-> {IF schema = "k" THEN 1000 * rules[p] ELSE rules[p]}]
  /\ tx = None
  /\ calc = [i \in Instance |-> Unpriced]
  /\ job = [i \in Instance |-> None]
  /\ load = [i \in Instance |-> Idle]
  /\ count = 0
  /\ edits = 0
------------------------------------------------------------------------------
(* db.Init, in order. A step that writes waits for a transaction that is open. *)

Goto(i, step) == at' = [at EXCEPT ![i] = step]

Launch(i) ==
  /\ at[i] = "down"
  /\ Goto(i, "prices")
  /\ UNCHANGED <<dbVars, serveVars>>

\* migratePricingPer1KToPer1M looks at the columns, and again in its transaction.
InspectPrices(i) ==
  /\ at[i] = "prices"
  /\ Goto(i, IF schema = "k" THEN "convert" ELSE "columns")
  /\ UNCHANGED <<dbVars, serveVars>>

ConvertPrices(i) ==
  /\ at[i] = "convert" /\ tx = None
  /\ IF schema = "k"
     THEN schema' = "m" /\ rules' = [p \in Priced |-> 1000 * rules[p]]
     ELSE UNCHANGED <<schema, rules>>
  /\ Goto(i, "columns")
  /\ UNCHANGED <<index, rows, folded, marked, tx, serveVars>>

\* AutoMigrate adds the columns in use where they are missing.
AddColumns(i) ==
  /\ at[i] = "columns" /\ tx = None
  /\ IF schema = "k"
     THEN schema' = "both" /\ rules' = Unpriced
     ELSE UNCHANGED <<schema, rules>>
  /\ Goto(i, "index")
  /\ UNCHANGED <<index, rows, folded, marked, tx, serveVars>>

\* migrateConsumptionIndexPerModel
InspectIndex(i) ==
  /\ at[i] = "index"
  /\ Goto(i, IF index = "model" THEN "fold" ELSE "rebuild")
  /\ UNCHANGED <<dbVars, serveVars>>

RebuildIndex(i) ==
  /\ at[i] = "rebuild" /\ tx = None
  /\ index' = "model"
  /\ Goto(i, "fold")
  /\ UNCHANGED <<rows, folded, marked, schema, rules, tx, serveVars>>

\* migrateAnthropicInputTokensOnce: the flag's insert fails when it is there by
\* now, which takes the fold back and ends the process.
CheckFold(i) ==
  /\ at[i] = "fold"
  /\ Goto(i, IF folded THEN "ingress" ELSE "folding")
  /\ UNCHANGED <<dbVars, serveVars>>

FoldRows == [slot \in Slot |-> [n \in Name |-> Folded(slot, rows[slot][n])]]

\* Mutant: a flag that is there already is no error.
FoldBroken(i) ==
  /\ at[i] = "folding" /\ tx = None
  /\ rows' = FoldRows
  /\ folded' = TRUE
  /\ Goto(i, "ingress")
  /\ UNCHANGED <<index, marked, schema, rules, tx, serveVars>>

Fold(i) ==
  /\ at[i] = "folding" /\ tx = None
  /\ IF folded
     THEN Goto(i, "down") /\ UNCHANGED <<rows, folded>>
     ELSE Goto(i, "ingress") /\ rows' = FoldRows /\ folded' = TRUE
  /\ UNCHANGED <<index, marked, schema, rules, tx, serveVars>>

\* migrateConsumptionModelToIngress: an UPDATE per name in one transaction, whose
\* marker another process may have set since the check.
CheckIngress(i) ==
  /\ at[i] = "ingress"
  /\ Goto(i, IF marked THEN "settings" ELSE "remap")
  /\ UNCHANGED <<dbVars, serveVars>>

BeginRemap(i) ==
  /\ at[i] = "remap" /\ tx = None
  /\ tx' = [by |-> i, left |-> Remaps, rows |-> rows]
  /\ UNCHANGED <<at, index, rows, folded, marked, schema, rules, serveVars>>

\* An UPDATE that would give a slot two rows of one name fails (see Fail).
Remap(i) ==
  /\ tx # None /\ tx.by = i
  /\ \E m \in tx.left :
       /\ \A slot \in Slot : ProviderOf[slot] = m.provider =>
            Empty \in {tx.rows[slot][m.target], tx.rows[slot][m.group]}
       /\ tx' = [tx EXCEPT !.left = @ \ {m}, !.rows = Remapped(m, @)]
  /\ UNCHANGED <<at, index, rows, folded, marked, schema, rules, serveVars>>

CommitRemap(i) ==
  /\ tx # None /\ tx.by = i /\ tx.left = {}
  /\ rows' = tx.rows
  /\ marked' = TRUE
  /\ tx' = None
  /\ Goto(i, "settings")
  /\ UNCHANGED <<index, folded, schema, rules, serveVars>>

\* Settings are seeded; the engine's calculator loads the prices, or fails to.
Serve(i) ==
  /\ at[i] = "settings" /\ tx = None
  /\ Goto(i, "serve")
  /\ \E prices \in {rules, Unpriced} : calc' = [calc EXCEPT ![i] = prices]
  /\ UNCHANGED <<dbVars, job, load, count, edits, said, held>>

\* A statement of Init fails and main exits; or the process is killed, at any
\* step. What it had not committed is gone.
Fail(i) ==
  /\ at[i] # "down"
  /\ Goto(i, "down")
  /\ tx' = IF tx # None /\ tx.by = i THEN None ELSE tx
  /\ calc' = [calc EXCEPT ![i] = Unpriced]
  /\ job' = [job EXCEPT ![i] = None]
  /\ load' = [load EXCEPT ![i] = Idle]
  /\ UNCHANGED <<index, rows, folded, marked, schema, rules, count, edits, said, held>>
------------------------------------------------------------------------------
(* RecordConsumption, for a request that a route without rates of its own      *)
(* served: it asked for the route's group and is priced by the route's target. *)

Finish(i) == job' = [job EXCEPT ![i] = None]
Charge(i, price) == job' = [job EXCEPT ![i].price = price, ![i].step = "record"]

Ask(i) ==
  /\ at[i] = "serve" /\ job[i] = None /\ count < MaxRequests
  /\ \E slot \in Slot, route \in Routes :
       /\ route.provider = ProviderOf[slot]
       /\ job' = [job EXCEPT ![i] =
            [slot |-> slot, route |-> route, step |-> "exact", price |-> 0, free |-> rules[route.target] = 0]]
  /\ count' = count + 1
  /\ UNCHANGED <<at, dbVars, calc, load, edits, said, held>>

\* Mutant: a lookup that failed is taken for one that found nothing.
LookupExactBroken(i) ==
  /\ job[i] # None /\ job[i].step = "exact"
  /\ LET target == job[i].route.target IN
       \/ rules[target] # 0 /\ Charge(i, rules[target])
       \/ job' = [job EXCEPT ![i].step = "wildcard"]
  /\ UNCHANGED <<at, dbVars, calc, load, count, edits, said, held>>

\* resolvePricing: the rule of the upstream's model. When the query fails, only a
\* cached rule of that model will do, and without one nothing is recorded.
LookupExact(i) ==
  /\ job[i] # None /\ job[i].step = "exact"
  /\ LET target == job[i].route.target IN
       \/ rules[target] # 0 /\ Charge(i, rules[target])
       \/ rules[target] = 0 /\ job' = [job EXCEPT ![i].step = "wildcard"]
       \/ calc[i][target] # 0 /\ Charge(i, calc[i][target])
       \/ calc[i][target] = 0 /\ Finish(i)
  /\ UNCHANGED <<at, dbVars, calc, load, count, edits, said, held>>

\* Else the wildcard's; the cached price when that query fails (GetPricing).
LookupWildcard(i) ==
  /\ job[i] # None /\ job[i].step = "wildcard"
  /\ LET target == job[i].route.target IN
       \/ Charge(i, rules[Wildcard])
       \/ Charge(i, IF calc[i][target] # 0 THEN calc[i][target] ELSE calc[i][Wildcard])
  /\ UNCHANGED <<at, dbVars, calc, load, count, edits, said, held>>

\* The upsert, whose conflict target only the new index matches.
RecordConsumption(i) ==
  /\ job[i] # None /\ job[i].step = "record" /\ tx = None /\ index = "model"
  /\ LET slot == job[i].slot
         name == job[i].route.group
     IN /\ rows' = [rows EXCEPT ![slot][name] =
                      [requests |-> @.requests + 1, input |-> @.input + InputTokens(slot)]]
        /\ said' = [said EXCEPT ![slot][name] = @ + 1]
  /\ Finish(i)
  /\ UNCHANGED <<at, index, folded, marked, schema, rules, tx, calc, load, count, edits, held>>
------------------------------------------------------------------------------
(* Pricing: a handler writes a rule, then loads all of them unless the query   *)
(* fails; so does Refresh of the engine at any time. One each in a process.    *)

SetRule(i) ==
  /\ at[i] = "serve" /\ load[i].handler = None /\ edits < MaxEdits /\ tx = None
  /\ \E p \in Priced, rate \in Rates :
       /\ rules' = [rules EXCEPT ![p] = rate]
       /\ held' = [held EXCEPT ![p] = @ \cup {rate}]
       /\ job' = [j \in Instance |->
            IF job[j] # None /\ job[j].route.target = p
            THEN [job[j] EXCEPT !.free = @ \/ rate = 0] ELSE job[j]]
  /\ load' = [load EXCEPT ![i].handler = Saved]
  /\ edits' = edits + 1
  /\ UNCHANGED <<at, index, rows, folded, marked, schema, tx, calc, count, said>>

LoadPricing(i, who) ==
  /\ at[i] = "serve"
  /\ load[i][who] = (IF who = "handler" THEN Saved ELSE None)
  /\ load' \in {[load EXCEPT ![i][who] = rules], [load EXCEPT ![i][who] = None]}
  /\ UNCHANGED <<at, dbVars, calc, job, count, edits, said, held>>

InstallPricing(i, who) ==
  /\ load[i][who] \notin {None, Saved}
  /\ calc' = [calc EXCEPT ![i] = load[i][who]]
  /\ load' = [load EXCEPT ![i][who] = None]
  /\ UNCHANGED <<at, dbVars, job, count, edits, said, held>>

Next == \E i \in Instance :
  \/ Launch(i) \/ InspectPrices(i) \/ ConvertPrices(i) \/ AddColumns(i)
  \/ InspectIndex(i) \/ RebuildIndex(i) \/ CheckFold(i) \/ Fold(i)
  \/ CheckIngress(i) \/ BeginRemap(i) \/ Remap(i) \/ CommitRemap(i) \/ Serve(i) \/ Fail(i)
  \/ Ask(i) \/ LookupExact(i) \/ LookupWildcard(i) \/ RecordConsumption(i)
  \/ SetRule(i) \/ \E who \in Loader : LoadPricing(i, who) \/ InstallPricing(i, who)

Spec == Init /\ [][Next]_vars
------------------------------------------------------------------------------
(* Properties *)

\* Once a process serves, the ledger is exact: every slot has as many requests under
\* every model as asked for it, with all of their input tokens counted once, and
\* every rule holds a price per 1M it was given - whichever migrations an older
\* build had run, however many processes ran the others at once or died in them
\* ("must run exactly once", db/db.go). Rows of deleted keys keep their tokens.
LedgerExact ==
  (\E i \in Instance : at[i] = "serve") =>
    /\ index = "model" /\ schema # "k"
    /\ \A p \in Priced : rules[p] \in held[p]
    /\ \A slot \in Slot, n \in Name :
         /\ rows[slot][n].requests = said[slot][n]
         /\ ProviderOf[slot] # Nobody => rows[slot][n].input = 2 * rows[slot][n].requests

\* No request is billed at the wildcard's price or at nothing unless its model had no
\* rule of its own at some moment of the request, whatever lookups failed and prices
\* changed meanwhile ("could override an exact rule whose status is unknown",
\* resolvePricing).
NeverUnderbilled ==
  [][\A i \in Instance :
       RecordConsumption(i) =>
         job[i].free \/ job[i].price \in held[job[i].route.target] \ {0}]_vars
===============================================================================
