------------------------------- MODULE MCLedger -------------------------------
(* A small instance of Ledger. *)
EXTENDS Ledger, TLC

CONSTANTS i1, i2, s1, s2, s3, p1, p2, g1, g2, t

\* Two providers serve a group each as t; the first also serves g1 as g2, the other
\* group's id.
MCRoutes ==
  {[provider |-> p1, group |-> g1, target |-> t],
   [provider |-> p1, group |-> g1, target |-> g2],
   [provider |-> p2, group |-> g2, target |-> t]}

MCProviderOf == (s1 :> p1) @@ (s2 :> p2) @@ (s3 :> Nobody)

Processes == Permutations({i1, i2})

MCLegacy == (s1 :> {t, g2}) @@ (s2 :> {t}) @@ (s3 :> {t})
\* Both models start with a rule or both without.
MCInit == Init /\ rules[t] = rules[g2]
MCSpec == MCInit /\ [][Next]_vars
===============================================================================
