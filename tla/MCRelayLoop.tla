---------------------------- MODULE MCRelayLoop ----------------------------
(* Constants for model checking RelayLoop: routes A and B share the first  *)
(* tier, C is the fallback.                                                *)
EXTENDS RelayLoop, TLC

CONSTANTS A, B, C, k1, k2, r1, r2

(* One request against changing surroundings: an eager and a lazy key.     *)
SoloRoutes == {A, B, C}
SoloKeys == {k1, k2}
SoloKeysOf == (A :> {k1, k2}) @@ (B :> {k2}) @@ (C :> {k1})
SoloPriority == (A :> 1) @@ (B :> 1) @@ (C :> 2)
SoloRank == (k1 :> 2) @@ (k2 :> 1)
SoloStrategy == (k1 :> "immediate") @@ (k2 :> "lazy")
SoloLimit == (k1 :> 0) @@ (k2 :> 0)
SoloConverting == {A, C}

(* Two requests competing for a limited key and its unlimited fallback.    *)
PairRoutes == {A}
PairKeys == {k1, k2}
PairKeysOf == A :> {k1, k2}
PairPriority == A :> 1
PairRank == (k1 :> 1) @@ (k2 :> 2)
PairStrategy == (k1 :> "immediate") @@ (k2 :> "")
PairLimit == (k1 :> 2) @@ (k2 :> 0)
PairConverting == {A}
PairReply == {[status |-> 429, body |-> "plain"], [status |-> 200, body |-> "plain"],
              [status |-> 200, body |-> "empty"]}

Settings == {-1, 5}
Symmetry == Permutations(Request)
=============================================================================
