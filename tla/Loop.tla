---------------------------------- MODULE Loop ----------------------------------
(***************************************************************************)
(* "for i := range s" over a sequence: what the loops of the stream          *)
(* converters and of their callers do to the converter they carry along.    *)
(***************************************************************************)
EXTENDS Naturals, Folds

Latest(S) == CHOOSE i \in S : \A j \in S : i >= j

\* Do(c, i) for every place i of s, first to last, starting from c.
ForEach(Do(_, _), c, s) ==
  MapThenFoldSet(LAMBDA i, d : Do(d, i), c, LAMBDA i : i, Latest, DOMAIN s)
================================================================================
