---------------------------- MODULE StreamProofs ----------------------------
(* Proofs about StreamRelay and its converters, for any frames and bodies  *)
(* of the upstreams' types and answers of any length: that clients of the  *)
(* routes between OpenAI and Anthropic receive well-formed messages, that  *)
(* on every route an answer has one end or an error, and that an empty     *)
(* one is empty for its client.                                            *)
EXTENDS StreamStates, TLAPS, FiniteSetTheorems, SequenceTheorems, WellFoundedInduction

-----------------------------------------------------------------------------
(* The folds of the community modules, which the converters use.           *)

\* Counting up from 0 reaches every number up to n.
LEMMA Upwards ==
  ASSUME NEW n \in Nat, NEW P, 0 \in P, \A k \in 0 .. n - 1 : k \in P => k + 1 \in P
  PROVE  \A k \in 0 .. n : k \in P
<1> DEFINE Missed == {k \in 0 .. n : k \notin P}
<1>1. ASSUME Missed # {}
      PROVE  FALSE
  <2>1. PICK m \in Missed : \A q \in Missed : ~ (<<q, m>> \in OpToRel(<, Nat))
    <3>1. Missed \subseteq Nat
      OBVIOUS
    <3> HIDE DEF Missed
    <3> QED BY <1>1, <3>1, NatLessThanWellFounded, WFMin, Zenon
  <2>2. m \in 0 .. n /\ m \notin P
    BY <2>1, Zenon
  <2>3. m # 0 /\ m - 1 \in 0 .. n - 1 /\ m - 1 < m /\ m = (m - 1) + 1
    BY <2>2
  <2>4. m - 1 \in Missed
    BY <2>2, <2>3
  <2>5. <<m - 1, m>> \in OpToRel(<, Nat)
    BY <2>2, <2>3 DEF OpToRel
  <2> QED BY <2>1, <2>4, <2>5, Zenon
<1> QED BY <1>1

\* A set of places has a last one.
LEMMA MaxOf ==
  ASSUME NEW n \in Nat, NEW s \in SUBSET (1 .. n), s # {}
  PROVE  Max(s) \in s /\ \A y \in s : Max(s) >= y
<1> DEFINE P == {k \in 0 .. n : \A t \in SUBSET (1 .. k) : t # {} => \E x \in t : \A y \in t : x >= y}
<1>1. 0 \in P
  <2>1. \A t \in SUBSET (1 .. 0) : t = {}
    OBVIOUS
  <2> QED BY <2>1, 0 \in 0 .. n, Zenon
<1>2. ASSUME NEW k \in 0 .. n - 1, k \in P PROVE k + 1 \in P
  <2> SUFFICES ASSUME NEW t \in SUBSET (1 .. k + 1), t # {}
               PROVE  \E x \in t : \A y \in t : x >= y
    OBVIOUS
  <2>1. CASE k + 1 \in t
    BY <2>1
  <2>2. CASE k + 1 \notin t
    <3>1. t \in SUBSET (1 .. k)
      BY <2>2
    <3> QED BY <3>1, <1>2
  <2> QED BY <2>1, <2>2
<1> HIDE DEF P
<1>3. n \in P
  BY <1>1, <1>2, Upwards
<1>4. \E x \in s : \A y \in s : x >= y
  BY <1>3 DEF P
<1> QED BY <1>4, Zenon DEF Max

\* The iteration has a solution.
LEMMA FoldedExists ==
  ASSUME NEW n \in Nat, NEW X, NEW b \in X, NEW step \in [X \X (1 .. n) -> X]
  PROVE  \E g \in [SUBSET (1 .. n) -> X] : Folded(b, step, g, n)
<1> DEFINE P == {k \in 0 .. n : \E g \in [SUBSET (1 .. k) -> X] : Folded(b, step, g, k)}
<1>1. 0 \in P
  <2> DEFINE g == [s \in SUBSET (1 .. 0) |-> b]
  <2>1. SUBSET (1 .. 0) = {{}}
    OBVIOUS
  <2>2. g \in [SUBSET (1 .. 0) -> X] /\ Folded(b, step, g, 0)
    BY <2>1 DEF Folded
  <2> HIDE DEF g
  <2> QED BY <2>2, 0 \in 0 .. n, Zenon
<1>2. ASSUME NEW k \in 0 .. n - 1, k \in P PROVE k + 1 \in P
  <2>1. PICK g \in [SUBSET (1 .. k) -> X] : Folded(b, step, g, k)
    BY <1>2, Zenon
  <2>2. \A s \in SUBSET (1 .. k + 1) : /\ s \ {k + 1} \in SUBSET (1 .. k)
                                       /\ k + 1 \notin s => s \in SUBSET (1 .. k)
    OBVIOUS
  <2> DEFINE h == [s \in SUBSET (1 .. k + 1) |->
                     IF k + 1 \in s THEN step[<<g[s \ {k + 1}], k + 1>>] ELSE g[s]]
  <2>h. \A s \in SUBSET (1 .. k + 1) :
          h[s] = IF k + 1 \in s THEN step[<<g[s \ {k + 1}], k + 1>>] ELSE g[s]
    OBVIOUS
  <2>3. h \in [SUBSET (1 .. k + 1) -> X]
    BY <2>2
  <2>d. h = [s \in SUBSET (1 .. k + 1) |-> h[s]]
    OBVIOUS
  <2> HIDE DEF h
  <2>4. ASSUME NEW s \in SUBSET (1 .. k + 1), s # {}
        PROVE  h[s] = step[<<h[s \ {Max(s)}], Max(s)>>]
    <3>1. Max(s) \in s /\ \A y \in s : Max(s) >= y
      BY <2>4, MaxOf, k + 1 \in Nat, Zenon
    <3>2. CASE k + 1 \in s
      <4>1. Max(s) = k + 1
        <5>1. Max(s) \in 1 .. k + 1 /\ Max(s) >= k + 1
          BY <3>1, <3>2, Zenon
        <5> QED BY <5>1
      <4>2. s \ {k + 1} \in SUBSET (1 .. k + 1) /\ k + 1 \notin s \ {k + 1}
        OBVIOUS
      <4>3. (s \ {k + 1}) \ {k + 1} = s \ {k + 1}
        OBVIOUS
      <4>4. h[s \ {k + 1}] = g[s \ {k + 1}]
        BY <2>h, <4>2, Zenon
      <4>5. h[s] = step[<<g[s \ {k + 1}], k + 1>>]
        BY <2>h, <3>2
      <4> QED BY <4>1, <4>4, <4>5
    <3>3. CASE k + 1 \notin s
      <4>1. /\ s \in SUBSET (1 .. k) /\ s \ {Max(s)} \in SUBSET (1 .. k + 1)
            /\ k + 1 \notin s \ {Max(s)}
        BY <2>2, <3>3, Zenon
      <4>2. g[s] = step[<<g[s \ {Max(s)}], Max(s)>>]
        BY <2>1, <2>4, <4>1, Zenon DEF Folded
      <4>3. h[s] = g[s] /\ h[s \ {Max(s)}] = g[s \ {Max(s)}]
        BY <2>h, <3>3, <4>1, Zenon
      <4> QED BY <4>2, <4>3
    <3> QED BY <3>2, <3>3
  <2>5. h[{}] = b
    <3>1. h[{}] = g[{}]
      BY <2>h, Zenon
    <3>2. g[{}] = b
      BY <2>1 DEF Folded
    <3> QED BY <3>1, <3>2
  <2>6. Folded(b, step, h, k + 1)
    BY <2>d, <2>4, <2>5, Zenon DEF Folded
  <2> QED BY <2>3, <2>6, k + 1 \in 0 .. n
<1> HIDE DEF P
<1>3. n \in P
  BY <1>1, <1>2, Upwards
<1> QED BY <1>3, Zenon DEF P

\* A function that satisfies the iteration's equation stays in X.
LEMMA FoldedStays ==
  ASSUME NEW n \in Nat, NEW X, NEW g,
         g[{}] \in X,
         \A s \in SUBSET (1 .. n) : s # {} /\ g[s \ {Max(s)}] \in X => g[s] \in X
  PROVE  g[1 .. n] \in X
<1> DEFINE P == {k \in 0 .. n : g[1 .. k] \in X}
<1>1. 0 \in P
  BY 1 .. 0 = {}
<1>2. ASSUME NEW k \in 0 .. n - 1, k \in P PROVE k + 1 \in P
  <2>1. 1 .. k + 1 # {} /\ 1 .. k + 1 \in SUBSET (1 .. n)
    OBVIOUS
  <2>2. Max(1 .. k + 1) = k + 1
    <3> DEFINE m == Max(1 .. k + 1)
    <3>1. m \in 1 .. k + 1 /\ \A y \in 1 .. k + 1 : m >= y
      BY <2>1, MaxOf, Zenon
    <3> HIDE DEF m
    <3>2. m = k + 1
      BY <3>1, k + 1 \in 1 .. k + 1
    <3> QED BY <3>2 DEF m
  <2>3. (1 .. k + 1) \ {k + 1} = 1 .. k
    OBVIOUS
  <2>4. g[1 .. k] \in X
    BY <1>2
  <2>5. g[1 .. k + 1] \in X
    BY <2>1, <2>2, <2>3, <2>4, Zenon
  <2> QED BY <2>5, k + 1 \in 0 .. n
<1> HIDE DEF P
<1>3. n \in P
  BY <1>1, <1>2, Upwards
<1> QED BY <1>3 DEF P

\* FlattenSeq is the concatenation from the first sequence to the last.
LEMMA Flattening ==
  ASSUME NEW E, NEW n \in Nat, NEW seqs \in [1 .. n -> Seq(E)]
  PROVE  \E g \in [0 .. n -> Seq(E)] :
           /\ g[0] = <<>>
           /\ \A i \in 1 .. n : g[i] = g[i - 1] \o seqs[i]
           /\ FlattenSeq(seqs) = g[n]
<1>l. Len(seqs) = n /\ seqs \in Seq(Seq(E))
  OBVIOUS
<1>1. CASE n = 0
  <2>1. FlattenSeq(seqs) = <<>>
    BY <1>1, <1>l DEF FlattenSeq
  <2> DEFINE g == [k \in 0 .. n |-> <<>>]
  <2>2. g \in [0 .. n -> Seq(E)] /\ g[0] = <<>> /\ g[n] = <<>>
    BY <1>1
  <2> HIDE DEF g
  <2> QED BY <1>1, <2>1, <2>2
<1>2. CASE n # 0
  <2> DEFINE Rec(f, k) == f = [i \in 1 .. k |-> IF i = 1 THEN seqs[i] ELSE f[i-1] \o seqs[i]]
             P == {k \in 0 .. n : \E f \in [1 .. k -> Seq(E)] : Rec(f, k)}
             r == CHOOSE f : Rec(f, n)
  <2>1. 0 \in P
    <3> DEFINE f == [i \in 1 .. 0 |-> <<>>]
    <3>1. f \in [1 .. 0 -> Seq(E)] /\ Rec(f, 0)
      BY 1 .. 0 = {}
    <3> HIDE DEF f, Rec
    <3> QED BY <3>1, 0 \in 0 .. n, Zenon
  <2>2. ASSUME NEW k \in 0 .. n - 1, k \in P PROVE k + 1 \in P
    <3>1. PICK f \in [1 .. k -> Seq(E)] : Rec(f, k)
      BY <2>2, Zenon
    <3> DEFINE h == [i \in 1 .. k + 1 |-> IF i = 1 THEN seqs[i] ELSE f[i-1] \o seqs[i]]
    <3>2. h \in [1 .. k + 1 -> Seq(E)]
      OBVIOUS
    <3>a. \A i \in 1 .. k : f[i] = IF i = 1 THEN seqs[i] ELSE f[i-1] \o seqs[i]
      BY <3>1, Zenon
    <3>b. \A i \in 1 .. k + 1 : h[i] = IF i = 1 THEN seqs[i] ELSE f[i-1] \o seqs[i]
      OBVIOUS
    <3>c. h = [i \in 1 .. k + 1 |-> h[i]]
      OBVIOUS
    <3> HIDE DEF h
    <3>3. \A i \in 1 .. k : h[i] = f[i]
      <4>1. \A i \in 1 .. k : i \in 1 .. k + 1
        OBVIOUS
      <4> QED BY <3>a, <3>b, <4>1, Zenon
    <3>4. Rec(h, k + 1)
      <4>1. \A i \in 1 .. k + 1 : h[i] = IF i = 1 THEN seqs[i] ELSE h[i-1] \o seqs[i]
        <5>1. \A i \in 1 .. k + 1 : i # 1 => i - 1 \in 1 .. k
          OBVIOUS
        <5> QED BY <3>3, <3>b, <5>1
      <4> QED BY <4>1, <3>c, Zenon
    <3> HIDE DEF Rec
    <3> QED BY <3>2, <3>4, k + 1 \in 0 .. n
  <2>3. \E f : Rec(f, n)
    <3> HIDE DEF P, Rec
    <3>1. \A k \in 0 .. n : k \in P
      BY <2>1, <2>2, Upwards, Zenon
    <3> QED BY <3>1 DEF P
  <2>4. Rec(r, n)
    <3> HIDE DEF Rec
    <3> QED BY <2>3
  <2>5. FlattenSeq(seqs) = r[n]
    BY <1>2, <1>l DEF FlattenSeq
  <2> HIDE DEF r
  <2> DEFINE g == [k \in 0 .. n |-> IF k = 0 THEN <<>> ELSE r[k]]
  <2>6. \A i \in 1 .. n : r[i] = IF i = 1 THEN seqs[i] ELSE r[i-1] \o seqs[i]
    BY <2>4, Zenon
  <2>7. \A i \in 1 .. n : g[i] = g[i - 1] \o seqs[i]
    <3> SUFFICES ASSUME NEW i \in 1 .. n
                 PROVE  g[i] = g[i - 1] \o seqs[i]
      BY Zenon
    <3>1. CASE i = 1
      <4>1. g[i] = seqs[i] /\ g[i - 1] = <<>>
        BY <3>1, <2>6
      <4>2. seqs[i] \in Seq(E)
        OBVIOUS
      <4> HIDE DEF g
      <4> QED BY <4>1, <4>2, ConcatEmptySeq
    <3>2. CASE i # 1
      <4>1. g[i] = r[i] /\ g[i - 1] = r[i - 1]
        BY <3>2
      <4>2. r[i] = r[i - 1] \o seqs[i]
        BY <3>2, <2>6, Zenon
      <4> QED BY <4>1, <4>2, Zenon
    <3> QED BY <3>1, <3>2, Zenon
  <2>8. g[0] = <<>> /\ g[n] = FlattenSeq(seqs)
    BY <1>2, <2>5
  <2>9. g \in [0 .. n -> Seq(E)]
    <3> DEFINE Q == {k \in 0 .. n : g[k] \in Seq(E)}
    <3>1. 0 \in Q
      BY <2>8
    <3>2. ASSUME NEW k \in 0 .. n - 1, k \in Q PROVE k + 1 \in Q
      <4>0. k + 1 \in 1 .. n /\ k + 1 \in 0 .. n /\ k = (k + 1) - 1 /\ g[k] \in Seq(E)
        BY <3>2
      <4> HIDE DEF g
      <4>1. g[k + 1] = g[k] \o seqs[k + 1] /\ seqs[k + 1] \in Seq(E)
        BY <2>7, <4>0, Zenon
      <4>2. g[k + 1] \in Seq(E)
        BY <4>0, <4>1
      <4> QED BY <4>0, <4>2
    <3> HIDE DEF Q
    <3>3. \A k \in 0 .. n : k \in Q
      BY <3>1, <3>2, Upwards, Zenon
    <3> QED BY <3>3 DEF Q
  <2> HIDE DEF g
  <2> QED BY <2>7, <2>8, <2>9, Zenon
<1> QED BY <1>1, <1>2, Zenon

\* AnthropicStream: the fragments of a chunk, one after the other.
LEMMA ToolsStay ==
  ASSUME NEW X, NEW c \in X, NEW f, NEW n, NEW N \in Nat, DOMAIN f.tools = 1 .. N,
         \A d \in X, j \in 1 .. N : A!Tool(d, f.tools[j], <<n, j>>) \in X
  PROVE  A!Tools(c, f, n) \in X
<1> DEFINE op(d, j) == A!Tool(d, f.tools[j], <<n, j>>)
           step == [p \in X \X (1 .. N) |-> op(p[1], p[2])]
           Rec(g) == g = [s \in SUBSET DOMAIN f.tools |->
                            IF s = {} THEN c
                            ELSE op(g[s \ {A!Latest(s)}], A!Latest(s))]
           it == CHOOSE g : Rec(g)
<1>1. A!Tools(c, f, n) = it[DOMAIN f.tools]
  BY DEF A!Tools, A!ForEach, A!MapThenFoldSet
<1>2. A!Tools(c, f, n) = it[1 .. N]
  BY <1>1
<1>3. \A d \in X, j \in 1 .. N : op(d, j) \in X
  OBVIOUS
<1> HIDE DEF op
<1>4. step \in [X \X (1 .. N) -> X] /\ \A d \in X, j \in 1 .. N : step[<<d, j>>] = op(d, j)
  BY <1>3
<1> HIDE DEF step
<1>m. \A s \in SUBSET (1 .. N) : s # {} => A!Latest(s) = Max(s) /\ Max(s) \in 1 .. N
  BY MaxOf, Zenon DEF A!Latest, Max
<1>5. \E g : Rec(g)
  <2>1. PICK g \in [SUBSET (1 .. N) -> X] : Folded(c, step, g, N)
    BY <1>4, FoldedExists, Zenon
  <2>2. \A s \in SUBSET (1 .. N) :
          g[s] = IF s = {} THEN c
                 ELSE op(g[s \ {A!Latest(s)}], A!Latest(s))
    <3> SUFFICES ASSUME NEW s \in SUBSET (1 .. N), s # {}
                 PROVE  g[s] = op(g[s \ {A!Latest(s)}], A!Latest(s))
      BY <2>1, Zenon DEF Folded
    <3>1. g[s] = step[<<g[s \ {Max(s)}], Max(s)>>]
      BY <2>1, Zenon DEF Folded
    <3>2. g[s \ {Max(s)}] \in X
      BY <2>1, Zenon
    <3>3. A!Latest(s) = Max(s)
      BY <1>m
    <3> QED BY <3>1, <3>2, <3>3, <1>4, <1>m
  <2>3. g = [s \in SUBSET (1 .. N) |-> g[s]]
    OBVIOUS
  <2>4. Rec(g)
    BY <2>2, <2>3, Zenon
  <2> QED BY <2>4, Zenon
<1>6. Rec(it)
  <2> HIDE DEF Rec
  <2> QED BY <1>5
<1> HIDE DEF it
<1>7. \A s \in SUBSET (1 .. N) :
        it[s] = IF s = {} THEN c ELSE op(it[s \ {Max(s)}], Max(s))
  <2>1. \A s \in SUBSET (1 .. N) : s # {} => A!Latest(s) = Max(s)
    BY <1>m
  <2> QED BY <1>6, <1>m, <2>1, Zenon
<1>8. it[{}] \in X
  BY <1>7, Zenon
<1>9. \A s \in SUBSET (1 .. N) : s # {} /\ it[s \ {Max(s)}] \in X => it[s] \in X
  BY <1>7, <1>3, <1>m, Zenon
<1>10. it[1 .. N] \in X
  BY <1>8, <1>9, FoldedStays, Zenon
<1> QED BY <1>2, <1>10

-----------------------------------------------------------------------------
(* The Anthropic converter's types.                                        *)

\* The fields of a converter and of its blocks.
LEMMA AFields ==
  ASSUME NEW c \in AConv
  PROVE  /\ c.started \in BOOLEAN /\ c.finished \in BOOLEAN /\ c.ended \in Finishes
         /\ c.tokens \in Nat /\ c.anonKey \in Int /\ c.idToKey \in [ToolIds -> Int]
         /\ c.blocks \in Seq(ABlock) /\ c.out \in Seq(AEvent)
  BY DEF AConv

\* Emit only adds to what the client received.
LEMMA AEmit ==
  ASSUME NEW c \in AConv, NEW w \in Seq(AEvent)
  PROVE  /\ Steady(c, A!Emit(c, w))
         /\ A!Emit(c, w).out = c.out \o w
         /\ A!Emit(c, w).blocks = c.blocks
         /\ A!Emit(c, w).anonKey = c.anonKey /\ A!Emit(c, w).idToKey = c.idToKey
<1>1. c.out \o w \in Seq(AEvent)
  BY AFields
<1> HIDE DEF AEvent
<1> DEFINE o == c.out \o w
<1>2. A!Emit(c, w) = [c EXCEPT !.out = o]
  BY DEF A!Emit
<1>3. o \in Seq(AEvent)
  BY <1>1
<1> HIDE DEF o
<1>4. /\ [c EXCEPT !.out = o] \in AConv
      /\ [c EXCEPT !.out = o].out = o
      /\ Steady(c, [c EXCEPT !.out = o])
      /\ [c EXCEPT !.out = o].blocks = c.blocks
      /\ [c EXCEPT !.out = o].anonKey = c.anonKey
      /\ [c EXCEPT !.out = o].idToKey = c.idToKey
  BY <1>3, Zenon DEF AConv, Steady
<1> QED BY <1>2, <1>4 DEF o

\* blockOf finds a block of the converter, or none.
LEMMA ABlockOf ==
  ASSUME NEW c \in AConv, NEW kind, NEW key, NEW i, i = A!BlockOf(c, kind, key)
  PROVE  /\ i # 0 => /\ i \in DOMAIN c.blocks /\ i \in Nat
                     /\ c.blocks[i].kind = kind /\ c.blocks[i].key = key
                     /\ c.blocks[i].state # "dropped"
         /\ i = 0 => \A j \in DOMAIN c.blocks : ~ (/\ c.blocks[j].kind = kind /\ c.blocks[j].key = key
                                                   /\ c.blocks[j].state # "dropped")
<1> DEFINE at == {j \in DOMAIN c.blocks : /\ c.blocks[j].kind = kind
                                          /\ c.blocks[j].key = key
                                          /\ c.blocks[j].state # "dropped"}
<1>1. i = IF at = {} THEN 0 ELSE CHOOSE j \in at : TRUE
  BY DEF A!BlockOf
<1>2. DOMAIN c.blocks \subseteq Nat \ {0}
  BY AFields
<1>3. at # {} => i \in at
  BY <1>1
<1>4. at = {} => i = 0
  BY <1>1
<1> QED BY <1>2, <1>3, <1>4

\* A block is added, at once or held.
LEMMA AOpenBlock ==
  ASSUME NEW c \in AConv, NEW b \in ABlock, NEW hold \in BOOLEAN, NEW d,
         d = A!OpenBlock(c, b, hold)
  PROVE  /\ Steady(c, d)
         /\ d.blocks = Append(c.blocks, [b EXCEPT !.state = IF hold THEN "held" ELSE "open"])
         /\ d.out = IF hold THEN c.out ELSE c.out \o <<A!BlockStart(Len(c.blocks) + 1, b)>>
         /\ d.anonKey = c.anonKey /\ d.idToKey = c.idToKey
<1> DEFINE st == IF hold THEN "held" ELSE "open"
           bs == Append(c.blocks, [b EXCEPT !.state = st])
           e == [c EXCEPT !.blocks = bs]
           w == <<A!BlockStart(Len(c.blocks) + 1, b)>>
<1>1. bs \in Seq(ABlock)
  <2>1. [b EXCEPT !.state = st] \in ABlock
    BY DEF ABlock
  <2> HIDE DEF ABlock
  <2> QED BY <2>1, AFields
<1>2. w \in Seq(AEvent)
  <2>1. A!BlockStart(Len(c.blocks) + 1, b) \in StartEvent
    BY AFields DEF A!BlockStart, StartEvent, ABlock
  <2> QED BY <2>1 DEF AEvent, BlockEvent
<1>3. /\ Steady(c, e) /\ e.blocks = bs /\ e.out = c.out
      /\ e.anonKey = c.anonKey /\ e.idToKey = c.idToKey
  <2> HIDE DEF bs
  <2> QED BY <1>1, Zenon DEF AConv, Steady
<1>4. d = IF hold THEN e ELSE A!Emit(e, w)
  BY DEF A!OpenBlock
<1> HIDE DEF e, w, bs
<1>5. CASE hold
  BY <1>3, <1>4, <1>5 DEF bs
<1>6. CASE ~hold
  <2>1. d = A!Emit(e, w) /\ e \in AConv
    BY <1>3, <1>4, <1>6 DEF Steady
  <2>2. Steady(e, d) /\ d.out = e.out \o w /\ d.blocks = e.blocks /\ d.anonKey = e.anonKey /\ d.idToKey = e.idToKey
    BY <2>1, <1>2, AEmit
  <2> QED BY <1>3, <1>6, <2>2 DEF Steady, bs, w
<1> QED BY <1>5, <1>6

\* A fragment joins its block, and goes out if the block has started.
LEMMA AAddDelta ==
  ASSUME NEW c \in AConv, NEW i \in DOMAIN c.blocks, NEW stamp \in Stamp, NEW d,
         d = A!AddDelta(c, i, stamp)
  PROVE  /\ Steady(c, d)
         /\ c.blocks[i].state = "held" =>
              /\ DOMAIN d.blocks = DOMAIN c.blocks
              /\ \A j \in DOMAIN c.blocks : /\ d.blocks[j].kind = c.blocks[j].kind
                                           /\ d.blocks[j].key = c.blocks[j].key
                                           /\ d.blocks[j].state = c.blocks[j].state
              /\ d.out = c.out
         /\ c.blocks[i].state # "held" =>
              /\ d.blocks = c.blocks
              /\ d.out = c.out \o <<A!BlockDelta(i, c.blocks[i].kind, stamp)>>
         /\ d.anonKey = c.anonKey /\ d.idToKey = c.idToKey
<1>0. c.blocks \in Seq(ABlock) /\ c.blocks[i] \in ABlock /\ i \in Nat
  BY AFields
<1>1. CASE c.blocks[i].state = "held"
  <2> DEFINE bs == [c.blocks EXCEPT ![i].deltas = Append(@, stamp)]
  <2>1. bs \in Seq(ABlock)
    <3>1. Append(c.blocks[i].deltas, stamp) \in Seq(Stamp)
      BY <1>0 DEF ABlock
    <3>2. [c.blocks[i] EXCEPT !.deltas = Append(@, stamp)] \in ABlock
      <4> HIDE DEF Stamp
      <4> QED BY <1>0, <3>1, Zenon DEF ABlock
    <3>3. bs = [c.blocks EXCEPT ![i] = [c.blocks[i] EXCEPT !.deltas = Append(@, stamp)]]
      OBVIOUS
    <3> HIDE DEF ABlock, bs
    <3> QED BY <1>0, <3>2, <3>3
  <2>2. d = [c EXCEPT !.blocks = bs]
    <3>1. d = [c EXCEPT !.blocks[i].deltas = Append(@, stamp)]
      BY <1>1 DEF A!AddDelta
    <3> QED BY <3>1 DEF AConv
  <2> HIDE DEF bs
  <2>3. Steady(c, d) /\ d.blocks = bs /\ d.out = c.out /\ d.anonKey = c.anonKey /\ d.idToKey = c.idToKey
    BY <2>1, <2>2, Zenon DEF AConv, Steady
  <2>4. DOMAIN bs = DOMAIN c.blocks
    BY DEF bs
  <2>5. \A j \in DOMAIN c.blocks : /\ bs[j].kind = c.blocks[j].kind
                                 /\ bs[j].key = c.blocks[j].key
                                 /\ bs[j].state = c.blocks[j].state
    <3>1. \A j \in DOMAIN c.blocks : j # i => bs[j] = c.blocks[j]
      BY DEF bs
    <3>2. bs[i] = [c.blocks[i] EXCEPT !.deltas = Append(c.blocks[i].deltas, stamp)]
      BY DEF bs
    <3>3. bs[i].kind = c.blocks[i].kind /\ bs[i].key = c.blocks[i].key /\ bs[i].state = c.blocks[i].state
      BY <1>0, <3>2 DEF ABlock
    <3> QED BY <3>1, <3>3
  <2> QED BY <1>1, <2>3, <2>4, <2>5
<1>2. CASE c.blocks[i].state # "held"
  <2> DEFINE w == <<A!BlockDelta(i, c.blocks[i].kind, stamp)>>
  <2>1. w \in Seq(AEvent)
    <3>1. A!BlockDelta(i, c.blocks[i].kind, stamp) \in DeltaEvent
      BY <1>0 DEF A!BlockDelta, DeltaEvent, ABlock
    <3> QED BY <3>1 DEF AEvent, BlockEvent
  <2>2. d = A!Emit(c, w)
    BY <1>2 DEF A!AddDelta
  <2> HIDE DEF w
  <2>3. Steady(c, d) /\ d.out = c.out \o w /\ d.blocks = c.blocks /\ d.anonKey = c.anonKey /\ d.idToKey = c.idToKey
    BY <2>1, <2>2, AEmit
  <2> QED BY <1>2, <2>3 DEF w
<1> QED BY <1>1, <1>2

\* A block that is let go starts or is dropped.
LEMMA FlushedType ==
  ASSUME NEW b \in ABlock
  PROVE  /\ A!Flushed(b) \in ABlock
         /\ A!Flushed(b).kind = b.kind /\ A!Flushed(b).key = b.key /\ A!Flushed(b).name = b.name
         /\ A!Flushed(b).state = IF b.state # "held" THEN b.state
                                 ELSE IF b.name THEN "open" ELSE "dropped"
         /\ b.state = "held" => A!Flushed(b).deltas = <<>> /\ (b.name => A!Flushed(b).id)
         /\ b.state # "held" => A!Flushed(b) = b
<1>1. <<>> \in Seq(Stamp)
  OBVIOUS
<1> QED BY <1>1, Zenon DEF A!Flushed, ABlock

\* What the client is told of it: its start and its fragments, or nothing.
LEMMA FlushEventsType ==
  ASSUME NEW B \in Seq(ABlock), NEW i \in DOMAIN B
  PROVE  FlushEvents(B, i) \in Seq(BlockEvent)
<1>0. B[i] \in ABlock /\ i \in Nat
  OBVIOUS
<1>1. A!BlockStart(i, A!Flushed(B[i])) \in BlockEvent
  <2>1. A!Flushed(B[i]) \in ABlock
    BY <1>0, FlushedType
  <2> QED BY <1>0, <2>1 DEF A!BlockStart, ABlock, BlockEvent, StartEvent
<1>2. ASSUME NEW j \in DOMAIN B[i].deltas
      PROVE  A!BlockDelta(i, B[i].kind, B[i].deltas[j]) \in BlockEvent
  <2>1. B[i].deltas[j] \in Stamp
    BY <1>0 DEF ABlock
  <2> QED BY <1>0, <2>1 DEF A!BlockDelta, ABlock, BlockEvent, DeltaEvent
<1>3. [j \in DOMAIN B[i].deltas |-> A!BlockDelta(i, B[i].kind, B[i].deltas[j])] \in Seq(BlockEvent)
  <2>1. DOMAIN B[i].deltas = 1 .. Len(B[i].deltas) /\ Len(B[i].deltas) \in Nat
    BY <1>0 DEF ABlock
  <2> HIDE DEF BlockEvent
  <2> QED BY <1>2, <2>1
<1>4. <<A!BlockStart(i, A!Flushed(B[i]))>> \in Seq(BlockEvent)
  BY <1>1
<1> DEFINE u == <<A!BlockStart(i, A!Flushed(B[i]))>>
           v == [j \in DOMAIN B[i].deltas |-> A!BlockDelta(i, B[i].kind, B[i].deltas[j])]
<1>5. u \in Seq(BlockEvent) /\ v \in Seq(BlockEvent)
  BY <1>3, <1>4
<1>6. FlushEvents(B, i) = IF B[i].state = "held" /\ B[i].name THEN u \o v ELSE <<>>
  BY DEF FlushEvents
<1> HIDE DEF u, v
<1> QED BY <1>5, <1>6

\* What it is told of a block's end.
LEMMA StopEventsType ==
  ASSUME NEW B \in Seq(ABlock), NEW i \in DOMAIN B
  PROVE  StopEvents(B, i) \in Seq(BlockEvent)
<1>1. A!BlockStop(i) \in BlockEvent
  BY DEF A!BlockStop, BlockEvent, StopEvent
<1> QED BY <1>1 DEF StopEvents

\* Concatenation of what a converter emits is associative.
LEMMA Associates == \A s, u, v \in Seq(AEvent) : (s \o u) \o v = s \o (u \o v)
  BY ConcatAssociative

\* The latest of a set of places, as the converters' loops pick it.
LEMMA LatestIsMax == ASSUME NEW s PROVE A!Latest(s) = Max(s)
  BY Zenon DEF A!Latest, Max

\* There is such a loop for every sequence of sequences.
LEMMA EmittedExists ==
  ASSUME NEW c \in AConv, NEW n \in Nat, NEW evs \in [1 .. n -> Seq(BlockEvent)]
  PROVE  \E it \in [SUBSET (1 .. n) -> AConv] : Emitted(c, it, evs, n)
<1> DEFINE step == [p \in AConv \X (1 .. n) |-> A!Emit(p[1], evs[p[2]])]
<1>1. \A d \in AConv, i \in 1 .. n : A!Emit(d, evs[i]) \in AConv
  <2> SUFFICES ASSUME NEW d \in AConv, NEW i \in 1 .. n
               PROVE  A!Emit(d, evs[i]) \in AConv
    OBVIOUS
  <2>1. evs[i] \in Seq(AEvent)
    <3>1. BlockEvent \subseteq AEvent
      BY DEF AEvent
    <3> HIDE DEF BlockEvent, AEvent
    <3>2. evs[i] \in Seq(BlockEvent)
      OBVIOUS
    <3> QED BY <3>1, <3>2, SeqMonotonic
  <2> QED BY <2>1, AEmit DEF Steady
<1>2. step \in [AConv \X (1 .. n) -> AConv]
      /\ \A d \in AConv, i \in 1 .. n : step[<<d, i>>] = A!Emit(d, evs[i])
  <2> HIDE DEF AConv, BlockEvent
  <2> QED BY <1>1
<1> HIDE DEF step
<1>3. PICK g \in [SUBSET (1 .. n) -> AConv] : Folded(c, step, g, n)
  BY <1>2, FoldedExists, Zenon
<1>4. \A s \in SUBSET (1 .. n) : s # {} => Max(s) \in 1 .. n /\ s \ {Max(s)} \in SUBSET (1 .. n)
  BY MaxOf, Zenon
<1>5. ASSUME NEW s \in SUBSET (1 .. n)
      PROVE  g[s] = IF s = {} THEN c ELSE A!Emit(g[s \ {Max(s)}], evs[Max(s)])
  <2>1. g[s] = IF s = {} THEN c ELSE step[<<g[s \ {Max(s)}], Max(s)>>]
    BY <1>3, Zenon DEF Folded
  <2>2. s # {} => g[s \ {Max(s)}] \in AConv /\ Max(s) \in 1 .. n
    <3> HIDE DEF AConv
    <3> QED BY <1>3, <1>4
  <2> HIDE DEF AConv
  <2> QED BY <2>1, <2>2, <1>2, Zenon
<1> QED BY <1>5, Zenon DEF Emitted

\* It emits their concatenation.
LEMMA EmittedAll ==
  ASSUME NEW c \in AConv, NEW n \in Nat, NEW evs, NEW it, NEW g,
         Emitted(c, it, evs, n), Summed(g, evs, n)
  PROVE  Total(c, it, g, n)
<1>s. /\ evs \in [1 .. n -> Seq(BlockEvent)] /\ g \in [0 .. n -> Seq(BlockEvent)]
      /\ g[0] = <<>> /\ \A i \in 1 .. n : g[i] = g[i - 1] \o evs[i]
  <2> HIDE DEF BlockEvent
  <2> QED BY Zenon DEF Summed
<1> DEFINE P == {k \in 0 .. n : it[1 .. k] = A!Emit(c, g[k])}
<1>0. c.out \in Seq(AEvent) /\ c = [c EXCEPT !.out = c.out]
  BY DEF AConv
<1>1. 0 \in P
  <2>1. it[1 .. 0] = c
    <3>1. 1 .. 0 = {} /\ {} \in SUBSET (1 .. n)
      OBVIOUS
    <3> QED BY <3>1, Zenon DEF Emitted
  <2>2. c.out \o <<>> = c.out
    BY <1>0, ConcatEmptySeq
  <2>3. A!Emit(c, <<>>) = c
    <3> DEFINE none == <<>>
    <3>1. A!Emit(c, none) = [c EXCEPT !.out = c.out \o none]
      BY DEF A!Emit
    <3> HIDE DEF none
    <3> QED BY <1>0, <2>2, <3>1 DEF none
  <2> QED BY <1>s, <2>1, <2>3
<1>2. ASSUME NEW k \in 0 .. n - 1, k \in P PROVE k + 1 \in P
  <2> DEFINE s == 1 .. k + 1
             w == g[k]
             v == evs[k + 1]
             d == A!Emit(c, w)
  <2>1. /\ s \in SUBSET (1 .. n) /\ s # {} /\ Max(s) = k + 1 /\ s \ {Max(s)} = 1 .. k
    <3>1. s \in SUBSET (1 .. n) /\ k + 1 \in s
      OBVIOUS
    <3>2. Max(s) \in 1 .. k + 1 /\ Max(s) >= k + 1
      <4>1. s \in SUBSET (1 .. n) /\ s # {}
        BY <3>1
      <4>2. Max(s) \in s /\ \A y \in s : Max(s) >= y
        <5> HIDE DEF s
        <5> QED BY <4>1, MaxOf, Zenon
      <4> DEFINE m == Max(s)
      <4> HIDE DEF m
      <4>3. m \in s /\ \A y \in s : m >= y
        BY <4>2 DEF m
      <4>4. m \in 1 .. k + 1 /\ m >= k + 1
        BY <4>3, <3>1
      <4> QED BY <4>4 DEF m
    <3>3. Max(s) = k + 1
      <4> DEFINE m == Max(s)
      <4> HIDE DEF m
      <4>1. m \in 1 .. k + 1 /\ m >= k + 1
        BY <3>2 DEF m
      <4>2. m = k + 1
        BY <4>1, k + 1 \in 1 .. k + 1
      <4> QED BY <4>2 DEF m
    <3>4. s \ {k + 1} = 1 .. k
      <4>1. s = (1 .. k) \cup {k + 1} /\ k + 1 \notin 1 .. k
        OBVIOUS
      <4> QED BY <4>1
    <3> QED BY <3>1, <3>3, <3>4
  <2>2. it[s] = A!Emit(it[1 .. k], v)
    <3> HIDE DEF s
    <3> QED BY <2>1, Zenon DEF Emitted
  <2>3. it[1 .. k] = d
    BY <1>2
  <2>4. w \in Seq(BlockEvent) /\ v \in Seq(BlockEvent) /\ g[k + 1] = w \o v
    <3>1. k \in 0 .. n /\ k + 1 \in 1 .. n /\ (k + 1) - 1 = k
      OBVIOUS
    <3> HIDE DEF BlockEvent
    <3> QED BY <1>s, <3>1, Zenon
  <2>5. w \in Seq(AEvent) /\ v \in Seq(AEvent)
    <3>1. BlockEvent \subseteq AEvent
      BY DEF AEvent
    <3> HIDE DEF BlockEvent, AEvent, w, v
    <3> QED BY <2>4, <3>1, SeqMonotonic
  <2>6. (c.out \o w) \o v = c.out \o (w \o v)
    <3>1. c.out \in Seq(AEvent)
      BY <1>0
    <3> HIDE DEF w, v, AEvent
    <3> QED BY <2>5, <3>1, Associates, Zenon
  <2>7. A!Emit(d, v) = A!Emit(c, w \o v)
    <3> HIDE DEF w, v
    <3>1. A!Emit(d, v) = [c EXCEPT !.out = (c.out \o w) \o v]
      BY <1>0, Zenon DEF A!Emit, AConv
    <3>2. A!Emit(c, w \o v) = [c EXCEPT !.out = c.out \o (w \o v)]
      BY DEF A!Emit
    <3> QED BY <2>6, <3>1, <3>2
  <2>8. k + 1 \in 0 .. n
    OBVIOUS
  <2> HIDE DEF s, w, v, d
  <2>9. it[1 .. k + 1] = A!Emit(c, g[k + 1])
    BY <2>2, <2>3, <2>4, <2>7 DEF s, d
  <2> QED BY <2>8, <2>9
<1> HIDE DEF P
<1>3. \A k \in 0 .. n : k \in P
  BY <1>1, <1>2, Upwards
<1> QED BY <1>3 DEF P, Total

\* FlushAll lets every held block go, in the order of the blocks.
LEMMA AFlushAll ==
  ASSUME NEW c \in AConv, NEW d, d = A!FlushAll(c)
  PROVE  /\ Steady(c, d)
         /\ d.blocks = [i \in DOMAIN c.blocks |-> A!Flushed(c.blocks[i])]
         /\ d.anonKey = c.anonKey /\ d.idToKey = c.idToKey
         /\ \E g \in [0 .. Len(c.blocks) -> Seq(BlockEvent)] :
              /\ g[0] = <<>>
              /\ \A i \in 1 .. Len(c.blocks) : g[i] = g[i - 1] \o FlushEvents(c.blocks, i)
              /\ d.out = c.out \o g[Len(c.blocks)]
<1> DEFINE B == c.blocks
           n == Len(B)
           evs == [i \in DOMAIN B |-> FlushEvents(B, i)]
           bs == [i \in DOMAIN B |-> A!Flushed(B[i])]
<1>0. B \in Seq(ABlock) /\ n \in Nat /\ DOMAIN B = 1 .. n
  BY AFields
<1>1. evs \in [1 .. n -> Seq(BlockEvent)]
  <2> HIDE DEF B
  <2> QED BY <1>0, FlushEventsType
<1>2. PICK g \in [0 .. n -> Seq(BlockEvent)] :
        /\ g[0] = <<>>
        /\ \A i \in 1 .. n : g[i] = g[i - 1] \o evs[i]
        /\ FlattenSeq(evs) = g[n]
  <2> HIDE DEF evs, n
  <2> QED BY <1>0, <1>1, Flattening, ZenonT(40)
<1>4. bs \in Seq(ABlock)
  <2>1. \A i \in 1 .. n : A!Flushed(B[i]) \in ABlock
    BY <1>0, FlushedType
  <2> HIDE DEF ABlock, n, B
  <2> QED BY <1>0, <2>1
<1> DEFINE e == [c EXCEPT !.blocks = bs]
<1>6. /\ Steady(c, e) /\ e.blocks = bs /\ e.out = c.out
      /\ e.anonKey = c.anonKey /\ e.idToKey = c.idToKey
  <2> HIDE DEF bs
  <2> QED BY <1>4, Zenon DEF AConv, Steady
<1> HIDE DEF e
<1>b. e \in AConv
  BY <1>6 DEF Steady
<1> DEFINE Rec(h) == h = [s \in SUBSET DOMAIN B |->
                             IF s = {} THEN e
                             ELSE A!Emit(h[s \ {A!Latest(s)}], FlushEvents(B, A!Latest(s)))]
           it == CHOOSE h : Rec(h)
<1>m. \A s \in SUBSET (1 .. n) : s # {} => A!Latest(s) = Max(s) /\ Max(s) \in 1 .. n
  <2> HIDE DEF n
  <2>1. \A s \in SUBSET (1 .. n) : s # {} => Max(s) \in 1 .. n
    BY <1>0, MaxOf, Zenon
  <2>2. \A s : A!Latest(s) = Max(s)
    BY LatestIsMax
  <2> QED BY <2>1, <2>2
<1>10. \A i \in 1 .. n : evs[i] = FlushEvents(B, i)
  BY <1>0
<1> HIDE DEF evs
<1>e. \E h : Rec(h)
  <2>1. PICK h \in [SUBSET (1 .. n) -> AConv] : Emitted(e, h, evs, n)
    <3> HIDE DEF n
    <3> QED BY <1>0, <1>1, <1>b, EmittedExists, ZenonT(30)
  <2>2. \A s \in SUBSET (1 .. n) :
          h[s] = IF s = {} THEN e
                 ELSE A!Emit(h[s \ {A!Latest(s)}], FlushEvents(B, A!Latest(s)))
    <3> HIDE DEF AConv, n, B
    <3> QED BY <2>1, <1>m, <1>10, Zenon DEF Emitted
  <2>3. h = [s \in SUBSET (1 .. n) |-> h[s]]
    OBVIOUS
  <2>4. Rec(h)
    BY <2>2, <2>3, <1>0, Zenon
  <2> QED BY <2>4, Zenon
<1>r. Rec(it)
  <2> HIDE DEF Rec
  <2> QED BY <1>e
<1>d. d = it[1 .. n]
  BY <1>0 DEF A!FlushAll, FlushEvents, A!ForEach, A!MapThenFoldSet, e
<1> HIDE DEF it
<1>l. Emitted(e, it, evs, n)
  <2>1. \A s \in SUBSET (1 .. n) :
          it[s] = IF s = {} THEN e
                  ELSE A!Emit(it[s \ {A!Latest(s)}], FlushEvents(B, A!Latest(s)))
    BY <1>r, <1>0, Zenon
  <2> HIDE DEF n, B, Rec
  <2> QED BY <2>1, <1>m, <1>10, Zenon DEF Emitted
<1>5. d = A!Emit(e, g[n])
  <2> HIDE DEF n
  <2>1. Summed(g, evs, n)
    <3> HIDE DEF BlockEvent
    <3> QED BY <1>1, <1>2 DEF Summed
  <2>2. n \in Nat
    BY <1>0
  <2> HIDE DEF B
  <2>3. it[1 .. n] = A!Emit(e, g[n])
    <3> HIDE DEF AConv
    <3>1. Total(e, it, g, n)
      BY <1>b, <1>l, <2>1, <2>2, EmittedAll
    <3> QED BY <3>1 DEF Total
  <2> QED BY <1>d, <2>3
<1>7. g[n] \in Seq(AEvent)
  <2>1. g[n] \in Seq(BlockEvent)
    BY <1>0, <1>2
  <2>2. BlockEvent \subseteq AEvent
    BY DEF AEvent
  <2> HIDE DEF BlockEvent, AEvent, n
  <2> QED BY <2>1, <2>2
<1>8. d = A!Emit(e, g[n]) /\ e \in AConv
  BY <1>5, <1>b
<1>9. /\ Steady(e, d) /\ d.out = e.out \o g[n] /\ d.blocks = e.blocks
      /\ d.anonKey = e.anonKey /\ d.idToKey = e.idToKey
  BY <1>7, <1>8, AEmit, ZenonT(30)
<1> QED BY <1>2, <1>6, <1>9, <1>10, Zenon DEF Steady

\* StopBlocks stops every open block, in the order of the blocks.
LEMMA AStopBlocks ==
  ASSUME NEW c \in AConv, NEW d, d = A!StopBlocks(c)
  PROVE  /\ Steady(c, d)
         /\ d.blocks = c.blocks
         /\ d.anonKey = c.anonKey /\ d.idToKey = c.idToKey
         /\ \E g \in [0 .. Len(c.blocks) -> Seq(BlockEvent)] :
              /\ g[0] = <<>>
              /\ \A i \in 1 .. Len(c.blocks) : g[i] = g[i - 1] \o StopEvents(c.blocks, i)
              /\ d.out = c.out \o g[Len(c.blocks)]
<1> DEFINE B == c.blocks
           n == Len(B)
           evs == [i \in DOMAIN B |-> StopEvents(B, i)]
<1>0. B \in Seq(ABlock) /\ n \in Nat /\ DOMAIN B = 1 .. n
  BY AFields
<1>1. evs \in [1 .. n -> Seq(BlockEvent)]
  <2> HIDE DEF B
  <2> QED BY <1>0, StopEventsType
<1>2. PICK g \in [0 .. n -> Seq(BlockEvent)] :
        /\ g[0] = <<>>
        /\ \A i \in 1 .. n : g[i] = g[i - 1] \o evs[i]
        /\ FlattenSeq(evs) = g[n]
  <2> HIDE DEF evs, n
  <2> QED BY <1>0, <1>1, Flattening, ZenonT(40)
<1> DEFINE Rec(h) == h = [s \in SUBSET DOMAIN B |->
                             IF s = {} THEN c
                             ELSE A!Emit(h[s \ {A!Latest(s)}], StopEvents(B, A!Latest(s)))]
           it == CHOOSE h : Rec(h)
<1>m. \A s \in SUBSET (1 .. n) : s # {} => A!Latest(s) = Max(s) /\ Max(s) \in 1 .. n
  <2> HIDE DEF n
  <2>1. \A s \in SUBSET (1 .. n) : s # {} => Max(s) \in 1 .. n
    BY <1>0, MaxOf, Zenon
  <2>2. \A s : A!Latest(s) = Max(s)
    BY LatestIsMax
  <2> QED BY <2>1, <2>2
<1>10. \A i \in 1 .. n : evs[i] = StopEvents(B, i)
  BY <1>0
<1> HIDE DEF evs
<1>e. \E h : Rec(h)
  <2>1. PICK h \in [SUBSET (1 .. n) -> AConv] : Emitted(c, h, evs, n)
    <3> HIDE DEF n
    <3> QED BY <1>0, <1>1, EmittedExists, ZenonT(30)
  <2>2. \A s \in SUBSET (1 .. n) :
          h[s] = IF s = {} THEN c
                 ELSE A!Emit(h[s \ {A!Latest(s)}], StopEvents(B, A!Latest(s)))
    <3> HIDE DEF AConv, n, B
    <3> QED BY <2>1, <1>m, <1>10, Zenon DEF Emitted
  <2>3. h = [s \in SUBSET (1 .. n) |-> h[s]]
    OBVIOUS
  <2>4. Rec(h)
    BY <2>2, <2>3, <1>0, Zenon
  <2> QED BY <2>4, Zenon
<1>r. Rec(it)
  <2> HIDE DEF Rec
  <2> QED BY <1>e
<1>d. d = it[1 .. n]
  BY <1>0 DEF A!StopBlocks, StopEvents, A!ForEach, A!MapThenFoldSet
<1> HIDE DEF it
<1>l. Emitted(c, it, evs, n)
  <2>1. \A s \in SUBSET (1 .. n) :
          it[s] = IF s = {} THEN c
                  ELSE A!Emit(it[s \ {A!Latest(s)}], StopEvents(B, A!Latest(s)))
    BY <1>r, <1>0, Zenon
  <2> HIDE DEF n, B, Rec
  <2> QED BY <2>1, <1>m, <1>10, Zenon DEF Emitted
<1>5. d = A!Emit(c, g[n])
  <2> HIDE DEF n
  <2>1. Summed(g, evs, n)
    <3> HIDE DEF BlockEvent
    <3> QED BY <1>1, <1>2 DEF Summed
  <2>2. n \in Nat
    BY <1>0
  <2> HIDE DEF B
  <2>3. it[1 .. n] = A!Emit(c, g[n])
    <3> HIDE DEF AConv
    <3>1. Total(c, it, g, n)
      BY <1>l, <2>1, <2>2, EmittedAll
    <3> QED BY <3>1 DEF Total
  <2> QED BY <1>d, <2>3
<1>7. g[n] \in Seq(AEvent)
  <2>1. g[n] \in Seq(BlockEvent)
    BY <1>0, <1>2
  <2>2. BlockEvent \subseteq AEvent
    BY DEF AEvent
  <2> HIDE DEF BlockEvent, AEvent, n
  <2> QED BY <2>1, <2>2
<1>8. d = A!Emit(c, g[n])
  BY <1>5
<1>9. /\ Steady(c, d) /\ d.out = c.out \o g[n] /\ d.blocks = c.blocks
      /\ d.anonKey = c.anonKey /\ d.idToKey = c.idToKey
  BY <1>7, <1>8, AEmit, Zenon
<1> QED BY <1>2, <1>9, <1>10, Zenon

-----------------------------------------------------------------------------
(* The order of a message's events.                                        *)

\* The places of a concatenation.
LEMMA Longer ==
  ASSUME NEW E, NEW s \in Seq(E), NEW w \in Seq(E), NEW t, t = s \o w
  PROVE  /\ t \in Seq(E) /\ Len(t) = Len(s) + Len(w) /\ Len(s) \in Nat /\ Len(w) \in Nat
         /\ DOMAIN s = 1 .. Len(s) /\ DOMAIN t = 1 .. Len(t) /\ DOMAIN w = 1 .. Len(w)
         /\ \A p \in DOMAIN s : p \in DOMAIN t /\ t[p] = s[p] /\ p <= Len(s) /\ p \in Nat
         /\ \A p \in DOMAIN t : p \in DOMAIN s \/ (/\ p > Len(s) /\ p \in Nat /\ p - Len(s) \in DOMAIN w
                                                   /\ t[p] = w[p - Len(s)])
         /\ \A j \in DOMAIN w : Len(s) + j \in DOMAIN t /\ t[Len(s) + j] = w[j]
  OBVIOUS

\* The places of a sequence with one element more.
LEMMA OneLonger ==
  ASSUME NEW E, NEW s \in Seq(E), NEW e \in E, NEW t, t = s \o <<e>>
  PROVE  /\ t \in Seq(E) /\ Len(t) = Len(s) + 1 /\ Len(s) \in Nat
         /\ DOMAIN s = 1 .. Len(s) /\ DOMAIN t = 1 .. Len(t)
         /\ \A p \in DOMAIN s : p \in DOMAIN t /\ t[p] = s[p] /\ p < Len(t) /\ p \in Nat
         /\ \A p \in DOMAIN t : p \in DOMAIN s \/ p = Len(t)
         /\ Len(t) \in DOMAIN t /\ t[Len(t)] = e
  OBVIOUS

\* It keeps the order.
LEMMA StartKeeps ==
  ASSUME NEW s, NEW B, NEW n, NEW C, NEW m, NEW i, NEW e, MayStart(s, B, n, C, m, i, e)
  PROVE  BlockOrder(s \o <<e>>, C) /\ StopOrder(s \o <<e>>, C, 0)
<1>h. /\ s \in Seq(AEvent) /\ n \in Nat /\ m \in Nat /\ m >= n /\ DOMAIN B = 1 .. n /\ DOMAIN C = 1 .. m
      /\ BlockOrder(s, B) /\ StopOrder(s, B, 0)
      /\ i \in 1 .. m /\ e \in StartEvent
      /\ e.index = i /\ e.id /\ e.name /\ e.kind = C[i].kind /\ C[i].state = "open"
      /\ \A j \in 1 .. n : B[j].state = "open" => j < i
      /\ \A j \in 1 .. m : j # i => (C[j].state = "open" <=> j \in 1 .. n /\ B[j].state = "open")
      /\ \A j \in 1 .. n : C[j].kind = B[j].kind
  BY DEF MayStart
<1> DEFINE t == s \o <<e>>
<1>1. e \in AEvent /\ e.type = "content_block_start"
  BY <1>h DEF AEvent, BlockEvent, StartEvent
<1>2. /\ Starts(t) = Starts(s) \cup {Len(t)} /\ Deltas(t) = Deltas(s) /\ Stops(t) = Stops(s)
  <2>0. e \in AEvent
    BY <1>h, <1>1
  <2>1. /\ \A p \in DOMAIN s : p \in DOMAIN t /\ t[p] = s[p]
        /\ \A p \in DOMAIN t : p \in DOMAIN s \/ p = Len(t)
        /\ Len(t) \in DOMAIN t /\ t[Len(t)] = e
    BY <1>h, <2>0, OneLonger
  <2> HIDE DEF t
  <2>2. OfType(t, "content_block_start") = OfType(s, "content_block_start") \cup {Len(t)}
    BY <1>h, <1>1, <2>1 DEF OfType
  <2>3. OfType(t, "content_block_delta") = OfType(s, "content_block_delta")
    BY <1>h, <1>1, <2>1 DEF OfType
  <2>4. OfType(t, "content_block_stop") = OfType(s, "content_block_stop")
    BY <1>h, <1>1, <2>1 DEF OfType
  <2> QED BY <1>h, <2>2, <2>3, <2>4 DEF Starts, Deltas, Stops
<1>3. /\ t \in Seq(AEvent) /\ Len(t) = Len(s) + 1 /\ Len(s) \in Nat
      /\ \A p \in DOMAIN s : p \in DOMAIN t /\ t[p] = s[p] /\ p < Len(t) /\ p \in Nat
      /\ t[Len(t)] = e
  BY <1>h, <1>1, OneLonger
<1>4. Starts(s) \subseteq DOMAIN s /\ Deltas(s) \subseteq DOMAIN s /\ Stops(s) = {}
  BY <1>h DEF Starts, Deltas, Stops, OfType, StopOrder
<1> HIDE DEF t
<1>5. \A p \in Starts(s) : s[p].index \in 1 .. n /\ B[s[p].index].state = "open" /\ s[p].index < i
  BY <1>h DEF BlockOrder
<1>6. \A p \in Starts(t) : /\ t[p].index \in DOMAIN C /\ C[t[p].index].state = "open"
                          /\ t[p].kind = C[t[p].index].kind /\ t[p].id /\ t[p].name
  <2> SUFFICES ASSUME NEW p \in Starts(t)
               PROVE  /\ t[p].index \in DOMAIN C /\ C[t[p].index].state = "open"
                      /\ t[p].kind = C[t[p].index].kind /\ t[p].id /\ t[p].name
    OBVIOUS
  <2>1. CASE p = Len(t)
    BY <1>h, <1>3, <2>1
  <2>2. CASE p \in Starts(s)
    <3>1. t[p] = s[p]
      BY <1>h, <1>3, <1>4, <2>2
    <3>2. s[p].kind = B[s[p].index].kind /\ s[p].id /\ s[p].name
      BY <1>h, <2>2 DEF BlockOrder
    <3>3. s[p].index \in 1 .. n /\ s[p].index # i /\ B[s[p].index].state = "open"
      BY <1>h, <1>5, <2>2
    <3> QED BY <1>h, <3>1, <3>2, <3>3
  <2> QED BY <1>h, <1>2, <2>1, <2>2
<1>7. \A p, q \in Starts(t) : p < q => t[p].index < t[q].index
  <2> SUFFICES ASSUME NEW p \in Starts(t), NEW q \in Starts(t), p < q
               PROVE  t[p].index < t[q].index
    OBVIOUS
  <2>1. p \in Starts(s) /\ t[p] = s[p]
    BY <1>h, <1>2, <1>3, <1>4
  <2>2. CASE q = Len(t)
    BY <1>h, <1>3, <1>5, <2>1, <2>2
  <2>3. CASE q \in Starts(s)
    BY <1>h, <1>3, <1>4, <2>1, <2>3 DEF BlockOrder
  <2> QED BY <1>h, <1>2, <2>2, <2>3
<1>8. \A j \in DOMAIN C : C[j].state = "open" => \E p \in Starts(t) : t[p].index = j
  <2> SUFFICES ASSUME NEW j \in DOMAIN C, C[j].state = "open"
               PROVE  \E p \in Starts(t) : t[p].index = j
    OBVIOUS
  <2>1. CASE j = i
    BY <1>h, <1>2, <1>3, <2>1
  <2>2. CASE j # i
    <3>1. PICK p \in Starts(s) : s[p].index = j
      BY <1>h, <2>2 DEF BlockOrder
    <3> QED BY <1>h, <3>1, <1>2, <1>3, <1>4
  <2> QED BY <1>h, <2>1, <2>2
<1>9. \A p \in Deltas(t) : \E q \in Starts(t) : q < p /\ t[q].index = t[p].index /\ t[q].kind = t[p].kind
  BY <1>h, <1>2, <1>3, <1>4 DEF BlockOrder
<1>10. BlockOrder(t, C)
  BY <1>h, <1>6, <1>7, <1>8, <1>9 DEF BlockOrder
<1>11. StopOrder(t, C, 0)
  BY <1>h, <1>2, <1>4 DEF StopOrder
<1> QED BY <1>h, <1>10, <1>11 DEF t

\* Deltas of a block that has started.
LEMMA DeltasKeep ==
  ASSUME NEW s \in Seq(AEvent), NEW B, BlockOrder(s, B), StopOrder(s, B, 0),
         NEW i \in DOMAIN B, B[i].state = "open", NEW w \in Seq(DeltaEvent),
         \A j \in DOMAIN w : w[j].index = i /\ w[j].kind = B[i].kind
  PROVE  BlockOrder(s \o w, B) /\ StopOrder(s \o w, B, 0)
<1> DEFINE t == s \o w
<1>0. DeltaEvent \subseteq AEvent /\ \A e \in DeltaEvent : e.type = "content_block_delta"
  BY DEF AEvent, BlockEvent, DeltaEvent
<1>1. w \in Seq(AEvent) /\ \A j \in DOMAIN w : w[j].type = "content_block_delta"
  <2>1. \A j \in DOMAIN w : w[j] \in DeltaEvent
    OBVIOUS
  <2> HIDE DEF DeltaEvent
  <2> QED BY <1>0, <2>1
<1>3. /\ t \in Seq(AEvent) /\ Len(t) = Len(s) + Len(w) /\ Len(s) \in Nat
      /\ \A p \in DOMAIN s : p \in DOMAIN t /\ t[p] = s[p] /\ p <= Len(s) /\ p \in Nat
      /\ \A p \in DOMAIN t : p \in DOMAIN s \/ (/\ p > Len(s) /\ p \in Nat /\ p - Len(s) \in DOMAIN w
                                                /\ t[p] = w[p - Len(s)])
  BY <1>1, Longer
<1> HIDE DEF t
<1>2. /\ Starts(t) = Starts(s) /\ Stops(t) = Stops(s) /\ Stops(s) = {} /\ Deltas(s) \subseteq Deltas(t)
      /\ Starts(s) \subseteq DOMAIN s /\ Deltas(s) \subseteq DOMAIN s
      /\ \A p \in Deltas(t) : p \in Deltas(s) \/ (p > Len(s) /\ t[p].index = i /\ t[p].kind = B[i].kind)
  <2>1. Stops(s) = {}
    BY DEF StopOrder
  <2>2. \A y : OfType(t, y) = OfType(s, y) \cup {p \in DOMAIN t : p \notin DOMAIN s /\ t[p].type = y}
    BY <1>3 DEF OfType
  <2>3. \A p \in DOMAIN t : p \notin DOMAIN s =>
          t[p].type = "content_block_delta" /\ p > Len(s) /\ t[p].index = i /\ t[p].kind = B[i].kind
    BY <1>1, <1>3
  <2>4. /\ OfType(t, "content_block_start") = OfType(s, "content_block_start")
        /\ OfType(t, "content_block_stop") = OfType(s, "content_block_stop")
        /\ OfType(s, "content_block_delta") \subseteq OfType(t, "content_block_delta")
    BY <2>2, <2>3, Zenon
  <2>5. \A p \in OfType(t, "content_block_delta") :
          p \in OfType(s, "content_block_delta") \/ (p > Len(s) /\ t[p].index = i /\ t[p].kind = B[i].kind)
    BY <2>2, <2>3
  <2>6. \A y : OfType(s, y) \subseteq DOMAIN s
    BY DEF OfType
  <2> QED BY <2>1, <2>4, <2>5, <2>6 DEF Starts, Deltas, Stops
<1>4. PICK q \in Starts(s) : s[q].index = i
  BY DEF BlockOrder
<1>5. s[q].kind = B[i].kind /\ q <= Len(s) /\ t[q] = s[q] /\ q \in Nat
  BY <1>2, <1>3, <1>4 DEF BlockOrder
<1>6. \A p \in Deltas(t) : \E r \in Starts(t) : r < p /\ t[r].index = t[p].index /\ t[r].kind = t[p].kind
  <2> SUFFICES ASSUME NEW p \in Deltas(t)
               PROVE  \E r \in Starts(t) : r < p /\ t[r].index = t[p].index /\ t[r].kind = t[p].kind
    OBVIOUS
  <2>1. CASE p \in Deltas(s)
    <3>1. PICK r \in Starts(s) : r < p /\ s[r].index = s[p].index /\ s[r].kind = s[p].kind
      BY <2>1 DEF BlockOrder
    <3>2. t[r] = s[r] /\ t[p] = s[p] /\ r \in Starts(t)
      BY <1>2, <1>3, <2>1
    <3> QED BY <3>1, <3>2
  <2>2. CASE p > Len(s) /\ t[p].index = i /\ t[p].kind = B[i].kind
    <3>1. p \in DOMAIN t /\ p \in Nat
      BY <1>3, <2>2 DEF Deltas, OfType
    <3>2. q < p
      BY <1>3, <1>5, <2>2, <3>1
    <3> QED BY <1>2, <1>4, <1>5, <2>2, <3>2
  <2> QED BY <1>2, <2>1, <2>2
<1>7. BlockOrder(t, B)
  <2>1. \A p \in Starts(t) : t[p] = s[p] /\ p \in Starts(s)
    BY <1>2, <1>3
  <2> QED BY <1>2, <1>6, <2>1, SMTT(30) DEF BlockOrder
<1>8. StopOrder(t, B, 0)
  BY <1>2 DEF StopOrder
<1> QED BY <1>7, <1>8 DEF t

\* Order is about open blocks only.
LEMMA SameOpen ==
  ASSUME NEW s, NEW B, NEW C, NEW k, DOMAIN B = DOMAIN C, 1 .. k \subseteq DOMAIN B,
         BlockOrder(s, B), StopOrder(s, B, k),
         \A i \in DOMAIN B : C[i].kind = B[i].kind /\ (C[i].state = "open" <=> B[i].state = "open")
  PROVE  BlockOrder(s, C) /\ StopOrder(s, C, k)
<1>1. BlockOrder(s, C)
  BY DEF BlockOrder
<1>2. StopOrder(s, C, k)
  BY DEF StopOrder
<1> QED BY <1>1, <1>2

\* Only kinds, keys and states matter to HoldOrder.
LEMMA SameHold ==
  ASSUME NEW B, NEW C, DOMAIN B = DOMAIN C, HoldOrder(B),
         \A i \in DOMAIN B : C[i].kind = B[i].kind /\ C[i].key = B[i].key /\ C[i].state = B[i].state
  PROVE  HoldOrder(C)
BY DEF HoldOrder

\* Concatenation associates.
\* Letting the held blocks go keeps the order of the blocks and of the
\* events.
LEMMA FlushKeeps ==
  ASSUME NEW s \in Seq(AEvent), NEW B \in Seq(ABlock), NEW n \in Nat, n = Len(B),
         BlockOrder(s, B), StopOrder(s, B, 0), HoldOrder(B),
         NEW g \in [0 .. n -> Seq(BlockEvent)], g[0] = <<>>,
         \A i \in 1 .. n : g[i] = g[i - 1] \o FlushEvents(B, i),
         NEW C, C = [i \in DOMAIN B |-> A!Flushed(B[i])]
  PROVE  BlockOrder(s \o g[n], C) /\ StopOrder(s \o g[n], C, 0)
<1> DEFINE part(k) == [i \in 1 .. n |-> IF i <= k THEN A!Flushed(B[i]) ELSE B[i]]
           P == {k \in 0 .. n : BlockOrder(s \o g[k], part(k)) /\ StopOrder(s \o g[k], part(k), 0)}
<1>a. \A i \in 1 .. n : B[i] \in ABlock
  OBVIOUS
<1>b. BlockEvent \subseteq AEvent
  BY DEF AEvent
<1>c. \A k \in 0 .. n : g[k] \in Seq(AEvent)
  <2> SUFFICES ASSUME NEW k \in 0 .. n
               PROVE  g[k] \in Seq(AEvent)
    OBVIOUS
  <2>1. g[k] \in Seq(BlockEvent)
    BY Zenon
  <2> QED BY <2>1, <1>b, SeqMonotonic
<1>d. DOMAIN B = 1 .. n
  OBVIOUS
<1>0. 0 \in P
  <2>1. part(0) = B
    OBVIOUS
  <2>2. s \o g[0] = s
    BY ConcatEmptySeq
  <2>3. BlockOrder(s \o g[0], part(0)) /\ StopOrder(s \o g[0], part(0), 0)
    <3> HIDE DEF part
    <3> QED BY <2>1, <2>2
  <2> HIDE DEF part
  <2> QED BY <2>3, 0 \in 0 .. n, Zenon
<1>1. ASSUME NEW k \in 0 .. n - 1, k \in P
      PROVE  k + 1 \in P
  <2> DEFINE i == k + 1
             t == s \o g[k]
             b == B[i]
  <2>0. i \in 1 .. n /\ i \in 0 .. n /\ i - 1 = k /\ i > k
    OBVIOUS
  <2>1. b \in ABlock
    BY <1>a, <2>0
  <2>2. t \in Seq(AEvent) /\ FlushEvents(B, i) \in Seq(AEvent)
    <3>1. FlushEvents(B, i) \in Seq(BlockEvent)
      BY <2>0, <1>d, FlushEventsType
    <3>2. FlushEvents(B, i) \in Seq(AEvent)
      BY <3>1, <1>b, SeqMonotonic
    <3>3. g[k] \in Seq(AEvent)
      BY <1>c
    <3> HIDE DEF i
    <3> QED BY <3>2, <3>3
  <2>3. s \o g[i] = t \o FlushEvents(B, i)
    <3> DEFINE ev == FlushEvents(B, i)
    <3>1. g[i] = g[k] \o ev /\ g[k] \in Seq(AEvent)
      <4> HIDE DEF i
      <4>1. g[i] = g[i - 1] \o ev
        BY <2>0, Zenon
      <4> QED BY <4>1, <2>0, <1>c, SMTT(30)
    <3>2. ev \in Seq(AEvent)
      BY <2>2
    <3> HIDE DEF i, ev
    <3>3. (s \o g[k]) \o ev = s \o (g[k] \o ev)
      BY <3>1, <3>2, Associates, Zenon
    <3> QED BY <3>1, <3>3 DEF ev
  <2>4. BlockOrder(t, part(k)) /\ StopOrder(t, part(k), 0)
    BY <1>1
  <2>5. /\ DOMAIN part(k) = 1 .. n /\ DOMAIN part(i) = 1 .. n
        /\ part(k)[i] = b /\ part(i)[i] = A!Flushed(b)
        /\ \A j \in 1 .. n : j # i => part(i)[j] = part(k)[j]
        /\ \A j \in 1 .. n : j < i => part(k)[j] = A!Flushed(B[j])
        /\ \A j \in 1 .. n : j > i => part(k)[j] = B[j]
    BY <2>0
  <2> DEFINE p0 == part(k)
             p1 == part(i)
  <2>6. /\ A!Flushed(b) \in ABlock
        /\ A!Flushed(b).kind = b.kind
        /\ A!Flushed(b).state = IF b.state # "held" THEN b.state
                                ELSE IF b.name THEN "open" ELSE "dropped"
        /\ b.state # "held" => A!Flushed(b) = b
        /\ b.state = "held" /\ b.name => A!Flushed(b).id /\ A!Flushed(b).name
    BY <2>1, FlushedType, Zenon
  <2> HIDE DEF b, t
  <2>7. CASE b.state # "held" \/ ~b.name
    <3>1. FlushEvents(B, i) = <<>>
      BY <2>7 DEF FlushEvents, b
    <3>2. s \o g[i] = t
      BY <2>2, <2>3, <3>1, ConcatEmptySeq, Zenon
    <3>3. \A j \in 1 .. n : p1[j].kind = p0[j].kind /\ (p1[j].state = "open" <=> p0[j].state = "open")
      BY <2>5, <2>6, <2>7
    <3>4. DOMAIN p0 = DOMAIN p1 /\ 1 .. 0 \subseteq DOMAIN p0
      BY <2>5
    <3>6. DOMAIN p0 = 1 .. n /\ BlockOrder(t, p0) /\ StopOrder(t, p0, 0)
      BY <2>4, <2>5
    <3>5. BlockOrder(t, p1) /\ StopOrder(t, p1, 0)
      <4> HIDE DEF p0, p1
      <4> QED BY <3>6, <3>3, <3>4, SameOpen, Zenon
    <3> QED BY <2>0, <3>2, <3>5, Zenon
  <2>8. CASE b.state = "held" /\ b.name
    <3> DEFINE e == A!BlockStart(i, A!Flushed(b))
               w == [j \in DOMAIN b.deltas |-> A!BlockDelta(i, b.kind, b.deltas[j])]
    <3>1. FlushEvents(B, i) = <<e>> \o w
      BY <2>8 DEF FlushEvents, b
    <3>2. e \in StartEvent /\ e.index = i /\ e.kind = b.kind /\ e.id /\ e.name
      BY <2>0, <2>6, <2>8 DEF A!BlockStart, StartEvent, ABlock
    <3>3. w \in Seq(DeltaEvent) /\ \A j \in DOMAIN w : w[j].index = i /\ w[j].kind = b.kind
      <4>1. \A j \in DOMAIN b.deltas : b.deltas[j] \in Stamp
        BY <2>1 DEF ABlock
      <4>2. \A j \in DOMAIN b.deltas : A!BlockDelta(i, b.kind, b.deltas[j]) \in DeltaEvent
        BY <4>1, <2>0, <2>1 DEF A!BlockDelta, DeltaEvent, ABlock
      <4>3. DOMAIN b.deltas = 1 .. Len(b.deltas) /\ Len(b.deltas) \in Nat
        BY <2>1 DEF ABlock
      <4>4. w \in Seq(DeltaEvent)
        <5> HIDE DEF DeltaEvent
        <5> QED BY <4>2, <4>3
      <4>5. \A j \in DOMAIN w : w[j].index = i /\ w[j].kind = b.kind
        BY DEF A!BlockDelta
      <4> QED BY <4>4, <4>5, Zenon
    <3> HIDE DEF e, w
    <3>4. \A j \in 1 .. n : p0[j].state = "open" => j < i
      <4> SUFFICES ASSUME NEW j \in 1 .. n, p0[j].state = "open", ~ (j < i)
                   PROVE  FALSE
        OBVIOUS
      <4>1. j # i
        BY <2>5, <2>8
      <4>2. j > i /\ B[j].state = "open"
        BY <2>5, <4>1
      <4>3. B[j].state = "held"
        <5>1. i \in DOMAIN B /\ j \in DOMAIN B /\ B[i].state = "held" /\ i < j
          BY <2>0, <2>8, <4>2, <1>d DEF b
        <5> QED BY <5>1, Zenon DEF HoldOrder
      <4> QED BY <4>2, <4>3
    <3>5. p1[i].kind = e.kind /\ p1[i].state = "open"
      BY <2>5, <2>6, <2>8, <3>2
    <3>6. /\ \A j \in 1 .. n : j # i => (p1[j].state = "open" <=> j \in 1 .. n /\ p0[j].state = "open")
          /\ \A j \in 1 .. n : p1[j].kind = p0[j].kind
      BY <2>5, <2>6
    <3>7. DOMAIN p0 = 1 .. n /\ DOMAIN p1 = 1 .. n
      BY <2>5
    <3>8. BlockOrder(t \o <<e>>, p1) /\ StopOrder(t \o <<e>>, p1, 0)
      <4>1. BlockOrder(t, p0) /\ StopOrder(t, p0, 0) /\ n >= n /\ i \in 1 .. n
        BY <2>0, <2>4
      <4> HIDE DEF p0, p1, i
      <4>2. p1[i].state = "open" /\ e.kind = p1[i].kind /\ n \in Nat /\ t \in Seq(AEvent)
        BY <2>2, <3>5
      <4>3. MayStart(t, p0, n, p1, n, i, e)
        BY <3>2, <3>4, <3>6, <3>7, <4>1, <4>2 DEF MayStart
      <4> QED BY <4>3, StartKeeps
    <3>9. BlockOrder((t \o <<e>>) \o w, p1) /\ StopOrder((t \o <<e>>) \o w, p1, 0)
      <4>1. t \o <<e>> \in Seq(AEvent)
        <5>1. e \in AEvent
          BY <3>2 DEF AEvent, BlockEvent
        <5> HIDE DEF AEvent
        <5> QED BY <5>1, <2>2
      <4>2. p1[i].kind = b.kind
        BY <3>2, <3>5
      <4> HIDE DEF p1, i
      <4> QED BY <2>0, <3>3, <3>5, <3>7, <3>8, <4>1, <4>2, DeltasKeep, Zenon
    <3>10. (t \o <<e>>) \o w = s \o g[i]
      <4>1. <<e>> \in Seq(AEvent) /\ w \in Seq(AEvent)
        <5>1. e \in AEvent /\ DeltaEvent \subseteq AEvent
          BY <3>2 DEF AEvent, BlockEvent
        <5> HIDE DEF AEvent, DeltaEvent
        <5> QED BY <5>1, <3>3
      <4>2. (t \o <<e>>) \o w = t \o (<<e>> \o w)
        BY <2>2, <4>1, Associates, Zenon
      <4> QED BY <2>3, <3>1, <4>2, Zenon
    <3> QED BY <2>0, <3>9, <3>10, Zenon
  <2> QED BY <2>7, <2>8
<1> HIDE DEF P
<1>2. \A k \in 0 .. n : k \in P
  BY <1>0, <1>1, Upwards, Zenon
<1>3. n \in P
  BY <1>2
<1>4. part(n) = C
  OBVIOUS
<1> HIDE DEF part
<1> QED BY <1>3, <1>4, Zenon DEF P

\* After it no block is held.
LEMMA FlushFrees ==
  ASSUME NEW B \in Seq(ABlock), HoldOrder(B), NEW C, C = [i \in DOMAIN B |-> A!Flushed(B[i])]
  PROVE  /\ C \in Seq(ABlock) /\ Len(C) = Len(B) /\ DOMAIN C = DOMAIN B
         /\ \A i \in DOMAIN C : C[i].state # "held" /\ C[i] = A!Flushed(B[i])
         /\ HoldOrder(C)
<1>1. \A i \in DOMAIN B : A!Flushed(B[i]) \in ABlock /\ A!Flushed(B[i]).state # "held"
  BY FlushedType
<1>2. C \in Seq(ABlock) /\ Len(C) = Len(B) /\ DOMAIN C = DOMAIN B
  <2> HIDE DEF ABlock
  <2> QED BY <1>1
<1>3. \A i \in DOMAIN C : C[i].state # "held" /\ C[i] = A!Flushed(B[i])
  BY <1>1
<1>4. \A i \in DOMAIN B : C[i].kind = B[i].kind /\ C[i].key = B[i].key
  BY FlushedType
<1> QED BY <1>2, <1>3, <1>4 DEF HoldOrder

\* A stop keeps the order, and stops its block.
LEMMA StopKeeps ==
  ASSUME NEW s \in Seq(AEvent), NEW B, NEW n \in Nat, DOMAIN B = 1 .. n, NEW i \in 1 .. n,
         BlockOrder(s, B), StopOrder(s, B, i - 1), B[i].state = "open",
         NEW t, t = s \o <<A!BlockStop(i)>>
  PROVE  BlockOrder(t, B) /\ StopOrder(t, B, i)
<1> DEFINE e == A!BlockStop(i)
<1>1. e \in AEvent /\ e.type = "content_block_stop" /\ e.index = i
  BY DEF AEvent, BlockEvent, StopEvent, A!BlockStop
<1> HIDE DEF e
<1>2. t = s \o <<e>>
  BY DEF e
<1>3. /\ t \in Seq(AEvent) /\ Len(t) = Len(s) + 1 /\ Len(s) \in Nat
      /\ \A p \in DOMAIN s : p \in DOMAIN t /\ t[p] = s[p] /\ p < Len(t) /\ p \in Nat
      /\ \A p \in DOMAIN t : p \in DOMAIN s \/ p = Len(t)
      /\ Len(t) \in DOMAIN t /\ t[Len(t)] = e
  BY <1>1, <1>2, OneLonger
<1>4. /\ Starts(t) = Starts(s) /\ Deltas(t) = Deltas(s) /\ Stops(t) = Stops(s) \cup {Len(t)}
      /\ Starts(s) \subseteq DOMAIN s /\ Deltas(s) \subseteq DOMAIN s /\ Stops(s) \subseteq DOMAIN s
  <2>2. OfType(t, "content_block_start") = OfType(s, "content_block_start")
    BY <1>1, <1>3 DEF OfType
  <2>3. OfType(t, "content_block_delta") = OfType(s, "content_block_delta")
    BY <1>1, <1>3 DEF OfType
  <2>4. OfType(t, "content_block_stop") = OfType(s, "content_block_stop") \cup {Len(t)}
    BY <1>1, <1>3 DEF OfType
  <2>5. \A y : OfType(s, y) \subseteq DOMAIN s
    BY DEF OfType
  <2> QED BY <2>2, <2>3, <2>4, <2>5 DEF Starts, Deltas, Stops
<1>5. PICK q \in Starts(s) : s[q].index = i
  BY Zenon DEF BlockOrder
<1>6. q < Len(t) /\ t[q].index = i /\ q \in Starts(t)
  BY <1>3, <1>4, <1>5
<1>7. \A p \in Starts(s) \cup Deltas(s) \cup Stops(s) : t[p] = s[p] /\ p < Len(t)
  BY <1>3, <1>4
<1>8. BlockOrder(t, B)
  <2>1. \A p \in Starts(t) : /\ t[p].index \in DOMAIN B /\ B[t[p].index].state = "open"
                             /\ t[p].kind = B[t[p].index].kind /\ t[p].id /\ t[p].name
    <3>1. \A p \in Starts(s) : /\ s[p].index \in DOMAIN B /\ B[s[p].index].state = "open"
                               /\ s[p].kind = B[s[p].index].kind /\ s[p].id /\ s[p].name
      BY Zenon DEF BlockOrder
    <3> QED BY <1>4, <1>7, <3>1
  <2>2. \A p, r \in Starts(t) : p < r => t[p].index < t[r].index
    <3>1. \A p, r \in Starts(s) : p < r => s[p].index < s[r].index
      BY DEF BlockOrder
    <3> QED BY <1>4, <1>7, <3>1
  <2>3. \A j \in DOMAIN B : B[j].state = "open" => \E p \in Starts(t) : t[p].index = j
    <3>1. \A j \in DOMAIN B : B[j].state = "open" => \E p \in Starts(s) : s[p].index = j
      BY DEF BlockOrder
    <3> QED BY <1>4, <1>7, <3>1, Zenon
  <2>4. \A p \in Deltas(t) : \E r \in Starts(t) : r < p /\ t[r].index = t[p].index /\ t[r].kind = t[p].kind
    <3>1. \A p \in Deltas(s) : \E r \in Starts(s) : r < p /\ s[r].index = s[p].index /\ s[r].kind = s[p].kind
      BY DEF BlockOrder
    <3> QED BY <1>4, <1>7, <3>1, SMTT(30)
  <2> QED BY <2>1, <2>2, <2>3, <2>4, Zenon DEF BlockOrder
<1>9. \A p \in Stops(s) : s[p].index \in 1 .. i - 1 /\ \E r \in Starts(s) : r < p /\ s[r].index = s[p].index
  BY DEF StopOrder
<1>10. \A p \in Stops(t) : t[p].index \in 1 .. i /\ \E r \in Starts(t) : r < p /\ t[r].index = t[p].index
  <2> SUFFICES ASSUME NEW p \in Stops(t)
               PROVE  t[p].index \in 1 .. i /\ \E r \in Starts(t) : r < p /\ t[r].index = t[p].index
    BY Zenon
  <2>0. i \in 1 .. i /\ 1 .. i - 1 \subseteq 1 .. i
    OBVIOUS
  <2>1. CASE p = Len(t)
    <3>1. t[p].index = i
      BY <1>1, <1>3, <2>1
    <3> QED BY <1>6, <2>0, <2>1, <3>1, Zenon
  <2>2. CASE p \in Stops(s)
    <3>1. PICK r \in Starts(s) : r < p /\ s[r].index = s[p].index
      BY <1>9, <2>2
    <3>2. s[p].index \in 1 .. i - 1 /\ t[p] = s[p] /\ t[r] = s[r] /\ r \in Starts(t)
      BY <1>4, <1>7, <1>9, <2>2, Zenon
    <3> QED BY <2>0, <3>1, <3>2, Zenon
  <2> QED BY <1>4, <2>1, <2>2, Zenon
<1>11. \A p, r \in Stops(t) : t[p].index = t[r].index => p = r
  <2>1. \A p, r \in Stops(s) : s[p].index = s[r].index => p = r
    BY DEF StopOrder
  <2>2. \A p \in Stops(s) : s[p].index # i
    BY <1>9
  <2>3. t[Len(t)].index = i
    BY <1>1, <1>3
  <2>4. \A p \in Stops(s) : t[p] = s[p]
    BY <1>7, Zenon
  <2> SUFFICES ASSUME NEW p \in Stops(t), NEW r \in Stops(t), t[p].index = t[r].index
               PROVE  p = r
    BY Zenon
  <2>5. CASE p \in Stops(s) /\ r \in Stops(s)
    <3>1. s[p].index = s[r].index
      BY <2>4, <2>5, Zenon
    <3> QED BY <2>1, <2>5, <3>1
  <2>6. CASE p \in Stops(s) /\ r = Len(t)
    <3>1. t[p].index # i
      BY <2>2, <2>4, <2>6, Zenon
    <3> QED BY <2>3, <2>6, <3>1, Zenon
  <2>7. CASE r \in Stops(s) /\ p = Len(t)
    <3>1. t[r].index # i
      BY <2>2, <2>4, <2>7, Zenon
    <3> QED BY <2>3, <2>7, <3>1, Zenon
  <2> QED BY <1>4, <2>5, <2>6, <2>7, Zenon
<1>12. \A p \in Deltas(t), r \in Stops(t) : t[p].index = t[r].index => p < r
  <2>1. \A p \in Deltas(s), r \in Stops(s) : s[p].index = s[r].index => p < r
    BY DEF StopOrder
  <2> QED BY <1>4, <1>7, <2>1, Zenon
<1>13. \A j \in 1 .. i : B[j].state = "open" => \E p \in Stops(t) : t[p].index = j
  <2> SUFFICES ASSUME NEW j \in 1 .. i, B[j].state = "open"
               PROVE  \E p \in Stops(t) : t[p].index = j
    BY Zenon
  <2>0. j = i \/ j \in 1 .. i - 1
    OBVIOUS
  <2>1. CASE j = i
    BY <1>1, <1>3, <1>4, <2>1, Zenon
  <2>2. CASE j \in 1 .. i - 1
    <3>1. PICK p \in Stops(s) : s[p].index = j
      BY <2>2 DEF StopOrder
    <3> QED BY <1>4, <1>7, <3>1, Zenon
  <2> QED BY <2>0, <2>1, <2>2, Zenon
<1> QED BY <1>8, <1>10, <1>11, <1>12, <1>13, Zenon DEF StopOrder

\* All open blocks are stopped.
LEMMA StopsKeep ==
  ASSUME NEW s \in Seq(AEvent), NEW B \in Seq(ABlock), NEW n \in Nat, n = Len(B),
         BlockOrder(s, B), StopOrder(s, B, 0),
         NEW g \in [0 .. n -> Seq(BlockEvent)], g[0] = <<>>,
         \A i \in 1 .. n : g[i] = g[i - 1] \o StopEvents(B, i)
  PROVE  BlockOrder(s \o g[n], B) /\ StopOrder(s \o g[n], B, n)
<1> DEFINE P == {k \in 0 .. n : BlockOrder(s \o g[k], B) /\ StopOrder(s \o g[k], B, k)}
<1>b. BlockEvent \subseteq AEvent
  BY DEF AEvent
<1>c. \A k \in 0 .. n : g[k] \in Seq(AEvent)
  <2> SUFFICES ASSUME NEW k \in 0 .. n
               PROVE  g[k] \in Seq(AEvent)
    OBVIOUS
  <2>1. g[k] \in Seq(BlockEvent)
    BY Zenon
  <2> QED BY <2>1, <1>b, SeqMonotonic
<1>d. DOMAIN B = 1 .. n
  OBVIOUS
<1>0. 0 \in P
  <2>1. s \o g[0] = s
    BY ConcatEmptySeq
  <2> QED BY <2>1, 0 \in 0 .. n, Zenon
<1>1. ASSUME NEW k \in 0 .. n - 1, k \in P
      PROVE  k + 1 \in P
  <2> DEFINE i == k + 1
             t == s \o g[k]
             ev == StopEvents(B, i)
  <2>0. i \in 1 .. n /\ i \in 0 .. n /\ i - 1 = k
    OBVIOUS
  <2>1. t \in Seq(AEvent) /\ ev \in Seq(AEvent) /\ g[k] \in Seq(AEvent)
    <3>1. ev \in Seq(BlockEvent)
      BY <2>0, <1>d, StopEventsType
    <3>2. ev \in Seq(AEvent)
      BY <3>1, <1>b, SeqMonotonic
    <3>3. g[k] \in Seq(AEvent)
      BY <1>c
    <3> HIDE DEF i, ev
    <3> QED BY <3>2, <3>3
  <2>2. s \o g[i] = t \o ev
    <3>1. g[i] = g[k] \o ev
      <4> HIDE DEF i
      <4>1. g[i] = g[i - 1] \o ev
        BY <2>0, Zenon
      <4> QED BY <4>1, <2>0, Zenon
    <3> HIDE DEF i, ev
    <3>3. (s \o g[k]) \o ev = s \o (g[k] \o ev)
      BY <2>1, Associates, Zenon
    <3> QED BY <3>1, <3>3
  <2>3. BlockOrder(t, B) /\ StopOrder(t, B, i - 1)
    BY <1>1, <2>0
  <2> HIDE DEF t
  <2>4. CASE B[i].state = "open"
    <3>1. ev = <<A!BlockStop(i)>>
      BY <2>4 DEF StopEvents
    <3>2. s \o g[i] = t \o <<A!BlockStop(i)>>
      BY <2>2, <3>1, Zenon
    <3>3. BlockOrder(s \o g[i], B) /\ StopOrder(s \o g[i], B, i)
      <4> HIDE DEF i, ev
      <4> QED BY <1>d, <2>0, <2>1, <2>3, <2>4, <3>2, StopKeeps, Zenon
    <3> QED BY <2>0, <3>3
  <2>5. CASE B[i].state # "open"
    <3>1. ev = <<>>
      BY <2>5 DEF StopEvents
    <3>2. s \o g[i] = t
      BY <2>1, <2>2, <3>1, ConcatEmptySeq, Zenon
    <3>3. StopOrder(t, B, i)
      <4>1. \A j \in 1 .. i : j \in 1 .. i - 1 \/ j = i
        OBVIOUS
      <4>2. 1 .. i - 1 \subseteq 1 .. i
        OBVIOUS
      <4> HIDE DEF i
      <4> QED BY <2>3, <2>5, <4>1, <4>2, Zenon DEF StopOrder
    <3> QED BY <2>0, <2>3, <3>2, <3>3, Zenon
  <2> QED BY <2>4, <2>5
<1> HIDE DEF P
<1>2. \A k \in 0 .. n : k \in P
  BY <1>0, <1>1, Upwards, Zenon
<1>3. n \in P
  BY <1>2
<1> QED BY <1>3 DEF P

-----------------------------------------------------------------------------
(* Ends and errors of what a client received.                              *)

\* An event more, written either way.
LEMMA OneMoreIs ==
  ASSUME NEW E, NEW s \in Seq(E), NEW e \in E
  PROVE  /\ OneMore(s, e, s \o <<e>>) /\ OneMore(s, e, Append(s, e))
         /\ s \o <<e>> \in Seq(E) /\ Append(s, e) \in Seq(E)
<1>1. OneMore(s, e, s \o <<e>>) /\ s \o <<e>> \in Seq(E)
  <2> DEFINE t == s \o <<e>>
  <2>1. /\ t \in Seq(E) /\ Len(t) = Len(s) + 1 /\ Len(s) \in Nat
        /\ \A p \in DOMAIN s : p \in DOMAIN t /\ t[p] = s[p] /\ p < Len(t) /\ p \in Nat
        /\ \A p \in DOMAIN t : p \in DOMAIN s \/ p = Len(t)
        /\ Len(t) \in DOMAIN t /\ t[Len(t)] = e
    BY OneLonger
  <2> HIDE DEF t
  <2>2. OneMore(s, e, t) /\ t \in Seq(E)
    BY <2>1 DEF OneMore
  <2> QED BY <2>2 DEF t
<1>2. OneMore(s, e, Append(s, e)) /\ Append(s, e) \in Seq(E)
  BY DEF OneMore
<1> QED BY <1>1, <1>2

\* What neither ends nor fails may be continued by the same.
LEMMA OngoingMore ==
  ASSUME NEW E, NEW s \in Seq(E), NEW w \in Seq(E), Ongoing(s), Ongoing(w)
  PROVE  Ongoing(s \o w)
<1> DEFINE t == s \o w
<1>1. \A p \in DOMAIN t : \/ p \in DOMAIN s /\ t[p] = s[p]
                          \/ p - Len(s) \in DOMAIN w /\ t[p] = w[p - Len(s)]
  BY Longer
<1> HIDE DEF t
<1>2. \A p \in DOMAIN s : Harmless(s[p])
  BY DEF Ongoing
<1>3. \A p \in DOMAIN w : Harmless(w[p])
  BY DEF Ongoing
<1>4. Ongoing(t)
  BY <1>1, <1>2, <1>3 DEF Ongoing
<1> QED BY <1>4 DEF t

\* What one more event makes of an ongoing answer.
LEMMA OngoingNext ==
  ASSUME NEW s, NEW e, NEW t, OneMore(s, e, t), Ongoing(s)
  PROVE  /\ Harmless(e) => Ongoing(t)
         /\ Seen(e) \in Ends => Complete(t)
         /\ Seen(e) = "error" => Failing(t)
<1>1. /\ \A p \in DOMAIN s : p \in DOMAIN t /\ t[p] = s[p]
      /\ \A p \in DOMAIN t : p \in DOMAIN s \/ p = Len(t)
      /\ Len(t) \in DOMAIN t /\ t[Len(t)] = e
  BY DEF OneMore
<1>2. \A p \in DOMAIN s : Harmless(t[p])
  BY <1>1 DEF Ongoing
<1>3. "error" \notin Ends
  BY DEF Ends
<1>4. Harmless(e) => Ongoing(t)
  BY <1>1, <1>2 DEF Ongoing
<1>5. Seen(e) \in Ends => Complete(t)
  BY <1>1, <1>2, <1>3 DEF Complete, EndsOf, ErrorsOf, Harmless
<1>6. Seen(e) = "error" => Failing(t)
  BY <1>1, <1>2, <1>3 DEF Failing, EndsOf, ErrorsOf, Harmless
<1> QED BY <1>4, <1>5, <1>6

\* An error after any of this tells the client.
LEMMA ErrorTells ==
  ASSUME NEW s, NEW e, NEW t, OneMore(s, e, t), Seen(e) = "error", Ongoing(s) \/ Complete(s) \/ Failing(s)
  PROVE  ErrorTold(t)
<1>1. /\ \A p \in DOMAIN s : p \in DOMAIN t /\ t[p] = s[p] /\ p < Len(t)
      /\ \A p \in DOMAIN t : p \in DOMAIN s \/ p = Len(t)
      /\ Len(t) \in DOMAIN t /\ t[Len(t)] = e
  BY DEF OneMore
<1>2. "error" \notin Ends
  BY DEF Ends
<1>3. ErrorsOf(t) = ErrorsOf(s) \cup {Len(t)}
  BY <1>1 DEF ErrorsOf
<1>4. EndsOf(t) = EndsOf(s)
  BY <1>1, <1>2 DEF EndsOf
<1>5. EndsOf(s) = {} \/ ErrorsOf(s) = {}
  <2>1. Ongoing(s) => EndsOf(s) = {}
    BY DEF Ongoing, EndsOf, Harmless
  <2> QED BY <2>1 DEF Complete, Failing
<1>6. \A j \in EndsOf(s) : j < Len(t)
  BY <1>1 DEF EndsOf
<1> QED BY <1>3, <1>4, <1>5, <1>6 DEF ErrorTold

\* A complete answer and a failing one tell of their end or of an error.
LEMMA OverTells ==
  ASSUME NEW s, Complete(s) \/ Failing(s)
  PROVE  ErrorTold(s)
  BY Zenon DEF Complete, Failing, ErrorTold

\* More of a message is a message.
LEMMA MessageMore ==
  ASSUME NEW s \in Seq(AEvent), NEW w \in Seq(BlockEvent), Message(s)
  PROVE  Message(s \o w)
<1> DEFINE t == s \o w
<1>1. \A j \in DOMAIN w : w[j].type # "message_start" /\ w[j].type # "message_delta"
  BY DEF BlockEvent, StartEvent, DeltaEvent, StopEvent
<1>2. w \in Seq(AEvent)
  <2>1. BlockEvent \subseteq AEvent
    BY DEF AEvent
  <2> QED BY <2>1, SeqMonotonic
<1>3. /\ \A p \in DOMAIN s : p \in DOMAIN t /\ t[p] = s[p]
      /\ \A p \in DOMAIN t : p \in DOMAIN s \/ (p - Len(s) \in DOMAIN w /\ t[p] = w[p - Len(s)])
  BY <1>2, Longer
<1>6. Ongoing(t)
  <2>1. Ongoing(w)
    BY DEF Ongoing, Harmless, Seen, Ends, BlockEvent, StartEvent, DeltaEvent, StopEvent
  <2>2. Ongoing(s)
    BY DEF Message
  <2> HIDE DEF AEvent
  <2> QED BY <1>2, <2>1, <2>2, OngoingMore
<1> HIDE DEF t
<1>4. OfType(t, "message_start") = OfType(s, "message_start")
  BY <1>1, <1>3 DEF OfType
<1>5. OfType(t, "message_delta") = OfType(s, "message_delta")
  BY <1>1, <1>3 DEF OfType
<1> QED BY <1>4, <1>5, <1>6 DEF Message, t

\* An operator that only speaks stays inside the message.
LEMMA Steadily ==
  ASSUME NEW c, Talking(c), NEW d, Steady(c, d),
         Message(d.out), BlockOrder(d.out, d.blocks), StopOrder(d.out, d.blocks, 0), HoldOrder(d.blocks)
  PROVE  Talking(d)
  BY DEF Talking, Steady

\* A held block more.
LEMMA HeldMore ==
  ASSUME NEW s \in Seq(AEvent), NEW B \in Seq(ABlock), NEW b \in ABlock, b.state = "held",
         BlockOrder(s, B), StopOrder(s, B, 0), HoldOrder(B),
         b.kind \in {"tool", "text"} \/ (\E i \in DOMAIN B : B[i].state = "held"),
         b.kind # "tool" => b.key = 0
  PROVE  /\ BlockOrder(s, Append(B, b)) /\ StopOrder(s, Append(B, b), 0) /\ HoldOrder(Append(B, b))
<1> DEFINE C == Append(B, b)
<1>1. /\ Len(B) \in Nat /\ DOMAIN B = 1 .. Len(B) /\ DOMAIN C = 1 .. Len(B) + 1
      /\ \A i \in DOMAIN B : i \in DOMAIN C /\ C[i] = B[i] /\ i < Len(B) + 1
      /\ \A i \in DOMAIN C : i \in DOMAIN B \/ i = Len(B) + 1
      /\ C[Len(B) + 1] = b /\ Len(B) + 1 \in DOMAIN C
  OBVIOUS
<1> HIDE DEF C
<1>2. BlockOrder(s, C)
  <2>1. \A p \in Starts(s) : /\ s[p].index \in DOMAIN C /\ C[s[p].index].state = "open"
                             /\ s[p].kind = C[s[p].index].kind /\ s[p].id /\ s[p].name
    <3>1. \A p \in Starts(s) : /\ s[p].index \in DOMAIN B /\ B[s[p].index].state = "open"
                               /\ s[p].kind = B[s[p].index].kind /\ s[p].id /\ s[p].name
      BY Zenon DEF BlockOrder
    <3> QED BY <1>1, <3>1
  <2>2. \A i \in DOMAIN C : C[i].state = "open" => \E p \in Starts(s) : s[p].index = i
    <3>1. \A i \in DOMAIN B : B[i].state = "open" => \E p \in Starts(s) : s[p].index = i
      BY DEF BlockOrder
    <3> QED BY <1>1, <3>1
  <2> QED BY <2>1, <2>2 DEF BlockOrder
<1>3. StopOrder(s, C, 0)
  BY DEF StopOrder
<1>4. HoldOrder(C)
  <2>1. \A i, j \in DOMAIN C : i < j /\ C[i].state = "held" => C[j].state = "held"
    <3>1. \A i, j \in DOMAIN B : i < j /\ B[i].state = "held" => B[j].state = "held"
      BY DEF HoldOrder
    <3> QED BY <1>1, <3>1
  <2>2. \E i \in DOMAIN C : C[i].state = "held" /\ C[i].kind \in {"tool", "text"}
    <3>1. CASE b.kind \in {"tool", "text"}
      BY <1>1, <3>1
    <3>2. CASE \E i \in DOMAIN B : B[i].state = "held"
      BY <1>1, <3>2 DEF HoldOrder
    <3> QED BY <3>1, <3>2
  <2>3. \A i \in DOMAIN C : C[i].kind # "tool" => C[i].key = 0
    BY <1>1 DEF HoldOrder
  <2> QED BY <2>1, <2>2, <2>3 DEF HoldOrder
<1> QED BY <1>2, <1>3, <1>4 DEF C

\* An open block more, when none is held.
LEMMA OpenMore ==
  ASSUME NEW s \in Seq(AEvent), NEW B \in Seq(ABlock), NEW b \in ABlock, b.state = "open",
         BlockOrder(s, B), StopOrder(s, B, 0),
         b.id, b.name, \A i \in DOMAIN B : B[i].state # "held", HoldOrder(B), b.kind # "tool" => b.key = 0,
         NEW t, t = s \o <<A!BlockStart(Len(B) + 1, b)>>
  PROVE  /\ BlockOrder(t, Append(B, b)) /\ StopOrder(t, Append(B, b), 0) /\ HoldOrder(Append(B, b))
<1> DEFINE C == Append(B, b)
           n == Len(B)
           m == n + 1
           e == A!BlockStart(m, b)
<1>1. /\ n \in Nat /\ m \in Nat /\ m >= n /\ DOMAIN B = 1 .. n /\ DOMAIN C = 1 .. m /\ m \in 1 .. m
      /\ \A i \in 1 .. n : i \in 1 .. m /\ C[i] = B[i] /\ i < m
      /\ \A i \in 1 .. m : i # m => i \in 1 .. n
      /\ C[m] = b
  OBVIOUS
<1>2. e \in StartEvent /\ e.index = m /\ e.id /\ e.name /\ e.kind = b.kind
  BY <1>1 DEF A!BlockStart, StartEvent, ABlock
<1>3. t = s \o <<e>>
  OBVIOUS
<1> HIDE DEF C, n, m, e
<1>4. MayStart(s, B, n, C, m, m, e)
  BY <1>1, <1>2 DEF MayStart
<1>5. BlockOrder(t, C) /\ StopOrder(t, C, 0)
  BY <1>3, <1>4, StartKeeps
<1>6. HoldOrder(C)
  <2>1. \A i \in DOMAIN C : C[i].state # "held" \/ i = m
    BY <1>1
  <2>2. \A i \in DOMAIN C : C[i].state # "held"
    BY <1>1, <2>1
  <2>3. \A i \in DOMAIN C : C[i].kind # "tool" => C[i].key = 0
    <3>1. \A i \in DOMAIN B : B[i].kind # "tool" => B[i].key = 0
      BY DEF HoldOrder
    <3> QED BY <1>1, <3>1, Zenon
  <2> QED BY <2>2, <2>3 DEF HoldOrder
<1> QED BY <1>5, <1>6 DEF C

\* Opening a block stays inside the message.
LEMMA TalkOpen ==
  ASSUME NEW c, Talking(c), NEW b \in ABlock, NEW hold \in BOOLEAN,
         ~hold => b.id /\ b.name /\ \A i \in DOMAIN c.blocks : c.blocks[i].state # "held",
         hold => b.kind \in {"tool", "text"} \/ \E i \in DOMAIN c.blocks : c.blocks[i].state = "held",
         b.kind # "tool" => b.key = 0,
         NEW d, d = A!OpenBlock(c, b, hold)
  PROVE  /\ Talking(d)
         /\ \E i \in DOMAIN d.blocks : d.blocks[i].kind = b.kind /\ d.blocks[i].key = b.key
                                       /\ d.blocks[i].state # "dropped"
<1> DEFINE st == IF hold THEN "held" ELSE "open"
           e == [b EXCEPT !.state = st]
           B == c.blocks
<1>0. c \in AConv /\ B \in Seq(ABlock) /\ c.out \in Seq(AEvent)
  BY AFields DEF Talking
<1>1. e \in ABlock /\ e.state = st /\ e.kind = b.kind /\ e.key = b.key /\ e.id = b.id /\ e.name = b.name
  BY DEF ABlock
<1>2. /\ Steady(c, d) /\ d.blocks = Append(B, e)
      /\ d.out = IF hold THEN c.out ELSE c.out \o <<A!BlockStart(Len(B) + 1, b)>>
  BY <1>0, AOpenBlock
<1>3. Message(c.out) /\ BlockOrder(c.out, B) /\ StopOrder(c.out, B, 0) /\ HoldOrder(B)
  BY DEF Talking
<1>4. A!BlockStart(Len(B) + 1, b) = A!BlockStart(Len(B) + 1, e)
  BY <1>1 DEF A!BlockStart
<1> HIDE DEF e, B
<1>5. ASSUME hold PROVE Talking(d)
  <2>1. d.out = c.out /\ e.state = "held"
    BY <1>1, <1>2, <1>5
  <2>2. e.kind \in {"tool", "text"} \/ \E i \in DOMAIN B : B[i].state = "held"
    BY <1>1, <1>5 DEF B
  <2>3. BlockOrder(d.out, d.blocks) /\ StopOrder(d.out, d.blocks, 0) /\ HoldOrder(d.blocks)
    BY <1>0, <1>1, <1>2, <1>3, <2>1, <2>2, HeldMore
  <2> QED BY <1>2, <1>3, <2>1, <2>3, Steadily, Zenon
<1>6. ASSUME ~hold PROVE Talking(d)
  <2>1. d.out = c.out \o <<A!BlockStart(Len(B) + 1, e)>> /\ e.state = "open"
    BY <1>1, <1>2, <1>4, <1>6
  <2>2. e.id /\ e.name /\ \A i \in DOMAIN B : B[i].state # "held"
    BY <1>1, <1>6, Zenon DEF B
  <2>3. BlockOrder(d.out, d.blocks) /\ StopOrder(d.out, d.blocks, 0) /\ HoldOrder(d.blocks)
    BY <1>0, <1>1, <1>2, <1>3, <2>1, <2>2, OpenMore, Zenon
  <2>4. Message(d.out)
    <3>1. A!BlockStart(Len(B) + 1, e) \in BlockEvent
      BY <1>0, <1>1 DEF A!BlockStart, BlockEvent, StartEvent, ABlock
    <3>2. <<A!BlockStart(Len(B) + 1, e)>> \in Seq(BlockEvent)
      BY <3>1
    <3> QED BY <1>0, <1>3, <2>1, <3>2, MessageMore, Zenon
  <2> QED BY <1>2, <2>3, <2>4, Steadily, Zenon
<1>7. e.state # "dropped" /\ Len(B) + 1 \in DOMAIN d.blocks /\ d.blocks[Len(B) + 1] = e
  BY <1>0, <1>1, <1>2
<1> QED BY <1>1, <1>5, <1>6, <1>7

\* A fragment stays inside the message.
LEMMA TalkDelta ==
  ASSUME NEW c, Talking(c), NEW i \in DOMAIN c.blocks, c.blocks[i].state # "dropped",
         NEW stamp \in Stamp, NEW d, d = A!AddDelta(c, i, stamp)
  PROVE  Talking(d)
<1> DEFINE B == c.blocks
           C == d.blocks
<1>0. /\ c \in AConv /\ B \in Seq(ABlock) /\ c.out \in Seq(AEvent) /\ B[i] \in ABlock /\ i \in Nat
      /\ Message(c.out) /\ BlockOrder(c.out, B) /\ StopOrder(c.out, B, 0) /\ HoldOrder(B)
  BY AFields DEF Talking
<1>1. /\ Steady(c, d)
      /\ B[i].state = "held" => /\ DOMAIN C = DOMAIN B
                                /\ \A j \in DOMAIN B : /\ C[j].kind = B[j].kind
                                                       /\ C[j].key = B[j].key
                                                       /\ C[j].state = B[j].state
                                /\ d.out = c.out
      /\ B[i].state # "held" => /\ C = B
                                /\ d.out = c.out \o <<A!BlockDelta(i, B[i].kind, stamp)>>
  BY <1>0, AAddDelta
<1>2. CASE B[i].state = "held"
  <2> HIDE DEF B, C
  <2>1. 1 .. 0 \subseteq DOMAIN B
    OBVIOUS
  <2>a. /\ DOMAIN B = DOMAIN C /\ d.out = c.out
        /\ \A j \in DOMAIN B : C[j].kind = B[j].kind /\ C[j].key = B[j].key /\ C[j].state = B[j].state
    BY <1>1, <1>2
  <2>b. BlockOrder(c.out, B) /\ StopOrder(c.out, B, 0) /\ HoldOrder(B)
    BY <1>0
  <2>2. BlockOrder(d.out, C) /\ StopOrder(d.out, C, 0)
    BY <2>1, <2>a, <2>b, SameOpen
  <2>3. HoldOrder(C)
    BY <2>a, <2>b, SameHold
  <2> QED BY <1>0, <1>1, <1>2, <2>2, <2>3, Steadily DEF C
<1>3. CASE B[i].state # "held"
  <2> DEFINE e == A!BlockDelta(i, B[i].kind, stamp)
  <2>1. B[i].state = "open" /\ C = B /\ d.out = c.out \o <<e>>
    BY <1>0, <1>1, <1>3, Zenon DEF ABlock
  <2>2. e \in DeltaEvent /\ e.index = i /\ e.kind = B[i].kind
    BY <1>0 DEF A!BlockDelta, DeltaEvent, ABlock
  <2> HIDE DEF e
  <2>3. <<e>> \in Seq(DeltaEvent) /\ \A j \in DOMAIN <<e>> : <<e>>[j].index = i /\ <<e>>[j].kind = B[i].kind
    BY <2>2
  <2>4. BlockOrder(d.out, B) /\ StopOrder(d.out, B, 0)
    <3> HIDE DEF B
    <3>1. i \in DOMAIN B
      BY DEF B
    <3> QED BY <1>0, <2>1, <2>3, <3>1, DeltasKeep, Zenon
  <2>5. Message(d.out)
    <3>1. <<e>> \in Seq(BlockEvent)
      BY <2>2 DEF BlockEvent
    <3> QED BY <1>0, <2>1, <3>1, MessageMore, Zenon
  <2> QED BY <1>0, <1>1, <2>1, <2>4, <2>5, Steadily, Zenon
<1> QED BY <1>2, <1>3

\* Letting the held blocks go stays inside the message.
LEMMA TalkFlush ==
  ASSUME NEW c, Talking(c), NEW d, d = A!FlushAll(c)
  PROVE  /\ Talking(d)
         /\ DOMAIN d.blocks = DOMAIN c.blocks
         /\ \A i \in DOMAIN d.blocks : d.blocks[i] = A!Flushed(c.blocks[i]) /\ d.blocks[i].state # "held"
<1> DEFINE B == c.blocks
           n == Len(B)
           C == d.blocks
<1>0. /\ c \in AConv /\ B \in Seq(ABlock) /\ c.out \in Seq(AEvent) /\ n \in Nat /\ DOMAIN B = 1 .. n
      /\ Message(c.out) /\ BlockOrder(c.out, B) /\ StopOrder(c.out, B, 0) /\ HoldOrder(B)
  BY AFields DEF Talking
<1>1. Steady(c, d) /\ C = [i \in DOMAIN B |-> A!Flushed(B[i])]
  BY <1>0, AFlushAll, Zenon
<1>2. PICK g \in [0 .. n -> Seq(BlockEvent)] :
        /\ g[0] = <<>>
        /\ \A i \in 1 .. n : g[i] = g[i - 1] \o FlushEvents(B, i)
        /\ d.out = c.out \o g[n]
  BY <1>0, AFlushAll, Zenon
<1> HIDE DEF B, C
<1>3. DOMAIN C = DOMAIN B /\ HoldOrder(C) /\ \A i \in DOMAIN C : C[i].state # "held" /\ C[i] = A!Flushed(B[i])
  BY <1>0, <1>1, FlushFrees, Zenon
<1>4. BlockOrder(d.out, C) /\ StopOrder(d.out, C, 0)
  <2> HIDE DEF n
  <2>1. n = Len(B)
    BY DEF n
  <2>2. BlockOrder(c.out \o g[n], C) /\ StopOrder(c.out \o g[n], C, 0)
    BY <1>0, <1>1, <1>2, <2>1, FlushKeeps, Zenon
  <2> QED BY <1>2, <2>2
<1>5. Message(d.out)
  <2>1. g[n] \in Seq(BlockEvent)
    BY <1>0, <1>2
  <2> QED BY <1>0, <1>2, <2>1, MessageMore
<1>6. Talking(d)
  BY <1>1, <1>3, <1>4, <1>5, Steadily DEF C
<1> QED BY <1>3, <1>6 DEF B, C

\* What blockOf found has the key it looked for.
LEMMA BlockFound ==
  ASSUME NEW c \in AConv, NEW kind, NEW key,
         \E j \in DOMAIN c.blocks : /\ c.blocks[j].kind = kind /\ c.blocks[j].key = key
                                    /\ c.blocks[j].state # "dropped"
  PROVE  /\ A!BlockOf(c, kind, key) \in DOMAIN c.blocks
         /\ c.blocks[A!BlockOf(c, kind, key)].state # "dropped"
<1> DEFINE i == A!BlockOf(c, kind, key)
<1> HIDE DEF i
<1>1. i = A!BlockOf(c, kind, key)
  BY DEF i
<1> QED BY <1>1, ABlockOf

\* Reasoning and text stay inside the message.
LEMMA TalkProse ==
  ASSUME NEW c, Talking(c), NEW kind \in {"text", "thinking"}, NEW stamp \in Stamp,
         NEW e, e = A!Prose(c, kind, stamp)
  PROVE  Talking(e)
<1> DEFINE other == {"tool", "text", "thinking"} \ {kind}
           hold == A!Held(c, other)
           b == A!Block(kind, 0, TRUE, TRUE)
           i == A!BlockOf(c, kind, 0)
           d == IF i # 0 THEN c ELSE A!OpenBlock(c, b, hold)
<1>0. c \in AConv /\ HoldOrder(c.blocks) /\ \A j \in DOMAIN c.blocks : c.blocks[j] \in ABlock
  BY AFields DEF Talking
<1>1. e = A!AddDelta(d, A!BlockOf(d, kind, 0), stamp)
  BY DEF A!Prose
<1>2. b \in ABlock /\ b.kind = kind /\ b.key = 0 /\ b.id /\ b.name
  <2>1. <<>> \in Seq(Stamp)
    OBVIOUS
  <2> QED BY <2>1 DEF ABlock, Kinds, A!Block
<1>3. hold <=> \E j \in DOMAIN c.blocks : c.blocks[j].state = "held" /\ c.blocks[j].kind \in other
  BY DEF A!Held
<1>4. hold \in BOOLEAN
  BY DEF A!Held
<1> HIDE DEF hold, b, i
<1>5. Talking(d) /\ \E j \in DOMAIN d.blocks : /\ d.blocks[j].kind = kind /\ d.blocks[j].key = 0
                                               /\ d.blocks[j].state # "dropped"
  <2>1. CASE i # 0
    <3>1. i \in DOMAIN c.blocks /\ c.blocks[i].kind = kind /\ c.blocks[i].key = 0 /\ c.blocks[i].state # "dropped"
      BY <1>0, <2>1, ABlockOf DEF i
    <3> QED BY <2>1, <3>1
  <2>2. CASE i = 0
    <3>1. d = A!OpenBlock(c, b, hold)
      BY <2>2
    <3> HIDE DEF d
    <3>2. \A j \in DOMAIN c.blocks : ~ (/\ c.blocks[j].kind = kind /\ c.blocks[j].key = 0
                                        /\ c.blocks[j].state # "dropped")
      BY <1>0, <2>2, ABlockOf DEF i
    <3>3. \A j \in DOMAIN c.blocks : c.blocks[j].state = "held" => c.blocks[j].kind # kind
      BY <1>0, <3>2 DEF HoldOrder
    <3>4. \A j \in DOMAIN c.blocks : c.blocks[j].kind \in {"tool", "text", "thinking"}
      BY <1>0 DEF ABlock, Kinds
    <3>5. hold <=> \E j \in DOMAIN c.blocks : c.blocks[j].state = "held"
      BY <1>3, <3>3, <3>4
    <3>6. b.kind # "tool" => b.key = 0
      BY <1>2
    <3>7. ~hold => b.id /\ b.name /\ \A j \in DOMAIN c.blocks : c.blocks[j].state # "held"
      BY <1>2, <3>5, Zenon
    <3>8. hold => b.kind \in {"tool", "text"} \/ \E j \in DOMAIN c.blocks : c.blocks[j].state = "held"
      BY <3>5
    <3>9. /\ Talking(d)
          /\ \E j \in DOMAIN d.blocks : d.blocks[j].kind = b.kind /\ d.blocks[j].key = b.key
                                        /\ d.blocks[j].state # "dropped"
      BY <1>2, <1>4, <3>1, <3>6, <3>7, <3>8, TalkOpen
    <3> QED BY <1>2, <3>9
  <2> QED BY <2>1, <2>2
<1> HIDE DEF d
<1>6. /\ A!BlockOf(d, kind, 0) \in DOMAIN d.blocks
      /\ d.blocks[A!BlockOf(d, kind, 0)].state # "dropped"
  BY <1>5, BlockFound DEF Talking
<1> QED BY <1>1, <1>5, <1>6, TalkDelta

\* A tool block's id and name arrive.
LEMMA TalkResolve ==
  ASSUME NEW c, Talking(c), NEW i \in DOMAIN c.blocks, c.blocks[i].state = "held",
         c.blocks[i].kind = "tool", NEW f, NEW e, e = A!Resolve(c, i, f)
  PROVE  /\ Talking(e)
         /\ \E j \in DOMAIN e.blocks : e.blocks[j].kind = "tool" /\ e.blocks[j].key = c.blocks[i].key
                                       /\ e.blocks[j].state # "dropped"
<1> DEFINE B == c.blocks
           b == [B[i] EXCEPT !.id = @ \/ f.id # None, !.name = @ \/ f.name]
           C == [B EXCEPT ![i] = b]
           d == [c EXCEPT !.blocks = C]
           wait == \E j \in DOMAIN d.blocks : /\ d.blocks[j].state = "held"
                                              /\ ~(d.blocks[j].id /\ d.blocks[j].name)
<1>0. /\ c \in AConv /\ B \in Seq(ABlock) /\ c.out \in Seq(AEvent) /\ B[i] \in ABlock /\ i \in Nat
      /\ Message(c.out) /\ BlockOrder(c.out, B) /\ StopOrder(c.out, B, 0) /\ HoldOrder(B)
  BY AFields DEF Talking
<1>1. /\ b \in ABlock /\ b.kind = B[i].kind /\ b.key = B[i].key /\ b.state = B[i].state
  BY <1>0, Zenon DEF ABlock
<1>2. C \in Seq(ABlock) /\ DOMAIN C = DOMAIN B /\ C[i] = b
      /\ \A j \in DOMAIN B : j # i => C[j] = B[j]
  <2> HIDE DEF b, ABlock
  <2> QED BY <1>0, <1>1
<1>3. /\ \A j \in DOMAIN B : C[j].kind = B[j].kind /\ C[j].key = B[j].key /\ C[j].state = B[j].state
  <2> HIDE DEF b, C
  <2> QED BY <1>1, <1>2
<1>4. Steady(c, d) /\ d.blocks = C /\ d.out = c.out
  <2> HIDE DEF C
  <2> QED BY <1>0, <1>2, Zenon DEF Steady, AConv
<1>5. e = IF wait THEN d ELSE A!FlushAll(d)
  <2>1. d = [c EXCEPT !.blocks[i].id = @ \/ f.id # None, !.blocks[i].name = @ \/ f.name]
    BY <1>0, Zenon
  <2> QED BY <2>1 DEF A!Resolve
<1> HIDE DEF b, C, d, B
<1>6. Talking(d)
  <2>1. 1 .. 0 \subseteq DOMAIN B
    OBVIOUS
  <2>2. BlockOrder(c.out, C) /\ StopOrder(c.out, C, 0)
    BY <1>0, <1>2, <1>3, <2>1, SameOpen, ZenonT(30)
  <2>3. HoldOrder(C)
    BY <1>0, <1>2, <1>3 DEF HoldOrder
  <2> QED BY <1>0, <1>4, <2>2, <2>3, Steadily
<1>7. i \in DOMAIN d.blocks /\ d.blocks[i].state = "held" /\ d.blocks[i].kind = "tool" /\ d.blocks[i].key = B[i].key
  BY <1>2, <1>3, <1>4 DEF B
<1>8. CASE wait
  BY <1>5, <1>6, <1>7, <1>8 DEF B
<1>9. CASE ~wait
  <2>1. d.blocks[i].name
    BY <1>7, <1>9
  <2>2. e = A!FlushAll(d)
    BY <1>5, <1>9
  <2> HIDE DEF wait
  <2>3. /\ Talking(e) /\ DOMAIN e.blocks = DOMAIN d.blocks
        /\ e.blocks[i] = A!Flushed(d.blocks[i])
    BY <1>6, <1>7, <2>2, TalkFlush
  <2>4. d.blocks[i] \in ABlock
    BY <1>1, <1>2, <1>4
  <2>5. e.blocks[i].kind = "tool" /\ e.blocks[i].key = B[i].key /\ e.blocks[i].state = "open"
    BY <1>7, <2>1, <2>3, <2>4, FlushedType
  <2> QED BY <1>7, <2>3, <2>5 DEF B
<1> QED BY <1>8, <1>9

\* A tool fragment stays inside the message.
LEMMA TalkTool ==
  ASSUME NEW c, Talking(c), NEW f \in A!Fragment, NEW stamp \in Stamp, NEW e, e = A!Tool(c, f, stamp)
  PROVE  Talking(e)
<1> DEFINE key == A!ToolKey(c, f)
           k == A!AnonToolKey(c, f)
           i == A!BlockOf(k, "tool", key)
           b == A!Block("tool", key, f.id # None, f.name)
           hold == f.id = None \/ ~f.name \/ A!Held(k, {"tool", "text"})
           d == IF i = 0 THEN A!OpenBlock(k, b, hold)
                ELSE IF k.blocks[i].state = "held" THEN A!Resolve(k, i, f)
                ELSE k
<1>0. /\ c \in AConv /\ c.idToKey \in [ToolIds -> Int] /\ c.anonKey \in Int
      /\ f.index \in Nat \cup {None} /\ f.id \in ToolIds \cup {None} /\ f.name \in BOOLEAN /\ f.args \in BOOLEAN
  BY AFields DEF Talking, A!Fragment
<1>1. key \in Int
  BY <1>0 DEF A!ToolKey
<1>2. /\ Steady(c, k) /\ k.out = c.out /\ k.blocks = c.blocks
  <2> HIDE DEF key
  <2>1. CASE f.index # None \/ key # c.anonKey - 1
    <3>1. k = c
      BY <2>1 DEF A!AnonToolKey, key
    <3> QED BY <1>0, <3>1 DEF Steady
  <2>2. CASE ~(f.index # None \/ key # c.anonKey - 1) /\ f.id = None
    <3>1. k = [c EXCEPT !.anonKey = key]
      BY <2>2 DEF A!AnonToolKey, key
    <3> HIDE DEF k
    <3> QED BY <1>0, <1>1, <3>1, Zenon DEF Steady, AConv
  <2>3. CASE ~(f.index # None \/ key # c.anonKey - 1) /\ f.id # None
    <3> DEFINE m == [c.idToKey EXCEPT ![f.id] = key]
    <3>1. k = [c EXCEPT !.anonKey = key, !.idToKey[f.id] = key]
      BY <2>3 DEF A!AnonToolKey, key
    <3>2. k = [c EXCEPT !.anonKey = key, !.idToKey = m]
      BY <1>0, <3>1 DEF AConv
    <3>3. m \in [ToolIds -> Int]
      BY <1>0, <1>1, Zenon
    <3> HIDE DEF k, m
    <3> QED BY <1>0, <1>1, <3>2, <3>3, Zenon DEF Steady, AConv
  <2> QED BY <2>1, <2>2, <2>3
<1>3. e = IF f.args THEN A!AddDelta(d, A!BlockOf(d, "tool", key), stamp) ELSE d
  BY DEF A!Tool
<1>4. b \in ABlock /\ b.kind = "tool" /\ b.key = key /\ (b.id <=> f.id # None) /\ (b.name <=> f.name)
  <2>1. <<>> \in Seq(Stamp)
    OBVIOUS
  <2> HIDE DEF key
  <2> QED BY <1>0, <1>1, <2>1, Zenon DEF ABlock, Kinds, A!Block
<1> HIDE DEF k, key, b
<1>5. Talking(k)
  BY <1>2, Steadily DEF Talking
<1>6. k \in AConv /\ HoldOrder(k.blocks) /\ k.blocks \in Seq(ABlock)
  BY <1>5, AFields DEF Talking
<1>7. hold \in BOOLEAN
  BY <1>0 DEF A!Held
<1>8. Talking(d) /\ \E j \in DOMAIN d.blocks : /\ d.blocks[j].kind = "tool" /\ d.blocks[j].key = key
                                               /\ d.blocks[j].state # "dropped"
  <2>1. CASE i = 0
    <3>1. d = A!OpenBlock(k, b, hold)
      BY <2>1
    <3>2. ~hold => f.id # None /\ f.name /\ ~A!Held(k, {"tool", "text"})
      BY Zenon
    <3>3. ~A!Held(k, {"tool", "text"}) => \A j \in DOMAIN k.blocks : k.blocks[j].state # "held"
      BY <1>6 DEF A!Held, HoldOrder
    <3> HIDE DEF d, hold
    <3>4. ~hold => b.id /\ b.name /\ \A j \in DOMAIN k.blocks : k.blocks[j].state # "held"
      BY <1>4, <3>2, <3>3, Zenon
    <3>5. (b.kind # "tool" => b.key = 0) /\ b.kind \in {"tool", "text"}
      BY <1>4
    <3>6. /\ Talking(d)
          /\ \E j \in DOMAIN d.blocks : d.blocks[j].kind = b.kind /\ d.blocks[j].key = b.key
                                        /\ d.blocks[j].state # "dropped"
      BY <1>4, <1>5, <1>7, <3>1, <3>4, <3>5, TalkOpen
    <3> QED BY <1>4, <3>6
  <2>2. CASE i # 0
    <3>1. i \in DOMAIN k.blocks /\ k.blocks[i].kind = "tool" /\ k.blocks[i].key = key /\ k.blocks[i].state # "dropped"
      BY <1>6, <2>2, ABlockOf
    <3>2. CASE k.blocks[i].state = "held"
      <4>1. d = A!Resolve(k, i, f)
        BY <2>2, <3>2
      <4> HIDE DEF d, i
      <4> QED BY <1>5, <3>1, <3>2, <4>1, TalkResolve
    <3>3. CASE k.blocks[i].state # "held"
      BY <1>5, <2>2, <3>1, <3>3
    <3> QED BY <3>2, <3>3
  <2> QED BY <2>1, <2>2
<1> HIDE DEF d
<1>9. /\ A!BlockOf(d, "tool", key) \in DOMAIN d.blocks
      /\ d.blocks[A!BlockOf(d, "tool", key)].state # "dropped"
  BY <1>8, BlockFound DEF Talking
<1>10. Talking(A!AddDelta(d, A!BlockOf(d, "tool", key), stamp))
  BY <1>8, <1>9, TalkDelta
<1> QED BY <1>3, <1>8, <1>10

\* So do all the tool fragments of a chunk.
LEMMA TalkTools ==
  ASSUME NEW c, Talking(c), NEW f \in A!Chunk, NEW n \in Nat
  PROVE  Talking(A!Tools(c, f, n))
<1> DEFINE X == {d \in AConv : Talking(d)}
           N == Len(f.tools)
<1>1. f.tools \in Seq(A!Fragment)
  BY DEF A!Chunk
<1>2. N \in Nat /\ DOMAIN f.tools = 1 .. N
  BY <1>1
<1>3. ASSUME NEW d \in X, NEW j \in 1 .. N
      PROVE  A!Tool(d, f.tools[j], <<n, j>>) \in X
  <2>1. Talking(d) /\ f.tools[j] \in A!Fragment
    BY <1>1, <1>2
  <2>2. <<n, j>> \in Stamp
    BY <1>2 DEF Stamp
  <2>3. Talking(A!Tool(d, f.tools[j], <<n, j>>))
    BY <2>1, <2>2, TalkTool
  <2> QED BY <2>3 DEF Talking
<1>4. c \in X
  BY DEF Talking
<1> HIDE DEF X, N
<1>5. A!Tools(c, f, n) \in X
  BY <1>2, <1>3, <1>4, ToolsStay
<1> QED BY <1>5 DEF X

\* And so does a whole chunk before its finish reason.
LEMMA TalkChunk ==
  ASSUME NEW c, Talking(c), NEW f \in A!Chunk, NEW n \in Nat
  PROVE  Talking(A!Delta(c, f, n))
<1> DEFINE c1 == IF f.think THEN A!Prose(c, "thinking", <<n, 0>>) ELSE c
           c2 == IF f.text THEN A!Prose(c1, "text", <<n, 0>>) ELSE c1
<1>0. <<n, 0>> \in Stamp
  BY DEF Stamp
<1>1. Talking(c1)
  BY <1>0, TalkProse
<1> HIDE DEF c1
<1>2. Talking(c2)
  BY <1>0, <1>1, TalkProse
<1> HIDE DEF c2
<1>3. A!Delta(c, f, n) = A!Tools(c2, f, n)
  BY DEF A!Delta, c1, c2
<1> QED BY <1>2, <1>3, TalkTools

\* A message in order, not over yet, is what the client may rely on.
LEMMA FineOrder ==
  ASSUME NEW s \in Seq(AEvent), NEW B, NEW k, BlockOrder(s, B), StopOrder(s, B, k), Message(s)
  PROVE  Fine(s)
<1>1. Starts(s) \subseteq DOMAIN s /\ DOMAIN s \subseteq Nat
  BY DEF Starts, OfType
<1>2. \A p, q \in Starts(s) : s[p].index = s[q].index => p = q
  <2> SUFFICES ASSUME NEW p \in Starts(s), NEW q \in Starts(s), s[p].index = s[q].index, p # q
               PROVE  FALSE
    OBVIOUS
  <2>1. p \in Nat /\ q \in Nat
    BY <1>1
  <2>2. s[p].index \in Nat /\ s[q].index \in Nat
    <3>1. s[p] \in AEvent /\ s[q] \in AEvent /\ s[p].type = "content_block_start" /\ s[q].type = "content_block_start"
      BY <1>1 DEF Starts, OfType
    <3> QED BY <3>1 DEF AEvent, BlockEvent, StartEvent, DeltaEvent, StopEvent
  <2>3. \A x, y \in Starts(s) : x < y => s[x].index < s[y].index
    BY DEF BlockOrder
  <2>4. p < q \/ q < p
    BY <2>1
  <2> QED BY <2>2, <2>3, <2>4
<1>3. \A p \in Deltas(s) : \E q \in Starts(s) : q < p /\ s[q].index = s[p].index /\ s[q].kind = s[p].kind
  BY DEF BlockOrder
<1>4. \A p \in Deltas(s), q \in Starts(s) : s[p].index = s[q].index => q < p /\ s[q].kind = s[p].kind
  <2> SUFFICES ASSUME NEW p \in Deltas(s), NEW q \in Starts(s), s[p].index = s[q].index
               PROVE  q < p /\ s[q].kind = s[p].kind
    OBVIOUS
  <2>1. PICK r \in Starts(s) : r < p /\ s[r].index = s[p].index /\ s[r].kind = s[p].kind
    BY <1>3
  <2>2. r = q
    BY <1>2, <2>1
  <2> QED BY <2>1, <2>2
<1>5. \A p \in Stops(s) : \E q \in Starts(s) : q < p /\ s[q].index = s[p].index
  BY DEF StopOrder
<1>6. /\ \A p \in Deltas(s), q \in Stops(s) : s[p].index = s[q].index => p < q
      /\ \A p, q \in Stops(s) : s[p].index = s[q].index => p = q
  BY DEF StopOrder
<1>7. /\ \A p, q \in Starts(s) : p < q => s[p].index < s[q].index
      /\ \A p \in Starts(s) : s[p].id /\ s[p].name
  BY Zenon DEF BlockOrder
<1>8. OfType(s, "message_start") = {1} /\ OfType(s, "message_delta") = {}
  BY DEF Message
<1>9. /\ \A p \in OfType(s, "message_start") : p = 1
      /\ OfType(s, "message_start") # {}
  BY <1>8, Zenon
<1>10. \A p \in Deltas(s) \cup Stops(s) : \E q \in Starts(s) : q < p /\ s[q].index = s[p].index
  BY <1>3, <1>5
<1> QED BY <1>4, <1>6, <1>7, <1>8, <1>9, <1>10, Zenon DEF Fine

\* Only the events of these types matter.
LEMMA FineSame ==
  ASSUME NEW s, Fine(s), NEW t,
         Starts(t) = Starts(s), Deltas(t) = Deltas(s), Stops(t) = Stops(s),
         OfType(t, "message_start") = OfType(s, "message_start"),
         \A p \in Starts(s) \cup Deltas(s) \cup Stops(s) : t[p] = s[p],
         \/ OfType(t, "message_delta") = OfType(s, "message_delta")
         \/ /\ AllStopped(s)
            /\ \E m : /\ OfType(t, "message_delta") = {m}
                      /\ \A p \in Starts(s) \cup Deltas(s) \cup Stops(s) : p < m
  PROVE  Fine(t)
<1>1. AllStopped(s) => AllStopped(t)
  BY DEF AllStopped
<1>2. /\ \A m \in OfType(t, "message_delta") :
           /\ \A p \in Starts(t) \cup Deltas(t) \cup Stops(t) : p < m
           /\ AllStopped(t)
      /\ \A p, q \in OfType(t, "message_delta") : p = q
  <2>1. /\ \A m \in OfType(s, "message_delta") :
             /\ \A p \in Starts(s) \cup Deltas(s) \cup Stops(s) : p < m
             /\ AllStopped(s)
        /\ \A p, q \in OfType(s, "message_delta") : p = q
    BY Zenon DEF Fine
  <2>2. CASE OfType(t, "message_delta") = OfType(s, "message_delta")
    BY <1>1, <2>1, <2>2
  <2>3. ASSUME AllStopped(s),
               NEW m, OfType(t, "message_delta") = {m},
               \A p \in Starts(s) \cup Deltas(s) \cup Stops(s) : p < m
        PROVE  /\ \A x \in OfType(t, "message_delta") :
                    /\ \A p \in Starts(t) \cup Deltas(t) \cup Stops(t) : p < x
                    /\ AllStopped(t)
               /\ \A p, q \in OfType(t, "message_delta") : p = q
    BY <1>1, <2>3
  <2> QED BY <2>2, <2>3
<1>3. \A p, q \in Starts(t) : p < q => t[p].index < t[q].index
  <2>1. \A p, q \in Starts(s) : p < q => s[p].index < s[q].index
    BY DEF Fine
  <2> QED BY <2>1
<1>4. \A p \in Starts(t) : t[p].id /\ t[p].name
  <2>1. \A p \in Starts(s) : s[p].id /\ s[p].name
    BY Zenon DEF Fine
  <2> QED BY <2>1
<1>5. \A p \in Deltas(t) \cup Stops(t) : \E q \in Starts(t) : q < p /\ t[q].index = t[p].index
  <2>1. \A p \in Deltas(s) \cup Stops(s) : \E q \in Starts(s) : q < p /\ s[q].index = s[p].index
    BY DEF Fine
  <2> QED BY <2>1
<1>6. \A p \in Deltas(t), q \in Starts(t) : t[p].index = t[q].index => q < p /\ t[q].kind = t[p].kind
  <2>1. \A p \in Deltas(s), q \in Starts(s) : s[p].index = s[q].index => q < p /\ s[q].kind = s[p].kind
    BY DEF Fine
  <2> QED BY <2>1
<1>7. \A p \in Deltas(t), q \in Stops(t) : t[p].index = t[q].index => p < q
  <2>1. \A p \in Deltas(s), q \in Stops(s) : s[p].index = s[q].index => p < q
    BY DEF Fine
  <2> QED BY <2>1
<1>8. \A p, q \in Stops(t) : t[p].index = t[q].index => p = q
  <2>1. \A p, q \in Stops(s) : s[p].index = s[q].index => p = q
    BY DEF Fine
  <2>2. \A p \in Stops(s) : t[p] = s[p]
    OBVIOUS
  <2> QED BY <2>1, <2>2
<1>9. (\A p \in OfType(t, "message_start") : p = 1) /\ (Starts(t) # {} => OfType(t, "message_start") # {})
  BY DEF Fine
<1> QED BY <1>2, <1>3, <1>4, <1>5, <1>6, <1>7, <1>8, <1>9, Zenon DEF Fine

\* An error or message_stop changes nothing.
LEMMA FineMore ==
  ASSUME NEW s \in Seq(AEvent), Fine(s), NEW e \in [type : {"message_stop", "error"}]
  PROVE  Fine(s \o <<e>>) /\ s \o <<e>> \in Seq(AEvent)
<1> DEFINE t == s \o <<e>>
<1>1. e \in AEvent /\ e.type \in {"message_stop", "error"}
  BY DEF AEvent
<1>2. /\ t \in Seq(AEvent)
      /\ \A p \in DOMAIN s : p \in DOMAIN t /\ t[p] = s[p]
      /\ \A p \in DOMAIN t : p \in DOMAIN s \/ p = Len(t)
      /\ t[Len(t)] = e
  BY <1>1, OneLonger
<1> HIDE DEF t
<1>3. \A y : y \notin {"message_stop", "error"} => OfType(t, y) = OfType(s, y)
  BY <1>1, <1>2 DEF OfType
<1>4. /\ Starts(t) = Starts(s) /\ Deltas(t) = Deltas(s) /\ Stops(t) = Stops(s)
      /\ OfType(t, "message_start") = OfType(s, "message_start")
      /\ OfType(t, "message_delta") = OfType(s, "message_delta")
  BY <1>3 DEF Starts, Deltas, Stops
<1>5. \A p \in Starts(s) \cup Deltas(s) \cup Stops(s) : t[p] = s[p]
  BY <1>2 DEF Starts, Deltas, Stops, OfType
<1> QED BY <1>2, <1>4, <1>5, FineSame, Zenon DEF t

\* Of two events more, what there is of one type.
LEMMA TwoOf ==
  ASSUME NEW E, NEW a \in E, NEW b \in E
  PROVE  <<a, b>> = <<a>> \o <<b>>
<1> DEFINE u == <<a>>
           v == <<b>>
           w == <<a, b>>
<1>1. /\ u \in Seq(E) /\ v \in Seq(E) /\ w \in Seq(E) /\ Len(u) = 1 /\ Len(v) = 1 /\ Len(w) = 2
      /\ u[1] = a /\ v[1] = b /\ w[1] = a /\ w[2] = b
  OBVIOUS
<1> HIDE DEF u, v, w
<1>2. w = u \o v
  <2> DEFINE z == u \o v
  <2>1. /\ z \in Seq(E)
        /\ Len(z) = Len(u) + Len(v)
        /\ \A i \in 1 .. Len(u) + Len(v) : z[i] = IF i <= Len(u) THEN u[i] ELSE v[i - Len(u)]
    BY <1>1, ConcatProperties, Zenon
  <2> HIDE DEF z
  <2>2. Len(z) = 2 /\ z[1] = u[1] /\ z[2] = v[1]
    BY <1>1, <2>1
  <2>3. w = z
    BY <1>1, <2>1, <2>2, SeqEqual
  <2> QED BY <2>3 DEF z
<1> QED BY <1>2 DEF u, v, w

\* The message's end, after its last stop.
LEMMA FineEnd ==
  ASSUME NEW s \in Seq(AEvent), Fine(s), AllStopped(s), OfType(s, "message_delta") = {},
         NEW reason \in StopReasons, NEW tokens \in Nat, NEW w,
         w = <<[type |-> "message_delta", reason |-> reason, tokens |-> tokens], [type |-> "message_stop"]>>
  PROVE  Fine(s \o w) /\ w \in Seq(AEvent) /\ s \o w \in Seq(AEvent)
<1> DEFINE e == [type |-> "message_delta", reason |-> reason, tokens |-> tokens]
           x == [type |-> "message_stop"]
           t == s \o <<e>>
<1>1. e \in AEvent /\ e.type = "message_delta"
  BY DEF AEvent
<1>x. x \in [type : {"message_stop", "error"}] /\ x \in AEvent
  BY DEF AEvent
<1> HIDE DEF e, x
<1>2. /\ t \in Seq(AEvent) /\ Len(t) = Len(s) + 1 /\ Len(s) \in Nat
      /\ \A p \in DOMAIN s : p \in DOMAIN t /\ t[p] = s[p] /\ p < Len(t) /\ p \in Nat
      /\ \A p \in DOMAIN t : p \in DOMAIN s \/ p = Len(t)
      /\ Len(t) \in DOMAIN t /\ t[Len(t)] = e
  BY <1>1, OneLonger
<1> HIDE DEF t
<1>3. \A y : y # "message_delta" => OfType(t, y) = OfType(s, y)
  BY <1>1, <1>2 DEF OfType
<1>4. /\ Starts(t) = Starts(s) /\ Deltas(t) = Deltas(s) /\ Stops(t) = Stops(s)
      /\ OfType(t, "message_start") = OfType(s, "message_start")
  BY <1>3 DEF Starts, Deltas, Stops
<1>5. \A p \in Starts(s) \cup Deltas(s) \cup Stops(s) : t[p] = s[p] /\ p < Len(t)
  BY <1>2 DEF Starts, Deltas, Stops, OfType
<1>6. OfType(t, "message_delta") = {Len(t)}
  BY <1>1, <1>2 DEF OfType
<1>7. Fine(t)
  BY <1>4, <1>5, <1>6, FineSame, Zenon
<1>8. Fine(t \o <<x>>) /\ t \o <<x>> \in Seq(AEvent)
  BY <1>2, <1>7, <1>x, FineMore
<1>9. w = <<e>> \o <<x>> /\ <<e>> \in Seq(AEvent) /\ <<x>> \in Seq(AEvent)
  <2>1. w = <<e, x>>
    BY DEF e, x
  <2>2. <<e>> \in Seq(AEvent) /\ <<x>> \in Seq(AEvent)
    <3> HIDE DEF AEvent
    <3> QED BY <1>1, <1>x
  <2>3. <<e, x>> = <<e>> \o <<x>>
    BY <1>1, <1>x, TwoOf
  <2> QED BY <2>1, <2>2, <2>3
<1>10. t \o <<x>> = s \o w
  <2>1. (s \o <<e>>) \o <<x>> = s \o (<<e>> \o <<x>>)
    BY <1>9, Associates, Zenon
  <2> QED BY <1>9, <2>1 DEF t
<1>11. w \in Seq(AEvent)
  <2> HIDE DEF AEvent
  <2> QED BY <1>9
<1> QED BY <1>8, <1>10, <1>11, Zenon

\* So is what a talking converter has sent.
LEMMA TalkingFine ==
  ASSUME NEW c, Talking(c)
  PROVE  Fine(c.out) /\ c.out \in Seq(AEvent)
<1>1. c.out \in Seq(AEvent)
  BY AFields DEF Talking
<1> QED BY <1>1, FineOrder DEF Talking

\* Nothing is in order.
LEMMA NothingFine == Fine(<<>>) /\ AllStopped(<<>>) /\ OfType(<<>>, "message_delta") = {}
<1>1. \A y : OfType(<<>>, y) = {}
  BY DEF OfType
<1> QED BY <1>1 DEF Fine, AllStopped, Starts, Deltas, Stops

\* What a converter has sent is in order, whatever its phase.
LEMMA BegunFine ==
  ASSUME NEW c, Silent(c) \/ Begun(c)
  PROVE  Fine(c.out) /\ c.out \in Seq(AEvent) /\ c \in AConv
<1>1. CASE Silent(c)
  BY <1>1, NothingFine, AFields DEF Silent
<1>2. CASE Talking(c)
  BY <1>2, TalkingFine DEF Talking
<1>3. CASE Stopped(c) \/ Over(c)
  BY <1>3, AFields DEF Stopped, Over
<1> QED BY <1>1, <1>2, <1>3 DEF Begun, Well, Done, Cut

\* The phases of a converter that has begun.
LEMMA Phases ==
  ASSUME NEW c, Begun(c)
  PROVE  /\ c.started /\ c \in AConv
         /\ c.finished => Over(c) /\ (Complete(c.out) \/ Cut(c))
         /\ ~c.finished => Well(c) /\ Ongoing(c.out) /\ (Talking(c) \/ Stopped(c))
<1>1. CASE Talking(c)
  BY <1>1 DEF Talking, Well, Message
<1>2. CASE Stopped(c) /\ c.ended # None
  BY <1>2 DEF Stopped, Well, Message
<1>3. CASE Done(c) \/ Cut(c)
  BY <1>3 DEF Done, Cut, Over
<1> QED BY <1>1, <1>2, <1>3 DEF Begun, Well

\* message_start begins the message.
LEMMA BeginTalks ==
  ASSUME NEW c, Silent(c), NEW d, d = A!Begin(c)
  PROVE  Talking(d)
<1> DEFINE e == [type |-> "message_start"]
           o == c.out \o <<e>>
<1>1. e \in AEvent /\ e.type = "message_start"
  BY DEF AEvent
<1>2. d = [A!Emit(c, <<e>>) EXCEPT !.started = TRUE]
  BY DEF Silent, A!Begin
<1> HIDE DEF e
<1>3. c.out = <<>> /\ c \in AConv
  BY DEF Silent
<1>4. o = <<e>> /\ o \in Seq(AEvent)
  <2>1. <<e>> \in Seq(AEvent)
    <3> HIDE DEF AEvent
    <3> QED BY <1>1
  <2> HIDE DEF AEvent
  <2> QED BY <1>3, <2>1, ConcatEmptySeq
<1> HIDE DEF o
<1>5. d = [c EXCEPT !.out = o, !.started = TRUE]
  BY <1>2, <1>3 DEF A!Emit, AConv, o
<1>6. /\ d \in AConv /\ d.started /\ ~d.finished /\ d.ended = None /\ d.out = <<e>> /\ d.blocks = <<>>
  <2> HIDE DEF AEvent
  <2> QED BY <1>4, <1>5, Zenon DEF Silent, AConv
<1>7. /\ OfType(d.out, "message_start") = {1} /\ OfType(d.out, "message_delta") = {} /\ Ongoing(d.out)
      /\ Starts(d.out) = {} /\ Deltas(d.out) = {} /\ Stops(d.out) = {}
  <2>1. DOMAIN <<e>> = {1} /\ <<e>>[1] = e
    OBVIOUS
  <2> QED BY <1>1, <1>6, <2>1 DEF OfType, Starts, Deltas, Stops, Ongoing, Harmless, Seen, Ends
<1>8. Message(d.out) /\ BlockOrder(d.out, d.blocks) /\ StopOrder(d.out, d.blocks, 0) /\ HoldOrder(d.blocks)
  BY <1>6, <1>7 DEF Message, BlockOrder, StopOrder, HoldOrder
<1> QED BY <1>6, <1>8 DEF Talking

\* Flushing and stopping every block leaves the message without its end.
LEMMA StopAll ==
  ASSUME NEW c, Talking(c), NEW d, d = A!StopBlocks(A!FlushAll(c))
  PROVE  Steady(c, d) /\ Message(d.out) /\ Fine(d.out) /\ AllStopped(d.out)
<1> DEFINE k == A!FlushAll(c)
           B == k.blocks
           n == Len(B)
<1>1. Talking(k)
  BY TalkFlush
<1>0. Steady(c, k)
  BY AFlushAll, Zenon DEF Talking
<1> HIDE DEF k
<1>2. /\ k \in AConv /\ B \in Seq(ABlock) /\ k.out \in Seq(AEvent) /\ n \in Nat /\ DOMAIN B = 1 .. n
      /\ Message(k.out) /\ BlockOrder(k.out, B) /\ StopOrder(k.out, B, 0)
  BY <1>1, AFields DEF Talking
<1>3. d = A!StopBlocks(k)
  BY DEF k
<1>4. Steady(k, d) /\ d.blocks = B
  BY <1>2, <1>3, AStopBlocks, Zenon
<1>5. PICK g \in [0 .. n -> Seq(BlockEvent)] :
        /\ g[0] = <<>>
        /\ \A i \in 1 .. n : g[i] = g[i - 1] \o StopEvents(B, i)
        /\ d.out = k.out \o g[n]
  BY <1>2, <1>3, AStopBlocks, Zenon
<1> HIDE DEF B
<1>6. BlockOrder(d.out, B) /\ StopOrder(d.out, B, n)
  <2> HIDE DEF n
  <2>1. n = Len(B)
    BY DEF n
  <2>2. BlockOrder(k.out \o g[n], B) /\ StopOrder(k.out \o g[n], B, n)
    BY <1>2, <1>5, <2>1, StopsKeep, Zenon
  <2> QED BY <1>5, <2>2
<1>7. Message(d.out)
  <2>1. g[n] \in Seq(BlockEvent)
    BY <1>2, <1>5
  <2> QED BY <1>2, <1>5, <2>1, MessageMore
<1>8. d.out \in Seq(AEvent) /\ Steady(c, d)
  BY <1>0, <1>4, AFields DEF Steady
<1>9. Fine(d.out)
  BY <1>6, <1>7, <1>8, FineOrder
<1>10. AllStopped(d.out)
  <2>1. \A p \in Starts(d.out) : d.out[p].index \in 1 .. n /\ B[d.out[p].index].state = "open"
    BY <1>2, <1>6 DEF BlockOrder, B
  <2>2. \A i \in 1 .. n : B[i].state = "open" => \E p \in Stops(d.out) : d.out[p].index = i
    BY <1>6 DEF StopOrder
  <2> QED BY <2>1, <2>2 DEF AllStopped
<1> QED BY <1>7, <1>8, <1>9, <1>10

\* Every finish reason has an Anthropic stop reason.
LEMMA Reasons == \A finish : A!StopReason(finish) \in StopReasons
  BY DEF A!StopReason, StopReasons

\* The two events of a message's end complete it.
LEMMA EndComplete ==
  ASSUME NEW s \in Seq(AEvent), Ongoing(s), NEW reason \in StopReasons, NEW tokens \in Nat, NEW w,
         w = <<[type |-> "message_delta", reason |-> reason, tokens |-> tokens], [type |-> "message_stop"]>>
  PROVE  Complete(s \o w)
<1> DEFINE e == [type |-> "message_delta", reason |-> reason, tokens |-> tokens]
           x == [type |-> "message_stop"]
           t == s \o <<e>>
<1>1. e \in AEvent /\ x \in AEvent /\ Harmless(e) /\ Seen(x) \in Ends
  BY DEF AEvent, Harmless, Seen, Ends
<1>w. w = <<e, x>>
  OBVIOUS
<1> HIDE DEF e, x, AEvent
<1>2. t \in Seq(AEvent) /\ OneMore(s, e, t)
  BY <1>1, OneMoreIs
<1> HIDE DEF t
<1>3. Ongoing(t)
  BY <1>1, <1>2, OngoingNext
<1>4. OneMore(t, x, t \o <<x>>)
  BY <1>1, <1>2, OneMoreIs
<1>5. Complete(t \o <<x>>)
  BY <1>1, <1>3, <1>4, OngoingNext
<1>6. t \o <<x>> = s \o w
  <2>1. <<e>> \in Seq(AEvent) /\ <<x>> \in Seq(AEvent)
    BY <1>1
  <2>2. (s \o <<e>>) \o <<x>> = s \o (<<e>> \o <<x>>)
    BY <2>1, Associates, Zenon
  <2>3. <<e, x>> = <<e>> \o <<x>>
    BY <1>1, TwoOf, Zenon
  <2> QED BY <1>w, <2>2, <2>3 DEF t
<1> QED BY <1>5, <1>6, Zenon

\* terminate ends a message whose blocks have stopped.
LEMMA TerminateEnds ==
  ASSUME NEW c, Stopped(c), NEW d, d = A!Terminate(c)
  PROVE  Done(d)
<1> DEFINE w == <<[type |-> "message_delta", reason |-> A!StopReason(c.ended), tokens |-> c.tokens],
                  [type |-> "message_stop"]>>
           o == c.out \o w
<1>1. d = [A!Emit(c, w) EXCEPT !.finished = TRUE]
  BY DEF A!Terminate, Stopped
<1>2. c \in AConv /\ c.tokens \in Nat /\ c.out \in Seq(AEvent) /\ A!StopReason(c.ended) \in StopReasons
  BY AFields, Reasons DEF Stopped
<1> HIDE DEF w
<1>3. w = <<[type |-> "message_delta", reason |-> A!StopReason(c.ended), tokens |-> c.tokens],
            [type |-> "message_stop"]>>
  BY DEF w
<1>4. Fine(o) /\ o \in Seq(AEvent)
  <2>1. Fine(c.out) /\ AllStopped(c.out) /\ OfType(c.out, "message_delta") = {}
    BY DEF Stopped, Message
  <2> QED BY <1>2, <1>3, <2>1, FineEnd, Zenon
<1>6. Complete(o)
  <2>1. Ongoing(c.out)
    BY DEF Stopped, Message
  <2> QED BY <1>2, <1>3, <2>1, EndComplete
<1> HIDE DEF o
<1>5. d = [c EXCEPT !.out = o, !.finished = TRUE]
  BY <1>1, <1>2 DEF A!Emit, AConv, o
<1> HIDE DEF AEvent
<1> QED BY <1>2, <1>4, <1>5, <1>6, Zenon DEF Stopped, Done, Over, AConv

\* A finish reason stops every block.
LEMMA FinishEnds ==
  ASSUME NEW c, Talking(c), NEW f \in A!Chunk, f.finish # None, NEW n \in Nat, NEW e, e = A!Finish(c, f, n)
  PROVE  Well(e)
<1> DEFINE k == A!StopBlocks(A!FlushAll(c))
           d == [k EXCEPT !.ended = f.finish]
           tok == IF f.usage = "real" THEN n ELSE d.tokens
           x == [d EXCEPT !.tokens = tok]
<1>1. Steady(c, k) /\ Message(k.out) /\ Fine(k.out) /\ AllStopped(k.out)
  BY StopAll
<1>2. k \in AConv /\ k.started /\ ~k.finished
  BY <1>1 DEF Steady, Talking
<1>3. f.finish \in Finishes
  BY DEF A!Chunk, Finishes
<1>4. e = IF f.usage = "absent" THEN d ELSE A!Terminate(x)
  BY DEF A!Finish
<1> HIDE DEF k
<1>5. /\ d \in AConv /\ d.started /\ ~d.finished /\ d.out = k.out /\ d.ended = f.finish /\ d.tokens = k.tokens
  <2> HIDE DEF AEvent
  <2> QED BY <1>2, <1>3, Zenon DEF AConv
<1> HIDE DEF d
<1>6. tok \in Nat
  BY <1>5, AFields
<1> HIDE DEF tok
<1>7. x \in AConv /\ x.started /\ ~x.finished /\ x.out = k.out
  <2> HIDE DEF AEvent
  <2> QED BY <1>5, <1>6, Zenon DEF AConv
<1> HIDE DEF x
<1>8. Stopped(d) /\ Stopped(x)
  BY <1>1, <1>5, <1>7 DEF Stopped
<1>9. Done(A!Terminate(x))
  BY <1>8, TerminateEnds
<1> QED BY <1>4, <1>5, <1>8, <1>9 DEF Well

\* CloseStream ends a message that has not ended.
LEMMA CloseEnds ==
  ASSUME NEW c, Begun(c), ~c.finished, NEW d, d = A!CloseStream(c)
  PROVE  Done(d)
<1>0. Talking(c) \/ (Stopped(c) /\ c.ended # None)
  BY DEF Begun, Well, Done, Cut, Over
<1>1. CASE c.ended # None
  <2>1. Stopped(c)
    BY <1>0, <1>1 DEF Talking
  <2>2. d = A!Terminate(c)
    BY <1>1 DEF A!CloseStream, A!NoFinish
  <2> QED BY <2>1, <2>2, TerminateEnds
<1>2. CASE c.ended = None
  <2> DEFINE k == A!StopBlocks(A!FlushAll(c))
  <2>1. Talking(c)
    BY <1>0, <1>2
  <2>2. d = A!Terminate(k)
    BY <1>2 DEF A!CloseStream, A!NoFinish
  <2>3. Steady(c, k) /\ Message(k.out) /\ Fine(k.out) /\ AllStopped(k.out)
    BY <2>1, StopAll
  <2> HIDE DEF k
  <2>4. Stopped(k)
    BY <2>1, <2>3 DEF Stopped, Steady, Talking
  <2> QED BY <2>2, <2>4, TerminateEnds
<1> QED BY <1>1, <1>2

\* Whatever a frame says, the converter is in one of its phases after it.
LEMMA ConvertOrders ==
  ASSUME NEW c, Silent(c) \/ Begun(c), NEW f, f.type = "malformed" \/ f \in A!Chunk, NEW n \in Nat,
         NEW e, e = A!Convert(c, f, n)
  PROVE  /\ Begun(e)
         /\ c.finished => e = c
         /\ ~c.finished /\ f.type = "malformed" => ~e.finished
         /\ ~c.finished /\ f.type # "malformed" => IF f.error = "absent" THEN Well(e) ELSE Cut(e)
<1> DEFINE b == A!Begin(c)
           err == [A!Emit(b, <<A!ErrorEvent>>) EXCEPT !.finished = TRUE]
           d == A!Delta(b, f, n)
<1>1. Begun(b) /\ (c.finished => b = c) /\ (~c.finished => ~b.finished)
  <2>1. CASE Silent(c)
    <3>1. Talking(b)
      BY <2>1, BeginTalks
    <3>2. ~b.finished /\ ~c.finished
      BY <2>1, <3>1 DEF Talking, Silent
    <3> QED BY <3>1, <3>2 DEF Begun, Well
  <2>2. CASE Begun(c)
    <3>1. c.started
      BY <2>2, Phases
    <3>2. b = c
      BY <3>1 DEF A!Begin
    <3> QED BY <2>2, <3>2
  <2> QED BY <2>1, <2>2
<1>2. e = IF b.finished \/ f.type = "malformed" THEN b
          ELSE IF f.error # "absent" THEN err
          ELSE IF ~f.choices THEN A!UsageChunk(b, f, n)
          ELSE IF b.ended # None THEN b
          ELSE IF f.finish = None THEN d ELSE A!Finish(d, f, n)
  BY DEF A!Convert, A!NoFinish
<1>3. b.started
  BY <1>1, Phases
<1> HIDE DEF b
<1>4. CASE b.finished \/ f.type = "malformed"
  <2>1. e = b
    BY <1>2, <1>4
  <2> QED BY <1>1, <1>4, <2>1
<1>5. CASE ~(b.finished \/ f.type = "malformed")
  <2>0. f \in A!Chunk /\ ~b.finished /\ ~c.finished /\ f.type # "malformed"
    BY <1>1, <1>5
  <2>p. Ongoing(b.out) /\ (Talking(b) \/ (Stopped(b) /\ b.ended # None))
    BY <1>1, <2>0, Phases DEF Begun, Well, Done, Cut, Over
  <2>1. Cut(err)
    <3> DEFINE o == b.out \o <<A!ErrorEvent>>
    <3>1. b \in AConv /\ b.out \in Seq(AEvent) /\ Fine(b.out)
      BY <1>1, BegunFine
    <3>2. A!ErrorEvent \in [type : {"message_stop", "error"}] /\ A!ErrorEvent \in AEvent
          /\ Seen(A!ErrorEvent) = "error"
      BY DEF A!ErrorEvent, AEvent, Seen
    <3>3. Fine(o) /\ o \in Seq(AEvent)
      BY <3>1, <3>2, FineMore
    <3>5. Failing(o)
      <4> HIDE DEF AEvent
      <4>1. OneMore(b.out, A!ErrorEvent, o)
        BY <3>1, <3>2, OneMoreIs
      <4> HIDE DEF o
      <4> QED BY <2>p, <3>2, <4>1, OngoingNext
    <3> HIDE DEF o
    <3>4. err = [b EXCEPT !.out = o, !.finished = TRUE]
      BY <3>1 DEF A!Emit, AConv, o
    <3> HIDE DEF err, AEvent
    <3> QED BY <1>3, <3>1, <3>3, <3>4, <3>5, Zenon DEF Over, Cut, AConv
  <2>2. Well(A!UsageChunk(b, f, n))
    <3> DEFINE tok == IF f.usage = "real" THEN n ELSE b.tokens
               x == [b EXCEPT !.tokens = tok]
    <3>1. A!UsageChunk(b, f, n) = IF x.ended # None THEN A!Terminate(x) ELSE x
      BY DEF A!UsageChunk, A!NoFinish
    <3>2. tok \in Nat /\ b \in AConv
      BY <1>1, BegunFine, AFields
    <3> HIDE DEF tok
    <3>3. /\ x \in AConv /\ x.started = b.started /\ x.finished = b.finished /\ x.ended = b.ended
          /\ x.blocks = b.blocks /\ x.out = b.out
      <4> HIDE DEF AEvent
      <4> QED BY <3>2, Zenon DEF AConv
    <3> HIDE DEF x
    <3>4. CASE Talking(b)
      <4>1. Talking(x) /\ x.ended = None
        BY <3>3, <3>4 DEF Talking
      <4> QED BY <3>1, <4>1 DEF Well
    <3>5. CASE Stopped(b) /\ b.ended # None
      <4>1. Stopped(x) /\ x.ended # None
        BY <3>3, <3>5 DEF Stopped
      <4>2. Done(A!Terminate(x))
        BY <4>1, TerminateEnds
      <4> QED BY <3>1, <4>1, <4>2 DEF Well
    <3> QED BY <2>p, <3>4, <3>5
  <2>3. CASE b.ended = None
    <3>1. Talking(b)
      BY <2>p, <2>3
    <3>2. Talking(d)
      BY <2>0, <3>1, TalkChunk
    <3> HIDE DEF d
    <3>3. f.finish # None => Well(A!Finish(d, f, n))
      BY <2>0, <3>2, FinishEnds
    <3>4. IF f.error = "absent" THEN Well(e) ELSE Cut(e)
      <4> HIDE DEF err
      <4> QED BY <1>2, <1>5, <2>1, <2>2, <2>3, <3>2, <3>3 DEF Well
    <3> QED BY <2>0, <3>4 DEF Begun
  <2>4. CASE b.ended # None
    <3>1. Well(b)
      BY <2>p, <2>4 DEF Well, Talking
    <3>2. IF f.error = "absent" THEN Well(e) ELSE Cut(e)
      <4> HIDE DEF err, d
      <4> QED BY <1>2, <1>5, <2>1, <2>2, <2>4, <3>1
    <3> QED BY <2>0, <3>2 DEF Begun
  <2> QED BY <2>3, <2>4
<1> QED BY <1>4, <1>5

\* A block's three events keep a whole message whole.
LEMMA BlockWhole ==
  ASSUME NEW s, NEW k \in Nat, Whole3(s, k), NEW w, BlockSays(w, k + 1), NEW t, t = s \o w
  PROVE  Whole3(t, k + 1)
<1> DEFINE i == k + 1
           L == Len(s)
           a == w[1]
           b == w[2]
           c == w[3]
<1>0. s \in Seq(AEvent)
  BY DEF Whole3
<1>1. /\ a.type = "content_block_start" /\ a.index = i /\ a.id /\ a.name
      /\ b.type = "content_block_delta" /\ b.index = i /\ b.kind = a.kind
      /\ c.type = "content_block_stop" /\ c.index = i
  BY Zenon DEF BlockSays
<1>2. w \in Seq(AEvent) /\ Len(w) = 3
  BY DEF BlockSays
<1>i. i \in Nat /\ i \notin 1 .. k /\ i \in 1 .. k + 1 /\ 1 .. k \subseteq 1 .. k + 1 /\ \A x \in 1 .. k : x < i
  OBVIOUS
<1> HIDE DEF i
<1>3. /\ t \in Seq(AEvent) /\ L \in Nat
      /\ \A p \in DOMAIN s : p \in DOMAIN t /\ t[p] = s[p] /\ p <= L /\ p \in Nat
      /\ \A p \in DOMAIN t : p \in DOMAIN s \/ p \in {L + 1, L + 2, L + 3}
      /\ {L + 1, L + 2, L + 3} \subseteq DOMAIN t
      /\ t[L + 1] = a /\ t[L + 2] = b /\ t[L + 3] = c
  <2>1. /\ t \in Seq(AEvent) /\ Len(t) = Len(s) + Len(w) /\ Len(s) \in Nat
        /\ DOMAIN s = 1 .. Len(s) /\ DOMAIN t = 1 .. Len(t) /\ DOMAIN w = 1 .. Len(w)
        /\ \A p \in DOMAIN s : p \in DOMAIN t /\ t[p] = s[p] /\ p <= Len(s) /\ p \in Nat
        /\ \A j \in DOMAIN w : Len(s) + j \in DOMAIN t /\ t[Len(s) + j] = w[j]
    <3>1. s \in Seq(AEvent) /\ w \in Seq(AEvent) /\ t = s \o w
      BY <1>0, <1>2
    <3> HIDE DEF L, a, b, c
    <3>2. t \in Seq(AEvent) /\ Len(t) = Len(s) + Len(w) /\ Len(s) \in Nat
      BY <3>1, Longer
    <3>3. DOMAIN s = 1 .. Len(s) /\ DOMAIN t = 1 .. Len(t) /\ DOMAIN w = 1 .. Len(w)
      BY <3>1, <3>2
    <3>4. \A p \in DOMAIN s : p \in DOMAIN t /\ t[p] = s[p] /\ p <= Len(s) /\ p \in Nat
      BY <3>1, Longer
    <3>5. \A j \in DOMAIN w : Len(s) + j \in DOMAIN t /\ t[Len(s) + j] = w[j]
      BY <3>1, Longer
    <3> QED BY <3>2, <3>3, <3>4, <3>5
  <2>2. 1 \in DOMAIN w /\ 2 \in DOMAIN w /\ 3 \in DOMAIN w
    BY <1>2, <2>1
  <2> QED BY <1>2, <2>1, <2>2
<1> DEFINE A1 == L + 1
           B1 == L + 2
           C1 == L + 3
<1>n. A1 < B1 /\ B1 < C1 /\ A1 < C1 /\ \A p \in DOMAIN s : p < A1 /\ p < B1 /\ p < C1
  BY <1>3
<1>4. \A p \in DOMAIN s : p \in DOMAIN t /\ t[p] = s[p]
  BY <1>3
<1>5. /\ \A p \in DOMAIN t : p \in DOMAIN s \/ p \in {A1, B1, C1}
      /\ {A1, B1, C1} \subseteq DOMAIN t
      /\ t[A1] = a /\ t[B1] = b /\ t[C1] = c
  BY <1>3
<1>d. A1 \notin DOMAIN s /\ B1 \notin DOMAIN s /\ C1 \notin DOMAIN s
  BY <1>0, <1>3
<1> HIDE DEF A1, B1, C1, L, a, b, c
<1>6. /\ Starts(t) = Starts(s) \cup {A1} /\ Deltas(t) = Deltas(s) \cup {B1} /\ Stops(t) = Stops(s) \cup {C1}
      /\ OfType(t, "message_start") = OfType(s, "message_start")
      /\ OfType(t, "message_delta") = OfType(s, "message_delta")
      /\ Starts(s) \cup Deltas(s) \cup Stops(s) \subseteq DOMAIN s
  <2>0. /\ \A p \in DOMAIN s : t[p].type = s[p].type
        /\ t[A1].type = "content_block_start" /\ t[B1].type = "content_block_delta"
        /\ t[C1].type = "content_block_stop"
        /\ DOMAIN t = DOMAIN s \cup {A1, B1, C1}
    BY <1>1, <1>4, <1>5
  <2>1. OfType(t, "content_block_start") = OfType(s, "content_block_start") \cup {A1}
    BY <2>0, Zenon DEF OfType
  <2>2. OfType(t, "content_block_delta") = OfType(s, "content_block_delta") \cup {B1}
    BY <2>0, Zenon DEF OfType
  <2>3. OfType(t, "content_block_stop") = OfType(s, "content_block_stop") \cup {C1}
    BY <2>0, Zenon DEF OfType
  <2>4. /\ OfType(t, "message_start") = OfType(s, "message_start")
        /\ OfType(t, "message_delta") = OfType(s, "message_delta")
    BY <2>0, Zenon DEF OfType
  <2>5. \A y : OfType(s, y) \subseteq DOMAIN s
    BY DEF OfType
  <2> QED BY <2>1, <2>2, <2>3, <2>4, <2>5 DEF Starts, Deltas, Stops
<1>7. \A p \in Starts(s) \cup Deltas(s) \cup Stops(s) : t[p] = s[p] /\ t[p].index \in 1 .. k /\ p < A1 /\ p < B1 /\ p < C1
  <2>1. \A p \in Starts(s) \cup Deltas(s) \cup Stops(s) : s[p].index \in 1 .. k
    BY DEF Whole3
  <2> QED BY <1>4, <1>n, <1>6, <2>1
<1>8. t[A1].index = i /\ t[B1].index = i /\ t[C1].index = i
  BY <1>1, <1>5
<1>9. Message(t)
  <2>1. \A p \in DOMAIN s : Harmless(t[p])
    BY <1>4 DEF Whole3, Message, Ongoing
  <2>2. Harmless(a) /\ Harmless(b) /\ Harmless(c)
    BY <1>1 DEF Harmless, Seen, Ends
  <2>3. Ongoing(t)
    BY <1>5, <2>1, <2>2, Zenon DEF Ongoing
  <2> QED BY <1>6, <2>3 DEF Message, Whole3
<1>10. \A p \in Starts(t) \cup Deltas(t) \cup Stops(t) : t[p].index \in 1 .. k + 1
  BY <1>i, <1>6, <1>7, <1>8, Zenon
<1>11. AllStopped(t)
  <2>1. \A p \in Starts(s) : \E q \in Stops(s) : s[q].index = s[p].index
    BY DEF AllStopped, Whole3
  <2>2. \A p \in Starts(s) : \E q \in Stops(t) : t[q].index = t[p].index
    BY <1>6, <1>7, <2>1, Zenon
  <2> QED BY <1>6, <1>8, <2>2, Zenon DEF AllStopped
<1>s. Fine(s)
  BY DEF Whole3
<1>12. \A p, q \in Starts(t) : p < q => t[p].index < t[q].index
  <2> SUFFICES ASSUME NEW p \in Starts(t), NEW q \in Starts(t), p < q
               PROVE  t[p].index < t[q].index
    BY Zenon
  <2>1. CASE p \in Starts(s) /\ q \in Starts(s)
    <3>1. s[p].index < s[q].index
      BY <1>s, <2>1 DEF Fine
    <3> QED BY <1>7, <2>1, <3>1, Zenon
  <2>2. CASE p \in Starts(s) /\ q = A1
    BY <1>i, <1>7, <1>8, <2>2, Zenon
  <2>3. CASE p = A1
    <3>1. ~ (A1 < A1) /\ \A x \in Starts(s) : ~ (A1 < x)
      BY <1>3, <1>6 DEF A1
    <3> QED BY <1>6, <2>3, <3>1
  <2> QED BY <1>6, <2>1, <2>2, <2>3, Zenon
<1>13. \A p \in Starts(t) : t[p].id /\ t[p].name
  <2>1. \A p \in Starts(s) : s[p].id /\ s[p].name
    BY <1>s, Zenon DEF Fine
  <2>2. t[A1].id /\ t[A1].name
    BY <1>1, <1>5
  <2> QED BY <1>6, <1>7, <2>1, <2>2, Zenon
<1>14. \A p \in Deltas(t) \cup Stops(t) : \E q \in Starts(t) : q < p /\ t[q].index = t[p].index
  <2>1. \A p \in Deltas(s) \cup Stops(s) : \E q \in Starts(s) : q < p /\ s[q].index = s[p].index
    BY <1>s DEF Fine
  <2>2. \A p \in Deltas(s) \cup Stops(s) : \E q \in Starts(t) : q < p /\ t[q].index = t[p].index
    BY <1>6, <1>7, <2>1, ZenonT(30)
  <2>3. A1 \in Starts(t) /\ A1 < B1 /\ A1 < C1 /\ t[A1].index = t[B1].index /\ t[A1].index = t[C1].index
    BY <1>n, <1>6, <1>8
  <2> QED BY <1>6, <2>2, <2>3, Zenon
<1>15. \A p \in Deltas(t), q \in Starts(t) : t[p].index = t[q].index => q < p /\ t[q].kind = t[p].kind
  <2> SUFFICES ASSUME NEW p \in Deltas(t), NEW q \in Starts(t), t[p].index = t[q].index
               PROVE  q < p /\ t[q].kind = t[p].kind
    BY Zenon
  <2>1. CASE p \in Deltas(s) /\ q \in Starts(s)
    <3>1. s[p].index = s[q].index => q < p /\ s[q].kind = s[p].kind
      BY <1>s, <2>1 DEF Fine
    <3> QED BY <1>7, <2>1, <3>1, Zenon
  <2>2. CASE p = B1 /\ q = A1
    BY <1>1, <1>5, <1>n, <2>2
  <2>3. CASE (p \in Deltas(s) /\ q = A1) \/ (p = B1 /\ q \in Starts(s))
    BY <1>i, <1>7, <1>8, <2>3, Zenon
  <2> QED BY <1>6, <2>1, <2>2, <2>3, Zenon
<1>16. \A p \in Deltas(t), q \in Stops(t) : t[p].index = t[q].index => p < q
  <2> SUFFICES ASSUME NEW p \in Deltas(t), NEW q \in Stops(t), t[p].index = t[q].index
               PROVE  p < q
    BY Zenon
  <2>1. CASE p \in Deltas(s) /\ q \in Stops(s)
    <3>1. s[p].index = s[q].index => p < q
      BY <1>s, <2>1 DEF Fine
    <3> QED BY <1>7, <2>1, <3>1, Zenon
  <2>2. CASE p = B1 /\ q = C1
    BY <1>n, <2>2
  <2>3. CASE (p \in Deltas(s) /\ q = C1) \/ (p = B1 /\ q \in Stops(s))
    BY <1>i, <1>7, <1>8, <2>3, Zenon
  <2> QED BY <1>6, <2>1, <2>2, <2>3
<1>17. \A p, q \in Stops(t) : t[p].index = t[q].index => p = q
  <2> SUFFICES ASSUME NEW p \in Stops(t), NEW q \in Stops(t), t[p].index = t[q].index
               PROVE  p = q
    BY Zenon
  <2>1. CASE p \in Stops(s) /\ q \in Stops(s)
    <3>1. s[p].index = s[q].index => p = q
      BY <1>s, <2>1 DEF Fine
    <3> QED BY <1>7, <2>1, <3>1, Zenon
  <2>2. CASE p = C1 /\ q = C1
    BY <2>2
  <2>3. CASE (p \in Stops(s) /\ q = C1) \/ (p = C1 /\ q \in Stops(s))
    BY <1>i, <1>7, <1>8, <2>3, Zenon
  <2> QED BY <1>6, <2>1, <2>2, <2>3
<1>18. OfType(t, "message_start") = {1} /\ OfType(t, "message_delta") = {}
  BY <1>9 DEF Message
<1>19. Fine(t)
  <2>1. (\A p \in OfType(t, "message_start") : p = 1) /\ OfType(t, "message_start") # {}
    BY <1>18, Zenon
  <2> QED BY <1>12, <1>13, <1>14, <1>15, <1>16, <1>17, <1>18, <2>1, Zenon DEF Fine
<1> QED BY <1>3, <1>9, <1>10, <1>11, <1>19, Zenon DEF Whole3

\* The blocks of an OpenAI completion.
LEMMA MessageBlocksType ==
  ASSUME NEW b \in A!Chunk
  PROVE  MessageBlocks(b) \in Seq(MessageBlock)
<1> DEFINE think == IF b.think THEN <<[kind |-> "thinking", data |-> <<1, 0>>]>> ELSE <<>>
           text == IF b.text THEN <<[kind |-> "text", data |-> <<1, 0>>]>> ELSE <<>>
           refusal == IF b.refusal THEN <<[kind |-> "text", data |-> <<1, 0>>]>> ELSE <<>>
           tools == [j \in DOMAIN b.tools |-> [kind |-> "tool", data |-> <<1, j>>]]
<1>1. /\ [kind |-> "thinking", data |-> <<1, 0>>] \in MessageBlock
      /\ [kind |-> "text", data |-> <<1, 0>>] \in MessageBlock
  BY DEF MessageBlock, Kinds, Stamp
<1>2. b.tools \in Seq(A!Fragment)
  BY DEF A!Chunk
<1>3. \A j \in DOMAIN b.tools : [kind |-> "tool", data |-> <<1, j>>] \in MessageBlock
  BY <1>2 DEF MessageBlock, Kinds, Stamp
<1>4. tools \in Seq(MessageBlock)
  <2>1. DOMAIN b.tools = 1 .. Len(b.tools) /\ Len(b.tools) \in Nat
    BY <1>2
  <2> HIDE DEF MessageBlock
  <2> QED BY <1>3, <2>1
<1>5. think \in Seq(MessageBlock) /\ text \in Seq(MessageBlock) /\ refusal \in Seq(MessageBlock)
  <2> HIDE DEF MessageBlock
  <2> QED BY <1>1
<1>6. MessageBlocks(b) = think \o text \o refusal \o tools
  BY DEF MessageBlocks
<1> HIDE DEF think, text, refusal, tools, MessageBlock
<1> QED BY <1>4, <1>5, <1>6

\* A block says its start, one delta and its stop.
LEMMA BlockEventsSay ==
  ASSUME NEW b \in MessageBlock, NEW i \in Nat, NEW w,
         w = <<A!BlockStart(i, [kind |-> b.kind, id |-> TRUE, name |-> TRUE]),
               A!BlockDelta(i, b.kind, b.data), A!BlockStop(i)>>
  PROVE  BlockSays(w, i)
<1> DEFINE x == A!BlockStart(i, [kind |-> b.kind, id |-> TRUE, name |-> TRUE])
           y == A!BlockDelta(i, b.kind, b.data)
           z == A!BlockStop(i)
<1>0. b.kind \in Kinds /\ b.data \in Stamp
  BY DEF MessageBlock
<1>1. /\ x \in AEvent /\ x.type = "content_block_start" /\ x.index = i /\ x.kind = b.kind /\ x.id /\ x.name
      /\ y \in AEvent /\ y.type = "content_block_delta" /\ y.index = i /\ y.kind = b.kind
      /\ z \in AEvent /\ z.type = "content_block_stop" /\ z.index = i
  BY <1>0 DEF A!BlockStart, A!BlockDelta, A!BlockStop, AEvent, BlockEvent, StartEvent, DeltaEvent, StopEvent
<1>2. w = <<x, y, z>>
  OBVIOUS
<1> HIDE DEF x, y, z
<1>3. w \in Seq(AEvent) /\ Len(w) = 3 /\ w[1] = x /\ w[2] = y /\ w[3] = z
  <2> HIDE DEF AEvent
  <2> QED BY <1>1, <1>2
<1> QED BY <1>1, <1>3, Zenon DEF BlockSays

\* A whole message is in order and all its blocks stop.
LEMMA MessageWhole ==
  ASSUME NEW blocks \in Seq(MessageBlock), NEW s, s = MessageEvents(blocks)
  PROVE  s \in Seq(AEvent) /\ Message(s) /\ Fine(s) /\ AllStopped(s)
<1> DEFINE n == Len(blocks)
           says(i) == <<A!BlockStart(i, [kind |-> blocks[i].kind, id |-> TRUE, name |-> TRUE]),
                        A!BlockDelta(i, blocks[i].kind, blocks[i].data), A!BlockStop(i)>>
           evs == [i \in DOMAIN blocks |-> says(i)]
           e == [type |-> "message_start"]
           b == <<e>>
<1>0. n \in Nat /\ DOMAIN blocks = 1 .. n
  OBVIOUS
<1>1. s = b \o FlattenSeq(evs)
  BY DEF MessageEvents
<1>2. \A i \in 1 .. n : BlockSays(says(i), i)
  <2> SUFFICES ASSUME NEW i \in 1 .. n
               PROVE  BlockSays(says(i), i)
    OBVIOUS
  <2>1. blocks[i] \in MessageBlock /\ i \in Nat
    BY <1>0
  <2> QED BY <2>1, BlockEventsSay
<1> HIDE DEF says
<1>3. evs \in [1 .. n -> Seq(AEvent)]
  <2>1. \A i \in 1 .. n : says(i) \in Seq(AEvent)
    BY <1>2 DEF BlockSays
  <2> HIDE DEF AEvent
  <2> QED BY <1>0, <2>1
<1>4. PICK g \in [0 .. n -> Seq(AEvent)] :
        /\ g[0] = <<>>
        /\ \A i \in 1 .. n : g[i] = g[i - 1] \o evs[i]
        /\ FlattenSeq(evs) = g[n]
  <2> HIDE DEF evs, n
  <2> QED BY <1>0, <1>3, Flattening, ZenonT(40)
<1>5. e \in AEvent /\ e.type = "message_start"
  BY DEF AEvent
<1> HIDE DEF e
<1>6. b \in Seq(AEvent) /\ DOMAIN b = {1} /\ b[1] = e
  <2> HIDE DEF AEvent
  <2> QED BY <1>5
<1> HIDE DEF b
<1>7. Whole3(b, 0)
  <2>1. /\ OfType(b, "message_start") = {1} /\ OfType(b, "message_delta") = {}
        /\ Starts(b) = {} /\ Deltas(b) = {} /\ Stops(b) = {}
    BY <1>5, <1>6 DEF OfType, Starts, Deltas, Stops
  <2>4. Ongoing(b)
    BY <1>5, <1>6 DEF Ongoing, Harmless, Seen, Ends
  <2>2. Message(b) /\ AllStopped(b)
    BY <2>1, <2>4 DEF Message, AllStopped
  <2>3. Fine(b)
    BY <2>1 DEF Fine
  <2> QED BY <1>6, <2>1, <2>2, <2>3 DEF Whole3
<1> DEFINE P == {k \in 0 .. n : Whole3(b \o g[k], k)}
<1>8. 0 \in P
  <2>1. b \o g[0] = b
    BY <1>4, <1>6, ConcatEmptySeq
  <2>2. Whole3(b \o g[0], 0)
    BY <1>7, <2>1
  <2> QED BY <1>0, <2>2, 0 \in 0 .. n
<1>9. ASSUME NEW k \in 0 .. n - 1, k \in P
      PROVE  k + 1 \in P
  <2> DEFINE i == k + 1
             t == b \o g[k]
             w == evs[i]
  <2>0. i \in 1 .. n /\ i \in 0 .. n /\ i - 1 = k /\ k \in 0 .. n /\ k \in Nat
    BY <1>0
  <2>1. BlockSays(w, i)
    BY <1>0, <1>2, <2>0
  <2>2. w \in Seq(AEvent) /\ g[k] \in Seq(AEvent)
    BY <1>4, <2>0, <2>1 DEF BlockSays
  <2>3. g[i] = g[k] \o w
    <3> HIDE DEF i, evs
    <3>1. g[i] = g[i - 1] \o evs[i]
      BY <1>4, <2>0, Zenon
    <3> QED BY <2>0, <3>1, Zenon
  <2> HIDE DEF w
  <2>4. b \o g[i] = t \o w
    <3>1. (b \o g[k]) \o w = b \o (g[k] \o w)
      BY <1>6, <2>2, Associates, Zenon
    <3> QED BY <2>3, <3>1
  <2>5. Whole3(t, k)
    BY <1>9
  <2> HIDE DEF t
  <2>6. Whole3(t \o w, k + 1)
    BY <2>0, <2>1, <2>5, BlockWhole, Zenon
  <2> QED BY <2>0, <2>4, <2>6, Zenon
<1> HIDE DEF P
<1>10. \A k \in 0 .. n : k \in P
  BY <1>0, <1>8, <1>9, Upwards, Zenon
<1>11. Whole3(b \o g[n], n)
  BY <1>0, <1>10 DEF P
<1>12. s = b \o g[n]
  BY <1>1, <1>4, Zenon
<1> HIDE DEF n, evs
<1> QED BY <1>11, <1>12 DEF Whole3

\* A JSON body converted for an Anthropic client is in order.
LEMMA AnthropicBodyFine ==
  ASSUME NEW body, body[1] \in A!Chunk, Upstream = "openai", NEW s, s = AnthropicBody(body)
  PROVE  s \in Seq(AEvent) /\ Fine(s) /\ Complete(s)
<1> DEFINE m == MessageEvents(MessageBlocks(body[1]))
           reason == A!StopReason(body[1].finish)
           tokens == IF body[1].usage = "real" THEN 1 ELSE 0
           w == <<[type |-> "message_delta", reason |-> reason, tokens |-> tokens], [type |-> "message_stop"]>>
<1>1. s = m \o w
  BY DEF AnthropicBody, AnthropicEnd
<1>2. m \in Seq(AEvent) /\ Message(m) /\ Fine(m) /\ AllStopped(m)
  BY MessageBlocksType, MessageWhole
<1>3. reason \in StopReasons /\ tokens \in Nat
  BY Reasons
<1> HIDE DEF m, reason, tokens
<1>4. OfType(m, "message_delta") = {}
  BY <1>2 DEF Message
<1>5. w = <<[type |-> "message_delta", reason |-> reason, tokens |-> tokens], [type |-> "message_stop"]>>
  OBVIOUS
<1> HIDE DEF w
<1>6. Complete(s)
  <2>1. Ongoing(m)
    BY <1>2 DEF Message
  <2> QED BY <1>1, <1>2, <1>3, <1>5, <2>1, EndComplete
<1> QED BY <1>1, <1>2, <1>3, <1>4, <1>5, <1>6, FineEnd, Zenon

-----------------------------------------------------------------------------
(* OpenAI upstreams, Anthropic clients.                                    *)

\* Which upstreams a client's conversion starts from.
LEMMA RouteFacts ==
  ASSUME route \in Routes, NeedConvert
  PROVE  /\ Client = "anthropic" => Upstream = "openai"
         /\ Client = "openai" => Upstream = "anthropic"
         /\ Client = "responses" => Upstream \in {"openai", "anthropic"}
  BY StreamAssumption DEF NeedConvert, Client, Upstream, Formats

\* An error may be written at any time.
LEMMA ErrorWritten ==
  ASSUME NEW c \in AConv, Fine(c.out), NEW e \in [type : {"message_stop", "error"}]
  PROVE  Write(c, <<e>>) \in AConv /\ Fine(Write(c, <<e>>).out)
<1> DEFINE o == c.out \o <<e>>
<1>1. c.out \in Seq(AEvent)
  BY AFields
<1>2. Fine(o) /\ o \in Seq(AEvent)
  BY <1>1, FineMore
<1>3. Write(c, <<e>>) = [c EXCEPT !.out = o]
  BY DEF Write
<1> HIDE DEF o, AEvent
<1> QED BY <1>2, <1>3, Zenon DEF AConv

\* What is in order with what was sent may be written.
LEMMA SomeWritten ==
  ASSUME NEW c \in AConv, NEW w, Fine(c.out \o w), c.out \o w \in Seq(AEvent)
  PROVE  Write(c, w) \in AConv /\ Fine(Write(c, w).out)
<1> DEFINE o == c.out \o w
<1>1. Write(c, w) = [c EXCEPT !.out = o]
  BY DEF Write
<1>2. Fine(o) /\ o \in Seq(AEvent)
  OBVIOUS
<1> HIDE DEF o, AEvent
<1> QED BY <1>1, <1>2, Zenon DEF AConv

\* So may nothing.
LEMMA NothingWritten ==
  ASSUME NEW c \in AConv, Fine(c.out)
  PROVE  Write(c, <<>>) \in AConv /\ Fine(Write(c, <<>>).out)
<1>1. c.out \in Seq(AEvent)
  BY AFields
<1>2. c.out \o <<>> = c.out
  BY <1>1, ConcatEmptySeq
<1> QED BY <1>1, <1>2, SomeWritten, Zenon

\* A request starts silent.
LEMMA AnthropicInit == Init => AnthropicInv
<1> SUFFICES ASSUME Init, ToAnthropic
             PROVE  AnthropicInv
  BY DEF Init, AnthropicInv
<1>1. conv = A!NewConverter
  BY DEF Init, NewConverter, ToAnthropic
<1>2. Silent(conv)
  <2>1. <<>> \in Seq(ABlock) /\ <<>> \in Seq(AEvent) /\ [i \in ToolIds |-> 0] \in [ToolIds -> Int]
    OBVIOUS
  <2> HIDE DEF ABlock, AEvent
  <2> QED BY <1>1, <2>1 DEF Silent, A!NewConverter, AConv, Finishes, A!NoFinish
<1>3. Fine(conv.out) /\ conv \in AConv
  BY <1>2, BegunFine
<1>4. frames = <<>> /\ <<>> \in Seq(Frames["openai"])
  BY DEF Init
<1> QED BY <1>2, <1>3, <1>4 DEF AnthropicInv, Init

\* Reading a frame keeps the invariant.
LEMMA AnthropicFrame ==
  ASSUME AnthropicInv, ToAnthropic, Frame
  PROVE  AnthropicInv'
<1>0. /\ route \in Routes /\ Client = "anthropic" /\ NeedConvert /\ Upstream = "openai" /\ result = "none"
      /\ Silent(conv) \/ Begun(conv)
      /\ frames \in Seq(Frames["openai"]) /\ conv \in AConv /\ Fine(conv.out)
  BY RouteFacts DEF AnthropicInv, ToAnthropic, Frame
<1>1. route' = route
  BY DEF Frame
<1>2. PICK f \in Frames["openai"] : frames' = Append(frames, f) /\ (Sentinel(f) \/ Payload(f))
  BY <1>0 DEF Frame
<1>3. f.type \in {"malformed", "[DONE]"} \/ f \in A!Chunk
  BY FrameAssumption
<1>4. frames' \in Seq(Frames["openai"]) /\ frames' # <<>> /\ Len(frames) \in Nat
  BY <1>0, <1>2
<1>5. CASE Sentinel(f)
  <2>1. conv' = conv
    BY <1>0, <1>5 DEF Sentinel
  <2>2. frames = <<>> \/ frames # <<>>
    OBVIOUS
  <2> QED BY <1>0, <1>1, <1>4, <2>1 DEF AnthropicInv
<1>6. CASE Payload(f)
  <2> DEFINE n == Place
             e == Convert(f, n)
  <2>1. n \in Nat
    BY <1>4 DEF Place
  <2>2. f.type = "malformed" \/ f \in A!Chunk
    BY <1>3, <1>6 DEF Payload
  <2>3. e = A!Convert(conv, f, n)
    BY <1>0 DEF Convert
  <2>4. \/ conv' = e
        \/ conv' = Write(e, <<ErrorEvent>>) /\ result' = "error"
    BY <1>6 DEF Payload, Return
  <2> HIDE DEF n, e
  <2>5. Begun(e)
    BY <1>0, <2>1, <2>2, <2>3, ConvertOrders
  <2>6. e \in AConv /\ Fine(e.out)
    BY <2>5, BegunFine
  <2>7. ErrorEvent \in [type : {"message_stop", "error"}]
    BY DEF ErrorEvent
  <2>8. CASE conv' = e
    BY <1>0, <1>1, <1>4, <2>5, <2>6, <2>8 DEF AnthropicInv
  <2>9. CASE conv' = Write(e, <<ErrorEvent>>) /\ result' = "error"
    <3>1. Write(e, <<ErrorEvent>>) \in AConv /\ Fine(Write(e, <<ErrorEvent>>).out)
      BY <2>6, <2>7, ErrorWritten
    <3> QED BY <1>0, <1>1, <2>9, <3>1 DEF AnthropicInv
  <2> QED BY <2>4, <2>8, <2>9
<1> QED BY <1>2, <1>5, <1>6

\* A step that ends the request with this converter.
LEMMA Ended ==
  ASSUME AnthropicInv, UNCHANGED route, result' # "none",
         ToAnthropic => conv' \in AConv /\ Fine(conv'.out)
  PROVE  AnthropicInv'
  BY DEF AnthropicInv, ToAnthropic, NeedConvert, Client, Upstream

\* A broken connection, or a client that has gone, ends the request in
\* order.
LEMMA AnthropicBroken ==
  ASSUME AnthropicInv, Broken \/ ClientGone
  PROVE  AnthropicInv'
<1>1. UNCHANGED route /\ result' # "none"
  BY DEF Broken, ClientGone, Return
<1>2. ASSUME ToAnthropic PROVE conv' \in AConv /\ Fine(conv'.out)
  <2>1. conv \in AConv /\ Fine(conv.out)
    BY <1>2 DEF AnthropicInv
  <2>2. CASE Broken
    <3>1. conv' = Write(conv, <<ErrorEvent>>)
      BY <2>2 DEF Broken, Return
    <3>2. ErrorEvent \in [type : {"message_stop", "error"}]
      BY DEF ErrorEvent
    <3> QED BY <2>1, <3>1, <3>2, ErrorWritten
  <2>3. CASE ClientGone
    BY <2>1, <2>3 DEF ClientGone, Return
  <2> QED BY <2>2, <2>3
<1> QED BY <1>1, <1>2, Ended

\* The end of the upstream's stream ends the message, once.
LEMMA AnthropicEndOfStream ==
  ASSUME AnthropicInv, EndOfStream
  PROVE  AnthropicInv'
<1>1. UNCHANGED route /\ result' # "none" /\ conv' = Write(Closed, Ending) /\ result = "none"
  BY DEF EndOfStream, Return
<1>2. ASSUME ToAnthropic PROVE conv' \in AConv /\ Fine(conv'.out)
  <2>1. conv \in AConv /\ Fine(conv.out) /\ (Silent(conv) \/ Begun(conv)) /\ Client = "anthropic" /\ NeedConvert
    BY <1>1, <1>2 DEF AnthropicInv, ToAnthropic
  <2>2. Closed = IF ~conv.started \/ conv.finished THEN conv ELSE A!CloseStream(conv)
    BY <2>1 DEF Closed
  <2>3. Ending = IF saw.stop \/ saw.error \/ Closed.finished THEN <<>>
                 ELSE IF saw.delta THEN <<[type |-> "message_stop"]>>
                 ELSE AnthropicEnd("end_turn", 0)
    BY <2>1 DEF Ending
  <2>4. CASE Silent(conv)
    <3>1. Closed = conv /\ conv.out = <<>>
      BY <2>2, <2>4 DEF Silent
    <3>2. Ending \in {<<>>, <<[type |-> "message_stop"]>>, AnthropicEnd("end_turn", 0)}
      BY <2>3
    <3>3. CASE Ending = <<>>
      BY <1>1, <2>1, <3>1, <3>3, NothingWritten
    <3>4. CASE Ending = <<[type |-> "message_stop"]>>
      <4>1. [type |-> "message_stop"] \in [type : {"message_stop", "error"}]
        OBVIOUS
      <4>2. conv' = Write(conv, <<[type |-> "message_stop"]>>)
        BY <1>1, <3>1, <3>4
      <4> QED BY <2>1, <4>1, <4>2, ErrorWritten
    <3>5. CASE Ending = AnthropicEnd("end_turn", 0)
      <4> DEFINE w == AnthropicEnd("end_turn", 0)
      <4>1. w = <<[type |-> "message_delta", reason |-> "end_turn", tokens |-> 0], [type |-> "message_stop"]>>
        BY DEF AnthropicEnd
      <4>2. conv.out \in Seq(AEvent) /\ AllStopped(conv.out) /\ OfType(conv.out, "message_delta") = {}
        BY <2>1, <3>1, AFields, NothingFine
      <4>3. "end_turn" \in StopReasons /\ 0 \in Nat
        BY DEF StopReasons
      <4> HIDE DEF w
      <4>4. Fine(conv.out \o w) /\ conv.out \o w \in Seq(AEvent)
        BY <2>1, <4>1, <4>2, <4>3, FineEnd, Zenon
      <4>5. conv' = Write(conv, w)
        BY <1>1, <3>1, <3>5 DEF w
      <4> QED BY <2>1, <4>4, <4>5, SomeWritten
    <3> QED BY <3>2, <3>3, <3>4, <3>5
  <2>5. CASE Begun(conv)
    <3>1. conv.started
      BY <2>5, Phases
    <3>2. Closed \in AConv /\ Fine(Closed.out) /\ Closed.finished
      <4>1. CASE conv.finished
        BY <2>1, <2>2, <4>1
      <4>2. CASE ~conv.finished
        <5>1. Closed = A!CloseStream(conv)
          BY <2>2, <3>1, <4>2
        <5>2. Done(Closed)
          BY <2>5, <4>2, <5>1, CloseEnds
        <5> QED BY <5>2 DEF Done, Over
      <4> QED BY <4>1, <4>2
    <3>3. Ending = <<>>
      BY <2>3, <3>2
    <3> QED BY <1>1, <3>2, <3>3, NothingWritten
  <2> QED BY <2>1, <2>4, <2>5
<1> QED BY <1>1, <1>2, Ended

\* A JSON body is in order.
LEMMA AnthropicJsonBody ==
  ASSUME AnthropicInv, JsonBody
  PROVE  AnthropicInv'
<1>1. UNCHANGED route /\ result = "none" /\ frames = <<>>
  BY DEF JsonBody
<1>2. PICK body \in Bodies[Upstream], u \in BOOLEAN : BodyTo(body, u)
  BY DEF JsonBody, BodyTo
<1>3. result' # "none"
  BY <1>2 DEF Return, BodyTo
<1>4. ASSUME ToAnthropic PROVE conv' \in AConv /\ Fine(conv'.out)
  <2>1. conv \in AConv /\ Fine(conv.out) /\ Silent(conv) /\ Client = "anthropic" /\ NeedConvert /\ Upstream = "openai"
    BY <1>1, <1>4, RouteFacts DEF AnthropicInv, ToAnthropic
  <2>2. conv' = Write(conv, <<ErrorEvent>>) \/ (~Garbage(body) /\ conv' = Whole(body, u))
    BY <1>2, <2>1 DEF Return, BodyTo
  <2>3. CASE conv' = Write(conv, <<ErrorEvent>>)
    <3>1. ErrorEvent \in [type : {"message_stop", "error"}]
      BY DEF ErrorEvent
    <3> QED BY <2>1, <2>3, <3>1, ErrorWritten
  <2>4. CASE ~Garbage(body) /\ conv' = Whole(body, u)
    <3> DEFINE w == AnthropicBody(body)
    <3>1. conv' = Write(conv, w)
      BY <2>1, <2>4 DEF Whole
    <3>2. body[1] \in A!Chunk
      BY <2>1, <2>4, BodyAssumption DEF Garbage
    <3>3. w \in Seq(AEvent) /\ Fine(w)
      BY <2>1, <3>2, AnthropicBodyFine
    <3>4. conv.out = <<>>
      BY <2>1 DEF Silent
    <3> HIDE DEF w
    <3>5. conv.out \o w = w
      BY <3>3, <3>4, ConcatEmptySeq
    <3> QED BY <2>1, <3>1, <3>3, <3>5, SomeWritten, Zenon
  <2> QED BY <2>2, <2>3, <2>4
<1> QED BY <1>1, <1>3, <1>4, Ended

\* Every step keeps the invariant.
LEMMA AnthropicNext == AnthropicInv /\ [Next]_vars => AnthropicInv'
<1> SUFFICES ASSUME AnthropicInv, [Next]_vars
             PROVE  AnthropicInv'
  OBVIOUS
<1>1. CASE Frame
  <2>1. CASE ToAnthropic
    BY <1>1, <2>1, AnthropicFrame
  <2>2. CASE ~ToAnthropic
    <3>1. route' = route
      BY <1>1 DEF Frame
    <3> QED BY <2>2, <3>1 DEF AnthropicInv, ToAnthropic, NeedConvert, Client, Upstream
  <2> QED BY <2>1, <2>2
<1>2. CASE EndOfStream
  BY <1>2, AnthropicEndOfStream
<1>3. CASE Broken \/ ClientGone
  BY <1>3, AnthropicBroken
<1>4. CASE JsonBody
  BY <1>4, AnthropicJsonBody
<1>5. CASE UNCHANGED vars
  BY <1>5 DEF vars, AnthropicInv, ToAnthropic, NeedConvert, Client, Upstream
<1> QED BY <1>1, <1>2, <1>3, <1>4, <1>5 DEF Next

\* What the client sees of an event is the event.
LEMMA AnthropicSeen ==
  ASSUME Out \in Seq(AEvent), Fine(Out)
  PROVE  AnthropicOrderKept
<1>1. \A i \in DOMAIN Out : Out[i].type # "frame"
  BY DEF AEvent, BlockEvent, StartEvent, DeltaEvent, StopEvent
<1>2. \A i \in DOMAIN Out : TypeAt(i) = Out[i].type
  BY <1>1 DEF TypeAt
<1>3. \A y : At({y}) = OfType(Out, y)
  BY <1>2 DEF At, OfType
<1>4. /\ At({"content_block_start"}) = Starts(Out) /\ At({"content_block_delta"}) = Deltas(Out)
      /\ At({"content_block_stop"}) = Stops(Out)
      /\ At({"message_start"}) = OfType(Out, "message_start")
      /\ At({"message_delta"}) = OfType(Out, "message_delta")
  BY <1>3 DEF Starts, Deltas, Stops
<1>5. /\ \A i, j \in Starts(Out) : i < j => Out[i].index < Out[j].index
      /\ \A i \in Starts(Out) : Out[i].id /\ Out[i].name
      /\ \A i \in Deltas(Out) \cup Stops(Out) : \E j \in Starts(Out) : j < i /\ Out[j].index = Out[i].index
  BY Zenon DEF Fine
<1>6. \A i \in Deltas(Out), j \in Starts(Out) \cup Stops(Out) :
        Out[i].index = Out[j].index =>
          IF j \in Starts(Out) THEN j < i /\ Out[j].kind = Out[i].kind ELSE i < j
  <2>1. /\ \A p \in Deltas(Out), q \in Starts(Out) :
             Out[p].index = Out[q].index => q < p /\ Out[q].kind = Out[p].kind
        /\ \A p \in Deltas(Out), q \in Stops(Out) : Out[p].index = Out[q].index => p < q
    BY Zenon DEF Fine
  <2> QED BY <2>1
<1>7. /\ \A i, j \in Stops(Out) : Out[i].index = Out[j].index => i = j
      /\ \A i \in OfType(Out, "message_start") : i = 1
      /\ Starts(Out) # {} => OfType(Out, "message_start") # {}
  BY Zenon DEF Fine
<1>8. \A i \in OfType(Out, "message_delta") :
        /\ \A j \in Starts(Out) \cup Deltas(Out) \cup Stops(Out) : j < i
        /\ \A j \in Starts(Out) : \E k \in Stops(Out) : Out[k].index = Out[j].index
  BY Zenon DEF Fine, AllStopped
<1>9. Cardinality(OfType(Out, "message_delta")) <= 1
  <2> DEFINE M == OfType(Out, "message_delta")
  <2>1. \A p, q \in M : p = q
    BY Zenon DEF Fine
  <2> HIDE DEF M
  <2>2. CASE M = {}
    <3>1. Cardinality(M) = 0
      BY <2>2, FS_EmptySet
    <3> QED BY <3>1 DEF M
  <2>3. ASSUME NEW m \in M PROVE Cardinality(M) <= 1
    <3>1. M = {m}
      BY <2>1
    <3>2. Cardinality(M) = 1
      BY <3>1, FS_Singleton, Zenon
    <3> QED BY <3>2
  <2> QED BY <2>2, <2>3 DEF M
<1> DEFINE starts == At({"content_block_start"})
           deltas == At({"content_block_delta"})
           stops == At({"content_block_stop"})
           begins == At({"message_start"})
           ends == At({"message_delta"})
<1>10. /\ \A i, j \in starts : i < j => Out[i].index < Out[j].index
       /\ \A i \in starts : Out[i].id /\ Out[i].name
       /\ \A i \in deltas \cup stops : \E j \in starts : j < i /\ Out[j].index = Out[i].index
       /\ \A i \in deltas, j \in starts \cup stops :
            Out[i].index = Out[j].index =>
              IF j \in starts THEN j < i /\ Out[j].kind = Out[i].kind ELSE i < j
       /\ \A i, j \in stops : Out[i].index = Out[j].index => i = j
       /\ \A i \in begins : i = 1
       /\ starts # {} => begins # {}
       /\ \A i \in ends :
            /\ \A j \in starts \cup deltas \cup stops : j < i
            /\ \A j \in starts : \E k \in stops : Out[k].index = Out[j].index
       /\ Cardinality(ends) <= 1
  <2> HIDE DEF starts, deltas, stops, begins, ends
  <2>1. /\ starts = Starts(Out) /\ deltas = Deltas(Out) /\ stops = Stops(Out)
        /\ begins = OfType(Out, "message_start") /\ ends = OfType(Out, "message_delta")
    BY <1>4 DEF starts, deltas, stops, begins, ends
  <2> QED BY <1>5, <1>6, <1>7, <1>8, <1>9, <2>1, Zenon
<1> QED BY <1>10, Zenon DEF AnthropicOrderKept

\* Blocks reach an Anthropic client in order, each with its start, its
\* deltas and its stop, tools with their id and name, and the message ends
\* once, after all of them: whatever an OpenAI upstream sent and wherever
\* it stopped (anthropic_stream.go keeps starts back until their names
\* come).
THEOREM AnthropicProtocol == Spec => []AnthropicOrderKept
<1>1. AnthropicInv => AnthropicOrderKept
  <2>1. CASE ToAnthropic
    <3>1. AnthropicInv => Out \in Seq(AEvent) /\ Fine(Out)
      BY <2>1, AFields DEF AnthropicInv, Out
    <3> QED BY <3>1, AnthropicSeen
  <2>2. CASE ~ToAnthropic
    BY <2>2 DEF AnthropicOrderKept, ToAnthropic
  <2> QED BY <2>1, <2>2
<1> QED BY <1>1, AnthropicInit, AnthropicNext, PTL DEF Spec

-----------------------------------------------------------------------------
(* The OpenAI converter.                                                   *)

\* It keeps the chunks in order unless it is said too early or too late.
LEMMA ChunksMore ==
  ASSUME NEW s, NEW e, NEW t, OneMore(s, e, t), ChunksFine(s),
         e.type \in {"chunk", "finish", "error", "[DONE]"},
         e.type = "chunk" /\ e.kind = "tool" => \E j \in DOMAIN s : Announces(s[j], e.tool),
         e.type \in {"chunk", "finish"} => Unfinished(s)
  PROVE  /\ ChunksFine(t)
         /\ e.type # "finish" /\ Unfinished(s) => Unfinished(t)
         /\ \A k : (\E j \in DOMAIN s : Announces(s[j], k)) => \E j \in DOMAIN t : Announces(t[j], k)
         /\ \A k : Announces(e, k) => \E j \in DOMAIN t : Announces(t[j], k)
<1> DEFINE L == Len(t)
<1>0. /\ \A p \in DOMAIN s : p \in DOMAIN t /\ t[p] = s[p] /\ p < L
      /\ \A p \in DOMAIN t : p \in DOMAIN s \/ p = L
      /\ L \in DOMAIN t /\ t[L] = e /\ L \in Nat
  BY DEF OneMore
<1> HIDE DEF L
<1>1. \A i \in DOMAIN t : t[i].type \in {"chunk", "finish", "error", "[DONE]"}
  <2>1. \A i \in DOMAIN s : s[i].type \in {"chunk", "finish", "error", "[DONE]"}
    BY DEF ChunksFine
  <2> QED BY <1>0, <2>1
<1>2. \A i \in DOMAIN t : IsChunk(t[i]) /\ t[i].kind = "tool" =>
        \E j \in DOMAIN t : j < i /\ Announces(t[j], t[i].tool)
  <2> SUFFICES ASSUME NEW i \in DOMAIN t, IsChunk(t[i]), t[i].kind = "tool"
               PROVE  \E j \in DOMAIN t : j < i /\ Announces(t[j], t[i].tool)
    OBVIOUS
  <2>1. CASE i \in DOMAIN s
    <3>1. IsChunk(s[i]) /\ s[i].kind = "tool" /\ t[i] = s[i]
      BY <1>0, <2>1
    <3>2. PICK j \in DOMAIN s : j < i /\ Announces(s[j], s[i].tool)
      BY <2>1, <3>1 DEF ChunksFine
    <3> QED BY <1>0, <3>1, <3>2
  <2>2. CASE i = L
    <3>1. e.type = "chunk" /\ e.kind = "tool" /\ t[i] = e
      BY <1>0, <2>2 DEF IsChunk
    <3>2. PICK j \in DOMAIN s : Announces(s[j], e.tool)
      BY <3>1
    <3> QED BY <1>0, <2>2, <3>1, <3>2
  <2> QED BY <1>0, <2>1, <2>2
<1>3. \A i, j \in DOMAIN t : IsFinish(t[i]) /\ t[j].type \in {"chunk", "finish"} => j <= i
  <2> SUFFICES ASSUME NEW i \in DOMAIN t, NEW j \in DOMAIN t, IsFinish(t[i]), t[j].type \in {"chunk", "finish"}
               PROVE  j <= i
    OBVIOUS
  <2>1. CASE i \in DOMAIN s /\ j \in DOMAIN s
    <3>1. IsFinish(s[i]) /\ s[j].type \in {"chunk", "finish"}
      BY <1>0, <2>1
    <3> QED BY <2>1, <3>1 DEF ChunksFine
  <2>2. CASE i \in DOMAIN s /\ j = L
    <3>1. Unfinished(s)
      BY <1>0, <2>2
    <3>2. IsFinish(s[i])
      BY <1>0, <2>2
    <3> QED BY <2>2, <3>1, <3>2 DEF Unfinished
  <2>3. CASE i = L
    <3>1. \A p \in DOMAIN t : p < L \/ p = L
      BY <1>0
    <3>2. \A p \in DOMAIN s : p \in Nat
      BY DEF OneMore
    <3> QED BY <1>0, <2>3, <3>1, <3>2
  <2> QED BY <1>0, <2>1, <2>2, <2>3
<1>4. ChunksFine(t)
  BY <1>1, <1>2, <1>3 DEF ChunksFine
<1>5. e.type # "finish" /\ Unfinished(s) => Unfinished(t)
  BY <1>0 DEF Unfinished, IsFinish
<1>6. \A k : (\E j \in DOMAIN s : Announces(s[j], k)) => \E j \in DOMAIN t : Announces(t[j], k)
  BY <1>0
<1>7. \A k : Announces(e, k) => \E j \in DOMAIN t : Announces(t[j], k)
  BY <1>0
<1> QED BY <1>4, <1>5, <1>6, <1>7

\* Emit only adds to what the client received.
LEMMA OEmit ==
  ASSUME NEW c \in OConv, NEW x \in OEvent, NEW d, d = O!Emit(c, x)
  PROVE  /\ d \in OConv /\ d.out = Append(c.out, x) /\ d.toolIndexes = c.toolIndexes
         /\ d.started = c.started /\ d.errored = c.errored
<1> DEFINE o == Append(c.out, x)
<1>1. o \in Seq(OEvent)
  <2>1. c.out \in Seq(OEvent)
    BY DEF OConv
  <2> HIDE DEF OEvent
  <2> QED BY <2>1
<1>2. d = [c EXCEPT !.out = o]
  BY DEF O!Emit
<1> HIDE DEF o, OEvent
<1>3. /\ d \in OConv /\ d.out = o /\ d.toolIndexes = c.toolIndexes
      /\ d.started = c.started /\ d.errored = c.errored
  BY <1>1, <1>2, Zenon DEF OConv
<1> QED BY <1>3 DEF o

\* ToolOf returns an index that was given.
LEMMA OToolOf ==
  ASSUME NEW c \in OConv, NEW index, NEW t, t = O!ToolOf(c, index), t # 0
  PROVE  t \in DOMAIN c.toolIndexes
<1> DEFINE at == {u \in DOMAIN c.toolIndexes : c.toolIndexes[u] = index}
<1>1. t = IF at = {} THEN 0 ELSE CHOOSE u \in at : \A v \in at : v <= u
  BY DEF O!ToolOf
<1>2. at # {}
  BY <1>1
<1>3. DOMAIN c.toolIndexes = 1 .. Len(c.toolIndexes) /\ Len(c.toolIndexes) \in Nat
  BY DEF OConv
<1>4. Max(at) \in at /\ \A y \in at : Max(at) >= y
  <2>1. at \in SUBSET (1 .. Len(c.toolIndexes))
    BY <1>3
  <2> HIDE DEF at
  <2> QED BY <1>2, <1>3, <2>1, MaxOf, Zenon
<1>5. \E u \in at : \A v \in at : v <= u
  BY <1>3, <1>4, Zenon
<1>6. t \in at
  <2> HIDE DEF at
  <2> QED BY <1>1, <1>2, <1>5
<1> QED BY <1>6

\* The fields of a converter.
LEMMA OFields ==
  ASSUME NEW c \in OConv
  PROVE  /\ c.out \in Seq(OEvent) /\ c.toolIndexes \in Seq(Nat)
         /\ Len(c.toolIndexes) \in Nat /\ DOMAIN c.toolIndexes = 1 .. Len(c.toolIndexes)
<1> HIDE DEF OEvent
<1>1. c.out \in Seq(OEvent) /\ c.toolIndexes \in Seq(Nat)
  BY DEF OConv
<1> QED BY <1>1

\* A block's start announces its tool, or opens reasoning.
LEMMA OStarts ==
  ASSUME NEW c \in OConv, NEW f \in O!Event, NEW d, d = O!BlockStarts(c, f), f.type = "content_block_start"
  PROVE  d \in OConv /\ d.errored = c.errored /\ (Same(c, d) \/ Announced(c, d, f) \/ Chunked(c, d, f))
<1>1. CASE f.kind = "tool"
  <2> DEFINE x == O!ContentChunk("tool_start", Len(c.toolIndexes) + 1, None)
             b == [c EXCEPT !.toolIndexes = Append(@, f.index)]
  <2>1. d = O!Emit(b, x)
    BY <1>1 DEF O!BlockStarts
  <2>2. f.index \in Nat
    BY DEF O!Event
  <2>3. b \in OConv /\ b.errored = c.errored /\ b.out = c.out /\ b.toolIndexes = Append(c.toolIndexes, f.index)
    <3>1. Append(c.toolIndexes, f.index) \in Seq(Nat)
      BY <2>2, OFields
    <3> HIDE DEF OEvent
    <3> QED BY <3>1, Zenon DEF OConv
  <2>4. x \in OEvent
    BY OFields DEF O!ContentChunk, OEvent, OChunk
  <2> HIDE DEF x, b
  <2>5. d \in OConv /\ d.out = Append(b.out, x) /\ d.toolIndexes = b.toolIndexes /\ d.errored = b.errored
    BY <2>1, <2>3, <2>4, OEmit
  <2>6. Announced(c, d, f)
    BY <2>3, <2>5 DEF Announced, x
  <2> QED BY <2>3, <2>5, <2>6
<1>2. CASE f.kind = "thinking"
  <2> DEFINE x == O!ContentChunk("role", 0, None)
  <2>1. d = O!Emit(c, x)
    BY <1>2 DEF O!BlockStarts
  <2>2. x \in OEvent /\ x \in OChunk /\ x.kind # "tool"
    BY DEF O!ContentChunk, OEvent, OChunk
  <2> HIDE DEF x
  <2>3. d \in OConv /\ d.out = Append(c.out, x) /\ d.toolIndexes = c.toolIndexes /\ d.errored = c.errored
    BY <2>1, <2>2, OEmit
  <2>4. Chunked(c, d, f)
    BY <2>2, <2>3 DEF Chunked
  <2> QED BY <2>3, <2>4
<1>3. CASE f.kind # "tool" /\ f.kind # "thinking"
  <2>1. d = c
    BY <1>3 DEF O!BlockStarts
  <2> QED BY <2>1 DEF Same
<1> QED BY <1>1, <1>2, <1>3

\* A block's delta is a chunk, of a tool that was announced.
LEMMA OGrows ==
  ASSUME NEW c \in OConv, NEW f \in O!Event, NEW n \in Nat, NEW d, d = O!BlockGrows(c, f, n),
         f.type = "content_block_delta"
  PROVE  d \in OConv /\ d.errored = c.errored /\ (Same(c, d) \/ Chunked(c, d, f))
<1>0. <<n, 0>> \in Stamp
  BY DEF Stamp
<1>1. ASSUME NEW kind \in O!BlockKinds \cup {None}, NEW tool \in Nat, kind = "tool" => tool \in DOMAIN c.toolIndexes,
             d = O!Emit(c, O!ContentChunk(kind, tool, <<n, 0>>))
      PROVE  d \in OConv /\ d.errored = c.errored /\ Chunked(c, d, f)
  <2> DEFINE x == O!ContentChunk(kind, tool, <<n, 0>>)
  <2>1. x \in OEvent /\ x \in OChunk /\ x.kind = kind /\ x.tool = tool
    BY <1>0 DEF O!ContentChunk, OEvent, OChunk
  <2>2. d = O!Emit(c, x)
    BY <1>1
  <2> HIDE DEF x
  <2>3. d \in OConv /\ d.out = Append(c.out, x) /\ d.toolIndexes = c.toolIndexes /\ d.errored = c.errored
    BY <2>1, <2>2, OEmit
  <2>4. Chunked(c, d, f)
    BY <1>1, <2>1, <2>3, Zenon DEF Chunked
  <2> QED BY <2>3, <2>4
<1>2. f.kind \in O!BlockKinds \cup {None}
  BY DEF O!Event
<1>3. CASE f.kind = "tool"
  <2> DEFINE t == O!ToolOf(c, f.index)
  <2>1. d = IF t = 0 THEN c ELSE O!Emit(c, O!ContentChunk("tool", t, <<n, 0>>))
    BY <1>3 DEF O!BlockGrows
  <2> HIDE DEF t
  <2>2. CASE t = 0
    BY <2>1, <2>2 DEF Same
  <2>3. CASE t # 0
    <3>1. t \in DOMAIN c.toolIndexes /\ t \in Nat
      <4>1. t \in DOMAIN c.toolIndexes
        BY <2>3, OToolOf DEF t
      <4> QED BY <4>1, OFields
    <3>2. "tool" \in O!BlockKinds \cup {None}
      BY <1>2, <1>3
    <3> QED BY <1>1, <2>1, <2>3, <3>1, <3>2
  <2> QED BY <2>2, <2>3
<1>4. CASE f.kind # "tool"
  <2>1. d = O!Emit(c, O!ContentChunk(f.kind, 0, <<n, 0>>))
    BY <1>4 DEF O!BlockGrows
  <2> QED BY <1>1, <1>2, <1>4, <2>1
<1> QED BY <1>3, <1>4

\* What a frame does to the converter is one of those five.
LEMMA OConvert ==
  ASSUME NEW b \in OConv, NEW f, f.type = "malformed" \/ f \in O!Event, NEW n \in Nat,
         NEW d, d = O!Convert(b, f, n)
  PROVE  /\ d \in OConv
         /\ Same(b, d) \/ Announced(b, d, f) \/ Chunked(b, d, f) \/ Finished(b, d, f) \/ Failed(b, d, f)
         /\ IF f.type = "error" THEN d.errored /\ Failed(b, d, f) ELSE d.errored = b.errored
<1> DEFINE c == [b EXCEPT !.started = TRUE]
<1>1. c \in OConv /\ c.errored = b.errored /\ c.out = b.out /\ c.toolIndexes = b.toolIndexes
  <2> HIDE DEF OEvent
  <2> QED BY Zenon DEF OConv
<1>d. d = CASE f.type = "content_block_start" -> O!BlockStarts(c, f)
            [] f.type = "content_block_delta" -> O!BlockGrows(c, f, n)
            [] f.type = "message_delta" /\ f.reason # None ->
                 O!Emit(c, O!FinishChunk(O!FinishReason(f.reason), IF f.usage THEN n ELSE 0))
            [] f.type = "error" -> O!Emit([c EXCEPT !.errored = TRUE], O!ErrorChunk)
            [] OTHER -> c
  BY DEF O!Convert
<1> HIDE DEF c
<1>2. CASE f.type = "content_block_start"
  <2>1. d = O!BlockStarts(c, f) /\ f \in O!Event
    BY <1>2, <1>d
  <2>2. d \in OConv /\ d.errored = c.errored /\ (Same(c, d) \/ Announced(c, d, f) \/ Chunked(c, d, f))
    BY <1>1, <1>2, <2>1, OStarts
  <2> QED BY <1>1, <1>2, <2>2 DEF Same, Announced, Chunked
<1>3. CASE f.type = "content_block_delta"
  <2>1. d = O!BlockGrows(c, f, n) /\ f \in O!Event
    BY <1>3, <1>d
  <2>2. d \in OConv /\ d.errored = c.errored /\ (Same(c, d) \/ Chunked(c, d, f))
    BY <1>1, <1>3, <2>1, OGrows
  <2> QED BY <1>1, <1>3, <2>2 DEF Same, Chunked
<1>4. CASE f.type = "message_delta" /\ f.reason # None
  <2> DEFINE t == IF f.usage THEN n ELSE 0
             x == O!FinishChunk(O!FinishReason(f.reason), t)
  <2>1. d = O!Emit(c, x)
    BY <1>4, <1>d
  <2>2. f.reason \in {"end_turn", "max_tokens", "tool_use", "refusal"}
    BY <1>4 DEF O!Event
  <2>3. O!FinishReason(f.reason) \in OReasons
    BY <2>2 DEF O!FinishReason, OReasons
  <2>4. t \in Nat
    OBVIOUS
  <2> HIDE DEF t
  <2>5. x \in OEvent /\ IsFinish(x)
    BY <2>3, <2>4 DEF O!FinishChunk, OEvent, IsFinish
  <2> HIDE DEF x
  <2>6. d \in OConv /\ d.errored = c.errored /\ d.out = Append(c.out, x) /\ d.toolIndexes = c.toolIndexes
    BY <1>1, <2>1, <2>5, OEmit
  <2>7. Finished(b, d, f)
    BY <1>1, <1>4, <2>5, <2>6 DEF Finished
  <2> QED BY <1>1, <1>4, <2>6, <2>7
<1>5. CASE f.type = "error"
  <2> DEFINE e == [c EXCEPT !.errored = TRUE]
  <2>1. d = O!Emit(e, O!ErrorChunk)
    BY <1>5, <1>d
  <2>2. e \in OConv /\ e.errored /\ e.out = c.out /\ e.toolIndexes = c.toolIndexes
    <3> HIDE DEF OEvent
    <3> QED BY <1>1, Zenon DEF OConv
  <2>3. O!ErrorChunk \in OEvent
    BY DEF O!ErrorChunk, OEvent
  <2> HIDE DEF e
  <2>4. d \in OConv /\ d.errored = e.errored /\ d.out = Append(e.out, O!ErrorChunk) /\ d.toolIndexes = e.toolIndexes
    BY <2>1, <2>2, <2>3, OEmit, Zenon
  <2>5. Failed(b, d, f)
    BY <1>1, <1>5, <2>2, <2>4 DEF Failed
  <2> QED BY <1>5, <2>2, <2>4, <2>5
<1>6. CASE /\ f.type \notin {"content_block_start", "content_block_delta", "error"}
           /\ ~(f.type = "message_delta" /\ f.reason # None)
  <2>1. d = c
    BY <1>6, <1>d
  <2> QED BY <1>1, <1>6, <2>1 DEF Same
<1> QED BY <1>2, <1>3, <1>4, <1>5, <1>6

\* A request starts with nothing said.
LEMMA OpenAIInit == Init => OpenAIInv
<1> SUFFICES ASSUME Init, ToOpenAI
             PROVE  OpenAIInv
  BY DEF Init, OpenAIInv
<1>1. conv = O!NewConverter
  BY DEF Init, NewConverter, ToOpenAI
<1>2. conv \in OConv /\ conv.out = <<>> /\ conv.toolIndexes = <<>>
  <2>1. <<>> \in Seq(OEvent) /\ <<>> \in Seq(Nat)
    OBVIOUS
  <2> HIDE DEF OEvent
  <2> QED BY <1>1, <2>1 DEF OConv, O!NewConverter
<1>3. ChunksFine(<<>>) /\ Unfinished(<<>>)
  BY DEF ChunksFine, Unfinished
<1>4. Speaking(conv)
  BY <1>2, <1>3 DEF Speaking
<1>5. frames = <<>> /\ <<>> \in Seq(Frames["anthropic"])
  BY DEF Init
<1> QED BY <1>2, <1>3, <1>4, <1>5 DEF OpenAIInv, Init

\* What the converter does of a frame keeps the order of the chunks: d is
\* the converter after it, said whether the upstream has now sent
\* message_delta.
LEMMA SpeakingOn ==
  ASSUME NEW c \in OConv, NEW d \in OConv, NEW f, ChunksFine(c.out),
         \A k \in DOMAIN c.toolIndexes : \E j \in DOMAIN c.out : Announces(c.out[j], k),
         f.type \in {"content_block_start", "content_block_delta", "message_delta"} => Unfinished(c.out),
         Same(c, d) \/ Announced(c, d, f) \/ Chunked(c, d, f) \/ Finished(c, d, f) \/ Failed(c, d, f)
  PROVE  /\ ChunksFine(d.out)
         /\ \A k \in DOMAIN d.toolIndexes : \E j \in DOMAIN d.out : Announces(d.out[j], k)
         /\ Unfinished(c.out) /\ f.type # "message_delta" => Unfinished(d.out)
<1>1. CASE Same(c, d)
  BY <1>1 DEF Same
<1>2. CASE Announced(c, d, f)
  <2> DEFINE x == O!ContentChunk("tool_start", Len(c.toolIndexes) + 1, None)
  <2>1. /\ x \in OEvent /\ x.type = "chunk" /\ x.kind = "tool_start" /\ x.tool = Len(c.toolIndexes) + 1
    BY OFields DEF O!ContentChunk, OEvent, OChunk
  <2>2. d.out = Append(c.out, x) /\ d.toolIndexes = Append(c.toolIndexes, f.index)
    BY <1>2 DEF Announced
  <2> HIDE DEF x
  <2>3. OneMore(c.out, x, d.out)
    <3> HIDE DEF OEvent
    <3> QED BY <2>1, <2>2, OFields, OneMoreIs, Zenon
  <2>4. Unfinished(c.out)
    BY <1>2 DEF Announced
  <2>5. /\ ChunksFine(d.out) /\ Unfinished(d.out)
        /\ \A k : (\E j \in DOMAIN c.out : Announces(c.out[j], k)) => \E j \in DOMAIN d.out : Announces(d.out[j], k)
        /\ \A k : Announces(x, k) => \E j \in DOMAIN d.out : Announces(d.out[j], k)
    BY <2>1, <2>3, <2>4, ChunksMore
  <2>6. Announces(x, Len(c.toolIndexes) + 1)
    BY <2>1 DEF Announces
  <2>7. \A k \in DOMAIN d.toolIndexes : k \in DOMAIN c.toolIndexes \/ k = Len(c.toolIndexes) + 1
    BY <2>2, OFields
  <2> QED BY <2>5, <2>6, <2>7
<1>3. CASE Chunked(c, d, f)
  <2>1. PICK x \in OChunk : d.out = Append(c.out, x) /\ (x.kind = "tool" => x.tool \in DOMAIN c.toolIndexes)
    BY <1>3 DEF Chunked
  <2>2. x \in OEvent /\ x.type = "chunk"
    BY DEF OEvent, OChunk
  <2>3. OneMore(c.out, x, d.out)
    <3> HIDE DEF OEvent, OChunk
    <3> QED BY <2>1, <2>2, OFields, OneMoreIs, Zenon
  <2>4. Unfinished(c.out)
    BY <1>3 DEF Chunked
  <2>5. x.kind = "tool" => \E j \in DOMAIN c.out : Announces(c.out[j], x.tool)
    BY <2>1
  <2>6. /\ ChunksFine(d.out) /\ Unfinished(d.out)
        /\ \A k : (\E j \in DOMAIN c.out : Announces(c.out[j], k)) => \E j \in DOMAIN d.out : Announces(d.out[j], k)
    <3> HIDE DEF OChunk
    <3> QED BY <2>2, <2>3, <2>4, <2>5, ChunksMore
  <2>7. d.toolIndexes = c.toolIndexes
    BY <1>3 DEF Chunked
  <2> QED BY <2>6, <2>7
<1>4. CASE Finished(c, d, f)
  <2>1. PICK x \in OEvent : IsFinish(x) /\ d.out = Append(c.out, x)
    BY <1>4 DEF Finished
  <2>2. x.type = "finish"
    BY <2>1 DEF IsFinish
  <2>3. OneMore(c.out, x, d.out)
    <3> HIDE DEF OEvent
    <3> QED BY <2>1, OFields, OneMoreIs, Zenon
  <2>4. Unfinished(c.out) /\ f.type = "message_delta"
    BY <1>4 DEF Finished
  <2>5. /\ ChunksFine(d.out)
        /\ \A k : (\E j \in DOMAIN c.out : Announces(c.out[j], k)) => \E j \in DOMAIN d.out : Announces(d.out[j], k)
    <3> HIDE DEF OEvent
    <3> QED BY <2>2, <2>3, <2>4, ChunksMore
  <2>6. d.toolIndexes = c.toolIndexes
    BY <1>4 DEF Finished
  <2> QED BY <2>4, <2>5, <2>6
<1>5. CASE Failed(c, d, f)
  <2> DEFINE x == O!ErrorChunk
  <2>1. x \in OEvent /\ x.type = "error"
    BY DEF O!ErrorChunk, OEvent
  <2>2. d.out = Append(c.out, x) /\ d.toolIndexes = c.toolIndexes
    BY <1>5 DEF Failed
  <2> HIDE DEF x
  <2>3. OneMore(c.out, x, d.out)
    <3> HIDE DEF OEvent
    <3> QED BY <2>1, <2>2, OFields, OneMoreIs, Zenon
  <2>4. /\ ChunksFine(d.out) /\ (Unfinished(c.out) => Unfinished(d.out))
        /\ \A k : (\E j \in DOMAIN c.out : Announces(c.out[j], k)) => \E j \in DOMAIN d.out : Announces(d.out[j], k)
    BY <2>1, <2>3, ChunksMore
  <2> QED BY <2>2, <2>4, Zenon
<1> QED BY <1>1, <1>2, <1>3, <1>4, <1>5

\* An error or [DONE] may come at any time.
LEMMA TailWritten ==
  ASSUME NEW c \in OConv, ChunksFine(c.out), NEW e \in [type : {"error", "[DONE]"}]
  PROVE  ChunksFine(Write(c, <<e>>).out)
<1> DEFINE o == c.out \o <<e>>
<1>1. Write(c, <<e>>).out = o
  <2> HIDE DEF o, OEvent
  <2>1. Write(c, <<e>>) = [c EXCEPT !.out = o]
    BY DEF Write, o
  <2> QED BY <2>1 DEF OConv
<1>2. e \in OEvent /\ e.type \in {"error", "[DONE]"}
  BY DEF OEvent
<1>3. OneMore(c.out, e, o)
  <2> HIDE DEF OEvent
  <2> QED BY <1>2, OFields, OneMoreIs
<1> HIDE DEF o, OEvent
<1>4. ChunksFine(o)
  BY <1>2, <1>3, ChunksMore
<1> QED BY <1>1, <1>4

\* Reading a frame keeps the invariant: an Anthropic server says nothing of
\* its blocks after message_delta.
LEMMA OpenAIFrame ==
  ASSUME OpenAIInv, ToOpenAI, Frame
  PROVE  OpenAIInv'
<1>0. /\ route \in Routes /\ Client = "openai" /\ NeedConvert /\ Upstream = "anthropic" /\ result = "none"
      /\ ChunksFine(conv.out) /\ Speaking(conv) /\ frames \in Seq(Frames["anthropic"]) /\ conv \in OConv
  BY RouteFacts DEF OpenAIInv, ToOpenAI, Frame, Speaking
<1>1. route' = route
  BY DEF Frame
<1>2. PICK f \in Frames["anthropic"] : Follows(f) /\ frames' = Append(frames, f) /\ (Sentinel(f) \/ Payload(f))
  BY <1>0 DEF Frame
<1>3. f.type = "malformed" \/ f \in O!Event
  BY FrameAssumption
<1>4. frames' \in Seq(Frames["anthropic"]) /\ frames' # <<>> /\ Len(frames) \in Nat
  BY <1>0, <1>2
<1>5. f.type # "[DONE]"
  BY <1>3 DEF O!Event
<1>6. Payload(f)
  BY <1>2, <1>5 DEF Sentinel
<1> DEFINE n == Place
           e == Convert(f, n)
<1>7. n \in Nat
  BY <1>4 DEF Place
<1>8. e = O!Convert(conv, f, n)
  BY <1>0 DEF Convert
<1>9. \/ conv' = e
      \/ conv' = Write(e, <<ErrorEvent>>) /\ result' = "error"
  BY <1>6 DEF Payload, Return
<1> HIDE DEF n, e
<1>10. /\ e \in OConv
       /\ Same(conv, e) \/ Announced(conv, e, f) \/ Chunked(conv, e, f) \/ Finished(conv, e, f) \/ Failed(conv, e, f)
  BY <1>0, <1>3, <1>7, <1>8, OConvert
<1>11. f.type \in {"content_block_start", "content_block_delta", "message_delta"} => ~Said("message_delta")
  <2>1. f.type \in {"content_block_start", "content_block_delta", "message_delta"} => AnthropicOrder(f)
    BY <1>0, <1>2 DEF Follows
  <2> QED BY <2>1 DEF AnthropicOrder
<1>12. f.type \in {"content_block_start", "content_block_delta", "message_delta"} => Unfinished(conv.out)
  BY <1>0, <1>11 DEF Speaking
<1>13. \A k \in DOMAIN conv.toolIndexes : \E j \in DOMAIN conv.out : Announces(conv.out[j], k)
  BY <1>0 DEF Speaking
<1>14. /\ ChunksFine(e.out)
       /\ \A k \in DOMAIN e.toolIndexes : \E j \in DOMAIN e.out : Announces(e.out[j], k)
       /\ Unfinished(conv.out) /\ f.type # "message_delta" => Unfinished(e.out)
  BY <1>0, <1>10, <1>12, <1>13, SpeakingOn
<1>15. /\ Said("message_delta") => Said("message_delta")'
       /\ f.type = "message_delta" => Said("message_delta")'
  <2>1. /\ \A j \in DOMAIN frames : j \in DOMAIN frames' /\ frames'[j] = frames[j]
        /\ Len(frames) + 1 \in DOMAIN frames' /\ frames'[Len(frames) + 1] = f
    BY <1>0, <1>2
  <2> QED BY <2>1 DEF Said
<1>16. ~Unfinished(e.out) => Said("message_delta")'
  BY <1>0, <1>14, <1>15 DEF Speaking
<1>17. CASE conv' = e
  <2>1. Speaking(conv)'
    BY <1>10, <1>14, <1>16, <1>17 DEF Speaking
  <2> QED BY <1>0, <1>1, <1>4, <1>14, <1>17, <2>1 DEF OpenAIInv
<1>18. CASE conv' = Write(e, <<ErrorEvent>>) /\ result' = "error"
  <2>1. ErrorEvent \in [type : {"error", "[DONE]"}]
    BY DEF ErrorEvent
  <2>2. ChunksFine(conv'.out)
    BY <1>10, <1>14, <1>18, <2>1, TailWritten
  <2> QED BY <1>0, <1>1, <1>18, <2>2 DEF OpenAIInv
<1> QED BY <1>9, <1>17, <1>18

\* Chunks alone are in order.
LEMMA CalledFine ==
  ASSUME NEW s, Called(s)
  PROVE  ChunksFine(s) /\ Unfinished(s)
BY DEF Called, ChunksFine, Unfinished, IsFinish, IsChunk

\* So are two sequences of them, one after the other.
LEMMA CalledMore ==
  ASSUME NEW E, NEW s \in Seq(E), NEW t \in Seq(E), Called(s), Called(t)
  PROVE  s \o t \in Seq(E) /\ Called(s \o t)
<1> DEFINE u == s \o t
           L == Len(s)
<1>1. /\ L \in Nat /\ u \in Seq(E)
      /\ \A p \in DOMAIN s : p \in DOMAIN u /\ u[p] = s[p]
      /\ \A p \in DOMAIN t : L + p \in DOMAIN u /\ u[L + p] = t[p]
      /\ \A p \in DOMAIN u : p \in DOMAIN s \/ (p \in Int /\ p - L \in DOMAIN t /\ u[p] = t[p - L])
      /\ \A p \in DOMAIN t : p \in Int
  OBVIOUS
<1> HIDE DEF u, L
<1>2. ASSUME NEW i \in DOMAIN u
      PROVE  /\ u[i].type = "chunk"
             /\ u[i].kind = "tool" => \E j \in DOMAIN u : j < i /\ Announces(u[j], u[i].tool)
  <2>1. CASE i \in DOMAIN s
    <3>1. u[i] = s[i]
      BY <1>1, <2>1
    <3>2. s[i].type = "chunk" /\ (s[i].kind = "tool" => \E j \in DOMAIN s : j < i /\ Announces(s[j], s[i].tool))
      BY <2>1 DEF Called
    <3> QED BY <1>1, <3>1, <3>2
  <2>2. CASE i \in Int /\ i - L \in DOMAIN t /\ u[i] = t[i - L]
    <3> DEFINE k == i - L
    <3>1. k \in DOMAIN t /\ u[i] = t[k]
      BY <2>2
    <3>2. t[k].type = "chunk" /\ (t[k].kind = "tool" => \E j \in DOMAIN t : j < k /\ Announces(t[j], t[k].tool))
      BY <3>1 DEF Called
    <3>3. ASSUME t[k].kind = "tool"
          PROVE  \E j \in DOMAIN u : j < i /\ Announces(u[j], u[i].tool)
      <4>1. PICK j \in DOMAIN t : j < k /\ Announces(t[j], t[k].tool)
        BY <3>2, <3>3
      <4>2. L + j \in DOMAIN u /\ u[L + j] = t[j] /\ L + j < i
        BY <1>1, <2>2, <4>1
      <4> QED BY <3>1, <4>1, <4>2
    <3> QED BY <3>1, <3>2, <3>3
  <2> QED BY <1>1, <2>1, <2>2
<1>3. Called(u)
  BY <1>2 DEF Called
<1> QED BY <1>1, <1>3 DEF u

\* The type of FlattenSeq.
LEMMA FlatType ==
  ASSUME NEW E, NEW n \in Nat, NEW seqs \in [1 .. n -> Seq(E)]
  PROVE  FlattenSeq(seqs) \in Seq(E)
<1>1. PICK g \in [0 .. n -> Seq(E)] :
        /\ g[0] = <<>>
        /\ \A i \in 1 .. n : g[i] = g[i - 1] \o seqs[i]
        /\ FlattenSeq(seqs) = g[n]
  BY Flattening, Zenon
<1>2. n \in 0 .. n
  OBVIOUS
<1> QED BY <1>1, <1>2

\* And so are any number of them.
LEMMA CalledFlat ==
  ASSUME NEW E, NEW n \in Nat, NEW seqs \in [1 .. n -> Seq(E)], \A i \in 1 .. n : Called(seqs[i])
  PROVE  FlattenSeq(seqs) \in Seq(E) /\ Called(FlattenSeq(seqs))
<1>1. PICK g \in [0 .. n -> Seq(E)] :
        /\ g[0] = <<>>
        /\ \A i \in 1 .. n : g[i] = g[i - 1] \o seqs[i]
        /\ FlattenSeq(seqs) = g[n]
  BY Flattening, Zenon
<1> DEFINE P == {k \in 0 .. n : Called(g[k])}
<1>2. 0 \in P
  BY <1>1, 0 \in 0 .. n DEF Called
<1>3. ASSUME NEW k \in 0 .. n - 1, k \in P PROVE k + 1 \in P
  <2>1. k + 1 \in 1 .. n /\ k + 1 \in 0 .. n /\ k \in 0 .. n /\ (k + 1) - 1 = k
    OBVIOUS
  <2>2. g[k + 1] = g[k] \o seqs[k + 1]
    BY <1>1, <2>1, Zenon
  <2>3. Called(g[k]) /\ Called(seqs[k + 1]) /\ g[k] \in Seq(E) /\ seqs[k + 1] \in Seq(E)
    BY <1>3, <2>1
  <2>4. Called(g[k + 1])
    BY <2>2, <2>3, CalledMore
  <2> QED BY <2>1, <2>4
<1> HIDE DEF P
<1>4. \A k \in 0 .. n : k \in P
  BY <1>2, <1>3, Upwards, Zenon
<1>5. Called(g[n]) /\ g[n] \in Seq(E)
  <2>1. n \in 0 .. n
    OBVIOUS
  <2> QED BY <1>4, <2>1 DEF P
<1> QED BY <1>1, <1>5

\* The whole of a message that came as one JSON body.
LEMMA CompletionFine ==
  ASSUME NEW body \in Seq(O!Event)
  PROVE  \E E : /\ Append(CompletionEvents(body), DoneEvent) \in Seq(E)
                /\ ChunksFine(Append(CompletionEvents(body), DoneEvent))
                /\ Complete(Append(CompletionEvents(body), DoneEvent))
<1> DEFINE n == Len(body)
           of(kind, i) == body[i].type = "content_block_delta" /\ body[i].kind = kind
           parts(kind) == [i \in DOMAIN body |-> IF of(kind, i) THEN <<<<i, 0>>>> ELSE <<>>]
           deltas(kind) == FlattenSeq(parts(kind))
           prose(kind) == [i \in DOMAIN deltas(kind) |-> O!ContentChunk(kind, 0, deltas(kind)[i])]
           pairs == [t \in DOMAIN deltas("tool") |->
                       <<O!ContentChunk("tool_start", t, None), O!ContentChunk("tool", t, deltas("tool")[t])>>]
           tools == FlattenSeq(pairs)
           end == body[LastOf({i \in DOMAIN body : body[i].type = "message_delta"})]
           fin == O!FinishChunk(O!FinishReason(end.reason), 0)
           th == prose("thinking")
           tx == prose("text")
<1>0. n \in Nat /\ DOMAIN body = 1 .. n
  OBVIOUS
<1>1. \A kind : deltas(kind) \in Seq(Stamp)
  <2> SUFFICES ASSUME NEW kind
               PROVE  deltas(kind) \in Seq(Stamp)
    BY Zenon
  <2>1. \A i \in DOMAIN body : <<i, 0>> \in Stamp
    BY DEF Stamp
  <2> DEFINE q == parts(kind)
  <2>2. q \in [1 .. n -> Seq(Stamp)]
    <3>1. \A i \in 1 .. n : (IF of(kind, i) THEN <<<<i, 0>>>> ELSE <<>>) \in Seq(Stamp)
      <4> SUFFICES ASSUME NEW i \in 1 .. n
                   PROVE  (IF of(kind, i) THEN <<<<i, 0>>>> ELSE <<>>) \in Seq(Stamp)
        BY Zenon
      <4> DEFINE z == <<i, 0>>
      <4>1. z \in Stamp
        BY <1>0, <2>1
      <4> HIDE DEF z, Stamp
      <4>2. <<z>> \in Seq(Stamp) /\ <<>> \in Seq(Stamp)
        BY <4>1
      <4> QED BY <4>2 DEF z
    <3> HIDE DEF Stamp, of
    <3> QED BY <1>0, <3>1
  <2> HIDE DEF q, Stamp, n
  <2>4. FlattenSeq(q) \in Seq(Stamp)
    BY <1>0, <2>2, FlatType
  <2> QED BY <2>4 DEF q
<1> HIDE DEF deltas
<1>2. ASSUME NEW kind \in {"thinking", "text"}
      PROVE  prose(kind) \in Seq(OChunk) /\ Called(prose(kind))
  <2> DEFINE d == deltas(kind)
             s == [i \in DOMAIN d |-> O!ContentChunk(kind, 0, d[i])]
  <2>1. d \in Seq(Stamp)
    BY <1>1
  <2> HIDE DEF d
  <2>2. \A i \in DOMAIN d : d[i] \in Stamp
    BY <2>1
  <2>3. \A i \in DOMAIN d : O!ContentChunk(kind, 0, d[i]) \in OChunk
    BY <2>2 DEF O!ContentChunk, OChunk, O!BlockKinds
  <2>4. DOMAIN d = 1 .. Len(d) /\ Len(d) \in Nat
    BY <2>1
  <2>5. s \in Seq(OChunk)
    <3> HIDE DEF OChunk
    <3> QED BY <2>3, <2>4
  <2>6. \A i \in DOMAIN s : s[i].type = "chunk" /\ s[i].kind # "tool"
    BY DEF O!ContentChunk
  <2>7. Called(s)
    BY <2>6 DEF Called
  <2> QED BY <2>5, <2>7 DEF d
<1>3. tools \in Seq(OChunk) /\ Called(tools)
  <2> DEFINE d == deltas("tool")
             m == Len(d)
             pair(t) == <<O!ContentChunk("tool_start", t, None), O!ContentChunk("tool", t, d[t])>>
             ps == [t \in DOMAIN d |-> pair(t)]
  <2>1. d \in Seq(Stamp)
    BY <1>1
  <2> HIDE DEF d
  <2>2. DOMAIN d = 1 .. m /\ m \in Nat
    BY <2>1
  <2>3. \A t \in 1 .. m : pair(t) \in Seq(OChunk) /\ Called(pair(t))
    <3> SUFFICES ASSUME NEW t \in 1 .. m
                 PROVE  pair(t) \in Seq(OChunk) /\ Called(pair(t))
      OBVIOUS
    <3> DEFINE a == O!ContentChunk("tool_start", t, None)
               b == O!ContentChunk("tool", t, d[t])
    <3>1. d[t] \in Stamp /\ t \in Nat
      BY <2>1, <2>2
    <3>2. a \in OChunk /\ a.type = "chunk" /\ a.kind = "tool_start" /\ a.tool = t
      BY <3>1 DEF O!ContentChunk, OChunk
    <3>3. b \in OChunk /\ b.type = "chunk" /\ b.tool = t
      BY <3>1 DEF O!ContentChunk, OChunk, O!BlockKinds
    <3> HIDE DEF a, b, OChunk
    <3>4. <<a, b>> \in Seq(OChunk) /\ Called(<<a, b>>)
      <4>1. DOMAIN <<a, b>> = 1 .. 2
        OBVIOUS
      <4>2. Announces(a, t)
        BY <3>2 DEF Announces
      <4>3. \A i \in 1 .. 2 : i = 1 \/ i = 2
        OBVIOUS
      <4>4. <<a, b>> \in Seq(OChunk)
        BY <3>2, <3>3
      <4> DEFINE p == <<a, b>>
      <4>5. p[1] = a /\ p[2] = b /\ DOMAIN p = 1 .. 2 /\ 1 < 2
        OBVIOUS
      <4> HIDE DEF p
      <4>6. Called(p)
        BY <3>2, <3>3, <4>2, <4>3, <4>5 DEF Called
      <4> QED BY <4>4, <4>6 DEF p
    <3> QED BY <3>4 DEF a, b
  <2> HIDE DEF pair, m
  <2>4. ps \in [1 .. m -> Seq(OChunk)] /\ \A t \in 1 .. m : ps[t] = pair(t)
    <3> HIDE DEF OChunk
    <3> QED BY <2>2, <2>3
  <2> HIDE DEF ps, OChunk
  <2>5. FlattenSeq(ps) \in Seq(OChunk) /\ Called(FlattenSeq(ps))
    BY <2>2, <2>3, <2>4, CalledFlat
  <2>6. ps = pairs
    BY DEF ps, pair, d, pairs
  <2> QED BY <2>5, <2>6
<1> HIDE DEF tools, OChunk
<1>4. th \in Seq(OChunk) /\ Called(th) /\ tx \in Seq(OChunk) /\ Called(tx)
  BY <1>2
<1> HIDE DEF th, tx
<1> DEFINE p == th \o tx \o tools
           E == OChunk \cup {fin, DoneEvent}
<1>5. p \in Seq(OChunk) /\ Called(p)
  <2>1. th \o tx \in Seq(OChunk) /\ Called(th \o tx)
    BY <1>4, CalledMore
  <2> DEFINE v == th \o tx
  <2> HIDE DEF v
  <2>2. v \o tools \in Seq(OChunk) /\ Called(v \o tools)
    BY <1>3, <2>1, CalledMore, Zenon DEF v
  <2> QED BY <2>2 DEF v
<1>6. CompletionEvents(body) = p \o <<fin>>
  BY DEF CompletionEvents, p, th, tx, tools, deltas
<1>7. fin.type = "finish" /\ DoneEvent.type = "[DONE]"
  BY DEF O!FinishChunk, DoneEvent
<1>c. Harmless(fin) /\ Seen(DoneEvent) \in Ends
  BY <1>7, Zenon DEF Harmless, Seen, Ends
<1>g. Ongoing(p)
  <2>1. p \in Seq(OChunk)
    BY <1>5
  <2> HIDE DEF p
  <2>2. \A i \in DOMAIN p : p[i] \in OChunk
    BY <2>1
  <2>3. \A i \in DOMAIN p : p[i].type = "chunk"
    BY <2>2 DEF OChunk
  <2> QED BY <2>3 DEF Ongoing, Harmless, Seen, Ends
<1> HIDE DEF p, fin
<1>8. p \in Seq(E)
  BY <1>5
<1>9. OneMore(p, fin, p \o <<fin>>) /\ p \o <<fin>> \in Seq(E)
  BY <1>8, OneMoreIs
<1> DEFINE w == p \o <<fin>>
<1> HIDE DEF w
<1>10. OneMore(w, DoneEvent, Append(w, DoneEvent)) /\ Append(w, DoneEvent) \in Seq(E)
  BY <1>9, OneMoreIs, Zenon DEF w
<1>11. ChunksFine(p) /\ Unfinished(p)
  BY <1>5, CalledFine
<1>12. ChunksFine(w)
  BY <1>7, <1>9, <1>11, ChunksMore DEF w
<1>13. ChunksFine(Append(w, DoneEvent))
  BY <1>7, <1>10, <1>12, ChunksMore
<1>14. Ongoing(w)
  BY <1>9, <1>c, <1>g, OngoingNext DEF w
<1>15. Complete(Append(w, DoneEvent))
  BY <1>10, <1>14, <1>c, OngoingNext
<1> QED BY <1>6, <1>10, <1>13, <1>15, Zenon DEF w

\* A body that converts holds events of an Anthropic message and no
\* error.
LEMMA BodySpeaks ==
  ASSUME NEW body \in Bodies["anthropic"], body[1].type \notin {"malformed", "error"}
  PROVE  body \in Seq(O!Event) /\ \A i \in DOMAIN body : body[i].type # "error"
<1> DEFINE Q == {e \in O!Event : e.type # "error"}
<1>1. body \in Seq(Q)
  BY BodyAssumption
<1>2. Q \subseteq O!Event /\ \A e \in Q : e.type # "error"
  OBVIOUS
<1> HIDE DEF Q
<1>3. \A i \in DOMAIN body : body[i] \in Q
  BY <1>1
<1>4. body \in Seq(O!Event)
  BY <1>1, <1>2, SeqMonotonic
<1> QED BY <1>2, <1>3, <1>4

\* A step that ends the request with these chunks.
LEMMA OpenAIEnded ==
  ASSUME OpenAIInv, UNCHANGED route, result' # "none", ToOpenAI => ChunksFine(conv'.out)
  PROVE  OpenAIInv'
  BY DEF OpenAIInv, ToOpenAI, NeedConvert, Client, Upstream

\* An end of the upstream's stream, expected or not, adds an error or
\* [DONE].
LEMMA OpenAIBroken ==
  ASSUME OpenAIInv, Broken \/ ClientGone \/ EndOfStream
  PROVE  OpenAIInv'
<1>1. UNCHANGED route /\ result' # "none" /\ result = "none"
  BY DEF Broken, ClientGone, EndOfStream, Return
<1>2. ASSUME ToOpenAI PROVE ChunksFine(conv'.out)
  <2>1. ChunksFine(conv.out) /\ conv \in OConv /\ Client = "openai"
    BY <1>1, <1>2 DEF OpenAIInv, Speaking, ToOpenAI
  <2>2. CASE Broken
    <3>1. conv' = Write(conv, <<ErrorEvent>>)
      BY <2>2 DEF Broken, Return
    <3>2. ErrorEvent \in [type : {"error", "[DONE]"}]
      BY DEF ErrorEvent
    <3> QED BY <2>1, <3>1, <3>2, TailWritten
  <2>3. CASE ClientGone
    BY <2>1, <2>3 DEF ClientGone, Return
  <2>4. CASE EndOfStream
    <3>1. conv' = Write(Closed, Ending) /\ Closed = conv
      BY <2>1, <2>4 DEF EndOfStream, Return, Closed
    <3>2. Ending = <<>> \/ Ending = <<DoneEvent>>
      BY <2>1 DEF Ending
    <3>3. DoneEvent \in [type : {"error", "[DONE]"}]
      BY DEF DoneEvent
    <3>4. CASE Ending = <<DoneEvent>>
      BY <2>1, <3>1, <3>3, <3>4, TailWritten
    <3>5. CASE Ending = <<>>
      <4> DEFINE o == conv.out \o <<>>
      <4>1. conv.out \in Seq(OEvent)
        BY <2>1, OFields
      <4>2. o = conv.out
        BY <4>1, ConcatEmptySeq
      <4>3. conv' = [conv EXCEPT !.out = o]
        BY <3>1, <3>5 DEF Write
      <4> HIDE DEF o, OEvent
      <4>4. conv'.out = o
        BY <2>1, <4>3 DEF OConv
      <4> QED BY <2>1, <4>2, <4>4
    <3> QED BY <3>2, <3>4, <3>5
  <2> QED BY <2>2, <2>3, <2>4
<1> QED BY <1>1, <1>2, OpenAIEnded

\* A JSON body is in order.
LEMMA OpenAIJsonBody ==
  ASSUME OpenAIInv, JsonBody
  PROVE  OpenAIInv'
<1>1. UNCHANGED route /\ result = "none" /\ frames = <<>>
  BY DEF JsonBody
<1>2. PICK body \in Bodies[Upstream], u \in BOOLEAN : BodyTo(body, u)
  BY DEF JsonBody, BodyTo
<1>3. result' # "none"
  BY <1>2 DEF Return, BodyTo
<1>4. ASSUME ToOpenAI PROVE ChunksFine(conv'.out)
  <2>1. /\ conv \in OConv /\ ChunksFine(conv.out) /\ conv.out = <<>>
        /\ Client = "openai" /\ NeedConvert /\ Upstream = "anthropic"
    BY <1>1, <1>4, RouteFacts DEF OpenAIInv, ToOpenAI, Speaking
  <2>2. conv' = Write(conv, <<ErrorEvent>>) \/ (~Garbage(body) /\ ~HasError(body[1]) /\ conv' = Whole(body, u))
    BY <1>2, <2>1 DEF Return, BodyTo
  <2>3. CASE conv' = Write(conv, <<ErrorEvent>>)
    <3>1. ErrorEvent \in [type : {"error", "[DONE]"}]
      BY DEF ErrorEvent
    <3> QED BY <2>1, <2>3, <3>1, TailWritten
  <2>4. CASE ~Garbage(body) /\ ~HasError(body[1]) /\ conv' = Whole(body, u)
    <3> DEFINE w == Append(CompletionEvents(body), DoneEvent)
    <3>1. conv' = Write(conv, w)
      <4>1. Whole(body, u) = Write(conv, OpenAIBody(body, u))
        BY <2>1 DEF Whole
      <4>2. OpenAIBody(body, u) = w
        BY <2>1 DEF OpenAIBody
      <4> QED BY <2>4, <4>1, <4>2
    <3>2. body \in Seq(O!Event)
      BY <2>1, <2>4, BodySpeaks DEF Garbage, HasError
    <3>3. PICK E : w \in Seq(E) /\ ChunksFine(w)
      BY <3>2, CompletionFine
    <3> HIDE DEF w
    <3> DEFINE o == conv.out \o w
    <3>4. o = w
      BY <2>1, <3>3, ConcatEmptySeq
    <3>5. conv' = [conv EXCEPT !.out = o]
      BY <3>1 DEF Write
    <3> HIDE DEF o, OEvent
    <3>6. conv'.out = o
      BY <2>1, <3>5 DEF OConv
    <3> QED BY <3>3, <3>4, <3>6
  <2> QED BY <2>2, <2>3, <2>4
<1> QED BY <1>1, <1>3, <1>4, OpenAIEnded

\* Every step keeps the invariant.
LEMMA OpenAINext == OpenAIInv /\ [Next]_vars => OpenAIInv'
<1> SUFFICES ASSUME OpenAIInv, [Next]_vars
             PROVE  OpenAIInv'
  OBVIOUS
<1>1. CASE Frame
  <2>1. CASE ToOpenAI
    BY <1>1, <2>1, OpenAIFrame
  <2>2. CASE ~ToOpenAI
    <3>1. route' = route
      BY <1>1 DEF Frame
    <3> QED BY <2>2, <3>1 DEF OpenAIInv, ToOpenAI, NeedConvert, Client, Upstream
  <2> QED BY <2>1, <2>2
<1>2. CASE Broken \/ ClientGone \/ EndOfStream
  BY <1>2, OpenAIBroken
<1>3. CASE JsonBody
  BY <1>3, OpenAIJsonBody
<1>4. CASE UNCHANGED vars
  BY <1>4 DEF vars, OpenAIInv, ToOpenAI, NeedConvert, Client, Upstream, Speaking, Said
<1> QED BY <1>1, <1>2, <1>3, <1>4 DEF Next

\* What the client sees of an event is the event.
LEMMA OpenAISeen ==
  ASSUME ChunksFine(Out)
  PROVE  OpenAIOrderKept
<1>1. \A i \in DOMAIN Out : Out[i].type \in {"chunk", "finish", "error", "[DONE]"}
  BY DEF ChunksFine
<1>2. \A i \in DOMAIN Out : TypeAt(i) = Out[i].type
  BY <1>1 DEF TypeAt
<1>3. \A T : At(T) = {i \in DOMAIN Out : Out[i].type \in T}
  BY <1>2 DEF At
<1>4. \A i \in At({"chunk"}) : Out[i].kind = "tool" =>
        \E j \in At({"chunk"}) : j < i /\ Out[j].kind = "tool_start" /\ Out[j].tool = Out[i].tool
  <2> SUFFICES ASSUME NEW i \in At({"chunk"}), Out[i].kind = "tool"
               PROVE  \E j \in At({"chunk"}) : j < i /\ Out[j].kind = "tool_start" /\ Out[j].tool = Out[i].tool
    OBVIOUS
  <2>1. i \in DOMAIN Out /\ IsChunk(Out[i])
    BY <1>3 DEF IsChunk
  <2>2. PICK j \in DOMAIN Out : j < i /\ Announces(Out[j], Out[i].tool)
    BY <2>1 DEF ChunksFine
  <2>3. j \in At({"chunk"})
    BY <1>3, <2>2 DEF Announces
  <2> QED BY <2>2, <2>3 DEF Announces
<1>5. \A i \in At({"finish"}), j \in At({"chunk", "finish"}) : j <= i
  <2> SUFFICES ASSUME NEW i \in At({"finish"}), NEW j \in At({"chunk", "finish"})
               PROVE  j <= i
    OBVIOUS
  <2>1. i \in DOMAIN Out /\ j \in DOMAIN Out /\ IsFinish(Out[i]) /\ Out[j].type \in {"chunk", "finish"}
    BY <1>3 DEF IsFinish
  <2> QED BY <2>1 DEF ChunksFine
<1> QED BY <1>4, <1>5 DEF OpenAIOrderKept

\* A tool call's arguments reach an OpenAI client after the chunk that
\* announced the call, and nothing of the message after its finish chunk:
\* whatever an Anthropic upstream sent and wherever it stopped (toolIndexes
\* in openai_stream.go).
THEOREM OpenAIProtocol == Spec => []OpenAIOrderKept
<1>1. OpenAIInv => OpenAIOrderKept
  <2>1. CASE ToOpenAI
    <3>1. OpenAIInv => ChunksFine(Out)
      BY <2>1 DEF OpenAIInv, Out
    <3> QED BY <3>1, OpenAISeen
  <2>2. CASE ~ToOpenAI
    BY <2>2 DEF OpenAIOrderKept, ToOpenAI
  <2> QED BY <2>1, <2>2
<1> QED BY <1>1, OpenAIInit, OpenAINext, PTL DEF Spec

-----------------------------------------------------------------------------
(* Every answer has one end or tells of an error.                          *)

\* What the relay notes of a frame, field by field.
LEMMA NotedIs ==
  ASSUME saw \in SawType, NEW f
  PROVE  /\ Noted(f) \in SawType
         /\ Noted(f).done = saw.done
         /\ Noted(f).stop <=> saw.stop \/ (Client = "anthropic" /\ f.type = "message_stop")
         /\ Noted(f).delta <=> saw.delta \/ (Client = "anthropic" /\ f.type = "message_delta")
         /\ Noted(f).terminal <=> saw.terminal \/ (Client = "responses" /\ f.type \in
                                    {"response.completed", "response.incomplete"})
         /\ Noted(f).native <=> saw.native \/ (Client = "responses" /\ f.type \in
                                  {"response.created", "response.output_text.delta", "response.completed",
                                   "response.incomplete", "response.failed"})
         /\ Noted(f).error <=> saw.error \/ HasError(f) \/ (Client = "responses" /\ f.type = "response.failed")
         /\ Noted(f).content <=> saw.content \/ HasContent(f)
<1> DEFINE st == saw.stop \/ (Client = "anthropic" /\ f.type = "message_stop")
           de == saw.delta \/ (Client = "anthropic" /\ f.type = "message_delta")
           te == saw.terminal \/ (Client = "responses" /\ f.type \in
                                    {"response.completed", "response.incomplete"})
           na == saw.native \/ (Client = "responses" /\ f.type \in
                                  {"response.created", "response.output_text.delta", "response.completed",
                                   "response.incomplete", "response.failed"})
           er == saw.error \/ HasError(f) \/ (Client = "responses" /\ f.type = "response.failed")
           co == saw.content \/ HasContent(f)
<1>1. /\ st \in BOOLEAN /\ de \in BOOLEAN /\ te \in BOOLEAN /\ na \in BOOLEAN /\ er \in BOOLEAN /\ co \in BOOLEAN
  OBVIOUS
<1>2. Noted(f) = [saw EXCEPT !.stop = st, !.delta = de, !.native = na, !.terminal = te, !.error = er, !.content = co]
  BY DEF Noted, SawType
<1> HIDE DEF st, de, te, na, er, co
<1>3. /\ Noted(f) \in SawType
      /\ Noted(f).done = saw.done /\ Noted(f).stop = st /\ Noted(f).delta = de /\ Noted(f).terminal = te
      /\ Noted(f).native = na /\ Noted(f).error = er /\ Noted(f).content = co
  BY <1>1, <1>2, Zenon DEF SawType
<1> QED BY <1>3, Zenon DEF st, de, te, na, er, co

\* The type of the notes.
LEMMA SawInv ==
  /\ Init => saw \in SawType
  /\ saw \in SawType /\ [Next]_vars => saw' \in SawType
<1>1. Init => saw \in SawType
  BY DEF Init, NothingSeen, SawType
<1>2. ASSUME saw \in SawType, Frame
      PROVE  saw' \in SawType
  <2>1. PICK f \in Frames[Upstream] : Sentinel(f) \/ Payload(f)
    BY <1>2 DEF Frame
  <2>2. CASE Sentinel(f)
    <3> DEFINE d == saw.done \/ Client = "openai"
    <3>1. d \in BOOLEAN /\ saw' = [saw EXCEPT !.done = d]
      BY <1>2, <2>2 DEF Sentinel, SawType
    <3> HIDE DEF d
    <3> QED BY <1>2, <3>1 DEF SawType
  <2>3. CASE Payload(f)
    <3>1. saw' \in {saw, Noted(f)}
      BY <2>3 DEF Payload
    <3> QED BY <1>2, <3>1, NotedIs
  <2> QED BY <2>1, <2>2, <2>3
<1>3. ASSUME saw \in SawType, JsonBody
      PROVE  saw' \in SawType
  <2>1. PICK body : saw' = [saw EXCEPT !.content = \E i \in DOMAIN body : HasContent(body[i])]
    BY <1>3, Zenon DEF JsonBody
  <2> DEFINE c == \E i \in DOMAIN body : HasContent(body[i])
  <2>2. c \in BOOLEAN /\ saw' = [saw EXCEPT !.content = c]
    BY <2>1
  <2> HIDE DEF c
  <2> QED BY <1>3, <2>2 DEF SawType
<1>4. saw \in SawType /\ (EndOfStream \/ Broken \/ ClientGone \/ UNCHANGED vars) => saw' \in SawType
  BY DEF EndOfStream, Broken, ClientGone, vars
<1> QED BY <1>1, <1>2, <1>3, <1>4 DEF Next

\* A frame converted for an Anthropic client keeps the ends right.
LEMMA AnthropicFrameEnds ==
  ASSUME NoNullErrors, AnthropicInv, AnthropicEnds, saw \in SawType, ToAnthropic, Frame
  PROVE  AnthropicEnds'
<1>0. /\ route \in Routes /\ Client = "anthropic" /\ NeedConvert /\ Upstream = "openai" /\ result = "none"
      /\ Silent(conv) \/ Begun(conv)
      /\ frames \in Seq(Frames["openai"]) /\ conv \in AConv
  BY RouteFacts DEF AnthropicInv, ToAnthropic, Frame
<1>1. ~saw.stop /\ ~saw.delta /\ (~conv.finished => ~saw.error) /\ (Cut(conv) => saw.error)
  BY <1>0 DEF AnthropicEnds
<1>2. PICK f \in Frames["openai"] : frames' = Append(frames, f) /\ (Sentinel(f) \/ Payload(f))
  BY <1>0 DEF Frame
<1>3. f.type \in {"malformed", "[DONE]"} \/ f \in A!Chunk
  BY FrameAssumption
<1>5. CASE Sentinel(f)
  <2>1. conv' = conv /\ result' = "none"
    BY <1>0, <1>5 DEF Sentinel
  <2>2. saw'.stop = saw.stop /\ saw'.delta = saw.delta /\ saw'.error = saw.error
    BY <1>5 DEF Sentinel, SawType
  <2> QED BY <1>1, <2>1, <2>2 DEF AnthropicEnds, Answered
<1>6. CASE Payload(f)
  <2> DEFINE n == Place
             e == Convert(f, n)
  <2>1. n \in Nat
    BY <1>0 DEF Place
  <2>2. f.type = "malformed" \/ (f \in A!Chunk /\ f.type = "chunk")
    BY <1>3, <1>6 DEF Payload, A!Chunk
  <2>3. e = A!Convert(conv, f, n)
    BY <1>0 DEF Convert
  <2>4. Skips = conv.finished
    BY <1>0, AFields, Zenon DEF Skips
  <2>5. /\ saw' = IF f.type = "malformed" THEN saw ELSE Noted(f)
        /\ IF f.type = "malformed" /\ ~conv.finished
           THEN conv' = Write(e, <<ErrorEvent>>) /\ result' = "error"
           ELSE conv' = e /\ result' = "none"
    BY <1>0, <1>6, <2>4 DEF Payload, Return
  <2> HIDE DEF n, e
  <2>6. /\ Begun(e)
        /\ conv.finished => e = conv
        /\ ~conv.finished /\ f.type = "malformed" => ~e.finished
        /\ ~conv.finished /\ f.type # "malformed" => IF f.error = "absent" THEN Well(e) ELSE Cut(e)
    BY <1>0, <2>1, <2>2, <2>3, ConvertOrders
  <2>7. CASE f.type = "malformed" /\ ~conv.finished
    <3>1. conv' = Write(e, <<ErrorEvent>>) /\ result' = "error" /\ ~e.finished
      BY <2>5, <2>6, <2>7
    <3>2. Ongoing(e.out) /\ e \in AConv /\ e.out \in Seq(AEvent)
      BY <2>6, <3>1, Phases, AFields
    <3>3. conv'.out = e.out \o <<ErrorEvent>>
      BY <3>1, <3>2 DEF Write, AConv
    <3>4. ErrorEvent \in AEvent /\ Seen(ErrorEvent) = "error"
      BY DEF ErrorEvent, AEvent, Seen
    <3>5. OneMore(e.out, ErrorEvent, conv'.out)
      <4> HIDE DEF AEvent
      <4> QED BY <3>2, <3>3, <3>4, OneMoreIs
    <3>6. ErrorTold(conv'.out)
      BY <3>2, <3>4, <3>5, ErrorTells
    <3> QED BY <3>1, <3>6 DEF AnthropicEnds, Answered
  <2>8. CASE f.type = "malformed" /\ conv.finished
    BY <1>1, <2>5, <2>6, <2>8 DEF AnthropicEnds, Answered
  <2>9. CASE f.type = "chunk"
    <3>1. conv' = e /\ result' = "none" /\ saw' = Noted(f) /\ f.error \in {"absent", "real"}
      BY <2>2, <2>5, <2>9 DEF NoNullErrors, A!Chunk
    <3>2. /\ ~saw'.stop /\ ~saw'.delta
          /\ saw'.error <=> saw.error \/ f.error = "real"
      BY <1>0, <1>1, <2>9, <3>1, NotedIs DEF HasError
    <3>3. CASE conv.finished
      BY <1>1, <2>6, <3>1, <3>2, <3>3 DEF AnthropicEnds, Answered
    <3>4. CASE ~conv.finished /\ f.error = "absent"
      <4>1. Well(e) /\ ~saw'.error
        BY <1>1, <2>6, <2>9, <3>2, <3>4
      <4>2. ~Cut(e)
        BY <4>1 DEF Well, Talking, Stopped, Done, Cut, Over, Complete, Failing
      <4> QED BY <3>1, <3>2, <4>1, <4>2 DEF AnthropicEnds, Answered
    <3>5. CASE ~conv.finished /\ f.error = "real"
      <4>1. Cut(e) /\ saw'.error
        BY <2>6, <2>9, <3>2, <3>5
      <4>2. e.finished
        BY <4>1, Zenon DEF Cut, Over
      <4> QED BY <3>1, <3>2, <4>1, <4>2 DEF AnthropicEnds, Answered
    <3> QED BY <3>1, <3>3, <3>4, <3>5
  <2> QED BY <2>2, <2>7, <2>8, <2>9
<1> QED BY <1>2, <1>5, <1>6

\* An answer is ongoing before its first event.
LEMMA NothingOngoing == Ongoing(<<>>)
  BY DEF Ongoing

\* While the answer lasts, an Anthropic client has an ongoing message, a
\* complete one or a failed one.
LEMMA AnthropicPhase ==
  ASSUME AnthropicInv, ToAnthropic, result = "none"
  PROVE  Ongoing(conv.out) \/ Complete(conv.out) \/ Failing(conv.out)
<1>1. Silent(conv) \/ Begun(conv)
  BY DEF AnthropicInv
<1>2. CASE Silent(conv)
  BY <1>2, NothingOngoing DEF Silent
<1>3. CASE Begun(conv)
  BY <1>3, Phases DEF Cut
<1> QED BY <1>1, <1>2, <1>3

\* An error written to a client that has received this.
LEMMA AnthropicError ==
  ASSUME NEW c \in AConv, Ongoing(c.out) \/ Complete(c.out) \/ Failing(c.out)
  PROVE  ErrorTold(Write(c, <<ErrorEvent>>).out)
<1>1. c.out \in Seq(AEvent)
  BY AFields
<1>2. Write(c, <<ErrorEvent>>).out = c.out \o <<ErrorEvent>>
  BY DEF Write, AConv
<1>3. ErrorEvent \in AEvent /\ Seen(ErrorEvent) = "error"
  BY DEF ErrorEvent, AEvent, Seen
<1>4. OneMore(c.out, ErrorEvent, c.out \o <<ErrorEvent>>)
  <2> HIDE DEF AEvent
  <2> QED BY <1>1, <1>3, OneMoreIs
<1> QED BY <1>2, <1>3, <1>4, ErrorTells, Zenon

\* So do the ways out of the frame loop and the JSON bodies.
LEMMA AnthropicOtherEnds ==
  ASSUME AnthropicInv, AnthropicEnds, saw \in SawType, ToAnthropic, Broken \/ ClientGone \/ EndOfStream \/ JsonBody
  PROVE  AnthropicEnds'
<1>0. /\ conv \in AConv /\ (Silent(conv) \/ Begun(conv)) /\ Client = "anthropic" /\ NeedConvert /\ Upstream = "openai"
      /\ result = "none" /\ (frames = <<>> => Silent(conv))
      /\ ~saw.stop /\ ~saw.delta /\ (~conv.finished => ~saw.error) /\ (Cut(conv) => saw.error)
  BY RouteFacts DEF AnthropicInv, AnthropicEnds, ToAnthropic, Broken, ClientGone, EndOfStream, JsonBody
<1>1. Ongoing(conv.out) \/ Complete(conv.out) \/ Failing(conv.out)
  BY <1>0, AnthropicPhase
<1>2. ASSUME result' # "none", result' = "ok" => Complete(conv'.out), result' = "error" => ErrorTold(conv'.out)
      PROVE  AnthropicEnds'
  BY <1>2 DEF AnthropicEnds, Answered
<1>3. ASSUME conv' = Write(conv, <<ErrorEvent>>), result' = "error"
      PROVE  AnthropicEnds'
  BY <1>0, <1>1, <1>2, <1>3, AnthropicError
<1>4. CASE Broken
  BY <1>3, <1>4 DEF Broken, Return
<1>5. CASE ClientGone
  BY <1>2, <1>5 DEF ClientGone, Return
<1>6. CASE EndOfStream
  <2>1. conv' = Write(Closed, Ending) /\ result' = IF saw.error THEN "error" ELSE "ok"
    BY <1>0, <1>6 DEF EndOfStream, Return, Errored
  <2>2. Closed = IF ~conv.started \/ conv.finished THEN conv ELSE A!CloseStream(conv)
    BY <1>0 DEF Closed
  <2>3. Ending = IF saw.error \/ Closed.finished THEN <<>> ELSE AnthropicEnd("end_turn", 0)
    BY <1>0 DEF Ending
  <2>4. CASE Silent(conv)
    <3>1. Closed = conv /\ conv.out = <<>> /\ ~saw.error /\ ~conv.finished
      BY <1>0, <2>2, <2>4 DEF Silent
    <3>2. conv' = Write(conv, AnthropicEnd("end_turn", 0))
      BY <2>1, <2>3, <3>1
    <3>3. conv'.out = conv.out \o AnthropicEnd("end_turn", 0)
      BY <1>0, <3>2 DEF Write, AConv
    <3>4. Complete(conv.out \o AnthropicEnd("end_turn", 0))
      <4>1. conv.out \in Seq(AEvent) /\ Ongoing(conv.out)
        BY <1>0, <3>1, AFields, NothingOngoing
      <4>2. "end_turn" \in StopReasons /\ 0 \in Nat
        BY DEF StopReasons
      <4>3. AnthropicEnd("end_turn", 0) =
              <<[type |-> "message_delta", reason |-> "end_turn", tokens |-> 0], [type |-> "message_stop"]>>
        BY DEF AnthropicEnd
      <4> QED BY <4>1, <4>2, <4>3, EndComplete
    <3> QED BY <1>2, <2>1, <3>1, <3>3, <3>4
  <2>5. CASE Begun(conv)
    <3>1. conv.started
      BY <2>5, Phases
    <3>2. /\ Closed \in AConv /\ Closed.finished
          /\ Complete(Closed.out) \/ (saw.error /\ Failing(Closed.out))
      <4>1. CASE conv.finished
        BY <1>0, <2>2, <2>5, <4>1, Phases DEF Cut
      <4>2. CASE ~conv.finished
        <5>1. Closed = A!CloseStream(conv)
          BY <2>2, <3>1, <4>2
        <5>2. Done(Closed)
          BY <2>5, <4>2, <5>1, CloseEnds
        <5> QED BY <5>2, Zenon DEF Done, Over
      <4> QED BY <4>1, <4>2
    <3>3. Ending = <<>>
      BY <2>3, <3>2
    <3>4. conv'.out = Closed.out
      <4>1. Closed.out \in Seq(AEvent)
        BY <3>2, AFields
      <4>2. Closed.out \o <<>> = Closed.out
        BY <4>1, ConcatEmptySeq
      <4>3. conv'.out = Closed.out \o <<>>
        BY <2>1, <3>2, <3>3 DEF Write, AConv
      <4> QED BY <4>2, <4>3
    <3> QED BY <1>2, <2>1, <3>2, <3>4, OverTells
  <2> QED BY <1>0, <2>4, <2>5
<1>7. CASE JsonBody
  <2>0. Silent(conv)
    BY <1>0, <1>7 DEF JsonBody
  <2>1. PICK body \in Bodies[Upstream], u \in BOOLEAN : BodyTo(body, u)
    BY <1>7 DEF JsonBody, BodyTo
  <2>2. CASE Garbage(body) \/ HasError(body[1])
    BY <1>0, <1>3, <2>1, <2>2 DEF Return, BodyTo
  <2>3. CASE ~Garbage(body) /\ ~HasError(body[1])
    <3> DEFINE w == AnthropicBody(body)
    <3>1. conv' = Write(conv, w) /\ result' \in {"error", "ok"}
      BY <1>0, <2>1, <2>3 DEF Whole, Return, BodyTo
    <3>2. body[1] \in A!Chunk
      BY <1>0, <2>3, BodyAssumption DEF Garbage
    <3>3. w \in Seq(AEvent) /\ Complete(w)
      BY <1>0, <3>2, AnthropicBodyFine
    <3>4. conv.out = <<>>
      BY <2>0 DEF Silent
    <3> HIDE DEF w
    <3>5. conv'.out = w
      <4>1. conv'.out = conv.out \o w
        BY <1>0, <3>1 DEF Write, AConv
      <4> QED BY <3>3, <3>4, <4>1, ConcatEmptySeq
    <3> QED BY <1>2, <3>1, <3>3, <3>5, OverTells
  <2> QED BY <2>2, <2>3
<1> QED BY <1>4, <1>5, <1>6, <1>7

\* Every step keeps the ends of an Anthropic client's converted answer
\* right.
LEMMA AnthropicEndsNext ==
  /\ Init => AnthropicEnds
  /\ NoNullErrors /\ AnthropicInv /\ saw \in SawType /\ AnthropicEnds /\ [Next]_vars => AnthropicEnds'
<1>1. Init => AnthropicEnds
  <2> SUFFICES ASSUME Init, ToAnthropic PROVE AnthropicEnds
    BY DEF AnthropicEnds
  <2>1. conv = A!NewConverter /\ saw = NothingSeen /\ result = "none"
    BY DEF Init, NewConverter, ToAnthropic
  <2>2. ~Cut(conv)
    BY <2>1 DEF Cut, Over, A!NewConverter
  <2> QED BY <2>1, <2>2 DEF AnthropicEnds, Answered, NothingSeen
<1>2. ASSUME NoNullErrors, AnthropicInv, saw \in SawType, AnthropicEnds, [Next]_vars
      PROVE  AnthropicEnds'
  <2>1. route' = route
    BY <1>2 DEF Next, Frame, EndOfStream, Broken, ClientGone, JsonBody, vars
  <2>2. CASE ~ToAnthropic
    BY <2>1, <2>2 DEF AnthropicEnds, ToAnthropic, NeedConvert, Client, Upstream
  <2>3. CASE ToAnthropic /\ UNCHANGED vars
    BY <1>2, <2>3 DEF vars, AnthropicEnds, Answered, ToAnthropic, NeedConvert, Client, Upstream
  <2> QED BY <1>2, <2>2, <2>3, AnthropicFrameEnds, AnthropicOtherEnds DEF Next
<1> QED BY <1>1, <1>2

\* An answer that failed may receive anything but an end.
LEMMA FailingNext ==
  ASSUME NEW s, NEW e, NEW t, OneMore(s, e, t), Failing(s), Seen(e) \notin Ends
  PROVE  Failing(t)
<1>1. /\ \A p \in DOMAIN s : p \in DOMAIN t /\ t[p] = s[p]
      /\ \A p \in DOMAIN t : p \in DOMAIN s \/ p = Len(t)
      /\ Len(t) \in DOMAIN t /\ t[Len(t)] = e
  BY DEF OneMore
<1>2. EndsOf(t) = {}
  BY <1>1 DEF EndsOf, Failing
<1>3. ErrorsOf(t) # {}
  BY <1>1 DEF ErrorsOf, Failing
<1> QED BY <1>2, <1>3 DEF Failing

\* What a frame adds to the chunks.
LEMMA ChunkEnds ==
  ASSUME NEW c \in OConv, IF c.errored THEN Failing(c.out) ELSE Ongoing(c.out),
         NEW f, f.type = "malformed" \/ f \in O!Event, NEW n \in Nat, NEW d, d = O!Convert(c, f, n)
  PROVE  /\ d \in OConv /\ (f.type = "error" \/ c.errored => d.errored)
         /\ IF d.errored THEN Failing(d.out) ELSE Ongoing(d.out)
<1>1. /\ d \in OConv
      /\ Same(c, d) \/ Announced(c, d, f) \/ Chunked(c, d, f) \/ Finished(c, d, f) \/ Failed(c, d, f)
      /\ IF f.type = "error" THEN d.errored /\ Failed(c, d, f) ELSE d.errored = c.errored
  BY OConvert
<1>o. c.out \in Seq(OEvent)
  BY OFields
<1>2. CASE f.type = "error"
  <2>1. d.out = Append(c.out, O!ErrorChunk) /\ d.errored
    BY <1>1, <1>2 DEF Failed
  <2>2. O!ErrorChunk \in OEvent /\ Seen(O!ErrorChunk) = "error" /\ "error" \notin Ends
    BY DEF O!ErrorChunk, OEvent, Seen, Ends
  <2>3. OneMore(c.out, O!ErrorChunk, d.out)
    <3> HIDE DEF OEvent
    <3> QED BY <1>o, <2>1, <2>2, OneMoreIs, Zenon
  <2>4. Failing(d.out)
    BY <2>2, <2>3, OngoingNext, FailingNext
  <2> QED BY <1>1, <2>1, <2>4
<1>3. CASE f.type # "error"
  <2>1. d.errored = c.errored /\ ~Failed(c, d, f)
    BY <1>1, <1>3 DEF Failed
  <2>2. ASSUME NEW x \in OEvent, d.out = Append(c.out, x), x.type \in {"chunk", "finish"}
        PROVE  IF d.errored THEN Failing(d.out) ELSE Ongoing(d.out)
    <3>1. OneMore(c.out, x, d.out)
      <4> HIDE DEF OEvent
      <4> QED BY <1>o, <2>2, OneMoreIs, Zenon
    <3>2. Harmless(x) /\ Seen(x) \notin Ends
      BY <2>2 DEF Harmless, Seen, Ends
    <3> QED BY <2>1, <3>1, <3>2, OngoingNext, FailingNext
  <2>3. CASE Same(c, d)
    BY <1>1, <1>3, <2>1, <2>3 DEF Same
  <2>4. CASE Announced(c, d, f)
    <3> DEFINE x == O!ContentChunk("tool_start", Len(c.toolIndexes) + 1, None)
    <3>1. x \in OEvent /\ x.type = "chunk" /\ d.out = Append(c.out, x)
      BY <2>4, OFields DEF Announced, O!ContentChunk, OEvent, OChunk
    <3> HIDE DEF x, OEvent
    <3> QED BY <1>1, <1>3, <2>1, <2>2, <3>1
  <2>5. CASE Chunked(c, d, f)
    <3>1. PICK x \in OChunk : d.out = Append(c.out, x)
      BY <2>5 DEF Chunked
    <3>2. x \in OEvent /\ x.type = "chunk"
      BY DEF OEvent, OChunk
    <3> HIDE DEF OEvent, OChunk
    <3> QED BY <1>1, <1>3, <2>1, <2>2, <3>1, <3>2
  <2>6. CASE Finished(c, d, f)
    <3>1. PICK x \in OEvent : IsFinish(x) /\ d.out = Append(c.out, x)
      BY <2>6 DEF Finished
    <3>2. x.type = "finish"
      BY <3>1 DEF IsFinish
    <3> HIDE DEF OEvent
    <3> QED BY <1>1, <1>3, <2>1, <2>2, <3>1, <3>2
  <2> QED BY <1>1, <2>1, <2>3, <2>4, <2>5, <2>6
<1> QED BY <1>2, <1>3

\* The relay's own last events come one by one.
LEMMA OpenAITail ==
  ASSUME NEW c \in OConv, NEW e \in [type : {"error", "[DONE]"}]
  PROVE  OneMore(c.out, e, Write(c, <<e>>).out)
<1> DEFINE o == c.out \o <<e>>
<1>1. Write(c, <<e>>).out = o
  <2> HIDE DEF o, OEvent
  <2>1. Write(c, <<e>>) = [c EXCEPT !.out = o]
    BY DEF Write, o
  <2> QED BY <2>1 DEF OConv
<1>2. e \in OEvent
  BY DEF OEvent
<1>3. OneMore(c.out, e, o)
  <2> HIDE DEF OEvent
  <2> QED BY <1>2, OFields, OneMoreIs
<1> HIDE DEF o, OEvent
<1> QED BY <1>1, <1>3

\* A frame converted for an OpenAI client keeps the ends right.
LEMMA OpenAIFrameEnds ==
  ASSUME OpenAIInv, OpenAIEnds, saw \in SawType, ToOpenAI, Frame
  PROVE  OpenAIEnds'
<1>0. /\ route \in Routes /\ Client = "openai" /\ NeedConvert /\ Upstream = "anthropic" /\ result = "none"
      /\ frames \in Seq(Frames["anthropic"]) /\ conv \in OConv
  BY RouteFacts DEF OpenAIInv, ToOpenAI, Frame, Speaking
<1>1. /\ ~saw.done /\ (saw.error => conv.errored)
      /\ IF conv.errored THEN Failing(conv.out) ELSE Ongoing(conv.out)
  BY <1>0 DEF OpenAIEnds
<1>2. PICK f \in Frames["anthropic"] : Sentinel(f) \/ Payload(f)
  BY <1>0 DEF Frame
<1>3. f.type = "malformed" \/ f \in O!Event
  BY FrameAssumption
<1>5. f.type # "[DONE]" /\ f.type # "chunk"
  BY <1>3 DEF O!Event
<1>6. Payload(f)
  BY <1>2, <1>5 DEF Sentinel
<1> DEFINE n == Place
           e == Convert(f, n)
<1>7. n \in Nat
  BY <1>0 DEF Place
<1>8. e = O!Convert(conv, f, n)
  BY <1>0 DEF Convert
<1>s. ~Skips
  BY <1>0 DEF Skips
<1>9. /\ saw' = IF f.type = "malformed" THEN saw ELSE Noted(f)
      /\ IF f.type = "malformed" THEN conv' = Write(e, <<ErrorEvent>>) /\ result' = "error"
         ELSE conv' = e /\ result' = "none"
  BY <1>0, <1>s, <1>6 DEF Payload, Return
<1> HIDE DEF n, e
<1>10. /\ e \in OConv /\ (f.type = "error" \/ conv.errored => e.errored)
       /\ IF e.errored THEN Failing(e.out) ELSE Ongoing(e.out)
  BY <1>0, <1>1, <1>3, <1>7, <1>8, ChunkEnds
<1>11. CASE f.type = "malformed"
  <2>1. ErrorEvent \in [type : {"error", "[DONE]"}] /\ Seen(ErrorEvent) = "error"
    BY DEF ErrorEvent, Seen
  <2>2. ErrorTold(conv'.out)
    BY <1>9, <1>10, <1>11, <2>1, OpenAITail, ErrorTells
  <2> QED BY <1>9, <1>11, <2>2 DEF OpenAIEnds, Answered
<1>12. CASE f.type # "malformed"
  <2>1. saw'.done = saw.done /\ (saw'.error => saw.error \/ f.type = "error")
    BY <1>0, <1>5, <1>9, <1>12, NotedIs DEF HasError
  <2> QED BY <1>1, <1>9, <1>10, <1>12, <2>1 DEF OpenAIEnds, Answered
<1> QED BY <1>11, <1>12

\* So do the ways out of the frame loop and the JSON bodies.
LEMMA OpenAIOtherEnds ==
  ASSUME OpenAIInv, OpenAIEnds, saw \in SawType, ToOpenAI, Broken \/ ClientGone \/ EndOfStream \/ JsonBody
  PROVE  OpenAIEnds'
<1>0. /\ Client = "openai" /\ NeedConvert /\ Upstream = "anthropic" /\ result = "none"
      /\ conv \in OConv /\ (frames = <<>> => conv.out = <<>>)
      /\ ~saw.done /\ (saw.error => conv.errored)
      /\ IF conv.errored THEN Failing(conv.out) ELSE Ongoing(conv.out)
  BY RouteFacts DEF OpenAIInv, OpenAIEnds, ToOpenAI, Speaking, Broken, ClientGone, EndOfStream, JsonBody
<1>2. ASSUME result' # "none", result' = "ok" => Complete(conv'.out), result' = "error" => ErrorTold(conv'.out)
      PROVE  OpenAIEnds'
  BY <1>2 DEF OpenAIEnds, Answered
<1>3. ASSUME conv' = Write(conv, <<ErrorEvent>>), result' = "error"
      PROVE  OpenAIEnds'
  <2>1. ErrorEvent \in [type : {"error", "[DONE]"}] /\ Seen(ErrorEvent) = "error"
    BY DEF ErrorEvent, Seen
  <2>2. ErrorTold(conv'.out)
    BY <1>0, <1>3, <2>1, OpenAITail, ErrorTells
  <2> QED BY <1>2, <1>3, <2>2
<1>4. CASE Broken
  BY <1>3, <1>4 DEF Broken, Return
<1>5. CASE ClientGone
  BY <1>2, <1>5 DEF ClientGone, Return
<1>6. CASE EndOfStream
  <2>1. /\ conv' = Write(conv, IF conv.errored THEN <<>> ELSE <<DoneEvent>>)
        /\ result' = IF conv.errored THEN "error" ELSE "ok"
    BY <1>0, <1>6 DEF EndOfStream, Return, Errored, Ending, Closed
  <2>2. CASE conv.errored
    <3>1. conv'.out = conv.out \o <<>>
      BY <1>0, <2>1, <2>2 DEF Write, OConv
    <3>2. conv.out \in Seq(OEvent)
      BY <1>0, OFields
    <3>3. conv'.out = conv.out
      BY <3>1, <3>2, ConcatEmptySeq
    <3> QED BY <1>0, <1>2, <2>1, <2>2, <3>3, OverTells
  <2>3. CASE ~conv.errored
    <3>1. DoneEvent \in [type : {"error", "[DONE]"}] /\ Seen(DoneEvent) \in Ends
      BY DEF DoneEvent, Seen, Ends
    <3>2. Complete(conv'.out)
      BY <1>0, <2>1, <2>3, <3>1, OpenAITail, OngoingNext
    <3> QED BY <1>2, <2>1, <2>3, <3>2
  <2> QED BY <2>2, <2>3
<1>7. CASE JsonBody
  <2>0. conv.out = <<>>
    BY <1>0, <1>7 DEF JsonBody
  <2>1. PICK body \in Bodies[Upstream], u \in BOOLEAN : BodyTo(body, u)
    BY <1>7 DEF JsonBody, BodyTo
  <2>2. CASE Garbage(body) \/ HasError(body[1])
    BY <1>0, <1>3, <2>1, <2>2 DEF Return, BodyTo
  <2>3. CASE ~Garbage(body) /\ ~HasError(body[1])
    <3> DEFINE w == Append(CompletionEvents(body), DoneEvent)
    <3>1. conv' = Write(conv, w) /\ result' \in {"ok", "error"}
      <4>1. Whole(body, u) = Write(conv, OpenAIBody(body, u))
        BY <1>0 DEF Whole
      <4>2. OpenAIBody(body, u) = w
        BY <1>0 DEF OpenAIBody
      <4> QED BY <2>1, <2>3, <4>1, <4>2 DEF Return, BodyTo
    <3>2. body \in Seq(O!Event)
      BY <1>0, <2>3, BodySpeaks DEF Garbage, HasError
    <3>3. PICK E : w \in Seq(E) /\ Complete(w)
      BY <3>2, CompletionFine
    <3> HIDE DEF w
    <3>4. conv'.out = conv.out \o w
      BY <1>0, <3>1 DEF Write, OConv
    <3>5. conv'.out = w
      BY <2>0, <3>3, <3>4, ConcatEmptySeq
    <3> QED BY <1>2, <3>1, <3>3, <3>5, OverTells
  <2> QED BY <2>2, <2>3
<1> QED BY <1>4, <1>5, <1>6, <1>7

\* Every step keeps the ends of an OpenAI client's converted answer
\* right.
LEMMA OpenAIEndsNext ==
  /\ Init => OpenAIEnds
  /\ OpenAIInv /\ saw \in SawType /\ OpenAIEnds /\ [Next]_vars => OpenAIEnds'
<1>1. Init => OpenAIEnds
  <2> SUFFICES ASSUME Init, ToOpenAI PROVE OpenAIEnds
    BY DEF OpenAIEnds
  <2>1. conv = O!NewConverter /\ saw = NothingSeen /\ result = "none"
    BY DEF Init, NewConverter, ToOpenAI
  <2>2. ~conv.errored /\ conv.out = <<>>
    BY <2>1 DEF O!NewConverter
  <2> QED BY <2>1, <2>2, NothingOngoing DEF OpenAIEnds, Answered, NothingSeen
<1>2. ASSUME OpenAIInv, saw \in SawType, OpenAIEnds, [Next]_vars
      PROVE  OpenAIEnds'
  <2>1. route' = route
    BY <1>2 DEF Next, Frame, EndOfStream, Broken, ClientGone, JsonBody, vars
  <2>2. CASE ~ToOpenAI
    BY <2>1, <2>2 DEF OpenAIEnds, ToOpenAI, NeedConvert, Client, Upstream
  <2>3. CASE ToOpenAI /\ UNCHANGED vars
    BY <1>2, <2>3 DEF vars, OpenAIEnds, Answered, ToOpenAI, NeedConvert, Client, Upstream
  <2> QED BY <1>2, <2>2, <2>3, OpenAIFrameEnds, OpenAIOtherEnds DEF Next
<1> QED BY <1>1, <1>2

-----------------------------------------------------------------------------
(* Streams forwarded as they come.                                         *)

LEMMA OngoingIs ==
  ASSUME NEW s
  PROVE  Ongoing(s) <=> EndsOf(s) = {} /\ ErrorsOf(s) = {}
  BY DEF Ongoing, Harmless, EndsOf, ErrorsOf

\* Where the ends and the errors are after one more event.
LEMMA PlacesNext ==
  ASSUME NEW s, NEW e, NEW t, OneMore(s, e, t)
  PROVE  /\ EndsOf(t) = IF Seen(e) \in Ends THEN EndsOf(s) \cup {Len(t)} ELSE EndsOf(s)
         /\ ErrorsOf(t) = IF Seen(e) = "error" THEN ErrorsOf(s) \cup {Len(t)} ELSE ErrorsOf(s)
<1>1. /\ \A p \in DOMAIN s : p \in DOMAIN t /\ t[p] = s[p]
      /\ \A p \in DOMAIN t : p \in DOMAIN s \/ p = Len(t)
      /\ Len(t) \in DOMAIN t /\ t[Len(t)] = e
      /\ Len(t) \notin DOMAIN s
  BY DEF OneMore
<1>2. EndsOf(t) = IF Seen(e) \in Ends THEN EndsOf(s) \cup {Len(t)} ELSE EndsOf(s)
  BY <1>1 DEF EndsOf
<1>3. ErrorsOf(t) = IF Seen(e) = "error" THEN ErrorsOf(s) \cup {Len(t)} ELSE ErrorsOf(s)
  BY <1>1 DEF ErrorsOf
<1> QED BY <1>2, <1>3

\* An ongoing answer followed by a complete one is complete.
LEMMA CompleteMore ==
  ASSUME NEW E, NEW s \in Seq(E), NEW w \in Seq(E), Ongoing(s), Complete(w)
  PROVE  Complete(s \o w)
<1> DEFINE t == s \o w
<1>1. /\ Len(t) = Len(s) + Len(w) /\ Len(s) \in Nat /\ Len(w) \in Nat
      /\ DOMAIN s = 1 .. Len(s) /\ DOMAIN t = 1 .. Len(t) /\ DOMAIN w = 1 .. Len(w)
      /\ \A p \in DOMAIN s : p \in DOMAIN t /\ t[p] = s[p] /\ p <= Len(s) /\ p \in Nat
      /\ \A p \in DOMAIN t : p \in DOMAIN s \/ (/\ p > Len(s) /\ p \in Nat /\ p - Len(s) \in DOMAIN w
                                                /\ t[p] = w[p - Len(s)])
      /\ \A j \in DOMAIN w : Len(s) + j \in DOMAIN t /\ t[Len(s) + j] = w[j]
  BY Longer
<1> HIDE DEF t
<1>2. \A p \in DOMAIN s : Seen(s[p]) \notin Ends /\ Seen(s[p]) # "error"
  BY DEF Ongoing, Harmless
<1>3. /\ \A p \in DOMAIN w : Seen(w[p]) \in Ends <=> p = Len(w)
      /\ \A p \in DOMAIN w : Seen(w[p]) # "error"
      /\ Len(w) \in DOMAIN w
  BY DEF Complete, EndsOf, ErrorsOf
<1>4. EndsOf(t) = {Len(t)}
  <2>1. Len(t) \in DOMAIN t /\ Seen(t[Len(t)]) \in Ends
    BY <1>1, <1>3
  <2>2. ASSUME NEW p \in DOMAIN t, Seen(t[p]) \in Ends
        PROVE  p = Len(t)
    <3>1. p - Len(s) \in DOMAIN w /\ t[p] = w[p - Len(s)]
      BY <1>1, <1>2, <2>2
    <3>2. p - Len(s) = Len(w)
      BY <1>3, <2>2, <3>1
    <3> QED BY <1>1, <3>2
  <2> QED BY <2>1, <2>2 DEF EndsOf
<1>5. ErrorsOf(t) = {}
  <2> SUFFICES ASSUME NEW p \in DOMAIN t
               PROVE  Seen(t[p]) # "error"
    BY DEF ErrorsOf
  <2>1. CASE p \in DOMAIN s /\ t[p] = s[p]
    BY <1>2, <2>1
  <2>2. CASE p - Len(s) \in DOMAIN w /\ t[p] = w[p - Len(s)]
    BY <1>3, <2>2
  <2> QED BY <1>1, <2>1, <2>2
<1>6. Complete(t)
  BY <1>4, <1>5 DEF Complete
<1> QED BY <1>6 DEF t

\* One end after at most three harmless events is a complete answer.
LEMMA CompleteOnes ==
  ASSUME NEW e, Seen(e) \in Ends
  PROVE  /\ Complete(<<e>>)
         /\ \A a : Harmless(a) => Complete(<<a, e>>)
         /\ \A a, b : Harmless(a) /\ Harmless(b) => Complete(<<a, b, e>>)
         /\ \A a, b, c : Harmless(a) /\ Harmless(b) /\ Harmless(c) => Complete(<<a, b, c, e>>)
<1>0. "error" \notin Ends
  BY DEF Ends
<1> HIDE DEF Ends
<1>1. Complete(<<e>>)
  BY <1>0 DEF Complete, EndsOf, ErrorsOf
<1>2. ASSUME NEW a, Harmless(a)
      PROVE  Complete(<<a, e>>)
  <2> DEFINE s == <<a, e>>
  <2>1. DOMAIN s = {1, 2} /\ s[1] = a /\ s[2] = e /\ Len(s) = 2
    OBVIOUS
  <2> HIDE DEF s
  <2>2. Complete(s)
    BY <1>0, <1>2, <2>1 DEF Complete, EndsOf, ErrorsOf, Harmless
  <2> QED BY <2>2 DEF s
<1>3. ASSUME NEW a, NEW b, Harmless(a), Harmless(b)
      PROVE  Complete(<<a, b, e>>)
  <2> DEFINE s == <<a, b, e>>
  <2>1. DOMAIN s = {1, 2, 3} /\ s[1] = a /\ s[2] = b /\ s[3] = e /\ Len(s) = 3
    OBVIOUS
  <2> HIDE DEF s
  <2>2. Complete(s)
    BY <1>0, <1>3, <2>1 DEF Complete, EndsOf, ErrorsOf, Harmless
  <2> QED BY <2>2 DEF s
<1>4. ASSUME NEW a, NEW b, NEW c, Harmless(a), Harmless(b), Harmless(c)
      PROVE  Complete(<<a, b, c, e>>)
  <2> DEFINE s == <<a, b, c, e>>
  <2>1. DOMAIN s = {1, 2, 3, 4} /\ s[1] = a /\ s[2] = b /\ s[3] = c /\ s[4] = e /\ Len(s) = 4
    OBVIOUS
  <2> HIDE DEF s
  <2>2. Complete(s)
    BY <1>0, <1>4, <2>1 DEF Complete, EndsOf, ErrorsOf, Harmless
  <2> QED BY <2>2 DEF s
<1> QED BY <1>1, <1>2, <1>3, <1>4

\* What the relay itself writes at the end of a stream.
LEMMA OwnEvents ==
  /\ Seen(DoneEvent) \in Ends /\ Seen(ErrorEvent) = "error" /\ Seen(CompletedEvent) \in Ends
  /\ \A reason, n : \E a, e : AnthropicEnd(reason, n) = <<a, e>> /\ Harmless(a) /\ Seen(e) \in Ends
  /\ Seen([type |-> "message_stop"]) \in Ends
<1>1. Seen(DoneEvent) \in Ends /\ Seen(ErrorEvent) = "error" /\ Seen(CompletedEvent) \in Ends
  BY DEF DoneEvent, ErrorEvent, CompletedEvent, Seen, Ends
<1>2. Seen([type |-> "message_stop"]) \in Ends
  BY DEF Seen, Ends
<1>3. ASSUME NEW reason, NEW n
      PROVE  \E a, e : AnthropicEnd(reason, n) = <<a, e>> /\ Harmless(a) /\ Seen(e) \in Ends
  <2> DEFINE d == [type |-> "message_delta", reason |-> reason, tokens |-> n]
             m == [type |-> "message_stop"]
  <2>1. Harmless(d)
    BY DEF Harmless, Seen, Ends
  <2>2. AnthropicEnd(reason, n) = <<d, m>>
    BY DEF AnthropicEnd
  <2> HIDE DEF d
  <2> QED BY <1>2, <2>1, <2>2
<1> QED BY <1>1, <1>2, <1>3

\* A forwarded answer starts empty.
LEMMA NativeInit == Init => NativeEnds
<1> SUFFICES ASSUME Init, ToSame
             PROVE  NativeEnds
  BY DEF NativeEnds
<1>1. conv = O!NewConverter
  BY DEF Init, NewConverter, ToSame
<1>2. conv.out = <<>> /\ conv \in NConv
  <2>1. conv.out = <<>> /\ conv = [toolIndexes |-> <<>>, errored |-> FALSE, started |-> FALSE, out |-> <<>>]
    BY <1>1 DEF O!NewConverter
  <2> HIDE DEF NEvent
  <2> QED BY <2>1 DEF NConv
<1>3. EndsOf(conv.out) = {} /\ ErrorsOf(conv.out) = {}
  BY <1>2 DEF EndsOf, ErrorsOf
<1>4. ~saw.error /\ ~saw.done /\ ~saw.stop /\ ~saw.terminal /\ frames = <<>> /\ result = "none"
  BY DEF Init, NothingSeen
<1>5. frames \in Seq(Frames[Upstream])
  BY <1>4
<1> QED BY <1>2, <1>3, <1>4, <1>5 DEF NativeEnds, Relaying

\* What the forwarding routes use of their record.
LEMMA NFields ==
  ASSUME NEW c \in NConv
  PROVE  c.out \in Seq(NEvent) /\ ~c.errored /\ ~c.started
<1> HIDE DEF NEvent
<1> QED BY Zenon DEF NConv

\* Writing appends.
LEMMA NWrite ==
  ASSUME NEW c \in NConv, NEW w
  PROVE  Write(c, w).out = c.out \o w
<1> HIDE DEF NEvent
<1> DEFINE o == c.out \o w
<1>1. Write(c, w) = [c EXCEPT !.out = o]
  BY DEF Write
<1> HIDE DEF o
<1>2. Write(c, w).out = o
  BY <1>1 DEF NConv
<1> QED BY <1>2 DEF o

\* One event written is one event more.
LEMMA NWriteOne ==
  ASSUME NEW c \in NConv, NEW e
  PROVE  /\ OneMore(c.out, e, Write(c, <<e>>).out)
         /\ e \in NEvent => Write(c, <<e>>) \in NConv
<1> DEFINE E == NEvent \cup {e}
           o == c.out \o <<e>>
<1>1. NEvent \subseteq E /\ e \in E
  OBVIOUS
<1> HIDE DEF E, NEvent
<1>2. c.out \in Seq(E)
  BY <1>1, NFields, SeqMonotonic
<1>3. OneMore(c.out, e, o)
  BY <1>1, <1>2, OneMoreIs
<1>4. Write(c, <<e>>).out = o
  BY NWrite, Zenon
<1>5. ASSUME e \in NEvent
      PROVE  Write(c, <<e>>) \in NConv
  <2>1. o \in Seq(NEvent)
    BY <1>5, NFields, OneMoreIs
  <2>2. Write(c, <<e>>) = [c EXCEPT !.out = o]
    BY DEF Write
  <2> HIDE DEF o
  <2> QED BY <2>1, <2>2, Zenon DEF NConv
<1> HIDE DEF o
<1> QED BY <1>3, <1>4, <1>5

\* A complete answer written after an ongoing one completes it.
LEMMA NWriteTwo ==
  ASSUME NEW c \in NConv, Ongoing(c.out), NEW w, w # <<>>, \E E : w \in Seq(E), Complete(w)
  PROVE  Complete(Write(c, w).out)
<1>1. PICK E : w \in Seq(E)
  OBVIOUS
<1> DEFINE D == NEvent \cup E
<1>2. NEvent \subseteq D /\ E \subseteq D
  OBVIOUS
<1> HIDE DEF D, NEvent
<1>3. c.out \in Seq(D)
  BY <1>2, NFields, SeqMonotonic
<1>4. w \in Seq(D)
  BY <1>1, <1>2, SeqMonotonic
<1>5. Complete(c.out \o w)
  BY <1>3, <1>4, CompleteMore
<1> QED BY <1>5, NWrite, Zenon

\* A forwarding route has one format.
LEMMA SameFacts ==
  ASSUME route \in Routes, ToSame
  PROVE  Client \in Formats /\ Upstream = Client
  BY StreamAssumption DEF ToSame, NeedConvert, Client, Upstream, Formats

\* A frame more was said.
LEMMA SaidMore ==
  ASSUME NEW E, frames \in Seq(E), NEW f \in E, frames' = Append(frames, f)
  PROVE  frames' # <<>> /\ \E j \in DOMAIN frames' : frames'[j].type = f.type
<1>1. Len(frames') = Len(frames) + 1 /\ Len(frames) \in Nat /\ frames' \in Seq(E)
  OBVIOUS
<1>2. Len(frames') \in DOMAIN frames' /\ frames'[Len(frames')] = f
  BY <1>1
<1> QED BY <1>1, <1>2

\* What frames a client without conversion may be forwarded.
LEMMA ForwardEnds ==
  ASSUME route \in Routes, ToSame, saw \in SawType, NEW f \in Frames[Upstream], f.type # "[DONE]",
         NEW e, e = [type |-> "frame", frame |-> f],
         NEW s, s = IF f.type = "malformed" THEN saw ELSE Noted(f)
  PROVE  /\ e \in NEvent /\ e.type = "frame"
         /\ Seen(e) = "error" => s.error
         /\ s.error => saw.error \/ Seen(e) = "error" \/ Seen(e) \in Ends
         /\ Seen(e) \in Ends => /\ Seen(e) = f.type /\ f.type \in LastFrames
                                /\ CASE Client = "openai" -> FALSE
                                     [] Client = "anthropic" -> s.stop
                                     [] OTHER -> s.native
         /\ s.done = saw.done
         /\ (saw.stop => s.stop) /\ (saw.native => s.native) /\ (saw.error => s.error)
         /\ s.stop => saw.stop \/ Seen(e) \in Ends
         /\ s.terminal => saw.terminal \/ s.native
<1>1. Client \in Formats /\ Upstream = Client
  BY SameFacts
<1>2. e \in NEvent
  BY <1>1 DEF NEvent, FrameEvent
<1>3. e.type = "frame" /\ Seen(e) = IF HasError(f) THEN "error" ELSE f.type
  BY DEF Seen
<1>4. /\ s.done = saw.done
      /\ s.stop => saw.stop \/ (Client = "anthropic" /\ f.type = "message_stop")
      /\ s.terminal => saw.terminal \/ s.native
      /\ (saw.stop => s.stop) /\ (saw.native => s.native) /\ (saw.error => s.error)
  <2>1. CASE f.type = "malformed"
    BY <2>1
  <2>2. CASE f.type # "malformed"
    <3>1. s = Noted(f)
      BY <2>2
    <3>2. /\ Noted(f).done = saw.done
          /\ Noted(f).stop <=> saw.stop \/ (Client = "anthropic" /\ f.type = "message_stop")
          /\ Noted(f).terminal <=> saw.terminal \/ (Client = "responses" /\ f.type \in
                                     {"response.completed", "response.incomplete"})
          /\ Noted(f).native <=> saw.native \/ (Client = "responses" /\ f.type \in
                                   {"response.created", "response.output_text.delta", "response.completed",
                                    "response.incomplete", "response.failed"})
          /\ Noted(f).error <=> saw.error \/ HasError(f) \/ (Client = "responses" /\ f.type = "response.failed")
      BY NotedIs
    <3> QED BY <3>1, <3>2
  <2> QED BY <2>1, <2>2
<1>5. HasError(f) => s.error
  <2>1. HasError(f) => f.type # "malformed"
    BY DEF HasError
  <2>2. HasError(f) => Noted(f).error
    BY NotedIs
  <2> QED BY <2>1, <2>2
<1>6. s.error => saw.error \/ HasError(f) \/ f.type = "response.failed"
  BY NotedIs
<1>7. f.type = "response.failed" => ~HasError(f)
  BY DEF HasError
<1>8. f.type \in Ends => /\ f.type \in LastFrames
                         /\ CASE Client = "openai" -> FALSE
                              [] Client = "anthropic" -> s.stop
                              [] OTHER -> s.native
  <2> SUFFICES ASSUME f.type \in Ends
               PROVE  /\ f.type \in LastFrames
                      /\ CASE Client = "openai" -> FALSE
                           [] Client = "anthropic" -> s.stop
                           [] OTHER -> s.native
    OBVIOUS
  <2>1. f.type \in LastFrames /\ f.type # "malformed" /\ s = Noted(f)
    BY DEF Ends, LastFrames
  <2>2. CASE Client = "openai"
    <3>1. f.type = "malformed" \/ f \in A!Chunk
      BY <1>1, <2>2, FrameAssumption
    <3> QED BY <3>1 DEF A!Chunk, Ends
  <2>3. CASE Client = "anthropic"
    <3>1. f.type = "malformed" \/ f \in O!Event
      BY <1>1, <2>3, FrameAssumption
    <3>2. f.type = "message_stop"
      BY <3>1 DEF O!Event, Ends
    <3> QED BY <2>1, <2>3, <3>2, NotedIs
  <2>4. CASE Client = "responses"
    <3>1. f.type # "message_stop"
      BY <1>1, <2>4, FrameAssumption
    <3>2. f.type \in {"response.completed", "response.incomplete", "response.failed"}
      BY <3>1 DEF Ends
    <3>3. s.native
      BY <2>1, <2>4, <3>2, NotedIs
    <3> QED BY <2>1, <2>4, <3>3
  <2> QED BY <1>1, <2>2, <2>3, <2>4 DEF Formats
<1>9. "error" \notin Ends /\ "response.failed" \in Ends /\ "message_stop" \in Ends
  BY DEF Ends
<1>10. Client = "anthropic" /\ f.type = "message_stop" => ~HasError(f)
  BY DEF HasError
<1>11. (Seen(e) = "error" => s.error) /\ (s.error => saw.error \/ Seen(e) = "error" \/ Seen(e) \in Ends)
  <2>1. f.type = "error" => HasError(f)
    BY DEF HasError
  <2> QED BY <1>3, <1>5, <1>6, <1>7, <1>9, <2>1
<1>12. Seen(e) \in Ends => Seen(e) = f.type /\ f.type \in Ends
  <2> QED BY <1>3, <1>9
<1>13. s.stop => saw.stop \/ Seen(e) \in Ends
  <2> QED BY <1>3, <1>4, <1>9, <1>10
<1> HIDE DEF NEvent
<1> QED BY <1>2, <1>3, <1>4, <1>8, <1>11, <1>12, <1>13

\* A forwarded frame keeps the ends right.
LEMMA NativeFrame ==
  ASSUME route \in Routes, NativeEnds, saw \in SawType, ToSame, Frame
  PROVE  NativeEnds'
<1>0. /\ result = "none" /\ Relaying
      /\ \A j \in EndsOf(conv.out) : conv.out[j].type = "frame" \/ saw.done
      /\ route' = route /\ ~NeedConvert
  BY DEF NativeEnds, Frame, ToSame
<1>c. Client' = Client /\ Upstream' = Upstream /\ ToSame'
  BY <1>0 DEF Client, Upstream, ToSame, NeedConvert
<1>1. /\ conv \in NConv /\ frames \in Seq(Frames[Upstream])
      /\ conv.out \in Seq(NEvent)
  BY <1>0, NFields DEF Relaying
<1>2. PICK f \in Frames[Upstream] : Follows(f) /\ frames' = Append(frames, f) /\ (Sentinel(f) \/ Payload(f))
  BY DEF Frame
<1>3. EndsOf(conv.out) = {}
  <2>1. \A t \in LastFrames : ~Said(t)
    BY <1>2 DEF Follows
  <2> QED BY <1>0, <2>1 DEF Relaying
<1>4. /\ frames' \in Seq(Frames[Upstream]) /\ frames' # <<>>
      /\ \E j \in DOMAIN frames' : frames'[j].type = f.type
  BY <1>1, <1>2, SaidMore
<1>5. Client \in Formats /\ Upstream = Client
  BY <1>0, SameFacts
<1>6. CASE Sentinel(f)
  <2> DEFINE d == saw.done \/ Client = "openai"
  <2>1. d \in BOOLEAN /\ saw' = [saw EXCEPT !.done = d] /\ result' = "none" /\ f.type = "[DONE]"
        /\ conv' = IF Client = "openai" THEN Write(conv, <<DoneEvent>>) ELSE conv
    BY <1>0, <1>6 DEF Sentinel, SawType
  <2>2. /\ saw'.done = d /\ saw'.error = saw.error /\ saw'.stop = saw.stop
        /\ saw'.native = saw.native /\ saw'.terminal = saw.terminal
    <3> HIDE DEF d
    <3> QED BY <2>1 DEF SawType
  <2>3. CASE Client = "openai"
    <3>1. DoneEvent \in NEvent
      BY DEF DoneEvent, NEvent
    <3>2. OneMore(conv.out, DoneEvent, conv'.out) /\ conv' \in NConv
      BY <1>1, <2>1, <2>3, <3>1, NWriteOne
    <3>3. EndsOf(conv'.out) = {Len(conv'.out)} /\ ErrorsOf(conv'.out) = ErrorsOf(conv.out)
      <4>1. Seen(DoneEvent) \in Ends /\ Seen(DoneEvent) # "error"
        BY DEF Seen, DoneEvent, Ends
      <4> QED BY <1>3, <3>2, <4>1, PlacesNext
    <3>4. saw'.done
      BY <2>2, <2>3, Zenon
    <3>5. \E t \in LastFrames : Said(t)'
      BY <1>4, <2>1 DEF LastFrames, Said
    <3>6. Relaying'
      BY <1>0, <1>c, <1>4, <2>2, <2>3, <3>2, <3>3, <3>4, <3>5, Zenon DEF Relaying
    <3> QED BY <2>1, <3>4, <3>6 DEF NativeEnds
  <2>4. CASE Client # "openai"
    <3>1. conv' = conv /\ saw'.done = saw.done
      BY <2>1, <2>2, <2>4 DEF SawType
    <3>2. Relaying'
      BY <1>0, <1>c, <1>3, <1>4, <2>2, <2>4, <3>1 DEF Relaying
    <3> QED BY <1>3, <2>1, <3>1, <3>2 DEF NativeEnds
  <2> QED BY <2>3, <2>4
<1>7. CASE Payload(f)
  <2> DEFINE e == [type |-> "frame", frame |-> f]
             s == IF f.type = "malformed" THEN saw ELSE Noted(f)
  <2>1. saw' = s /\ conv' = Write(conv, <<e>>) /\ result' = "none" /\ f.type # "[DONE]"
    BY <1>0, <1>7 DEF Payload, Convert
  <2>2. /\ e \in NEvent /\ e.type = "frame"
        /\ Seen(e) = "error" => s.error
        /\ s.error => saw.error \/ Seen(e) = "error" \/ Seen(e) \in Ends
        /\ Seen(e) \in Ends => /\ Seen(e) = f.type /\ f.type \in LastFrames
                               /\ CASE Client = "openai" -> FALSE
                                    [] Client = "anthropic" -> s.stop
                                    [] OTHER -> s.native
        /\ s.done = saw.done
        /\ (saw.stop => s.stop) /\ (saw.native => s.native) /\ (saw.error => s.error)
        /\ s.stop => saw.stop \/ Seen(e) \in Ends
        /\ s.terminal => saw.terminal \/ s.native
    BY <2>1, ForwardEnds
  <2> HIDE DEF e, s
  <2>3. OneMore(conv.out, e, conv'.out) /\ conv' \in NConv
    BY <1>1, <2>1, <2>2, NWriteOne
  <2>4. /\ EndsOf(conv'.out) = IF Seen(e) \in Ends THEN {Len(conv'.out)} ELSE {}
        /\ ErrorsOf(conv'.out) = IF Seen(e) = "error" THEN ErrorsOf(conv.out) \cup {Len(conv'.out)} ELSE ErrorsOf(conv.out)
        /\ conv'.out[Len(conv'.out)] = e
    <3>1. /\ EndsOf(conv'.out) = IF Seen(e) \in Ends THEN EndsOf(conv.out) \cup {Len(conv'.out)} ELSE EndsOf(conv.out)
          /\ ErrorsOf(conv'.out) = IF Seen(e) = "error" THEN ErrorsOf(conv.out) \cup {Len(conv'.out)} ELSE ErrorsOf(conv.out)
      BY <2>3, PlacesNext, Zenon
    <3>2. conv'.out[Len(conv'.out)] = e
      BY <2>3 DEF OneMore
    <3> QED BY <1>3, <3>1, <3>2
  <2>5. Seen(e) \in Ends => \E t \in LastFrames : Said(t)'
    BY <1>4, <2>2 DEF Said
  <2>6. /\ ErrorsOf(conv'.out) # {} => saw'.error
        /\ saw'.error => ErrorsOf(conv'.out) \cup EndsOf(conv'.out) # {}
    BY <1>0, <1>3, <2>1, <2>2, <2>4, Zenon DEF Relaying
  <2>7. EndsOf(conv'.out) # {} =>
          CASE Client = "openai" -> saw'.done
            [] Client = "anthropic" -> saw'.stop
            [] OTHER -> saw'.native
    BY <2>1, <2>2, <2>4
  <2>8. /\ Client = "openai" => ~saw'.done
        /\ Client = "anthropic" /\ saw'.stop => EndsOf(conv'.out) # {}
        /\ saw'.terminal => saw'.native
    BY <1>0, <1>3, <2>1, <2>2, <2>4, Zenon DEF Relaying
  <2>9. Relaying'
    BY <1>c, <1>4, <2>3, <2>4, <2>5, <2>6, <2>7, <2>8 DEF Relaying
  <2> QED BY <2>1, <2>2, <2>4, <2>9 DEF NativeEnds
<1> QED BY <1>2, <1>6, <1>7

\* An error written after a forwarded answer is the last thing the client
\* hears.
LEMMA NativeErrorEnds ==
  ASSUME NativeEnds, ToSame, UNCHANGED <<route, saw.done>>, result = "none", result' = "error",
         conv' = Write(conv, <<ErrorEvent>>)
  PROVE  NativeEnds'
<1>1. /\ conv \in NConv
      /\ \A j \in EndsOf(conv.out) : conv.out[j].type = "frame" \/ saw.done
  BY DEF NativeEnds, Relaying
<1>2. OneMore(conv.out, ErrorEvent, conv'.out)
  BY <1>1, NWriteOne
<1>3. Seen(ErrorEvent) = "error" /\ "error" \notin Ends
  BY DEF ErrorEvent, Seen, Ends
<1>4. EndsOf(conv'.out) = EndsOf(conv.out) /\ ErrorsOf(conv'.out) # {}
  <2>1. /\ EndsOf(conv'.out) = IF Seen(ErrorEvent) \in Ends THEN EndsOf(conv.out) \cup {Len(conv'.out)} ELSE EndsOf(conv.out)
        /\ ErrorsOf(conv'.out) = IF Seen(ErrorEvent) = "error" THEN ErrorsOf(conv.out) \cup {Len(conv'.out)} ELSE ErrorsOf(conv.out)
    BY <1>2, PlacesNext, Zenon
  <2> QED BY <1>3, <2>1, Zenon
<1>5. \A j \in EndsOf(conv.out) : conv'.out[j] = conv.out[j]
  BY <1>2 DEF OneMore, EndsOf
<1> QED BY <1>1, <1>4, <1>5 DEF NativeEnds

\* What finishStream adds to a forwarded answer gives it its one end, or
\* an error.
LEMMA NativeStreamEnds ==
  ASSUME route \in Routes, NativeEnds, saw \in SawType, ToSame, EndOfStream
  PROVE  NativeEnds'
<1>0. /\ result = "none" /\ Relaying
      /\ \A j \in EndsOf(conv.out) : conv.out[j].type = "frame" \/ saw.done
      /\ route' = route /\ saw' = saw /\ ~NeedConvert
  BY DEF NativeEnds, EndOfStream, ToSame
<1>c. Client' = Client /\ ToSame'
  BY <1>0 DEF Client, Upstream, ToSame, NeedConvert
<1>1. /\ conv \in NConv /\ conv.out \in Seq(NEvent) /\ ~conv.started
  BY <1>0, NFields DEF Relaying
<1>2. Closed = conv /\ ~Errored
  BY <1>0 DEF Closed, Errored
<1>3. conv' = Write(conv, Ending) /\ result' = IF saw.error THEN "error" ELSE "ok"
  BY <1>2 DEF EndOfStream, Return
<1>4. Client \in Formats
  BY SameFacts
<1>5. Ending = <<>> => conv'.out = conv.out
  <2>1. conv.out \o <<>> = conv.out
    <3> HIDE DEF NEvent
    <3> QED BY <1>1, ConcatEmptySeq
  <2> QED BY <1>1, <1>3, <2>1, NWrite, Zenon
<1>6. CASE saw.error
  <2>1. Ending = <<>>
    BY <1>4, <1>6 DEF Ending, Formats
  <2>2. ErrorsOf(conv.out) \cup EndsOf(conv.out) # {}
    BY <1>0, <1>6 DEF Relaying
  <2> QED BY <1>0, <1>3, <1>5, <1>6, <2>1, <2>2 DEF NativeEnds
<1>7. CASE ~saw.error
  <2>1. ErrorsOf(conv.out) = {}
    BY <1>0, <1>7 DEF Relaying
  <2>2. EndsOf(conv.out) = {} \/ EndsOf(conv.out) = {Len(conv.out)}
    BY <1>0 DEF Relaying
  <2>3. ASSUME EndsOf(conv.out) # {}
        PROVE  Complete(conv.out)
    BY <2>1, <2>2, <2>3 DEF Complete
  <2>4. ASSUME EndsOf(conv.out) = {}
        PROVE  Ongoing(conv.out)
    BY <2>1, <2>4, OngoingIs
  <2>5. ASSUME NEW e, Seen(e) \in Ends, Ongoing(conv.out), Ending = <<e>>
        PROVE  Complete(conv'.out)
    <3>1. OneMore(conv.out, e, conv'.out)
      BY <1>1, <1>3, <2>5, NWriteOne
    <3> QED BY <2>5, <3>1, OngoingNext
  <2>6. \/ Complete(conv'.out)
        \/ Client = "responses" /\ saw.native /\ Ongoing(conv'.out)
    <3>1. CASE Client = "openai"
      <4>1. CASE saw.done
        <5>1. Ending = <<>>
          BY <3>1, <4>1 DEF Ending
        <5>2. EndsOf(conv.out) # {}
          BY <1>0, <3>1, <4>1 DEF Relaying
        <5> QED BY <1>5, <2>3, <5>1, <5>2
      <4>2. CASE ~saw.done
        <5>1. Ending = <<DoneEvent>>
          BY <1>2, <1>7, <3>1, <4>2 DEF Ending
        <5>2. EndsOf(conv.out) = {}
          BY <1>0, <3>1, <4>2 DEF Relaying
        <5> QED BY <2>4, <2>5, <5>1, <5>2, OwnEvents
      <4> QED BY <4>1, <4>2
    <3>2. CASE Client = "anthropic"
      <4>1. CASE saw.stop
        <5>1. Ending = <<>>
          BY <3>2, <4>1 DEF Ending
        <5>2. EndsOf(conv.out) # {}
          BY <1>0, <3>2, <4>1 DEF Relaying
        <5> QED BY <1>5, <2>3, <5>1, <5>2
      <4>2. CASE ~saw.stop
        <5>2. EndsOf(conv.out) = {}
          BY <1>0, <3>2, <4>2 DEF Relaying
        <5>3. CASE saw.delta
          <6>1. Ending = <<[type |-> "message_stop"]>>
            BY <1>0, <1>7, <3>2, <4>2, <5>3 DEF Ending
          <6> QED BY <2>4, <2>5, <5>2, <6>1, OwnEvents
        <5>4. CASE ~saw.delta
          <6>1. Ending = AnthropicEnd("end_turn", 0)
            BY <1>0, <1>7, <3>2, <4>2, <5>4 DEF Ending
          <6>2. PICK a, e : AnthropicEnd("end_turn", 0) = <<a, e>> /\ Harmless(a) /\ Seen(e) \in Ends
            BY OwnEvents
          <6> DEFINE w == <<a, e>>
          <6>3. w \in Seq({a, e}) /\ w # <<>> /\ Complete(w)
            <7>1. w \in Seq({a, e}) /\ w # <<>>
              OBVIOUS
            <7>2. Complete(<<a, e>>)
              BY <6>2, CompleteOnes, Zenon
            <7> QED BY <7>1, <7>2
          <6> HIDE DEF w
          <6>4. Complete(Write(conv, w).out)
            BY <1>1, <2>4, <5>2, <6>3, NWriteTwo
          <6>5. conv' = Write(conv, w)
            BY <1>3, <6>1, <6>2 DEF w
          <6> QED BY <6>4, <6>5
        <5> QED BY <5>3, <5>4
      <4> QED BY <4>1, <4>2
    <3>3. CASE Client = "responses"
      <4>1. CASE saw.native
        <5>1. Ending = <<>>
          BY <3>3, <4>1 DEF Ending
        <5> QED BY <1>5, <2>3, <2>4, <3>3, <4>1, <5>1
      <4>2. CASE ~saw.native
        <5>1. ~saw.terminal /\ EndsOf(conv.out) = {}
          BY <1>0, <3>3, <4>2 DEF Relaying
        <5>2. Ending = <<CompletedEvent>>
          BY <1>1, <1>7, <3>3, <4>2, <5>1 DEF Ending
        <5> QED BY <2>4, <2>5, <5>1, <5>2, OwnEvents
      <4> QED BY <4>1, <4>2
    <3> QED BY <1>4, <3>1, <3>2, <3>3 DEF Formats
  <2> QED BY <1>0, <1>c, <1>3, <1>7, <2>6 DEF NativeEnds
<1> QED BY <1>6, <1>7

\* A frame that is neither an end nor an error is harmless.
LEMMA ForwardHarmless ==
  ASSUME NEW f, ~HasError(f), f.type \notin Ends
  PROVE  Harmless([type |-> "frame", frame |-> f])
<1> DEFINE e == [type |-> "frame", frame |-> f]
<1>1. Seen(e) = f.type
  BY DEF Seen
<1>2. f.type # "error"
  BY DEF HasError
<1> HIDE DEF e
<1>3. Harmless(e)
  BY <1>1, <1>2 DEF Harmless
<1> QED BY <1>3 DEF e

\* Two sequences of one element make a pair.
LEMMA Paired ==
  ASSUME NEW y, NEW z
  PROVE  <<y>> \o <<z>> = <<y, z>>
<1> DEFINE E == {y, z}
           v == <<y, z>>
           t == <<y>> \o <<z>>
<1>1. <<y>> \in Seq(E) /\ <<z>> \in Seq(E)
  OBVIOUS
<1>2. v \in Seq(E) /\ Len(v) = 2 /\ v[1] = y /\ v[2] = z
  OBVIOUS
<1>3. t \in Seq(E) /\ Len(t) = 2 /\ t[1] = y /\ t[2] = z
  BY <1>1
<1> HIDE DEF v, E, t
<1>4. \A i \in 1 .. 2 : t[i] = v[i]
  <2>1. \A i \in 1 .. 2 : i = 1 \/ i = 2
    OBVIOUS
  <2> QED BY <1>2, <1>3, <2>1
<1>5. t = v
  BY <1>2, <1>3, <1>4, SeqEqual
<1> QED BY <1>5 DEF t, v

\* The short sequences JSON bodies are turned into.
LEMMA Joined ==
  ASSUME NEW x, NEW y, NEW z
  PROVE  /\ <<x>> \o <<y>> \o <<z>> = <<x, y, z>> /\ <<x>> \o <<>> \o <<z>> = <<x, z>>
         /\ <<x>> \o <<y, z>> = <<x, y, z>>
         /\ <<x, y, z>> \in Seq({x, y, z}) /\ <<x, y, z>> # <<>>
         /\ <<x, z>> \in Seq({x, z}) /\ <<x, z>> # <<>>
<1> DEFINE E == {x, y, z}
           v == <<x, y, z>>
<1>1. /\ <<x>> \in Seq(E) /\ <<y>> \in Seq(E) /\ <<z>> \in Seq(E) /\ <<>> \in Seq(E)
      /\ <<y, z>> \in Seq(E) /\ <<x, z>> \in Seq(E) /\ v \in Seq(E)
  OBVIOUS
<1>2. Len(v) = 3 /\ v[1] = x /\ v[2] = y /\ v[3] = z
  OBVIOUS
<1>3. ASSUME NEW t \in Seq(E), Len(t) = 3, t[1] = x, t[2] = y, t[3] = z
      PROVE  t = v
  <2> HIDE DEF v, E
  <2>1. \A i \in 1 .. 3 : i = 1 \/ i = 2 \/ i = 3
    OBVIOUS
  <2>2. \A i \in 1 .. 3 : t[i] = v[i]
    BY <1>2, <1>3, <2>1
  <2> QED BY <1>1, <1>2, <1>3, <2>2, SeqEqual
<1>4. <<y>> \o <<z>> = <<y, z>>
  BY Paired
<1>5. <<x>> \o <<y, z>> = v
  <2> DEFINE t == <<x>> \o <<y, z>>
  <2>1. t \in Seq(E) /\ Len(t) = 3 /\ t[1] = x /\ t[2] = y /\ t[3] = z
    BY <1>1
  <2> HIDE DEF t, E, v
  <2>2. t = v
    BY <1>3, <2>1
  <2> QED BY <2>2 DEF t
<1>6. <<x>> \o <<y>> \o <<z>> = v
  <2>1. <<x>> \o <<y>> \o <<z>> = <<x>> \o (<<y>> \o <<z>>)
    <3> HIDE DEF E
    <3> QED BY <1>1, ConcatAssociative
  <2> HIDE DEF v, E
  <2> QED BY <1>4, <1>5, <2>1, Zenon
<1>7. <<x>> \o <<>> \o <<z>> = <<x, z>>
  <2>1. <<x>> \o <<>> = <<x>>
    BY <1>1, ConcatEmptySeq
  <2>2. <<x>> \o <<z>> = <<x, z>>
    BY Paired
  <2> QED BY <2>1, <2>2, Zenon
<1>8. /\ v \in Seq({x, y, z}) /\ v # <<>>
      /\ <<x, z>> \in Seq({x, z}) /\ <<x, z>> # <<>>
  OBVIOUS
<1> QED BY <1>5, <1>6, <1>7, <1>8, Zenon DEF v

\* One harmless event before an Anthropic end.
LEMMA AnthropicEndAfter ==
  ASSUME NEW m, Harmless(m), NEW reason, NEW n
  PROVE  LET w == <<m>> \o AnthropicEnd(reason, n) IN w # <<>> /\ (\E E : w \in Seq(E)) /\ Complete(w)
<1>1. PICK a, e : AnthropicEnd(reason, n) = <<a, e>> /\ Harmless(a) /\ Seen(e) \in Ends
  BY OwnEvents
<1> DEFINE w == <<m, a, e>>
<1>2. <<m>> \o AnthropicEnd(reason, n) = w
  <2>1. <<m>> \o <<a, e>> = w
    BY Joined, Zenon
  <2> HIDE DEF w
  <2> QED BY <1>1, <2>1
<1>3. w \in Seq({m, a, e}) /\ w # <<>>
  BY Joined
<1>4. Complete(w)
  BY <1>1, CompleteOnes, Zenon
<1> HIDE DEF w
<1> QED BY <1>2, <1>3, <1>4, Zenon

\* A JSON body without an error becomes a complete answer.
LEMMA NativeWhole ==
  ASSUME route \in Routes, ToSame, NEW body \in Bodies[Upstream], NEW u \in BOOLEAN,
         ~Garbage(body), ~HasError(body[1])
  PROVE  \E w : Whole(body, u) = Write(conv, w) /\ w # <<>> /\ (\E E : w \in Seq(E)) /\ Complete(w)
<1>1. Client \in Formats /\ Upstream = Client
  BY SameFacts
<1>2. CASE Client = "openai"
  <2> DEFINE b == body[1]
             s == StreamChunk(b)
             l == UsageOnly(b)
             x == [type |-> "frame", frame |-> s]
             y == [type |-> "frame", frame |-> l]
  <2>1. b \in A!Chunk
    BY <1>1, <1>2, BodyAssumption DEF Garbage
  <2>2. Harmless(x)
    <3>1. s.type = "chunk" /\ s.error # "real"
      BY <2>1 DEF StreamChunk, A!Chunk, HasError
    <3>2. ~HasError(s) /\ s.type \notin Ends
      BY <3>1 DEF HasError, Ends
    <3> HIDE DEF s
    <3> QED BY <3>2, ForwardHarmless
  <2>3. Harmless(y)
    <3>1. l.type = "chunk" /\ l.error # "real"
      BY <2>1 DEF UsageOnly, A!Chunk, HasError
    <3>2. ~HasError(l) /\ l.type \notin Ends
      BY <3>1 DEF HasError, Ends
    <3> HIDE DEF l
    <3> QED BY <3>2, ForwardHarmless
  <2>4. Whole(body, u) = Write(conv, OpenAIBody(body, u))
    BY <1>2 DEF Whole
  <2>5. \/ OpenAIBody(body, u) = <<x>> \o <<y>> \o <<DoneEvent>>
        \/ OpenAIBody(body, u) = <<x>> \o <<>> \o <<DoneEvent>>
    <3>1. Upstream # "anthropic"
      BY <1>1, <1>2
    <3> HIDE DEF x, y
    <3> QED BY <3>1 DEF OpenAIBody, x, y
  <2> HIDE DEF x, y
  <2>6. <<x>> \o <<y>> \o <<DoneEvent>> = <<x, y, DoneEvent>> /\ <<x>> \o <<>> \o <<DoneEvent>> = <<x, DoneEvent>>
    BY Joined, Zenon
  <2>7. Complete(<<x, y, DoneEvent>>) /\ Complete(<<x, DoneEvent>>)
    BY <2>2, <2>3, OwnEvents, CompleteOnes, Zenon
  <2>8. /\ <<x, y, DoneEvent>> \in Seq({x, y, DoneEvent}) /\ <<x, y, DoneEvent>> # <<>>
        /\ <<x, DoneEvent>> \in Seq({x, DoneEvent}) /\ <<x, DoneEvent>> # <<>>
    BY Joined
  <2>9. CASE OpenAIBody(body, u) = <<x>> \o <<y>> \o <<DoneEvent>>
    BY <2>4, <2>6, <2>7, <2>8, <2>9, Zenon
  <2>10. CASE OpenAIBody(body, u) = <<x>> \o <<>> \o <<DoneEvent>>
    BY <2>4, <2>6, <2>7, <2>8, <2>10, Zenon
  <2> QED BY <2>5, <2>9, <2>10, Zenon
<1>3. CASE Client = "anthropic"
  <2> DEFINE m == [type |-> "message_start", message |-> body]
  <2>1. Harmless(m)
    BY DEF Harmless, Seen, Ends
  <2>2. \E r, n : AnthropicBody(body) = <<m>> \o AnthropicEnd(r, n)
    BY <1>1, <1>3, Zenon DEF AnthropicBody
  <2> HIDE DEF m
  <2>3. PICK r, n : AnthropicBody(body) = <<m>> \o AnthropicEnd(r, n)
    BY <2>2
  <2>4. Whole(body, u) = Write(conv, AnthropicBody(body))
    BY <1>3 DEF Whole
  <2> QED BY <2>1, <2>3, <2>4, AnthropicEndAfter, Zenon
<1>4. CASE Client = "responses"
  <2> DEFINE p == [type |-> "response.created"]
             q == [type |-> "response.in_progress"]
             e == [type |-> "frame", frame |-> body[1]]
  <2>1. body[1].type \in {"response.completed", "response.incomplete", "response.failed"}
    <3>1. body[1].type \in {"malformed", "error", "response.completed", "response.incomplete", "response.failed"}
      BY <1>1, <1>4, BodyAssumption
    <3> QED BY <3>1 DEF Garbage, HasError
  <2>2. Harmless(p) /\ Harmless(q)
    BY DEF Harmless, Seen, Ends
  <2>3. Seen(e) \in Ends
    <3>1. Seen(e) = body[1].type
      BY DEF Seen
    <3> QED BY <2>1, <3>1 DEF Ends
  <2>4. Whole(body, u) = Write(conv, <<p, q, e>>)
    <3>1. Whole(body, u) = ResponsesBody(body)
      BY <1>4 DEF Whole
    <3> QED BY <1>1, <1>4, <3>1 DEF ResponsesBody
  <2> HIDE DEF p, q, e
  <2>5. Complete(<<p, q, e>>)
    BY <2>2, <2>3, CompleteOnes, Zenon
  <2>6. <<p, q, e>> \in Seq({p, q, e}) /\ <<p, q, e>> # <<>>
    OBVIOUS
  <2> QED BY <2>4, <2>5, <2>6, Zenon
<1> QED BY <1>1, <1>2, <1>3, <1>4 DEF Formats

\* A body that is no JSON becomes a complete, empty answer.
LEMMA NativeGarbage ==
  ASSUME route \in Routes, ToSame, Client # "responses"
  PROVE  GarbageEvents # <<>> /\ (\E E : GarbageEvents \in Seq(E)) /\ Complete(GarbageEvents)
<1> DEFINE m == [type |-> "malformed"]
           f == [type |-> "frame", frame |-> m]
<1>1. Harmless(f)
  <2>1. ~HasError(m) /\ m.type \notin Ends
    BY DEF HasError, Ends
  <2> HIDE DEF m
  <2> QED BY <2>1, ForwardHarmless
<1>2. GarbageEvents = IF Client = "openai" THEN <<f, DoneEvent>> ELSE <<f>> \o AnthropicEnd("end_turn", 0)
  BY DEF GarbageEvents
<1> HIDE DEF f
<1>3. Complete(<<f, DoneEvent>>)
  BY <1>1, OwnEvents, CompleteOnes, Zenon
<1>4. <<f, DoneEvent>> \in Seq({f, DoneEvent}) /\ <<f, DoneEvent>> # <<>>
  OBVIOUS
<1>5. CASE Client = "openai"
  BY <1>2, <1>3, <1>4, <1>5, Zenon
<1>6. CASE Client # "openai"
  BY <1>1, <1>2, <1>6, AnthropicEndAfter
<1> QED BY <1>5, <1>6

\* A JSON body on a forwarding route keeps the ends right.
LEMMA NativeBodyEnds ==
  ASSUME route \in Routes, NativeEnds, saw \in SawType, ToSame, JsonBody
  PROVE  NativeEnds'
<1>0. /\ result = "none" /\ Relaying /\ frames = <<>>
      /\ route' = route /\ ~NeedConvert
  BY DEF NativeEnds, JsonBody, ToSame
<1>c. Client' = Client /\ ToSame'
  BY <1>0 DEF Client, Upstream, ToSame, NeedConvert
<1>1. conv \in NConv /\ conv.out = <<>>
  BY <1>0 DEF Relaying
<1>2. Ongoing(conv.out)
  BY <1>1, NothingOngoing
<1>3. PICK body \in Bodies[Upstream], u \in BOOLEAN : BodyTo(body, u)
  BY Zenon DEF JsonBody, BodyTo
<1>4. saw'.done = saw.done
  <2> DEFINE c == \E i \in DOMAIN body : HasContent(body[i])
  <2>1. saw' = [saw EXCEPT !.content = c]
    BY <1>3 DEF BodyTo
  <2> HIDE DEF c
  <2> QED BY <2>1 DEF SawType
<1>5. CASE conv' = Write(conv, <<ErrorEvent>>) /\ result' = "error"
  BY <1>0, <1>4, <1>5, NativeErrorEnds
<1>6. ASSUME NEW w, w # <<>>, \E E : w \in Seq(E), Complete(w), conv' = Write(conv, w), result' \in {"ok", "error"}
      PROVE  NativeEnds'
  <2>1. Complete(conv'.out)
    BY <1>1, <1>2, <1>6, NWriteTwo
  <2> QED BY <1>6, <2>1 DEF NativeEnds
<1>7. CASE Garbage(body) /\ Client # "responses"
  <2>1. conv' = Write(conv, GarbageEvents) /\ result' = "ok"
    BY <1>0, <1>3, <1>7 DEF Return, BodyTo
  <2>2. GarbageEvents # <<>> /\ (\E E : GarbageEvents \in Seq(E)) /\ Complete(GarbageEvents)
    BY <1>7, NativeGarbage
  <2> QED BY <1>6, <2>1, <2>2
<1>8. CASE ~Garbage(body) /\ ~HasError(body[1])
  <2>1. conv' = Whole(body, u) /\ result' \in {"ok", "error"}
    BY <1>3, <1>8 DEF Return, BodyTo
  <2>2. PICK w : Whole(body, u) = Write(conv, w) /\ w # <<>> /\ (\E E : w \in Seq(E)) /\ Complete(w)
    BY <1>8, NativeWhole
  <2> QED BY <1>6, <2>1, <2>2
<1>9. \/ conv' = Write(conv, <<ErrorEvent>>) /\ result' = "error"
      \/ Garbage(body) /\ Client # "responses"
      \/ ~Garbage(body) /\ ~HasError(body[1])
  BY <1>3 DEF Return, BodyTo
<1> QED BY <1>5, <1>7, <1>8, <1>9

\* Every step keeps the ends of a forwarded answer right.
LEMMA NativeEndsNext ==
  AnthropicInv /\ saw \in SawType /\ NativeEnds /\ [Next]_vars => NativeEnds'
<1> SUFFICES ASSUME AnthropicInv, saw \in SawType, NativeEnds, [Next]_vars
             PROVE  NativeEnds'
  OBVIOUS
<1>0. route \in Routes
  BY DEF AnthropicInv
<1>1. CASE UNCHANGED vars
  <2>1. UNCHANGED <<route, frames, conv, saw, result>>
    BY <1>1 DEF vars
  <2> QED BY <2>1 DEF NativeEnds, Relaying, ToSame, NeedConvert, Client, Upstream, Said
<1>2. CASE ~ToSame
  <2>1. route' = route
    BY DEF Next, Frame, Broken, ClientGone, EndOfStream, JsonBody, vars
  <2> QED BY <1>2, <2>1 DEF NativeEnds, ToSame, NeedConvert, Client, Upstream
<1>3. CASE ToSame /\ Frame
  BY <1>0, <1>3, NativeFrame
<1>4. CASE ToSame /\ EndOfStream
  BY <1>0, <1>4, NativeStreamEnds
<1>5. CASE ToSame /\ Broken
  <2>1. /\ route' = route /\ saw' = saw /\ result = "none" /\ result' = "error"
        /\ conv' = Write(conv, <<ErrorEvent>>)
    BY <1>5 DEF Broken, Return
  <2> QED BY <1>5, <2>1, NativeErrorEnds
<1>6. CASE ToSame /\ ClientGone
  BY <1>6 DEF ClientGone, Return, NativeEnds
<1>7. CASE ToSame /\ JsonBody
  BY <1>0, <1>7, NativeBodyEnds
<1> QED BY <1>1, <1>2, <1>3, <1>4, <1>5, <1>6, <1>7 DEF Next

-----------------------------------------------------------------------------
(* ResponsesStream: what its records are made of.                          *)

\* The fields of a Responses converter.
LEMMA RFields ==
  ASSUME NEW c \in RConv
  PROVE  /\ c.started \in BOOLEAN /\ c.closed \in BOOLEAN /\ c.finished \in BOOLEAN /\ c.errored \in BOOLEAN
         /\ c.items \in Seq(RItem) /\ c.msgBlock \in Nat /\ c.anonKey \in Int /\ c.idToKey \in [ToolIds -> Int]
         /\ c.tokens \in Nat /\ c.hasUsage \in BOOLEAN /\ c.stopReason \in RReasons /\ c.out \in Seq(REvent)
         /\ DOMAIN c.items = 1 .. Len(c.items) /\ Len(c.items) \in Nat
         /\ \A i \in DOMAIN c.items : c.items[i] \in RItem /\ i \in Nat
<1>1. /\ c.started \in BOOLEAN /\ c.closed \in BOOLEAN /\ c.finished \in BOOLEAN /\ c.errored \in BOOLEAN
      /\ c.items \in Seq(RItem) /\ c.msgBlock \in Nat /\ c.anonKey \in Int /\ c.idToKey \in [ToolIds -> Int]
      /\ c.tokens \in Nat /\ c.hasUsage \in BOOLEAN /\ c.stopReason \in RReasons /\ c.out \in Seq(REvent)
  <2> HIDE DEF REvent, RItem, RReasons
  <2> QED BY DEF RConv
<1> HIDE DEF REvent, RItem, RReasons, RConv
<1>2. DOMAIN c.items = 1 .. Len(c.items) /\ Len(c.items) \in Nat /\ \A i \in DOMAIN c.items : c.items[i] \in RItem /\ i \in Nat
  BY <1>1
<1> QED BY <1>1, <1>2

\* Steps that keep the converter's state make steps that do.
LEMMA KeptOn == ASSUME NEW b, NEW c, NEW d, Kept(b, c), Kept(c, d) PROVE Kept(b, d)
  BY DEF Kept

\* Emitting appends to the output and changes nothing else.
LEMMA REmit ==
  ASSUME NEW c \in RConv, NEW w \in Seq(REvent)
  PROVE  /\ Kept(c, R!Emit(c, w)) /\ R!Emit(c, w).items = c.items /\ R!Emit(c, w).out = c.out \o w
<1> DEFINE o == c.out \o w
           d == R!Emit(c, w)
<1>1. o \in Seq(REvent)
  <2> HIDE DEF REvent
  <2> QED BY RFields
<1>2. d = [c EXCEPT !.out = o]
  BY DEF R!Emit
<1> HIDE DEF o, d, REvent, RItem, RReasons
<1>3. Kept(c, d) /\ d.items = c.items /\ d.out = o
  BY <1>1, <1>2, Zenon DEF RConv, Kept
<1> QED BY <1>3 DEF o, d

\* Only the items change.
LEMMA RItems ==
  ASSUME NEW c \in RConv, NEW s \in Seq(RItem), NEW d, d = [c EXCEPT !.items = s]
  PROVE  Kept(c, d) /\ d.items = s /\ d.out = c.out
<1> HIDE DEF REvent, RItem, RReasons
<1> QED BY Zenon DEF RConv, Kept

\* Only item i changes.
LEMMA RSet ==
  ASSUME NEW c \in RConv, NEW i \in DOMAIN c.items, NEW it \in RItem,
         NEW d, d = [c EXCEPT !.items = [@ EXCEPT ![i] = it]]
  PROVE  Becomes(c, d, i, it) /\ d.out = c.out
<1> DEFINE s == [c.items EXCEPT ![i] = it]
<1>0. c.items \in Seq(RItem) /\ DOMAIN c.items = 1 .. Len(c.items) /\ Len(c.items) \in Nat
  BY RFields
<1> HIDE DEF RItem, RConv
<1>1. s \in Seq(RItem) /\ DOMAIN s = DOMAIN c.items /\ s[i] = it /\ \A j \in DOMAIN c.items : j # i => s[j] = c.items[j]
  <2>1. DOMAIN s = DOMAIN c.items
    OBVIOUS
  <2>2. \A j \in DOMAIN c.items : s[j] = IF j = i THEN it ELSE c.items[j]
    OBVIOUS
  <2>3. \A j \in DOMAIN c.items : s[j] \in RItem
    BY <1>0, <2>2
  <2> HIDE DEF s
  <2>4. s \in Seq(RItem)
    <3>1. s \in [1 .. Len(c.items) -> RItem]
      BY <1>0, <2>1, <2>3, <2>2 DEF s
    <3> QED BY <1>0, <3>1
  <2> QED BY <2>1, <2>2, <2>4
<1>2. Len(s) = Len(c.items)
  BY <1>0, <1>1
<1>3. d = [c EXCEPT !.items = s]
  <2> QED BY Zenon
<1> HIDE DEF s
<1>4. Kept(c, d) /\ d.items = s /\ d.out = c.out
  BY <1>1, <1>3, RItems
<1> QED BY <1>1, <1>2, <1>4 DEF Becomes

\* The fields of an output item.
LEMMA ItemFields ==
  ASSUME NEW x \in RItem
  PROVE  /\ x.typ \in ItemKinds /\ x.key \in Int /\ x.added \in BOOLEAN /\ x.done \in BOOLEAN
         /\ x.data \in Seq(Stamp) /\ x.parts \in Seq(RPart) /\ x.part \in PartKinds
  <1> HIDE DEF Stamp, RPart, PartKinds, ItemKinds
  <1> QED BY DEF RItem

\* ... set in a converter.
LEMMA ConvSets ==
  ASSUME NEW c \in RConv, NEW i \in DOMAIN c.items
  PROVE  /\ \A t : [c EXCEPT !.items[i].added = t] =
              [c EXCEPT !.items = [@ EXCEPT ![i] = [c.items[i] EXCEPT !.added = t]]]
         /\ \A t : [c EXCEPT !.items[i].done = t] =
              [c EXCEPT !.items = [@ EXCEPT ![i] = [c.items[i] EXCEPT !.done = t]]]
         /\ \A s : [c EXCEPT !.items[i].data = s] =
              [c EXCEPT !.items = [@ EXCEPT ![i] = [c.items[i] EXCEPT !.data = s]]]
         /\ \A s : [c EXCEPT !.items[i].parts = s] =
              [c EXCEPT !.items = [@ EXCEPT ![i] = [c.items[i] EXCEPT !.parts = s]]]
         /\ \A s : [c EXCEPT !.items[i].part = s] =
              [c EXCEPT !.items = [@ EXCEPT ![i] = [c.items[i] EXCEPT !.part = s]]]
  BY DEF RConv

\* Two changes of item i are one.
LEMMA BecomesOn ==
  ASSUME NEW b, NEW c, NEW d, NEW i, NEW it, NEW jt, Becomes(b, c, i, it), Becomes(c, d, i, jt)
  PROVE  Becomes(b, d, i, jt)
  BY KeptOn DEF Becomes

\* Item i with another "added".
LEMMA SetAdded ==
  ASSUME NEW c \in RConv, NEW i \in DOMAIN c.items, NEW v \in BOOLEAN, NEW x, x = c.items[i],
         NEW d, d = WithAdded(c, i, v)
  PROVE  /\ Becomes(c, d, i, d.items[i]) /\ d.out = c.out /\ Tagged(x, d.items[i])
         /\ d.items[i].added = v /\ d.items[i].done = x.done /\ d.items[i].data = x.data /\ d.items[i].parts = x.parts /\ d.items[i].part = x.part
<1> DEFINE y == [x EXCEPT !.added = v]
<1>1. Tagged(x, y) /\ y.added = v /\ y.done = x.done /\ y.data = x.data /\ y.parts = x.parts /\ y.part = x.part
  <2>1. x \in RItem
    BY RFields
  <2> HIDE DEF Stamp, RPart, PartKinds, ItemKinds
  <2> QED BY <2>1 DEF RItem, Tagged
<1>2. d = [c EXCEPT !.items = [@ EXCEPT ![i] = y]]
  BY ConvSets DEF WithAdded
<1> HIDE DEF y
<1>3. y \in RItem
  BY <1>1 DEF Tagged
<1>4. Becomes(c, d, i, y) /\ d.out = c.out
  BY <1>2, <1>3, RSet
<1>5. d.items[i] = y
  BY <1>4 DEF Becomes
<1> QED BY <1>1, <1>4, <1>5

\* Item i with another "done".
LEMMA SetDone ==
  ASSUME NEW c \in RConv, NEW i \in DOMAIN c.items, NEW v \in BOOLEAN, NEW x, x = c.items[i],
         NEW d, d = WithDone(c, i, v)
  PROVE  /\ Becomes(c, d, i, d.items[i]) /\ d.out = c.out /\ Tagged(x, d.items[i])
         /\ d.items[i].added = x.added /\ d.items[i].done = v /\ d.items[i].data = x.data /\ d.items[i].parts = x.parts /\ d.items[i].part = x.part
<1> DEFINE y == [x EXCEPT !.done = v]
<1>1. Tagged(x, y) /\ y.added = x.added /\ y.done = v /\ y.data = x.data /\ y.parts = x.parts /\ y.part = x.part
  <2>1. x \in RItem
    BY RFields
  <2> HIDE DEF Stamp, RPart, PartKinds, ItemKinds
  <2> QED BY <2>1 DEF RItem, Tagged
<1>2. d = [c EXCEPT !.items = [@ EXCEPT ![i] = y]]
  BY ConvSets DEF WithDone
<1> HIDE DEF y
<1>3. y \in RItem
  BY <1>1 DEF Tagged
<1>4. Becomes(c, d, i, y) /\ d.out = c.out
  BY <1>2, <1>3, RSet
<1>5. d.items[i] = y
  BY <1>4 DEF Becomes
<1> QED BY <1>1, <1>4, <1>5

\* Item i with other data.
LEMMA SetData ==
  ASSUME NEW c \in RConv, NEW i \in DOMAIN c.items, NEW v \in Seq(Stamp), NEW x, x = c.items[i],
         NEW d, d = WithData(c, i, v)
  PROVE  /\ Becomes(c, d, i, d.items[i]) /\ d.out = c.out /\ Tagged(x, d.items[i])
         /\ d.items[i].added = x.added /\ d.items[i].done = x.done /\ d.items[i].data = v /\ d.items[i].parts = x.parts /\ d.items[i].part = x.part
<1> DEFINE y == [x EXCEPT !.data = v]
<1>1. Tagged(x, y) /\ y.added = x.added /\ y.done = x.done /\ y.data = v /\ y.parts = x.parts /\ y.part = x.part
  <2>1. x \in RItem
    BY RFields
  <2> HIDE DEF Stamp, RPart, PartKinds, ItemKinds
  <2> QED BY <2>1, Zenon DEF RItem, Tagged
<1>2. d = [c EXCEPT !.items = [@ EXCEPT ![i] = y]]
  BY ConvSets DEF WithData
<1> HIDE DEF y
<1>3. y \in RItem
  BY <1>1 DEF Tagged
<1>4. Becomes(c, d, i, y) /\ d.out = c.out
  BY <1>2, <1>3, RSet
<1>5. d.items[i] = y
  BY <1>4 DEF Becomes
<1> QED BY <1>1, <1>4, <1>5

\* Item i with other closed parts.
LEMMA SetParts ==
  ASSUME NEW c \in RConv, NEW i \in DOMAIN c.items, NEW v \in Seq(RPart), NEW x, x = c.items[i],
         NEW d, d = WithParts(c, i, v)
  PROVE  /\ Becomes(c, d, i, d.items[i]) /\ d.out = c.out /\ Tagged(x, d.items[i])
         /\ d.items[i].added = x.added /\ d.items[i].done = x.done /\ d.items[i].data = x.data /\ d.items[i].parts = v /\ d.items[i].part = x.part
<1> DEFINE y == [x EXCEPT !.parts = v]
<1>1. Tagged(x, y) /\ y.added = x.added /\ y.done = x.done /\ y.data = x.data /\ y.parts = v /\ y.part = x.part
  <2>1. x \in RItem
    BY RFields
  <2> HIDE DEF Stamp, RPart, PartKinds, ItemKinds
  <2> QED BY <2>1, Zenon DEF RItem, Tagged
<1>2. d = [c EXCEPT !.items = [@ EXCEPT ![i] = y]]
  BY ConvSets DEF WithParts
<1> HIDE DEF y
<1>3. y \in RItem
  BY <1>1 DEF Tagged
<1>4. Becomes(c, d, i, y) /\ d.out = c.out
  BY <1>2, <1>3, RSet
<1>5. d.items[i] = y
  BY <1>4 DEF Becomes
<1> QED BY <1>1, <1>4, <1>5

\* Item i with another open part.
LEMMA SetPart ==
  ASSUME NEW c \in RConv, NEW i \in DOMAIN c.items, NEW v \in PartKinds, NEW x, x = c.items[i],
         NEW d, d = WithPart(c, i, v)
  PROVE  /\ Becomes(c, d, i, d.items[i]) /\ d.out = c.out /\ Tagged(x, d.items[i])
         /\ d.items[i].added = x.added /\ d.items[i].done = x.done /\ d.items[i].data = x.data /\ d.items[i].parts = x.parts /\ d.items[i].part = v
<1> DEFINE y == [x EXCEPT !.part = v]
<1>1. Tagged(x, y) /\ y.added = x.added /\ y.done = x.done /\ y.data = x.data /\ y.parts = x.parts /\ y.part = v
  <2>1. x \in RItem
    BY RFields
  <2> HIDE DEF Stamp, RPart, PartKinds, ItemKinds
  <2> QED BY <2>1 DEF RItem, Tagged
<1>2. d = [c EXCEPT !.items = [@ EXCEPT ![i] = y]]
  BY ConvSets DEF WithPart
<1> HIDE DEF y
<1>3. y \in RItem
  BY <1>1 DEF Tagged
<1>4. Becomes(c, d, i, y) /\ d.out = c.out
  BY <1>2, <1>3, RSet
<1>5. d.items[i] = y
  BY <1>4 DEF Becomes
<1> QED BY <1>1, <1>4, <1>5

\* Item i after its announcement.
LEMMA SetAnnounced ==
  ASSUME NEW c \in RConv, NEW e, Kept(c, e), e.items = c.items, NEW i \in DOMAIN c.items,
         NEW d, d = ShownAt(e, i), NEW x, x = c.items[i]
  PROVE  /\ Becomes(c, d, i, d.items[i]) /\ d.out = e.out /\ Tagged(x, d.items[i])
         /\ d.items[i].added /\ d.items[i].done = x.done /\ d.items[i].data = x.data
         /\ d.items[i].parts = x.parts /\ d.items[i].part = x.part
<1>1. e \in RConv /\ i \in DOMAIN e.items /\ x = e.items[i]
  BY DEF Kept
<1>2. \A t \in BOOLEAN : \A b : b = WithAdded(e, i, t) =>
        /\ Becomes(e, b, i, b.items[i]) /\ b.out = e.out /\ Tagged(x, b.items[i])
        /\ b.items[i].added = t /\ b.items[i].done = x.done /\ b.items[i].data = x.data
        /\ b.items[i].parts = x.parts /\ b.items[i].part = x.part
  BY <1>1, SetAdded
<1>3. TRUE \in BOOLEAN
  OBVIOUS
<1>4. /\ Becomes(e, d, i, d.items[i]) /\ d.out = e.out /\ Tagged(x, d.items[i])
      /\ d.items[i].added = TRUE /\ d.items[i].done = x.done /\ d.items[i].data = x.data
      /\ d.items[i].parts = x.parts /\ d.items[i].part = x.part
  BY <1>2, <1>3, Zenon DEF ShownAt
<1>6. Becomes(c, d, i, d.items[i])
  BY <1>4, KeptOn DEF Becomes
<1> QED BY <1>4, <1>6

\* Item i after its end.
LEMMA SetClosed ==
  ASSUME NEW c \in RConv, NEW e, Kept(c, e), e.items = c.items, NEW i \in DOMAIN c.items,
         NEW d, d = DoneAt(e, i), NEW x, x = c.items[i]
  PROVE  /\ Becomes(c, d, i, d.items[i]) /\ d.out = e.out /\ Tagged(x, d.items[i])
         /\ d.items[i].done /\ d.items[i].added = x.added /\ d.items[i].data = x.data
         /\ d.items[i].parts = x.parts /\ d.items[i].part = x.part
<1>1. e \in RConv /\ i \in DOMAIN e.items /\ x = e.items[i]
  BY DEF Kept
<1>2. \A t \in BOOLEAN : \A b : b = WithDone(e, i, t) =>
        /\ Becomes(e, b, i, b.items[i]) /\ b.out = e.out /\ Tagged(x, b.items[i])
        /\ b.items[i].done = t /\ b.items[i].added = x.added /\ b.items[i].data = x.data
        /\ b.items[i].parts = x.parts /\ b.items[i].part = x.part
  BY <1>1, SetDone
<1>3. TRUE \in BOOLEAN
  OBVIOUS
<1>4. /\ Becomes(e, d, i, d.items[i]) /\ d.out = e.out /\ Tagged(x, d.items[i])
      /\ d.items[i].done = TRUE /\ d.items[i].added = x.added /\ d.items[i].data = x.data
      /\ d.items[i].parts = x.parts /\ d.items[i].part = x.part
  BY <1>2, <1>3, Zenon DEF DoneAt
<1>6. Becomes(c, d, i, d.items[i])
  BY <1>4, KeptOn DEF Becomes
<1> QED BY <1>4, <1>6

\* Which set each event of the converter belongs to.
LEMMA REventKinds ==
  /\ \A i \in Nat, typ \in ItemKinds : Announce(i, typ) \in AddedEvent
  /\ \A type \in {"content_part.added", "text.done", "content_part.done"}, i \in Nat, p \in Nat,
        kind \in PartKinds, data \in Seq(Stamp) : PartSaid(type, i, p, kind, data) \in PartsEvent
  /\ \A i \in Nat, p \in Nat, kind \in PartKinds \cup ItemKinds, data \in Stamp :
        PartSaid("delta", i, p, kind, data) \in GrowEvent
  /\ \A i \in Nat, data \in Seq(Stamp) : [type |-> "data.done", item |-> i, data |-> data] \in DataEvent
  /\ \A i \in Nat, it \in RItem : [type |-> "output_item.done", item |-> i, final |-> it] \in ItemEvent
  /\ \A type \in {"response.completed", "response.incomplete", "response.failed"}, s \in Seq(RItem), n \in Nat :
        [type |-> type, output |-> s, tokens |-> n] \in LastEvent
<1> HIDE DEF Stamp, RItem, PartKinds, ItemKinds
<1>1. \A i \in Nat, typ \in ItemKinds : Announce(i, typ) \in AddedEvent
  BY DEF Announce, AddedEvent
<1>2. \A type \in {"content_part.added", "text.done", "content_part.done"}, i \in Nat, p \in Nat,
        kind \in PartKinds, data \in Seq(Stamp) : PartSaid(type, i, p, kind, data) \in PartsEvent
  BY DEF PartSaid, PartsEvent
<1>3. \A i \in Nat, p \in Nat, kind \in PartKinds \cup ItemKinds, data \in Stamp :
        PartSaid("delta", i, p, kind, data) \in GrowEvent
  BY DEF PartSaid, GrowEvent
<1>4. \A i \in Nat, data \in Seq(Stamp) : [type |-> "data.done", item |-> i, data |-> data] \in DataEvent
  BY DEF DataEvent
<1>5. \A i \in Nat, it \in RItem : [type |-> "output_item.done", item |-> i, final |-> it] \in ItemEvent
  BY DEF ItemEvent
<1>6. \A type \in {"response.completed", "response.incomplete", "response.failed"}, s \in Seq(RItem), n \in Nat :
        [type |-> type, output |-> s, tokens |-> n] \in LastEvent
  BY DEF LastEvent
<1> QED BY <1>1, <1>2, <1>3, <1>4, <1>5, <1>6

\* The events of the converter have its event type.
LEMMA REventOf ==
  /\ \A i \in Nat, typ \in ItemKinds : Announce(i, typ) \in REvent
  /\ \A type \in {"content_part.added", "text.done", "content_part.done"}, i \in Nat, p \in Nat,
        kind \in PartKinds, data \in Seq(Stamp) : PartSaid(type, i, p, kind, data) \in REvent
  /\ \A i \in Nat, p \in Nat, kind \in PartKinds \cup ItemKinds, data \in Stamp :
        PartSaid("delta", i, p, kind, data) \in REvent
  /\ \A i \in Nat, data \in Seq(Stamp) : [type |-> "data.done", item |-> i, data |-> data] \in REvent
  /\ \A i \in Nat, it \in RItem : [type |-> "output_item.done", item |-> i, final |-> it] \in REvent
  /\ \A type \in {"response.completed", "response.incomplete", "response.failed"}, s \in Seq(RItem), n \in Nat :
        [type |-> type, output |-> s, tokens |-> n] \in REvent
  /\ \A type \in {"response.created", "response.in_progress", "error"} : [type |-> type] \in REvent
<1> HIDE DEF Stamp, RItem, PartKinds, ItemKinds
<1>1. \A type \in {"response.created", "response.in_progress", "error"} :
        [type |-> type] \in [type : {"response.created", "response.in_progress", "error"}]
  OBVIOUS
<1> HIDE DEF AddedEvent, PartsEvent, GrowEvent, DataEvent, ItemEvent, LastEvent
<1> QED BY <1>1, REventKinds DEF REvent

\* outputItemAdded announces an item once.
LEMMA ROutputItemAdded ==
  ASSUME NEW c \in RConv, NEW i \in DOMAIN c.items, NEW d, d = R!OutputItemAdded(c, i)
  PROVE  /\ Becomes(c, d, i, d.items[i]) /\ Tagged(c.items[i], d.items[i])
         /\ d.items[i].added /\ d.items[i].done = c.items[i].done /\ d.items[i].data = c.items[i].data
         /\ d.items[i].parts = c.items[i].parts /\ d.items[i].part = c.items[i].part
         /\ c.items[i].added => d = c
         /\ ~c.items[i].added => d.out = c.out \o <<Announce(i, c.items[i].typ)>>
<1> DEFINE x == c.items[i]
           w == <<Announce(i, x.typ)>>
           e == R!Emit(c, w)
<1>0. x \in RItem /\ i \in Nat
  BY RFields
<1>1. x.typ \in ItemKinds /\ x.added \in BOOLEAN
  BY <1>0, ItemFields
<1>2. w \in Seq(REvent)
  <2>1. Announce(i, x.typ) \in REvent
    BY <1>0, <1>1, REventOf
  <2> HIDE DEF REvent
  <2> QED BY <2>1
<1> HIDE DEF w
<1>3. Kept(c, e) /\ e.items = c.items /\ e.out = c.out \o w
  BY <1>2, REmit
<1>4. ~x.added => d = [e EXCEPT !.items[i].added = TRUE]
  BY DEF R!OutputItemAdded, Announce, w
<1> HIDE DEF e
<1>5. CASE ~x.added
  <2>1. d = ShownAt(e, i)
    BY <1>4, <1>5 DEF WithAdded, ShownAt
  <2>2. /\ Becomes(c, d, i, d.items[i]) /\ d.out = e.out /\ Tagged(x, d.items[i])
        /\ d.items[i].added /\ d.items[i].done = x.done /\ d.items[i].data = x.data
        /\ d.items[i].parts = x.parts /\ d.items[i].part = x.part
    BY <1>3, <2>1, SetAnnounced
  <2> QED BY <1>3, <1>5, <2>2 DEF w
<1>6. CASE x.added
  <2>1. d = c
    BY <1>6 DEF R!OutputItemAdded
  <2> QED BY <1>0, <1>1, <1>6, <2>1 DEF Becomes, Kept, Tagged
<1> QED BY <1>5, <1>6

\* closePart ends the open part with the text it gathered, when there is
\* one.
LEMMA RClosePart ==
  ASSUME NEW c \in RConv, NEW i \in DOMAIN c.items, NEW d, d = R!ClosePart(c, i)
  PROVE  /\ Becomes(c, d, i, d.items[i]) /\ Tagged(c.items[i], d.items[i])
         /\ d.items[i].added = c.items[i].added /\ d.items[i].done = c.items[i].done
         /\ d.items[i].part = None
         /\ c.items[i].part = None => d = c
         /\ c.items[i].part # None =>
              /\ d.items[i].data = <<>>
              /\ d.items[i].parts = Append(c.items[i].parts, [kind |-> c.items[i].part, data |-> c.items[i].data])
              /\ d.out = c.out \o <<PartSaid("text.done", i, Len(c.items[i].parts) + 1, c.items[i].part, c.items[i].data),
                                    PartSaid("content_part.done", i, Len(c.items[i].parts) + 1, c.items[i].part, c.items[i].data)>>
<1> DEFINE x == c.items[i]
           a == PartSaid("text.done", i, Len(x.parts) + 1, x.part, x.data)
           b == PartSaid("content_part.done", i, Len(x.parts) + 1, x.part, x.data)
           w == <<a, b>>
           e == R!Emit(c, w)
           p == Append(x.parts, [kind |-> x.part, data |-> x.data])
           d1 == WithParts(e, i, p)
           d2 == WithPart(d1, i, None)
           d3 == WithData(d2, i, <<>>)
<1>0. x \in RItem /\ i \in Nat
  BY RFields
<1>1. x.part \in PartKinds /\ x.data \in Seq(Stamp) /\ x.parts \in Seq(RPart) /\ Len(x.parts) + 1 \in Nat
  BY <1>0, ItemFields
<1>2. w \in Seq(REvent)
  <2>1. a \in REvent /\ b \in REvent
    <3> HIDE DEF REvent
    <3> QED BY <1>0, <1>1, REventOf
  <2> HIDE DEF REvent, a, b
  <2> QED BY <2>1
<1>3. p \in Seq(RPart)
  <2>1. [kind |-> x.part, data |-> x.data] \in RPart
    BY <1>1 DEF RPart
  <2> HIDE DEF RPart
  <2> QED BY <1>1, <2>1
<1>4. x.part # None => d = d3
  <2>1. c.items = e.items
    BY <1>2, REmit, Zenon
  <2> QED BY <2>1, Zenon DEF R!ClosePart, R!PartEvent, R!PartIdx, PartSaid, WithParts, WithPart, WithData
<1> HIDE DEF w, p
<1>5. Kept(c, e) /\ e.items = c.items /\ e.out = c.out \o w
  BY <1>2, REmit
<1> HIDE DEF e
<1>6. CASE x.part # None
  <2> DEFINE y1 == d1.items[i]
             y2 == d2.items[i]
             y3 == d3.items[i]
  <2>0. None \in PartKinds /\ <<>> \in Seq(Stamp)
    BY DEF PartKinds
  <2>1. Becomes(e, d1, i, y1) /\ d1.out = e.out /\ Tagged(x, y1)
        /\ y1.added = x.added /\ y1.done = x.done /\ y1.parts = p
    <3>1. e \in RConv /\ i \in DOMAIN e.items /\ x = e.items[i] /\ d1 = WithParts(e, i, p)
      BY <1>5 DEF Kept
    <3> HIDE DEF d1, x
    <3> QED BY <1>3, <3>1, SetParts
  <2>2. Becomes(d1, d2, i, y2) /\ d2.out = d1.out /\ Tagged(y1, y2)
        /\ y2.added = y1.added /\ y2.done = y1.done /\ y2.parts = y1.parts /\ y2.part = None
    <3>0. d2 = WithPart(d1, i, None)
      OBVIOUS
    <3> HIDE DEF d1, d2
    <3>1. d1 \in RConv /\ i \in DOMAIN d1.items
      BY <1>5, <2>1 DEF Becomes, Kept
    <3> QED BY <2>0, <3>0, <3>1, SetPart
  <2>3. Becomes(d2, d3, i, y3) /\ d3.out = d2.out /\ Tagged(y2, y3)
        /\ y3.added = y2.added /\ y3.done = y2.done /\ y3.parts = y2.parts /\ y3.part = y2.part /\ y3.data = <<>>
    <3> DEFINE s == <<>>
    <3>0. d3 = WithData(d2, i, s) /\ s \in Seq(Stamp)
      BY <2>0
    <3> HIDE DEF d1, d2, d3
    <3>1. d2 \in RConv /\ i \in DOMAIN d2.items
      BY <1>5, <2>1, <2>2 DEF Becomes, Kept
    <3>2. y3.data = <<>> <=> y3.data = s
      OBVIOUS
    <3> HIDE DEF s
    <3> QED BY <3>0, <3>1, <3>2, SetData
  <2> HIDE DEF d1, d2, d3
  <2>7. Becomes(e, d3, i, y3) /\ d3.out = e.out
    BY <2>1, <2>2, <2>3, BecomesOn
  <2>8. Becomes(c, d, i, y3) /\ d.out = c.out \o w /\ d.items[i] = y3
    BY <1>4, <1>5, <1>6, <2>7, KeptOn DEF Becomes
  <2>9. Tagged(x, y3) /\ y3.added = x.added /\ y3.done = x.done /\ y3.data = <<>> /\ y3.parts = p /\ y3.part = None
    BY <2>1, <2>2, <2>3 DEF Tagged
  <2> QED BY <1>6, <2>8, <2>9 DEF w, p
<1>7. CASE x.part = None
  <2>1. d = c
    BY <1>7 DEF R!ClosePart
  <2> QED BY <1>0, <1>7, <2>1 DEF Becomes, Kept, Tagged
<1> QED BY <1>6, <1>7, Zenon

\* What has been written is at the item i.
LEMMA REmitItem ==
  ASSUME NEW c \in RConv, NEW i \in DOMAIN c.items, NEW e \in REvent, NEW d, d = R!Emit(c, <<e>>)
  PROVE  /\ Becomes(c, d, i, c.items[i]) /\ d.items = c.items /\ d.out = c.out \o <<e>>
<1>1. <<e>> \in Seq(REvent)
  <2> HIDE DEF REvent
  <2> QED OBVIOUS
<1>2. Kept(c, d) /\ d.items = c.items /\ d.out = c.out \o <<e>>
  BY <1>1, REmit, Zenon
<1>3. c.items[i] \in RItem
  BY RFields
<1> QED BY <1>2, <1>3 DEF Becomes

\* What a change of one item leaves true.
LEMMA BecomesFacts ==
  ASSUME NEW c \in RConv, NEW i \in DOMAIN c.items, NEW d, NEW it, Becomes(c, d, i, it)
  PROVE  d \in RConv /\ i \in DOMAIN d.items /\ d.items[i] = it /\ it \in RItem /\ Kept(c, d)
  BY DEF Becomes, Kept

\* An item that keeps its kind and key twice keeps them.
LEMMA TaggedOn == ASSUME NEW x, NEW y, NEW z, Tagged(x, y), Tagged(y, z) PROVE Tagged(x, z)
  BY DEF Tagged

\* openPart announces the item and has a part of the kind open, closing
\* another one first.
LEMMA ROpenPart ==
  ASSUME NEW c \in RConv, NEW i \in DOMAIN c.items, NEW kind \in {"text", "refusal"},
         NEW d, d = R!OpenPart(c, i, kind), NEW b, b = R!ClosePart(c, i)
  PROVE  Opened(c, d, i, kind, b)
<1> DEFINE x == c.items[i]
           d2 == WithPart(b, i, kind)
           d3 == R!OutputItemAdded(d2, i)
           p == Len(b.items[i].parts) + 1
           no == <<>>
           e == PartSaid("content_part.added", i, p, kind, no)
<1>0. x \in RItem /\ i \in Nat
  BY RFields
<1>1. CASE x.part = kind
  <2>1. d = c
    BY <1>1 DEF R!OpenPart
  <2> QED BY <1>0, <1>1, <2>1 DEF Becomes, Kept, Tagged, Opened
<1>2. CASE x.part # kind
  <2>1. /\ Becomes(c, b, i, b.items[i]) /\ Tagged(x, b.items[i])
        /\ b.items[i].added = x.added /\ b.items[i].done = x.done
    BY RClosePart, Zenon
  <2>2. b \in RConv /\ i \in DOMAIN b.items
    BY <2>1, BecomesFacts
  <2>3. kind \in PartKinds
    BY DEF PartKinds
  <2>4. /\ Becomes(b, d2, i, d2.items[i]) /\ d2.out = b.out /\ Tagged(b.items[i], d2.items[i])
        /\ d2.items[i].added = b.items[i].added /\ d2.items[i].done = b.items[i].done
        /\ d2.items[i].data = b.items[i].data /\ d2.items[i].parts = b.items[i].parts /\ d2.items[i].part = kind
    BY <2>2, <2>3, SetPart
  <2>5. d = R!Emit(d3, <<R!PartEvent("content_part.added", d3, i, kind, <<>>)>>)
    BY <1>2 DEF R!OpenPart, WithPart
  <2> HIDE DEF d2
  <2>6. d2 \in RConv /\ i \in DOMAIN d2.items
    BY <2>2, <2>4, BecomesFacts
  <2>7. /\ Becomes(d2, d3, i, d3.items[i]) /\ Tagged(d2.items[i], d3.items[i])
        /\ d3.items[i].added /\ d3.items[i].done = d2.items[i].done /\ d3.items[i].data = d2.items[i].data
        /\ d3.items[i].parts = d2.items[i].parts /\ d3.items[i].part = d2.items[i].part
        /\ d2.items[i].added => d3 = d2
        /\ ~d2.items[i].added => d3.out = d2.out \o <<Announce(i, d2.items[i].typ)>>
    BY <2>6, ROutputItemAdded
  <2> HIDE DEF d3
  <2>8. d3 \in RConv /\ i \in DOMAIN d3.items
    BY <2>6, <2>7, BecomesFacts
  <2>9. R!PartEvent("content_part.added", d3, i, kind, <<>>) = e
    BY <2>4, <2>7 DEF R!PartEvent, R!PartIdx, PartSaid
  <2>10. e \in REvent
    <3>1. p \in Nat
      <4>1. b.items[i] \in RItem
        BY <2>1 DEF Becomes
      <4>2. b.items[i].parts \in Seq(RPart)
        BY <4>1, ItemFields
      <4> QED BY <4>2
    <3>2. no \in Seq(Stamp)
      OBVIOUS
    <3> HIDE DEF no, p
    <3>3. PartSaid("content_part.added", i, p, kind, no) \in REvent
      BY <1>0, <2>3, <3>1, <3>2, REventOf
    <3> QED BY <3>3
  <2> HIDE DEF e
  <2>11. Becomes(d3, d, i, d3.items[i]) /\ d.out = d3.out \o <<e>> /\ d.items = d3.items
    BY <2>5, <2>8, <2>9, <2>10, REmitItem
  <2>12. d.items[i] = d3.items[i]
    BY <2>11
  <2>13. Becomes(c, d, i, d.items[i])
    BY <2>1, <2>4, <2>7, <2>11, <2>12, BecomesOn
  <2>14. Tagged(x, d.items[i])
    BY <2>1, <2>4, <2>7, <2>12, TaggedOn
  <2>15. d2.items[i].typ = x.typ
    BY <2>1, <2>4 DEF Tagged
  <2>16. x.added => d.out = b.out \o <<e>>
    BY <2>1, <2>4, <2>7, <2>11, Zenon
  <2>17. ~x.added => d.out = (b.out \o <<Announce(i, x.typ)>>) \o <<e>>
    BY <2>1, <2>4, <2>7, <2>11, <2>15, Zenon
  <2> QED BY <1>2, <2>1, <2>4, <2>7, <2>12, <2>13, <2>14, <2>16, <2>17 DEF e, Opened
<1> QED BY <1>1, <1>2

\* An item grows by a delta.
LEMMA RGrow ==
  ASSUME NEW c \in RConv, NEW i \in DOMAIN c.items, NEW s \in Seq(Stamp),
         NEW w, NEW m, Kept(c, m), m.items = c.items, m.out = c.out \o w, NEW d, d = WithData(m, i, s)
  PROVE  Grown(c, d, i, s, w)
<1>1. m \in RConv /\ i \in DOMAIN m.items /\ c.items[i] = m.items[i]
  BY DEF Kept
<1>2. /\ Becomes(m, d, i, d.items[i]) /\ d.out = m.out /\ Tagged(c.items[i], d.items[i])
      /\ d.items[i].added = c.items[i].added /\ d.items[i].done = c.items[i].done /\ d.items[i].data = s
      /\ d.items[i].parts = c.items[i].parts /\ d.items[i].part = c.items[i].part
  BY <1>1, SetData
<1>3. Becomes(c, d, i, d.items[i])
  BY <1>2, KeptOn DEF Becomes
<1> QED BY <1>2, <1>3 DEF Grown

\* The item of a kind and key is the latest of them.
LEMMA RItemOf ==
  ASSUME NEW c \in RConv, NEW types, NEW key, NEW i, i = R!ItemOf(c, types, key)
  PROVE  \/ i = 0 /\ \A j \in DOMAIN c.items : ~(c.items[j].typ \in types /\ c.items[j].key = key)
         \/ /\ i \in DOMAIN c.items /\ i # 0 /\ c.items[i].typ \in types /\ c.items[i].key = key
            /\ \A j \in DOMAIN c.items : c.items[j].typ \in types /\ c.items[j].key = key => j <= i
<1> DEFINE at == {j \in DOMAIN c.items : c.items[j].typ \in types /\ c.items[j].key = key}
<1>0. DOMAIN c.items = 1 .. Len(c.items) /\ Len(c.items) \in Nat
  BY RFields
<1>1. i = IF at = {} THEN 0 ELSE CHOOSE u \in at : \A v \in at : v <= u
  BY DEF R!ItemOf
<1>2. CASE at = {}
  <2> QED BY <1>1, <1>2
<1>3. CASE at # {}
  <2>1. Max(at) \in at /\ \A y \in at : Max(at) >= y
    <3>1. at \in SUBSET (1 .. Len(c.items))
      BY <1>0
    <3> HIDE DEF at
    <3> QED BY <1>0, <1>3, <3>1, MaxOf, Zenon
  <2>2. \E u \in at : \A v \in at : v <= u
    BY <1>0, <2>1, Zenon
  <2>3. i \in at /\ \A v \in at : v <= i
    <3> HIDE DEF at
    <3> QED BY <1>1, <1>3, <2>2
  <2> QED BY <1>0, <2>3
<1> QED BY <1>2, <1>3

\* A new item has said nothing.
LEMMA NewItemIs ==
  ASSUME NEW typ \in ItemKinds, NEW key \in Int
  PROVE  /\ R!NewItem(typ, key) \in RItem
         /\ LET x == R!NewItem(typ, key) IN
            /\ x.typ = typ /\ x.key = key /\ ~x.added /\ ~x.done /\ x.data = <<>> /\ x.parts = <<>> /\ x.part = None
<1>1. <<>> \in Seq(Stamp) /\ <<>> \in Seq(RPart) /\ None \in PartKinds
  BY DEF PartKinds
<1> HIDE DEF Stamp, RPart, PartKinds, ItemKinds
<1> QED BY <1>1 DEF R!NewItem, RItem

\* One item more, at the end.
LEMMA RNewOne ==
  ASSUME NEW c \in RConv, NEW typ \in ItemKinds, NEW key \in Int,
         NEW d, d = [c EXCEPT !.items = Append(@, R!NewItem(typ, key))]
  PROVE  NewOne(c, d, typ, key)
<1> DEFINE x == R!NewItem(typ, key)
           s == Append(c.items, x)
<1>1. x \in RItem
  BY NewItemIs
<1>2. d = [c EXCEPT !.items = s]
  OBVIOUS
<1> HIDE DEF x
<1>3. c.items \in Seq(RItem) /\ DOMAIN c.items = 1 .. Len(c.items) /\ Len(c.items) \in Nat
  BY RFields
<1>4. /\ s \in Seq(RItem) /\ Len(s) = Len(c.items) + 1
      /\ \A j \in DOMAIN c.items : j \in DOMAIN s /\ s[j] = c.items[j]
      /\ \A j \in DOMAIN s : j \in DOMAIN c.items \/ j = Len(s)
      /\ Len(s) \in DOMAIN s /\ Len(s) \notin DOMAIN c.items /\ s[Len(s)] = x
  <2> HIDE DEF RItem, RConv
  <2> QED BY <1>1, <1>3
<1> HIDE DEF s
<1>5. Kept(c, d) /\ d.items = s /\ d.out = c.out
  BY <1>2, <1>4, RItems, Zenon
<1> QED BY <1>4, <1>5 DEF NewOne, x

\* There is an item of the kind and key, the old one or a new one.
LEMMA RWithItem ==
  ASSUME NEW c \in RConv, NEW typ \in ItemKinds, NEW key \in Int, NEW d, d = R!WithItem(c, typ, key),
         NEW i, i = R!ItemOf(d, {typ}, key)
  PROVE  /\ d \in RConv /\ Kept(c, d) /\ d.out = c.out
         /\ i \in DOMAIN d.items /\ i # 0 /\ d.items[i].typ = typ /\ d.items[i].key = key
         /\ d = c \/ (NewOne(c, d, typ, key) /\ i = Len(d.items) /\ R!ItemOf(c, {typ}, key) = 0)
<1>1. CASE R!ItemOf(c, {typ}, key) # 0
  <2>1. d = c
    BY <1>1 DEF R!WithItem
  <2>2. i # 0
    BY <1>1, <2>1
  <2>3. i \in DOMAIN d.items /\ i # 0 /\ d.items[i].typ \in {typ} /\ d.items[i].key = key
    BY <2>1, <2>2, RItemOf
  <2> QED BY <2>1, <2>3 DEF Kept
<1>2. CASE R!ItemOf(c, {typ}, key) = 0
  <2>1. d = [c EXCEPT !.items = Append(@, R!NewItem(typ, key))]
    BY <1>2 DEF R!WithItem
  <2>2. NewOne(c, d, typ, key)
    BY <2>1, RNewOne
  <2>3. d \in RConv
    BY <2>2 DEF NewOne, Kept
  <2> DEFINE l == Len(d.items)
             x == R!NewItem(typ, key)
  <2>4. x.typ = typ /\ x.key = key
    BY NewItemIs
  <2>5. l \in DOMAIN d.items /\ d.items[l] = x /\ \A j \in DOMAIN d.items : j <= l
    <3>1. DOMAIN d.items = 1 .. Len(d.items)
      BY <2>3, RFields
    <3> QED BY <2>2, <3>1 DEF NewOne
  <2> HIDE DEF l, x
  <2>6. \/ i = 0 /\ \A j \in DOMAIN d.items : ~(d.items[j].typ \in {typ} /\ d.items[j].key = key)
        \/ /\ i \in DOMAIN d.items /\ i # 0 /\ d.items[i].typ \in {typ} /\ d.items[i].key = key
           /\ \A j \in DOMAIN d.items : d.items[j].typ \in {typ} /\ d.items[j].key = key => j <= i
    BY <2>3, RItemOf
  <2>7. i \in DOMAIN d.items /\ i # 0 /\ l <= i /\ i <= l
    BY <2>4, <2>5, <2>6
  <2>8. i = l
    <3>1. DOMAIN d.items = 1 .. Len(d.items) /\ Len(d.items) \in Nat
      BY <2>3, RFields
    <3> QED BY <2>5, <2>7, <3>1
  <2> QED BY <1>2, <2>2, <2>3, <2>4, <2>5, <2>7, <2>8 DEF NewOne, l
<1> QED BY <1>1, <1>2

\* A text or refusal fragment is one delta of the message's open part.
LEMMA RMessageDelta ==
  ASSUME NEW c \in RConv, NEW kind \in {"text", "refusal"}, NEW stamp \in Stamp,
         NEW d, d = R!MessageDelta(c, kind, stamp),
         NEW w, w = R!WithItem(c, "message", 0), NEW i, i = R!MsgItem(w), NEW b, b = R!OpenPart(w, i, kind)
  PROVE  Grown(b, d, i, Append(b.items[i].data, stamp), <<PartSaid("delta", i, Len(b.items[i].parts) + 1, kind, stamp)>>)
<1>1. w \in RConv /\ i \in DOMAIN w.items
  <2>1. "message" \in ItemKinds /\ 0 \in Int
    BY DEF ItemKinds
  <2>2. i = R!ItemOf(w, {"message"}, 0)
    BY DEF R!MsgItem
  <2> QED BY <2>1, <2>2, RWithItem
<1>2. Becomes(w, b, i, b.items[i])
  <2>1. \A q : q = R!ClosePart(w, i) => Opened(w, b, i, kind, q)
    BY <1>1, ROpenPart
  <2>2. Opened(w, b, i, kind, R!ClosePart(w, i))
    BY <2>1
  <2> QED BY <2>2, Zenon DEF Opened
<1>3. b \in RConv /\ i \in DOMAIN b.items /\ b.items[i] \in RItem
  BY <1>1, <1>2, BecomesFacts
<1> DEFINE p == Len(b.items[i].parts) + 1
           e == PartSaid("delta", i, p, kind, stamp)
           m == R!Emit(b, <<e>>)
<1>4. p \in Nat /\ kind \in PartKinds \cup ItemKinds
  <2>1. b.items[i].parts \in Seq(RPart)
    BY <1>3, ItemFields
  <2> QED BY <2>1 DEF PartKinds
<1>5. Kept(b, m) /\ m.items = b.items /\ m.out = b.out \o <<e>>
  <2>1. e \in REvent
    <3>1. i \in Nat
      BY <1>3, RFields
    <3> HIDE DEF REvent, p, Stamp, PartKinds, ItemKinds
    <3> QED BY <1>4, <3>1, REventOf, Zenon
  <2> HIDE DEF e
  <2>2. Becomes(b, m, i, b.items[i]) /\ m.items = b.items /\ m.out = b.out \o <<e>>
    BY <1>3, <2>1, REmitItem
  <2> QED BY <2>2, Zenon DEF Becomes
<1>6. d = WithData(m, i, Append(b.items[i].data, stamp))
  <2>1. d = [R!Emit(b, <<R!PartEvent("delta", b, i, kind, stamp)>>) EXCEPT !.items[i].data = Append(@, stamp)]
    BY DEF R!MessageDelta
  <2>2. R!PartEvent("delta", b, i, kind, stamp) = e
    BY DEF R!PartEvent, R!PartIdx, PartSaid
  <2> HIDE DEF e, m
  <2>3. d = [m EXCEPT !.items[i].data = Append(@, stamp)]
    BY <2>1, <2>2, Zenon DEF m
  <2>4. d = [m EXCEPT !.items[i].data = Append(m.items[i].data, stamp)]
    BY <2>3
  <2> QED BY <1>5, <2>4 DEF WithData
<1> HIDE DEF p
<1>7. Grown(b, d, i, Append(b.items[i].data, stamp), <<e>>)
  <2> DEFINE s == Append(b.items[i].data, stamp)
             ev == <<e>>
  <2>1. s \in Seq(Stamp)
    <3>1. b.items[i].data \in Seq(Stamp)
      BY <1>3, ItemFields
    <3> HIDE DEF Stamp
    <3> QED BY <3>1
  <2>2. d = WithData(m, i, s) /\ Kept(b, m) /\ m.items = b.items /\ m.out = b.out \o ev
    BY <1>5, <1>6
  <2> HIDE DEF m, s, ev
  <2>3. Grown(b, d, i, s, ev)
    BY <1>3, <2>1, <2>2, RGrow, Zenon
  <2> QED BY <2>3 DEF s, ev
<1> QED BY <1>7 DEF p

\* A reasoning or argument fragment is one delta of its item.
LEMMA RItemDelta ==
  ASSUME NEW c \in RConv, NEW i \in DOMAIN c.items, NEW stamp \in Stamp,
         NEW d, d = R!ItemDelta(c, i, stamp), NEW b, b = R!OutputItemAdded(c, i)
  PROVE  Grown(b, d, i, Append(b.items[i].data, stamp), <<PartSaid("delta", i, 0, b.items[i].typ, stamp)>>)
<1>2. Becomes(c, b, i, b.items[i])
  BY ROutputItemAdded, Zenon
<1>3. b \in RConv /\ i \in DOMAIN b.items /\ b.items[i] \in RItem
  BY <1>2, BecomesFacts
<1> DEFINE kind == b.items[i].typ
           e == PartSaid("delta", i, 0, kind, stamp)
           m == R!Emit(b, <<e>>)
<1>4. kind \in PartKinds \cup ItemKinds
  BY <1>3, ItemFields
<1>5. Kept(b, m) /\ m.items = b.items /\ m.out = b.out \o <<e>>
  <2>1. e \in REvent
    <3>1. i \in Nat /\ 0 \in Nat
      BY <1>3, RFields
    <3> HIDE DEF REvent, kind, Stamp, PartKinds, ItemKinds
    <3> QED BY <1>4, <3>1, REventOf, Zenon
  <2> HIDE DEF e
  <2>2. Becomes(b, m, i, b.items[i]) /\ m.items = b.items /\ m.out = b.out \o <<e>>
    BY <1>3, <2>1, REmitItem
  <2> QED BY <2>2 DEF Becomes
<1>6. d = WithData(m, i, Append(b.items[i].data, stamp))
  <2>1. d = [m EXCEPT !.items[i].data = Append(@, stamp)]
    BY DEF R!ItemDelta, PartSaid
  <2> HIDE DEF e, m
  <2>4. d = [m EXCEPT !.items[i].data = Append(m.items[i].data, stamp)]
    BY <2>1
  <2> QED BY <1>5, <2>4 DEF WithData
<1> HIDE DEF kind
<1>7. Grown(b, d, i, Append(b.items[i].data, stamp), <<e>>)
  <2> DEFINE s == Append(b.items[i].data, stamp)
             w == <<e>>
  <2>1. s \in Seq(Stamp)
    <3>1. b.items[i].data \in Seq(Stamp)
      BY <1>3, ItemFields
    <3> HIDE DEF Stamp
    <3> QED BY <3>1
  <2>2. d = WithData(m, i, s) /\ Kept(b, m) /\ m.items = b.items /\ m.out = b.out \o w
    BY <1>5, <1>6
  <2> HIDE DEF m, s, w
  <2>3. Grown(b, d, i, s, w)
    BY <1>3, <2>1, <2>2, RGrow, Zenon
  <2> QED BY <2>3 DEF s, w
<1> QED BY <1>7 DEF kind

\* What comes before an item's own end: its part's end or all its data.
LEMMA RClosing ==
  ASSUME NEW c \in RConv, NEW i \in DOMAIN c.items, NEW b, b = ClosingOf(c, i)
  PROVE  /\ Becomes(c, b, i, b.items[i]) /\ Tagged(c.items[i], b.items[i])
         /\ b.items[i].added = c.items[i].added /\ b.items[i].done = c.items[i].done
         /\ c.items[i].typ # "message" =>
              b.items = c.items /\ b.out = c.out \o <<[type |-> "data.done", item |-> i, data |-> c.items[i].data]>>
<1>0. c.items[i] \in RItem /\ i \in Nat
  BY RFields
<1>1. CASE c.items[i].typ = "message"
  <2>1. b = R!ClosePart(c, i)
    BY <1>1 DEF ClosingOf
  <2> QED BY <1>1, <2>1, RClosePart, ZenonT(40)
<1>2. CASE c.items[i].typ # "message"
  <2> DEFINE e == [type |-> "data.done", item |-> i, data |-> c.items[i].data]
  <2>1. e \in REvent
    <3>1. c.items[i].data \in Seq(Stamp)
      BY <1>0, ItemFields
    <3> HIDE DEF REvent
    <3> QED BY <1>0, <3>1, REventOf
  <2>2. b = R!Emit(c, <<e>>)
    BY <1>2 DEF ClosingOf
  <2> HIDE DEF e
  <2>3. Becomes(c, b, i, c.items[i]) /\ b.items = c.items /\ b.out = c.out \o <<e>>
    BY <2>1, <2>2, REmitItem
  <2> QED BY <1>0, <1>2, <2>3 DEF Tagged, e
<1> QED BY <1>1, <1>2

\* closeItem ends an item once.
LEMMA RCloseItem ==
  ASSUME NEW c \in RConv, NEW i \in DOMAIN c.items, NEW d, d = R!CloseItem(c, i),
         NEW b, b = ClosingOf(c, i)
  PROVE  /\ Becomes(c, d, i, d.items[i]) /\ Tagged(c.items[i], d.items[i])
         /\ d.items[i].added = c.items[i].added /\ d.items[i].done
         /\ c.items[i].done => d = c
         /\ ~c.items[i].done =>
              /\ d.out = b.out \o <<[type |-> "output_item.done", item |-> i, final |-> b.items[i]]>>
              /\ d.items[i].data = b.items[i].data /\ d.items[i].parts = b.items[i].parts
              /\ d.items[i].part = b.items[i].part
<1>0. c.items[i] \in RItem /\ i \in Nat
  BY RFields
<1>1. CASE c.items[i].done
  <2>1. d = c
    BY <1>1 DEF R!CloseItem
  <2> QED BY <1>0, <1>1, <2>1 DEF Becomes, Kept, Tagged
<1>2. CASE ~c.items[i].done
  <2> DEFINE e == [type |-> "output_item.done", item |-> i, final |-> b.items[i]]
             m == R!Emit(b, <<e>>)
  <2>1. /\ Becomes(c, b, i, b.items[i]) /\ Tagged(c.items[i], b.items[i])
        /\ b.items[i].added = c.items[i].added /\ b.items[i].done = c.items[i].done
    BY RClosing, Zenon
  <2>2. b \in RConv /\ i \in DOMAIN b.items /\ b.items[i] \in RItem
    BY <2>1, BecomesFacts
  <2>3. e \in REvent
    <3> HIDE DEF REvent
    <3> QED BY <1>0, <2>2, REventOf
  <2>4. d = DoneAt(m, i)
    BY <1>2, Zenon DEF R!CloseItem, ClosingOf, DoneAt, WithDone
  <2> HIDE DEF e
  <2>5. Becomes(b, m, i, b.items[i]) /\ m.items = b.items /\ m.out = b.out \o <<e>>
    BY <2>2, <2>3, REmitItem
  <2> HIDE DEF m
  <2>6. Kept(b, m)
    BY <2>5 DEF Becomes
  <2>7. /\ Becomes(b, d, i, d.items[i]) /\ d.out = m.out /\ Tagged(b.items[i], d.items[i])
        /\ d.items[i].done /\ d.items[i].added = b.items[i].added /\ d.items[i].data = b.items[i].data
        /\ d.items[i].parts = b.items[i].parts /\ d.items[i].part = b.items[i].part
    BY <2>2, <2>4, <2>5, <2>6, SetClosed
  <2>8. Becomes(c, d, i, d.items[i])
    BY <2>1, <2>7, BecomesOn
  <2>9. Tagged(c.items[i], d.items[i])
    BY <2>1, <2>7, TaggedOn
  <2> QED BY <1>2, <2>1, <2>5, <2>7, <2>8, <2>9 DEF e
<1> QED BY <1>1, <1>2

-----------------------------------------------------------------------------
(* ResponsesStream: which events its operators write.                      *)

\* Events of E after events of E.
LEMMA SaysOn == ASSUME NEW b, NEW c, NEW d, NEW E, Says(b, c, E), Says(c, d, E) PROVE Says(b, d, E)
  BY KeptOn DEF Says

\* A step that emits nothing.
LEMMA SaysNone == ASSUME NEW c, NEW d, NEW E, Kept(c, d), d.out = c.out PROVE Says(c, d, E)
  BY DEF Says

\* A step that emits events of E.
LEMMA SaysMore ==
  ASSUME NEW c, NEW d, NEW E, NEW w \in Seq(E), Kept(c, d), d.out = c.out \o w
  PROVE  Says(c, d, E)
<1>1. c.out \in Seq(E) => c.out \o w \in Seq(E)
  OBVIOUS
<1> QED BY <1>1 DEF Says

\* A step that emits one event of E.
LEMMA SaysOne ==
  ASSUME NEW c, NEW d, NEW E, NEW e \in E, Kept(c, d), d.out = c.out \o <<e>>
  PROVE  Says(c, d, E)
<1>1. <<e>> \in Seq(E)
  OBVIOUS
<1> QED BY <1>1, SaysMore, Zenon

\* An announcement is framing.
LEMMA SaysAnnounced ==
  ASSUME NEW c \in RConv, NEW E, Framing(E), NEW i \in DOMAIN c.items, NEW d, d = R!OutputItemAdded(c, i)
  PROVE  Says(c, d, E)
<1> DEFINE e == Announce(i, c.items[i].typ)
<1>1. Becomes(c, d, i, d.items[i]) /\ (c.items[i].added => d = c) /\ (~c.items[i].added => d.out = c.out \o <<e>>)
  BY ROutputItemAdded
<1>2. e \in E
  <2>1. c.items[i] \in RItem /\ i \in Nat
    BY RFields
  <2>2. c.items[i].typ \in ItemKinds /\ c.items[i].added \in BOOLEAN
    BY <2>1, ItemFields
  <2> QED BY <2>1, <2>2 DEF Framing
<1>3. Kept(c, d)
  BY <1>1 DEF Becomes
<1> HIDE DEF e
<1>4. ~c.items[i].added => Says(c, d, E)
  BY <1>1, <1>2, <1>3, SaysOne
<1>5. c.items[i].added => Says(c, d, E)
  BY <1>1, <1>3, SaysNone
<1> QED BY <1>4, <1>5

\* The end of a part is framing.
LEMMA SaysPartClosed ==
  ASSUME NEW c \in RConv, NEW E, Framing(E), NEW i \in DOMAIN c.items, NEW d, d = R!ClosePart(c, i)
  PROVE  Says(c, d, E)
<1> DEFINE x == c.items[i]
           e == PartSaid("text.done", i, Len(x.parts) + 1, x.part, x.data)
           f == PartSaid("content_part.done", i, Len(x.parts) + 1, x.part, x.data)
<1>1. Becomes(c, d, i, d.items[i]) /\ (x.part = None => d = c) /\ (x.part # None => d.out = c.out \o <<e, f>>)
  BY RClosePart, ZenonT(60)
<1>2. e \in E /\ f \in E
  <2>1. c.items[i] \in RItem /\ i \in Nat
    BY RFields
  <2>2. x.part \in PartKinds /\ x.data \in Seq(Stamp) /\ x.parts \in Seq(RPart)
    BY <2>1, ItemFields
  <2>3. Len(x.parts) + 1 \in Nat
    <3> HIDE DEF x
    <3> QED BY <2>2
  <2> DEFINE q == Len(x.parts) + 1
             k == x.part
             v == x.data
  <2> HIDE DEF q, k, v
  <2>4. PartSaid("text.done", i, q, k, v) \in E /\ PartSaid("content_part.done", i, q, k, v) \in E
    BY <2>1, <2>2, <2>3 DEF Framing, q, k, v
  <2> QED BY <2>4 DEF q, k, v
<1>3. Kept(c, d)
  BY <1>1 DEF Becomes
<1> HIDE DEF e, f, x
<1>4. x.part # None => Says(c, d, E)
  <2> DEFINE w == <<e, f>>
  <2>1. w \in Seq(E)
    BY <1>2
  <2>2. x.part # None => d.out = c.out \o w
    BY <1>1, Zenon
  <2> HIDE DEF w
  <2> QED BY <1>3, <2>1, <2>2, SaysMore, Zenon
<1>5. x.part = None => Says(c, d, E)
  BY <1>1, <1>3, SaysNone
<1> QED BY <1>4, <1>5

\* The start of a part is framing.
LEMMA SaysOpened ==
  ASSUME NEW c \in RConv, NEW E, Framing(E), NEW i \in DOMAIN c.items, NEW kind \in {"text", "refusal"},
         NEW d, d = R!OpenPart(c, i, kind)
  PROVE  Says(c, d, E) /\ Becomes(c, d, i, d.items[i])
<1> DEFINE b == R!ClosePart(c, i)
           p == Len(b.items[i].parts) + 1
           no == <<>>
           e == PartSaid("content_part.added", i, p, kind, no)
           f == Announce(i, c.items[i].typ)
<1>1. b = R!ClosePart(c, i)
  OBVIOUS
<1> HIDE DEF b
<1>2. Opened(c, d, i, kind, b)
  BY <1>1, ROpenPart
<1>3. /\ Becomes(c, d, i, d.items[i])
      /\ c.items[i].part = kind => d = c
      /\ c.items[i].part # kind =>
           /\ c.items[i].added => d.out = b.out \o <<e>>
           /\ ~c.items[i].added => d.out = (b.out \o <<f>>) \o <<e>>
  BY <1>2, Zenon DEF Opened
<1>4. Says(c, b, E) /\ Becomes(c, b, i, b.items[i])
  BY <1>1, SaysPartClosed, RClosePart, Zenon
<1>5. e \in E /\ f \in E
  <2>1. c.items[i] \in RItem /\ b.items[i] \in RItem /\ i \in Nat
    BY <1>4, RFields DEF Becomes
  <2>2. c.items[i].typ \in ItemKinds /\ b.items[i].parts \in Seq(RPart)
    BY <2>1, ItemFields
  <2>3. p \in Nat /\ no \in Seq(Stamp) /\ kind \in PartKinds
    BY <2>2 DEF PartKinds
  <2> HIDE DEF p, no
  <2> QED BY <2>1, <2>2, <2>3 DEF Framing
<1> HIDE DEF e, f, p, no
<1>6. Kept(c, d)
  BY <1>3 DEF Becomes
<1>7. c.out \in Seq(E) => d.out \in Seq(E)
  <2>1. SUFFICES ASSUME c.out \in Seq(E) PROVE d.out \in Seq(E)
    OBVIOUS
  <2>2. b.out \in Seq(E)
    BY <1>4, <2>1 DEF Says
  <2>3. b.out \o <<e>> \in Seq(E) /\ b.out \o <<f>> \in Seq(E)
    BY <1>5, <2>2
  <2>4. (b.out \o <<f>>) \o <<e>> \in Seq(E)
    <3> DEFINE s == b.out \o <<f>>
    <3> HIDE DEF s
    <3>1. s \in Seq(E)
      BY <2>3 DEF s
    <3>2. s \o <<e>> \in Seq(E)
      BY <1>5, <3>1
    <3> QED BY <3>2 DEF s
  <2>5. c.items[i].added \in BOOLEAN
    <3>1. c.items[i] \in RItem
      BY RFields
    <3> QED BY <3>1, ItemFields
  <2> QED BY <1>3, <2>1, <2>3, <2>4, <2>5, Zenon
<1> QED BY <1>3, <1>6, <1>7 DEF Says

\* CloseAll, one item after the other.
LEMMA CloseAllStays ==
  ASSUME NEW X, NEW c \in X, NEW N \in Nat, DOMAIN c.items = 1 .. N,
         \A d \in X, j \in 1 .. N : R!CloseItem(d, j) \in X
  PROVE  R!CloseAll(c) \in X
<1> DEFINE op(d, j) == R!CloseItem(d, j)
           step == [p \in X \X (1 .. N) |-> op(p[1], p[2])]
           Rec(g) == g = [s \in SUBSET DOMAIN c.items |->
                            IF s = {} THEN c
                            ELSE op(g[s \ {R!Latest(s)}], R!Latest(s))]
           it == CHOOSE g : Rec(g)
<1>1. R!CloseAll(c) = it[DOMAIN c.items]
  BY DEF R!CloseAll, R!ForEach, R!MapThenFoldSet
<1>2. R!CloseAll(c) = it[1 .. N]
  BY <1>1
<1>3. \A d \in X, j \in 1 .. N : op(d, j) \in X
  OBVIOUS
<1> HIDE DEF op
<1>4. step \in [X \X (1 .. N) -> X] /\ \A d \in X, j \in 1 .. N : step[<<d, j>>] = op(d, j)
  BY <1>3, Zenon
<1> HIDE DEF step
<1>m. \A s \in SUBSET (1 .. N) : s # {} => R!Latest(s) = Max(s) /\ Max(s) \in 1 .. N
  BY MaxOf, Zenon DEF R!Latest, Max
<1>5. \E g : Rec(g)
  <2>1. PICK g \in [SUBSET (1 .. N) -> X] : Folded(c, step, g, N)
    BY <1>4, FoldedExists, Zenon
  <2>2. \A s \in SUBSET (1 .. N) :
          g[s] = IF s = {} THEN c
                 ELSE op(g[s \ {R!Latest(s)}], R!Latest(s))
    <3> SUFFICES ASSUME NEW s \in SUBSET (1 .. N), s # {}
                 PROVE  g[s] = op(g[s \ {R!Latest(s)}], R!Latest(s))
      BY <2>1, Zenon DEF Folded
    <3>1. g[s] = step[<<g[s \ {Max(s)}], Max(s)>>]
      BY <2>1, Zenon DEF Folded
    <3>2. g[s \ {Max(s)}] \in X
      BY <2>1, Zenon
    <3>3. R!Latest(s) = Max(s)
      BY <1>m
    <3> QED BY <3>1, <3>2, <3>3, <1>4, <1>m
  <2>3. g = [s \in SUBSET (1 .. N) |-> g[s]]
    OBVIOUS
  <2>4. Rec(g)
    BY <2>2, <2>3, Zenon
  <2> QED BY <2>4, Zenon
<1>6. Rec(it)
  <2> HIDE DEF Rec
  <2> QED BY <1>5
<1> HIDE DEF it
<1>7. \A s \in SUBSET (1 .. N) :
        it[s] = IF s = {} THEN c ELSE op(it[s \ {Max(s)}], Max(s))
  <2>1. \A s \in SUBSET (1 .. N) : s # {} => R!Latest(s) = Max(s)
    BY <1>m
  <2> QED BY <1>6, <1>m, <2>1, Zenon
<1>8. it[{}] \in X
  BY <1>7, Zenon
<1>9. \A s \in SUBSET (1 .. N) : s # {} /\ it[s \ {Max(s)}] \in X => it[s] \in X
  BY <1>7, <1>3, <1>m, Zenon
<1>10. it[1 .. N] \in X
  BY <1>8, <1>9, FoldedStays, Zenon
<1> QED BY <1>2, <1>10

\* The tool calls of a delta, one after the other.
LEMMA CallsStay ==
  ASSUME NEW X, NEW c \in X, NEW f, NEW n, NEW N \in Nat, DOMAIN f.tools = 1 .. N,
         \A d \in X, j \in 1 .. N : R!ChatTool(d, f.tools[j], <<n, j>>) \in X
  PROVE  CallsOf(c, f, n) \in X
<1> DEFINE op(d, j) == R!ChatTool(d, f.tools[j], <<n, j>>)
           step == [p \in X \X (1 .. N) |-> op(p[1], p[2])]
           Rec(g) == g = [s \in SUBSET DOMAIN f.tools |->
                            IF s = {} THEN c
                            ELSE op(g[s \ {R!Latest(s)}], R!Latest(s))]
           it == CHOOSE g : Rec(g)
<1>1. CallsOf(c, f, n) = it[DOMAIN f.tools]
  BY DEF CallsOf, R!ForEach, R!MapThenFoldSet
<1>2. CallsOf(c, f, n) = it[1 .. N]
  BY <1>1
<1>3. \A d \in X, j \in 1 .. N : op(d, j) \in X
  OBVIOUS
<1> HIDE DEF op
<1>4. step \in [X \X (1 .. N) -> X] /\ \A d \in X, j \in 1 .. N : step[<<d, j>>] = op(d, j)
  BY <1>3
<1> HIDE DEF step
<1>m. \A s \in SUBSET (1 .. N) : s # {} => R!Latest(s) = Max(s) /\ Max(s) \in 1 .. N
  BY MaxOf, Zenon DEF R!Latest, Max
<1>5. \E g : Rec(g)
  <2>1. PICK g \in [SUBSET (1 .. N) -> X] : Folded(c, step, g, N)
    BY <1>4, FoldedExists, Zenon
  <2>2. \A s \in SUBSET (1 .. N) :
          g[s] = IF s = {} THEN c
                 ELSE op(g[s \ {R!Latest(s)}], R!Latest(s))
    <3> SUFFICES ASSUME NEW s \in SUBSET (1 .. N), s # {}
                 PROVE  g[s] = op(g[s \ {R!Latest(s)}], R!Latest(s))
      BY <2>1, Zenon DEF Folded
    <3>1. g[s] = step[<<g[s \ {Max(s)}], Max(s)>>]
      BY <2>1, Zenon DEF Folded
    <3>2. g[s \ {Max(s)}] \in X
      BY <2>1, Zenon
    <3>3. R!Latest(s) = Max(s)
      BY <1>m
    <3> QED BY <3>1, <3>2, <3>3, <1>4, <1>m
  <2>3. g = [s \in SUBSET (1 .. N) |-> g[s]]
    OBVIOUS
  <2>4. Rec(g)
    BY <2>2, <2>3, Zenon
  <2> QED BY <2>4, Zenon
<1>6. Rec(it)
  <2> HIDE DEF Rec
  <2> QED BY <1>5
<1> HIDE DEF it
<1>7. \A s \in SUBSET (1 .. N) :
        it[s] = IF s = {} THEN c ELSE op(it[s \ {Max(s)}], Max(s))
  <2>1. \A s \in SUBSET (1 .. N) : s # {} => R!Latest(s) = Max(s)
    BY <1>m
  <2> QED BY <1>6, <1>m, <2>1, Zenon
<1>8. it[{}] \in X
  BY <1>7, Zenon
<1>9. \A s \in SUBSET (1 .. N) : s # {} /\ it[s \ {Max(s)}] \in X => it[s] \in X
  BY <1>7, <1>3, <1>m, Zenon
<1>10. it[1 .. N] \in X
  BY <1>8, <1>9, FoldedStays, Zenon
<1> QED BY <1>2, <1>10

\* The events of a body, one after the other.
LEMMA BodyStays ==
  ASSUME NEW X, NEW c \in X, NEW u, NEW body, NEW N \in Nat, DOMAIN body = 1 .. N,
         \A d \in X, j \in 1 .. N : R!Convert(d, u, body[j], j) \in X
  PROVE  ConvertedBody(c, u, body) \in X
<1> DEFINE op(d, j) == R!Convert(d, u, body[j], j)
           step == [p \in X \X (1 .. N) |-> op(p[1], p[2])]
           Rec(g) == g = [s \in SUBSET DOMAIN [i \in DOMAIN body |-> i] |->
                            IF s = {} THEN c
                            ELSE op(g[s \ {Max(s)}], [i \in DOMAIN body |-> i][Max(s)])]
           it == CHOOSE g : Rec(g)
<1>1. ConvertedBody(c, u, body) = it[DOMAIN [i \in DOMAIN body |-> i]]
  BY DEF ConvertedBody, FoldLeftDomain, FoldLeft, MapThenFoldSet
<1>2. ConvertedBody(c, u, body) = it[1 .. N]
  BY <1>1
<1>3. \A d \in X, j \in 1 .. N : op(d, j) \in X
  OBVIOUS
<1> HIDE DEF op
<1>4. step \in [X \X (1 .. N) -> X] /\ \A d \in X, j \in 1 .. N : step[<<d, j>>] = op(d, j)
  BY <1>3, Zenon
<1> HIDE DEF step
<1>m. \A s \in SUBSET (1 .. N) : s # {} => Max(s) = Max(s) /\ Max(s) \in 1 .. N
  BY MaxOf, Zenon DEF Max
<1>5. \E g : Rec(g)
  <2>1. PICK g \in [SUBSET (1 .. N) -> X] : Folded(c, step, g, N)
    BY <1>4, FoldedExists, Zenon
  <2>2. \A s \in SUBSET (1 .. N) :
          g[s] = IF s = {} THEN c
                 ELSE op(g[s \ {Max(s)}], [i \in DOMAIN body |-> i][Max(s)])
    <3> SUFFICES ASSUME NEW s \in SUBSET (1 .. N), s # {}
                 PROVE  g[s] = op(g[s \ {Max(s)}], [i \in DOMAIN body |-> i][Max(s)])
      BY <2>1, Zenon DEF Folded
    <3>1. g[s] = step[<<g[s \ {Max(s)}], Max(s)>>]
      BY <2>1, Zenon DEF Folded
    <3>2. g[s \ {Max(s)}] \in X
      BY <2>1, Zenon
    <3>3. [i \in DOMAIN body |-> i][Max(s)] = Max(s)
      BY <1>m
    <3> QED BY <3>1, <3>2, <3>3, <1>4, <1>m
  <2>3. g = [s \in SUBSET (1 .. N) |-> g[s]]
    OBVIOUS
  <2>4. Rec(g)
    BY <2>2, <2>3, Zenon
  <2> QED BY <2>4, Zenon
<1>6. Rec(it)
  <2> HIDE DEF Rec
  <2> QED BY <1>5
<1> HIDE DEF it
<1>7. \A s \in SUBSET (1 .. N) :
        it[s] = IF s = {} THEN c ELSE op(it[s \ {Max(s)}], Max(s))
  <2>1. \A s \in SUBSET (1 .. N) : s # {} => [i \in DOMAIN body |-> i][Max(s)] = Max(s)
    BY <1>m
  <2> QED BY <1>6, <1>m, <2>1, Zenon
<1>8. it[{}] \in X
  BY <1>7, Zenon
<1>9. \A s \in SUBSET (1 .. N) : s # {} /\ it[s \ {Max(s)}] \in X => it[s] \in X
  BY <1>7, <1>3, <1>m, Zenon
<1>10. it[1 .. N] \in X
  BY <1>8, <1>9, FoldedStays, Zenon
<1> QED BY <1>2, <1>10

\* Finding or making an item emits nothing.
LEMMA SaysItem ==
  ASSUME NEW c \in RConv, NEW E, NEW typ \in ItemKinds, NEW key \in Int, NEW d, d = R!WithItem(c, typ, key)
  PROVE  /\ Says(c, d, E) /\ d \in RConv
         /\ R!ItemOf(d, {typ}, key) \in DOMAIN d.items /\ R!ItemOf(d, {typ}, key) # 0
<1>1. \A i : i = R!ItemOf(d, {typ}, key) => d \in RConv /\ Kept(c, d) /\ d.out = c.out /\ i \in DOMAIN d.items /\ i # 0
  BY RWithItem
<1> QED BY <1>1, SaysNone

\* A delta is one event.
LEMMA SaysGrown ==
  ASSUME NEW c, NEW d, NEW i, NEW s, NEW E, NEW e \in E, NEW w, w = <<e>>, Grown(c, d, i, s, w)
  PROVE  Says(c, d, E)
<1>1. Kept(c, d) /\ d.out = c.out \o w
  BY DEF Grown, Becomes
<1>2. w \in Seq(E)
  OBVIOUS
<1> QED BY <1>1, <1>2, SaysMore, Zenon

\* A text or refusal fragment says framing and speech.
LEMMA SaysSpoken ==
  ASSUME NEW c \in RConv, NEW E, Framing(E), Speech(E), NEW kind \in {"text", "refusal"}, NEW stamp \in Stamp,
         NEW d, d = R!MessageDelta(c, kind, stamp)
  PROVE  Says(c, d, E)
<1> DEFINE w == R!WithItem(c, "message", 0)
           i == R!MsgItem(w)
           b == R!OpenPart(w, i, kind)
           s == Append(b.items[i].data, stamp)
           p == Len(b.items[i].parts) + 1
           e == PartSaid("delta", i, p, kind, stamp)
           l == <<e>>
<1>1. Grown(b, d, i, s, l)
  BY RMessageDelta
<1>2. Says(c, w, E) /\ w \in RConv /\ i \in DOMAIN w.items
  <2>1. "message" \in ItemKinds /\ 0 \in Int
    BY DEF ItemKinds
  <2>2. i = R!ItemOf(w, {"message"}, 0)
    BY DEF R!MsgItem
  <2>3. w = R!WithItem(c, "message", 0)
    OBVIOUS
  <2> HIDE DEF w, i
  <2> QED BY <2>1, <2>2, <2>3, SaysItem
<1>3. b = R!OpenPart(w, i, kind)
  OBVIOUS
<1> HIDE DEF w, i, b, s
<1>4. Says(w, b, E) /\ Becomes(w, b, i, b.items[i])
  BY <1>2, <1>3, SaysOpened
<1>5. e \in E
  <2>1. i \in Nat /\ b.items[i] \in RItem
    BY <1>2, <1>4, RFields DEF Becomes
  <2>2. b.items[i].parts \in Seq(RPart)
    BY <2>1, ItemFields
  <2>3. p \in Nat /\ kind \in PartKinds \cup ItemKinds
    BY <2>2 DEF PartKinds
  <2> HIDE DEF p, Stamp, PartKinds, ItemKinds
  <2> QED BY <2>1, <2>3 DEF Speech
<1>6. l = <<e>>
  OBVIOUS
<1> HIDE DEF e, l
<1>7. Says(b, d, E)
  BY <1>1, <1>5, <1>6, SaysGrown
<1> QED BY <1>2, <1>4, <1>7, SaysOn

\* So does a reasoning or argument fragment.
LEMMA SaysGrew ==
  ASSUME NEW c \in RConv, NEW E, Framing(E), Speech(E), NEW i \in DOMAIN c.items, NEW stamp \in Stamp,
         NEW d, d = R!ItemDelta(c, i, stamp)
  PROVE  Says(c, d, E) /\ DOMAIN d.items = DOMAIN c.items
<1> DEFINE b == R!OutputItemAdded(c, i)
           s == Append(b.items[i].data, stamp)
           kind == b.items[i].typ
           zero == 0
           e == PartSaid("delta", i, zero, kind, stamp)
           l == <<e>>
<1>1. Grown(b, d, i, s, l)
  BY RItemDelta
<1>2. b = R!OutputItemAdded(c, i)
  OBVIOUS
<1> HIDE DEF b
<1>3. Says(c, b, E) /\ Becomes(c, b, i, b.items[i])
  BY <1>2, SaysAnnounced, ROutputItemAdded, Zenon
<1>4. e \in E
  <2>1. i \in Nat /\ b.items[i] \in RItem
    BY <1>3, RFields DEF Becomes
  <2>2. kind \in PartKinds \cup ItemKinds /\ zero \in Nat
    BY <2>1, ItemFields
  <2> HIDE DEF kind, zero, Stamp, PartKinds, ItemKinds
  <2> QED BY <2>1, <2>2 DEF Speech
<1>5. l = <<e>>
  OBVIOUS
<1> HIDE DEF e, l, s
<1>6. Says(b, d, E)
  BY <1>1, <1>4, <1>5, SaysGrown
<1>7. DOMAIN d.items = DOMAIN c.items
  BY <1>1, <1>3 DEF Grown, Becomes
<1> QED BY <1>3, <1>6, <1>7, SaysOn

\* Closing an item says framing.
LEMMA SaysClosed ==
  ASSUME NEW c \in RConv, NEW E, Framing(E), NEW i \in DOMAIN c.items, NEW d, d = R!CloseItem(c, i)
  PROVE  Says(c, d, E) /\ DOMAIN d.items = DOMAIN c.items
<1> DEFINE b == ClosingOf(c, i)
           f == [type |-> "data.done", item |-> i, data |-> c.items[i].data]
           e == [type |-> "output_item.done", item |-> i, final |-> b.items[i]]
<1>0. b = ClosingOf(c, i) /\ c.items[i] \in RItem /\ i \in Nat
  BY RFields
<1> HIDE DEF b
<1>1. /\ Becomes(c, d, i, d.items[i])
      /\ c.items[i].done => d = c
      /\ ~c.items[i].done => d.out = b.out \o <<e>>
  BY <1>0, RCloseItem
<1>2. Becomes(c, b, i, b.items[i]) /\ (c.items[i].typ # "message" => b.out = c.out \o <<f>>)
  BY <1>0, RClosing, Zenon
<1>3. Says(c, b, E)
  <2>1. CASE c.items[i].typ = "message"
    <3>1. b = R!ClosePart(c, i)
      BY <1>0, <2>1 DEF ClosingOf
    <3> QED BY <3>1, SaysPartClosed
  <2>2. CASE c.items[i].typ # "message"
    <3>1. c.items[i].data \in Seq(Stamp)
      BY <1>0, ItemFields
    <3>2. f \in E
      BY <1>0, <3>1 DEF Framing
    <3> HIDE DEF f
    <3>3. Kept(c, b) /\ b.out = c.out \o <<f>>
      BY <1>2, <2>2 DEF Becomes
    <3> QED BY <3>2, <3>3, SaysOne
  <2> QED BY <2>1, <2>2
<1>4. e \in E
  <2>1. b.items[i] \in RItem
    BY <1>2 DEF Becomes
  <2> QED BY <1>0, <2>1 DEF Framing
<1> HIDE DEF e, f
<1>5. Kept(c, d) /\ DOMAIN d.items = DOMAIN c.items
  BY <1>1, Zenon DEF Becomes
<1>6. ~c.items[i].done => (b.out \in Seq(E) => d.out \in Seq(E))
  <2>1. b.out \in Seq(E) => b.out \o <<e>> \in Seq(E)
    BY <1>4
  <2> QED BY <1>1, <2>1, Zenon
<1>7. c.out \in Seq(E) => d.out \in Seq(E)
  <2>1. c.items[i].done => d = c
    BY <1>1, Zenon
  <2>2. c.out \in Seq(E) => b.out \in Seq(E)
    BY <1>3 DEF Says
  <2>3. CASE c.items[i].done
    BY <2>1, <2>3
  <2>4. CASE ~c.items[i].done
    BY <1>6, <2>2, <2>4
  <2> QED BY <2>3, <2>4
<1> QED BY <1>5, <1>7 DEF Says

\* Closing all of them says framing.
LEMMA SaysAllClosed ==
  ASSUME NEW c \in RConv, NEW E, Framing(E), NEW d, d = R!CloseAll(c)
  PROVE  Says(c, d, E) /\ DOMAIN d.items = DOMAIN c.items
<1> DEFINE X == {b \in RConv : Says(c, b, E) /\ DOMAIN b.items = DOMAIN c.items}
<1>1. c \in X
  BY DEF Says, Kept
<1>2. DOMAIN c.items = 1 .. Len(c.items) /\ Len(c.items) \in Nat
  BY RFields
<1>3. ASSUME NEW b \in X, NEW j \in 1 .. Len(c.items) PROVE R!CloseItem(b, j) \in X
  <2> DEFINE q == R!CloseItem(b, j)
  <2>1. b \in RConv /\ j \in DOMAIN b.items /\ q = R!CloseItem(b, j)
    BY <1>2, <1>3
  <2> HIDE DEF q
  <2>2. Says(b, q, E) /\ DOMAIN q.items = DOMAIN b.items
    BY <2>1, SaysClosed
  <2>3. Says(c, q, E) /\ q \in RConv
    BY <2>2, <1>3, SaysOn DEF Says, Kept
  <2>4. q \in X
    BY <1>3, <2>2, <2>3
  <2> QED BY <2>4 DEF q
<1>4. d \in X
  <2> HIDE DEF X
  <2> QED BY <1>1, <1>2, <1>3, CloseAllStays
<1> QED BY <1>4

\* A converter that talks and emits events of E talks.
LEMMA TalkOn ==
  ASSUME NEW E, NEW c \in RTalk(E), NEW d, Says(c, d, E)
  PROVE  d \in RTalk(E)
<1> HIDE DEF RConv
<1> QED BY DEF RTalk, Says, Kept

\* So does one that only notes something.
LEMMA TalkNear ==
  ASSUME NEW E, NEW c \in RTalk(E), NEW d, Near(c, d)
  PROVE  d \in RTalk(E)
<1> HIDE DEF RConv
<1> QED BY DEF RTalk, Near

\* Usage is noted.
LEMMA NearUsage ==
  ASSUME NEW c \in RConv, NEW n \in Nat, NEW d, d = R!SetUsage(c, n)
  PROVE  Near(c, d) /\ d.tokens = n /\ d.hasUsage /\ d.closed = c.closed
<1> HIDE DEF REvent, RItem, RReasons
<1>1. \A t \in BOOLEAN : LET x == [c EXCEPT !.tokens = n, !.hasUsage = t] IN
        Near(c, x) /\ x.tokens = n /\ x.hasUsage = t /\ x.closed = c.closed
  BY Zenon DEF RConv, Near
<1>2. d = [c EXCEPT !.tokens = n, !.hasUsage = TRUE]
  BY DEF R!SetUsage
<1> QED BY <1>1, <1>2, Zenon

\* A stop reason is noted.
LEMMA NearReason ==
  ASSUME NEW c \in RConv, NEW r \in RReasons
  PROVE  /\ \A d : d = [c EXCEPT !.stopReason = r] => Near(c, d)
         /\ \A d : d = [c EXCEPT !.stopReason = r, !.closed = TRUE] => Near(c, d)
<1> HIDE DEF REvent, RItem, RReasons
<1>1. \A d : d = [c EXCEPT !.stopReason = r] => Near(c, d)
  BY Zenon DEF RConv, Near
<1>2. \A t \in BOOLEAN : \A d : d = [c EXCEPT !.stopReason = r, !.closed = t] => Near(c, d)
  BY Zenon DEF RConv, Near
<1>3. TRUE \in BOOLEAN
  OBVIOUS
<1> QED BY <1>1, <1>2, <1>3, Zenon

\* That the choice is closed is noted.
LEMMA NearClosed ==
  ASSUME NEW c \in RConv, NEW d, d = [c EXCEPT !.closed = TRUE]
  PROVE  Near(c, d)
<1> HIDE DEF REvent, RItem, RReasons
<1>2. \A t \in BOOLEAN : \A x : x = [c EXCEPT !.closed = t] => Near(c, x)
  BY Zenon DEF RConv, Near
<1>3. TRUE \in BOOLEAN
  OBVIOUS
<1> QED BY <1>2, <1>3, Zenon

\* The block a message belongs to is noted.
LEMMA NearBlock ==
  ASSUME NEW c \in RConv, NEW n \in Nat, NEW d, d = [c EXCEPT !.msgBlock = n]
  PROVE  Near(c, d)
<1> HIDE DEF REvent, RItem, RReasons
<1> QED BY DEF RConv, Near

\* Nothing is noted.
LEMMA NearSame == ASSUME NEW c \in RConv PROVE Near(c, c)
  BY DEF Near

\* The key of a call without an index is noted.
LEMMA NearAnon ==
  ASSUME NEW c \in RConv, NEW k \in Int
  PROVE  /\ \A d : d = [c EXCEPT !.anonKey = k] => Near(c, d)
         /\ \A g \in [ToolIds -> Int] : \A d : d = [c EXCEPT !.anonKey = k, !.idToKey = g] => Near(c, d)
<1> HIDE DEF REvent, RItem, RReasons
<1> QED BY Zenon DEF RConv, Near

\* A call gets its key.
LEMMA NearKey ==
  ASSUME NEW c \in RConv, NEW f \in A!Fragment, NEW d, d = R!AnonToolKey(c, f)
  PROVE  Near(c, d) /\ R!ToolKey(c, f) \in Int
<1> DEFINE key == R!ToolKey(c, f)
<1>0. /\ f.index \in Nat \cup {None} /\ f.id \in ToolIds \cup {None}
      /\ c.anonKey \in Int /\ c.idToKey \in [ToolIds -> Int]
  BY RFields DEF A!Fragment
<1>1. key \in Int
  BY <1>0 DEF R!ToolKey
<1> HIDE DEF key
<1>2. \/ d = c
      \/ d = [c EXCEPT !.anonKey = key]
      \/ f.id \in ToolIds /\ d = [c EXCEPT !.anonKey = key, !.idToKey[f.id] = key]
  BY <1>0 DEF R!AnonToolKey, key
<1>3. Near(c, d)
  <2>1. ASSUME d = c PROVE Near(c, d)
    BY <2>1, NearSame
  <2>2. ASSUME d = [c EXCEPT !.anonKey = key] PROVE Near(c, d)
    BY <1>1, <2>2, NearAnon, Zenon
  <2>3. ASSUME f.id \in ToolIds /\ d = [c EXCEPT !.anonKey = key, !.idToKey[f.id] = key] PROVE Near(c, d)
    <3> DEFINE g == [c.idToKey EXCEPT ![f.id] = key]
    <3>1. g \in [ToolIds -> Int]
      BY <1>0, <1>1, Zenon
    <3>2. d = [c EXCEPT !.anonKey = key, !.idToKey = g]
      BY <2>3
    <3> HIDE DEF g
    <3> QED BY <1>1, <3>1, <3>2, NearAnon, Zenon
  <2> QED BY <1>2, <2>1, <2>2, <2>3
<1> QED BY <1>1, <1>3 DEF key

\* A tool call's fragment keeps the converter talking.
LEMMA TalkCall ==
  ASSUME NEW E, Framing(E), Speech(E), NEW c \in RTalk(E), NEW f \in A!Fragment, NEW stamp \in Stamp
  PROVE  R!ChatTool(c, f, stamp) \in RTalk(E)
<1> DEFINE a == R!AnonToolKey(c, f)
           key == R!ToolKey(c, f)
           k == R!WithItem(a, "function_call", key)
           i == R!ItemOf(k, {"function_call"}, key)
           d == R!OutputItemAdded(k, i)
           e == R!ItemDelta(d, i, stamp)
<1>0. R!ChatTool(c, f, stamp) \in {d, e}
  BY DEF R!ChatTool
<1>1. /\ a = R!AnonToolKey(c, f) /\ k = R!WithItem(a, "function_call", key) /\ i = R!ItemOf(k, {"function_call"}, key)
      /\ d = R!OutputItemAdded(k, i) /\ e = R!ItemDelta(d, i, stamp)
  OBVIOUS
<1>2. c \in RConv /\ "function_call" \in ItemKinds
  BY DEF RTalk, ItemKinds
<1>3. key \in Int
  BY <1>2, NearKey
<1> HIDE DEF a, key, k, i, d, e
<1>4. Near(c, a)
  BY <1>1, <1>2, NearKey
<1>5. a \in RTalk(E) /\ a \in RConv
  BY <1>4, TalkNear DEF Near
<1>6. Says(a, k, E) /\ k \in RConv /\ i \in DOMAIN k.items
  BY <1>1, <1>2, <1>3, <1>5, SaysItem
<1>7. k \in RTalk(E)
  BY <1>5, <1>6, TalkOn
<1>8. Says(k, d, E) /\ Becomes(k, d, i, d.items[i])
  <2>1. Says(k, d, E)
    BY <1>1, <1>6, SaysAnnounced
  <2>2. d = R!OutputItemAdded(k, i)
    BY <1>1
  <2>3. Becomes(k, d, i, d.items[i])
    BY <1>6, <2>2, ROutputItemAdded, Zenon
  <2> QED BY <2>1, <2>3
<1>9. d \in RTalk(E) /\ d \in RConv /\ i \in DOMAIN d.items
  BY <1>6, <1>7, <1>8, TalkOn, BecomesFacts
<1>10. Says(d, e, E)
  BY <1>1, <1>9, SaysGrew
<1>11. e \in RTalk(E)
  BY <1>9, <1>10, TalkOn
<1> QED BY <1>0, <1>9, <1>11

\* A reasoning fragment keeps the converter talking.
LEMMA TalkReasoned ==
  ASSUME NEW E, Framing(E), Speech(E), NEW c \in RTalk(E), NEW stamp \in Stamp
  PROVE  R!Reasoning(c, stamp) \in RTalk(E)
<1> DEFINE w == R!WithItem(c, "reasoning", 0)
           i == R!ItemOf(w, {"reasoning"}, 0)
           d == R!ItemDelta(w, i, stamp)
<1>0. R!Reasoning(c, stamp) = d
  BY DEF R!Reasoning
<1>1. c \in RConv /\ "reasoning" \in ItemKinds /\ 0 \in Int
  BY DEF RTalk, ItemKinds
<1>2. w = R!WithItem(c, "reasoning", 0) /\ i = R!ItemOf(w, {"reasoning"}, 0) /\ d = R!ItemDelta(w, i, stamp)
  OBVIOUS
<1> HIDE DEF w, i, d
<1>3. Says(c, w, E) /\ w \in RConv /\ i \in DOMAIN w.items
  BY <1>1, <1>2, SaysItem
<1>4. Says(w, d, E)
  BY <1>2, <1>3, SaysGrew
<1>5. d \in RTalk(E)
  BY <1>3, <1>4, TalkOn
<1> QED BY <1>0, <1>5

\* Closing the items keeps the converter talking.
LEMMA TalkClosed ==
  ASSUME NEW E, Framing(E), NEW c \in RTalk(E)
  PROVE  R!CloseAll(c) \in RTalk(E)
<1> DEFINE d == R!CloseAll(c)
<1>1. c \in RConv /\ d = R!CloseAll(c)
  BY DEF RTalk
<1> HIDE DEF d
<1>2. d \in RTalk(E)
  BY <1>1, SaysAllClosed, TalkOn
<1> QED BY <1>2 DEF d

\* A text or refusal fragment keeps the converter talking.
LEMMA TalkSpoken ==
  ASSUME NEW E, Framing(E), Speech(E), NEW c \in RTalk(E), NEW kind \in {"text", "refusal"}, NEW stamp \in Stamp
  PROVE  R!MessageDelta(c, kind, stamp) \in RTalk(E)
<1> DEFINE d == R!MessageDelta(c, kind, stamp)
<1>1. c \in RConv /\ d = R!MessageDelta(c, kind, stamp)
  BY DEF RTalk
<1> HIDE DEF d
<1>2. d \in RTalk(E)
  BY <1>1, SaysSpoken, TalkOn
<1> QED BY <1>2 DEF d

\* A fragment of an item keeps the converter talking.
LEMMA TalkGrew ==
  ASSUME NEW E, Framing(E), Speech(E), NEW c \in RTalk(E), NEW i \in DOMAIN c.items, NEW stamp \in Stamp
  PROVE  R!ItemDelta(c, i, stamp) \in RTalk(E)
<1> DEFINE d == R!ItemDelta(c, i, stamp)
<1>1. c \in RConv /\ d = R!ItemDelta(c, i, stamp)
  BY DEF RTalk
<1> HIDE DEF d
<1>2. d \in RTalk(E)
  BY <1>1, SaysGrew, TalkOn
<1> QED BY <1>2 DEF d

\* All fragments of a chunk's tool calls do.
LEMMA TalkCalls ==
  ASSUME NEW E, Framing(E), NEW c \in RTalk(E), NEW f \in A!Chunk, NEW n \in Nat, Speech(E) \/ f.tools = <<>>
  PROVE  CallsOf(c, f, n) \in RTalk(E)
<1> DEFINE X == RTalk(E)
           N == Len(f.tools)
<1>1. f.tools \in Seq(A!Fragment)
  BY DEF A!Chunk
<1>2. N \in Nat /\ DOMAIN f.tools = 1 .. N
  BY <1>1
<1>3. ASSUME NEW d \in X, NEW j \in 1 .. N
      PROVE  R!ChatTool(d, f.tools[j], <<n, j>>) \in X
  <2>1. f.tools[j] \in A!Fragment /\ Speech(E)
    BY <1>1, <1>2
  <2>2. <<n, j>> \in Stamp
    BY <1>2 DEF Stamp
  <2> QED BY <2>1, <2>2, TalkCall
<1>4. c \in X
  OBVIOUS
<1> HIDE DEF X, N
<1>5. CallsOf(c, f, n) \in X
  BY <1>2, <1>3, <1>4, CallsStay
<1> QED BY <1>5 DEF X

\* A chunk's delta keeps the converter talking.
LEMMA TalkSaid ==
  ASSUME NEW E, Framing(E), NEW c \in RTalk(E), NEW f \in A!Chunk, NEW n \in Nat,
         Speech(E) \/ ~(f.think \/ f.text \/ f.refusal \/ f.tools # <<>>)
  PROVE  R!ChatDelta(c, f, n) \in RTalk(E)
<1> DEFINE c1 == IF f.think THEN R!Reasoning(c, <<n, 0>>) ELSE c
           c2 == IF f.text THEN R!MessageDelta(c1, "text", <<n, 0>>) ELSE c1
           c3 == IF f.refusal THEN R!MessageDelta(c2, "refusal", <<n, 0>>) ELSE c2
<1>0. <<n, 0>> \in Stamp /\ "text" \in {"text", "refusal"} /\ "refusal" \in {"text", "refusal"}
  BY DEF Stamp
<1>1. c1 \in RTalk(E)
  BY <1>0, TalkReasoned
<1> HIDE DEF c1
<1>2. c2 \in RTalk(E)
  BY <1>0, <1>1, TalkSpoken
<1> HIDE DEF c2
<1>3. c3 \in RTalk(E)
  BY <1>0, <1>2, TalkSpoken
<1>4. R!ChatDelta(c, f, n) = CallsOf(c3, f, n)
  BY Zenon DEF R!ChatDelta, CallsOf, c1, c2
<1> HIDE DEF c3
<1>5. CallsOf(c3, f, n) \in RTalk(E)
  BY <1>3, TalkCalls
<1> QED BY <1>4, <1>5

\* A finish reason keeps it talking or completes the response.
LEMMA TalkFinish ==
  ASSUME NEW E, Framing(E), NEW c \in RTalk(E), NEW r \in RReasons, NEW d, d = R!ChatFinish(c, r)
  PROVE  d \in RTalk(E) \/ RDone(d, E)
<1> DEFINE b == R!CloseAll(c)
           k == [b EXCEPT !.stopReason = r, !.closed = TRUE]
<1>1. b \in RTalk(E) /\ b \in RConv
  BY TalkClosed DEF RTalk
<1>2. d = k \/ d = R!Completed(k)
  BY DEF R!ChatFinish
<1> HIDE DEF b
<1>3. k \in RTalk(E)
  <2>1. \A x : x = [b EXCEPT !.stopReason = r, !.closed = TRUE] => Near(b, x)
    BY <1>1, NearReason, Zenon
  <2>2. Near(b, k)
    BY <2>1
  <2> HIDE DEF k
  <2> QED BY <1>1, <2>2, TalkNear
<1> HIDE DEF k
<1> QED BY <1>2, <1>3 DEF RDone

\* A chunk fails the response, completes it or keeps it talking.
LEMMA ChunkSays ==
  ASSUME NEW E, Framing(E), NEW b \in RTalk(E), NEW f \in A!Chunk, NEW n \in Nat,
         Speech(E) \/ ~(f.think \/ f.text \/ f.refusal \/ f.tools # <<>>),
         NEW d, d = R!ChatChunk(b, f, n)
  PROVE  IF f.error # "absent" THEN RFailed(d, E) ELSE d \in RTalk(E) \/ RDone(d, E)
<1> DEFINE c == IF f.usage = "real" THEN R!SetUsage(b, n) ELSE b
           k == R!ChatDelta(c, f, n)
<1>1. c \in RTalk(E)
  <2> DEFINE x == R!SetUsage(b, n)
  <2>1. b \in RConv /\ x = R!SetUsage(b, n)
    BY DEF RTalk
  <2>2. c = x \/ c = b
    OBVIOUS
  <2> HIDE DEF x, c
  <2>3. x \in RTalk(E)
    BY <2>1, NearUsage, TalkNear
  <2> QED BY <2>2, <2>3
<1>2. CASE f.error # "absent"
  <2>1. d = R!Fail(b)
    BY <1>2 DEF R!ChatChunk
  <2> QED BY <1>2, <2>1 DEF RFailed
<1>3. CASE f.error = "absent"
  <2>1. \/ d = c \/ d = R!Completed(c) \/ d = k
        \/ f.finish # None /\ d = R!ChatFinish(k, f.finish)
    BY <1>3 DEF R!ChatChunk
  <2> HIDE DEF c
  <2>2. k \in RTalk(E)
    BY <1>1, TalkSaid
  <2>3. f.finish # None => f.finish \in RReasons
    BY DEF A!Chunk, RReasons
  <2> HIDE DEF k
  <2>4. f.finish # None /\ d = R!ChatFinish(k, f.finish) => d \in RTalk(E) \/ RDone(d, E)
    BY <2>2, <2>3, TalkFinish
  <2>5. d = R!Completed(c) => RDone(d, E)
    BY <1>1 DEF RDone
  <2> QED BY <1>1, <1>3, <2>1, <2>2, <2>4, <2>5
<1> QED BY <1>2, <1>3

\* The message item exists once it has been asked for.
LEMMA RMsgItem ==
  ASSUME NEW c \in RConv, NEW w, w = R!WithItem(c, "message", 0), NEW i, i = R!MsgItem(w), NEW E
  PROVE  Says(c, w, E) /\ w \in RConv /\ i \in DOMAIN w.items
<1>1. "message" \in ItemKinds /\ 0 \in Int
  BY DEF ItemKinds
<1>2. i = R!ItemOf(w, {"message"}, 0)
  BY DEF R!MsgItem
<1> QED BY <1>1, <1>2, SaysItem

\* content_block_start keeps the converter talking.
LEMMA TalkStarts ==
  ASSUME NEW E, Framing(E), NEW c \in RTalk(E), NEW e \in O!Event
  PROVE  R!BlockStarts(c, e) \in RTalk(E)
<1>0. e.index \in Nat /\ e.index \in Int /\ c \in RConv
  BY DEF O!Event, RTalk
<1>1. CASE e.kind # "text"
  <2> DEFINE typ == IF e.kind = "tool" THEN "function_call" ELSE "reasoning"
             key == e.index
             d == [c EXCEPT !.items = Append(@, R!NewItem(typ, key))]
             l == Len(d.items)
             r == R!OutputItemAdded(d, l)
  <2>1. R!BlockStarts(c, e) = r
    BY <1>1 DEF R!BlockStarts
  <2>2. typ \in ItemKinds /\ key \in Int
    BY <1>0 DEF ItemKinds
  <2>3. d = [c EXCEPT !.items = Append(@, R!NewItem(typ, key))] /\ l = Len(d.items) /\ r = R!OutputItemAdded(d, l)
    OBVIOUS
  <2> HIDE DEF typ, key, d, l, r
  <2>4. NewOne(c, d, typ, key)
    BY <1>0, <2>2, <2>3, RNewOne
  <2>5. Kept(c, d) /\ d.out = c.out /\ l \in DOMAIN d.items /\ d \in RConv
    BY <2>3, <2>4 DEF NewOne, Kept
  <2>6. d \in RTalk(E)
    BY <2>5, SaysNone, TalkOn
  <2>7. r = R!OutputItemAdded(d, l)
    BY <2>3
  <2>8. r \in RTalk(E)
    BY <2>5, <2>6, <2>7, SaysAnnounced, TalkOn
  <2> QED BY <2>1, <2>8
<1>2. CASE e.kind = "text"
  <2> DEFINE w == R!WithItem(c, "message", 0)
             i == R!MsgItem(w)
             m == [w EXCEPT !.msgBlock = e.index]
             r == R!OpenPart(m, i, "text")
  <2>1. R!BlockStarts(c, e) \in {w, r}
    BY <1>2 DEF R!BlockStarts
  <2>2. w = R!WithItem(c, "message", 0) /\ i = R!MsgItem(w)
    OBVIOUS
  <2>3. m = [w EXCEPT !.msgBlock = e.index]
    OBVIOUS
  <2>4. r = R!OpenPart(m, i, "text") /\ "text" \in {"text", "refusal"}
    OBVIOUS
  <2> HIDE DEF w, i, m, r
  <2>5. Says(c, w, E) /\ w \in RConv /\ i \in DOMAIN w.items
    BY <1>0, <2>2, RMsgItem
  <2>6. w \in RTalk(E)
    BY <2>5, TalkOn
  <2>7. Near(w, m)
    BY <1>0, <2>3, <2>5, NearBlock
  <2>8. m \in RTalk(E) /\ m \in RConv /\ i \in DOMAIN m.items
    BY <2>5, <2>6, <2>7, TalkNear DEF Near
  <2>9. r \in RTalk(E)
    BY <2>4, <2>8, SaysOpened, TalkOn
  <2> QED BY <2>1, <2>6, <2>9
<1> QED BY <1>1, <1>2

\* content_block_delta keeps the converter talking.
LEMMA TalkGrows ==
  ASSUME NEW E, Framing(E), Speech(E), NEW c \in RTalk(E), NEW e \in O!Event, NEW n \in Nat
  PROVE  R!BlockGrows(c, e, n) \in RTalk(E)
<1>0. e.index \in Nat /\ c \in RConv
  BY DEF O!Event, RTalk
<1>s. <<n, 0>> \in Stamp /\ "text" \in {"text", "refusal"}
  BY DEF Stamp
<1> DEFINE m == [c EXCEPT !.msgBlock = e.index]
           i == R!BlockItem(c, e.index)
<1>1. R!BlockGrows(c, e, n) = IF e.kind = "text" THEN R!MessageDelta(m, "text", <<n, 0>>)
                              ELSE IF i = 0 THEN c ELSE R!ItemDelta(c, i, <<n, 0>>)
  BY DEF R!BlockGrows
<1>2. m \in RTalk(E)
  <2>1. m = [c EXCEPT !.msgBlock = e.index]
    OBVIOUS
  <2> HIDE DEF m
  <2> QED BY <1>0, <2>1, NearBlock, TalkNear
<1>3. i = 0 \/ i \in DOMAIN c.items
  <2>1. i = R!ItemOf(c, {"function_call", "reasoning"}, e.index)
    BY DEF R!BlockItem
  <2> HIDE DEF i
  <2> QED BY <1>0, <2>1, RItemOf
<1> HIDE DEF m, i
<1>4. CASE e.kind = "text"
  BY <1>s, <1>1, <1>2, <1>4, TalkSpoken
<1>5. CASE e.kind # "text"
  BY <1>s, <1>1, <1>3, <1>5, TalkGrew
<1> QED BY <1>4, <1>5

\* content_block_stop keeps the converter talking.
LEMMA TalkStops ==
  ASSUME NEW E, Framing(E), NEW c \in RTalk(E), NEW e \in O!Event
  PROVE  R!BlockStops(c, e) \in RTalk(E)
<1> DEFINE m == R!MsgItem(c)
           i == R!BlockItem(c, e.index)
           p == R!ClosePart(c, m)
           d == R!CloseItem(c, i)
<1>0. c \in RConv
  BY DEF RTalk
<1>1. R!BlockStops(c, e) = c \/ (m # 0 /\ R!BlockStops(c, e) = p) \/ (i # 0 /\ R!BlockStops(c, e) = d)
  BY DEF R!BlockStops
<1>2. i = 0 \/ i \in DOMAIN c.items
  <2>1. i = R!ItemOf(c, {"function_call", "reasoning"}, e.index)
    BY DEF R!BlockItem
  <2> HIDE DEF i
  <2> QED BY <1>0, <2>1, RItemOf
<1>3. m = 0 \/ m \in DOMAIN c.items
  <2>1. m = R!ItemOf(c, {"message"}, 0)
    BY DEF R!MsgItem
  <2> HIDE DEF m
  <2> QED BY <1>0, <2>1, RItemOf
<1>4. p = R!ClosePart(c, m)
  OBVIOUS
<1>5. d = R!CloseItem(c, i)
  OBVIOUS
<1> HIDE DEF m, i, p, d
<1>6. m # 0 => p \in RTalk(E)
  BY <1>0, <1>3, <1>4, SaysPartClosed, TalkOn
<1>7. i # 0 => d \in RTalk(E)
  BY <1>0, <1>2, <1>5, SaysClosed, TalkOn
<1> QED BY <1>1, <1>6, <1>7

\* An event fails the response, completes it or keeps it talking.
LEMMA EventSays ==
  ASSUME NEW E, Framing(E), NEW c \in RTalk(E), NEW e \in O!Event, NEW n \in Nat,
         Speech(E) \/ e.type # "content_block_delta",
         NEW d, d = R!AnthropicEvent(c, e, n)
  PROVE  CASE e.type = "error" -> RFailed(d, E)
           [] e.type = "message_stop" -> RDone(d, E)
           [] OTHER -> d \in RTalk(E)
<1>0. e.type \in {"message_start", "content_block_start", "content_block_delta",
                  "content_block_stop", "message_delta", "message_stop", "ping", "error"}
  BY DEF O!Event
<1>u. ASSUME NEW x \in RTalk(E), NEW y, y = R!SetUsage(x, n) PROVE y \in RTalk(E)
  <2>1. x \in RConv
    BY DEF RTalk
  <2> QED BY <1>u, <2>1, NearUsage, TalkNear
<1>1. CASE e.type = "error"
  <2>1. d = R!Fail(c)
    BY <1>1 DEF R!AnthropicEvent
  <2> QED BY <1>1, <2>1 DEF RFailed
<1>2. CASE e.type = "message_stop"
  <2>1. d = R!Completed(R!CloseAll(c))
    BY <1>2 DEF R!AnthropicEvent
  <2>2. R!CloseAll(c) \in RTalk(E)
    BY TalkClosed
  <2> QED BY <1>2, <2>1, <2>2 DEF RDone
<1>3. CASE e.type \notin {"error", "message_stop"}
  <2>1. CASE e.type = "content_block_start"
    BY <2>1, TalkStarts DEF R!AnthropicEvent
  <2>2. CASE e.type = "content_block_delta"
    BY <2>2, TalkGrows DEF R!AnthropicEvent
  <2>3. CASE e.type = "content_block_stop"
    BY <2>3, TalkStops DEF R!AnthropicEvent
  <2>4. CASE e.type = "message_start"
    <3>1. d = R!SetUsage(c, n) \/ d = c
      BY <2>4 DEF R!AnthropicEvent
    <3>2. d \in RTalk(E)
      BY <1>u, <3>1
    <3> QED BY <2>4, <3>2
  <2>5. CASE e.type = "message_delta"
    <3> DEFINE x == IF e.reason = None THEN c ELSE [c EXCEPT !.stopReason = e.reason]
    <3>1. d = R!SetUsage(x, n) \/ d = x
      BY <2>5 DEF R!AnthropicEvent
    <3>2. x \in RTalk(E)
      <4>1. e.reason # None => e.reason \in RReasons
        BY DEF O!Event, RReasons
      <4>2. c \in RConv
        BY DEF RTalk
      <4>3. x = c \/ (e.reason # None /\ x = [c EXCEPT !.stopReason = e.reason])
        OBVIOUS
      <4> HIDE DEF x
      <4> QED BY <4>1, <4>2, <4>3, NearReason, TalkNear, Zenon
    <3> HIDE DEF x
    <3>3. d \in RTalk(E)
      BY <1>u, <3>1, <3>2
    <3> QED BY <2>5, <3>3
  <2>6. CASE e.type = "ping"
    <3>1. d = c
      BY <2>6 DEF R!AnthropicEvent
    <3> QED BY <2>6, <3>1
  <2> QED BY <1>0, <1>3, <2>1, <2>2, <2>3, <2>4, <2>5, <2>6
<1> QED BY <1>1, <1>2, <1>3

\* response.created and response.in_progress start the talk, once.
LEMMA RBeginTalks ==
  ASSUME NEW E, Opening(E), NEW c, RAlive(c, E)
  PROVE  R!Begin(c) \in RTalk(E)
<1>1. CASE c \in RTalk(E)
  BY <1>1 DEF R!Begin, RTalk
<1>2. CASE RFresh(c)
  <2> DEFINE a == [type |-> "response.created"]
             b == [type |-> "response.in_progress"]
             w == <<a, b>>
             e == R!Emit(c, w)
  <2>0. c \in RConv /\ ~c.started /\ ~c.finished /\ ~c.errored /\ c.out = <<>>
    BY <1>2 DEF RFresh
  <2>1. w \in Seq(E) /\ w \in Seq(REvent)
    <3>1. a \in REvent /\ b \in REvent
      BY REventOf
    <3>2. a \in E /\ b \in E
      BY DEF Opening
    <3> HIDE DEF a, b
    <3> QED BY <3>1, <3>2
  <2>2. R!Begin(c) = [e EXCEPT !.started = TRUE]
    BY <2>0 DEF R!Begin
  <2> HIDE DEF w
  <2>3. Kept(c, e) /\ e.items = c.items /\ e.out = c.out \o w
    BY <2>0, <2>1, REmit, Zenon
  <2>4. e.out \in Seq(E)
    <3>1. \A o \in Seq(E) : o \o w \in Seq(E)
      BY <2>1
    <3>2. c.out \in Seq(E)
      BY <2>0
    <3> QED BY <2>3, <3>1, <3>2
  <2> HIDE DEF e
  <2>5. e \in RConv /\ ~e.finished /\ ~e.errored
    BY <2>0, <2>3 DEF Kept
  <2>6. \A t \in BOOLEAN : \A d : d = [e EXCEPT !.started = t] =>
          d \in RConv /\ d.started = t /\ d.finished = e.finished /\ d.errored = e.errored /\ d.out = e.out
    <3> HIDE DEF REvent, RItem, RReasons
    <3> QED BY <2>5, Zenon DEF RConv
  <2>7. TRUE \in BOOLEAN
    OBVIOUS
  <2> DEFINE d == R!Begin(c)
  <2> HIDE DEF d
  <2>8. d \in RConv /\ d.started = TRUE /\ d.finished = e.finished /\ d.errored = e.errored /\ d.out = e.out
    BY <2>2, <2>6, <2>7, Zenon DEF d
  <2>9. d \in RTalk(E)
    BY <2>4, <2>5, <2>8 DEF RTalk
  <2> QED BY <2>9 DEF d
<1> QED BY <1>1, <1>2 DEF RAlive

\* Convert fails the response, completes it or keeps it talking, for both
\* upstream formats.
LEMMA ConvertSays ==
  ASSUME NEW E, Opening(E), Framing(E), NEW c, RAlive(c, E), NEW n \in Nat, NEW u, NEW f,
         NEW d, d = R!Convert(c, u, f, n)
  PROVE  /\ f.type = "malformed" => d \in RTalk(E)
         /\ u = "anthropic" /\ f \in O!Event /\ (Speech(E) \/ f.type # "content_block_delta") =>
              CASE f.type = "error" -> RFailed(d, E)
                [] f.type = "message_stop" -> RDone(d, E)
                [] OTHER -> d \in RTalk(E)
         /\ u = "openai" /\ f \in A!Chunk
              /\ (Speech(E) \/ ~(f.think \/ f.text \/ f.refusal \/ f.tools # <<>>)) =>
              IF f.error # "absent" THEN RFailed(d, E) ELSE d \in RTalk(E) \/ RDone(d, E)
<1> DEFINE b == R!Begin(c)
<1>1. b \in RTalk(E)
  BY RBeginTalks
<1>2. ~b.finished
  BY <1>1 DEF RTalk
<1>3. d = IF f.type = "malformed" THEN b
          ELSE IF u = "anthropic" THEN R!AnthropicEvent(b, f, n) ELSE R!ChatChunk(b, f, n)
  BY <1>2 DEF R!Convert
<1> HIDE DEF b
<1>4. f.type = "malformed" => d \in RTalk(E)
  BY <1>1, <1>3
<1>5. ASSUME u = "anthropic", f \in O!Event, Speech(E) \/ f.type # "content_block_delta"
      PROVE CASE f.type = "error" -> RFailed(d, E)
              [] f.type = "message_stop" -> RDone(d, E)
              [] OTHER -> d \in RTalk(E)
  <2>1. f.type # "malformed"
    BY <1>5 DEF O!Event
  <2>2. d = R!AnthropicEvent(b, f, n)
    BY <1>3, <1>5, <2>1
  <2> QED BY <1>1, <1>5, <2>2, EventSays
<1>6. ASSUME u = "openai", f \in A!Chunk, Speech(E) \/ ~(f.think \/ f.text \/ f.refusal \/ f.tools # <<>>)
      PROVE IF f.error # "absent" THEN RFailed(d, E) ELSE d \in RTalk(E) \/ RDone(d, E)
  <2>1. f.type # "malformed"
    BY <1>6 DEF A!Chunk
  <2>2. d = R!ChatChunk(b, f, n)
    BY <1>3, <1>6, <2>1
  <2> QED BY <1>1, <1>6, <2>2, ChunkSays
<1> QED BY <1>4, <1>5, <1>6

\* A finished converter ignores what follows.
LEMMA ConvertSkips ==
  ASSUME NEW c, ROver(c), NEW u, NEW f, NEW n
  PROVE  R!Convert(c, u, f, n) = c
  BY DEF ROver, R!Convert, R!Begin

\* CloseStream completes a response that was not over.
LEMMA CloseDone ==
  ASSUME NEW E, Opening(E), Framing(E), NEW c, RAlive(c, E)
  PROVE  RDone(R!CloseStream(c), E)
<1> DEFINE b == R!Begin(c)
           k == R!CloseAll(b)
           x == [k EXCEPT !.closed = TRUE]
<1>0. ~c.finished
  BY DEF RAlive, RFresh, RTalk
<1>1. b \in RTalk(E)
  BY RBeginTalks
<1>2. R!CloseStream(c) = R!Completed(b) \/ R!CloseStream(c) = R!Completed(x)
  BY <1>0 DEF R!CloseStream
<1> HIDE DEF b
<1>3. k \in RTalk(E) /\ k \in RConv
  BY <1>1, TalkClosed DEF RTalk
<1> HIDE DEF k
<1>4. x = [k EXCEPT !.closed = TRUE]
  OBVIOUS
<1> HIDE DEF x
<1>5. x \in RTalk(E)
  BY <1>3, <1>4, NearClosed, TalkNear
<1> QED BY <1>1, <1>2, <1>5 DEF RDone

\* A completed response has one last event more.
LEMMA DoneIs ==
  ASSUME NEW k \in RConv, NEW d, d = R!Completed(k)
  PROVE  /\ d \in RConv /\ d.started = k.started /\ d.finished /\ d.errored = k.errored /\ d.tokens = k.tokens
         /\ d.out = k.out \o <<LastSaid(k)>> /\ LastSaid(k) \in REvent
         /\ LastSaid(k).type \in {"response.completed", "response.incomplete", "response.failed"}
<1> DEFINE e == LastSaid(k)
           m == R!Emit(k, <<e>>)
<1>1. e \in REvent /\ e.type \in {"response.completed", "response.incomplete", "response.failed"}
  <2>1. R!Status(k.stopReason) \in {"response.completed", "response.incomplete", "response.failed"}
    BY DEF R!Status
  <2>2. k.items \in Seq(RItem) /\ k.tokens \in Nat
    BY RFields
  <2>3. e.type = R!Status(k.stopReason)
    BY DEF LastSaid
  <2> HIDE DEF REvent
  <2> QED BY <2>1, <2>2, <2>3, REventOf DEF LastSaid
<1>2. d = [m EXCEPT !.finished = TRUE]
  BY DEF R!Completed, LastSaid
<1> HIDE DEF e
<1>3. Kept(k, m) /\ m.out = k.out \o <<e>>
  <2>1. <<e>> \in Seq(REvent)
    BY <1>1
  <2> QED BY <2>1, REmit, Zenon
<1> HIDE DEF m
<1>4. m \in RConv /\ m.started = k.started /\ m.errored = k.errored /\ m.tokens = k.tokens
  BY <1>3 DEF Kept
<1>5. \A t \in BOOLEAN : \A x : x = [m EXCEPT !.finished = t] =>
        x \in RConv /\ x.started = m.started /\ x.finished = t /\ x.errored = m.errored /\ x.tokens = m.tokens /\ x.out = m.out
  <2> HIDE DEF REvent, RItem, RReasons
  <2> QED BY <1>4, Zenon DEF RConv
<1>6. TRUE \in BOOLEAN
  OBVIOUS
<1>7. d \in RConv /\ d.started = m.started /\ d.finished = TRUE /\ d.errored = m.errored /\ d.tokens = m.tokens /\ d.out = m.out
  BY <1>2, <1>5, <1>6, Zenon
<1> QED BY <1>1, <1>3, <1>4, <1>7 DEF e

\* A failed response has an error event more.
LEMMA FailIs ==
  ASSUME NEW k \in RConv, NEW d, d = R!Fail(k)
  PROVE  /\ d \in RConv /\ d.started = k.started /\ d.finished /\ d.errored
         /\ d.out = k.out \o <<ErrorEvent>> /\ ErrorEvent \in REvent
<1> DEFINE e == ErrorEvent
           m == R!Emit(k, <<e>>)
<1>1. e \in REvent
  BY REventOf DEF ErrorEvent
<1>2. d = [m EXCEPT !.errored = TRUE, !.finished = TRUE]
  BY DEF R!Fail, R!ErrorEvent, ErrorEvent
<1> HIDE DEF e
<1>3. Kept(k, m) /\ m.out = k.out \o <<e>>
  <2>1. <<e>> \in Seq(REvent)
    BY <1>1
  <2> QED BY <2>1, REmit, Zenon
<1> HIDE DEF m
<1>4. m \in RConv /\ m.started = k.started
  BY <1>3 DEF Kept
<1>5. \A t, v \in BOOLEAN : \A x : x = [m EXCEPT !.errored = v, !.finished = t] =>
        x \in RConv /\ x.started = m.started /\ x.finished = t /\ x.errored = v /\ x.out = m.out
  <2> HIDE DEF REvent, RItem, RReasons
  <2> QED BY <1>4, Zenon DEF RConv
<1>6. TRUE \in BOOLEAN
  OBVIOUS
<1>7. d \in RConv /\ d.started = m.started /\ d.finished = TRUE /\ d.errored = TRUE /\ d.out = m.out
  BY <1>2, <1>5, <1>6, Zenon
<1> QED BY <1>1, <1>3, <1>4, <1>7 DEF e

-----------------------------------------------------------------------------
(* How a stream converted for a Responses client ends.                     *)

\* Both voices frame; only the loud one carries content.
LEMMA VoiceIs ==
  ASSUME NEW E \in {Mute, Loud}
  PROVE  /\ Opening(E) /\ Framing(E) /\ (E = Loud => Speech(E))
         /\ Mute \subseteq E /\ E \subseteq Loud
         /\ \A e \in E : Harmless(e)
         /\ E = Mute => \A e \in E : e.type \notin Words
<1>1. Mute \subseteq E /\ E \subseteq Loud
  BY DEF Loud
<1>2. Opening(Mute)
  BY DEF Mute, Opening
<1>3. Framing(Mute)
  <2> HIDE DEF AddedEvent, PartsEvent, DataEvent, ItemEvent, Stamp, RItem, PartKinds, ItemKinds
  <2> QED BY REventKinds DEF Mute, Framing
<1>4. Speech(Loud)
  <2> HIDE DEF GrowEvent, Mute, Stamp, PartKinds, ItemKinds
  <2> QED BY REventKinds DEF Loud, Speech
<1>5. \A e \in Mute : e.type \in {"output_item.added", "content_part.added", "text.done", "content_part.done", "data.done",
                             "output_item.done", "response.created", "response.in_progress"}
  <2>1. \A e \in AddedEvent : e.type = "output_item.added"
    BY DEF AddedEvent
  <2>2. \A e \in PartsEvent : e.type \in {"content_part.added", "text.done", "content_part.done"}
    BY DEF PartsEvent
  <2>3. \A e \in DataEvent : e.type = "data.done"
    BY DEF DataEvent
  <2>4. \A e \in ItemEvent : e.type = "output_item.done"
    BY DEF ItemEvent
  <2>5. \A e \in [type : {"response.created", "response.in_progress"}] : e.type \in {"response.created", "response.in_progress"}
    OBVIOUS
  <2> QED BY <2>1, <2>2, <2>3, <2>4, <2>5 DEF Mute
<1>6. \A e \in GrowEvent : e.type = "delta"
  BY DEF GrowEvent
<1>7. \A e \in Loud : Harmless(e)
  BY <1>5, <1>6 DEF Loud, Harmless, Seen, Ends
<1>8. \A e \in Mute : e.type \notin Words
  BY <1>5 DEF Words
<1> HIDE DEF Mute, Loud
<1>9. Opening(E) /\ Framing(E)
  BY <1>1, <1>2, <1>3 DEF Opening, Framing
<1> QED BY <1>1, <1>4, <1>7, <1>8, <1>9

\* A converter that says less says nothing else.
LEMMA StateMore ==
  ASSUME NEW E, NEW F, E \subseteq F, NEW c, RState(c, E)
  PROVE  RState(c, F)
<1>1. RTalk(E) \subseteq RTalk(F)
  <2>1. \A s \in Seq(E) : s \in Seq(F)
    BY SeqMonotonic
  <2> QED BY <2>1 DEF RTalk
<1> QED BY <1>1 DEF RState, RAlive, RDone, RFailed

\* What is known of a converter that is not over.
LEMMA AliveSpeaks ==
  ASSUME NEW E \in {Mute, Loud}, NEW c, RAlive(c, E)
  PROVE  c \in RConv /\ ~c.finished /\ ~c.errored /\ Ongoing(c.out) /\ c.out \in Seq(REvent)
         /\ (~c.started => RFresh(c))
<1>1. CASE RFresh(c)
  BY <1>1, RFields DEF RFresh, Ongoing
<1>2. CASE c \in RTalk(E)
  <2>1. c \in RConv /\ c.started /\ ~c.finished /\ ~c.errored /\ c.out \in Seq(E)
    BY <1>2 DEF RTalk
  <2>2. \A i \in DOMAIN c.out : c.out[i] \in E
    BY <2>1
  <2>3. Ongoing(c.out)
    BY <2>2, VoiceIs DEF Ongoing
  <2> QED BY <2>1, <2>3, RFields
<1> QED BY <1>1, <1>2 DEF RAlive

\* A completed response has its one end.
LEMMA DoneSpeaks ==
  ASSUME NEW E \in {Mute, Loud}, NEW d, RDone(d, E)
  PROVE  ROver(d) /\ ~d.errored /\ Complete(d.out) /\ (E = Mute => Wordless(d.out))
<1>1. PICK k \in RTalk(E) : d = R!Completed(k)
  BY DEF RDone
<1>2. RAlive(k, E) /\ k \in RConv /\ k.started /\ k.out \in Seq(E)
  BY DEF RAlive, RTalk
<1>3. Ongoing(k.out) /\ k.out \in Seq(REvent) /\ ~k.errored
  BY <1>2, AliveSpeaks
<1> DEFINE e == LastSaid(k)
<1>4. /\ d \in RConv /\ d.started = k.started /\ d.finished /\ d.errored = k.errored
      /\ d.out = k.out \o <<e>> /\ e \in REvent
      /\ e.type \in {"response.completed", "response.incomplete", "response.failed"}
  BY <1>1, <1>2, DoneIs, Zenon
<1> HIDE DEF e
<1>5. OneMore(k.out, e, d.out)
  <2> HIDE DEF REvent
  <2> QED BY <1>3, <1>4, OneMoreIs
<1>6. Seen(e) \in Ends
  BY <1>4 DEF Seen, Ends
<1>7. Complete(d.out)
  BY <1>3, <1>5, <1>6, OngoingNext
<1>8. E = Mute => Wordless(d.out)
  <2>1. SUFFICES ASSUME E = Mute PROVE Wordless(d.out)
    OBVIOUS
  <2>2. \A i \in DOMAIN k.out : k.out[i].type \notin Words
    <3>1. \A i \in DOMAIN k.out : k.out[i] \in E
      BY <1>2
    <3> QED BY <2>1, <3>1, VoiceIs
  <2>3. e.type \notin Words
    BY <1>4 DEF Words
  <2>4. /\ \A p \in DOMAIN k.out : p \in DOMAIN d.out /\ d.out[p] = k.out[p]
        /\ \A p \in DOMAIN d.out : p \in DOMAIN k.out \/ p = Len(d.out)
        /\ d.out[Len(d.out)] = e
    BY <1>5 DEF OneMore
  <2> QED BY <2>2, <2>3, <2>4 DEF Wordless
<1> QED BY <1>2, <1>3, <1>4, <1>7, <1>8 DEF ROver

\* A failed response has no end but an error.
LEMMA FailSpeaks ==
  ASSUME NEW E \in {Mute, Loud}, NEW d, RFailed(d, E)
  PROVE  ROver(d) /\ d.errored /\ Failing(d.out) /\ (E = Mute => Wordless(d.out))
<1>1. PICK k \in RTalk(E) : d = R!Fail(k)
  BY DEF RFailed
<1>2. RAlive(k, E) /\ k \in RConv /\ k.started /\ k.out \in Seq(E)
  BY DEF RAlive, RTalk
<1>3. Ongoing(k.out) /\ k.out \in Seq(REvent)
  BY <1>2, AliveSpeaks
<1>4. /\ d \in RConv /\ d.started = k.started /\ d.finished /\ d.errored
      /\ d.out = k.out \o <<ErrorEvent>> /\ ErrorEvent \in REvent
  BY <1>1, <1>2, FailIs, Zenon
<1>6. Seen(ErrorEvent) = "error"
  BY DEF Seen, ErrorEvent
<1>5. OneMore(k.out, ErrorEvent, d.out)
  <2> HIDE DEF REvent
  <2> QED BY <1>3, <1>4, OneMoreIs
<1>7. Failing(d.out)
  BY <1>3, <1>5, <1>6, OngoingNext
<1>8. E = Mute => Wordless(d.out)
  <2>1. SUFFICES ASSUME E = Mute PROVE Wordless(d.out)
    OBVIOUS
  <2>2. \A i \in DOMAIN k.out : k.out[i].type \notin Words
    <3>1. \A i \in DOMAIN k.out : k.out[i] \in E
      BY <1>2
    <3> QED BY <2>1, <3>1, VoiceIs
  <2>3. ErrorEvent.type \notin Words
    BY DEF ErrorEvent, Words
  <2>4. /\ \A p \in DOMAIN k.out : p \in DOMAIN d.out /\ d.out[p] = k.out[p]
        /\ \A p \in DOMAIN d.out : p \in DOMAIN k.out \/ p = Len(d.out)
        /\ d.out[Len(d.out)] = ErrorEvent
    BY <1>5 DEF OneMore
  <2> QED BY <2>2, <2>3, <2>4 DEF Wordless
<1> QED BY <1>2, <1>4, <1>7, <1>8 DEF ROver

\* The voice is one of the two.
LEMMA VoiceMember == Voice \in {Mute, Loud}
  BY DEF Voice

\* The three states of a Responses converter.
LEMMA StateSpeaks ==
  ASSUME NEW E \in {Mute, Loud}, NEW c, RState(c, E)
  PROVE  /\ c \in RConv
         /\ Ongoing(c.out) \/ Complete(c.out) \/ Failing(c.out)
         /\ IF c.finished THEN ROver(c) /\ ~RAlive(c, E) ELSE RAlive(c, E)
<1>1. CASE RAlive(c, E)
  BY <1>1, AliveSpeaks
<1>2. CASE RDone(c, E)
  <2>1. ROver(c) /\ Complete(c.out)
    BY <1>2, DoneSpeaks
  <2>2. c \in RConv /\ c.finished
    BY <2>1 DEF ROver
  <2>3. ~RAlive(c, E)
    BY <2>2, AliveSpeaks
  <2> QED BY <2>1, <2>2, <2>3
<1>3. CASE RFailed(c, E)
  <2>1. ROver(c) /\ Failing(c.out)
    BY <1>3, FailSpeaks
  <2>2. c \in RConv /\ c.finished
    BY <2>1 DEF ROver
  <2>3. ~RAlive(c, E)
    BY <2>2, AliveSpeaks
  <2> QED BY <2>1, <2>2, <2>3
<1> QED BY <1>1, <1>2, <1>3 DEF RState

\* Writing appends.
LEMMA RWrite ==
  ASSUME NEW c \in RConv, NEW w
  PROVE  Write(c, w).out = c.out \o w
<1> DEFINE o == c.out \o w
<1>1. Write(c, w) = [c EXCEPT !.out = o]
  BY DEF Write
<1> HIDE DEF o, REvent, RItem, RReasons
<1>2. Write(c, w).out = o
  BY <1>1 DEF RConv
<1> QED BY <1>2 DEF o

\* An error written at any time is told.
LEMMA RErrorWritten ==
  ASSUME NEW E \in {Mute, Loud}, NEW c, RState(c, E)
  PROVE  ErrorTold(Write(c, <<ErrorEvent>>).out)
<1> DEFINE t == Write(c, <<ErrorEvent>>).out
<1>1. c \in RConv /\ (Ongoing(c.out) \/ Complete(c.out) \/ Failing(c.out))
  BY StateSpeaks
<1>2. c.out \in Seq(REvent) /\ ErrorEvent \in REvent
  BY <1>1, RFields, REventOf DEF ErrorEvent
<1>3. t = c.out \o <<ErrorEvent>>
  BY <1>1, RWrite, Zenon
<1>4. OneMore(c.out, ErrorEvent, t)
  <2> HIDE DEF REvent, t
  <2> QED BY <1>2, <1>3, OneMoreIs
<1>5. Seen(ErrorEvent) = "error"
  BY DEF Seen, ErrorEvent
<1> HIDE DEF t
<1>6. ErrorTold(t)
  BY <1>1, <1>4, <1>5, ErrorTells
<1> QED BY <1>6 DEF t

\* The relay's own error keeps the ends right.
LEMMA ResponsesError ==
  ASSUME ResponsesEnds, ToResponses, result = "none", conv' = Write(conv, <<ErrorEvent>>), result' = "error"
  PROVE  ResponsesEnds'
<1>1. RState(conv, Voice)
  BY DEF ResponsesEnds
<1>2. ErrorTold(Write(conv, <<ErrorEvent>>).out)
  BY <1>1, VoiceMember, RErrorWritten
<1>3. ErrorTold(conv'.out)
  BY <1>2
<1> QED BY <1>3 DEF ResponsesEnds, Answered

\* A frame converted for a Responses client keeps the ends right.
LEMMA ResponsesFrame ==
  ASSUME route \in Routes, ResponsesEnds, saw \in SawType, ToResponses, Frame
  PROVE  ResponsesEnds'
<1>0. /\ Client = "responses" /\ NeedConvert /\ Upstream \in {"openai", "anthropic"} /\ result = "none"
      /\ frames \in Seq(Frames[Upstream]) /\ RState(conv, Voice) /\ ~saw.native /\ ~saw.terminal
      /\ saw.error => conv.finished
  BY RouteFacts DEF ResponsesEnds, ToResponses, Frame
<1>r. route' = route
  BY DEF Frame
<1>1. PICK f \in Frames[Upstream] : frames' = Append(frames, f) /\ (Sentinel(f) \/ Payload(f))
  BY DEF Frame
<1>2. frames' \in Seq(Frames[Upstream]) /\ frames' # <<>>
  <2> DEFINE S == Frames[Upstream]
  <2> HIDE DEF S
  <2>1. frames' \in Seq(S) /\ frames' # <<>>
    BY <1>0, <1>1 DEF S
  <2> QED BY <2>1 DEF S
<1>3. ASSUME result' = "none", RState(conv', Voice'), ~saw'.native, ~saw'.terminal, saw'.error => conv'.finished
      PROVE  ResponsesEnds'
  BY <1>2, <1>3, <1>r DEF ResponsesEnds, Answered, Upstream
<1>4. CASE Sentinel(f)
  <2>1. conv' = conv /\ result' = "none"
    BY <1>0, <1>4 DEF Sentinel
  <2>2. saw'.native = saw.native /\ saw'.terminal = saw.terminal /\ saw'.error = saw.error /\ saw'.content = saw.content
    BY <1>4 DEF Sentinel, SawType
  <2>3. Voice' = Voice
    BY <2>2 DEF Voice
  <2> QED BY <1>0, <1>3, <2>1, <2>2, <2>3
<1>5. CASE Payload(f)
  <2> DEFINE n == Place
             d == R!Convert(conv, Upstream, f, n)
             m == Write(d, <<ErrorEvent>>)
  <2>1. n \in Nat
    BY <1>0 DEF Place
  <2>2. f.type = "malformed" \/ (Upstream = "openai" /\ f \in A!Chunk /\ f.type = "chunk")
                             \/ (Upstream = "anthropic" /\ f \in O!Event)
    BY <1>0, <1>5, FrameAssumption DEF Payload, A!Chunk
  <2>3. Convert(f, n) = d
    BY <1>0 DEF Convert
  <2>4. Skips <=> conv.finished
    BY <1>0 DEF Skips
  <2>5. /\ saw' = IF f.type = "malformed" THEN saw ELSE Noted(f)
        /\ IF f.type = "malformed" /\ ~conv.finished
           THEN conv' = m /\ result' = "error" ELSE conv' = d /\ result' = "none"
    BY <1>0, <1>5, <2>3, <2>4 DEF Payload, Return
  <2> HIDE DEF n, d
  <2>d. d = R!Convert(conv, Upstream, f, n)
    BY DEF d
  <2>6. /\ saw'.native = saw.native /\ saw'.terminal = saw.terminal
        /\ saw'.error => saw.error \/ f.type = "error" \/ (f.type = "chunk" /\ f.error # "absent")
        /\ saw.content => saw'.content
        /\ f.type # "malformed" => (saw'.content <=> saw.content \/ HasContent(f))
    <3>1. CASE f.type = "malformed"
      BY <2>5, <3>1
    <3>2. CASE f.type # "malformed"
      <4>1. f.type \notin {"response.created", "response.output_text.delta", "response.completed",
                           "response.incomplete", "response.failed"}
        BY <2>2, <3>2 DEF O!Event, A!Chunk
      <4>2. saw' = Noted(f)
        BY <2>5, <3>2
      <4>3. /\ Noted(f).native <=> saw.native
            /\ Noted(f).terminal <=> saw.terminal
            /\ Noted(f).error <=> saw.error \/ HasError(f)
            /\ Noted(f).content <=> saw.content \/ HasContent(f)
        BY <4>1, NotedIs
      <4>4. Noted(f).native = saw.native /\ Noted(f).terminal = saw.terminal
        BY <1>0, <4>3, NotedIs DEF SawType
      <4>5. HasError(f) => f.type = "error" \/ (f.type = "chunk" /\ f.error # "absent")
        BY DEF HasError
      <4> QED BY <3>2, <4>2, <4>3, <4>4, <4>5
    <3> QED BY <3>1, <3>2
  <2>7. Voice \subseteq Voice' /\ Voice' \in {Mute, Loud} /\ (saw'.content => Voice' = Loud)
    <3>1. Mute \subseteq Loud
      BY DEF Loud
    <3> QED BY <2>6, <3>1 DEF Voice
  <2>8. RState(conv, Voice')
    BY <1>0, <2>7, StateMore
  <2>9. CASE conv.finished
    <3>1. ROver(conv)
      BY <2>7, <2>8, <2>9, StateSpeaks
    <3>2. d = conv
      BY <2>d, <3>1, ConvertSkips
    <3> QED BY <1>0, <1>3, <2>5, <2>6, <2>8, <2>9, <3>2
  <2>10. CASE ~conv.finished
    <3>1. RAlive(conv, Voice') /\ ~saw.error
      BY <1>0, <2>7, <2>8, <2>10, StateSpeaks
    <3>v. Opening(Voice') /\ Framing(Voice') /\ (Voice' = Loud => Speech(Voice'))
      BY <2>7, VoiceIs
    <3>s. /\ f.type = "malformed" => d \in RTalk(Voice')
          /\ Upstream = "anthropic" /\ f \in O!Event /\ (Speech(Voice') \/ f.type # "content_block_delta") =>
               CASE f.type = "error" -> RFailed(d, Voice')
                 [] f.type = "message_stop" -> RDone(d, Voice')
                 [] OTHER -> d \in RTalk(Voice')
          /\ Upstream = "openai" /\ f \in A!Chunk
               /\ (Speech(Voice') \/ ~(f.think \/ f.text \/ f.refusal \/ f.tools # <<>>)) =>
               IF f.error # "absent" THEN RFailed(d, Voice') ELSE d \in RTalk(Voice') \/ RDone(d, Voice')
      BY <2>1, <2>d, <3>1, <3>v, ConvertSays
    <3>2. CASE f.type = "malformed"
      <4>1. RState(d, Voice')
        BY <3>2, <3>s DEF RState, RAlive
      <4>2. ErrorTold(m.out) /\ conv' = m /\ result' = "error"
        BY <2>5, <2>7, <2>10, <3>2, <4>1, RErrorWritten
      <4>3. ErrorTold(conv'.out)
        BY <4>2
      <4> QED BY <4>2, <4>3 DEF ResponsesEnds, Answered
    <3>3. CASE Upstream = "anthropic" /\ f \in O!Event
      <4>1. f.type # "malformed" /\ f.type # "chunk"
        BY <3>3 DEF O!Event
      <4>2. Speech(Voice') \/ f.type # "content_block_delta"
        BY <2>6, <2>7, <3>3, <3>v, <4>1 DEF HasContent
      <4>3. (CASE f.type = "error" -> RFailed(d, Voice')
               [] f.type = "message_stop" -> RDone(d, Voice')
               [] OTHER -> d \in RTalk(Voice'))
        BY <3>3, <3>s, <4>2
      <4>4. RState(d, Voice')
        BY <4>3 DEF RState, RAlive
      <4>5. f.type = "error" => d.finished
        BY <2>7, <4>3, FailSpeaks DEF ROver
      <4> QED BY <1>0, <1>3, <2>5, <2>6, <3>1, <4>1, <4>4, <4>5
    <3>4. CASE Upstream = "openai" /\ f \in A!Chunk /\ f.type = "chunk"
      <4>2. Speech(Voice') \/ ~(f.think \/ f.text \/ f.refusal \/ f.tools # <<>>)
        BY <2>6, <2>7, <3>4, <3>v DEF HasContent, ChatContent
      <4>3. IF f.error # "absent" THEN RFailed(d, Voice') ELSE d \in RTalk(Voice') \/ RDone(d, Voice')
        BY <3>4, <3>s, <4>2
      <4>4. RState(d, Voice')
        BY <4>3 DEF RState, RAlive
      <4>5. f.error # "absent" => d.finished
        BY <2>7, <4>3, FailSpeaks DEF ROver
      <4> QED BY <1>0, <1>3, <2>5, <2>6, <3>1, <3>4, <4>4, <4>5
    <3> QED BY <2>2, <3>2, <3>3, <3>4
  <2> QED BY <2>9, <2>10
<1> QED BY <1>1, <1>4, <1>5

\* A finished converter has completed or failed its response.
LEMMA OverSpeaks ==
  ASSUME NEW E \in {Mute, Loud}, NEW c, RState(c, E), c.finished
  PROVE  /\ c.errored \/ (Complete(c.out) /\ (E = Mute => Wordless(c.out)))
         /\ Complete(c.out) \/ Failing(c.out)
<1>1. ~RAlive(c, E)
  BY StateSpeaks
<1>2. CASE RDone(c, E)
  BY <1>2, DoneSpeaks
<1>3. CASE RFailed(c, E)
  BY <1>3, FailSpeaks
<1> QED BY <1>1, <1>2, <1>3 DEF RState

\* The end of the stream completes the response, or an error follows.
LEMMA ResponsesStreamEnds ==
  ASSUME route \in Routes, ResponsesEnds, saw \in SawType, ToResponses, EndOfStream
  PROVE  ResponsesEnds'
<1>0. /\ Client = "responses" /\ NeedConvert /\ result = "none"
      /\ RState(conv, Voice) /\ ~saw.native /\ ~saw.terminal
      /\ saw.error => conv.finished
  BY DEF ResponsesEnds, ToResponses, EndOfStream
<1>1. conv' = Write(Closed, Ending) /\ result' = (IF saw.error \/ Errored THEN "error" ELSE "ok") /\ saw' = saw
  BY DEF EndOfStream, Return
<1>2. Errored <=> conv.errored
  BY <1>0 DEF Errored
<1>3. Closed = IF ~conv.started \/ conv.finished THEN conv ELSE R!CloseStream(conv)
  BY <1>0 DEF Closed
<1>4. Ending = IF saw.error \/ conv.started THEN <<>> ELSE <<CompletedEvent>>
  BY <1>0 DEF Ending
<1>5. Voice \in {Mute, Loud} /\ (~saw.content => Voice = Mute)
  BY DEF Voice
<1>6. conv \in RConv /\ (IF conv.finished THEN ROver(conv) ELSE RAlive(conv, Voice))
  BY <1>0, <1>5, StateSpeaks
<1>7. ASSUME result' = "ok" => Complete(conv'.out) /\ (~saw.content => Wordless(conv'.out)),
             result' = "error" => ErrorTold(conv'.out)
      PROVE  ResponsesEnds'
  <2>1. result' # "none"
    BY <1>1
  <2> QED BY <1>1, <1>7, <2>1 DEF ResponsesEnds, Answered
<1>8. CASE conv.finished
  <2>1. conv.started
    BY <1>6, <1>8 DEF ROver
  <2>2. Closed = conv /\ Ending = <<>>
    BY <1>3, <1>4, <1>8, <2>1
  <2>3. conv'.out = conv.out \o <<>>
    BY <1>1, <1>6, <2>2, RWrite, Zenon
  <2>4. conv'.out = conv.out
    BY <1>6, <2>3, RFields, ConcatEmptySeq
  <2>5. /\ conv.errored \/ (Complete(conv.out) /\ (Voice = Mute => Wordless(conv.out)))
        /\ Complete(conv.out) \/ Failing(conv.out)
    BY <1>0, <1>5, <1>8, OverSpeaks
  <2>6. ErrorTold(conv.out)
    BY <2>5, OverTells
  <2> QED BY <1>1, <1>2, <1>5, <1>7, <2>4, <2>5, <2>6
<1>9. CASE ~conv.finished /\ conv.started
  <2> DEFINE d == R!CloseStream(conv)
  <2>1. Closed = d /\ Ending = <<>> /\ ~saw.error
    BY <1>0, <1>3, <1>4, <1>9
  <2>2. RAlive(conv, Voice)
    BY <1>6, <1>9
  <2>3. Opening(Voice) /\ Framing(Voice)
    BY <1>5, VoiceIs
  <2>4. RDone(d, Voice)
    BY <2>2, <2>3, CloseDone
  <2>5. ~conv.errored
    BY <1>5, <2>2, AliveSpeaks
  <2> HIDE DEF d
  <2>6. ROver(d) /\ Complete(d.out) /\ (Voice = Mute => Wordless(d.out))
    BY <1>5, <2>4, DoneSpeaks
  <2>7. d \in RConv /\ d.out \in Seq(REvent)
    BY <2>6, RFields DEF ROver
  <2>8. conv'.out = d.out \o <<>>
    BY <1>1, <2>1, <2>7, RWrite, Zenon
  <2>9. conv'.out = d.out
    BY <2>7, <2>8, ConcatEmptySeq
  <2> QED BY <1>1, <1>2, <1>5, <1>7, <2>1, <2>5, <2>6, <2>9
<1>10. CASE ~conv.started
  <2>1. ~conv.finished
    BY <1>6, <1>10 DEF ROver
  <2>2. ~saw.error /\ Closed = conv /\ Ending = <<CompletedEvent>>
    BY <1>0, <1>3, <1>4, <1>10, <2>1
  <2>3. RFresh(conv)
    BY <1>5, <1>6, <1>10, <2>1, AliveSpeaks
  <2>4. conv.out = <<>> /\ ~conv.errored
    BY <2>3 DEF RFresh
  <2>5. conv'.out = <<>> \o <<CompletedEvent>>
    BY <1>1, <1>6, <2>2, <2>4, RWrite, Zenon
  <2>6. conv'.out = <<CompletedEvent>>
    BY <2>5
  <2>7. Complete(conv'.out) /\ Wordless(conv'.out)
    <3> DEFINE e == CompletedEvent
               t == <<e>>
    <3>1. e.type = "response.completed"
      BY DEF CompletedEvent
    <3>2. Seen(e) \in Ends /\ Seen(e) # "error" /\ e.type \notin Words
      BY <3>1 DEF Seen, Ends, Words
    <3> HIDE DEF e
    <3>3. DOMAIN t = {1} /\ t[1] = e /\ Len(t) = 1
      OBVIOUS
    <3> HIDE DEF t
    <3>4. Complete(t) /\ Wordless(t)
      BY <3>2, <3>3 DEF Complete, Wordless, EndsOf, ErrorsOf
    <3> QED BY <2>6, <3>4 DEF t, e
  <2> QED BY <1>1, <1>2, <1>7, <2>2, <2>4, <2>7
<1> QED BY <1>8, <1>9, <1>10

\* A chat completion in one body becomes a completed response.
LEMMA OpenAIBodyDone ==
  ASSUME NEW E \in {Mute, Loud}, NEW c, RFresh(c), NEW b \in A!Chunk, StreamChunk(b).error = "absent",
         E = Loud \/ ~ChatContent(b), NEW d, d = R!Convert(c, "openai", StreamChunk(b), 1)
  PROVE  RDone(R!CloseStream(IF b.usage = "real" THEN R!SetUsage(d, 1) ELSE d), E)
         \/ (\E k : RDone(k, E) /\ R!CloseStream(IF b.usage = "real" THEN R!SetUsage(d, 1) ELSE d) \in {k, R!SetUsage(k, 1)})
<1> DEFINE f == StreamChunk(b)
           x == R!SetUsage(d, 1)
           q == IF b.usage = "real" THEN x ELSE d
<1>1. f \in A!Chunk /\ f.error = "absent" /\ (ChatContent(f) <=> ChatContent(b))
  <2>1. f = b \/ f = [b EXCEPT !.usage = "absent", !.error = "absent"]
    BY DEF StreamChunk
  <2> HIDE DEF f
  <2>2. f \in A!Chunk /\ f.error = "absent" /\ f.type = b.type /\ f.think = b.think /\ f.text = b.text
        /\ f.refusal = b.refusal /\ f.tools = b.tools
    <3>1. f.error = "absent"
      BY DEF f
    <3> HIDE DEF A!Fragment
    <3> QED BY <2>1, <3>1, Zenon DEF A!Chunk
  <2> QED BY <2>2 DEF ChatContent
<1>v. Opening(E) /\ Framing(E) /\ (E = Loud => Speech(E))
  BY VoiceIs
<1> HIDE DEF f
<1>2. d = R!Convert(c, "openai", f, 1) /\ 1 \in Nat /\ RAlive(c, E)
  BY DEF f, RAlive
<1>3. Speech(E) \/ ~(f.think \/ f.text \/ f.refusal \/ f.tools # <<>>)
  BY <1>1, <1>v DEF ChatContent, A!Chunk
<1>4. d \in RTalk(E) \/ RDone(d, E)
  <2> DEFINE u == "openai"
  <2>1. u = "openai" /\ d = R!Convert(c, u, f, 1)
    BY <1>2
  <2> HIDE DEF u
  <2>2. u = "openai" /\ f \in A!Chunk /\ (Speech(E) \/ ~(f.think \/ f.text \/ f.refusal \/ f.tools # <<>>)) =>
          IF f.error # "absent" THEN RFailed(d, E) ELSE d \in RTalk(E) \/ RDone(d, E)
    BY <1>2, <1>v, <2>1, ConvertSays, Zenon
  <2> QED BY <1>1, <1>3, <2>1, <2>2
<1>5. CASE d \in RTalk(E)
  <2>1. x \in RTalk(E)
    <3>1. x = R!SetUsage(d, 1) /\ d \in RConv /\ 1 \in Nat
      BY <1>5 DEF RTalk
    <3> HIDE DEF x
    <3> QED BY <1>5, <3>1, NearUsage, TalkNear
  <2>2. RAlive(q, E)
    BY <1>5, <2>1 DEF RAlive
  <2> HIDE DEF q
  <2>3. RDone(R!CloseStream(q), E)
    BY <1>v, <2>2, CloseDone
  <2> QED BY <2>3 DEF q
<1>6. CASE RDone(d, E)
  <2>1. ROver(d)
    BY <1>6, DoneSpeaks
  <2>2. x.finished
    <3>1. x = [d EXCEPT !.tokens = 1, !.hasUsage = TRUE] /\ d \in RConv /\ d.finished
      BY <2>1 DEF R!SetUsage, ROver
    <3>2. d \in RConv /\ x = R!SetUsage(d, 1) /\ 1 \in Nat
      BY <3>1
    <3> HIDE DEF x
    <3>3. Near(d, x)
      BY <3>2, NearUsage
    <3> QED BY <2>1, <3>3 DEF Near, ROver
  <2>3. q.finished /\ q \in {d, x}
    BY <2>1, <2>2 DEF ROver
  <2> HIDE DEF q
  <2>4. R!CloseStream(q) = q
    BY <2>3 DEF R!CloseStream
  <2> QED BY <1>6, <2>3, <2>4 DEF q
<1> QED BY <1>4, <1>5, <1>6

\* An error in the body ends the answer with no word more.
LEMMA OpenAIBodyFails ==
  ASSUME NEW E \in {Mute, Loud}, NEW c, RFresh(c), NEW b \in A!Chunk, StreamChunk(b).error # "absent",
         E = Loud \/ ~ChatContent(b), NEW d, d = R!Convert(c, "openai", StreamChunk(b), 1)
  PROVE  \E k : RFailed(k, E) /\ R!CloseStream(IF b.usage = "real" THEN R!SetUsage(d, 1) ELSE d) \in {k, R!SetUsage(k, 1)}
<1> DEFINE f == StreamChunk(b)
           x == R!SetUsage(d, 1)
           q == IF b.usage = "real" THEN x ELSE d
<1>1. f \in A!Chunk /\ f.error # "absent" /\ (ChatContent(f) <=> ChatContent(b))
  <2>1. f = b
    BY DEF StreamChunk, A!Chunk
  <2> QED BY <2>1
<1>v. Opening(E) /\ Framing(E) /\ (E = Loud => Speech(E))
  BY VoiceIs
<1> HIDE DEF f
<1>2. d = R!Convert(c, "openai", f, 1) /\ 1 \in Nat /\ RAlive(c, E)
  BY DEF f, RAlive
<1>3. Speech(E) \/ ~(f.think \/ f.text \/ f.refusal \/ f.tools # <<>>)
  BY <1>1, <1>v DEF ChatContent, A!Chunk
<1>4. RFailed(d, E)
  <2> DEFINE u == "openai"
  <2>1. u = "openai" /\ d = R!Convert(c, u, f, 1)
    BY <1>2
  <2> HIDE DEF u
  <2>2. u = "openai" /\ f \in A!Chunk /\ (Speech(E) \/ ~(f.think \/ f.text \/ f.refusal \/ f.tools # <<>>)) =>
          IF f.error # "absent" THEN RFailed(d, E) ELSE d \in RTalk(E) \/ RDone(d, E)
    BY <1>2, <1>v, <2>1, ConvertSays
  <2> QED BY <1>1, <1>3, <2>1, <2>2
<1>5. ROver(d)
  BY <1>4, FailSpeaks
<1>6. x.finished
  <2>1. d \in RConv /\ x = R!SetUsage(d, 1) /\ 1 \in Nat
    BY <1>5 DEF ROver
  <2> HIDE DEF x
  <2>2. Near(d, x)
    BY <2>1, NearUsage
  <2> QED BY <1>5, <2>2 DEF Near, ROver
<1>7. q.finished /\ q \in {d, x}
  BY <1>5, <1>6 DEF ROver
<1> HIDE DEF q
<1>8. R!CloseStream(q) = q
  BY <1>7 DEF R!CloseStream
<1> QED BY <1>4, <1>7, <1>8 DEF q

\* An Anthropic message in one body becomes a completed response.
LEMMA ConvertedDone ==
  ASSUME NEW E \in {Mute, Loud}, NEW c, RFresh(c), NEW body \in Seq(O!Event),
         \A i \in DOMAIN body : body[i].type # "error",
         E = Loud \/ \A i \in DOMAIN body : body[i].type # "content_block_delta"
  PROVE  RDone(R!CloseStream(ConvertedBody(c, "anthropic", body)), E)
<1> DEFINE N == Len(body)
           X2 == {d \in RConv : RAlive(d, E) \/ RDone(d, E)}
           k == ConvertedBody(c, "anthropic", body)
<1>v. Opening(E) /\ Framing(E) /\ (E = Loud => Speech(E))
  BY VoiceIs
<1>1. c \in X2
  BY DEF RFresh, RAlive
<1>2. N \in Nat /\ DOMAIN body = 1 .. N
  <2> HIDE DEF O!Event
  <2> QED OBVIOUS
<1>3. ASSUME NEW d \in X2, NEW j \in 1 .. N
      PROVE  R!Convert(d, "anthropic", body[j], j) \in X2
  <2> DEFINE u == "anthropic"
             f == body[j]
             g == R!Convert(d, u, f, j)
  <2>1. f \in O!Event /\ f.type # "error" /\ (Speech(E) \/ f.type # "content_block_delta")
    <3>1. j \in DOMAIN body
      BY <1>2, <1>3
    <3> HIDE DEF O!Event
    <3>2. f \in O!Event
      BY <1>2, <1>3
    <3> QED BY <1>v, <3>1, <3>2
  <2>2. CASE RDone(d, E)
    <3>1. ROver(d)
      BY <2>2, DoneSpeaks
    <3>2. g = d
      BY <3>1, ConvertSkips
    <3> QED BY <3>2
  <2>3. CASE RAlive(d, E)
    <3>1. u = "anthropic"
      OBVIOUS
    <3>2. g = R!Convert(d, u, f, j) /\ j \in Nat
      BY <1>2
    <3> HIDE DEF u, f, g
    <3>3. u = "anthropic" /\ f \in O!Event /\ (Speech(E) \/ f.type # "content_block_delta") =>
            CASE f.type = "error" -> RFailed(g, E)
              [] f.type = "message_stop" -> RDone(g, E)
              [] OTHER -> g \in RTalk(E)
      BY <1>v, <2>3, <3>2, ConvertSays
    <3>4. RDone(g, E) \/ g \in RTalk(E)
      BY <2>1, <3>1, <3>3
    <3>5. g \in RConv
      BY <3>4, DoneSpeaks DEF RTalk, ROver
    <3>6. g \in X2
      BY <3>4, <3>5 DEF RAlive
    <3> QED BY <3>6 DEF g, f, u
  <2> QED BY <1>3, <2>2, <2>3
<1>4. k \in X2
  <2> HIDE DEF X2, N
  <2>1. \A d \in X2, j \in 1 .. N : R!Convert(d, "anthropic", body[j], j) \in X2
    BY <1>3
  <2> QED BY <1>1, <1>2, <2>1, BodyStays
<1> HIDE DEF k
<1>5. CASE RAlive(k, E)
  <2>1. RDone(R!CloseStream(k), E)
    BY <1>v, <1>5, CloseDone
  <2> QED BY <2>1 DEF k
<1>6. CASE RDone(k, E)
  <2>1. k.finished
    BY <1>6, DoneSpeaks DEF ROver
  <2>2. R!CloseStream(k) = k
    BY <2>1 DEF R!CloseStream
  <2>3. RDone(R!CloseStream(k), E)
    BY <1>6, <2>2
  <2> QED BY <2>3 DEF k
<1> QED BY <1>4, <1>5, <1>6

\* A JSON body converted for a Responses client keeps the ends right.
LEMMA ResponsesBodyEnds ==
  ASSUME route \in Routes, ResponsesEnds, saw \in SawType, ToResponses, JsonBody
  PROVE  ResponsesEnds'
<1>0. /\ Client = "responses" /\ NeedConvert /\ Upstream \in {"openai", "anthropic"} /\ result = "none"
      /\ RFresh(conv)
  BY RouteFacts DEF ResponsesEnds, ToResponses, JsonBody
<1>1. PICK body \in Bodies[Upstream], u \in BOOLEAN : BodyTo(body, u)
  BY Zenon DEF JsonBody, BodyTo
<1> DEFINE E == Voice'
<1>2. E \in {Mute, Loud} /\ (E = Loud \/ \A i \in DOMAIN body : ~HasContent(body[i]))
      /\ (~saw'.content => E = Mute)
  <2> DEFINE t == \E i \in DOMAIN body : HasContent(body[i])
  <2>1. saw' = [saw EXCEPT !.content = t]
    BY <1>1 DEF BodyTo
  <2>2. t \/ \A i \in DOMAIN body : ~HasContent(body[i])
    OBVIOUS
  <2> HIDE DEF t
  <2>3. saw'.content = t
    BY <2>1 DEF SawType
  <2> QED BY <2>2, <2>3 DEF Voice
<1> HIDE DEF E
<1>3. CASE Garbage(body) \/ HasError(body[1])
  <2>1. conv' = Write(conv, <<ErrorEvent>>) /\ result' = "error"
    BY <1>0, <1>1, <1>3 DEF Return, BodyTo
  <2>2. RState(conv, Mute)
    BY <1>0 DEF RState, RAlive
  <2>3. ErrorTold(Write(conv, <<ErrorEvent>>).out)
    BY <2>2, RErrorWritten
  <2>4. ErrorTold(conv'.out)
    BY <2>1, <2>3
  <2> QED BY <2>1, <2>4 DEF ResponsesEnds, Answered
<1>4. ASSUME NEW k, RDone(k, E), conv'.out = k.out, result' \in {"ok", "error"}
      PROVE  ResponsesEnds'
  <2>1. Complete(k.out) /\ (E = Mute => Wordless(k.out))
    BY <1>2, <1>4, DoneSpeaks
  <2>2. ErrorTold(k.out)
    BY <2>1, OverTells
  <2>3. Complete(conv'.out) /\ ErrorTold(conv'.out) /\ (~saw'.content => Wordless(conv'.out))
    BY <1>2, <1>4, <2>1, <2>2
  <2> QED BY <1>4, <2>3 DEF ResponsesEnds, Answered
<1>5. CASE ~Garbage(body) /\ ~HasError(body[1])
  <2>1. conv' = ResponsesBody(body) /\ result' \in {"ok", "error"}
    BY <1>0, <1>1, <1>5 DEF Return, Whole, BodyTo
  <2>2. CASE Upstream = "openai"
    <3> DEFINE b == body[1]
               d == R!Convert(conv, "openai", StreamChunk(b), 1)
               q == R!CloseStream(IF b.usage = "real" THEN R!SetUsage(d, 1) ELSE d)
    <3>1. b \in A!Chunk /\ body = <<b>>
      BY <1>5, <2>2, BodyAssumption DEF Garbage
    <3>3. conv' = q
      BY <2>1, <2>2 DEF ResponsesBody
    <3>4. E = Loud \/ ~ChatContent(b)
      <4>1. E = Loud \/ ~HasContent(b)
        <5>1. 1 \in DOMAIN body
          BY <3>1
        <5> QED BY <1>2, <5>1
      <4> QED BY <2>2, <4>1 DEF HasContent
    <3>d. d = R!Convert(conv, "openai", StreamChunk(b), 1)
      OBVIOUS
    <3> HIDE DEF b, d
    <3>5. ASSUME NEW k \in RConv, q \in {k, R!SetUsage(k, 1)}
          PROVE  q.out = k.out
      <4>1. 1 \in Nat
        OBVIOUS
      <4>2. Near(k, R!SetUsage(k, 1))
        BY <4>1, NearUsage
      <4> HIDE DEF q
      <4> QED BY <3>5, <4>2 DEF Near
    <3>6. CASE StreamChunk(b).error = "absent"
      <4>1. RDone(q, E) \/ \E k : RDone(k, E) /\ q \in {k, R!SetUsage(k, 1)}
        BY <1>0, <1>2, <3>1, <3>4, <3>6, <3>d, OpenAIBodyDone
      <4> HIDE DEF q
      <4>2. PICK k : RDone(k, E) /\ q \in {k, R!SetUsage(k, 1)}
        BY <4>1
      <4>3. k \in RConv
        BY <1>2, <4>2, DoneSpeaks DEF ROver
      <4> QED BY <1>4, <2>1, <3>3, <3>5, <4>2, <4>3
    <3>7. CASE StreamChunk(b).error # "absent"
      <4>1. \E k : RFailed(k, E) /\ q \in {k, R!SetUsage(k, 1)}
        BY <1>0, <1>2, <3>1, <3>4, <3>7, <3>d, OpenAIBodyFails
      <4> HIDE DEF q
      <4>2. PICK k : RFailed(k, E) /\ q \in {k, R!SetUsage(k, 1)}
        BY <4>1
      <4>3. k \in RConv /\ (E = Mute => Wordless(k.out))
        BY <1>2, <4>2, FailSpeaks DEF ROver
      <4>4. conv'.out = k.out
        BY <3>3, <3>5, <4>2, <4>3
      <4>5. ~saw'.content => Wordless(conv'.out)
        BY <1>2, <4>3, <4>4
      <4>6. ~NoNullErrors
        <5>1. b.type = "chunk" /\ b.error \in {"absent", "null", "real"} /\ (b.error = "absent" => StreamChunk(b).error = "absent")
          BY <3>1 DEF A!Chunk, StreamChunk
        <5>2. b.error # "real"
          BY <1>5, <5>1 DEF HasError, b
        <5> QED BY <2>2, <3>7, <5>1, <5>2 DEF NoNullErrors, b
      <4> QED BY <2>1, <4>5, <4>6 DEF ResponsesEnds
    <3> QED BY <3>6, <3>7
  <2>3. CASE Upstream = "anthropic"
    <3> DEFINE k == R!CloseStream(ConvertedBody(conv, "anthropic", body))
    <3>1. conv' = k
      <4>1. conv' = R!CloseStream(FoldLeftDomain(LAMBDA c, i : R!Convert(c, Upstream, body[i], i), conv, body))
        BY <2>1, <2>3, Zenon DEF ResponsesBody
      <4>2. conv' = R!CloseStream(ConvertedBody(conv, Upstream, body))
        BY <4>1, Zenon DEF ConvertedBody
      <4> QED BY <2>3, <4>2
    <3>2. body \in Seq(O!Event) /\ \A i \in DOMAIN body : body[i].type # "error"
      BY <1>1, <1>5, <2>3, BodySpeaks DEF Garbage, HasError
    <3>3. E = Loud \/ \A i \in DOMAIN body : body[i].type # "content_block_delta"
      BY <1>2, <2>3 DEF HasContent
    <3>4. RDone(k, E)
      <4> HIDE DEF O!Event
      <4> QED BY <1>0, <1>2, <3>2, <3>3, ConvertedDone
    <3> HIDE DEF k
    <3> QED BY <1>4, <2>1, <3>1, <3>4
  <2> QED BY <1>0, <2>2, <2>3
<1> QED BY <1>3, <1>5

\* A response starts with nothing said.
LEMMA ResponsesInit == Init => ResponsesEnds
<1> SUFFICES ASSUME Init, ToResponses PROVE ResponsesEnds
  BY DEF ResponsesEnds
<1>1. conv = R!NewConverter /\ saw = NothingSeen /\ result = "none" /\ frames = <<>>
  BY DEF Init, NewConverter, ToResponses
<1> DEFINE g == [i \in ToolIds |-> 0]
           s == <<>>
           b == FALSE
<1>2. conv = [started |-> b, closed |-> b, finished |-> b, errored |-> b,
              items |-> s, msgBlock |-> 0, anonKey |-> 0, idToKey |-> g,
              tokens |-> 0, hasUsage |-> b, stopReason |-> None, out |-> s]
  BY <1>1 DEF R!NewConverter
<1>3. g \in [ToolIds -> Int] /\ s \in Seq(RItem) /\ s \in Seq(REvent) /\ None \in RReasons /\ b \in BOOLEAN
  BY DEF RReasons
<1> HIDE DEF g, s, b, RItem, REvent, RReasons
<1>4. conv \in RConv /\ conv.out = s /\ conv.started = b /\ conv.finished = b /\ conv.errored = b
  BY <1>2, <1>3 DEF RConv
<1>5. RFresh(conv)
  BY <1>4 DEF RFresh, s, b
<1>6. RState(conv, Voice)
  BY <1>5 DEF RState, RAlive
<1>7. frames \in Seq(Frames[Upstream])
  BY <1>1
<1>8. ~saw.native /\ ~saw.terminal /\ ~saw.error
  BY <1>1 DEF NothingSeen
<1> QED BY <1>1, <1>5, <1>6, <1>7, <1>8 DEF ResponsesEnds, Answered

\* Every step keeps the ends of a Responses client's converted answer
\* right.
LEMMA ResponsesEndsNext ==
  AnthropicInv /\ saw \in SawType /\ ResponsesEnds /\ [Next]_vars => ResponsesEnds'
<1> SUFFICES ASSUME AnthropicInv, saw \in SawType, ResponsesEnds, [Next]_vars
             PROVE  ResponsesEnds'
  OBVIOUS
<1>0. route \in Routes
  BY DEF AnthropicInv
<1>1. CASE UNCHANGED vars
  <2>1. UNCHANGED <<route, frames, conv, saw, result>>
    BY <1>1 DEF vars
  <2> QED BY <2>1 DEF ResponsesEnds, Answered, ToResponses, NeedConvert, Client, Upstream, Voice
<1>2. CASE ~ToResponses
  <2>1. route' = route
    BY DEF Next, Frame, Broken, ClientGone, EndOfStream, JsonBody, vars
  <2> QED BY <1>2, <2>1 DEF ResponsesEnds, ToResponses, NeedConvert, Client, Upstream
<1>3. CASE ToResponses /\ Frame
  BY <1>0, <1>3, ResponsesFrame
<1>4. CASE ToResponses /\ EndOfStream
  BY <1>0, <1>4, ResponsesStreamEnds
<1>5. CASE ToResponses /\ Broken
  <2>1. result = "none" /\ conv' = Write(conv, <<ErrorEvent>>) /\ result' = "error"
    BY <1>5 DEF Broken, Return
  <2> QED BY <1>5, <2>1, ResponsesError
<1>6. CASE ToResponses /\ ClientGone
  BY <1>6 DEF ClientGone, Return, ResponsesEnds, Answered
<1>7. CASE ToResponses /\ JsonBody
  BY <1>0, <1>7, ResponsesBodyEnds
<1> QED BY <1>1, <1>2, <1>3, <1>4, <1>5, <1>6, <1>7 DEF Next

-----------------------------------------------------------------------------
(* Every route: one end, or an error.                                      *)

LEMMA WhatIsSeen ==
  /\ At(Ends) = EndsOf(Out) /\ At({"error"}) = ErrorsOf(Out)
  /\ At({"error"} \cup Ends) = ErrorsOf(Out) \cup EndsOf(Out)
<1>1. \A i \in DOMAIN Out : TypeAt(i) = Seen(Out[i])
  BY DEF TypeAt, Seen
<1>2. At(Ends) = EndsOf(Out)
  <2> HIDE DEF Ends
  <2> QED BY <1>1 DEF At, EndsOf
<1>3. At({"error"}) = ErrorsOf(Out)
  BY <1>1 DEF At, ErrorsOf
<1>4. At({"error"} \cup Ends) = ErrorsOf(Out) \cup EndsOf(Out)
  <2> HIDE DEF Ends
  <2> QED BY <1>1 DEF At, ErrorsOf, EndsOf
<1> QED BY <1>2, <1>3, <1>4

\* All of it holds at first.
LEMMA EndsInit == Init => EndsInv
<1>1. Init => AnthropicInv /\ OpenAIInv
  BY AnthropicInit, OpenAIInit
<1>2. Init => AnthropicEnds /\ OpenAIEnds /\ ResponsesEnds /\ NativeEnds
  BY AnthropicEndsNext, OpenAIEndsNext, ResponsesInit, NativeInit
<1> QED BY <1>1, <1>2, SawInv DEF EndsInv

\* All of it is kept by every step.
LEMMA EndsNext == NoNullErrors /\ EndsInv /\ [Next]_vars => EndsInv'
<1> SUFFICES ASSUME NoNullErrors, EndsInv, [Next]_vars PROVE EndsInv'
  OBVIOUS
<1>1. AnthropicInv' /\ OpenAIInv' /\ saw' \in SawType
  BY AnthropicNext, OpenAINext, SawInv DEF EndsInv
<1>2. AnthropicEnds' /\ OpenAIEnds'
  BY AnthropicEndsNext, OpenAIEndsNext DEF EndsInv
<1>3. ResponsesEnds' /\ NativeEnds'
  BY ResponsesEndsNext, NativeEndsNext DEF EndsInv
<1> QED BY <1>1, <1>2, <1>3 DEF EndsInv

\* It says what the clients may rely on.
LEMMA EndsImply == NoNullErrors /\ EndsInv => EndsOnce
<1> SUFFICES ASSUME NoNullErrors, EndsInv PROVE EndsOnce
  OBVIOUS
<1>0. Client \in Formats /\ Upstream \in Formats
  BY StreamAssumption DEF EndsInv, AnthropicInv, Client, Upstream
<1>1. CASE NeedConvert
  <2>1. ToAnthropic \/ ToOpenAI \/ ToResponses
    BY <1>0, <1>1 DEF ToAnthropic, ToOpenAI, ToResponses, Formats
  <2>2. NoNullErrors => Answered
    BY <2>1 DEF EndsInv, AnthropicEnds, OpenAIEnds, ResponsesEnds
  <2> QED BY <2>2, WhatIsSeen DEF Answered, EndsOnce, Complete, ErrorTold, Out
<1>2. CASE ~NeedConvert
  <2>1. NativeEnds /\ ToSame
    BY <1>2 DEF EndsInv, ToSame
  <2>2. result = "ok" => \/ Complete(Out)
                         \/ Client = "responses" /\ saw.native /\ Ongoing(Out)
    BY <2>1 DEF NativeEnds, Out
  <2>3. result = "error" => \/ Complete(Out)
                            \/ /\ ErrorsOf(Out) \cup EndsOf(Out) # {}
                               /\ \A j \in EndsOf(Out) : Out[j].type = "frame" \/ saw.done
    BY <2>1 DEF NativeEnds, Out
  <2>4. Ongoing(Out) => EndsOf(Out) = {} /\ ErrorsOf(Out) = {}
    BY DEF Ongoing, EndsOf, ErrorsOf, Harmless
  <2>5. Complete(Out) => EndsOf(Out) = {Len(Out)} /\ ErrorsOf(Out) = {}
    BY DEF Complete
  <2>6. ASSUME result = "ok"
        PROVE  /\ At({"error"}) = {}
               /\ \/ At(Ends) = {Len(Out)}
                  \/ Client = "responses" /\ ~NeedConvert /\ saw.native /\ At(Ends) = {}
    BY <1>2, <2>2, <2>4, <2>5, <2>6, WhatIsSeen
  <2>7. ASSUME result = "error"
        PROVE  /\ At({"error"} \cup Ends) # {}
               /\ \A i \in At({"error"}), j \in At(Ends) : j < i \/ OwnEnd(j)
    <3>1. CASE Complete(Out)
      BY <2>5, <3>1, WhatIsSeen, Zenon
    <3>2. CASE /\ ErrorsOf(Out) \cup EndsOf(Out) # {}
               /\ \A j \in EndsOf(Out) : Out[j].type = "frame" \/ saw.done
      BY <1>2, <3>2, WhatIsSeen, Zenon DEF OwnEnd
    <3> QED BY <2>3, <2>7, <3>1, <3>2, Zenon
  <2> QED BY <2>6, <2>7, Zenon DEF EndsOnce
<1> QED BY <1>1, <1>2

\* However the stream ends - its own end, an upstream that breaks off, a
\* client that leaves, a JSON body - a client whose request succeeded has
\* received exactly one end of its own format and no error, on every
\* route (but for a native Responses stream, whose terminal event is
\* upstream's own), and one whose request failed was told of it, with
\* nothing of the relay's own that pretends a success after it
\* (finishStream, writeStreamError and both CloseStreams). Upstreams are
\* assumed not to send "error": null, which the converters take for an
\* error.
THEOREM AnswersEnd == NoNullErrors => (Spec => []EndsOnce)
<1>1. ASSUME NoNullErrors PROVE Spec => []EndsOnce
  <2>1. EndsInv /\ [Next]_vars => EndsInv'
    BY <1>1, EndsNext
  <2>2. EndsInv => EndsOnce
    BY <1>1, EndsImply
  <2> QED BY <2>1, <2>2, EndsInit, PTL DEF Spec
<1> QED BY <1>1

-----------------------------------------------------------------------------
(* An answer without content gives its client nothing.                     *)

\* Framing events are events.
LEMMA QEvents == QEvent \subseteq AEvent /\ Seq(QEvent) \subseteq Seq(AEvent)
<1>1. QEvent \subseteq AEvent
  BY DEF QEvent, AEvent
<1> QED BY <1>1, SeqMonotonic

\* They carry no content.
LEMMA QuietVoid ==
  ASSUME NEW s \in Seq(QEvent)
  PROVE  Void(s)
<1>1. \A e \in QEvent : ~IsDelta(e) /\ e.type # "frame"
  BY DEF QEvent, IsDelta
<1> HIDE DEF QEvent
<1>2. \A i \in DOMAIN s : s[i] \in QEvent
  OBVIOUS
<1> QED BY <1>1, <1>2 DEF Void

\* Emitting them keeps the converter quiet.
LEMMA QuietEmit ==
  ASSUME NEW c, Quiet(c), NEW w \in Seq(QEvent), NEW d, d = A!Emit(c, w)
  PROVE  Quiet(d)
<1>1. w \in Seq(AEvent) /\ c \in AConv
  BY QEvents DEF Quiet
<1>2. d \in AConv /\ d.out = c.out \o w /\ d.blocks = c.blocks
  BY <1>1, AEmit DEF Steady
<1> HIDE DEF QEvent, AConv
<1> QED BY <1>2 DEF Quiet

\* So does changing a flag.
LEMMA QuietSame ==
  ASSUME NEW c, Quiet(c), NEW d
  PROVE  /\ d = [c EXCEPT !.started = TRUE] => Quiet(d)
         /\ d = [c EXCEPT !.finished = TRUE] => Quiet(d)
         /\ \A t \in Finishes : d = [c EXCEPT !.ended = t] => Quiet(d) /\ d.finished = c.finished
         /\ \A t \in Nat : d = [c EXCEPT !.tokens = t] => Quiet(d) /\ d.finished = c.finished
<1>0. c \in AConv
  BY DEF Quiet
<1> HIDE DEF QEvent, AEvent, ABlock, Finishes
<1>1. d = [c EXCEPT !.started = TRUE] => d \in AConv /\ d.blocks = c.blocks /\ d.out = c.out
  BY <1>0, Zenon DEF AConv
<1>2. d = [c EXCEPT !.finished = TRUE] => d \in AConv /\ d.blocks = c.blocks /\ d.out = c.out
  BY <1>0, Zenon DEF AConv
<1>3. \A t \in Finishes : d = [c EXCEPT !.ended = t] =>
        d \in AConv /\ d.blocks = c.blocks /\ d.out = c.out /\ d.finished = c.finished
  BY <1>0, Zenon DEF AConv
<1>4. \A t \in Nat : d = [c EXCEPT !.tokens = t] =>
        d \in AConv /\ d.blocks = c.blocks /\ d.out = c.out /\ d.finished = c.finished
  BY <1>0, Zenon DEF AConv
<1> QED BY <1>1, <1>2, <1>3, <1>4 DEF Quiet

\* So do the flushes: there is no block to let go or to stop.
LEMMA QuietFlush ==
  ASSUME NEW c, Quiet(c)
  PROVE  Quiet(A!FlushAll(c)) /\ Quiet(A!StopBlocks(c))
<1>0. c \in AConv /\ c.blocks = <<>> /\ c.out \in Seq(QEvent) /\ Len(c.blocks) = 0
  BY DEF Quiet
<1>a. c \in AConv
  BY DEF Quiet
<1>1. Quiet(A!FlushAll(c))
  <2> DEFINE d == A!FlushAll(c)
  <2>0. d = A!FlushAll(c)
    OBVIOUS
  <2> HIDE DEF d
  <2>b. Steady(c, d) /\ d.blocks = [i \in DOMAIN c.blocks |-> A!Flushed(c.blocks[i])]
    BY <1>0, <2>0, AFlushAll, Zenon
  <2>c. \E g \in [0 .. Len(c.blocks) -> Seq(BlockEvent)] :
          /\ g[0] = <<>>
          /\ \A i \in 1 .. Len(c.blocks) : g[i] = g[i - 1] \o FlushEvents(c.blocks, i)
          /\ d.out = c.out \o g[Len(c.blocks)]
    BY <1>a, <2>0, AFlushAll, Zenon
  <2>1. PICK g \in [0 .. Len(c.blocks) -> Seq(BlockEvent)] :
          g[0] = <<>> /\ d.out = c.out \o g[Len(c.blocks)]
    BY <2>c, Zenon
  <2>a. d \in AConv
    BY <2>b DEF Steady
  <2>2. d.blocks = <<>>
    BY <1>0, <2>b
  <2>3. d.out = c.out \o <<>>
    BY <1>0, <2>1
  <2>4. d.out = c.out
    BY <1>0, <2>3, ConcatEmptySeq
  <2>5. Quiet(d)
    BY <1>0, <2>a, <2>2, <2>4 DEF Quiet
  <2> QED BY <2>5 DEF d
<1>2. Quiet(A!StopBlocks(c))
  <2> DEFINE d == A!StopBlocks(c)
  <2>0. d = A!StopBlocks(c)
    OBVIOUS
  <2> HIDE DEF d
  <2>b. Steady(c, d) /\ d.blocks = c.blocks
    BY <1>0, <2>0, AStopBlocks, Zenon
  <2>c. \E g \in [0 .. Len(c.blocks) -> Seq(BlockEvent)] :
          /\ g[0] = <<>>
          /\ \A i \in 1 .. Len(c.blocks) : g[i] = g[i - 1] \o StopEvents(c.blocks, i)
          /\ d.out = c.out \o g[Len(c.blocks)]
    BY <1>a, <2>0, AStopBlocks, Zenon
  <2>1. PICK g \in [0 .. Len(c.blocks) -> Seq(BlockEvent)] :
          g[0] = <<>> /\ d.out = c.out \o g[Len(c.blocks)]
    BY <2>c, Zenon
  <2>a. d \in AConv
    BY <2>b DEF Steady
  <2>3. d.out = c.out \o <<>>
    BY <1>0, <2>1
  <2>4. d.out = c.out
    BY <1>0, <2>3, ConcatEmptySeq
  <2>5. Quiet(d)
    BY <1>0, <2>a, <2>b, <2>4 DEF Quiet
  <2> QED BY <2>5 DEF d
<1> QED BY <1>1, <1>2

\* So do the ends and the start of a message.
LEMMA QuietEnds ==
  ASSUME NEW c, Quiet(c)
  PROVE  Quiet(A!Terminate(c)) /\ Quiet(A!CloseStream(c)) /\ Quiet(A!Begin(c))
<1>1. \A d : Quiet(d) => Quiet(A!Terminate(d))
  <2> SUFFICES ASSUME NEW d, Quiet(d) PROVE Quiet(A!Terminate(d))
    OBVIOUS
  <2> DEFINE e == [type |-> "message_delta", reason |-> A!StopReason(d.ended), tokens |-> d.tokens]
             g == [type |-> "message_stop"]
             w == <<e, g>>
             x == A!Emit(d, w)
  <2>1. e \in QEvent /\ g \in QEvent
    <3>1. d.tokens \in Nat /\ A!StopReason(d.ended) \in StopReasons
      BY AFields DEF Quiet, A!StopReason, StopReasons
    <3> QED BY <3>1 DEF QEvent
  <2>2. w \in Seq(QEvent)
    <3> HIDE DEF e, g, QEvent
    <3> QED BY <2>1
  <2>3. A!Terminate(d) = IF d.finished THEN d ELSE [x EXCEPT !.finished = TRUE]
    BY DEF A!Terminate
  <2> HIDE DEF w
  <2>4. Quiet(x)
    BY <2>2, QuietEmit
  <2> HIDE DEF x
  <2> QED BY <2>3, <2>4, QuietSame
<1>2. Quiet(A!CloseStream(c))
  <2>1. Quiet(A!StopBlocks(A!FlushAll(c)))
    BY QuietFlush
  <2> QED BY <1>1, <2>1 DEF A!CloseStream
<1>3. Quiet(A!Begin(c))
  <2> DEFINE e == [type |-> "message_start"]
             w == <<e>>
             x == A!Emit(c, w)
  <2>1. e \in QEvent
    BY DEF QEvent
  <2>2. w \in Seq(QEvent)
    <3> HIDE DEF e, QEvent
    <3> QED BY <2>1
  <2>3. A!Begin(c) = IF c.started THEN c ELSE [x EXCEPT !.started = TRUE]
    BY DEF A!Begin
  <2> HIDE DEF w
  <2>4. Quiet(x)
    BY <2>2, QuietEmit
  <2> HIDE DEF x
  <2> QED BY <2>3, <2>4, QuietSame
<1> QED BY <1>1, <1>2, <1>3

\* So does converting a chunk without content.
LEMMA QuietConvert ==
  ASSUME NEW c, Quiet(c), NEW f, f.type = "malformed" \/ (f \in A!Chunk /\ ~ChatContent(f)), NEW n \in Nat
  PROVE  Quiet(A!Convert(c, f, n))
<1> DEFINE b == A!Begin(c)
           d == A!Delta(b, f, n)
           t == IF f.usage = "real" THEN n ELSE b.tokens
           e == [type |-> "error"]
           w == <<e>>
           m == A!Emit(b, w)
           u == [b EXCEPT !.tokens = t]
           k == A!StopBlocks(A!FlushAll(d))
           x == [k EXCEPT !.ended = f.finish]
           y == [x EXCEPT !.tokens = IF f.usage = "real" THEN n ELSE x.tokens]
<1>1. Quiet(b)
  BY QuietEnds
<1>2. A!Convert(c, f, n) =
        IF b.finished \/ f.type = "malformed" THEN b
        ELSE IF f.error # "absent" THEN [m EXCEPT !.finished = TRUE]
        ELSE IF ~f.choices THEN (IF u.ended # None THEN A!Terminate(u) ELSE u)
        ELSE IF b.ended # None THEN b
        ELSE IF f.finish = None THEN d
        ELSE IF f.usage = "absent" THEN x ELSE A!Terminate(y)
  BY DEF A!Convert, A!UsageChunk, A!Finish, A!ErrorEvent, A!NoFinish
<1> HIDE DEF b
<1>3. Quiet([m EXCEPT !.finished = TRUE])
  <2>1. e \in QEvent
    BY DEF QEvent
  <2>2. w \in Seq(QEvent)
    <3> HIDE DEF e, QEvent
    <3> QED BY <2>1
  <2> HIDE DEF w
  <2>3. Quiet(m)
    BY <1>1, <2>2, QuietEmit
  <2> HIDE DEF m
  <2> QED BY <2>3, QuietSame
<1>4. Quiet(u) /\ Quiet(A!Terminate(u))
  <2>1. t \in Nat
    BY <1>1, AFields DEF Quiet
  <2> HIDE DEF t
  <2>2. Quiet(u)
    BY <1>1, <2>1, QuietSame
  <2> QED BY <2>2, QuietEnds
<1>5. ASSUME f.type # "malformed"
      PROVE  Quiet(x) /\ Quiet(A!Terminate(y)) /\ Quiet(d)
  <2>1. f \in A!Chunk /\ ~f.think /\ ~f.text /\ f.tools = <<>> /\ f.finish \in Finishes
    <3>1. f \in A!Chunk /\ ~ChatContent(f) /\ f.type = "chunk"
      BY <1>5 DEF A!Chunk
    <3>2. f.finish \in Finishes
      BY <3>1 DEF A!Chunk, Finishes
    <3> QED BY <3>1, <3>2 DEF ChatContent
  <2>2. d = b
    <3>1. d = A!Tools(b, f, n)
      BY <2>1 DEF A!Delta
    <3>2. 0 \in Nat /\ DOMAIN f.tools = 1 .. 0
      BY <2>1
    <3> DEFINE X == {b}
    <3>3. b \in X /\ \A j \in 1 .. 0 : FALSE
      OBVIOUS
    <3> HIDE DEF X
    <3>4. A!Tools(b, f, n) \in X
      BY <3>2, <3>3, ToolsStay, Zenon
    <3> QED BY <3>1, <3>4 DEF X
  <2>3. Quiet(k)
    BY <1>1, <2>2, QuietFlush
  <2> HIDE DEF k
  <2>4. Quiet(x)
    BY <2>1, <2>3, QuietSame
  <2> HIDE DEF x
  <2>5. Quiet(y)
    <3> DEFINE s == IF f.usage = "real" THEN n ELSE x.tokens
    <3>1. s \in Nat
      BY <2>4, AFields DEF Quiet
    <3> HIDE DEF s
    <3> QED BY <2>4, <3>1, QuietSame DEF s
  <2> HIDE DEF y
  <2> QED BY <1>1, <2>2, <2>4, <2>5, QuietEnds
<1> HIDE DEF d, t, m, u, x, y
<1> QED BY <1>1, <1>2, <1>3, <1>4, <1>5

\* What is written after a quiet converter's events is void too.
LEMMA QuietWrite ==
  ASSUME NEW c, Quiet(c), NEW w \in Seq(QEvent)
  PROVE  Void(Write(c, w).out)
<1> DEFINE o == c.out \o w
           x == Write(c, w)
<1>1. c \in AConv /\ c.out \in Seq(QEvent)
  BY DEF Quiet
<1>2. o \in Seq(QEvent)
  <2> HIDE DEF QEvent
  <2> QED BY <1>1
<1>3. x.out = o
  <2>1. x = [c EXCEPT !.out = o]
    BY DEF Write
  <2> HIDE DEF o, x, AEvent, ABlock
  <2> QED BY <1>1, <2>1 DEF AConv
<1> HIDE DEF o, x
<1>4. Void(x.out)
  BY <1>2, <1>3, QuietVoid
<1> QED BY <1>4 DEF x

\* The events that end a message are framing.
LEMMA AnthropicEndQuiet ==
  ASSUME NEW r \in StopReasons, NEW n \in Nat
  PROVE  AnthropicEnd(r, n) \in Seq(QEvent)
<1> DEFINE e == [type |-> "message_delta", reason |-> r, tokens |-> n]
           g == [type |-> "message_stop"]
<1>1. e \in QEvent /\ g \in QEvent
  BY DEF QEvent
<1>2. AnthropicEnd(r, n) = <<e, g>>
  BY DEF AnthropicEnd
<1> HIDE DEF e, g, QEvent
<1> QED BY <1>1, <1>2

\* Whether content has come is noted.
LEMMA ContentIs ==
  ASSUME saw \in SawType, NEW f, saw' = Noted(f)
  PROVE  saw'.content <=> saw.content \/ HasContent(f)
  BY NotedIs

\* A frame without content gives an Anthropic client none.
LEMMA AnthropicFrameEmpty ==
  ASSUME AnthropicInv, AnthropicEmpty, saw \in SawType, ToAnthropic, Frame
  PROVE  AnthropicEmpty'
<1>0. /\ route \in Routes /\ Client = "anthropic" /\ NeedConvert /\ Upstream = "openai" /\ result = "none"
      /\ frames \in Seq(Frames["openai"])
  BY RouteFacts DEF AnthropicInv, ToAnthropic, Frame
<1> SUFFICES ASSUME ~saw'.content PROVE (result' = "none" => Quiet(conv')) /\ (result' = "ok" => Void(conv'.out))
  BY DEF AnthropicEmpty
<1>2. PICK f \in Frames["openai"] : Sentinel(f) \/ Payload(f)
  BY <1>0 DEF Frame
<1>3. f.type \in {"malformed", "[DONE]"} \/ f \in A!Chunk
  BY FrameAssumption
<1>5. CASE Sentinel(f)
  <2>1. conv' = conv /\ result' = "none" /\ saw'.content = saw.content
    BY <1>0, <1>5 DEF Sentinel, SawType
  <2> QED BY <1>0, <2>1 DEF AnthropicEmpty
<1>6. CASE Payload(f)
  <2> DEFINE n == Place
             e == Convert(f, n)
  <2>1. n \in Nat
    BY <1>0 DEF Place
  <2>2. f.type = "malformed" \/ f \in A!Chunk
    BY <1>3, <1>6 DEF Payload
  <2>3. e = A!Convert(conv, f, n)
    BY <1>0 DEF Convert
  <2>5. /\ saw' = IF f.type = "malformed" THEN saw ELSE Noted(f)
        /\ result' = "error" \/ (conv' = e /\ result' = "none")
    BY <1>0, <1>6 DEF Payload, Return
  <2> HIDE DEF n, e
  <2>6. ~saw.content /\ (f.type = "malformed" \/ ~ChatContent(f))
    BY <1>0, <2>5, ContentIs DEF HasContent
  <2>7. Quiet(e)
    BY <1>0, <2>1, <2>2, <2>3, <2>6, QuietConvert DEF AnthropicEmpty
  <2> QED BY <2>5, <2>7
<1> QED BY <1>2, <1>5, <1>6

\* A chat completion without content is a message without blocks.
LEMMA EmptyMessage ==
  ASSUME NEW b \in A!Chunk, ~ChatContent(b)
  PROVE  MessageBlocks(b) = <<>> /\ MessageEvents(<<>>) = <<[type |-> "message_start"]>>
<1>1. b.think = FALSE /\ b.text = FALSE /\ b.refusal = FALSE /\ b.tools = <<>>
  BY DEF ChatContent, A!Chunk
<1> DEFINE t == [j \in DOMAIN b.tools |-> [kind |-> "tool", data |-> <<1, j>>]]
           x == <<[kind |-> "thinking", data |-> <<1, 0>>]>>
           y == <<[kind |-> "text", data |-> <<1, 0>>]>>
           none == <<>>
<1>2. t = <<>>
  BY <1>1
<1>3. MessageBlocks(b) = (IF b.think THEN x ELSE none) \o (IF b.text THEN y ELSE none)
                         \o (IF b.refusal THEN y ELSE none) \o t
  BY DEF MessageBlocks
<1>4. MessageBlocks(b) = none \o none \o none \o none
  <2> HIDE DEF t, x, y, none
  <2>1. t = none
    BY <1>2 DEF none
  <2> QED BY <1>1, <1>3, <2>1, Zenon
<1>5. MessageBlocks(b) = <<>>
  <2>1. none \in Seq({})
    OBVIOUS
  <2>2. none \o none = none
    OBVIOUS
  <2> HIDE DEF none
  <2>3. MessageBlocks(b) = none
    BY <1>4, <2>2
  <2> QED BY <2>3 DEF none
<1> DEFINE s == [i \in DOMAIN <<>> |->
                   <<A!BlockStart(i, [kind |-> <<>>[i].kind, id |-> TRUE, name |-> TRUE]),
                     A!BlockDelta(i, <<>>[i].kind, <<>>[i].data), A!BlockStop(i)>>]
           m == <<[type |-> "message_start"]>>
<1>6. MessageEvents(<<>>) = m \o FlattenSeq(s)
  BY DEF MessageEvents
<1>7. s \in [1 .. 0 -> Seq({})]
  OBVIOUS
<1> HIDE DEF s
<1>8. FlattenSeq(s) \in Seq({})
  BY <1>7, FlatType, Zenon
<1>9. FlattenSeq(s) = <<>>
  BY <1>8
<1>10. m \o <<>> = m
  BY ConcatEmptySeq
<1> QED BY <1>5, <1>6, <1>9, <1>10

\* The end of the stream and a JSON body give it none.
LEMMA AnthropicOtherEmpty ==
  ASSUME AnthropicInv, AnthropicEmpty, saw \in SawType, ToAnthropic, EndOfStream \/ JsonBody
  PROVE  AnthropicEmpty'
<1>0. /\ conv \in AConv /\ Client = "anthropic" /\ NeedConvert /\ Upstream = "openai"
      /\ result = "none" /\ (frames = <<>> => Silent(conv))
  BY RouteFacts DEF AnthropicInv, ToAnthropic, EndOfStream, JsonBody
<1> SUFFICES ASSUME ~saw'.content, result' \in {"none", "ok"} PROVE result' = "ok" /\ Void(conv'.out)
  BY DEF AnthropicEmpty
<1>1. CASE EndOfStream
  <2>1. conv' = Write(Closed, Ending) /\ result' \in {"ok", "error"} /\ saw' = saw
    BY <1>0, <1>1 DEF EndOfStream, Return
  <2>2. Closed = conv \/ Closed = A!CloseStream(conv)
    BY <1>0 DEF Closed
  <2>3. Quiet(conv)
    BY <1>0, <2>1 DEF AnthropicEmpty
  <2>4. Quiet(Closed)
    BY <2>2, <2>3, QuietEnds
  <2>5. Ending \in Seq(QEvent)
    <3> DEFINE g == [type |-> "message_stop"]
               none == <<>>
    <3>1. g \in QEvent
      BY DEF QEvent
    <3>2. AnthropicEnd("end_turn", 0) \in Seq(QEvent)
      <4>1. "end_turn" \in StopReasons /\ 0 \in Nat
        BY DEF StopReasons
      <4> HIDE DEF StopReasons, QEvent
      <4> QED BY <4>1, AnthropicEndQuiet
    <3>3. Ending \in {none, <<g>>, AnthropicEnd("end_turn", 0)}
      BY <1>0 DEF Ending
    <3> HIDE DEF g, QEvent
    <3>4. none \in Seq(QEvent) /\ <<g>> \in Seq(QEvent)
      BY <3>1
    <3> QED BY <3>2, <3>3, <3>4, Zenon
  <2> QED BY <2>1, <2>4, <2>5, QuietWrite
<1>2. CASE JsonBody
  <2>0. Silent(conv)
    BY <1>0, <1>2 DEF JsonBody
  <2>1. PICK body \in Bodies[Upstream], u \in BOOLEAN : BodyTo(body, u)
    BY <1>2, Zenon DEF JsonBody, BodyTo
  <2>2. ~Garbage(body) /\ conv' = Write(conv, AnthropicBody(body)) /\ result' = "ok"
    BY <1>0, <2>1 DEF Return, Whole, BodyTo
  <2>3. body[1] \in A!Chunk /\ 1 \in DOMAIN body
    BY <1>0, <2>2, BodyAssumption DEF Garbage
  <2>4. ~ChatContent(body[1])
    <3> DEFINE t == \E i \in DOMAIN body : HasContent(body[i])
    <3>1. saw' = [saw EXCEPT !.content = t]
      BY <2>1 DEF BodyTo
    <3>2. HasContent(body[1]) => t
      BY <2>3
    <3> HIDE DEF t
    <3>3. saw'.content = t
      BY <3>1 DEF SawType
    <3> QED BY <1>0, <3>2, <3>3 DEF HasContent
  <2>5. MessageEvents(MessageBlocks(body[1])) = <<[type |-> "message_start"]>>
    BY <2>3, <2>4, EmptyMessage
  <2> DEFINE r == A!StopReason(body[1].finish)
             n == IF body[1].usage = "real" THEN 1 ELSE 0
             m == <<[type |-> "message_start"]>>
  <2>6. AnthropicBody(body) = m \o AnthropicEnd(r, n)
    BY <1>0, <2>5 DEF AnthropicBody
  <2>7. r \in StopReasons /\ n \in Nat
    BY DEF A!StopReason, StopReasons
  <2>8. m \in Seq(QEvent)
    <3> DEFINE g == [type |-> "message_start"]
    <3>1. g \in QEvent
      BY DEF QEvent
    <3> HIDE DEF g, QEvent
    <3>2. <<g>> \in Seq(QEvent)
      BY <3>1
    <3> QED BY <3>2 DEF g
  <2> HIDE DEF r, n, m
  <2>9. AnthropicBody(body) \in Seq(QEvent)
    <3>1. AnthropicEnd(r, n) \in Seq(QEvent)
      BY <2>7, AnthropicEndQuiet
    <3> HIDE DEF QEvent
    <3> QED BY <2>6, <2>8, <3>1
  <2>10. Quiet(conv)
    <3> HIDE DEF QEvent
    <3> QED BY <2>0 DEF Silent, Quiet
  <2> QED BY <2>2, <2>9, <2>10, QuietWrite
<1> QED BY <1>1, <1>2

\* Every step keeps an empty answer empty for an Anthropic client.
LEMMA AnthropicEmptyNext ==
  /\ Init => AnthropicEmpty
  /\ AnthropicInv /\ saw \in SawType /\ AnthropicEmpty /\ [Next]_vars => AnthropicEmpty'
<1>1. Init => AnthropicEmpty
  <2> SUFFICES ASSUME Init, ToAnthropic PROVE Quiet(conv) /\ result = "none"
    BY DEF AnthropicEmpty
  <2>1. Silent(conv)
    BY AnthropicInit DEF AnthropicInv, Init
  <2> HIDE DEF QEvent
  <2> QED BY <2>1 DEF Silent, Quiet, Init
<1>2. ASSUME AnthropicInv, saw \in SawType, AnthropicEmpty, [Next]_vars
      PROVE  AnthropicEmpty'
  <2>1. route' = route
    BY <1>2 DEF Next, Frame, EndOfStream, Broken, ClientGone, JsonBody, vars
  <2>2. CASE ~ToAnthropic
    BY <2>1, <2>2 DEF AnthropicEmpty, ToAnthropic, NeedConvert, Client, Upstream
  <2>3. CASE ToAnthropic /\ UNCHANGED vars
    BY <1>2, <2>3 DEF vars, AnthropicEmpty, ToAnthropic, NeedConvert, Client, Upstream
  <2>4. CASE Broken \/ ClientGone
    BY <2>4 DEF AnthropicEmpty, Broken, ClientGone, Return
  <2> QED BY <1>2, <2>2, <2>3, <2>4, AnthropicFrameEmpty, AnthropicOtherEmpty DEF Next
<1> QED BY <1>1, <1>2

\* One event more without content.
LEMMA VoidMore ==
  ASSUME NEW s, NEW e, NEW t, Void(s), OneMore(s, e, t), ~IsDelta(e), e.type # "frame"
  PROVE  Void(t)
<1>1. /\ \A p \in DOMAIN s : p \in DOMAIN t /\ t[p] = s[p]
      /\ \A p \in DOMAIN t : p \in DOMAIN s \/ p = Len(t)
      /\ t[Len(t)] = e
  BY DEF OneMore
<1> QED BY <1>1 DEF Void

\* An event without content gives an OpenAI client none.
LEMMA VoidConvert ==
  ASSUME NEW c \in OConv, Void(c.out), NEW f, f.type = "malformed" \/ f \in O!Event,
         f.type \notin {"content_block_start", "content_block_delta"}, NEW n \in Nat, NEW d, d = O!Convert(c, f, n)
  PROVE  Void(d.out)
<1>1. Same(c, d) \/ Announced(c, d, f) \/ Chunked(c, d, f) \/ Finished(c, d, f) \/ Failed(c, d, f)
  BY OConvert
<1>2. c.out \in Seq(OEvent)
  BY OFields
<1>3. ASSUME NEW x \in OEvent, x.type \in {"finish", "error"}, d.out = Append(c.out, x)
      PROVE  Void(d.out)
  <2>1. OneMore(c.out, x, d.out)
    <3> HIDE DEF OEvent
    <3> QED BY <1>2, <1>3, OneMoreIs, Zenon
  <2> QED BY <1>3, <2>1, VoidMore DEF IsDelta
<1>4. CASE Same(c, d)
  BY <1>4 DEF Same
<1>5. CASE Announced(c, d, f) \/ Chunked(c, d, f)
  BY <1>5 DEF Announced, Chunked
<1>6. CASE Finished(c, d, f)
  BY <1>3, <1>6 DEF Finished, IsFinish
<1>7. CASE Failed(c, d, f)
  <2>1. O!ErrorChunk \in OEvent /\ O!ErrorChunk.type = "error"
    BY DEF O!ErrorChunk, OEvent
  <2> QED BY <1>3, <1>7, <2>1 DEF Failed
<1> QED BY <1>1, <1>4, <1>5, <1>6, <1>7

\* An Anthropic message without content is a completion without content.
LEMMA EmptyCompletion ==
  ASSUME NEW body \in Seq(O!Event), \A i \in DOMAIN body : body[i].type # "content_block_delta"
  PROVE  Void(Append(CompletionEvents(body), DoneEvent))
         /\ \E E : Append(CompletionEvents(body), DoneEvent) \in Seq(E)
<1> DEFINE n == Len(body)
           of(kind, i) == body[i].type = "content_block_delta" /\ body[i].kind = kind
           parts(kind) == [i \in DOMAIN body |-> IF of(kind, i) THEN <<<<i, 0>>>> ELSE <<>>]
           deltas(kind) == FlattenSeq(parts(kind))
           prose(kind) == [i \in DOMAIN deltas(kind) |-> O!ContentChunk(kind, 0, deltas(kind)[i])]
           pairs == [t \in DOMAIN deltas("tool") |->
                       <<O!ContentChunk("tool_start", t, None), O!ContentChunk("tool", t, deltas("tool")[t])>>]
           tools == FlattenSeq(pairs)
           end == body[LastOf({i \in DOMAIN body : body[i].type = "message_delta"})]
           fin == O!FinishChunk(O!FinishReason(end.reason), 0)
           th == prose("thinking")
           tx == prose("text")
           none == <<>>
<1>0. n \in Nat /\ DOMAIN body = 1 .. n
  OBVIOUS
<1>1. \A kind : deltas(kind) = none
  <2> SUFFICES ASSUME NEW kind PROVE deltas(kind) = none
    BY Zenon
  <2> DEFINE q == parts(kind)
  <2>1. q \in [1 .. n -> Seq({})]
    <3>1. \A i \in DOMAIN body : ~of(kind, i)
      OBVIOUS
    <3>2. \A i \in DOMAIN body : q[i] = <<>>
      <4> HIDE DEF of
      <4> QED BY <3>1
    <3>3. DOMAIN q = 1 .. n /\ q = [i \in DOMAIN q |-> q[i]]
      BY <1>0
    <3> HIDE DEF q, n
    <3>4. \A i \in 1 .. n : q[i] \in Seq({})
      <4>1. <<>> \in Seq({})
        OBVIOUS
      <4> QED BY <1>0, <3>2, <4>1, Zenon
    <3> QED BY <3>3, <3>4
  <2> HIDE DEF q, n
  <2>2. FlattenSeq(q) \in Seq({})
    BY <1>0, <2>1, FlatType
  <2>3. FlattenSeq(q) = none
    BY <2>2
  <2> QED BY <2>3 DEF q
<1> HIDE DEF deltas
<1>2. th = none /\ tx = none /\ pairs = none
  BY <1>1
<1>3. tools = none
  <2> HIDE DEF pairs
  <2>1. pairs \in [1 .. 0 -> Seq({})]
    BY <1>2
  <2>2. FlattenSeq(pairs) \in Seq({})
    BY <2>1, FlatType, Zenon
  <2>3. \A s \in Seq({}) : s = <<>>
    OBVIOUS
  <2>4. FlattenSeq(pairs) = <<>>
    BY <2>2, <2>3
  <2> QED BY <2>4
<1>4. CompletionEvents(body) = th \o tx \o tools \o <<fin>>
  BY DEF CompletionEvents, deltas
<1> HIDE DEF th, tx, tools
<1>5. fin.type = "finish" /\ DoneEvent.type = "[DONE]"
  BY DEF O!FinishChunk, DoneEvent
<1> DEFINE dn == DoneEvent
           E == {fin, dn}
           v == <<fin>>
<1> HIDE DEF fin, dn
<1>6. CompletionEvents(body) = v
  <2>1. none \o none = none /\ none \o <<fin>> = <<fin>>
    OBVIOUS
  <2> HIDE DEF none
  <2> QED BY <1>2, <1>3, <1>4, <2>1, Zenon
<1>7. v \in Seq(E) /\ DOMAIN v = {1} /\ v[1] = fin
  OBVIOUS
<1> HIDE DEF v
<1>8. OneMore(v, dn, Append(v, dn)) /\ Append(v, dn) \in Seq(E)
  BY <1>7, OneMoreIs, Zenon
<1>9. Void(v)
  BY <1>5, <1>7 DEF Void, IsDelta
<1>10. Void(Append(v, dn))
  BY <1>5, <1>8, <1>9, VoidMore DEF IsDelta, dn
<1> QED BY <1>6, <1>8, <1>10 DEF dn

\* Every step keeps an empty answer empty for an OpenAI client.
LEMMA OpenAIEmptyNext ==
  /\ Init => OpenAIEmpty
  /\ OpenAIInv /\ saw \in SawType /\ OpenAIEnds /\ OpenAIEmpty /\ [Next]_vars => OpenAIEmpty'
<1>1. Init => OpenAIEmpty
  <2> SUFFICES ASSUME Init, ToOpenAI PROVE Void(conv.out)
    BY DEF OpenAIEmpty
  <2>1. conv.out = <<>>
    BY DEF Init, NewConverter, ToOpenAI, O!NewConverter
  <2> QED BY <2>1 DEF Void
<1>2. ASSUME OpenAIInv, saw \in SawType, OpenAIEnds, OpenAIEmpty, [Next]_vars
      PROVE  OpenAIEmpty'
  <2>1. route' = route
    BY <1>2 DEF Next, Frame, EndOfStream, Broken, ClientGone, JsonBody, vars
  <2>2. CASE ~ToOpenAI
    BY <2>1, <2>2 DEF OpenAIEmpty, ToOpenAI, NeedConvert, Client, Upstream
  <2>3. CASE ToOpenAI /\ UNCHANGED vars
    BY <1>2, <2>3 DEF vars, OpenAIEmpty, ToOpenAI, NeedConvert, Client, Upstream
  <2>4. CASE Broken \/ ClientGone
    BY <2>4 DEF OpenAIEmpty, Broken, ClientGone, Return
  <2>s. ASSUME ToOpenAI, result = "none"
        PROVE  /\ Client = "openai" /\ NeedConvert /\ Upstream = "anthropic"
               /\ conv \in OConv /\ (frames = <<>> => conv.out = <<>>) /\ frames \in Seq(Frames["anthropic"])
               /\ ~saw.done /\ (saw.error => conv.errored)
               /\ ~saw.content => Void(conv.out)
    BY <1>2, <2>s, RouteFacts DEF OpenAIInv, OpenAIEnds, ToOpenAI, Speaking, OpenAIEmpty
  <2>5. CASE ToOpenAI /\ Frame
    <3> SUFFICES ASSUME ~saw'.content, result' \in {"none", "ok"} PROVE Void(conv'.out)
      BY DEF OpenAIEmpty
    <3>0. /\ Client = "openai" /\ NeedConvert /\ Upstream = "anthropic" /\ result = "none"
          /\ conv \in OConv /\ frames \in Seq(Frames["anthropic"]) /\ (~saw.content => Void(conv.out))
      BY <2>5, <2>s DEF Frame
    <3>1. PICK f \in Frames["anthropic"] : Sentinel(f) \/ Payload(f)
      BY <2>5, <3>0 DEF Frame
    <3>2. f.type = "malformed" \/ f \in O!Event
      BY FrameAssumption
    <3>3. f.type # "[DONE]"
      BY <3>2 DEF O!Event
    <3>4. Payload(f)
      BY <3>1, <3>3 DEF Sentinel
    <3> DEFINE n == Place
               e == Convert(f, n)
    <3>5. n \in Nat /\ e = O!Convert(conv, f, n)
      BY <3>0 DEF Place, Convert
    <3>6. ~Skips
      BY <3>0 DEF Skips
    <3>7. /\ saw' = IF f.type = "malformed" THEN saw ELSE Noted(f)
          /\ IF f.type = "malformed" THEN result' = "error" ELSE conv' = e
      BY <3>0, <3>4, <3>6 DEF Payload, Return
    <3> HIDE DEF n, e
    <3>8. ~saw.content /\ f.type \notin {"content_block_start", "content_block_delta"} /\ conv' = e
      BY <1>2, <3>0, <3>7, ContentIs DEF HasContent
    <3> QED BY <3>0, <3>2, <3>5, <3>8, VoidConvert
  <2>6. CASE ToOpenAI /\ EndOfStream
    <3> SUFFICES ASSUME ~saw'.content PROVE Void(conv'.out)
      BY DEF OpenAIEmpty
    <3>0. /\ Client = "openai" /\ NeedConvert /\ Upstream = "anthropic" /\ result = "none" /\ saw' = saw
          /\ conv \in OConv /\ (saw.error => conv.errored) /\ (~saw.content => Void(conv.out)) /\ ~saw.done
      BY <2>6, <2>s DEF EndOfStream
    <3>1. conv' = Write(conv, IF conv.errored THEN <<>> ELSE <<DoneEvent>>)
      BY <2>6, <3>0 DEF EndOfStream, Return, Errored, Ending, Closed
    <3>2. Void(conv.out)
      BY <3>0
    <3>3. CASE conv.errored
      <4>1. conv'.out = conv.out \o <<>>
        BY <3>0, <3>1, <3>3 DEF Write, OConv
      <4>2. conv'.out = conv.out
        BY <3>0, <4>1, OFields, ConcatEmptySeq
      <4> QED BY <3>2, <4>2
    <3>4. CASE ~conv.errored
      <4>1. DoneEvent \in [type : {"error", "[DONE]"}] /\ ~IsDelta(DoneEvent) /\ DoneEvent.type # "frame"
        BY DEF DoneEvent, IsDelta
      <4>2. OneMore(conv.out, DoneEvent, conv'.out)
        BY <3>0, <3>1, <3>4, <4>1, OpenAITail
      <4> QED BY <3>2, <4>1, <4>2, VoidMore
    <3> QED BY <3>3, <3>4
  <2>7. CASE ToOpenAI /\ JsonBody
    <3> SUFFICES ASSUME ~saw'.content, result' \in {"none", "ok"} PROVE Void(conv'.out)
      BY DEF OpenAIEmpty
    <3>0. /\ Client = "openai" /\ NeedConvert /\ Upstream = "anthropic" /\ result = "none"
          /\ conv \in OConv /\ conv.out = <<>>
      BY <2>7, <2>s DEF JsonBody
    <3>1. PICK body \in Bodies[Upstream], u \in BOOLEAN : BodyTo(body, u)
      BY <2>7, Zenon DEF JsonBody, BodyTo
    <3>2. ~Garbage(body) /\ ~HasError(body[1]) /\ conv' = Whole(body, u)
      BY <3>0, <3>1 DEF Return, BodyTo
    <3> DEFINE w == Append(CompletionEvents(body), DoneEvent)
    <3>3. conv' = Write(conv, w)
      BY <3>0, <3>2 DEF Whole, OpenAIBody
    <3>4. body \in Seq(O!Event)
      BY <3>0, <3>2, BodySpeaks DEF Garbage, HasError
    <3>5. \A i \in DOMAIN body : body[i].type # "content_block_delta"
      <4> DEFINE t == \E i \in DOMAIN body : HasContent(body[i])
      <4>1. saw' = [saw EXCEPT !.content = t]
        BY <3>1 DEF BodyTo
      <4>2. ~t => \A i \in DOMAIN body : ~HasContent(body[i])
        OBVIOUS
      <4> HIDE DEF t
      <4>3. saw'.content = t
        BY <1>2, <4>1 DEF SawType
      <4> QED BY <3>0, <4>2, <4>3 DEF HasContent
    <3>6. Void(w) /\ \E E : w \in Seq(E)
      <4> HIDE DEF O!Event
      <4> QED BY <3>4, <3>5, EmptyCompletion
    <3> HIDE DEF w
    <3>7. conv'.out = conv.out \o w
      BY <3>0, <3>3 DEF Write, OConv
    <3>8. conv'.out = w
      BY <3>0, <3>6, <3>7, ConcatEmptySeq
    <3> QED BY <3>6, <3>8
  <2> QED BY <1>2, <2>2, <2>3, <2>4, <2>5, <2>6, <2>7 DEF Next
<1> QED BY <1>1, <1>2

\* The same at the next state.
LEMMA VacantNext ==
  ASSUME route' = route, Vacant(conv'.out)
  PROVE  Vacant(conv.out)'
  BY Zenon DEF Vacant, Hollow, HasContent, Upstream

\* One hollow event more.
LEMMA VacantMore ==
  ASSUME NEW s, NEW e, NEW t, Vacant(s), OneMore(s, e, t), Hollow(e)
  PROVE  Vacant(t)
<1>1. /\ \A p \in DOMAIN s : p \in DOMAIN t /\ t[p] = s[p]
      /\ \A p \in DOMAIN t : p \in DOMAIN s \/ p = Len(t)
      /\ t[Len(t)] = e
  BY DEF OneMore
<1> HIDE DEF Hollow
<1> QED BY <1>1 DEF Vacant

\* Hollow events after hollow events.
LEMMA VacantJoin ==
  ASSUME NEW E, NEW s \in Seq(E), NEW w \in Seq(E), Vacant(s), Vacant(w)
  PROVE  Vacant(s \o w)
<1> DEFINE t == s \o w
<1>1. /\ \A p \in DOMAIN s : t[p] = s[p]
      /\ \A p \in DOMAIN t : p \in DOMAIN s \/ (p - Len(s) \in DOMAIN w /\ t[p] = w[p - Len(s)])
  BY Longer
<1> HIDE DEF t, Hollow
<1>2. Vacant(t)
  <2> SUFFICES ASSUME NEW p \in DOMAIN t PROVE Hollow(t[p])
    BY DEF Vacant
  <2>1. CASE p \in DOMAIN s
    BY <1>1, <2>1 DEF Vacant
  <2>2. CASE p \notin DOMAIN s
    BY <1>1, <2>2 DEF Vacant
  <2> QED BY <2>1, <2>2
<1> QED BY <1>2 DEF t

\* Up to three of them.
LEMMA VacantFew ==
  ASSUME NEW a, Hollow(a)
  PROVE  /\ Vacant(<<a>>)
         /\ \A b : Hollow(b) => Vacant(<<a, b>>)
         /\ \A b, c : Hollow(b) /\ Hollow(c) => Vacant(<<a, b, c>>)
<1> HIDE DEF Hollow
<1>1. Vacant(<<a>>)
  <2> DEFINE s == <<a>>
  <2>1. DOMAIN s = {1} /\ s[1] = a
    OBVIOUS
  <2> HIDE DEF s
  <2>2. Vacant(s)
    BY <2>1 DEF Vacant
  <2> QED BY <2>2 DEF s
<1>2. ASSUME NEW b, Hollow(b) PROVE Vacant(<<a, b>>)
  <2> DEFINE s == <<a, b>>
  <2>1. DOMAIN s = {1, 2} /\ s[1] = a /\ s[2] = b
    OBVIOUS
  <2> HIDE DEF s
  <2>2. Vacant(s)
    BY <1>2, <2>1 DEF Vacant
  <2> QED BY <2>2 DEF s
<1>3. ASSUME NEW b, NEW c, Hollow(b), Hollow(c) PROVE Vacant(<<a, b, c>>)
  <2> DEFINE s == <<a, b, c>>
  <2>1. DOMAIN s = {1, 2, 3} /\ s[1] = a /\ s[2] = b /\ s[3] = c
    OBVIOUS
  <2> HIDE DEF s
  <2>2. Vacant(s)
    BY <1>3, <2>1 DEF Vacant
  <2> QED BY <2>2 DEF s
<1> QED BY <1>1, <1>2, <1>3

\* The relay's own events say nothing.
LEMMA OwnHollow ==
  /\ Hollow(DoneEvent) /\ Hollow(CompletedEvent) /\ Hollow([type |-> "message_stop"])
  /\ \A t : t \notin {"frame", "content_block_delta", "chunk", "delta"} => \A e : e.type = t => Hollow(e)
  /\ \A reason, n : \E a, e : AnthropicEnd(reason, n) = <<a, e>> /\ Hollow(a) /\ Hollow(e)
<1>1. \A e : e.type \notin {"frame", "content_block_delta", "chunk", "delta"} => Hollow(e)
  BY DEF Hollow, IsDelta
<1>2. Hollow(DoneEvent) /\ Hollow(CompletedEvent) /\ Hollow([type |-> "message_stop"])
  BY <1>1 DEF DoneEvent, CompletedEvent
<1>3. ASSUME NEW reason, NEW n
      PROVE  \E a, e : AnthropicEnd(reason, n) = <<a, e>> /\ Hollow(a) /\ Hollow(e)
  <2> DEFINE d == [type |-> "message_delta", reason |-> reason, tokens |-> n]
             m == [type |-> "message_stop"]
  <2>1. Hollow(d) /\ Hollow(m)
    BY <1>1
  <2>2. AnthropicEnd(reason, n) = <<d, m>>
    BY DEF AnthropicEnd
  <2> HIDE DEF d, m
  <2> QED BY <2>1, <2>2
<1> QED BY <1>1, <1>2, <1>3

\* A frame without content is forwarded as it is, hollow.
LEMMA ForwardHollow ==
  ASSUME NEW f, ~HasContent(f)
  PROVE  Hollow([type |-> "frame", frame |-> f])
  BY DEF Hollow, IsDelta

\* A frame that is no JSON has no content.
LEMMA MalformedHollow ==
  ASSUME NEW f, f.type = "malformed", Upstream \in Formats
  PROVE  ~HasContent(f)
  BY Zenon DEF HasContent, ChatContent, Formats

\* Writing hollow events.
LEMMA VacantWrite ==
  ASSUME NEW c \in NConv, Vacant(c.out), NEW w, \E E : w \in Seq(E), Vacant(w)
  PROVE  Vacant(Write(c, w).out)
<1>1. PICK E : w \in Seq(E)
  OBVIOUS
<1> DEFINE D == NEvent \cup E
<1>2. NEvent \subseteq D /\ E \subseteq D
  OBVIOUS
<1> HIDE DEF D, NEvent
<1>3. c.out \in Seq(D)
  BY <1>2, NFields, SeqMonotonic
<1>4. w \in Seq(D)
  BY <1>1, <1>2, SeqMonotonic
<1>5. Vacant(c.out \o w)
  BY <1>3, <1>4, VacantJoin
<1> QED BY <1>5, NWrite, Zenon

\* What finishStream adds is hollow.
LEMMA VacantEnding ==
  ASSUME route \in Routes, ToSame
  PROVE  Vacant(Ending) /\ \E E : Ending \in Seq(E)
<1> DEFINE m == [type |-> "message_stop"]
           none == <<>>
<1>1. Client \in Formats
  BY SameFacts
<1>2. PICK a, e : AnthropicEnd("end_turn", 0) = <<a, e>> /\ Hollow(a) /\ Hollow(e)
  BY OwnHollow
<1> DEFINE p == <<a, e>>
<1>3. Ending \in {none, <<DoneEvent>>, <<m>>, p, <<CompletedEvent>>}
  BY <1>1, <1>2 DEF Ending, Formats
<1>4. /\ Vacant(none) /\ Vacant(<<DoneEvent>>) /\ Vacant(<<m>>) /\ Vacant(p) /\ Vacant(<<CompletedEvent>>)
  <2>1. Vacant(none)
    BY DEF Vacant
  <2>2. Vacant(<<a, e>>)
    BY <1>2, VacantFew, Zenon
  <2>3. Hollow(DoneEvent) /\ Hollow(m) /\ Hollow(CompletedEvent)
    BY OwnHollow
  <2> HIDE DEF m
  <2>4. Vacant(<<DoneEvent>>) /\ Vacant(<<m>>) /\ Vacant(<<CompletedEvent>>)
    BY <2>3, VacantFew
  <2> QED BY <2>1, <2>2, <2>4
<1>5. /\ none \in Seq({none}) /\ <<DoneEvent>> \in Seq({DoneEvent}) /\ <<m>> \in Seq({m})
      /\ p \in Seq({a, e}) /\ <<CompletedEvent>> \in Seq({CompletedEvent})
  OBVIOUS
<1> HIDE DEF none, m, p
<1> QED BY <1>3, <1>4, <1>5, Zenon

\* A forwarded frame without content gives none.
LEMMA NativeFrameEmpty ==
  ASSUME route \in Routes, NativeEnds, NativeEmpty, saw \in SawType, ToSame, Frame
  PROVE  NativeEmpty'
<1>0. result = "none" /\ route' = route /\ ~NeedConvert /\ conv \in NConv /\ conv.out \in Seq(NEvent)
  BY NFields DEF NativeEnds, Relaying, Frame, ToSame
<1>1. Client \in Formats /\ Upstream = Client
  BY SameFacts
<1> SUFFICES ASSUME ~saw'.content PROVE Vacant(conv'.out)
  BY <1>0, VacantNext DEF NativeEmpty
<1>2. PICK f \in Frames[Upstream] : Sentinel(f) \/ Payload(f)
  BY DEF Frame
<1>3. CASE Sentinel(f)
  <2>1. saw'.content = saw.content
    BY <1>3 DEF Sentinel, SawType
  <2>2. Vacant(conv.out)
    BY <1>0, <2>1 DEF NativeEmpty
  <2>3. conv' = IF Client = "openai" THEN Write(conv, <<DoneEvent>>) ELSE conv
    BY <1>3 DEF Sentinel
  <2>4. OneMore(conv.out, DoneEvent, Write(conv, <<DoneEvent>>).out)
    BY <1>0, NWriteOne
  <2>5. Vacant(Write(conv, <<DoneEvent>>).out)
    BY <2>2, <2>4, OwnHollow, VacantMore
  <2> QED BY <2>2, <2>3, <2>5
<1>4. CASE Payload(f)
  <2> DEFINE e == [type |-> "frame", frame |-> f]
             d == Write(conv, <<e>>)
  <2>1. conv' = d /\ saw' = IF f.type = "malformed" THEN saw ELSE Noted(f)
    BY <1>0, <1>4 DEF Payload, Convert
  <2>2. ~saw.content /\ ~HasContent(f)
    <3>1. f.type = "malformed" => ~HasContent(f)
      BY <1>1, MalformedHollow
    <3>2. CASE f.type = "malformed"
      BY <2>1, <3>1, <3>2
    <3>3. CASE f.type # "malformed"
      <4>1. saw' = Noted(f)
        BY <2>1, <3>3
      <4> QED BY <4>1, ContentIs
    <3> QED BY <3>2, <3>3
  <2>3. Hollow(e)
    BY <2>2, ForwardHollow
  <2>4. Vacant(conv.out)
    BY <1>0, <2>2 DEF NativeEmpty
  <2> HIDE DEF e
  <2>5. OneMore(conv.out, e, d.out)
    BY <1>0, NWriteOne
  <2>6. Vacant(d.out)
    BY <2>3, <2>4, <2>5, VacantMore
  <2> QED BY <2>1, <2>6
<1> QED BY <1>2, <1>3, <1>4

\* The end of a forwarded stream gives none.
LEMMA NativeStreamEmpty ==
  ASSUME route \in Routes, NativeEnds, NativeEmpty, ToSame, EndOfStream
  PROVE  NativeEmpty'
<1>0. result = "none" /\ route' = route /\ saw' = saw /\ ~NeedConvert /\ conv \in NConv
  BY DEF NativeEnds, Relaying, EndOfStream, ToSame
<1> SUFFICES ASSUME ~saw'.content PROVE Vacant(conv'.out)
  BY <1>0, VacantNext DEF NativeEmpty
<1>1. conv' = Write(conv, Ending)
  BY <1>0 DEF Closed, EndOfStream, Return
<1>2. Vacant(conv.out)
  BY <1>0 DEF NativeEmpty
<1>3. Vacant(Write(conv, Ending).out)
  BY <1>0, <1>2, VacantEnding, VacantWrite
<1> QED BY <1>1, <1>3

\* The end of an Anthropic message is hollow.
LEMMA HollowEnd ==
  ASSUME NEW m, Hollow(m), NEW reason, NEW n
  PROVE  LET w == <<m>> \o AnthropicEnd(reason, n) IN Vacant(w) /\ \E E : w \in Seq(E)
<1>1. PICK a, e : AnthropicEnd(reason, n) = <<a, e>> /\ Hollow(a) /\ Hollow(e)
  BY OwnHollow
<1> DEFINE w == <<m, a, e>>
<1>2. <<m>> \o AnthropicEnd(reason, n) = w
  <2>1. <<m>> \o <<a, e>> = w
    BY Joined, Zenon
  <2> HIDE DEF w
  <2> QED BY <1>1, <2>1
<1>3. Vacant(w) /\ w \in Seq({m, a, e})
  BY <1>1, VacantFew, Joined, Zenon
<1> HIDE DEF w
<1> QED BY <1>2, <1>3, Zenon

\* A body that says nothing, whole.
LEMMA VacantBody ==
  ASSUME route \in Routes, ToSame, NEW body \in Bodies[Upstream], NEW u \in BOOLEAN,
         ~Garbage(body), ~HasError(body[1]), \A i \in DOMAIN body : ~HasContent(body[i]), NEW w,
         w = CASE Client = "openai" -> OpenAIBody(body, u)
               [] Client = "anthropic" -> AnthropicBody(body)
               [] Client = "responses" ->
                    <<[type |-> "response.created"], [type |-> "response.in_progress"],
                      [type |-> "frame", frame |-> body[1]]>>
  PROVE  Vacant(w) /\ \E E : w \in Seq(E)
<1>1. Client \in Formats /\ Upstream = Client
  BY SameFacts
<1>2. CASE Client = "openai"
  <2> DEFINE b == body[1]
             s == StreamChunk(b)
             l == UsageOnly(b)
             x == [type |-> "frame", frame |-> s]
             y == [type |-> "frame", frame |-> l]
  <2>1. b \in A!Chunk /\ 1 \in DOMAIN body
    BY <1>1, <1>2, BodyAssumption DEF Garbage
  <2>2. ~HasContent(b)
    BY <2>1
  <2>3. ~ChatContent(b)
    BY <1>1, <1>2, <2>2 DEF HasContent
  <2>4. ~ChatContent(s)
    BY <2>1, <2>3 DEF StreamChunk, A!Chunk, ChatContent
  <2>5. ~ChatContent(l)
    BY <2>1 DEF UsageOnly, A!Chunk, ChatContent
  <2>6. Hollow(x)
    <3> HIDE DEF s
    <3>1. ~HasContent(s)
      BY <1>1, <1>2, <2>4 DEF HasContent
    <3> QED BY <3>1, ForwardHollow
  <2>7. Hollow(y)
    <3> HIDE DEF l
    <3>1. ~HasContent(l)
      BY <1>1, <1>2, <2>5 DEF HasContent
    <3> QED BY <3>1, ForwardHollow
  <2>8. \/ w = <<x>> \o <<y>> \o <<DoneEvent>>
        \/ w = <<x>> \o <<>> \o <<DoneEvent>>
    <3>1. Upstream # "anthropic"
      BY <1>1, <1>2
    <3>2. w = OpenAIBody(body, u)
      BY <1>2
    <3> HIDE DEF x, y
    <3> QED BY <3>1, <3>2, Zenon DEF OpenAIBody, x, y
  <2> HIDE DEF x, y
  <2>9. <<x>> \o <<y>> \o <<DoneEvent>> = <<x, y, DoneEvent>> /\ <<x>> \o <<>> \o <<DoneEvent>> = <<x, DoneEvent>>
    BY Joined, Zenon
  <2>10. Vacant(<<x, y, DoneEvent>>) /\ Vacant(<<x, DoneEvent>>)
    BY <2>6, <2>7, OwnHollow, VacantFew, Zenon
  <2>11. <<x, y, DoneEvent>> \in Seq({x, y, DoneEvent}) /\ <<x, DoneEvent>> \in Seq({x, DoneEvent})
    BY Joined
  <2> QED BY <2>8, <2>9, <2>10, <2>11, Zenon
<1>3. CASE Client = "anthropic"
  <2> DEFINE m == [type |-> "message_start", message |-> body]
  <2>1. Hollow(m)
    BY DEF Hollow, IsDelta
  <2>2. \E r, n : w = <<m>> \o AnthropicEnd(r, n)
    BY <1>1, <1>3, Zenon DEF AnthropicBody
  <2> HIDE DEF m
  <2>3. PICK r, n : w = <<m>> \o AnthropicEnd(r, n)
    BY <2>2, Zenon
  <2> DEFINE v == <<m>> \o AnthropicEnd(r, n)
  <2>4. Vacant(v) /\ \E E : v \in Seq(E)
    BY <2>1, HollowEnd
  <2> HIDE DEF v
  <2>5. w = v
    BY <2>3, Zenon DEF v
  <2> QED BY <2>4, <2>5, Zenon
<1>4. CASE Client = "responses"
  <2> DEFINE p == [type |-> "response.created"]
             q == [type |-> "response.in_progress"]
             e == [type |-> "frame", frame |-> body[1]]
  <2>1. 1 \in DOMAIN body
    BY <1>1, <1>4, BodyAssumption
  <2>2. Hollow(p) /\ Hollow(q)
    BY DEF Hollow, IsDelta
  <2>3. Hollow(e)
    BY <2>1, ForwardHollow
  <2>4. w = <<p, q, e>>
    BY <1>4
  <2> HIDE DEF p, q, e
  <2>5. Vacant(<<p, q, e>>)
    BY <2>2, <2>3, VacantFew, Zenon
  <2>6. <<p, q, e>> \in Seq({p, q, e})
    BY Joined
  <2> QED BY <2>4, <2>5, <2>6, Zenon
<1> QED BY <1>1, <1>2, <1>3, <1>4 DEF Formats

\* What becomes of a body that is no JSON is hollow.
LEMMA VacantGarbage ==
  ASSUME route \in Routes, ToSame
  PROVE  Vacant(GarbageEvents)
<1> DEFINE m == [type |-> "malformed"]
           f == [type |-> "frame", frame |-> m]
<1>1. Hollow(f)
  <2>1. ~HasContent(m)
    <3>1. Upstream \in Formats
      BY SameFacts
    <3> QED BY <3>1, MalformedHollow
  <2> HIDE DEF m
  <2> QED BY <2>1, ForwardHollow
<1>2. GarbageEvents = IF Client = "openai" THEN <<f, DoneEvent>> ELSE <<f>> \o AnthropicEnd("end_turn", 0)
  BY DEF GarbageEvents
<1> HIDE DEF f
<1>3. Vacant(<<f, DoneEvent>>)
  BY <1>1, OwnHollow, VacantFew, Zenon
<1>4. Vacant(<<f>> \o AnthropicEnd("end_turn", 0))
  BY <1>1, HollowEnd
<1> QED BY <1>2, <1>3, <1>4

\* A JSON body without content gives none.
LEMMA NativeBodyEmpty ==
  ASSUME route \in Routes, NativeEnds, saw \in SawType, ToSame, JsonBody
  PROVE  NativeEmpty'
<1>0. result = "none" /\ route' = route /\ ~NeedConvert /\ conv \in NConv /\ conv.out = <<>>
  BY DEF NativeEnds, Relaying, JsonBody, ToSame
<1>1. Client \in Formats /\ Upstream = Client
  BY SameFacts
<1> SUFFICES ASSUME ~saw'.content, result' \in {"none", "ok"} PROVE Vacant(conv'.out)
  BY <1>0, VacantNext DEF NativeEmpty
<1>2. PICK body \in Bodies[Upstream], u \in BOOLEAN : BodyTo(body, u)
  BY Zenon DEF JsonBody, BodyTo
<1>3. \A i \in DOMAIN body : ~HasContent(body[i])
  <2> DEFINE t == \E i \in DOMAIN body : HasContent(body[i])
  <2>1. saw' = [saw EXCEPT !.content = t]
    BY <1>2 DEF BodyTo
  <2>2. ~t => \A i \in DOMAIN body : ~HasContent(body[i])
    OBVIOUS
  <2> HIDE DEF t
  <2>3. saw'.content = t
    BY <2>1 DEF SawType
  <2> QED BY <2>2, <2>3
<1>4. Vacant(conv.out)
  BY <1>0 DEF Vacant
<1>5. CASE Garbage(body)
  <2>1. Client # "responses" /\ conv' = Write(conv, GarbageEvents)
    BY <1>0, <1>2, <1>5 DEF Return, BodyTo
  <2> QED BY <1>0, <1>4, <2>1, NativeGarbage, VacantGarbage, VacantWrite
<1>6. CASE ~Garbage(body)
  <2>1. ~HasError(body[1]) /\ conv' = Whole(body, u)
    BY <1>2, <1>6 DEF Return, BodyTo
  <2> DEFINE p == <<[type |-> "response.created"], [type |-> "response.in_progress"],
                    [type |-> "frame", frame |-> body[1]]>>
             w == CASE Client = "openai" -> OpenAIBody(body, u)
                    [] Client = "anthropic" -> AnthropicBody(body)
                    [] Client = "responses" -> p
  <2>2. Whole(body, u) = Write(conv, w)
    <3>1. Client = "responses" => Whole(body, u) = Write(conv, p)
      BY <1>1 DEF Whole, ResponsesBody
    <3>2. Client = "openai" => Whole(body, u) = Write(conv, OpenAIBody(body, u))
      BY DEF Whole
    <3>3. Client = "anthropic" => Whole(body, u) = Write(conv, AnthropicBody(body))
      BY DEF Whole
    <3> HIDE DEF p
    <3> QED BY <1>1, <3>1, <3>2, <3>3 DEF Formats
  <2>3. Vacant(w) /\ \E E : w \in Seq(E)
    BY <1>3, <1>6, <2>1, VacantBody, Zenon
  <2> HIDE DEF w
  <2> QED BY <1>0, <1>4, <2>1, <2>2, <2>3, VacantWrite
<1> QED BY <1>5, <1>6

\* Every step keeps an empty answer empty on a forwarding route.
LEMMA NativeEmptyNext ==
  /\ Init => NativeEmpty
  /\ route \in Routes /\ NativeEnds /\ saw \in SawType /\ NativeEmpty /\ [Next]_vars => NativeEmpty'
<1>1. Init => NativeEmpty
  <2> SUFFICES ASSUME Init, ToSame PROVE Vacant(conv.out)
    BY DEF NativeEmpty
  <2>1. conv.out = <<>>
    BY DEF Init, NewConverter, ToSame, O!NewConverter
  <2> QED BY <2>1 DEF Vacant
<1>2. ASSUME route \in Routes, NativeEnds, saw \in SawType, NativeEmpty, [Next]_vars
      PROVE  NativeEmpty'
  <2>1. route' = route
    BY <1>2 DEF Next, Frame, EndOfStream, Broken, ClientGone, JsonBody, vars
  <2>2. CASE ~ToSame
    BY <2>1, <2>2 DEF NativeEmpty, ToSame, NeedConvert, Client, Upstream
  <2>3. CASE UNCHANGED vars
    <3>1. UNCHANGED <<route, conv, saw, result>>
      BY <2>3 DEF vars
    <3>2. Vacant(conv.out) => Vacant(conv.out)'
      BY <3>1, VacantNext
    <3> HIDE DEF Vacant
    <3> QED BY <1>2, <3>1, <3>2 DEF NativeEmpty, ToSame, NeedConvert, Client, Upstream
  <2>4. CASE ToSame /\ ClientGone
    BY <2>4 DEF ClientGone, Return, NativeEmpty
  <2>5. CASE ToSame /\ Broken
    BY <2>5 DEF Broken, Return, NativeEmpty
  <2> QED BY <1>2, <2>2, <2>3, <2>4, <2>5, NativeFrameEmpty, NativeStreamEmpty, NativeBodyEmpty DEF Next
<1> QED BY <1>1, <1>2

-----------------------------------------------------------------------------
(* Every route: an empty answer gave the client nothing.                   *)

\* All of it holds at first.
LEMMA EmptyInit == Init => EmptyInv
<1>1. Init => AnthropicInv /\ OpenAIInv /\ saw \in SawType
  BY AnthropicInit, OpenAIInit, SawInv
<1>2. Init => OpenAIEnds /\ ResponsesEnds /\ NativeEnds
  BY OpenAIEndsNext, ResponsesInit, NativeInit
<1>3. Init => AnthropicEmpty /\ OpenAIEmpty /\ NativeEmpty
  BY AnthropicEmptyNext, OpenAIEmptyNext, NativeEmptyNext
<1> QED BY <1>1, <1>2, <1>3 DEF EmptyInv

\* All of it is kept by every step.
LEMMA EmptyNext == EmptyInv /\ [Next]_vars => EmptyInv'
<1> SUFFICES ASSUME EmptyInv, [Next]_vars PROVE EmptyInv'
  OBVIOUS
<1>0. route \in Routes
  BY DEF EmptyInv, AnthropicInv
<1>1. AnthropicInv' /\ OpenAIInv' /\ saw' \in SawType
  BY AnthropicNext, OpenAINext, SawInv DEF EmptyInv
<1>2. OpenAIEnds' /\ ResponsesEnds' /\ NativeEnds'
  BY OpenAIEndsNext, ResponsesEndsNext, NativeEndsNext DEF EmptyInv
<1>3. AnthropicEmpty' /\ OpenAIEmpty' /\ NativeEmpty'
  BY <1>0, AnthropicEmptyNext, OpenAIEmptyNext, NativeEmptyNext DEF EmptyInv
<1> QED BY <1>1, <1>2, <1>3 DEF EmptyInv

\* It says that an empty answer was empty for its client.
LEMMA EmptyImply == EmptyInv => EmptyIsEmpty
<1> SUFFICES ASSUME EmptyInv, result = "ok", ~saw.content
             PROVE  \A i \in DOMAIN Out : (IsDelta(Out[i]) => Out[i].data = None)
                                          /\ (Out[i].type = "frame" => ~HasContent(Out[i].frame))
  BY DEF EmptyIsEmpty
<1>0. Client \in Formats /\ Upstream \in Formats
  BY StreamAssumption DEF EmptyInv, AnthropicInv, Client, Upstream
<1>1. ToAnthropic \/ ToOpenAI \/ ToResponses \/ ToSame
  BY <1>0 DEF ToAnthropic, ToOpenAI, ToResponses, ToSame, Formats
<1>2. CASE ToAnthropic \/ ToOpenAI
  <2>1. Void(Out)
    BY <1>2 DEF EmptyInv, AnthropicEmpty, OpenAIEmpty, Out
  <2> QED BY <2>1 DEF Void
<1>3. CASE ToResponses
  <2>1. Wordless(Out)
    BY <1>3 DEF EmptyInv, ResponsesEnds, Out
  <2> QED BY <2>1 DEF Wordless, Words, IsDelta
<1>4. CASE ToSame
  <2>1. Vacant(Out)
    BY <1>4 DEF EmptyInv, NativeEmpty, Out
  <2> QED BY <2>1 DEF Vacant, Hollow
<1> QED BY <1>1, <1>2, <1>3, <1>4

\* When upstream's answer had no text, reasoning, refusal or tool call,
\* none of the converters and none of the conversions of a JSON body to a
\* stream made any up, and nothing that was forwarded carried any: what
\* the handler counts as an empty answer (saw.content, sawContent in
\* relay.go) was empty for its client too, on every route.
THEOREM EmptyAnswers == Spec => []EmptyIsEmpty
<1> QED BY EmptyInit, EmptyNext, EmptyImply, PTL DEF Spec

\* Both: clients of Anthropic's and of OpenAI's format receive their
\* messages in order.
THEOREM MessagesProtocol == Spec => []MessagesOrderKept
BY AnthropicProtocol, OpenAIProtocol, PTL DEF MessagesOrderKept
=============================================================================
