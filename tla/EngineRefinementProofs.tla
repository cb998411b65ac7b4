----------------------- MODULE EngineRefinementProofs -----------------------
(***************************************************************************)
(* Proofs about what Engine adds up, about what the readers of its events  *)
(* can add up, and about what it implements, for every set of keys and     *)
(* symbols, every largest price and every width of a size:                 *)
(*                                                                         *)
(*   - the running total of a level is the sum of the open sizes of its    *)
(*     orders, modulo that width, and no command loses or makes up size    *)
(*     while it matches;                                                   *)
(*   - a reader of the book updates always knows both tops of every book;  *)
(*   - every command, with its loop over levels, lists and iterators, is   *)
(*     one step of PriceTimeMatching;                                      *)
(*   - a snapshot shows what is active at the best prices.                 *)
(*                                                                         *)
(* All of them fold sequences, and the last two add up sets besides.  What *)
(* a fold computes is shown by its partial results: a function of them     *)
(* exists and is unique, each by the least number at which it would not    *)
(* be; sums over sets go by the number of elements.                        *)
(*                                                                         *)
(* The refinement follows one command: the orders it crossed have given    *)
(* what `given' says, best price and oldest order first (Shared), the      *)
(* trades reported are a list of those that gave something (Queue), and    *)
(* the books hold what remains (Progress, RefInv).  When the loop ends,    *)
(* there is only one way of having shared (SharedIsFill), the closed form  *)
(* of PriceTimeMatching.                                                   *)
(***************************************************************************)
EXTENDS EngineRefinement, EngineProofs, FiniteSetTheorems

-----------------------------------------------------------------------------
(* What FoldLeft computes.                                                 *)

\* The greatest number of a set of indices, as FoldLeft chooses it.
LEMMA MaxOfIndices ==
    ASSUME NEW n \in Nat, NEW S \in SUBSET (1 .. n), S # {}
    PROVE  Max(S) \in S /\ \A y \in S : y <= Max(S)
<1> DEFINE U == {n - x : x \in S}
<1>1. U \subseteq Nat /\ U # {}
  <2>1. \A x \in S : x \in 1 .. n /\ n - x \in Nat
    OBVIOUS
  <2>2. U \subseteq Nat
    BY <2>1
  <2>3. PICK x \in S : TRUE
    OBVIOUS
  <2>4. n - x \in U
    BY <2>3
  <2> QED BY <2>2, <2>4
<1>2. PICK u \in U : \A w \in U : ~ (w < u)
  BY <1>1, LowestExists
<1>3. PICK x \in S : u = n - x
  BY <1>2
<1>4. ASSUME NEW y \in S PROVE x >= y
  <2>1. n - y \in U
    OBVIOUS
  <2>2. ~ (n - y < n - x)
    BY <1>2, <1>3, <2>1
  <2> QED BY <2>2
<1>5. \E z \in S : \A y \in S : z >= y
  BY <1>4
<1>6. Max(S) \in S /\ \A y \in S : Max(S) >= y
  BY <1>5 DEF Max
<1> HIDE DEF U
<1>7. \A y \in S : y \in Int
  OBVIOUS
<1> QED BY <1>6, <1>7

\* The recursion of FoldLeft over the sets of indices up to n: element k takes
\* a value v to step[k][v].
Folds(iter, step, base, n) ==
    iter = [S \in SUBSET (1 .. n) |->
               IF S = {} THEN base ELSE step[Max(S)][iter[S \ {Max(S)}]]]

\* FoldLeft's recursion has a solution.
LEMMA FoldExists ==
    ASSUME NEW V, NEW base \in V, NEW n \in Nat,
           NEW step \in [1 .. n -> [V -> V]]
    PROVE  \E iter \in [SUBSET (1 .. n) -> V] : Folds(iter, step, base, n)
<1> DEFINE Solved(k) ==
               \E iter \in [SUBSET (1 .. k) -> V] : Folds(iter, step, base, k)
           T == {k \in 0 .. n : ~ Solved(k)}
<1>1. SUFFICES ASSUME T # {} PROVE FALSE
  <2>1. n \in 0 .. n
    OBVIOUS
  <2>2. Solved(n)
    <3> HIDE DEF Solved
    <3> QED BY <1>1, <2>1
  <2> QED BY <2>2
<1>2. PICK k \in T : \A y \in T : ~ (y < k)
  <2>1. T \subseteq Nat
    OBVIOUS
  <2> HIDE DEF T
  <2> QED BY <1>1, <2>1, LowestExists
<1>3. k \in 0 .. n /\ ~ Solved(k)
  BY <1>2
<1>4. CASE k = 0
  <2> DEFINE g == [S \in SUBSET (1 .. 0) |-> base]
  <2>1. \A S \in SUBSET (1 .. 0) : S = {}
    OBVIOUS
  <2>2. g \in [SUBSET (1 .. 0) -> V]
    OBVIOUS
  <2>3. g = [S \in SUBSET (1 .. 0) |->
               IF S = {} THEN base ELSE step[Max(S)][g[S \ {Max(S)}]]]
    BY <2>1
  <2> HIDE DEF g
  <2>4. Folds(g, step, base, 0)
    BY <2>3 DEF Folds
  <2> QED BY <1>3, <1>4, <2>2, <2>4
<1>5. CASE k # 0
  <2>1. k \in Nat /\ k - 1 \in Nat /\ k - 1 \in 0 .. n /\ k - 1 < k
        /\ k \in 1 .. n
    BY <1>3, <1>5
  <2>2. Solved(k - 1)
    BY <1>2, <2>1
  <2>3. PICK g \in [SUBSET (1 .. k - 1) -> V] : Folds(g, step, base, k - 1)
    BY <2>2
  <2> DEFINE h == [S \in SUBSET (1 .. k) |->
                     IF k \in S THEN step[k][g[S \ {k}]] ELSE g[S]]
  <2>4. step[k] \in [V -> V]
    BY <2>1
  <2>5. \A S \in SUBSET (1 .. k) :
           /\ S \ {k} \in SUBSET (1 .. k - 1)
           /\ k \notin S => S \in SUBSET (1 .. k - 1)
    BY <2>1
  <2>6. h \in [SUBSET (1 .. k) -> V]
    BY <2>4, <2>5
  <2>7. ASSUME NEW S \in SUBSET (1 .. k)
        PROVE  h[S] = IF S = {} THEN base ELSE step[Max(S)][h[S \ {Max(S)}]]
    <3>1. CASE S = {}
      <4>1. {} \in SUBSET (1 .. k - 1)
        OBVIOUS
      <4>2. g[{}] = base
        BY <2>3, <4>1 DEF Folds
      <4> QED BY <3>1, <4>2
    <3>2. CASE k \in S
      <4>1. Max(S) \in S /\ \A y \in S : y <= Max(S)
        BY <2>1, <3>2, MaxOfIndices
      <4>2. Max(S) = k
        <5>1. Max(S) \in 1 .. k /\ k <= Max(S)
          BY <3>2, <4>1
        <5> QED BY <2>1, <5>1
      <4>3. S \ {k} \in SUBSET (1 .. k) /\ k \notin S \ {k} /\ S # {}
        BY <3>2
      <4>4. h[S \ {k}] = g[S \ {k}] /\ h[S] = step[k][g[S \ {k}]]
        BY <3>2, <4>3, Zenon
      <4> HIDE DEF h
      <4> QED BY <4>2, <4>3, <4>4
    <3>3. CASE S # {} /\ k \notin S
      <4>1. Max(S) \in S
        BY <2>1, <3>3, MaxOfIndices
      <4> DEFINE R == S \ {Max(S)}
      <4>2. /\ S \in SUBSET (1 .. k - 1) /\ R \in SUBSET (1 .. k)
            /\ k \notin R
        BY <2>5, <3>3
      <4>3. h[S] = g[S] /\ h[R] = g[R]
        BY <3>3, <4>2, Zenon
      <4>4. g[S] = step[Max(S)][g[R]]
        BY <2>3, <3>3, <4>2 DEF Folds
      <4> HIDE DEF h
      <4> QED BY <3>3, <4>3, <4>4
    <3> QED BY <3>1, <3>2, <3>3
  <2>8. h = [S \in SUBSET (1 .. k) |-> h[S]]
    OBVIOUS
  <2> HIDE DEF h
  <2>9. h = [S \in SUBSET (1 .. k) |->
               IF S = {} THEN base ELSE step[Max(S)][h[S \ {Max(S)}]]]
    BY <2>7, <2>8, Zenon
  <2>10. Folds(h, step, base, k)
    BY <2>9 DEF Folds
  <2> QED BY <1>3, <2>6, <2>10
<1> QED BY <1>4, <1>5

\* The recursion takes the indices up to k away from the last one on.
LEMMA PrefixFacts ==
    ASSUME NEW n \in Nat, NEW k \in 1 .. n
    PROVE  /\ 1 .. k \in SUBSET (1 .. n) /\ 1 .. k # {}
           /\ Max(1 .. k) = k /\ (1 .. k) \ {k} = 1 .. k - 1
<1>1. /\ k \in Nat /\ k \in 1 .. k
      /\ 1 .. k \in SUBSET (1 .. k) /\ 1 .. k \in SUBSET (1 .. n)
  OBVIOUS
<1>2. 1 .. k # {}
  BY <1>1
<1>3. Max(1 .. k) \in 1 .. k /\ \A y \in 1 .. k : y <= Max(1 .. k)
  BY <1>1, <1>2, MaxOfIndices
<1>4. Max(1 .. k) = k
  BY <1>1, <1>3
<1>5. (1 .. k) \ {k} = 1 .. k - 1
  BY <1>1
<1> QED BY <1>1, <1>2, <1>4, <1>5

\* What starts in a set and does not leave it in any step stays in it.
LEMMA AllAlong ==
    ASSUME NEW V, NEW n \in Nat, NEW f, f[0] \in V,
           \A k \in 1 .. n : f[k - 1] \in V => f[k] \in V
    PROVE  \A k \in 0 .. n : f[k] \in V
<1> DEFINE T == {k \in 0 .. n : f[k] \notin V}
<1>1. SUFFICES ASSUME T # {} PROVE FALSE
  BY <1>1
<1>2. PICK k \in T : \A y \in T : ~ (y < k)
  <2>1. T \subseteq Nat
    OBVIOUS
  <2> HIDE DEF T
  <2> QED BY <1>1, <2>1, LowestExists
<1>3. k \in 0 .. n /\ f[k] \notin V
  BY <1>2
<1>4. k \in 1 .. n /\ k - 1 \in 0 .. n /\ k - 1 < k
  BY <1>3
<1>5. f[k - 1] \in V
  BY <1>2, <1>4
<1> QED BY <1>3, <1>4, <1>5

-----------------------------------------------------------------------------
(* Partial sums.                                                           *)

\* f[k] is the sum of the first k numbers of s.
Accumulates(f, s) ==
    /\ f \in [0 .. Len(s) -> Int]
    /\ f[0] = 0
    /\ \A k \in 1 .. Len(s) : f[k] = f[k - 1] + s[k]

\* A sequence has no more than one function of partial sums.
LEMMA SumsUnique ==
    ASSUME NEW s \in Seq(Int), NEW f, NEW g,
           Accumulates(f, s), Accumulates(g, s)
    PROVE  f[Len(s)] = g[Len(s)]
<1> DEFINE T == {k \in 0 .. Len(s) : f[k] # g[k]}
<1>1. SUFFICES ASSUME T # {} PROVE FALSE
  BY <1>1
<1>2. PICK k \in T : \A y \in T : ~ (y < k)
  <2>1. T \subseteq Nat
    OBVIOUS
  <2> HIDE DEF T
  <2> QED BY <1>1, <2>1, LowestExists
<1>3. k \in 0 .. Len(s) /\ f[k] # g[k]
  BY <1>2
<1>4. k # 0
  BY <1>3 DEF Accumulates
<1>5. k \in 1 .. Len(s) /\ k - 1 \in 0 .. Len(s) /\ k - 1 < k
  BY <1>3, <1>4
<1>6. k - 1 \notin T
  BY <1>2, <1>5
<1>7. f[k - 1] = g[k - 1]
  BY <1>5, <1>6
<1> QED BY <1>3, <1>5, <1>7 DEF Accumulates

-----------------------------------------------------------------------------
(* The two folds of Engine.                                                *)

\* The open sizes of a list of orders, front first.
Sizes(orders) == [i \in DOMAIN orders |-> orders[i].open_size]

\* What the events of a stream have executed, each.
Executed(stream) ==
    [i \in DOMAIN stream |-> IF stream[i].type = "trade_executed"
                             THEN stream[i].executed_size ELSE 0]

\* The open sizes are numbers, one for each order.
LEMMA SizesType ==
    ASSUME NEW orders \in Seq(resting_order)
    PROVE  /\ Sizes(orders) \in Seq(Int)
           /\ Len(Sizes(orders)) = Len(orders)
           /\ DOMAIN orders = 1 .. Len(orders)
           /\ \A i \in 1 .. Len(orders) :
                 Sizes(orders)[i] = orders[i].open_size
<1>1. DOMAIN orders = 1 .. Len(orders) /\ Len(orders) \in Nat
  OBVIOUS
<1>2. \A i \in 1 .. Len(orders) : orders[i].open_size \in Int
  <2>1. \A i \in 1 .. Len(orders) : orders[i] \in resting_order
    BY ElementOfSeq
  <2> QED BY <2>1, SizeModulusAssumption DEF resting_order, Quantity
<1> QED BY <1>1, <1>2 DEF Sizes

\* The sizes executed are numbers, one for each event.
LEMMA ExecutedType ==
    ASSUME NEW stream \in Seq(event)
    PROVE  /\ Executed(stream) \in Seq(Int)
           /\ Len(Executed(stream)) = Len(stream)
           /\ DOMAIN stream = 1 .. Len(stream)
           /\ \A i \in 1 .. Len(stream) :
                 Executed(stream)[i] =
                    IF stream[i].type = "trade_executed"
                    THEN stream[i].executed_size ELSE 0
<1>1. DOMAIN stream = 1 .. Len(stream) /\ Len(stream) \in Nat
  OBVIOUS
<1>2. ASSUME NEW i \in 1 .. Len(stream),
             stream[i].type = "trade_executed"
      PROVE  stream[i].executed_size \in Int
  <2>1. stream[i] \in event
    BY ElementOfSeq
  <2>2. stream[i].executed_size \in Quantity
    BY <1>2, <2>1 DEF event
  <2> QED BY <2>2, SizeModulusAssumption DEF Quantity
<1> QED BY <1>1, <1>2 DEF Executed

\* SumOpen, which LevelTotals speaks of, is the last partial sum of the sizes.
LEMMA SumOpenIs ==
    ASSUME NEW orders \in Seq(resting_order)
    PROVE  \E f : /\ Accumulates(f, Sizes(orders))
                  /\ SumOpen(orders) = f[Len(orders)]
<1> DEFINE s == Sizes(orders)
           n == Len(orders)
           P(iter) ==
             iter = [S \in SUBSET (1 .. n) |->
                       IF S = {} THEN 0
                       ELSE iter[S \ {Max(S)}] + orders[Max(S)].open_size]
           fold == CHOOSE iter : P(iter)
<1>1. /\ s \in Seq(Int) /\ Len(s) = n /\ DOMAIN orders = 1 .. n
      /\ \A i \in 1 .. n : s[i] = orders[i].open_size
      /\ n \in Nat
  BY SizesType
<1>2. SumOpen(orders) = fold[1 .. n]
  <2>1. SumOpen(orders) =
           (CHOOSE iter :
              iter = [S \in SUBSET DOMAIN orders |->
                        IF S = {} THEN 0
                        ELSE iter[S \ {Max(S)}] + orders[Max(S)].open_size]
           )[DOMAIN orders]
    BY DEF SumOpen, FoldLeft, MapThenFoldSet
  <2> QED BY <1>1, <2>1
<1> HIDE DEF s, n
<1> DEFINE step == [i \in 1 .. n |-> [v \in Int |-> v + s[i]]]
<1>3. \E iter \in [SUBSET (1 .. n) -> Int] : Folds(iter, step, 0, n)
  <2>1. step \in [1 .. n -> [Int -> Int]]
    BY <1>1
  <2>2. 0 \in Int /\ n \in Nat
    BY <1>1
  <2> HIDE DEF step
  <2> QED BY <2>1, <2>2, FoldExists
<1>4. \E iter : P(iter)
  <2>1. PICK iter \in [SUBSET (1 .. n) -> Int] : Folds(iter, step, 0, n)
    BY <1>3
  <2>2. ASSUME NEW S \in SUBSET (1 .. n)
        PROVE  (IF S = {} THEN 0 ELSE step[Max(S)][iter[S \ {Max(S)}]]) =
               (IF S = {} THEN 0
                ELSE iter[S \ {Max(S)}] + orders[Max(S)].open_size)
    <3>1. CASE S # {}
      <4>1. Max(S) \in 1 .. n
        BY <1>1, <3>1, MaxOfIndices
      <4>2. iter[S \ {Max(S)}] \in Int
        <5>1. S \ {Max(S)} \in SUBSET (1 .. n)
          OBVIOUS
        <5> QED BY <2>1, <5>1
      <4> QED BY <1>1, <4>1, <4>2
    <3> QED BY <3>1
  <2> HIDE DEF step
  <2>3. P(iter)
    BY <2>1, <2>2 DEF Folds
  <2> QED BY <2>3
<1>5. P(fold)
  <2> HIDE DEF P
  <2> QED BY <1>4
<1> HIDE DEF fold
<1> DEFINE f == [k \in 0 .. n |-> fold[1 .. k]]
<1>6. f[0] = 0
  <2>1. 1 .. 0 = {} /\ 0 \in 0 .. n /\ {} \in SUBSET (1 .. n)
    BY <1>1
  <2>2. fold[{}] = 0
    BY <1>5, <2>1
  <2> QED BY <2>1, <2>2
<1>7. ASSUME NEW k \in 1 .. n
      PROVE  f[k] = f[k - 1] + s[k]
  <2>1. /\ 1 .. k \in SUBSET (1 .. n) /\ 1 .. k # {}
        /\ Max(1 .. k) = k /\ (1 .. k) \ {k} = 1 .. k - 1
    BY <1>1, PrefixFacts
  <2>2. fold[1 .. k] = fold[1 .. k - 1] + orders[k].open_size
    BY <1>5, <2>1
  <2>3. k \in 0 .. n /\ k - 1 \in 0 .. n
    BY <1>1
  <2> QED BY <1>1, <2>2, <2>3
<1>8. f = [k \in 0 .. n |-> f[k]] /\ f[n] = fold[1 .. n]
  BY <1>1
<1> HIDE DEF f
<1>9. \A k \in 0 .. n : f[k] \in Int
  <2>1. \A k \in 1 .. n : s[k] \in Int
    BY <1>1
  <2>2. \A k \in 1 .. n : f[k - 1] \in Int => f[k] \in Int
    BY <1>7, <2>1
  <2>3. n \in Nat /\ f[0] \in Int
    BY <1>1, <1>6
  <2> QED BY <2>2, <2>3, AllAlong
<1>10. Accumulates(f, s)
  BY <1>1, <1>6, <1>7, <1>8, <1>9 DEF Accumulates
<1> QED BY <1>2, <1>8, <1>10 DEF s, n

\* SumTraded, which SizeConserved speaks of, is the last partial sum of what
\* was executed.
LEMMA SumTradedIs ==
    ASSUME NEW stream \in Seq(event)
    PROVE  \E f : /\ Accumulates(f, Executed(stream))
                  /\ SumTraded(stream) = f[Len(stream)]
<1> DEFINE s == Executed(stream)
           n == Len(stream)
           P(iter) ==
             iter = [S \in SUBSET (1 .. n) |->
                       IF S = {} THEN 0
                       ELSE IF stream[Max(S)].type = "trade_executed"
                            THEN iter[S \ {Max(S)}]
                                    + stream[Max(S)].executed_size
                            ELSE iter[S \ {Max(S)}]]
           fold == CHOOSE iter : P(iter)
<1>1. /\ s \in Seq(Int) /\ Len(s) = n /\ DOMAIN stream = 1 .. n
      /\ \A i \in 1 .. n : s[i] = IF stream[i].type = "trade_executed"
                                  THEN stream[i].executed_size ELSE 0
      /\ n \in Nat
  BY ExecutedType
<1>2. SumTraded(stream) = fold[1 .. n]
  <2>1. SumTraded(stream) =
           (CHOOSE iter :
              iter = [S \in SUBSET DOMAIN stream |->
                        IF S = {} THEN 0
                        ELSE IF stream[Max(S)].type = "trade_executed"
                             THEN iter[S \ {Max(S)}]
                                     + stream[Max(S)].executed_size
                             ELSE iter[S \ {Max(S)}]]
           )[DOMAIN stream]
    BY DEF SumTraded, FoldLeft, MapThenFoldSet
  <2> QED BY <1>1, <2>1
<1> HIDE DEF s, n
<1> DEFINE step == [i \in 1 .. n |-> [v \in Int |-> v + s[i]]]
<1>3. \E iter : P(iter)
  <2>1. step \in [1 .. n -> [Int -> Int]]
    BY <1>1
  <2>2. PICK iter \in [SUBSET (1 .. n) -> Int] : Folds(iter, step, 0, n)
    <3>1. 0 \in Int /\ n \in Nat
      BY <1>1
    <3> HIDE DEF step
    <3> QED BY <2>1, <3>1, FoldExists
  <2>3. ASSUME NEW S \in SUBSET (1 .. n)
        PROVE  (IF S = {} THEN 0 ELSE step[Max(S)][iter[S \ {Max(S)}]]) =
               (IF S = {} THEN 0
                ELSE IF stream[Max(S)].type = "trade_executed"
                     THEN iter[S \ {Max(S)}] + stream[Max(S)].executed_size
                     ELSE iter[S \ {Max(S)}])
    <3>1. CASE S # {}
      <4>1. Max(S) \in 1 .. n
        BY <1>1, <3>1, MaxOfIndices
      <4>2. iter[S \ {Max(S)}] \in Int
        <5>1. S \ {Max(S)} \in SUBSET (1 .. n)
          OBVIOUS
        <5> QED BY <2>2, <5>1
      <4>3. step[Max(S)][iter[S \ {Max(S)}]]
               = iter[S \ {Max(S)}] + s[Max(S)]
        BY <4>1, <4>2
      <4> HIDE DEF step
      <4> QED BY <1>1, <4>1, <4>2, <4>3
    <3> QED BY <3>1
  <2> HIDE DEF step
  <2>4. P(iter)
    BY <2>2, <2>3 DEF Folds
  <2> QED BY <2>4
<1>4. P(fold)
  <2> HIDE DEF P
  <2> QED BY <1>3
<1> HIDE DEF fold
<1> DEFINE f == [k \in 0 .. n |-> fold[1 .. k]]
<1>5. f[0] = 0
  <2>1. 1 .. 0 = {} /\ 0 \in 0 .. n /\ {} \in SUBSET (1 .. n)
    BY <1>1
  <2>2. fold[{}] = 0
    BY <1>4, <2>1
  <2> QED BY <2>1, <2>2
<1>6. ASSUME NEW k \in 1 .. n, f[k - 1] \in Int
      PROVE  f[k] = f[k - 1] + s[k]
  <2>1. /\ 1 .. k \in SUBSET (1 .. n) /\ 1 .. k # {}
        /\ Max(1 .. k) = k /\ (1 .. k) \ {k} = 1 .. k - 1
    BY <1>1, PrefixFacts
  <2>2. fold[1 .. k] = IF stream[k].type = "trade_executed"
                       THEN fold[1 .. k - 1] + stream[k].executed_size
                       ELSE fold[1 .. k - 1]
    BY <1>4, <2>1
  <2>3. k \in 0 .. n /\ k - 1 \in 0 .. n
    BY <1>1
  <2>4. f[k] = fold[1 .. k] /\ f[k - 1] = fold[1 .. k - 1]
    BY <2>3
  <2> HIDE DEF f
  <2> QED BY <1>1, <1>6, <2>2, <2>4
<1>7. f = [k \in 0 .. n |-> f[k]] /\ f[n] = fold[1 .. n]
  BY <1>1
<1> HIDE DEF f
<1>8. \A k \in 0 .. n : f[k] \in Int
  <2>1. \A k \in 1 .. n : s[k] \in Int
    BY <1>1
  <2>2. \A k \in 1 .. n : f[k - 1] \in Int => f[k] \in Int
    BY <1>6, <2>1
  <2>3. n \in Nat /\ f[0] \in Int
    BY <1>1, <1>5
  <2> QED BY <2>2, <2>3, AllAlong
<1>9. \A k \in 1 .. n : f[k - 1] \in Int
  BY <1>1, <1>8
<1>10. Accumulates(f, s)
  BY <1>1, <1>5, <1>6, <1>7, <1>8, <1>9 DEF Accumulates
<1> QED BY <1>2, <1>7, <1>10 DEF s, n

-----------------------------------------------------------------------------
(* How a sum changes.                                                      *)

\* t is s with one more element.
Extended(t, s) ==
    Len(t) = Len(s) + 1 /\ \A j \in 1 .. Len(s) : t[j] = s[j]

\* A number at the end adds to the sum.
LEMMA SumAppended ==
    ASSUME NEW s \in Seq(Int), NEW t \in Seq(Int), Extended(t, s),
           NEW f, Accumulates(f, s), NEW g, Accumulates(g, t)
    PROVE  g[Len(t)] = f[Len(s)] + t[Len(t)]
<1> DEFINE n == Len(s)
           h == [k \in 0 .. n + 1 |-> IF k <= n THEN f[k] ELSE f[n] + t[n + 1]]
<1>1. n \in Nat /\ Len(t) = n + 1
  BY DEF Extended
<1>2. /\ \A k \in 0 .. n : f[k] \in Int
      /\ f[0] = 0 /\ \A k \in 1 .. n : f[k] = f[k - 1] + s[k]
  BY DEF Accumulates
<1>3. \A k \in 1 .. n + 1 : t[k] \in Int
  BY <1>1
<1>4. \A j \in 1 .. n : t[j] = s[j]
  BY DEF Extended
<1> HIDE DEF n
<1>5. /\ h \in [0 .. n + 1 -> Int] /\ h[0] = 0
      /\ h[n + 1] = f[n] + t[n + 1]
  BY <1>1, <1>2, <1>3
<1>6. ASSUME NEW k \in 1 .. n + 1 PROVE h[k] = h[k - 1] + t[k]
  <2>1. CASE k <= n
    BY <1>1, <1>2, <1>4, <2>1
  <2>2. CASE k = n + 1
    BY <1>1, <2>2
  <2> QED BY <1>1, <2>1, <2>2
<1> HIDE DEF h
<1>7. Accumulates(h, t)
  BY <1>1, <1>5, <1>6 DEF Accumulates
<1>8. h[Len(t)] = g[Len(t)]
  BY <1>7, SumsUnique
<1> QED BY <1>1, <1>5, <1>8 DEF n

\* t is s without its element at i.
ShortOf(t, s, i) ==
    /\ Len(t) = Len(s) - 1
    /\ \A j \in 1 .. Len(s) - 1 : t[j] = IF j < i THEN s[j] ELSE s[j + 1]

\* t is s with another element at i.
Replaced(t, s, i) ==
    /\ Len(t) = Len(s)
    /\ \A j \in 1 .. Len(s) : j # i => t[j] = s[j]

\* A number that is taken out is missing from the sum.
LEMMA SumWithout ==
    ASSUME NEW s \in Seq(Int), NEW t \in Seq(Int), NEW i \in 1 .. Len(s),
           ShortOf(t, s, i),
           NEW f, Accumulates(f, s), NEW g, Accumulates(g, t)
    PROVE  g[Len(t)] = f[Len(s)] - s[i]
<1> DEFINE n == Len(s)
           h == [k \in 0 .. n - 1 |-> IF k < i THEN f[k] ELSE f[k + 1] - s[i]]
<1>1. n \in Nat /\ Len(t) = n - 1 /\ i \in 1 .. n
  BY DEF ShortOf
<1>2. /\ \A k \in 0 .. n : f[k] \in Int
      /\ f[0] = 0 /\ \A k \in 1 .. n : f[k] = f[k - 1] + s[k]
  BY DEF Accumulates
<1>3. \A k \in 1 .. n : s[k] \in Int
  BY <1>1
<1>4. \A j \in 1 .. n - 1 : t[j] = IF j < i THEN s[j] ELSE s[j + 1]
  BY DEF ShortOf
<1> HIDE DEF n
<1>5. h \in [0 .. n - 1 -> Int] /\ h[0] = 0
  <2>1. \A k \in 0 .. n - 1 : f[k] \in Int /\ f[k + 1] \in Int
    <3>1. \A k \in 0 .. n - 1 : k \in 0 .. n /\ k + 1 \in 0 .. n
      BY <1>1
    <3> QED BY <1>2, <3>1
  <2>2. s[i] \in Int /\ 0 \in 0 .. n - 1 /\ 0 < i
    BY <1>1, <1>3
  <2> QED BY <1>2, <2>1, <2>2
<1>6. h[n - 1] = f[n] - s[i]
  <2>1. CASE i = n
    <3>1. f[n] = f[n - 1] + s[n] /\ f[n - 1] \in Int /\ s[n] \in Int
      BY <1>1, <1>2, <1>3
    <3>2. h[n - 1] = f[n - 1]
      BY <1>1, <2>1
    <3> QED BY <2>1, <3>1, <3>2
  <2>2. CASE i < n
    BY <1>1, <2>2
  <2> QED BY <1>1, <2>1, <2>2
<1>7. ASSUME NEW k \in 1 .. n - 1 PROVE h[k] = h[k - 1] + t[k]
  <2>1. CASE k < i
    BY <1>1, <1>2, <1>4, <2>1
  <2>2. CASE k = i
    <3>1. /\ i \in 1 .. n /\ i + 1 \in 1 .. n /\ i \in 1 .. n - 1
          /\ i \in 0 .. n - 1 /\ i - 1 \in 0 .. n - 1 /\ i - 1 \in 0 .. n
          /\ i - 1 < i /\ ~ (i < i) /\ (i + 1) - 1 = i
      BY <1>1, <2>2
    <3>2. /\ f[i + 1] = f[i] + s[i + 1] /\ f[i] = f[i - 1] + s[i]
          /\ f[i - 1] \in Int /\ s[i] \in Int /\ s[i + 1] \in Int
      BY <1>2, <1>3, <3>1
    <3>3. h[i] = f[i + 1] - s[i] /\ h[i - 1] = f[i - 1] /\ t[i] = s[i + 1]
      BY <1>4, <3>1
    <3> HIDE DEF h
    <3>4. h[i] = h[i - 1] + t[i]
      BY <3>2, <3>3
    <3> QED BY <2>2, <3>4
  <2>3. CASE k > i
    <3>1. /\ k + 1 \in 1 .. n /\ k \in 0 .. n /\ k \in 1 .. n - 1
          /\ k \in 0 .. n - 1 /\ k - 1 \in 0 .. n - 1
          /\ ~ (k < i) /\ ~ (k - 1 < i) /\ (k + 1) - 1 = k
          /\ (k - 1) + 1 = k
      BY <1>1, <2>3
    <3>2. /\ f[k + 1] = f[k] + s[k + 1]
          /\ f[k] \in Int /\ s[i] \in Int /\ s[k + 1] \in Int
      BY <1>1, <1>2, <1>3, <3>1
    <3>3. h[k] = f[k + 1] - s[i] /\ h[k - 1] = f[k] - s[i] /\ t[k] = s[k + 1]
      BY <1>4, <3>1
    <3> HIDE DEF h
    <3> QED BY <3>2, <3>3
  <2> QED BY <1>1, <2>1, <2>2, <2>3
<1> HIDE DEF h
<1>8. Accumulates(h, t)
  BY <1>1, <1>5, <1>7 DEF Accumulates
<1>9. h[Len(t)] = g[Len(t)]
  BY <1>8, SumsUnique
<1> QED BY <1>1, <1>6, <1>9 DEF n

\* A number that takes the place of another counts instead of it.
LEMMA SumReplaced ==
    ASSUME NEW s \in Seq(Int), NEW t \in Seq(Int), NEW i \in 1 .. Len(s),
           Replaced(t, s, i),
           NEW f, Accumulates(f, s), NEW g, Accumulates(g, t)
    PROVE  g[Len(t)] = f[Len(s)] - s[i] + t[i]
<1> DEFINE n == Len(s)
           h == [k \in 0 .. n |-> IF k < i THEN f[k] ELSE f[k] - s[i] + t[i]]
<1>1. n \in Nat /\ Len(t) = n /\ i \in 1 .. n
  BY DEF Replaced
<1>2. /\ \A k \in 0 .. n : f[k] \in Int
      /\ f[0] = 0 /\ \A k \in 1 .. n : f[k] = f[k - 1] + s[k]
  BY DEF Accumulates
<1>3. \A k \in 1 .. n : s[k] \in Int /\ t[k] \in Int
  BY <1>1
<1>4. \A j \in 1 .. n : j # i => t[j] = s[j]
  BY DEF Replaced
<1> HIDE DEF n
<1>5. /\ h \in [0 .. n -> Int] /\ h[0] = 0
      /\ h[n] = f[n] - s[i] + t[i]
  BY <1>1, <1>2, <1>3
<1>6. ASSUME NEW k \in 1 .. n PROVE h[k] = h[k - 1] + t[k]
  <2>1. /\ f[k] = f[k - 1] + s[k] /\ f[k - 1] \in Int /\ s[k] \in Int
        /\ s[i] \in Int /\ t[i] \in Int
    BY <1>1, <1>2, <1>3
  <2>2. CASE k < i
    BY <1>1, <1>4, <2>1, <2>2
  <2>3. CASE k = i
    <3>1. h[k] = f[k] - s[i] + t[i] /\ h[k - 1] = f[k - 1]
      BY <1>1, <2>3
    <3> HIDE DEF h
    <3> QED BY <2>1, <2>3, <3>1
  <2>4. CASE k > i
    <3>1. /\ h[k] = f[k] - s[i] + t[i] /\ h[k - 1] = f[k - 1] - s[i] + t[i]
          /\ t[k] = s[k]
      BY <1>1, <1>4, <2>4
    <3> HIDE DEF h
    <3> QED BY <2>1, <3>1
  <2> QED BY <1>1, <2>2, <2>3, <2>4
<1> HIDE DEF h
<1>7. Accumulates(h, t)
  BY <1>1, <1>5, <1>6 DEF Accumulates
<1>8. h[Len(t)] = g[Len(t)]
  BY <1>7, SumsUnique
<1> QED BY <1>1, <1>5, <1>8 DEF n

-----------------------------------------------------------------------------
(* The open size of a list of orders.                                      *)

\* SumOpen is the sum of the sizes, however that is found.
LEMMA SumOpenType ==
    ASSUME NEW orders \in Seq(resting_order)
    PROVE  SumOpen(orders) \in Int
<1>1. PICK f : /\ Accumulates(f, Sizes(orders))
               /\ SumOpen(orders) = f[Len(orders)]
  BY SumOpenIs
<1>2. Len(Sizes(orders)) = Len(orders) /\ Len(orders) \in Nat
  BY SizesType
<1> QED BY <1>1, <1>2 DEF Accumulates

\* An empty list has no open size.
LEMMA SumOpenEmpty == SumOpen(<<>>) = 0
<1>1. <<>> \in Seq(resting_order) /\ Len(<<>>) = 0
  OBVIOUS
<1>2. PICK f : Accumulates(f, Sizes(<<>>)) /\ SumOpen(<<>>) = f[Len(<<>>)]
  BY <1>1, SumOpenIs
<1> QED BY <1>1, <1>2 DEF Accumulates

\* push_back adds the size of the order.
LEMMA SumOpenAppend ==
    ASSUME NEW orders \in Seq(resting_order), NEW order \in resting_order
    PROVE  SumOpen(Append(orders, order)) = SumOpen(orders) + order.open_size
<1> DEFINE new == Append(orders, order)
<1>1. /\ new \in Seq(resting_order)
      /\ Len(new) = Len(orders) + 1
      /\ \A j \in 1 .. Len(orders) : new[j] = orders[j]
      /\ new[Len(orders) + 1] = order
      /\ Len(orders) \in Nat
  BY AppendProperties
<1> HIDE DEF new
<1>2. PICK f : /\ Accumulates(f, Sizes(orders))
               /\ SumOpen(orders) = f[Len(orders)]
  BY SumOpenIs
<1>3. PICK g : Accumulates(g, Sizes(new)) /\ SumOpen(new) = g[Len(new)]
  BY <1>1, SumOpenIs
<1>4. /\ Sizes(orders) \in Seq(Int) /\ Len(Sizes(orders)) = Len(orders)
      /\ \A j \in 1 .. Len(orders) : Sizes(orders)[j] = orders[j].open_size
  BY SizesType
<1>5. /\ Sizes(new) \in Seq(Int) /\ Len(Sizes(new)) = Len(new)
      /\ \A j \in 1 .. Len(new) : Sizes(new)[j] = new[j].open_size
  BY <1>1, SizesType
<1>6. /\ \A j \in 1 .. Len(orders) : Sizes(new)[j] = Sizes(orders)[j]
      /\ Sizes(new)[Len(new)] = order.open_size
  BY <1>1, <1>4, <1>5
<1>7. g[Len(Sizes(new))] = f[Len(Sizes(orders))] + Sizes(new)[Len(Sizes(new))]
  <2>1. Extended(Sizes(new), Sizes(orders))
    BY <1>1, <1>4, <1>5, <1>6 DEF Extended
  <2> QED BY <1>2, <1>3, <1>4, <1>5, <2>1, SumAppended
<1> QED BY <1>2, <1>3, <1>4, <1>5, <1>6, <1>7 DEF new

\* list::erase and pop_front take away the size of the order erased.
LEMMA SumOpenWithout ==
    ASSUME NEW orders \in Seq(resting_order), NEW i \in 1 .. Len(orders),
           NEW new \in Seq(resting_order), ShortOf(new, orders, i)
    PROVE  SumOpen(new) = SumOpen(orders) - orders[i].open_size
<1>1. PICK f : /\ Accumulates(f, Sizes(orders))
               /\ SumOpen(orders) = f[Len(orders)]
  BY SumOpenIs
<1>2. PICK g : Accumulates(g, Sizes(new)) /\ SumOpen(new) = g[Len(new)]
  BY SumOpenIs
<1>3. /\ Sizes(orders) \in Seq(Int) /\ Len(Sizes(orders)) = Len(orders)
      /\ \A j \in 1 .. Len(orders) : Sizes(orders)[j] = orders[j].open_size
  BY SizesType
<1>4. /\ Sizes(new) \in Seq(Int) /\ Len(Sizes(new)) = Len(new)
      /\ \A j \in 1 .. Len(new) : Sizes(new)[j] = new[j].open_size
  BY SizesType
<1>5. Len(orders) \in Nat
  OBVIOUS
<1>6. ASSUME NEW j \in 1 .. Len(orders) - 1
      PROVE  Sizes(new)[j] =
                IF j < i THEN Sizes(orders)[j] ELSE Sizes(orders)[j + 1]
  <2>1. /\ j \in 1 .. Len(orders) /\ j + 1 \in 1 .. Len(orders)
        /\ j \in 1 .. Len(new)
        /\ new[j] = IF j < i THEN orders[j] ELSE orders[j + 1]
    BY <1>5 DEF ShortOf
  <2> QED BY <1>3, <1>4, <2>1
<1>7. g[Len(Sizes(new))] = f[Len(Sizes(orders))] - Sizes(orders)[i]
  <2> DEFINE s == Sizes(orders)
             t == Sizes(new)
  <2>1. /\ s \in Seq(Int) /\ t \in Seq(Int) /\ i \in 1 .. Len(s)
        /\ Accumulates(f, s) /\ Accumulates(g, t)
    BY <1>1, <1>2, <1>3, <1>4
  <2>2. ShortOf(t, s, i)
    BY <1>3, <1>4, <1>6 DEF ShortOf
  <2> HIDE DEF s, t
  <2>3. g[Len(t)] = f[Len(s)] - s[i]
    BY <2>1, <2>2, SumWithout
  <2> QED BY <2>3 DEF s, t
<1> QED BY <1>1, <1>2, <1>3, <1>4, <1>7

\* An order of another size counts with that size.
LEMMA SumOpenResized ==
    ASSUME NEW orders \in Seq(resting_order), NEW i \in 1 .. Len(orders),
           NEW new \in Seq(resting_order), Replaced(new, orders, i)
    PROVE  SumOpen(new) =
              SumOpen(orders) - orders[i].open_size + new[i].open_size
<1>1. PICK f : /\ Accumulates(f, Sizes(orders))
               /\ SumOpen(orders) = f[Len(orders)]
  BY SumOpenIs
<1>2. PICK g : Accumulates(g, Sizes(new)) /\ SumOpen(new) = g[Len(new)]
  BY SumOpenIs
<1>3. /\ Sizes(orders) \in Seq(Int) /\ Len(Sizes(orders)) = Len(orders)
      /\ \A j \in 1 .. Len(orders) : Sizes(orders)[j] = orders[j].open_size
  BY SizesType
<1>4. /\ Sizes(new) \in Seq(Int) /\ Len(Sizes(new)) = Len(new)
      /\ \A j \in 1 .. Len(new) : Sizes(new)[j] = new[j].open_size
  BY SizesType
<1>5. \A j \in 1 .. Len(orders) : j # i => Sizes(new)[j] = Sizes(orders)[j]
  BY <1>3, <1>4 DEF Replaced
<1>6. g[Len(Sizes(new))] =
         f[Len(Sizes(orders))] - Sizes(orders)[i] + Sizes(new)[i]
  <2> DEFINE s == Sizes(orders)
             t == Sizes(new)
  <2>1. /\ s \in Seq(Int) /\ t \in Seq(Int) /\ i \in 1 .. Len(s)
        /\ Accumulates(f, s) /\ Accumulates(g, t)
    BY <1>1, <1>2, <1>3, <1>4
  <2>2. Replaced(t, s, i)
    BY <1>3, <1>4, <1>5 DEF Replaced
  <2> HIDE DEF s, t
  <2>3. g[Len(t)] = f[Len(s)] - s[i] + t[i]
    BY <2>1, <2>2, SumReplaced
  <2> QED BY <2>3 DEF s, t
<1>7. i \in 1 .. Len(new)
  BY DEF Replaced
<1> QED BY <1>1, <1>2, <1>3, <1>4, <1>6, <1>7

-----------------------------------------------------------------------------
(* Arithmetic of std::uint64_t.                                            *)

\* Division with a remainder.
LEMMA Divided ==
    ASSUME NEW m \in Nat \ {0}, NEW a \in Int
    PROVE  /\ a = (m * (a \div m)) + (a % m)
           /\ a % m \in 0 .. m - 1 /\ a \div m \in Int
OBVIOUS

\* The remainder is the only one.
LEMMA RemainderUnique ==
    ASSUME NEW m \in Nat \ {0}, NEW a \in Int, NEW q \in Int,
           NEW r \in 0 .. m - 1, a = (m * q) + r
    PROVE  a % m = r
OBVIOUS

\* A sum may be reduced before or after something is added.
LEMMA ReducedSum ==
    ASSUME NEW m \in Nat \ {0}, NEW a \in Int, NEW b \in Int
    PROVE  ((a % m) + b) % m = (a + b) % m
<1> DEFINE q == a \div m
           r == a % m
           p == (r + b) \div m
           t == (r + b) % m
<1>1. a = (m * q) + r /\ r \in 0 .. m - 1 /\ q \in Int
  BY Divided
<1>2. r + b \in Int
  BY <1>1
<1>3. r + b = (m * p) + t /\ t \in 0 .. m - 1 /\ p \in Int
  BY <1>2, Divided
<1> HIDE DEF q, r, p, t
<1>4. a + b = (m * (q + p)) + t
  <2>1. m * (q + p) = (m * q) + (m * p) /\ m * q \in Int /\ m * p \in Int
    BY <1>1, <1>3
  <2> QED BY <1>1, <1>3, <2>1
<1>5. (a + b) % m = t
  <2>1. a + b \in Int /\ q + p \in Int
    BY <1>1, <1>3
  <2> QED BY <1>3, <1>4, <2>1, RemainderUnique
<1> QED BY <1>5 DEF t, r

\* += on a total that is right modulo the width keeps it right.
LEMMA PlusReduced ==
    ASSUME NEW a \in Int, NEW b \in Int
    PROVE  Plus(a % SizeModulus, b) = (a + b) % SizeModulus
BY SizeModulusAssumption, ReducedSum DEF Plus

\* -= on a total that is right modulo the width keeps it right.
LEMMA MinusReduced ==
    ASSUME NEW a \in Int, NEW b \in Int
    PROVE  Minus(a % SizeModulus, b) = (a - b) % SizeModulus
<1>1. -b \in Int /\ SizeModulus \in Nat \ {0}
  BY SizeModulusAssumption
<1>2. ((a % SizeModulus) + (-b)) % SizeModulus = (a + (-b)) % SizeModulus
  BY <1>1, ReducedSum
<1>3. /\ a % SizeModulus \in Int
      /\ (a % SizeModulus) + (-b) = (a % SizeModulus) - b
      /\ a + (-b) = a - b
  <2>1. a % SizeModulus \in Int
    BY <1>1, Divided
  <2> QED BY <2>1
<1> QED BY <1>2, <1>3 DEF Minus

-----------------------------------------------------------------------------
(* One side of a book.                                                     *)

\* The totals of a side are the sums of its lists, modulo 2^64.
RightTotals(levels) ==
    \A p \in DOMAIN levels :
        levels[p].total_size = SumOpen(levels[p].orders) % SizeModulus

\* Storing a level with a right total, or erasing it, keeps the totals right.
LEMMA StoreTotals ==
    ASSUME NEW levels, RightTotals(levels), NEW p, NEW level,
           level.total_size = SumOpen(level.orders) % SizeModulus
    PROVE  /\ RightTotals(Put(levels, p, level))
           /\ RightTotals(StoreLevel(levels, p, level))
<1>1. RightTotals(Put(levels, p, level))
  <2> DEFINE new == Put(levels, p, level)
  <2>1. /\ DOMAIN new = DOMAIN levels \cup {p}
        /\ \A q \in DOMAIN new : new[q] = IF q = p THEN level ELSE levels[q]
    BY DEF Put
  <2> HIDE DEF new
  <2>2. RightTotals(new)
    BY <2>1 DEF RightTotals
  <2> QED BY <2>2 DEF new
<1>2. RightTotals(Erase(levels, {p}))
  <2> DEFINE new == Erase(levels, {p})
  <2>1. /\ DOMAIN new = DOMAIN levels \ {p}
        /\ \A q \in DOMAIN new : new[q] = levels[q]
    BY DEF Erase
  <2> HIDE DEF new
  <2>2. RightTotals(new)
    BY <2>1 DEF RightTotals
  <2> QED BY <2>2 DEF new
<1> QED BY <1>1, <1>2 DEF StoreLevel

\* remove_order (order_book.cpp:345) keeps the totals right.
LEMMA RemoveOrderTotals ==
    ASSUME NEW levels, NEW direction, NEW n \in Nat,
           GoodLevels(levels, direction, n), RightTotals(levels),
           NEW handle, NEW key, Holds(levels, handle, key)
    PROVE  RightTotals(remove_order(levels, handle))
<1> DEFINE p == handle.limit_price
           orders == levels[p].orders
           i == PositionOf(orders, handle.node)
           new == RemoveAt(orders, i)
           size == orders[i].open_size
           level == [total_size |-> Minus(levels[p].total_size, size),
                     orders     |-> new]
<1>1. /\ p \in DOMAIN levels /\ i \in 1 .. Len(orders)
      /\ orders[i] \in resting_order
  BY PositionFacts
<1>2. orders \in Seq(resting_order)
  BY <1>1, LevelFacts
<1>3. remove_order(levels, handle) = StoreLevel(levels, p, level)
  BY DEF remove_order
<1>4. levels[p].total_size = SumOpen(orders) % SizeModulus
  BY <1>1 DEF RightTotals
<1>5. size \in Int /\ SumOpen(orders) \in Int
  <2>1. size \in Int
    BY <1>1, SizeModulusAssumption DEF resting_order, Quantity
  <2> QED BY <1>2, <2>1, SumOpenType
<1> HIDE DEF i
<1>6. SumOpen(new) = SumOpen(orders) - size
  <2>1. /\ new \in Seq(resting_order) /\ Len(new) = Len(orders) - 1
        /\ \A j \in 1 .. Len(orders) - 1 :
              new[j] = IF j < i THEN orders[j] ELSE orders[j + 1]
    BY <1>1, <1>2, RemoveAtElements
  <2> HIDE DEF orders, new
  <2>2. SumOpen(new) = SumOpen(orders) - orders[i].open_size
    BY <1>1, <1>2, <2>1, SumOpenWithout DEF ShortOf
  <2> QED BY <2>2
<1>7. level.total_size = SumOpen(level.orders) % SizeModulus
  <2>1. level.total_size = Minus(levels[p].total_size, size)
        /\ level.orders = new
    OBVIOUS
  <2> HIDE DEF level, new, size, orders, p
  <2>2. Minus(levels[p].total_size, size) =
           (SumOpen(orders) - size) % SizeModulus
    BY <1>4, <1>5, MinusReduced
  <2> QED BY <1>6, <2>1, <2>2
<1> HIDE DEF level, p
<1> QED BY <1>3, <1>7, StoreTotals

\* reduce_order_size (order_book.cpp:311) keeps the totals right.
LEMMA ReduceOrderTotals ==
    ASSUME NEW levels, NEW direction, NEW n \in Nat,
           GoodLevels(levels, direction, n), RightTotals(levels),
           NEW size \in Quantity,
           NEW handle, NEW key, Holds(levels, handle, key)
    PROVE  RightTotals(reduce_order_size(levels, handle, size))
<1> DEFINE p == handle.limit_price
           orders == levels[p].orders
           i == PositionOf(orders, handle.node)
           new == [orders EXCEPT ![i].open_size = size]
           gone == orders[i].open_size - size
           level == [total_size |-> Minus(levels[p].total_size, gone),
                     orders     |-> new]
<1>1. /\ p \in DOMAIN levels /\ i \in 1 .. Len(orders)
      /\ orders[i] \in resting_order
  BY PositionFacts
<1>2. /\ orders \in Seq(resting_order)
      /\ OrderedList(orders, direction, p, n)
  BY <1>1, LevelFacts
<1>3. reduce_order_size(levels, handle, size) = Put(levels, p, level)
  BY DEF reduce_order_size
<1>4. levels[p].total_size = SumOpen(orders) % SizeModulus
  BY <1>1 DEF RightTotals
<1>5. /\ orders[i].open_size \in Int /\ size \in Int /\ gone \in Int
      /\ SumOpen(orders) \in Int
  <2>1. orders[i].open_size \in Int /\ size \in Int
    BY <1>1, SizeModulusAssumption DEF resting_order, Quantity
  <2>2. SumOpen(orders) \in Int
    BY <1>2, SumOpenType
  <2> QED BY <2>1, <2>2
<1> HIDE DEF i
<1>6. SumOpen(new) = SumOpen(orders) - gone
  <2>1. new \in Seq(resting_order)
    BY <1>1, <1>2, ResizeOrdered
  <2>2. /\ Len(new) = Len(orders)
        /\ \A j \in 1 .. Len(orders) : j # i => new[j] = orders[j]
        /\ new[i].open_size = size
    BY <1>1, <1>2 DEF resting_order
  <2> HIDE DEF orders, new
  <2>3. SumOpen(new) = SumOpen(orders) - orders[i].open_size + new[i].open_size
    BY <1>1, <1>2, <2>1, <2>2, SumOpenResized DEF Replaced
  <2> QED BY <1>5, <2>2, <2>3
<1>7. level.total_size = SumOpen(level.orders) % SizeModulus
  <2>1. level.total_size = Minus(levels[p].total_size, gone)
        /\ level.orders = new
    OBVIOUS
  <2> HIDE DEF level, new, gone, orders, p
  <2>2. Minus(levels[p].total_size, gone) =
           (SumOpen(orders) - gone) % SizeModulus
    BY <1>4, <1>5, MinusReduced
  <2> QED BY <1>6, <2>1, <2>2
<1> HIDE DEF level, p
<1> QED BY <1>3, <1>7, StoreTotals

\* An iteration of match_against_level (order_book.cpp:462) keeps the totals
\* right.
LEMMA TakeFromFrontTotals ==
    ASSUME NEW levels, NEW direction, NEW n \in Nat,
           GoodLevels(levels, direction, n), RightTotals(levels),
           NEW p \in DOMAIN levels, NEW executed \in Nat \ {0},
           executed <= Head(levels[p].orders).open_size
    PROVE  RightTotals(take_from_front(levels, p, executed))
<1> DEFINE orders == levels[p].orders
           resting == Head(orders)
           new == IF executed = resting.open_size THEN Tail(orders)
                  ELSE [orders EXCEPT ![1].open_size = @ - executed]
           level == [total_size |-> Minus(levels[p].total_size, executed),
                     orders     |-> new]
<1>1. /\ orders \in Seq(resting_order) /\ orders # <<>>
      /\ OrderedList(orders, direction, p, n)
  BY LevelFacts
<1>2. /\ 1 \in 1 .. Len(orders) /\ resting = orders[1]
      /\ orders[1] \in resting_order
  BY <1>1, ElementOfSeq
<1>3. take_from_front(levels, p, executed) = StoreLevel(levels, p, level)
  BY DEF take_from_front
<1>4. levels[p].total_size = SumOpen(orders) % SizeModulus
  BY DEF RightTotals
<1>5. /\ orders[1].open_size \in Int /\ executed \in Int
      /\ SumOpen(orders) \in Int /\ orders[1].open_size \in Quantity
  <2>1. orders[1].open_size \in Int /\ orders[1].open_size \in Quantity
    BY <1>2, SizeModulusAssumption DEF resting_order, Quantity
  <2>2. SumOpen(orders) \in Int
    BY <1>1, SumOpenType
  <2> QED BY <2>1, <2>2
<1>6. SumOpen(new) = SumOpen(orders) - executed
  <2>1. CASE executed = resting.open_size
    <3>1. new = Tail(orders)
      BY <2>1
    <3>2. /\ Tail(orders) \in Seq(resting_order)
          /\ Len(Tail(orders)) = Len(orders) - 1
          /\ \A j \in 1 .. Len(Tail(orders)) : Tail(orders)[j] = orders[j + 1]
      BY <1>1, HeadTailProperties
    <3> DEFINE t == Tail(orders)
    <3>3. \A j \in 1 .. Len(orders) - 1 :
             t[j] = IF j < 1 THEN orders[j] ELSE orders[j + 1]
      BY <3>2
    <3>4. t \in Seq(resting_order) /\ Len(t) = Len(orders) - 1
      BY <3>2
    <3> HIDE DEF t, orders
    <3>5. SumOpen(t) = SumOpen(orders) - orders[1].open_size
      BY <1>1, <1>2, <3>3, <3>4, SumOpenWithout DEF ShortOf
    <3> QED BY <1>2, <2>1, <3>1, <3>5 DEF t
  <2>2. CASE executed # resting.open_size
    <3> DEFINE size == orders[1].open_size - executed
    <3>1. size \in Quantity /\ size \in Int
      BY <1>2, <1>5, <2>2, SizeModulusAssumption DEF Quantity
    <3>2. new = [orders EXCEPT ![1].open_size = size]
      BY <1>2, <2>2
    <3> HIDE DEF new
    <3>3. new \in Seq(resting_order)
      BY <1>1, <1>2, <3>1, <3>2, ResizeOrdered
    <3>4. /\ Len(new) = Len(orders)
          /\ \A j \in 1 .. Len(orders) : j # 1 => new[j] = orders[j]
          /\ new[1].open_size = size
      BY <1>1, <1>2, <3>2 DEF resting_order
    <3>5. SumOpen(new) =
             SumOpen(orders) - orders[1].open_size + new[1].open_size
      <4> HIDE DEF orders, size
      <4> QED BY <1>1, <1>2, <3>3, <3>4, SumOpenResized DEF Replaced
    <3> QED BY <1>5, <3>4, <3>5
  <2> QED BY <2>1, <2>2
<1>7. level.total_size = SumOpen(level.orders) % SizeModulus
  <2>1. level.total_size = Minus(levels[p].total_size, executed)
        /\ level.orders = new
    OBVIOUS
  <2> HIDE DEF level, new, orders
  <2>2. Minus(levels[p].total_size, executed) =
           (SumOpen(orders) - executed) % SizeModulus
    BY <1>4, <1>5, MinusReduced
  <2> QED BY <1>6, <2>1, <2>2
<1> HIDE DEF level
<1> QED BY <1>3, <1>7, StoreTotals

\* rest_order (order_book.cpp:496) keeps the totals right.
LEMMA RestOrderTotals ==
    ASSUME NEW levels, NEW direction, NEW n \in Nat,
           GoodLevels(levels, direction, n), RightTotals(levels),
           NEW order \in resting_order
    PROVE  RightTotals(rest_order(levels, order))
<1> DEFINE p == order.limit_price
           old == IF p \in DOMAIN levels THEN levels[p]
                  ELSE [total_size |-> 0, orders |-> <<>>]
           new == Append(old.orders, order)
           level == [total_size |-> Plus(old.total_size, order.open_size),
                     orders     |-> new]
<1>1. order.open_size \in Int
  BY SizeModulusAssumption DEF resting_order, Quantity
<1>2. /\ old.orders \in Seq(resting_order)
      /\ old.total_size = SumOpen(old.orders) % SizeModulus
  <2>1. CASE p \in DOMAIN levels
    BY <2>1, LevelFacts DEF RightTotals
  <2>2. CASE p \notin DOMAIN levels
    <3>1. old.orders = <<>> /\ old.total_size = 0
      BY <2>2
    <3>2. <<>> \in Seq(resting_order) /\ 0 % SizeModulus = 0
      BY SizeModulusAssumption
    <3> QED BY <3>1, <3>2, SumOpenEmpty
  <2> QED BY <2>1, <2>2
<1>3. rest_order(levels, order) = Put(levels, p, level)
  BY DEF rest_order
<1> HIDE DEF old
<1>4. SumOpen(new) = SumOpen(old.orders) + order.open_size
  BY <1>2, SumOpenAppend
<1>5. SumOpen(old.orders) \in Int
  BY <1>2, SumOpenType
<1>6. level.total_size = SumOpen(level.orders) % SizeModulus
  <2>1. level.total_size = Plus(old.total_size, order.open_size)
        /\ level.orders = new
    OBVIOUS
  <2> HIDE DEF level, new
  <2>2. Plus(old.total_size, order.open_size) =
           (SumOpen(old.orders) + order.open_size) % SizeModulus
    BY <1>1, <1>2, <1>5, PlusReduced
  <2> QED BY <1>4, <2>1, <2>2
<1> HIDE DEF level, p
<1> QED BY <1>3, <1>6, StoreTotals

-----------------------------------------------------------------------------
(* What the trades of a command have executed.                             *)

\* A trade adds the size it executed.
LEMMA SumTradedAppend ==
    ASSUME NEW stream \in Seq(event), NEW e \in event,
           e.type = "trade_executed"
    PROVE  /\ SumTraded(stream) \in Int
           /\ SumTraded(Append(stream, e)) =
                 SumTraded(stream) + e.executed_size
<1> DEFINE new == Append(stream, e)
<1>1. /\ new \in Seq(event)
      /\ Len(new) = Len(stream) + 1
      /\ \A j \in 1 .. Len(stream) : new[j] = stream[j]
      /\ new[Len(stream) + 1] = e
      /\ Len(stream) \in Nat
  BY AppendProperties
<1> HIDE DEF new
<1>2. PICK f : /\ Accumulates(f, Executed(stream))
               /\ SumTraded(stream) = f[Len(stream)]
  BY SumTradedIs
<1>3. PICK g : /\ Accumulates(g, Executed(new))
               /\ SumTraded(new) = g[Len(new)]
  BY <1>1, SumTradedIs
<1>4. /\ Executed(stream) \in Seq(Int) /\ Len(Executed(stream)) = Len(stream)
      /\ \A j \in 1 .. Len(stream) :
            Executed(stream)[j] = IF stream[j].type = "trade_executed"
                                  THEN stream[j].executed_size ELSE 0
  BY ExecutedType
<1>5. /\ Executed(new) \in Seq(Int) /\ Len(Executed(new)) = Len(new)
      /\ \A j \in 1 .. Len(new) :
            Executed(new)[j] = IF new[j].type = "trade_executed"
                               THEN new[j].executed_size ELSE 0
  BY <1>1, ExecutedType
<1>6. /\ \A j \in 1 .. Len(stream) : Executed(new)[j] = Executed(stream)[j]
      /\ Executed(new)[Len(new)] = e.executed_size
  BY <1>1, <1>4, <1>5
<1>7. g[Len(Executed(new))] =
         f[Len(Executed(stream))] + Executed(new)[Len(Executed(new))]
  <2>1. Extended(Executed(new), Executed(stream))
    BY <1>1, <1>4, <1>5, <1>6 DEF Extended
  <2> QED BY <1>2, <1>3, <1>4, <1>5, <2>1, SumAppended
<1>8. SumTraded(stream) \in Int
  BY <1>1, <1>2, <1>4 DEF Accumulates
<1> QED BY <1>2, <1>3, <1>4, <1>5, <1>6, <1>7, <1>8 DEF new

\* Nothing is executed when a command is accepted.
LEMMA SumTradedAccepted ==
    ASSUME NEW type \in {"submit_accepted", "update_accepted"},
           NEW key \in Keys
    PROVE  SumTraded(<<accepted(type, key)>>) = 0
<1> DEFINE stream == <<accepted(type, key)>>
<1>1. accepted(type, key) \in event
  BY AcceptedType
<1>2. /\ stream \in Seq(event) /\ Len(stream) = 1
      /\ stream[1].type # "trade_executed"
  BY <1>1 DEF accepted
<1> HIDE DEF stream
<1>3. PICK f : /\ Accumulates(f, Executed(stream))
               /\ SumTraded(stream) = f[Len(stream)]
  BY <1>2, SumTradedIs
<1>4. Len(Executed(stream)) = 1 /\ Executed(stream)[1] = 0
  BY <1>2, ExecutedType
<1>5. f[0] = 0 /\ f[1] = f[1 - 1] + 0
  BY <1>3, <1>4 DEF Accumulates
<1> QED BY <1>2, <1>3, <1>5 DEF stream

-----------------------------------------------------------------------------
(* The inductive invariant.                                                *)

\* The totals of all books.
BooksRight(b) == \A s \in DOMAIN b : \A d \in Side : RightTotals(b[s][d])

TotalsInv ==
    /\ IInv
    /\ BooksRight(books)
    /\ SizeConserved

\* Replacing a side by one with right totals keeps the books right.
LEMMA StoreSideRight ==
    ASSUME NEW b, NEW n, GoodBooks(b, n), BooksRight(b),
           NEW s \in DOMAIN b, NEW d \in Side, NEW x, RightTotals(x)
    PROVE  BooksRight(Stored(b, s, d, x))
<1> DEFINE new == Stored(b, s, d, x)
<1>1. /\ DOMAIN new = DOMAIN b
      /\ IsMap(new, Symbols)
      /\ \A t \in DOMAIN b :
            /\ DOMAIN new[t] = Side
            /\ new[t] = [e \in Side |-> new[t][e]]
            /\ \A e \in Side :
                  new[t][e] = IF t = s /\ e = d THEN x ELSE b[t][e]
  BY StoreSide
<1> HIDE DEF new
<1>2. BooksRight(new)
  BY <1>1 DEF BooksRight
<1> QED BY <1>2 DEF new

\* MatchFront keeps the totals, and what it executes was open before.
LEMMA MatchFrontTotals ==
    ASSUME TotalsInv, MatchFront
    PROVE  BooksRight(books') /\ SizeConserved'
<1> DEFINE opposite == Opposite(call.direction)
           p == begin(opposite, OppositeLevels)
           resting == Head(OppositeLevels[p].orders)
           executed == Min({call.open_size, resting.open_size})
           after == take_from_front(OppositeLevels, p, executed)
           trade == trade_executed(call.key, resting.key, call.instrument,
                                   resting.limit_price, executed)
<1> USE DEF TotalsInv
<1>1. /\ call # NoCall /\ call.open_size > 0 /\ DOMAIN OppositeLevels # {}
      /\ events' = Append(events, trade)
      /\ call' = [call EXCEPT
                     !.open_size = @ - executed,
                     !.filled = IF executed = resting.open_size
                                THEN @ \cup {resting.key} ELSE @]
      /\ books' = Stored(books, call.instrument, opposite, after)
  BY DEF MatchFront, match_against_level, CanMatch, Stored, OppositeLevels
<1>2. /\ call \in Call
      /\ call.key \in Keys /\ call.instrument \in Symbols
      /\ opposite \in Side /\ call.open_size \in Size
      /\ call.sequence \in Nat
      /\ call.instrument \in DOMAIN books
      /\ GoodBooks(books, call.sequence)
      /\ GoodLevels(OppositeLevels, opposite, call.sequence)
  BY <1>1, CallFacts
<1>3. p \in DOMAIN OppositeLevels
  <2>1. DOMAIN OppositeLevels \subseteq Price
    BY <1>2 DEF GoodLevels, IsLevels, IsMap
  <2> QED BY <1>1, <2>1, BeginIsBest
<1>4. /\ resting \in resting_order
      /\ resting.key \in Keys /\ resting.limit_price \in Price
      /\ resting.open_size \in Quantity
  <2>1. /\ OppositeLevels[p].orders \in Seq(resting_order)
        /\ OppositeLevels[p].orders # <<>>
    BY <1>2, <1>3, LevelFacts
  <2>2. resting \in resting_order
    BY <2>1
  <2> QED BY <2>2 DEF resting_order
<1> HIDE DEF opposite, p, resting
<1>5. /\ executed \in Nat \ {0} /\ executed \in Quantity
      /\ executed <= resting.open_size
  <2>1. /\ call.open_size \in Nat \ {0} /\ call.open_size < SizeModulus
        /\ resting.open_size \in Nat \ {0} /\ resting.open_size < SizeModulus
    BY <1>1, <1>2, <1>4, SizeModulusAssumption DEF Size, Quantity
  <2>2. /\ executed \in {call.open_size, resting.open_size}
        /\ executed <= resting.open_size
    <3>1. \E x \in {call.open_size, resting.open_size} :
             \A y \in {call.open_size, resting.open_size} : x <= y
      BY <2>1
    <3> QED BY <3>1 DEF Min
  <2> QED BY <2>1, <2>2, SizeModulusAssumption DEF Quantity
<1> HIDE DEF executed
<1>6. RightTotals(OppositeLevels)
  BY <1>2 DEF BooksRight, OppositeLevels, opposite
<1>7. RightTotals(after)
  BY <1>2, <1>3, <1>5, <1>6, TakeFromFrontTotals DEF resting
<1> HIDE DEF after
<1>8. BooksRight(books')
  BY <1>1, <1>2, <1>7, StoreSideRight
<1>9. trade \in event /\ trade.type = "trade_executed"
      /\ trade.executed_size = executed
  BY <1>2, <1>4, <1>5, TradeType DEF trade_executed
<1> HIDE DEF trade
<1>10. /\ SumTraded(events) \in Int
       /\ SumTraded(events') = SumTraded(events) + executed
  BY <1>1, <1>9, SumTradedAppend DEF IInv
<1>11. /\ call'.open_size = call.open_size - executed
       /\ call'.size = call.size
  BY <1>1, <1>2 DEF Call
<1>12. SumTraded(events) + call.open_size = call.size
  BY <1>1 DEF SizeConserved
<1>13. call.open_size \in Int /\ executed \in Int
  BY <1>2, <1>5, SizeModulusAssumption DEF Size
<1>14. SumTraded(events') + call'.open_size = call'.size
  BY <1>10, <1>11, <1>12, <1>13
<1> QED BY <1>8, <1>14 DEF SizeConserved

\* The end of a submit or of a replacement keeps the totals.
LEMMA FinishTotals ==
    ASSUME TotalsInv, call # NoCall, StoreOwnLevels
    PROVE  BooksRight(books')
<1> DEFINE order == [key |-> call.key, direction |-> call.direction,
                     limit_price |-> call.pricing,
                     open_size |-> call.open_size,
                     sequence |-> call.sequence]
<1> USE DEF TotalsInv
<1>1. /\ call.key \in Keys /\ call.direction \in Side
      /\ call.pricing \in Pricing /\ call.open_size \in Size
      /\ call.sequence \in Nat /\ call.sequence \in Sequence
      /\ call.instrument \in DOMAIN books
      /\ GoodBooks(books, call.sequence)
      /\ GoodLevels(OwnLevels, call.direction, call.sequence)
  BY CallFacts
<1>2. books' = Stored(books, call.instrument, call.direction, OwnLevelsAfter)
  BY DEF StoreOwnLevels, Stored
<1>3. RightTotals(OwnLevels)
  BY <1>1 DEF BooksRight, OwnLevels
<1>4. RightTotals(OwnLevelsAfter)
  <2>1. CASE Rests
    <3>1. order \in resting_order
      <4>1. call.open_size \in Quantity /\ call.pricing \in Price
        BY <1>1, <2>1, SizeModulusAssumption
           DEF Rests, Size, Quantity, Pricing, Market
      <4> QED BY <1>1, <4>1 DEF resting_order
    <3>2. OwnLevelsAfter = rest_order(OwnLevels, order)
      BY <2>1 DEF OwnLevelsAfter
    <3> HIDE DEF order
    <3> QED BY <1>1, <1>3, <3>1, <3>2, RestOrderTotals
  <2>2. CASE ~ Rests
    BY <1>3, <2>2 DEF OwnLevelsAfter
  <2> QED BY <2>1, <2>2
<1> QED BY <1>1, <1>2, <1>4, StoreSideRight

\* SubmitBegin changes no total, and all of the order is open.
LEMMA SubmitBeginTotals ==
    ASSUME TotalsInv, NEW key \in Keys, NEW instrument \in Symbols,
           NEW direction \in Side, NEW pricing \in Pricing,
           NEW size \in Quantity,
           SubmitBegin(key, instrument, direction, pricing, size)
    PROVE  BooksRight(books') /\ SizeConserved'
<1> DEFINE book == BookOf(instrument)
<1>1. /\ books' = Put(books, instrument, book)
      /\ events' = <<accepted("submit_accepted", key)>>
      /\ call'.size = size /\ call'.open_size = size
  BY DEF SubmitBegin
<1>2. \A d \in Side : RightTotals(book[d])
  <2>1. CASE instrument \in DOMAIN books
    BY <2>1 DEF BookOf, BooksRight, TotalsInv
  <2>2. CASE instrument \notin DOMAIN books
    <3>1. \A d \in Side : book[d] = EmptyMap
      BY <2>2 DEF BookOf
    <3>2. DOMAIN EmptyMap = {}
      BY DEF EmptyMap
    <3> HIDE DEF book
    <3> QED BY <3>1, <3>2 DEF RightTotals
  <2> QED BY <2>1, <2>2
<1> HIDE DEF book
<1>3. BooksRight(books')
  <2> DEFINE new == Put(books, instrument, book)
  <2>1. /\ DOMAIN new = DOMAIN books \cup {instrument}
        /\ \A t \in DOMAIN new :
              new[t] = IF t = instrument THEN book ELSE books[t]
    BY DEF Put
  <2> HIDE DEF new
  <2>2. BooksRight(new)
    BY <1>2, <2>1 DEF BooksRight, TotalsInv
  <2> QED BY <1>1, <2>2 DEF new
<1>4. SumTraded(events') = 0 /\ size \in Int
  BY <1>1, SumTradedAccepted, SizeModulusAssumption DEF Quantity
<1>5. SumTraded(events') + call'.open_size = call'.size
  BY <1>1, <1>4
<1> QED BY <1>3, <1>5 DEF SizeConserved

\* ReplaceBegin takes the order out of its total, and all of the new one is
\* open.
LEMMA ReplaceBeginTotals ==
    ASSUME TotalsInv, NEW key \in Keys, NEW pricing \in Price,
           NEW size \in Quantity, ReplaceBegin(key, pricing, size)
    PROVE  BooksRight(books') /\ SizeConserved'
<1> DEFINE active == active_orders[key]
           own == LevelsOf(active)
           after == remove_order(own, active)
<1> USE DEF TotalsInv
<1>1. /\ update_verdict(key, pricing) = Ok
      /\ call = NoCall
      /\ books' = Stored(books, active.instrument, active.direction, after)
      /\ call'.size = size /\ call'.open_size = size
      /\ events' = <<accepted("update_accepted", key)>>
  BY DEF ReplaceBegin, Stored
<1>2. /\ key \in DOMAIN active_orders
      /\ active.instrument \in DOMAIN books
      /\ Holds(own, active, key)
  BY <1>1 DEF update_verdict, Ok
<1>3. /\ active.direction \in Side
      /\ next_sequence \in Nat /\ GoodBooks(books, next_sequence)
      /\ GoodLevels(own, active.direction, next_sequence)
  BY <1>1, <1>2, ActiveFacts
<1>4. RightTotals(own)
  BY <1>2, <1>3 DEF BooksRight, LevelsOf
<1>5. RightTotals(after)
  BY <1>2, <1>3, <1>4, RemoveOrderTotals
<1> HIDE DEF active, own, after
<1>6. BooksRight(books')
  BY <1>1, <1>2, <1>3, <1>5, StoreSideRight
<1>7. SumTraded(events') = 0 /\ size \in Int
  BY <1>1, SumTradedAccepted, SizeModulusAssumption DEF Quantity
<1>8. SumTraded(events') + call'.open_size = call'.size
  BY <1>1, <1>7
<1> QED BY <1>6, <1>8 DEF SizeConserved

\* UpdateReduce takes what is gone out of the total.
LEMMA UpdateReduceTotals ==
    ASSUME TotalsInv, NEW key \in Keys, NEW pricing \in Price,
           NEW size \in Quantity, UpdateReduce(key, pricing, size)
    PROVE  BooksRight(books')
<1> DEFINE active == active_orders[key]
           before == LevelsOf(active)
           after == reduce_order_size(before, active, size)
<1> USE DEF TotalsInv
<1>1. /\ update_verdict(key, pricing) = Ok
      /\ call = NoCall
      /\ books' = Stored(books, active.instrument, active.direction, after)
  BY DEF UpdateReduce, Stored
<1>2. /\ key \in DOMAIN active_orders
      /\ active.instrument \in DOMAIN books
      /\ Holds(before, active, key)
  BY <1>1 DEF update_verdict, Ok
<1>3. /\ active.direction \in Side
      /\ next_sequence \in Nat /\ GoodBooks(books, next_sequence)
      /\ GoodLevels(before, active.direction, next_sequence)
  BY <1>1, <1>2, ActiveFacts
<1>4. RightTotals(before)
  BY <1>2, <1>3 DEF BooksRight, LevelsOf
<1>5. RightTotals(after)
  BY <1>2, <1>3, <1>4, ReduceOrderTotals
<1> HIDE DEF active, before, after
<1> QED BY <1>1, <1>2, <1>3, <1>5, StoreSideRight

\* Cancel takes the order out of its total.
LEMMA CancelTotals ==
    ASSUME TotalsInv, NEW key \in Keys, Cancel(key)
    PROVE  BooksRight(books')
<1> DEFINE active == active_orders[key]
           before == LevelsOf(active)
           after == remove_order(before, active)
<1> USE DEF TotalsInv
<1>1. /\ call = NoCall
      /\ key \in DOMAIN active_orders
      /\ active.instrument \in DOMAIN books
  BY DEF Cancel, cancel_verdict, Ok
<1>2. CASE ~ Holds(before, active, key)
  BY <1>2 DEF Cancel
<1>3. CASE Holds(before, active, key)
  <2>1. books' = Stored(books, active.instrument, active.direction, after)
    BY <1>3 DEF Cancel, Stored
  <2>2. /\ active.direction \in Side
        /\ next_sequence \in Nat /\ GoodBooks(books, next_sequence)
        /\ GoodLevels(before, active.direction, next_sequence)
    BY <1>1, ActiveFacts
  <2>3. RightTotals(before)
    BY <1>1, <2>2 DEF BooksRight, LevelsOf
  <2>4. RightTotals(after)
    BY <1>3, <2>2, <2>3, RemoveOrderTotals
  <2> HIDE DEF active, before, after
  <2> QED BY <1>1, <2>1, <2>2, <2>4, StoreSideRight
<1> QED BY <1>2, <1>3

-----------------------------------------------------------------------------
(* The theorems.                                                           *)

\* A new engine satisfies the invariant.
LEMMA InitTotalsInv == Init => TotalsInv
<1> SUFFICES ASSUME Init PROVE TotalsInv
  OBVIOUS
<1>1. DOMAIN books = {} /\ call = NoCall
  BY DEF Init, EmptyMap
<1> QED BY <1>1, InitIInv DEF TotalsInv, BooksRight, SizeConserved

\* Every step of the engine keeps the invariant.
LEMMA NextTotalsInv ==
    ASSUME TotalsInv, [Next]_vars
    PROVE  TotalsInv'
<1>1. IInv'
  BY NextIInv DEF TotalsInv
<1> SUFFICES BooksRight(books') /\ SizeConserved'
  BY <1>1 DEF TotalsInv
<1>2. CASE MatchFront
  BY <1>2, MatchFrontTotals
<1>3. CASE FinishSubmit
  <2>1. call # NoCall /\ StoreOwnLevels /\ call' = NoCall
    BY <1>3 DEF FinishSubmit, NoCall
  <2> QED BY <2>1, FinishTotals DEF SizeConserved
<1>4. CASE FinishReplace
  <2>1. call # NoCall /\ StoreOwnLevels /\ call' = NoCall
    BY <1>4 DEF FinishReplace, NoCall
  <2> QED BY <2>1, FinishTotals DEF SizeConserved
<1>5. ASSUME NEW key \in Keys, CancelRejected(key)
      PROVE  BooksRight(books') /\ SizeConserved'
  BY <1>5 DEF CancelRejected, TotalsInv, SizeConserved
<1>6. ASSUME NEW key \in Keys, Cancel(key)
      PROVE  BooksRight(books') /\ SizeConserved'
  <2>1. call' = NoCall
    BY <1>6 DEF Cancel
  <2> QED BY <1>6, <2>1, CancelTotals DEF SizeConserved
<1>7. ASSUME NEW key \in Keys, NEW instrument \in Symbols,
             SubmitRejected(key, instrument)
      PROVE  BooksRight(books') /\ SizeConserved'
  BY <1>7 DEF SubmitRejected, TotalsInv, SizeConserved
<1>8. ASSUME NEW key \in Keys, NEW instrument \in Symbols,
             NEW direction \in Side, NEW pricing \in Pricing,
             NEW size \in Quantity,
             SubmitBegin(key, instrument, direction, pricing, size)
      PROVE  BooksRight(books') /\ SizeConserved'
  BY <1>8, SubmitBeginTotals
<1>9. ASSUME NEW key \in Keys, NEW pricing \in Pricing,
             UpdateRejected(key, pricing)
      PROVE  BooksRight(books') /\ SizeConserved'
  BY <1>9 DEF UpdateRejected, TotalsInv, SizeConserved
<1>10. ASSUME NEW key \in Keys, NEW pricing \in Price, NEW size \in Quantity,
              UpdateReduce(key, pricing, size)
       PROVE  BooksRight(books') /\ SizeConserved'
  <2>1. call' = NoCall
    BY <1>10 DEF UpdateReduce
  <2> QED BY <1>10, <2>1, UpdateReduceTotals DEF SizeConserved
<1>11. ASSUME NEW key \in Keys, NEW pricing \in Price, NEW size \in Quantity,
              ReplaceBegin(key, pricing, size)
       PROVE  BooksRight(books') /\ SizeConserved'
  BY <1>11, ReplaceBeginTotals
<1>12. CASE UNCHANGED vars
  BY <1>12 DEF vars, TotalsInv, SizeConserved
<1> QED
  BY <1>2, <1>3, <1>4, <1>5, <1>6, <1>7, <1>8, <1>9, <1>10, <1>11, <1>12
     DEF Next

\* The invariant of the totals holds in every reachable state.
THEOREM TotalsInductive == Spec => []TotalsInv
BY InitTotalsInv, NextTotalsInv, PTL DEF Spec

\* The total that a level keeps by += and -= in five functions is, modulo
\* 2^64, the sum of the open sizes of the orders in its list, whatever was
\* submitted, traded, reduced, replaced and cancelled before.
THEOREM TotalsAreSums == Spec => []LevelTotals
<1>1. TotalsInv => LevelTotals
  BY DEF TotalsInv, BooksRight, RightTotals, LevelTotals
<1> QED BY <1>1, TotalsInductive, PTL

\* While match_order runs, what its trades have executed and what is still
\* open add up to the size that was ordered, without loss or wrap-around.
THEOREM NothingLostInMatching == Spec => []SizeConserved
<1>1. TotalsInv => SizeConserved
  BY DEF TotalsInv
<1> QED BY <1>1, TotalsInductive, PTL

-----------------------------------------------------------------------------
(* What a reader of the events knows.                                      *)

Views == [Symbols -> [Side -> top_of_book_state]]

\* What a reader knows after one more event.
Told(known, e) ==
    IF e.type # "book_updated" THEN known
    ELSE [known EXCEPT ![e.instrument][e.direction] =
             [best_price |-> e.best_price, total_size |-> e.total_size]]

\* f[k] is what a reader of the first k events knows.
Follows(f, tops, stream) ==
    /\ f[0] = tops
    /\ \A k \in 1 .. Len(stream) : f[k] = Told(f[k - 1], stream[k])

\* An event tells of one side of one book at most.
LEMMA ToldType ==
    ASSUME NEW known \in Views, NEW e \in event
    PROVE  Told(known, e) \in Views
<1>1. CASE e.type # "book_updated"
  BY <1>1 DEF Told
<1>2. CASE e.type = "book_updated"
  <2> DEFINE top == [best_price |-> e.best_price, total_size |-> e.total_size]
  <2>1. /\ e.instrument \in Symbols /\ e.direction \in Side
        /\ e.best_price \in Price \cup {NoPrice} /\ e.total_size \in Size
    BY <1>2 DEF event
  <2>2. top \in top_of_book_state
    BY <2>1 DEF top_of_book_state
  <2>3. Told(known, e) = [known EXCEPT ![e.instrument][e.direction] = top]
    BY <1>2 DEF Told
  <2> HIDE DEF top
  <2> QED BY <2>1, <2>2, <2>3 DEF Views
<1> QED BY <1>1, <1>2

\* There is one way to follow a stream.
LEMMA FollowsOnce ==
    ASSUME NEW stream \in Seq(event), NEW tops, NEW f, NEW g,
           Follows(f, tops, stream), Follows(g, tops, stream)
    PROVE  \A k \in 0 .. Len(stream) : f[k] = g[k]
<1> DEFINE T == {k \in 0 .. Len(stream) : f[k] # g[k]}
<1>1. SUFFICES ASSUME T # {} PROVE FALSE
  BY <1>1
<1>2. PICK k \in T : \A y \in T : ~ (y < k)
  <2>1. T \subseteq Nat
    OBVIOUS
  <2> HIDE DEF T
  <2> QED BY <1>1, <2>1, LowestExists
<1>3. k \in 0 .. Len(stream) /\ f[k] # g[k]
  BY <1>2
<1>4. k # 0
  BY <1>3 DEF Follows
<1>5. k \in 1 .. Len(stream) /\ k - 1 \in 0 .. Len(stream) /\ k - 1 < k
  BY <1>3, <1>4
<1>6. k - 1 \notin T
  BY <1>2, <1>5
<1>7. f[k - 1] = g[k - 1]
  BY <1>5, <1>6
<1> QED BY <1>3, <1>5, <1>7 DEF Follows

\* Apply, which the view is kept by, is what a reader knows in the end.
LEMMA ApplyIs ==
    ASSUME NEW tops \in Views, NEW stream \in Seq(event)
    PROVE  /\ Apply(tops, stream) \in Views
           /\ \E f : /\ Follows(f, tops, stream)
                     /\ Apply(tops, stream) = f[Len(stream)]
<1> DEFINE n == Len(stream)
           P(iter) ==
             iter = [S \in SUBSET (1 .. n) |->
                       IF S = {} THEN tops
                       ELSE Told(iter[S \ {Max(S)}], stream[Max(S)])]
           fold == CHOOSE iter : P(iter)
<1>1. /\ DOMAIN stream = 1 .. n /\ n \in Nat
      /\ \A i \in 1 .. n : stream[i] \in event
  BY ElementOfSeq
<1>2. Apply(tops, stream) = fold[1 .. n]
  <2>1. Apply(tops, stream) =
           (CHOOSE iter :
              iter = [S \in SUBSET DOMAIN stream |->
                        IF S = {} THEN tops
                        ELSE Told(iter[S \ {Max(S)}], stream[Max(S)])]
           )[DOMAIN stream]
    BY DEF Apply, FoldLeft, MapThenFoldSet, Told
  <2> QED BY <1>1, <2>1
<1> HIDE DEF n
<1> DEFINE step == [i \in 1 .. n |-> [v \in Views |-> Told(v, stream[i])]]
<1>3. \E iter : P(iter)
  <2>1. step \in [1 .. n -> [Views -> Views]]
    BY <1>1, ToldType
  <2>2. PICK iter \in [SUBSET (1 .. n) -> Views] : Folds(iter, step, tops, n)
    <3>1. n \in Nat
      BY <1>1
    <3> HIDE DEF step
    <3> QED BY <2>1, <3>1, FoldExists
  <2>3. ASSUME NEW S \in SUBSET (1 .. n)
        PROVE  (IF S = {} THEN tops ELSE step[Max(S)][iter[S \ {Max(S)}]]) =
               (IF S = {} THEN tops
                ELSE Told(iter[S \ {Max(S)}], stream[Max(S)]))
    <3>1. CASE S # {}
      <4>1. Max(S) \in 1 .. n
        BY <1>1, <3>1, MaxOfIndices
      <4>2. iter[S \ {Max(S)}] \in Views
        <5>1. S \ {Max(S)} \in SUBSET (1 .. n)
          OBVIOUS
        <5> QED BY <2>2, <5>1
      <4>3. step[Max(S)][iter[S \ {Max(S)}]]
               = Told(iter[S \ {Max(S)}], stream[Max(S)])
        BY <4>1, <4>2
      <4> HIDE DEF step
      <4> QED BY <4>3
    <3> QED BY <3>1
  <2> HIDE DEF step
  <2>4. P(iter)
    BY <2>2, <2>3 DEF Folds
  <2> QED BY <2>4
<1>4. P(fold)
  <2> HIDE DEF P
  <2> QED BY <1>3
<1> HIDE DEF fold
<1> DEFINE f == [k \in 0 .. n |-> fold[1 .. k]]
<1>5. f[0] = tops
  <2>1. 1 .. 0 = {} /\ 0 \in 0 .. n /\ {} \in SUBSET (1 .. n)
    BY <1>1
  <2>2. fold[{}] = tops
    BY <1>4, <2>1
  <2> QED BY <2>1, <2>2
<1>6. ASSUME NEW k \in 1 .. n
      PROVE  f[k] = Told(f[k - 1], stream[k])
  <2>1. /\ 1 .. k \in SUBSET (1 .. n) /\ 1 .. k # {}
        /\ Max(1 .. k) = k /\ (1 .. k) \ {k} = 1 .. k - 1
    BY <1>1, PrefixFacts
  <2>2. fold[1 .. k] = Told(fold[1 .. k - 1], stream[k])
    BY <1>4, <2>1
  <2>3. k \in 0 .. n /\ k - 1 \in 0 .. n
    BY <1>1
  <2> QED BY <2>2, <2>3
<1>7. f[n] = fold[1 .. n]
  BY <1>1
<1> HIDE DEF f
<1>8. \A k \in 0 .. n : f[k] \in Views
  <2>1. ASSUME NEW k \in 1 .. n, f[k - 1] \in Views
        PROVE  f[k] \in Views
    BY <1>1, <1>6, <2>1, ToldType
  <2>2. n \in Nat /\ f[0] \in Views
    BY <1>1, <1>5
  <2> QED BY <2>1, <2>2, AllAlong
<1>9. Follows(f, tops, stream)
  BY <1>5, <1>6 DEF Follows, n
<1>10. n \in 0 .. n
  BY <1>1
<1> QED BY <1>2, <1>7, <1>8, <1>9, <1>10 DEF n

\* The events of a stream that tell of no book.
Silent(stream) ==
    \A i \in 1 .. Len(stream) : stream[i].type # "book_updated"

\* They leave a reader with what was known.
LEMMA ApplySilent ==
    ASSUME NEW tops \in Views, NEW stream \in Seq(event), Silent(stream)
    PROVE  Apply(tops, stream) = tops
<1>1. PICK f : Follows(f, tops, stream) /\ Apply(tops, stream) = f[Len(stream)]
  BY ApplyIs
<1> DEFINE g == [k \in 0 .. Len(stream) |-> tops]
<1>2. Follows(g, tops, stream)
  <2>1. Len(stream) \in Nat
    OBVIOUS
  <2>2. g[0] = tops
    BY <2>1
  <2>3. ASSUME NEW k \in 1 .. Len(stream)
        PROVE  g[k] = Told(g[k - 1], stream[k])
    <3>1. k \in 0 .. Len(stream) /\ k - 1 \in 0 .. Len(stream)
      BY <2>1
    <3>2. g[k] = tops /\ g[k - 1] = tops
      BY <3>1
    <3>3. stream[k].type # "book_updated"
      BY DEF Silent
    <3> HIDE DEF g
    <3> QED BY <3>2, <3>3 DEF Told
  <2> HIDE DEF g
  <2> QED BY <2>2, <2>3 DEF Follows
<1>3. Len(stream) \in 0 .. Len(stream)
  OBVIOUS
<1>4. g[Len(stream)] = tops
  BY <1>3
<1> HIDE DEF g
<1>5. f[Len(stream)] = g[Len(stream)]
  BY <1>1, <1>2, <1>3, FollowsOnce
<1> QED BY <1>1, <1>4, <1>5

\* One more event is told last.
LEMMA ApplyOne ==
    ASSUME NEW tops \in Views, NEW a \in Seq(event), NEW e \in event
    PROVE  Apply(tops, a \o <<e>>) = Told(Apply(tops, a), e)
<1> DEFINE b == a \o <<e>>
<1>1. /\ b \in Seq(event) /\ Len(b) = Len(a) + 1 /\ Len(a) \in Nat
      /\ b[Len(b)] = e
      /\ \A k \in 1 .. Len(a) : b[k] = a[k]
  OBVIOUS
<1> HIDE DEF b
<1>2. PICK f : Follows(f, tops, b) /\ Apply(tops, b) = f[Len(b)]
  BY <1>1, ApplyIs
<1>3. PICK g : Follows(g, tops, a) /\ Apply(tops, a) = g[Len(a)]
  BY ApplyIs
<1>4. Follows(f, tops, a)
  <2>1. \A k \in 1 .. Len(a) : k \in 1 .. Len(b)
    BY <1>1
  <2> QED BY <1>1, <1>2, <2>1 DEF Follows
<1>5. f[Len(a)] = g[Len(a)]
  BY <1>1, <1>3, <1>4, FollowsOnce
<1>6. f[Len(b)] = Told(f[Len(a)], e)
  <2>1. Len(b) \in 1 .. Len(b) /\ Len(b) - 1 = Len(a)
    BY <1>1
  <2> QED BY <1>1, <1>2, <2>1 DEF Follows
<1> QED BY <1>2, <1>3, <1>5, <1>6 DEF b

\* v knows what w knows, except of one side of one book, where it knows top.
Retold(v, w, i, d, top) ==
    \A s \in Symbols, e \in Side :
        v[s][e] = IF s = i /\ e = d THEN top ELSE w[s][e]

\* append_book_update_if_changed (order_book.cpp:561) tells a reader who knew
\* the top before what the top is now, and nothing else.
LEMMA ApplyUpdate ==
    ASSUME NEW tops \in Views, NEW a \in Seq(event), NEW i \in Symbols,
           NEW d \in Side, NEW before, NEW after \in top_of_book_state,
           Apply(tops, a)[i][d] = before,
           NEW b, b = a \o book_update_if_changed(i, d, before, after)
    PROVE  /\ b \in Seq(event)
           /\ Apply(tops, b) \in Views
           /\ Retold(Apply(tops, b), Apply(tops, a), i, d, after)
<1>1. b \in Seq(event)
  <2>1. book_update_if_changed(i, d, before, after) \in Seq(event)
    BY BookUpdateType
  <2> QED BY <2>1
<1>2. Apply(tops, b) \in Views /\ Apply(tops, a) \in Views
  BY <1>1, ApplyIs
<1>3. CASE before = after
  <2>1. b = a
    BY <1>3 DEF book_update_if_changed
  <2> QED BY <1>1, <1>2, <1>3, <2>1 DEF Retold
<1>4. CASE before # after
  <2> DEFINE e == book_updated(i, d, after)
             known == Apply(tops, a)
  <2>1. b = a \o <<e>>
    BY <1>4 DEF book_update_if_changed
  <2>2. /\ e.type = "book_updated" /\ e.instrument = i /\ e.direction = d
        /\ e.best_price = after.best_price /\ e.total_size = after.total_size
    BY DEF book_updated
  <2>3. e \in event
    BY DEF book_updated, event, top_of_book_state
  <2>4. [best_price |-> e.best_price, total_size |-> e.total_size] = after
    BY <2>2 DEF top_of_book_state
  <2> HIDE DEF e
  <2>5. Apply(tops, b) = Told(known, e)
    BY <2>1, <2>3, ApplyOne
  <2>6. Told(known, e) = [known EXCEPT ![i][d] = after]
    BY <2>2, <2>4 DEF Told
  <2>7. known \in Views
    BY <1>2
  <2> HIDE DEF known
  <2>8. \A s \in Symbols, x \in Side :
           [known EXCEPT ![i][d] = after][s][x] =
              IF s = i /\ x = d THEN after ELSE known[s][x]
    BY <2>7 DEF Views
  <2> QED BY <1>1, <1>2, <2>5, <2>6, <2>8 DEF known, Retold
<1> QED BY <1>3, <1>4

-----------------------------------------------------------------------------
(* The invariant of the view.                                              *)

\* The book of a symbol among the books b, as BookOf finds it.
BookIn(b, s) ==
    IF s \in DOMAIN b THEN b[s] ELSE [direction \in Side |-> EmptyMap]

\* What a reader of the answers so far should know: of the book a command is
\* working on, the tops before the command; of the others, the tops.
Known(b, c, s, d) ==
    IF c # NoCall /\ s = c.instrument
    THEN IF d = c.direction THEN c.own_before ELSE c.opposite_before
    ELSE top_of_book(d, BookIn(b, s)[d])

KnowsAll(v, b, c) ==
    \A s \in Symbols, d \in Side : v[s][d] = Known(b, c, s, d)

ViewInv ==
    /\ IInv
    /\ view \in Views
    /\ call # NoCall => Silent(events)
    /\ KnowsAll(view, books, call)

\* The effect of books[s][d] = x on the books that BookOf finds.
LEMMA BookInStored ==
    ASSUME NEW b, NEW n, GoodBooks(b, n),
           NEW s \in DOMAIN b, NEW d \in Side, NEW x
    PROVE  \A t \in Symbols, e \in Side :
              BookIn(Stored(b, s, d, x), t)[e] =
                 IF t = s /\ e = d THEN x ELSE BookIn(b, t)[e]
<1> DEFINE new == Stored(b, s, d, x)
<1>1. /\ DOMAIN new = DOMAIN b
      /\ IsMap(new, Symbols)
      /\ \A t \in DOMAIN b :
            /\ DOMAIN new[t] = Side
            /\ new[t] = [e \in Side |-> new[t][e]]
            /\ \A e \in Side :
                  new[t][e] = IF t = s /\ e = d THEN x ELSE b[t][e]
  BY StoreSide
<1> HIDE DEF new
<1>2. \A t \in Symbols, e \in Side :
         BookIn(new, t)[e] = IF t = s /\ e = d THEN x ELSE BookIn(b, t)[e]
  BY <1>1 DEF BookIn
<1> QED BY <1>2 DEF new

\* An answer without book updates, of a command that changes no book, leaves
\* the view right.
LEMMA QuietStep ==
    ASSUME ViewInv, call = NoCall, call' = NoCall, books' = books,
           events' \in Seq(event), Silent(events'),
           view' = Apply(view, events'), IInv'
    PROVE  ViewInv'
<1>1. view' = view
  BY ApplySilent DEF ViewInv
<1> QED BY <1>1 DEF ViewInv, KnowsAll, Known

\* So does an answer with one update, of a command that changes one side.
LEMMA OneSideStep ==
    ASSUME ViewInv, call = NoCall, call' = NoCall, IInv',
           NEW i \in DOMAIN books, NEW d \in Side, NEW after,
           NEW n, GoodLevels(after, d, n),
           books' = Stored(books, i, d, after),
           NEW e \in event, e.type # "book_updated",
           events' = <<e>> \o book_update_if_changed(i, d,
                        top_of_book(d, books[i][d]), top_of_book(d, after)),
           view' = Apply(view, events')
    PROVE  ViewInv'
<1>1. GoodBooks(books, next_sequence) /\ i \in Symbols
  BY DEF ViewInv, IInv, Bound, GoodBooks, IsMap
<1>2. <<e>> \in Seq(event) /\ Silent(<<e>>)
  BY DEF Silent
<1>3. Apply(view, <<e>>) = view
  BY <1>2, ApplySilent DEF ViewInv
<1>4. view[i][d] = top_of_book(d, books[i][d])
  BY <1>1 DEF ViewInv, KnowsAll, Known, BookIn
<1>5. top_of_book(d, after) \in top_of_book_state
  BY TopOfBookType
<1>6. Apply(view, events') \in Views
      /\ Retold(Apply(view, events'), view, i, d, top_of_book(d, after))
  <2> DEFINE before == top_of_book(d, books[i][d])
             now == top_of_book(d, after)
             first == <<e>>
             all == events'
  <2>1. /\ view \in Views /\ first \in Seq(event) /\ now \in top_of_book_state
        /\ Apply(view, first)[i][d] = before
        /\ all = first \o book_update_if_changed(i, d, before, now)
    BY <1>2, <1>3, <1>4, <1>5 DEF ViewInv
  <2> HIDE DEF before, now, first, all
  <2>2. /\ Apply(view, all) \in Views
        /\ Retold(Apply(view, all), Apply(view, first), i, d, now)
    BY <1>1, <2>1, ApplyUpdate
  <2> QED BY <1>3, <2>2 DEF now, first, all
<1>7. \A t \in Symbols, x \in Side :
         BookIn(books', t)[x] =
            IF t = i /\ x = d THEN after ELSE BookIn(books, t)[x]
  BY <1>1, BookInStored
<1>8. \A s \in Symbols, x \in Side :
         view[s][x] = top_of_book(x, BookIn(books, s)[x])
  BY DEF ViewInv, KnowsAll, Known
<1>9. \A s \in Symbols, x \in Side :
         view'[s][x] = top_of_book(x, BookIn(books', s)[x])
  BY <1>6, <1>7, <1>8 DEF Retold
<1> QED BY <1>6, <1>9 DEF ViewInv, KnowsAll, Known

\* What the history variable view does, by the way a step ends.
LEMMA ViewStep ==
    ASSUME HNext
    PROVE  /\ Next
           /\ call' = NoCall => view' = Apply(view, events')
           /\ call' # NoCall => view' = view
BY DEF HNext

\* A command that is begun is not NoCall.
LEMMA BegunCall ==
    ASSUME NEW c, c.kind = "submit" \/ c.kind = "replace"
    PROVE  c # NoCall
BY DEF NoCall

\* An answer of one event that is no book update.
LEMMA OneSilent ==
    ASSUME NEW e \in event, e.type # "book_updated"
    PROVE  <<e>> \in Seq(event) /\ Silent(<<e>>)
BY DEF Silent

\* SubmitBegin notes the tops that the reader knows.
LEMMA SubmitBeginView ==
    ASSUME ViewInv, HNext, IInv', NEW key \in Keys, NEW instrument \in Symbols,
           NEW direction \in Side, NEW pricing \in Pricing,
           NEW size \in Quantity,
           SubmitBegin(key, instrument, direction, pricing, size)
    PROVE  ViewInv'
<1> DEFINE book == BookOf(instrument)
           e == accepted("submit_accepted", key)
<1>1. /\ call = NoCall
      /\ books' = Put(books, instrument, book)
      /\ call'.kind = "submit"
      /\ call'.instrument = instrument /\ call'.direction = direction
      /\ call'.own_before = top_of_book(direction, book[direction])
      /\ call'.opposite_before = top_of_book(Opposite(direction),
                                             book[Opposite(direction)])
      /\ events' = <<e>>
  BY DEF SubmitBegin
<1>2. call' # NoCall /\ view' = view
  BY <1>1, BegunCall, ViewStep
<1>3. e \in event /\ e.type # "book_updated"
  BY AcceptedType DEF accepted
<1> HIDE DEF e
<1>4. Silent(events')
  BY <1>1, <1>3, OneSilent
<1>5. book = BookIn(books, instrument)
  BY DEF BookOf, BookIn
<1> HIDE DEF book
<1>6. \A s \in Symbols, d \in Side :
         view[s][d] = top_of_book(d, BookIn(books, s)[d])
  BY <1>1 DEF ViewInv, KnowsAll, Known
<1>7. \A s \in Symbols : s # instrument => BookIn(books', s) = BookIn(books, s)
  BY <1>1 DEF Put, BookIn
<1>8. \A d \in Side : d # direction => d = Opposite(direction)
  BY DEF Side, Opposite
<1>9. ASSUME NEW s \in Symbols, NEW d \in Side
      PROVE  view'[s][d] = Known(books', call', s, d)
  <2>1. CASE s # instrument
    BY <1>1, <1>2, <1>6, <1>7, <2>1 DEF Known
  <2>2. CASE s = instrument /\ d = direction
    BY <1>1, <1>2, <1>5, <1>6, <2>2 DEF Known
  <2>3. CASE s = instrument /\ d # direction
    BY <1>1, <1>2, <1>5, <1>6, <1>8, <2>3 DEF Known
  <2> QED BY <2>1, <2>2, <2>3
<1> QED BY <1>2, <1>4, <1>9 DEF ViewInv, KnowsAll

\* ReplaceBegin notes the tops that the reader knows, before it takes the
\* order out.
LEMMA ReplaceBeginView ==
    ASSUME ViewInv, HNext, IInv', NEW key \in Keys, NEW pricing \in Price,
           NEW size \in Quantity, ReplaceBegin(key, pricing, size)
    PROVE  ViewInv'
<1> DEFINE active == active_orders[key]
           own == LevelsOf(active)
           after == remove_order(own, active)
           i == active.instrument
           direction == active.direction
           e == accepted("update_accepted", key)
<1>1. /\ update_verdict(key, pricing) = Ok
      /\ call = NoCall
      /\ books' = Stored(books, i, direction, after)
      /\ call'.kind = "replace"
      /\ call'.instrument = i /\ call'.direction = direction
      /\ call'.own_before = top_of_book(direction, own)
      /\ call'.opposite_before = top_of_book(Opposite(direction),
                                             books[i][Opposite(direction)])
      /\ events' = <<e>>
  BY DEF ReplaceBegin, Stored
<1>2. key \in DOMAIN active_orders /\ i \in DOMAIN books
  BY <1>1 DEF update_verdict, Ok
<1>3. /\ i \in Symbols /\ direction \in Side
      /\ GoodBooks(books, next_sequence)
  BY <1>1, <1>2, ActiveFacts DEF ViewInv
<1>4. call' # NoCall /\ view' = view
  BY <1>1, BegunCall, ViewStep
<1>5. e \in event /\ e.type # "book_updated"
  BY AcceptedType DEF accepted
<1> HIDE DEF e
<1>6. Silent(events')
  BY <1>1, <1>5, OneSilent
<1>7. own = books[i][direction]
  BY DEF LevelsOf
<1> HIDE DEF active, own, after, i, direction
<1>8. \A t \in Symbols, d \in Side :
         BookIn(books', t)[d] =
            IF t = i /\ d = direction THEN after ELSE BookIn(books, t)[d]
  BY <1>1, <1>2, <1>3, BookInStored
<1>9. \A s \in Symbols, d \in Side :
         view[s][d] = top_of_book(d, BookIn(books, s)[d])
  BY <1>1 DEF ViewInv, KnowsAll, Known
<1>10. BookIn(books, i) = books[i]
  BY <1>2 DEF BookIn
<1>11. \A d \in Side : d # direction => d = Opposite(direction)
  BY <1>3 DEF Side, Opposite
<1>12. ASSUME NEW s \in Symbols, NEW d \in Side
       PROVE  view'[s][d] = Known(books', call', s, d)
  <2>1. CASE s # i
    BY <1>1, <1>4, <1>8, <1>9, <2>1 DEF Known
  <2>2. CASE s = i /\ d = direction
    BY <1>1, <1>4, <1>7, <1>9, <1>10, <2>2 DEF Known
  <2>3. CASE s = i /\ d # direction
    BY <1>1, <1>4, <1>9, <1>10, <1>11, <2>3 DEF Known
  <2> QED BY <2>1, <2>2, <2>3
<1> QED BY <1>4, <1>6, <1>12 DEF ViewInv, KnowsAll

\* MatchFront touches no other book, and a trade tells of no top.
LEMMA MatchFrontView ==
    ASSUME ViewInv, HNext, IInv', MatchFront
    PROVE  ViewInv'
<1> DEFINE opposite == Opposite(call.direction)
           p == begin(opposite, OppositeLevels)
           resting == Head(OppositeLevels[p].orders)
           executed == Min({call.open_size, resting.open_size})
           after == take_from_front(OppositeLevels, p, executed)
           trade == trade_executed(call.key, resting.key, call.instrument,
                                   resting.limit_price, executed)
<1>1. /\ call # NoCall
      /\ events' = Append(events, trade)
      /\ call' = [call EXCEPT
                     !.open_size = @ - executed,
                     !.filled = IF executed = resting.open_size
                                THEN @ \cup {resting.key} ELSE @]
      /\ books' = Stored(books, call.instrument, opposite, after)
  BY DEF MatchFront, match_against_level, Stored, OppositeLevels
<1>2. /\ call \in Call /\ call.instrument \in Symbols /\ opposite \in Side
      /\ call.instrument \in DOMAIN books
      /\ GoodBooks(books, call.sequence)
  BY <1>1, CallFacts DEF ViewInv
<1>3. trade.type # "book_updated"
  BY DEF trade_executed
<1> HIDE DEF opposite, p, resting, executed, after, trade
<1>4. /\ call'.kind = call.kind
      /\ call'.instrument = call.instrument
      /\ call'.direction = call.direction
      /\ call'.own_before = call.own_before
      /\ call'.opposite_before = call.opposite_before
  BY <1>1, <1>2 DEF Call
<1>5. call' # NoCall /\ view' = view
  <2>1. call.kind = "submit" \/ call.kind = "replace"
    BY <1>2 DEF Call
  <2> QED BY <1>4, <2>1, BegunCall, ViewStep
<1>6. Silent(events')
  <2>1. events \in Seq(event) /\ Silent(events)
    BY <1>1 DEF ViewInv, IInv
  <2>2. \A k \in 1 .. Len(events') :
           events'[k] = IF k <= Len(events) THEN events[k] ELSE trade
    BY <1>1, <2>1
  <2>3. Len(events) \in Nat /\ Len(events') = Len(events) + 1
    BY <1>1, <2>1
  <2>4. ASSUME NEW k \in 1 .. Len(events')
        PROVE  events'[k].type # "book_updated"
    BY <1>3, <2>1, <2>2, <2>3 DEF Silent
  <2> QED BY <2>4 DEF Silent
<1>7. \A t \in Symbols, d \in Side :
         BookIn(books', t)[d] =
            IF t = call.instrument /\ d = opposite
            THEN after ELSE BookIn(books, t)[d]
  BY <1>1, <1>2, BookInStored
<1>8. ASSUME NEW s \in Symbols, NEW d \in Side
      PROVE  view'[s][d] = Known(books', call', s, d)
  <2>1. view'[s][d] = Known(books, call, s, d)
    BY <1>5 DEF ViewInv, KnowsAll
  <2>2. CASE s # call.instrument
    BY <1>4, <1>7, <2>1, <2>2 DEF Known
  <2>3. CASE s = call.instrument
    BY <1>1, <1>4, <1>5, <2>1, <2>3 DEF Known
  <2> QED BY <2>2, <2>3
<1> QED BY <1>5, <1>6, <1>8 DEF ViewInv, KnowsAll

\* v knows what w knows, except of one book, where it knows top1 and top2.
RetoldBoth(v, w, i, d1, top1, top2) ==
    \A s \in Symbols, d \in Side :
        v[s][d] = IF s = i THEN IF d = d1 THEN top1 ELSE top2 ELSE w[s][d]

\* Two updates, in either order, tell the reader both tops of the book the
\* command worked on.
LEMMA TwoSidesTold ==
    ASSUME NEW tops \in Views, NEW a \in Seq(event), Silent(a),
           NEW i \in Symbols, NEW d1 \in Side, NEW d2 \in Side, d1 # d2,
           NEW before1, NEW before2,
           NEW after1 \in top_of_book_state, NEW after2 \in top_of_book_state,
           tops[i][d1] = before1, tops[i][d2] = before2,
           NEW b, b = a \o book_update_if_changed(i, d1, before1, after1),
           NEW c, c = b \o book_update_if_changed(i, d2, before2, after2)
    PROVE  /\ Apply(tops, c) \in Views
           /\ RetoldBoth(Apply(tops, c), tops, i, d1, after1, after2)
<1>1. Apply(tops, a) = tops
  BY ApplySilent
<1>2. b \in Seq(event) /\ Apply(tops, b) \in Views
      /\ Retold(Apply(tops, b), tops, i, d1, after1)
  <2>1. Apply(tops, a)[i][d1] = before1
    BY <1>1
  <2>2. b \in Seq(event) /\ Apply(tops, b) \in Views
        /\ Retold(Apply(tops, b), Apply(tops, a), i, d1, after1)
    BY <2>1, ApplyUpdate
  <2> QED BY <1>1, <2>2
<1>3. Apply(tops, b)[i][d2] = before2
  BY <1>2 DEF Retold
<1>4. Apply(tops, c) \in Views
      /\ Retold(Apply(tops, c), Apply(tops, b), i, d2, after2)
  BY <1>2, <1>3, ApplyUpdate
<1>5. \A d \in Side : d = d1 \/ d = d2
  BY DEF Side
<1> QED BY <1>2, <1>4, <1>5 DEF Retold, RetoldBoth

\* The end of a submit or of a replacement tells of both tops.
LEMMA FinishView ==
    ASSUME ViewInv, HNext, IInv', call # NoCall, call' = NoCall,
           StoreOwnLevels,
           \/ events' = events \o OwnUpdate \o OppositeUpdate
           \/ events' = events \o OppositeUpdate \o OwnUpdate
    PROVE  ViewInv'
<1> DEFINE i == call.instrument
           own == call.direction
           opposite == Opposite(call.direction)
           ownTop == top_of_book(own, OwnLevelsAfter)
           oppositeTop == top_of_book(opposite, OppositeLevels)
<1>1. /\ call \in Call /\ i \in Symbols /\ own \in Side /\ opposite \in Side
      /\ i \in DOMAIN books
      /\ GoodBooks(books, call.sequence)
      /\ GoodLevels(OppositeLevels, opposite, call.sequence)
  BY CallFacts DEF ViewInv
<1>2. /\ own # opposite
      /\ \A d \in Side : d = own \/ d = opposite
  BY <1>1 DEF Side, Opposite
<1>3. books' = Stored(books, i, own, OwnLevelsAfter)
  BY DEF StoreOwnLevels, Stored
<1>4. \A t \in Symbols, d \in Side :
         BookIn(books', t)[d] =
            IF t = i /\ d = own THEN OwnLevelsAfter ELSE BookIn(books, t)[d]
  BY <1>1, <1>3, BookInStored
<1>5. BookIn(books, i)[opposite] = OppositeLevels
  BY <1>1 DEF BookIn, OppositeLevels
<1>6. ownTop \in top_of_book_state
  <2>1. \E n : GoodBooks(books', n)
    BY DEF IInv
  <2>2. PICK n : GoodBooks(books', n)
    BY <2>1
  <2>3. i \in DOMAIN books'
    BY <1>1, <1>3, StoreSide
  <2>4. GoodLevels(books'[i][own], own, n)
    BY <1>1, <2>2, <2>3 DEF GoodBooks
  <2>5. books'[i][own] = OwnLevelsAfter
    BY <1>1, <1>4, <2>3 DEF BookIn
  <2> QED BY <2>4, <2>5, TopOfBookType
<1>7. oppositeTop \in top_of_book_state
  BY <1>1, TopOfBookType
<1>8. /\ view[i][own] = call.own_before
      /\ view[i][opposite] = call.opposite_before
      /\ \A s \in Symbols, d \in Side :
            s # i => view[s][d] = top_of_book(d, BookIn(books, s)[d])
  BY <1>1, <1>2 DEF ViewInv, KnowsAll, Known
<1>9. /\ OwnUpdate = book_update_if_changed(i, own, call.own_before, ownTop)
      /\ OppositeUpdate = book_update_if_changed(i, opposite,
                             call.opposite_before, oppositeTop)
  BY DEF OwnUpdate, OppositeUpdate
<1>10. view \in Views /\ events \in Seq(event) /\ Silent(events)
  BY DEF ViewInv, IInv
<1>11. view' = Apply(view, events')
  BY ViewStep
<1> DEFINE all == events'
           afterOwn == events \o OwnUpdate
           afterOpposite == events \o OppositeUpdate
<1> HIDE DEF i, own, opposite, ownTop, oppositeTop, all
<1>12. /\ Apply(view, all) \in Views
       /\ RetoldBoth(Apply(view, all), view, i, own, ownTop, oppositeTop)
  <2>1. CASE all = afterOwn \o OppositeUpdate
    <3>1. afterOwn = events \o book_update_if_changed(i, own,
                                  call.own_before, ownTop)
      BY <1>9
    <3>2. all = afterOwn \o book_update_if_changed(i, opposite,
                               call.opposite_before, oppositeTop)
      BY <1>9, <2>1
    <3> HIDE DEF afterOwn
    <3>3. own # opposite /\ view[i][own] = call.own_before
          /\ view[i][opposite] = call.opposite_before
      BY <1>2, <1>8
    <3> QED BY <1>1, <1>6, <1>7, <1>10, <3>1, <3>2, <3>3, TwoSidesTold
  <2>2. CASE all = afterOpposite \o OwnUpdate
    <3>1. afterOpposite = events \o book_update_if_changed(i, opposite,
                                       call.opposite_before, oppositeTop)
      BY <1>9
    <3>2. all = afterOpposite \o book_update_if_changed(i, own,
                                    call.own_before, ownTop)
      BY <1>9, <2>2
    <3> HIDE DEF afterOpposite
    <3>3. opposite # own /\ view[i][opposite] = call.opposite_before
          /\ view[i][own] = call.own_before
      BY <1>2, <1>8
    <3>4. /\ Apply(view, all) \in Views
          /\ RetoldBoth(Apply(view, all), view, i, opposite, oppositeTop,
                        ownTop)
      BY <1>1, <1>6, <1>7, <1>10, <3>1, <3>2, <3>3, TwoSidesTold
    <3> QED BY <1>2, <3>4 DEF RetoldBoth
  <2>3. \/ all = afterOwn \o OppositeUpdate
        \/ all = afterOpposite \o OwnUpdate
    BY DEF all
  <2> QED BY <2>1, <2>2, <2>3
<1>13. ASSUME NEW s \in Symbols, NEW d \in Side
       PROVE  view'[s][d] = top_of_book(d, BookIn(books', s)[d])
  <2>1. view'[s][d] = IF s = i THEN IF d = own THEN ownTop ELSE oppositeTop
                      ELSE view[s][d]
    BY <1>11, <1>12 DEF all, RetoldBoth
  <2>2. CASE s # i
    BY <1>4, <1>8, <2>1, <2>2
  <2>3. CASE s = i /\ d = own
    BY <1>4, <2>1, <2>3 DEF ownTop
  <2>4. CASE s = i /\ d # own
    BY <1>2, <1>4, <1>5, <2>1, <2>4 DEF oppositeTop
  <2> QED BY <2>2, <2>3, <2>4
<1> QED BY <1>11, <1>12, <1>13 DEF ViewInv, KnowsAll, Known, all

\* Cancel tells of the top of the side it takes the order from.
LEMMA CancelView ==
    ASSUME ViewInv, HNext, IInv', NEW key \in Keys, Cancel(key)
    PROVE  ViewInv'
<1> DEFINE active == active_orders[key]
           before == LevelsOf(active)
           after == remove_order(before, active)
           i == active.instrument
           d == active.direction
           e == accepted("order_cancelled", key)
<1>1. /\ call = NoCall /\ call' = NoCall
      /\ key \in DOMAIN active_orders /\ i \in DOMAIN books
  BY DEF Cancel, cancel_verdict, Ok
<1>2. view' = Apply(view, events')
  BY <1>1, ViewStep
<1>3. CASE ~ Holds(before, active, key)
  <2>1. books' = books /\ events' = <<>>
    BY <1>3 DEF Cancel
  <2>2. events' \in Seq(event) /\ Silent(events')
    BY <2>1 DEF Silent
  <2> QED BY <1>1, <1>2, <2>1, <2>2, QuietStep
<1>4. CASE Holds(before, active, key)
  <2>1. /\ books' = Stored(books, i, d, after)
        /\ events' = <<e>> \o book_update_if_changed(i, d,
                        top_of_book(d, before), top_of_book(d, after))
    BY <1>4 DEF Cancel, Stored
  <2>2. /\ d \in Side /\ next_sequence \in Nat
        /\ GoodLevels(before, d, next_sequence)
    BY <1>1, ActiveFacts DEF ViewInv
  <2>3. GoodLevels(after, d, next_sequence)
    BY <1>4, <2>2, RemoveOrderGood
  <2>4. e \in event /\ e.type # "book_updated"
    BY AcceptedType DEF accepted
  <2>5. before = books[i][d]
    BY DEF LevelsOf
  <2> HIDE DEF active, before, after, i, d, e
  <2> QED BY <1>1, <1>2, <2>1, <2>2, <2>3, <2>4, <2>5, OneSideStep
<1> QED BY <1>3, <1>4

\* UpdateReduce tells of the top of the side it makes an order smaller on.
LEMMA UpdateReduceView ==
    ASSUME ViewInv, HNext, IInv', NEW key \in Keys, NEW pricing \in Price,
           NEW size \in Quantity, UpdateReduce(key, pricing, size)
    PROVE  ViewInv'
<1> DEFINE active == active_orders[key]
           before == LevelsOf(active)
           after == reduce_order_size(before, active, size)
           i == active.instrument
           d == active.direction
           e == accepted("update_accepted", key)
<1>1. /\ update_verdict(key, pricing) = Ok
      /\ call = NoCall /\ call' = NoCall
      /\ books' = Stored(books, i, d, after)
      /\ events' = <<e>> \o book_update_if_changed(i, d,
                      top_of_book(d, before), top_of_book(d, after))
  BY DEF UpdateReduce, Stored
<1>2. /\ key \in DOMAIN active_orders /\ i \in DOMAIN books
      /\ Holds(before, active, key)
  BY <1>1 DEF update_verdict, Ok
<1>3. view' = Apply(view, events')
  BY <1>1, ViewStep
<1>4. /\ d \in Side /\ next_sequence \in Nat
      /\ GoodLevels(before, d, next_sequence)
  BY <1>1, <1>2, ActiveFacts DEF ViewInv
<1>5. GoodLevels(after, d, next_sequence)
  BY <1>2, <1>4, ReduceOrderGood
<1>6. e \in event /\ e.type # "book_updated"
  BY AcceptedType DEF accepted
<1>7. before = books[i][d]
  BY DEF LevelsOf
<1> HIDE DEF active, before, after, i, d, e
<1> QED BY <1>1, <1>2, <1>3, <1>4, <1>5, <1>6, <1>7, OneSideStep

\* An answer that rejects changes no book and tells of none.
LEMMA RejectionView ==
    ASSUME ViewInv, HNext, IInv', call = NoCall, UNCHANGED <<books, call>>,
           NEW type \in {"submit_rejected", "update_rejected",
                         "cancel_rejected"},
           NEW key, NEW reason, events' = <<rejected(type, key, reason)>>
    PROVE  ViewInv'
<1>1. events' \in Seq(event)
  BY DEF IInv
<1>2. Silent(events')
  BY DEF Silent, rejected
<1>3. view' = Apply(view, events')
  BY ViewStep
<1> QED BY <1>1, <1>2, <1>3, QuietStep

\* The view of a new engine is right.
LEMMA InitViewInv == HInit => ViewInv
<1> SUFFICES ASSUME HInit PROVE ViewInv
  OBVIOUS
<1>1. /\ Init /\ call = NoCall /\ DOMAIN books = {}
      /\ view = [instrument \in Symbols |-> [direction \in Side |-> NoTop]]
  BY DEF HInit, Init, EmptyMap
<1>2. IInv
  BY <1>1, InitIInv
<1>3. NoTop \in top_of_book_state
  BY SizeModulusAssumption DEF NoTop, NoPrice, top_of_book_state, Size
<1>4. view \in Views
  BY <1>1, <1>3 DEF Views
<1>5. \A s \in Symbols, d \in Side :
         view[s][d] = top_of_book(d, BookIn(books, s)[d])
  <2>1. DOMAIN EmptyMap = {}
    BY DEF EmptyMap
  <2> QED BY <1>1, <2>1 DEF BookIn, top_of_book
<1> QED BY <1>1, <1>2, <1>4, <1>5 DEF ViewInv, KnowsAll, Known

\* Every step of the engine, and of the reader with it, keeps the invariant.
LEMMA NextViewInv ==
    ASSUME ViewInv, [HNext]_hvars
    PROVE  ViewInv'
<1>1. CASE UNCHANGED hvars
  BY <1>1 DEF hvars, vars, ViewInv, IInv, Bound, KnowsAll, Known
<1>2. CASE HNext
  <2> USE <1>2
  <2>1. Next
    BY ViewStep
  <2>2. IInv'
    BY <2>1, NextIInv DEF ViewInv
  <2>3. CASE MatchFront
    BY <2>2, <2>3, MatchFrontView
  <2>4. CASE FinishSubmit
    <3>1. /\ call # NoCall /\ StoreOwnLevels /\ call' = NoCall
          /\ \/ events' = events \o OwnUpdate \o OppositeUpdate
             \/ events' = events \o OppositeUpdate \o OwnUpdate
      BY <2>4 DEF FinishSubmit, NoCall
    <3> QED BY <2>2, <3>1, FinishView
  <2>5. CASE FinishReplace
    <3>1. /\ call # NoCall /\ StoreOwnLevels /\ call' = NoCall
          /\ events' = events \o OwnUpdate \o OppositeUpdate
      BY <2>5 DEF FinishReplace, NoCall
    <3> QED BY <2>2, <3>1, FinishView
  <2>6. ASSUME NEW key \in Keys, CancelRejected(key) PROVE ViewInv'
    <3>1. /\ call = NoCall /\ UNCHANGED <<books, call>>
          /\ events' = <<rejected("cancel_rejected", key,
                                  cancel_verdict(key))>>
      BY <2>6 DEF CancelRejected
    <3> QED BY <2>2, <3>1, RejectionView
  <2>7. ASSUME NEW key \in Keys, Cancel(key) PROVE ViewInv'
    BY <2>2, <2>7, CancelView
  <2>8. ASSUME NEW key \in Keys, NEW instrument \in Symbols,
               SubmitRejected(key, instrument)
        PROVE  ViewInv'
    <3>1. /\ call = NoCall /\ UNCHANGED <<books, call>>
          /\ events' = <<rejected("submit_rejected", key,
                                  submit_verdict(key, instrument))>>
      BY <2>8 DEF SubmitRejected
    <3> QED BY <2>2, <3>1, RejectionView
  <2>9. ASSUME NEW key \in Keys, NEW instrument \in Symbols,
               NEW direction \in Side, NEW pricing \in Pricing,
               NEW size \in Quantity,
               SubmitBegin(key, instrument, direction, pricing, size)
        PROVE  ViewInv'
    BY <2>2, <2>9, SubmitBeginView
  <2>10. ASSUME NEW key \in Keys, NEW pricing \in Pricing,
                UpdateRejected(key, pricing)
         PROVE  ViewInv'
    <3>1. /\ call = NoCall /\ UNCHANGED <<books, call>>
          /\ events' = <<rejected("update_rejected", key,
                                  update_verdict(key, pricing))>>
      BY <2>10 DEF UpdateRejected
    <3> QED BY <2>2, <3>1, RejectionView
  <2>11. ASSUME NEW key \in Keys, NEW pricing \in Price,
                NEW size \in Quantity, UpdateReduce(key, pricing, size)
         PROVE  ViewInv'
    BY <2>2, <2>11, UpdateReduceView
  <2>12. ASSUME NEW key \in Keys, NEW pricing \in Price,
                NEW size \in Quantity, ReplaceBegin(key, pricing, size)
         PROVE  ViewInv'
    BY <2>2, <2>12, ReplaceBeginView
  <2> QED BY <2>1, <2>3, <2>4, <2>5, <2>6, <2>7, <2>8, <2>9, <2>10, <2>11,
             <2>12 DEF Next
<1> QED BY <1>1, <1>2

\* The invariant of the view holds in every reachable state.
THEOREM ViewInductive == HSpec => []ViewInv
BY InitViewInv, NextViewInv, PTL DEF HSpec

\* append_book_update_if_changed leaves no change of a top untold, whichever
\* of submit, update and cancel made it: a reader who applies the
\* book_updated events of every answer, and nothing else, always knows the
\* best price and its size on every side of every book.
THEOREM ReaderKnowsTop == HSpec => []ViewIsTopOfBook
<1>1. ViewInv => ViewIsTopOfBook
  BY DEF ViewInv, KnowsAll, Known, ViewIsTopOfBook, BookIn, BookOf
<1> QED BY <1>1, ViewInductive, PTL

-----------------------------------------------------------------------------
(* Sums over finite sets, as PriceTimeMatching takes them.                 *)

\* The element that is taken from a set first.
First(s) == CHOOSE x \in s : TRUE

\* The recursion of MapThenSumSet over the subsets of S, for the map g.
SetSums(iter, g, S) ==
    iter = [s \in SUBSET S |->
              IF s = {} THEN 0 ELSE g[First(s)] + iter[s \ {First(s)}]]

\* The sum of the numbers g[x] over the elements x of S.
Total(g, S) == (CHOOSE iter : SetSums(iter, g, S))[S]

\* g maps S to integers.
Numbers(g, S) == \A x \in S : g[x] \in Int

\* Subsets of a finite set, and what is left when an element is taken.
LEMMA SubsetFacts ==
    ASSUME NEW S, IsFiniteSet(S), NEW s \in SUBSET S
    PROVE  /\ IsFiniteSet(s) /\ Cardinality(s) \in Nat
           /\ Cardinality(s) = 0 <=> s = {}
           /\ \A x \in s : /\ s \ {x} \in SUBSET S
                           /\ Cardinality(s \ {x}) = Cardinality(s) - 1
           /\ s # {} => First(s) \in s
<1>1. IsFiniteSet(s)
  BY FS_Subset
<1>2. Cardinality(s) \in Nat
  BY <1>1, FS_CardinalityType
<1>3. Cardinality(s) = 0 <=> s = {}
  BY <1>1, FS_EmptySet
<1>4. ASSUME NEW x \in s
      PROVE  Cardinality(s \ {x}) = Cardinality(s) - 1
  BY <1>1, FS_RemoveElement
<1>5. s # {} => First(s) \in s
  BY DEF First
<1> QED BY <1>1, <1>2, <1>3, <1>4, <1>5

\* The sum of a finite set of numbers exists.
LEMMA SetSumExists ==
    ASSUME NEW S, IsFiniteSet(S), NEW g, Numbers(g, S)
    PROVE  \E iter \in [SUBSET S -> Int] : SetSums(iter, g, S)
<1> DEFINE UpTo(h, n) ==
             \A s \in SUBSET S :
                Cardinality(s) <= n =>
                   h[s] = IF s = {} THEN 0 ELSE g[First(s)] + h[s \ {First(s)}]
           Solved(n) == \E h \in [SUBSET S -> Int] : UpTo(h, n)
           T == {n \in Nat : ~ Solved(n)}
<1>1. ASSUME T # {} PROVE FALSE
  <2>1. PICK n \in T : \A y \in T : ~ (y < n)
    <3>1. T \subseteq Nat
      OBVIOUS
    <3> HIDE DEF T
    <3> QED BY <1>1, <3>1, LowestExists
  <2>2. n \in Nat /\ ~ Solved(n)
    BY <2>1
  <2>3. CASE n = 0
    <3> DEFINE h == [s \in SUBSET S |-> 0]
    <3>1. h \in [SUBSET S -> Int]
      OBVIOUS
    <3>2. ASSUME NEW s \in SUBSET S, Cardinality(s) <= 0
          PROVE  s = {}
      BY <3>2, SubsetFacts
    <3>3. UpTo(h, 0)
      BY <3>2
    <3> QED BY <2>2, <2>3, <3>1, <3>3
  <2>4. CASE n # 0
    <3>1. n - 1 \in Nat /\ n - 1 < n
      BY <2>2, <2>4
    <3>2. Solved(n - 1)
      BY <2>1, <3>1
    <3>3. PICK k \in [SUBSET S -> Int] : UpTo(k, n - 1)
      BY <3>2
    <3> DEFINE h == [s \in SUBSET S |->
                       IF Cardinality(s) = n /\ s # {}
                       THEN g[First(s)] + k[s \ {First(s)}] ELSE k[s]]
    <3>4. h \in [SUBSET S -> Int]
      <4>1. ASSUME NEW s \in SUBSET S, s # {}
            PROVE  g[First(s)] + k[s \ {First(s)}] \in Int
        <5>1. First(s) \in S /\ s \ {First(s)} \in SUBSET S
          BY <4>1, SubsetFacts
        <5> QED BY <5>1 DEF Numbers
      <4> QED BY <4>1
    <3>5. ASSUME NEW s \in SUBSET S, Cardinality(s) <= n
          PROVE  h[s] = IF s = {} THEN 0
                        ELSE g[First(s)] + h[s \ {First(s)}]
      <4>1. Cardinality(s) \in Nat
        BY SubsetFacts
      <4>2. CASE s = {}
        <5>1. Cardinality(s) <= n - 1
          BY <3>1, <4>2, SubsetFacts
        <5>2. h[s] = k[s]
          BY <4>2
        <5> HIDE DEF h
        <5> QED BY <3>3, <4>2, <5>1, <5>2
      <4>3. CASE s # {}
        <5> DEFINE r == s \ {First(s)}
        <5>1. r \in SUBSET S /\ Cardinality(r) = Cardinality(s) - 1
          BY <4>3, SubsetFacts
        <5>2. Cardinality(r) # n
          BY <2>2, <3>5, <4>1, <5>1
        <5>3. h[r] = k[r]
          BY <5>1, <5>2
        <5>4. CASE Cardinality(s) = n
          <6>1. h[s] = g[First(s)] + k[r]
            BY <4>3, <5>4
          <6> HIDE DEF h, r
          <6> QED BY <4>3, <5>3, <6>1 DEF r
        <5>5. CASE Cardinality(s) # n
          <6>1. h[s] = k[s]
            BY <5>5
          <6>2. Cardinality(s) <= n - 1
            BY <2>2, <3>5, <4>1, <5>5
          <6>3. k[s] = g[First(s)] + k[r]
            BY <3>3, <4>3, <6>2
          <6> HIDE DEF h, r
          <6> QED BY <4>3, <5>3, <6>1, <6>3 DEF r
        <5> QED BY <5>4, <5>5
      <4> QED BY <4>2, <4>3
    <3> HIDE DEF h
    <3>6. UpTo(h, n)
      BY <3>5
    <3> QED BY <2>2, <3>4, <3>6
  <2> QED BY <2>3, <2>4
<1>2. Cardinality(S) \in Nat
  BY FS_CardinalityType
<1>3. Solved(Cardinality(S))
  <2> HIDE DEF Solved
  <2> QED BY <1>1, <1>2
<1>4. PICK h \in [SUBSET S -> Int] : UpTo(h, Cardinality(S))
  BY <1>3
<1>5. ASSUME NEW s \in SUBSET S
      PROVE  h[s] = IF s = {} THEN 0 ELSE g[First(s)] + h[s \ {First(s)}]
  <2>1. Cardinality(s) <= Cardinality(S)
    BY FS_Subset
  <2> QED BY <1>4, <2>1
<1>6. h = [s \in SUBSET S |-> h[s]]
  OBVIOUS
<1>7. h = [s \in SUBSET S |->
              IF s = {} THEN 0 ELSE g[First(s)] + h[s \ {First(s)}]]
  BY <1>5, <1>6, Zenon
<1> QED BY <1>4, <1>7 DEF SetSums

\* A property of subsets of a finite set holds if it is passed on from what
\* is left when an element is taken: H is the set of those that have it.
LEMMA AllSubsets ==
    ASSUME NEW S, IsFiniteSet(S), NEW H, {} \in H,
           \A s \in SUBSET S :
              s # {} /\ (\A x \in s : s \ {x} \in H) => s \in H
    PROVE  SUBSET S \subseteq H
<1> DEFINE T == {Cardinality(s) : s \in (SUBSET S) \ H}
<1>1. SUFFICES ASSUME T # {} PROVE FALSE
  BY <1>1
<1>2. PICK n \in T : \A y \in T : ~ (y < n)
  <2>1. T \subseteq Nat
    BY SubsetFacts
  <2> HIDE DEF T
  <2> QED BY <1>1, <2>1, LowestExists
<1>3. PICK s \in (SUBSET S) \ H : n = Cardinality(s)
  BY <1>2
<1>4. s # {}
  BY <1>3
<1>5. ASSUME NEW x \in s
      PROVE  s \ {x} \in H
  <2> DEFINE r == s \ {x}
  <2>1. /\ r \in SUBSET S /\ Cardinality(r) = Cardinality(s) - 1
        /\ Cardinality(s) \in Nat
    BY <1>3, SubsetFacts
  <2>2. Cardinality(r) < n
    BY <1>3, <2>1
  <2>3. Cardinality(r) \notin T
    BY <1>2, <2>2
  <2> QED BY <2>1, <2>3
<1> QED BY <1>3, <1>4, <1>5

\* The sum is unique, and a number.
LEMMA TotalIs ==
    ASSUME NEW S, IsFiniteSet(S), NEW g, Numbers(g, S),
           NEW iter, SetSums(iter, g, S)
    PROVE  /\ iter[S] = Total(g, S) /\ Total(g, S) \in Int
           /\ iter \in [SUBSET S -> Int]
<1>1. PICK h \in [SUBSET S -> Int] : SetSums(h, g, S)
  BY SetSumExists
<1>2. ASSUME NEW k, SetSums(k, g, S)
      PROVE  k = h
  <2> DEFINE H == {s \in SUBSET S : k[s] = h[s]}
  <2>1. /\ k = [s \in SUBSET S |->
                  IF s = {} THEN 0 ELSE g[First(s)] + k[s \ {First(s)}]]
        /\ h = [s \in SUBSET S |->
                  IF s = {} THEN 0 ELSE g[First(s)] + h[s \ {First(s)}]]
    BY <1>1, <1>2 DEF SetSums
  <2>2. {} \in H
    BY <2>1
  <2>3. ASSUME NEW s \in SUBSET S, s # {}, \A x \in s : s \ {x} \in H
        PROVE  s \in H
    <3>1. First(s) \in s
      BY <2>3, SubsetFacts
    <3>2. s \ {First(s)} \in H
      BY <2>3, <3>1
    <3>3. k[s \ {First(s)}] = h[s \ {First(s)}]
      BY <3>2
    <3>4. k[s] = h[s]
      BY <2>1, <2>3, <3>3
    <3> QED BY <3>4
  <2>4. SUBSET S \subseteq H
    <3> HIDE DEF H
    <3> QED BY <2>2, <2>3, AllSubsets
  <2>5. \A s \in SUBSET S : k[s] = h[s]
    BY <2>4
  <2> QED BY <2>1, <2>5
<1>3. SetSums(CHOOSE k : SetSums(k, g, S), g, S)
  BY <1>1
<1>4. iter = h /\ (CHOOSE k : SetSums(k, g, S)) = h
  BY <1>2, <1>3
<1>5. Total(g, S) = h[S]
  BY <1>4 DEF Total
<1>6. S \in SUBSET S
  OBVIOUS
<1> QED BY <1>1, <1>4, <1>5, <1>6

\* The sum over a subset is found on the way.
LEMMA TotalWithin ==
    ASSUME NEW S, IsFiniteSet(S), NEW g, Numbers(g, S),
           NEW iter, SetSums(iter, g, S), NEW t \in SUBSET S
    PROVE  iter[t] = Total(g, t)
<1> DEFINE k == [s \in SUBSET t |-> iter[s]]
<1>1. ASSUME NEW s \in SUBSET t
      PROVE  k[s] = IF s = {} THEN 0 ELSE g[First(s)] + k[s \ {First(s)}]
  <2>1. s \in SUBSET S /\ s \ {First(s)} \in SUBSET t
    OBVIOUS
  <2>2. iter[s] = IF s = {} THEN 0 ELSE g[First(s)] + iter[s \ {First(s)}]
    BY <2>1 DEF SetSums
  <2> QED BY <2>1, <2>2
<1>2. k = [s \in SUBSET t |-> k[s]]
  OBVIOUS
<1> HIDE DEF k
<1>3. k = [s \in SUBSET t |->
              IF s = {} THEN 0 ELSE g[First(s)] + k[s \ {First(s)}]]
  BY <1>1, <1>2, Zenon
<1>4. SetSums(k, g, t)
  BY <1>3 DEF SetSums
<1>5. IsFiniteSet(t) /\ Numbers(g, t)
  BY FS_Subset DEF Numbers
<1>6. k[t] = Total(g, t)
  BY <1>4, <1>5, TotalIs
<1> QED BY <1>6 DEF k

\* The sum over nothing, and over one element more.
LEMMA TotalRemove ==
    ASSUME NEW S, IsFiniteSet(S), NEW g, Numbers(g, S)
    PROVE  /\ Total(g, {}) = 0
           /\ \A s \in SUBSET S :
                 /\ Total(g, s) \in Int
                 /\ \A x \in s : Total(g, s) = g[x] + Total(g, s \ {x})
<1>1. PICK iter \in [SUBSET S -> Int] : SetSums(iter, g, S)
  BY SetSumExists
<1>2. \A s \in SUBSET S : iter[s] = Total(g, s)
  BY <1>1, TotalWithin
<1>3. iter = [s \in SUBSET S |->
                IF s = {} THEN 0 ELSE g[First(s)] + iter[s \ {First(s)}]]
  BY <1>1 DEF SetSums
<1>4. Total(g, {}) = 0
  <2>1. {} \in SUBSET S
    OBVIOUS
  <2>2. iter[{}] = 0
    BY <1>3, <2>1
  <2> QED BY <1>2, <2>1, <2>2
<1> DEFINE H == {s \in SUBSET S :
                   \A x \in s : iter[s] = g[x] + iter[s \ {x}]}
<1>5. {} \in H
  OBVIOUS
<1>6. ASSUME NEW s \in SUBSET S, s # {}, \A x \in s : s \ {x} \in H
      PROVE  s \in H
  <2> DEFINE f == First(s)
  <2>1. f \in s /\ iter[s] = g[f] + iter[s \ {f}]
    <3>1. f \in s
      BY <1>6, SubsetFacts
    <3>2. s \in SUBSET S /\ s # {}
      BY <1>6
    <3> HIDE DEF H
    <3>3. iter[s] = g[First(s)] + iter[s \ {First(s)}]
      BY <1>3, <3>2
    <3> QED BY <3>1, <3>3
  <2> HIDE DEF f
  <2>2. ASSUME NEW x \in s, x # f
        PROVE  iter[s] = g[x] + iter[s \ {x}]
    <3>1. s \ {f} \in H /\ s \ {x} \in H
      BY <1>6, <2>1
    <3>2. iter[s \ {f}] = g[x] + iter[(s \ {f}) \ {x}]
      BY <2>2, <3>1
    <3>3. iter[s \ {x}] = g[f] + iter[(s \ {x}) \ {f}]
      BY <2>1, <2>2, <3>1
    <3>4. (s \ {f}) \ {x} = (s \ {x}) \ {f}
      OBVIOUS
    <3>5. g[x] \in Int /\ g[f] \in Int
      BY <2>1 DEF Numbers
    <3>6. iter[(s \ {x}) \ {f}] \in Int
      <4>1. (s \ {x}) \ {f} \in SUBSET S
        OBVIOUS
      <4> QED BY <1>1, <4>1
    <3>7. PICK i \in Int : i = iter[(s \ {x}) \ {f}]
      BY <3>6
    <3>8. iter[s \ {f}] = g[x] + i /\ iter[s \ {x}] = g[f] + i
      BY <3>2, <3>3, <3>4, <3>7
    <3>9. /\ iter[s] = g[f] + (g[x] + i)
          /\ g[x] + iter[s \ {x}] = g[x] + (g[f] + i)
      BY <2>1, <3>8
    <3> HIDE DEF H
    <3> QED BY <3>5, <3>9
  <2>3. \A x \in s : iter[s] = g[x] + iter[s \ {x}]
    BY <2>1, <2>2
  <2> QED BY <2>3
<1>7. SUBSET S \subseteq H
  <2> HIDE DEF H
  <2> QED BY <1>5, <1>6, AllSubsets
<1>8. ASSUME NEW s \in SUBSET S
      PROVE  /\ Total(g, s) \in Int
             /\ \A x \in s : Total(g, s) = g[x] + Total(g, s \ {x})
  <2>1. Total(g, s) \in Int
    BY <1>1, <1>2
  <2>2. ASSUME NEW x \in s PROVE Total(g, s) = g[x] + Total(g, s \ {x})
    <3>1. s \ {x} \in SUBSET S
      OBVIOUS
    <3>2. iter[s] = g[x] + iter[s \ {x}]
      BY <1>7
    <3>3. iter[s] = Total(g, s) /\ iter[s \ {x}] = Total(g, s \ {x})
      BY <1>2, <3>1
    <3> QED BY <3>2, <3>3
  <2> QED BY <2>1, <2>2
<1> QED BY <1>4, <1>8

\* Sums of the same numbers are the same.
LEMMA TotalSame ==
    ASSUME NEW S, IsFiniteSet(S), NEW g, NEW h, Numbers(g, S),
           \A x \in S : g[x] = h[x]
    PROVE  Total(g, S) = Total(h, S)
<1>1. PICK iter \in [SUBSET S -> Int] : SetSums(iter, g, S)
  BY SetSumExists
<1>2. ASSUME NEW s \in SUBSET S
      PROVE  iter[s] = IF s = {} THEN 0
                       ELSE h[First(s)] + iter[s \ {First(s)}]
  <2>1. iter[s] = IF s = {} THEN 0 ELSE g[First(s)] + iter[s \ {First(s)}]
    BY <1>1 DEF SetSums
  <2>2. s # {} => First(s) \in S
    BY SubsetFacts
  <2> QED BY <2>1, <2>2
<1>3. iter = [s \in SUBSET S |-> iter[s]]
  BY <1>1
<1>4. iter = [s \in SUBSET S |->
                 IF s = {} THEN 0 ELSE h[First(s)] + iter[s \ {First(s)}]]
  BY <1>2, <1>3, Zenon
<1>5. SetSums(iter, h, S) /\ Numbers(h, S)
  BY <1>4 DEF SetSums, Numbers
<1> QED BY <1>1, <1>5, TotalIs

\* A sum is the sum of its parts.
LEMMA TotalSplit ==
    ASSUME NEW S, IsFiniteSet(S), NEW g, Numbers(g, S), NEW t \in SUBSET S
    PROVE  Total(g, S) = Total(g, t) + Total(g, S \ t)
<1> DEFINE H == {s \in SUBSET S : Total(g, S) = Total(g, s) + Total(g, S \ s)}
<1>1. /\ Total(g, {}) = 0
      /\ \A s \in SUBSET S :
            /\ Total(g, s) \in Int
            /\ \A x \in s : Total(g, s) = g[x] + Total(g, s \ {x})
  BY TotalRemove
<1>2. {} \in H
  <2>1. S \ {} = S /\ S \in SUBSET S /\ {} \in SUBSET S
    OBVIOUS
  <2>2. Total(g, S) = Total(g, {}) + Total(g, S \ {})
    BY <1>1, <2>1
  <2> QED BY <2>1, <2>2
<1>3. ASSUME NEW s \in SUBSET S, s # {}, \A x \in s : s \ {x} \in H
      PROVE  s \in H
  <2>1. PICK x \in s : TRUE
    BY <1>3
  <2>2. Total(g, S) = Total(g, s \ {x}) + Total(g, S \ (s \ {x}))
    BY <1>3, <2>1
  <2>3. Total(g, s) = g[x] + Total(g, s \ {x})
    BY <1>1, <2>1
  <2>4. /\ S \ (s \ {x}) \in SUBSET S /\ x \in S \ (s \ {x})
        /\ (S \ (s \ {x})) \ {x} = S \ s
    BY <2>1
  <2>5. Total(g, S \ (s \ {x})) = g[x] + Total(g, S \ s)
    BY <1>1, <2>4
  <2>6. g[x] \in Int
    BY <2>1 DEF Numbers
  <2>7. Total(g, s \ {x}) \in Int /\ Total(g, S \ s) \in Int
    <3>1. s \ {x} \in SUBSET S /\ S \ s \in SUBSET S
      OBVIOUS
    <3> QED BY <1>1, <3>1
  <2>8. Total(g, S) = Total(g, s) + Total(g, S \ s)
    BY <2>2, <2>3, <2>5, <2>6, <2>7
  <2> QED BY <2>8
<1>4. SUBSET S \subseteq H
  <2> HIDE DEF H
  <2> QED BY <1>2, <1>3, AllSubsets
<1> QED BY <1>4

\* A sum of natural numbers is one.
LEMMA TotalNat ==
    ASSUME NEW S, IsFiniteSet(S), NEW g, \A x \in S : g[x] \in Nat
    PROVE  Total(g, S) \in Nat
<1> DEFINE H == {s \in SUBSET S : Total(g, s) \in Nat}
<1>1. Numbers(g, S)
  BY DEF Numbers
<1>2. /\ Total(g, {}) = 0
      /\ \A s \in SUBSET S :
            /\ Total(g, s) \in Int
            /\ \A x \in s : Total(g, s) = g[x] + Total(g, s \ {x})
  BY <1>1, TotalRemove
<1>3. {} \in H
  BY <1>2
<1>4. ASSUME NEW s \in SUBSET S, s # {}, \A x \in s : s \ {x} \in H
      PROVE  s \in H
  <2>1. PICK x \in s : TRUE
    BY <1>4
  <2>2. Total(g, s \ {x}) \in Nat /\ g[x] \in Nat
    BY <1>4, <2>1
  <2>3. Total(g, s) = g[x] + Total(g, s \ {x})
    BY <1>2, <2>1
  <2>4. Total(g, s) \in Nat
    BY <2>2, <2>3
  <2> QED BY <2>4
<1>5. SUBSET S \subseteq H
  <2> HIDE DEF H
  <2> QED BY <1>3, <1>4, AllSubsets
<1> QED BY <1>5

-----------------------------------------------------------------------------
(* The answer of a command, book updates left out.                         *)

\* The answer after one more event.
Heard(heard, e) == IF e.type = "book_updated" THEN heard ELSE Append(heard, e)

\* f[k] is the answer in the first k events.
Hears(f, stream) ==
    /\ f[0] = <<>>
    /\ \A k \in 1 .. Len(stream) : f[k] = Heard(f[k - 1], stream[k])

\* There is one way to hear a stream.
LEMMA HearsOnce ==
    ASSUME NEW stream \in Seq(event), NEW f, NEW g,
           Hears(f, stream), Hears(g, stream)
    PROVE  \A k \in 0 .. Len(stream) : f[k] = g[k]
<1> DEFINE T == {k \in 0 .. Len(stream) : f[k] # g[k]}
<1>1. SUFFICES ASSUME T # {} PROVE FALSE
  BY <1>1
<1>2. PICK k \in T : \A y \in T : ~ (y < k)
  <2>1. T \subseteq Nat
    OBVIOUS
  <2> HIDE DEF T
  <2> QED BY <1>1, <2>1, LowestExists
<1>3. k \in 0 .. Len(stream) /\ f[k] # g[k]
  BY <1>2
<1>4. k # 0
  BY <1>3 DEF Hears
<1>5. k \in 1 .. Len(stream) /\ k - 1 \in 0 .. Len(stream) /\ k - 1 < k
  BY <1>3, <1>4
<1>6. k - 1 \notin T
  BY <1>2, <1>5
<1>7. f[k - 1] = g[k - 1]
  BY <1>5, <1>6
<1> QED BY <1>3, <1>5, <1>7 DEF Hears

\* Response, which a client is answered by, is what is heard in the end.
LEMMA ResponseIs ==
    ASSUME NEW stream \in Seq(event)
    PROVE  \E f : Hears(f, stream) /\ Response(stream) = f[Len(stream)]
<1> DEFINE n == Len(stream)
           V == Seq(event)
           P(iter) ==
             iter = [S \in SUBSET (1 .. n) |->
                       IF S = {} THEN <<>>
                       ELSE Heard(iter[S \ {Max(S)}], stream[Max(S)])]
           fold == CHOOSE iter : P(iter)
<1>1. /\ DOMAIN stream = 1 .. n /\ n \in Nat
      /\ \A i \in 1 .. n : stream[i] \in event
  BY ElementOfSeq
<1>2. Response(stream) = fold[1 .. n]
  <2>1. Response(stream) =
           (CHOOSE iter :
              iter = [S \in SUBSET DOMAIN stream |->
                        IF S = {} THEN <<>>
                        ELSE Heard(iter[S \ {Max(S)}], stream[Max(S)])]
           )[DOMAIN stream]
    BY DEF Response, FoldLeft, MapThenFoldSet, Heard
  <2> QED BY <1>1, <2>1
<1> HIDE DEF n
<1> DEFINE step == [i \in 1 .. n |-> [v \in V |-> Heard(v, stream[i])]]
<1>3. \E iter : P(iter)
  <2>1. step \in [1 .. n -> [V -> V]]
    <3>1. ASSUME NEW i \in 1 .. n, NEW v \in V
          PROVE  Heard(v, stream[i]) \in V
      <4>1. stream[i] \in event
        BY <1>1
      <4>2. Append(v, stream[i]) \in V
        BY <4>1
      <4> QED BY <4>2 DEF Heard
    <3> HIDE DEF V
    <3> QED BY <3>1
  <2>2. PICK iter \in [SUBSET (1 .. n) -> V] : Folds(iter, step, <<>>, n)
    <3>1. n \in Nat /\ <<>> \in V
      BY <1>1
    <3> HIDE DEF step, V
    <3> QED BY <2>1, <3>1, FoldExists
  <2>3. ASSUME NEW S \in SUBSET (1 .. n)
        PROVE  (IF S = {} THEN <<>> ELSE step[Max(S)][iter[S \ {Max(S)}]]) =
               (IF S = {} THEN <<>>
                ELSE Heard(iter[S \ {Max(S)}], stream[Max(S)]))
    <3> HIDE DEF V
    <3>1. CASE S # {}
      <4>1. Max(S) \in 1 .. n
        BY <1>1, <3>1, MaxOfIndices
      <4>2. iter[S \ {Max(S)}] \in V
        <5>1. S \ {Max(S)} \in SUBSET (1 .. n)
          OBVIOUS
        <5> QED BY <2>2, <5>1
      <4>3. step[Max(S)][iter[S \ {Max(S)}]]
               = Heard(iter[S \ {Max(S)}], stream[Max(S)])
        BY <4>1, <4>2
      <4> HIDE DEF step
      <4> QED BY <4>3
    <3> QED BY <3>1
  <2> HIDE DEF step, V
  <2>4. P(iter)
    BY <2>2, <2>3 DEF Folds
  <2> QED BY <2>4
<1>4. P(fold)
  <2> HIDE DEF P
  <2> QED BY <1>3
<1> HIDE DEF fold, V
<1> DEFINE f == [k \in 0 .. n |-> fold[1 .. k]]
<1>5. f[0] = <<>>
  <2>1. 1 .. 0 = {} /\ 0 \in 0 .. n /\ {} \in SUBSET (1 .. n)
    BY <1>1
  <2>2. fold[{}] = <<>>
    BY <1>4, <2>1
  <2> QED BY <2>1, <2>2
<1>6. ASSUME NEW k \in 1 .. n
      PROVE  f[k] = Heard(f[k - 1], stream[k])
  <2>1. /\ 1 .. k \in SUBSET (1 .. n) /\ 1 .. k # {}
        /\ Max(1 .. k) = k /\ (1 .. k) \ {k} = 1 .. k - 1
    BY <1>1, PrefixFacts
  <2>2. fold[1 .. k] = Heard(fold[1 .. k - 1], stream[k])
    BY <1>4, <2>1
  <2>3. k \in 0 .. n /\ k - 1 \in 0 .. n
    BY <1>1
  <2> QED BY <2>2, <2>3
<1>7. f[n] = fold[1 .. n]
  BY <1>1
<1> HIDE DEF f
<1>8. Hears(f, stream)
  BY <1>5, <1>6 DEF Hears, n
<1> QED BY <1>2, <1>7, <1>8 DEF n

\* An answer without book updates is heard as it is.
LEMMA ResponseSilent ==
    ASSUME NEW stream \in Seq(event), Silent(stream)
    PROVE  Response(stream) = stream
<1> DEFINE n == Len(stream)
           g == [k \in 0 .. n |-> [i \in 1 .. k |-> stream[i]]]
<1>1. /\ n \in Nat /\ DOMAIN stream = 1 .. n
      /\ \A i \in 1 .. n : stream[i] \in event
      /\ stream = [i \in 1 .. n |-> stream[i]]
  BY ElementOfSeq
<1>2. PICK f : Hears(f, stream) /\ Response(stream) = f[Len(stream)]
  BY ResponseIs
<1> HIDE DEF n
<1>3. g[0] = <<>>
  <2>1. 0 \in 0 .. n /\ 1 .. 0 = {}
    BY <1>1
  <2>2. g[0] = [i \in 1 .. 0 |-> stream[i]]
    BY <2>1
  <2> HIDE DEF g
  <2> QED BY <2>1, <2>2
<1>4. ASSUME NEW k \in 1 .. n
      PROVE  g[k] = Heard(g[k - 1], stream[k])
  <2>1. k \in 0 .. n /\ k - 1 \in 0 .. n
    BY <1>1
  <2>2. stream[k].type # "book_updated"
    BY DEF Silent, n
  <2>3. PICK s : s = [i \in 1 .. k - 1 |-> stream[i]]
    OBVIOUS
  <2>4. \A i \in 1 .. k : stream[i] \in event
    BY <1>1
  <2>5. s \in Seq(event) /\ Len(s) = k - 1 /\ stream[k] \in event
    <3>1. k - 1 \in Nat /\ \A i \in 1 .. k - 1 : stream[i] \in event
      BY <1>1, <2>1, <2>4
    <3>2. PICK m \in Nat : m = k - 1
      BY <3>1
    <3>3. s \in [1 .. m -> event]
      BY <2>3, <3>1, <3>2
    <3>4. s \in Seq(event) /\ Len(s) = m
      BY <3>3
    <3> QED BY <1>1, <3>2, <3>4
  <2>6. Append(s, stream[k]) = [i \in 1 .. k |-> stream[i]]
    <3>1. PICK t : t = Append(s, stream[k])
      OBVIOUS
    <3>2. t \in Seq(event) /\ Len(t) = k
      BY <1>1, <2>5, <3>1
    <3>3. t = [i \in 1 .. k |-> t[i]]
      BY <3>2
    <3>4. ASSUME NEW i \in 1 .. k
          PROVE  t[i] = stream[i]
      <4>1. CASE i = k
        BY <2>5, <3>1, <4>1
      <4>2. CASE i # k
        <5>1. i \in 1 .. k - 1 /\ i \in 1 .. Len(s)
          BY <1>1, <2>5, <4>2
        <5>2. t[i] = s[i]
          BY <2>5, <3>1, <5>1
        <5> QED BY <2>3, <5>1, <5>2
      <4> QED BY <4>1, <4>2
    <3> QED BY <3>1, <3>3, <3>4
  <2>7. g[k] = [i \in 1 .. k |-> stream[i]] /\ g[k - 1] = s
    BY <2>1, <2>3
  <2> HIDE DEF g
  <2> QED BY <2>2, <2>6, <2>7 DEF Heard
<1>5. n \in 0 .. n
  BY <1>1
<1>6. g[n] = stream
  BY <1>1, <1>5
<1> HIDE DEF g
<1>7. Hears(g, stream)
  BY <1>3, <1>4 DEF Hears, n
<1>8. f[n] = g[n]
  BY <1>2, <1>5, <1>7, HearsOnce DEF n
<1> QED BY <1>2, <1>6, <1>8 DEF n

\* A book update at the end is not heard.
LEMMA ResponseUpdated ==
    ASSUME NEW a \in Seq(event), NEW e \in event, e.type = "book_updated"
    PROVE  Response(a \o <<e>>) = Response(a)
<1> DEFINE b == a \o <<e>>
<1>1. /\ b \in Seq(event) /\ Len(b) = Len(a) + 1 /\ Len(a) \in Nat
      /\ b[Len(b)] = e
      /\ \A k \in 1 .. Len(a) : b[k] = a[k]
  OBVIOUS
<1> HIDE DEF b
<1>2. PICK f : Hears(f, b) /\ Response(b) = f[Len(b)]
  BY <1>1, ResponseIs
<1>3. PICK g : Hears(g, a) /\ Response(a) = g[Len(a)]
  BY ResponseIs
<1>4. Hears(f, a)
  <2>1. \A k \in 1 .. Len(a) : k \in 1 .. Len(b)
    BY <1>1
  <2> QED BY <1>1, <1>2, <2>1 DEF Hears
<1>5. f[Len(a)] = g[Len(a)]
  BY <1>1, <1>3, <1>4, HearsOnce
<1>6. f[Len(b)] = Heard(f[Len(a)], e)
  <2>1. Len(b) \in 1 .. Len(b) /\ Len(b) - 1 = Len(a)
    BY <1>1
  <2> QED BY <1>1, <1>2, <2>1 DEF Hears
<1> QED BY <1>2, <1>3, <1>5, <1>6 DEF b, Heard

\* The stream b is a with what append_book_update_if_changed appends.
Updated(a, i, d, before, after, b) ==
    b = a \o book_update_if_changed(i, d, before, after)

\* What append_book_update_if_changed (order_book.cpp:561) appends is not
\* heard.
LEMMA ResponseTold ==
    ASSUME NEW a \in Seq(event), NEW i \in Symbols, NEW d \in Side,
           NEW before, NEW after \in top_of_book_state,
           NEW b, Updated(a, i, d, before, after, b)
    PROVE  b \in Seq(event) /\ Response(b) = Response(a)
<1>1. CASE before = after
  <2>1. b = a \o <<>>
    BY <1>1 DEF Updated, book_update_if_changed
  <2> QED BY <2>1
<1>2. CASE before # after
  <2>1. PICK e : e = book_updated(i, d, after)
    OBVIOUS
  <2>2. e \in event /\ e.type = "book_updated"
    BY <2>1 DEF book_updated, event, top_of_book_state
  <2>3. b = a \o <<e>>
    BY <1>2, <2>1 DEF Updated, book_update_if_changed
  <2> QED BY <2>2, <2>3, ResponseUpdated
<1> QED BY <1>1, <1>2

-----------------------------------------------------------------------------
(* The resting orders as PriceTimeMatching knows them: a set of records.   *)

\* Order o of book s as a record of that set.
AsResting(s, o) ==
    [key |-> o.key, instrument |-> s, direction |-> o.direction,
     limit_price |-> o.limit_price, open_size |-> o.open_size,
     sequence |-> o.sequence]

\* The orders of the books b; Resting is that of the books of the engine.
RestingOf(b) ==
    UNION {UNION {UNION {
        LET orders == b[instrument][direction][p].orders
        IN  {[key |-> orders[i].key, instrument |-> instrument,
              direction |-> orders[i].direction,
              limit_price |-> orders[i].limit_price,
              open_size |-> orders[i].open_size,
              sequence |-> orders[i].sequence] : i \in DOMAIN orders} :
        p \in DOMAIN b[instrument][direction]} :
        direction \in Side} : instrument \in DOMAIN b}

\* The records such a set may hold.
Placed ==
    [key : Keys, instrument : Symbols, direction : Side, limit_price : Price,
     open_size : Quantity, sequence : Sequence]

\* A set of resting orders with numbers below n: a number, and a key, belongs
\* to one order.
GoodPool(P, n) ==
    /\ P \subseteq Placed
    /\ IsFiniteSet(P)
    /\ \A o \in P : o.sequence < n
    /\ \A o \in P : \A r \in P :
          o.sequence = r.sequence \/ o.key = r.key => o = r

\* The set holds the orders that rest in the books.
LEMMA RestingIs ==
    ASSUME NEW b, NEW x
    PROVE  x \in RestingOf(b) <=>
              \E s, d, p, o : At(b, s, d, p, o) /\ x = AsResting(s, o)
<1>1. ASSUME x \in RestingOf(b)
      PROVE  \E s, d, p, o : At(b, s, d, p, o) /\ x = AsResting(s, o)
  <2>1. PICK s \in DOMAIN b : \E d \in Side : \E p \in DOMAIN b[s][d] :
           \E i \in DOMAIN b[s][d][p].orders :
              x = AsResting(s, b[s][d][p].orders[i])
    BY <1>1 DEF RestingOf, AsResting
  <2>2. PICK d \in Side : \E p \in DOMAIN b[s][d] :
           \E i \in DOMAIN b[s][d][p].orders :
              x = AsResting(s, b[s][d][p].orders[i])
    BY <2>1
  <2>3. PICK p \in DOMAIN b[s][d] :
           \E i \in DOMAIN b[s][d][p].orders :
              x = AsResting(s, b[s][d][p].orders[i])
    BY <2>2
  <2>4. PICK i \in DOMAIN b[s][d][p].orders :
           x = AsResting(s, b[s][d][p].orders[i])
    BY <2>3
  <2>5. b[s][d][p].orders[i] \in ToSet(b[s][d][p].orders)
    BY DEF ToSet
  <2>6. At(b, s, d, p, b[s][d][p].orders[i])
    BY <2>5 DEF At, In
  <2> QED BY <2>4, <2>6
<1>2. ASSUME NEW s, NEW d, NEW p, NEW o, At(b, s, d, p, o),
             x = AsResting(s, o)
      PROVE  x \in RestingOf(b)
  <2>1. s \in DOMAIN b /\ d \in Side /\ p \in DOMAIN b[s][d]
    BY <1>2 DEF At, In
  <2>2. PICK i \in DOMAIN b[s][d][p].orders : o = b[s][d][p].orders[i]
    BY <1>2 DEF At, In, ToSet
  <2>3. x \in {AsResting(s, b[s][d][p].orders[j]) :
                  j \in DOMAIN b[s][d][p].orders}
    BY <1>2, <2>2
  <2>4. x \in UNION {{AsResting(s, b[s][d][q].orders[j]) :
                         j \in DOMAIN b[s][d][q].orders} :
                     q \in DOMAIN b[s][d]}
    BY <2>1, <2>3
  <2>5. x \in UNION {UNION {{AsResting(s, b[s][e][q].orders[j]) :
                                j \in DOMAIN b[s][e][q].orders} :
                            q \in DOMAIN b[s][e]} : e \in Side}
    BY <2>1, <2>4
  <2>6. x \in UNION {UNION {UNION {{AsResting(t, b[t][e][q].orders[j]) :
                                       j \in DOMAIN b[t][e][q].orders} :
                                   q \in DOMAIN b[t][e]} : e \in Side} :
                     t \in DOMAIN b}
    BY <2>1, <2>5
  <2> QED BY <2>6 DEF RestingOf, AsResting
<1> QED BY <1>1, <1>2

\* The books of the engine hold a good set of resting orders: those whose keys
\* are active and settled.
LEMMA RestingGood ==
    ASSUME NEW b, NEW n \in Nat, GoodBooks(b, n), UniqueNodes(b),
           NEW a, NEW u, Agree(b, a, u)
    PROVE  /\ GoodPool(RestingOf(b), n)
           /\ \A o \in RestingOf(b) : o.key \in DOMAIN a \ u
           /\ \A key \in DOMAIN a \ u : \E o \in RestingOf(b) : o.key = key
<1> DEFINE R == RestingOf(b)
<1>1. ASSUME NEW x \in R
      PROVE  /\ x \in Placed /\ x.sequence < n
             /\ x.sequence \in 1 .. n
             /\ x.key \in DOMAIN a \ u
  <2>1. PICK s, d, p, o : At(b, s, d, p, o) /\ x = AsResting(s, o)
    BY RestingIs
  <2>2. /\ o \in resting_order /\ o.sequence \in Nat /\ o.sequence < n
        /\ o.key \in DOMAIN a \ u
    BY <2>1, AtFacts DEF Agree
  <2>3. s \in Symbols
    BY <2>1 DEF At, GoodBooks, IsMap
  <2>4. x \in Placed /\ x.sequence = o.sequence /\ x.key = o.key
    BY <2>1, <2>2, <2>3 DEF AsResting, Placed, resting_order
  <2>5. o.sequence \in 1 .. n
    BY <2>2 DEF resting_order, Sequence
  <2> QED BY <2>2, <2>4, <2>5
<1>2. ASSUME NEW x \in R, NEW y \in R,
             x.sequence = y.sequence \/ x.key = y.key
      PROVE  x = y
  <2>1. PICK s, d, p, o : At(b, s, d, p, o) /\ x = AsResting(s, o)
    BY RestingIs
  <2>2. PICK t, e, q, z : At(b, t, e, q, z) /\ y = AsResting(t, z)
    BY RestingIs
  <2>3. o.sequence = z.sequence
    <3>1. /\ x.sequence = o.sequence /\ y.sequence = z.sequence
          /\ x.key = o.key /\ y.key = z.key
      BY <2>1, <2>2 DEF AsResting
    <3>2. o.key = z.key <=> o.sequence = z.sequence
      BY <2>1, <2>2, KeysDiffer
    <3> QED BY <1>2, <3>1, <3>2
  <2>4. s = t /\ o = z
    BY <2>1, <2>2, <2>3 DEF UniqueNodes
  <2> QED BY <2>1, <2>2, <2>4
<1>3. ASSUME NEW key \in DOMAIN a \ u
      PROVE  \E x \in R : x.key = key
  <2>1. PICK o : /\ At(b, a[key].instrument, a[key].direction,
                       a[key].limit_price, o)
                 /\ o.key = key
    BY DEF Agree
  <2>2. AsResting(a[key].instrument, o) \in R
    BY <2>1, RestingIs
  <2> QED BY <2>1, <2>2 DEF AsResting
<1>4. IsFiniteSet(R)
  <2> DEFINE f == [x \in R |-> x.sequence]
  <2>1. f \in Injection(R, 1 .. n)
    <3> HIDE DEF R
    <3>1. f \in [R -> 1 .. n]
      BY <1>1
    <3>2. \A x, y \in R : f[x] = f[y] => x = y
      BY <1>2
    <3> QED BY <3>1, <3>2 DEF Injection, IsInjective
  <2>2. IsFiniteSet(1 .. n)
    BY FS_Interval
  <2> HIDE DEF R, f
  <2> QED BY <2>1, <2>2, FS_Injection
<1> HIDE DEF R
<1>5. GoodPool(R, n)
  BY <1>1, <1>2, <1>4 DEF GoodPool
<1> QED BY <1>1, <1>3, <1>5 DEF R

\* The set of books whose orders are the same.
LEMMA SameResting ==
    ASSUME NEW b, NEW c, Same(b, c)
    PROVE  RestingOf(c) = RestingOf(b)
BY RestingIs DEF Same

\* An order that is added to the books is added to the set.
LEMMA AddedResting ==
    ASSUME NEW b, NEW c, NEW s, NEW d, NEW p, NEW r, Added(b, c, s, d, p, r)
    PROVE  RestingOf(c) = RestingOf(b) \cup {AsResting(s, r)}
<1>1. ASSUME NEW x \in RestingOf(c)
      PROVE  x \in RestingOf(b) \cup {AsResting(s, r)}
  <2>1. PICK t, e, q, o : At(c, t, e, q, o) /\ x = AsResting(t, o)
    BY RestingIs
  <2>2. At(b, t, e, q, o) \/ (t = s /\ o = r)
    BY <2>1 DEF Added
  <2> QED BY <2>1, <2>2, RestingIs
<1>2. ASSUME NEW x \in RestingOf(b)
      PROVE  x \in RestingOf(c)
  <2>1. PICK t, e, q, o : At(b, t, e, q, o) /\ x = AsResting(t, o)
    BY RestingIs
  <2>2. At(c, t, e, q, o)
    BY <2>1 DEF Added
  <2> QED BY <2>1, <2>2, RestingIs
<1>3. AsResting(s, r) \in RestingOf(c)
  <2>1. At(c, s, d, p, r)
    BY DEF Added
  <2> QED BY <2>1, RestingIs
<1> QED BY <1>1, <1>2, <1>3

\* The set without the order of this number.
Less(R, sequence) == {o \in R : o.sequence # sequence}

\* An order that is removed from the books is removed from the set.
LEMMA RemovedResting ==
    ASSUME NEW b, NEW c, NEW r, Removed(b, c, r)
    PROVE  RestingOf(c) = Less(RestingOf(b), r.sequence)
<1>1. ASSUME NEW x
      PROVE  x \in RestingOf(c) <=>
                x \in RestingOf(b) /\ x.sequence # r.sequence
  <2>1. ASSUME NEW t, NEW o
        PROVE  AsResting(t, o).sequence = o.sequence
    BY DEF AsResting
  <2>2. ASSUME x \in RestingOf(c)
        PROVE  x \in RestingOf(b) /\ x.sequence # r.sequence
    <3>1. PICK t, e, q, o : At(c, t, e, q, o) /\ x = AsResting(t, o)
      BY <2>2, RestingIs
    <3>2. At(b, t, e, q, o) /\ o.sequence # r.sequence
      BY <3>1 DEF Removed
    <3> QED BY <2>1, <3>1, <3>2, RestingIs
  <2>3. ASSUME x \in RestingOf(b), x.sequence # r.sequence
        PROVE  x \in RestingOf(c)
    <3>1. PICK t, e, q, o : At(b, t, e, q, o) /\ x = AsResting(t, o)
      BY <2>3, RestingIs
    <3>2. At(c, t, e, q, o)
      BY <2>1, <2>3, <3>1 DEF Removed
    <3> QED BY <3>1, <3>2, RestingIs
  <2> QED BY <2>2, <2>3
<1> QED BY <1>1 DEF Less

\* One that is resized is resized in the set.
LEMMA ResizedResting ==
    ASSUME NEW b, NEW c, NEW s, NEW d, NEW p, NEW r, NEW z,
           Resized(b, c, s, d, p, r, z)
    PROVE  RestingOf(c) =
              Less(RestingOf(b), r.sequence) \cup {AsResting(s, z)}
<1>1. ASSUME NEW x
      PROVE  x \in RestingOf(c) <=>
                \/ x \in RestingOf(b) /\ x.sequence # r.sequence
                \/ x = AsResting(s, z)
  <2>1. ASSUME NEW t, NEW o
        PROVE  AsResting(t, o).sequence = o.sequence
    BY DEF AsResting
  <2>2. ASSUME x \in RestingOf(c)
        PROVE  \/ x \in RestingOf(b) /\ x.sequence # r.sequence
               \/ x = AsResting(s, z)
    <3>1. PICK t, e, q, o : At(c, t, e, q, o) /\ x = AsResting(t, o)
      BY <2>2, RestingIs
    <3>2. \/ At(b, t, e, q, o) /\ o.sequence # r.sequence
          \/ t = s /\ o = z
      BY <3>1 DEF Resized
    <3> QED BY <2>1, <3>1, <3>2, RestingIs
  <2>3. ASSUME x \in RestingOf(b), x.sequence # r.sequence
        PROVE  x \in RestingOf(c)
    <3>1. PICK t, e, q, o : At(b, t, e, q, o) /\ x = AsResting(t, o)
      BY <2>3, RestingIs
    <3>2. At(c, t, e, q, o)
      BY <2>1, <2>3, <3>1 DEF Resized
    <3> QED BY <3>1, <3>2, RestingIs
  <2>4. AsResting(s, z) \in RestingOf(c)
    <3>1. At(c, s, d, p, z)
      BY DEF Resized
    <3> QED BY <3>1, RestingIs
  <2> QED BY <2>2, <2>3, <2>4
<1> QED BY <1>1 DEF Less

-----------------------------------------------------------------------------
(* The sums of PriceTimeMatching.                                          *)

\* The open sizes of a set of orders, added up as Fill does.
LEMMA OpenTotal ==
    ASSUME NEW S, IsFiniteSet(S), NEW g, Numbers(g, S),
           \A x \in S : g[x] = x.open_size
    PROVE  Abstract!MapThenSumSet(Abstract!OpenSize, S) = Total(g, S)
<1> DEFINE P(iter) ==
             iter = [s \in SUBSET S |->
                       IF s = {} THEN 0
                       ELSE (CHOOSE x \in s : TRUE).open_size
                            + iter[s \ {CHOOSE x \in s : TRUE}]]
           fold == CHOOSE iter : P(iter)
<1>1. Abstract!MapThenSumSet(Abstract!OpenSize, S) = fold[S]
  BY DEF Abstract!MapThenSumSet, Abstract!MapThenFoldSet, Abstract!OpenSize
<1>2. ASSUME NEW iter
      PROVE  P(iter) <=> SetSums(iter, g, S)
  <2>1. ASSUME NEW s \in SUBSET S
        PROVE  (IF s = {} THEN 0
                ELSE (CHOOSE x \in s : TRUE).open_size
                     + iter[s \ {CHOOSE x \in s : TRUE}]) =
               (IF s = {} THEN 0 ELSE g[First(s)] + iter[s \ {First(s)}])
    <3>1. s # {} => First(s) \in S
      BY SubsetFacts
    <3> QED BY <3>1 DEF First
  <2> QED BY <2>1 DEF SetSums
<1>3. \E iter : P(iter)
  <2>1. PICK iter \in [SUBSET S -> Int] : SetSums(iter, g, S)
    BY SetSumExists
  <2> HIDE DEF P
  <2> QED BY <1>2, <2>1
<1>4. P(fold)
  <2> HIDE DEF P
  <2> QED BY <1>3
<1>5. SetSums(fold, g, S)
  BY <1>2, <1>4
<1> HIDE DEF fold
<1>6. fold[S] = Total(g, S)
  BY <1>5, TotalIs
<1> QED BY <1>1, <1>6

\* What the orders of a set give to an incoming one, added up as Enter does.
LEMMA FillTotal ==
    ASSUME NEW S, IsFiniteSet(S), NEW size, NEW g, Numbers(g, S),
           \A x \in S : g[x] = Abstract!Fill(x, S, size)
    PROVE  Abstract!Filled(S, size) = Total(g, S)
<1> DEFINE P(iter) ==
             iter = [s \in SUBSET S |->
                       IF s = {} THEN 0
                       ELSE Abstract!Fill(CHOOSE x \in s : TRUE, S, size)
                            + iter[s \ {CHOOSE x \in s : TRUE}]]
           fold == CHOOSE iter : P(iter)
<1>1. Abstract!Filled(S, size) = fold[S]
  BY DEF Abstract!Filled, Abstract!MapThenSumSet, Abstract!MapThenFoldSet
<1>2. ASSUME NEW iter
      PROVE  P(iter) <=> SetSums(iter, g, S)
  <2>1. ASSUME NEW s \in SUBSET S
        PROVE  (IF s = {} THEN 0
                ELSE Abstract!Fill(CHOOSE x \in s : TRUE, S, size)
                     + iter[s \ {CHOOSE x \in s : TRUE}]) =
               (IF s = {} THEN 0 ELSE g[First(s)] + iter[s \ {First(s)}])
    <3>1. s # {} => First(s) \in S
      BY SubsetFacts
    <3> QED BY <3>1 DEF First
  <2> QED BY <2>1 DEF SetSums
<1>3. \E iter : P(iter)
  <2>1. PICK iter \in [SUBSET S -> Int] : SetSums(iter, g, S)
    BY SetSumExists
  <2> HIDE DEF P
  <2> QED BY <1>2, <2>1
<1>4. P(fold)
  <2> HIDE DEF P
  <2> QED BY <1>3
<1>5. SetSums(fold, g, S)
  BY <1>2, <1>4
<1> HIDE DEF fold
<1>6. fold[S] = Total(g, S)
  BY <1>5, TotalIs
<1> QED BY <1>1, <1>6

\* What rests after the orders of X have given what `given' says.
Remaining(P, X, given) ==
    (P \ X) \cup {[o EXCEPT !.open_size = @ - given[o]] :
                     o \in {r \in X : given[r] < r.open_size}}

\* What is left of the incoming order, if that may rest.
Joining(order, left) ==
    IF left > 0 /\ order.limit_price # 0
    THEN {[order EXCEPT !.open_size = left]} ELSE {}

\* Enter, with the sum of what is given and with the trades as they are.
LEMMA EnterIs ==
    ASSUME NEW pool, NEW order, NEW verdict, NEW X,
           X = Abstract!Crossed(pool, order), IsFiniteSet(X),
           NEW g, Numbers(g, X),
           \A x \in X : g[x] = Abstract!Fill(x, X, order.open_size),
           NEW left, left = order.open_size - Total(g, X),
           committed'.resting =
              Remaining(pool, X, g) \cup Joining(order, left),
           committed'.response =
              <<[type |-> verdict, key |-> order.key]>>
              \o Abstract!Trades(order, X)
    PROVE  Abstract!Enter(pool, order, verdict)
<1>1. Abstract!Filled(X, order.open_size) = Total(g, X)
  BY FillTotal
<1>2. {[o EXCEPT !.open_size = @ - g[o]] :
          o \in {c \in X : g[c] < c.open_size}} =
      {[o EXCEPT !.open_size = @ - Abstract!Fill(o, X, order.open_size)] :
          o \in {c \in X : Abstract!Fill(c, X, order.open_size) < c.open_size}}
  OBVIOUS
<1> QED BY <1>1, <1>2
        DEF Abstract!Enter, Abstract!MarketPricing, Remaining, Joining

-----------------------------------------------------------------------------
(* What the crossed orders give, in priority.                              *)

\* The orders of X are finitely many, open, and stand in priority.
Ranked(X) ==
    /\ IsFiniteSet(X)
    /\ \A o \in X : o.open_size \in Nat \ {0}
    /\ \A o \in X : \A r \in X :
          /\ o = r \/ Abstract!Precedes(o, r) \/ Abstract!Precedes(r, o)
          /\ ~ (Abstract!Precedes(o, r) /\ Abstract!Precedes(r, o))

\* Each order of X has given what `given' says, the first ones everything; of
\* the size wanted there is this left.
Shared(X, given, left, size) ==
    /\ given \in [X -> Nat]
    /\ \A o \in X : given[o] <= o.open_size
    /\ \A o \in X : \A r \in X :
          given[o] > 0 /\ Abstract!Precedes(r, o) => given[r] = r.open_size
    /\ \A o \in X : 0 < given[o] /\ given[o] < o.open_size => left = 0
    /\ Total(given, X) + left = size

\* A set of orders that rest on the opposite side of an incoming one.
LEMMA CrossedRanked ==
    ASSUME NEW P, NEW n, GoodPool(P, n),
           NEW order, order.direction \in Side,
           NEW X, X = Abstract!Crossed(P, order)
    PROVE  /\ Ranked(X)
           /\ X \subseteq P
           /\ \A o \in X : o \in Placed
<1>1. ASSUME NEW o \in X
      PROVE  /\ o \in P /\ o \in Placed
             /\ o.direction = Opposite(order.direction)
             /\ o.limit_price \in Nat /\ o.sequence \in Nat
             /\ o.open_size \in Nat \ {0}
  <2>1. o \in P /\ o.direction # order.direction
    BY DEF Abstract!Crossed
  <2>2. o \in Placed
    BY <2>1 DEF GoodPool
  <2> QED BY <2>1, <2>2, MaxPriceAssumption, SizeModulusAssumption
          DEF Placed, Side, Opposite, Price, Quantity, Sequence
<1>2. IsFiniteSet(X)
  <2>1. IsFiniteSet(P) /\ X \in SUBSET P
    BY <1>1 DEF GoodPool
  <2> QED BY <2>1, FS_Subset
<1>3. ASSUME NEW o \in X, NEW r \in X
      PROVE  /\ o = r \/ Abstract!Precedes(o, r) \/ Abstract!Precedes(r, o)
             /\ ~ (Abstract!Precedes(o, r) /\ Abstract!Precedes(r, o))
  <2>1. /\ o.limit_price \in Nat /\ r.limit_price \in Nat
        /\ o.sequence \in Nat /\ r.sequence \in Nat
        /\ o.direction = r.direction
        /\ o.direction \in Side
    BY <1>1 DEF Placed
  <2>2. o.sequence = r.sequence => o = r
    BY <1>1 DEF GoodPool
  <2> QED BY <2>1, <2>2 DEF Abstract!Precedes, Side
<1> QED BY <1>1, <1>2, <1>3 DEF Ranked

\* Fill in numbers: what of the size is left behind the orders ahead, but no
\* more than is open.
LEMMA FillIs ==
    ASSUME NEW X, Ranked(X), NEW g,
           \A x \in X : g[x] = x.open_size,
           NEW o \in X, NEW size \in Int
    PROVE  LET ahead == Total(g, {r \in X : Abstract!Precedes(r, o)})
           IN  /\ ahead \in Nat
               /\ Abstract!Fill(o, X, size) =
                     IF size - ahead <= 0 THEN 0
                     ELSE IF size - ahead <= o.open_size THEN size - ahead
                     ELSE o.open_size
<1> DEFINE A == {r \in X : Abstract!Precedes(r, o)}
<1>1. IsFiniteSet(A) /\ Numbers(g, A) /\ \A x \in A : g[x] = x.open_size
  <2>1. A \in SUBSET X /\ IsFiniteSet(X)
    BY DEF Ranked
  <2> QED BY <2>1, FS_Subset DEF Ranked, Numbers
<1>2. \A x \in A : g[x] \in Nat
  BY DEF Ranked
<1> HIDE DEF A
<1>3. PICK ahead : ahead = Total(g, A)
  OBVIOUS
<1>4. ahead \in Nat
  BY <1>1, <1>2, <1>3, TotalNat
<1>5. Abstract!MapThenSumSet(Abstract!OpenSize, A) = ahead
  BY <1>1, <1>3, OpenTotal
<1>6. PICK rest \in Int : rest = size - ahead
  BY <1>4
<1>7. PICK open \in Nat : open = o.open_size
  BY DEF Ranked
<1>8. Abstract!Max({0, rest}) = IF rest <= 0 THEN 0 ELSE rest
  BY DEF Abstract!Max
<1>9. PICK m \in Nat : m = Abstract!Max({0, rest})
  BY <1>8
<1>10. Abstract!Min({open, m}) = IF m <= open THEN m ELSE open
  BY DEF Abstract!Min
<1>11. Abstract!Fill(o, X, size) = Abstract!Min({open, m})
  BY <1>5, <1>6, <1>7, <1>9 DEF Abstract!Fill, A
<1> QED BY <1>3, <1>4, <1>6, <1>7, <1>8, <1>9, <1>10, <1>11 DEF A

\* A sum of smaller numbers is no greater.
LEMMA TotalAtMost ==
    ASSUME NEW S, IsFiniteSet(S), NEW g, NEW h,
           Numbers(g, S), Numbers(h, S), \A x \in S : g[x] <= h[x]
    PROVE  Total(g, S) <= Total(h, S)
<1> DEFINE H == {s \in SUBSET S : Total(g, s) <= Total(h, s)}
<1>1. /\ Total(g, {}) = 0
      /\ \A s \in SUBSET S :
            /\ Total(g, s) \in Int
            /\ \A x \in s : Total(g, s) = g[x] + Total(g, s \ {x})
  BY TotalRemove
<1>2. /\ Total(h, {}) = 0
      /\ \A s \in SUBSET S :
            /\ Total(h, s) \in Int
            /\ \A x \in s : Total(h, s) = h[x] + Total(h, s \ {x})
  BY TotalRemove
<1>3. {} \in H
  BY <1>1, <1>2
<1>4. ASSUME NEW s \in SUBSET S, s # {}, \A x \in s : s \ {x} \in H
      PROVE  s \in H
  <2>1. PICK x \in s : TRUE
    BY <1>4
  <2>2. Total(g, s \ {x}) <= Total(h, s \ {x})
    BY <1>4, <2>1
  <2>3. /\ Total(g, s) = g[x] + Total(g, s \ {x})
        /\ Total(h, s) = h[x] + Total(h, s \ {x})
    BY <1>1, <1>2, <2>1
  <2>4. g[x] \in Int /\ h[x] \in Int /\ g[x] <= h[x]
    BY <2>1 DEF Numbers
  <2>5. s \ {x} \in SUBSET S
    OBVIOUS
  <2>6. PICK a \in Int, b \in Int :
           a = Total(g, s \ {x}) /\ b = Total(h, s \ {x})
    BY <1>1, <1>2, <2>5
  <2>7. Total(g, s) <= Total(h, s)
    BY <2>2, <2>3, <2>4, <2>6
  <2> QED BY <2>7
<1>5. SUBSET S \subseteq H
  <2> HIDE DEF H
  <2> QED BY <1>3, <1>4, AllSubsets
<1> QED BY <1>5

\* The sum without one of its numbers.
LEMMA TotalTake ==
    ASSUME NEW S, IsFiniteSet(S), NEW g, Numbers(g, S), NEW x \in S
    PROVE  /\ Total(g, S) = g[x] + Total(g, S \ {x})
           /\ Total(g, S) \in Int /\ Total(g, S \ {x}) \in Int
<1>1. S \in SUBSET S /\ S \ {x} \in SUBSET S
  OBVIOUS
<1>2. \A s \in SUBSET S :
         /\ Total(g, s) \in Int
         /\ \A y \in s : Total(g, s) = g[y] + Total(g, s \ {y})
  BY TotalRemove
<1> QED BY <1>1, <1>2

\* Where nothing is given, the sum is nothing.
LEMMA TotalZero ==
    ASSUME NEW S, IsFiniteSet(S), NEW g, \A x \in S : g[x] = 0
    PROVE  Total(g, S) = 0
<1> DEFINE H == {s \in SUBSET S : Total(g, s) = 0}
<1>1. Numbers(g, S)
  BY DEF Numbers
<1>2. /\ Total(g, {}) = 0
      /\ \A s \in SUBSET S :
            /\ Total(g, s) \in Int
            /\ \A x \in s : Total(g, s) = g[x] + Total(g, s \ {x})
  BY <1>1, TotalRemove
<1>3. {} \in H
  BY <1>2
<1>4. ASSUME NEW s \in SUBSET S, s # {}, \A x \in s : s \ {x} \in H
      PROVE  s \in H
  <2>1. PICK x \in s : TRUE
    BY <1>4
  <2>2. Total(g, s \ {x}) = 0 /\ g[x] = 0
    BY <1>4, <2>1
  <2>3. Total(g, s) = g[x] + Total(g, s \ {x})
    BY <1>2, <2>1
  <2>4. Total(g, s) = 0
    BY <2>2, <2>3
  <2> QED BY <2>4
<1>5. SUBSET S \subseteq H
  <2> HIDE DEF H
  <2> QED BY <1>3, <1>4, AllSubsets
<1> QED BY <1>5

\* When the loop has ended, each order has given what Fill says.
LEMMA SharedIsFill ==
    ASSUME NEW X, Ranked(X), NEW given, NEW left \in Nat, NEW size \in Nat,
           Shared(X, given, left, size),
           \A o \in X : given[o] < o.open_size => left = 0,
           NEW o \in X
    PROVE  Abstract!Fill(o, X, size) = given[o]
<1> DEFINE A == {r \in X : Abstract!Precedes(r, o)}
           B == (X \ A) \ {o}
           g == [r \in X |-> r.open_size]
<1>1. /\ A \in SUBSET X /\ X \ A \in SUBSET X /\ B \in SUBSET X
      /\ IsFiniteSet(X) /\ IsFiniteSet(A) /\ IsFiniteSet(X \ A)
      /\ IsFiniteSet(B)
  <2>1. A \in SUBSET X /\ X \ A \in SUBSET X /\ B \in SUBSET X
    OBVIOUS
  <2>2. IsFiniteSet(X)
    BY DEF Ranked
  <2> HIDE DEF A, B
  <2> QED BY <2>1, <2>2, FS_Subset
<1>2. /\ \A r \in X : given[r] \in Nat /\ r.open_size \in Nat \ {0}
      /\ \A r \in X : given[r] <= r.open_size
      /\ \A r \in X : g[r] = r.open_size
  BY DEF Shared, Ranked
<1>3. o \in X \ A
  BY DEF Ranked
<1>4. \A r \in B : Abstract!Precedes(o, r)
  BY DEF Ranked
<1> HIDE DEF g
<1>5. PICK ahead : ahead = Total(g, A)
  OBVIOUS
<1>6. /\ ahead \in Nat
      /\ Abstract!Fill(o, X, size) =
            IF size - ahead <= 0 THEN 0
            ELSE IF size - ahead <= o.open_size THEN size - ahead
            ELSE o.open_size
  BY <1>2, <1>5, FillIs DEF A
<1> HIDE DEF A, B
<1>7. Numbers(given, X) /\ Numbers(given, A) /\ Numbers(given, X \ A)
      /\ Numbers(given, B) /\ Numbers(g, A)
  BY <1>1, <1>2 DEF Numbers
<1>8. Total(given, X) = Total(given, A) + Total(given, X \ A)
  BY <1>1, <1>7, TotalSplit
<1>9. Total(given, X \ A) = given[o] + Total(given, B)
  <2>1. \A x \in X \ A :
           Total(given, X \ A) = given[x] + Total(given, (X \ A) \ {x})
    BY <1>1, <1>7, TotalRemove
  <2> QED BY <1>3, <2>1 DEF B
<1>10. PICK a \in Nat : a = Total(given, A)
  BY <1>1, <1>2, TotalNat
<1>11. PICK b \in Nat : b = Total(given, B)
  BY <1>1, <1>2, TotalNat
<1>12. PICK x \in Nat : x = given[o]
  BY <1>2
<1>13. PICK open \in Nat \ {0} : open = o.open_size
  BY <1>2
<1>14. a + (x + b) + left = size
  BY <1>8, <1>9, <1>10, <1>11, <1>12 DEF Shared
<1>15. x > 0 => a = ahead
  <2>1. ASSUME x > 0, NEW r \in A
        PROVE  given[r] = g[r]
    BY <1>1, <1>2, <1>12, <2>1 DEF Shared, A
  <2> QED BY <1>1, <1>5, <1>7, <1>10, <2>1, TotalSame
<1>16. a <= ahead
  <2>1. \A r \in A : given[r] <= g[r]
    BY <1>1, <1>2
  <2> QED BY <1>1, <1>5, <1>7, <1>10, <2>1, TotalAtMost
<1>17. CASE x = open
  BY <1>6, <1>12, <1>13, <1>14, <1>15, <1>17
<1>18. CASE x < open
  <2>1. left = 0
    BY <1>12, <1>13, <1>18
  <2>2. b = 0
    <3>1. ASSUME NEW r \in B, given[r] # 0
          PROVE  FALSE
      <4>1. given[r] > 0 /\ r \in X
        BY <1>1, <1>2, <3>1
      <4>2. given[o] = o.open_size
        BY <1>4, <4>1 DEF Shared
      <4> QED BY <1>12, <1>13, <1>18, <4>2
    <3> QED BY <1>1, <1>11, <3>1, TotalZero
  <2> QED BY <1>6, <1>12, <1>13, <1>14, <1>15, <1>16, <1>18, <2>1, <2>2
<1>19. x <= open
  BY <1>2, <1>12, <1>13
<1> QED BY <1>17, <1>18, <1>19

\* One more order gives.
LEMMA SharedMore ==
    ASSUME NEW X, Ranked(X), NEW given, NEW left \in Nat, NEW size \in Nat,
           Shared(X, given, left, size), NEW o \in X, given[o] = 0,
           \A r \in X : Abstract!Precedes(r, o) => given[r] = r.open_size,
           NEW executed \in Nat \ {0},
           executed <= left, executed <= o.open_size,
           executed = left \/ executed = o.open_size,
           NEW more, more = [given EXCEPT ![o] = executed]
    PROVE  Shared(X, more, left - executed, size)
<1>1. /\ given \in [X -> Nat] /\ IsFiniteSet(X)
      /\ Numbers(given, X) /\ Numbers(more, X)
      /\ more \in [X -> Nat]
      /\ more[o] = executed
      /\ \A r \in X : r # o => more[r] = given[r]
  BY DEF Shared, Ranked, Numbers
<1>2. Total(more, X) = Total(given, X) + executed
  <2>1. /\ Total(given, X) = given[o] + Total(given, X \ {o})
        /\ Total(given, X \ {o}) \in Int
    BY <1>1, TotalTake
  <2>2. Total(more, X) = more[o] + Total(more, X \ {o})
    BY <1>1, TotalTake
  <2>3. IsFiniteSet(X \ {o}) /\ Numbers(given, X \ {o})
    BY <1>1, FS_RemoveElement DEF Numbers
  <2>4. Total(more, X \ {o}) = Total(given, X \ {o})
    BY <1>1, <2>3, TotalSame
  <2>6. PICK t \in Int : t = Total(given, X \ {o})
    BY <2>1
  <2> QED BY <1>1, <2>1, <2>2, <2>4, <2>6
<1>3. Total(more, X) + (left - executed) = size
  <2>1. Total(given, X) + left = size
    BY DEF Shared
  <2>2. Total(given, X) \in Nat
    BY <1>1, TotalNat
  <2>3. PICK t \in Nat : t = Total(given, X)
    BY <2>2
  <2> QED BY <1>2, <2>1, <2>3
<1>4. \A r \in X : more[r] <= r.open_size
  BY <1>1 DEF Shared
<1>5. ASSUME NEW z \in X, NEW r \in X, more[z] > 0, Abstract!Precedes(r, z)
      PROVE  more[r] = r.open_size
  <2>1. r # z
    BY <1>5 DEF Ranked
  <2>2. CASE z = o
    BY <1>1, <1>5, <2>1, <2>2
  <2>3. CASE z # o
    <3>1. given[z] > 0
      BY <1>1, <1>5, <2>3
    <3>2. given[r] = r.open_size
      BY <1>5, <3>1 DEF Shared
    <3>3. r # o
      BY <3>2 DEF Ranked
    <3> QED BY <1>1, <3>2, <3>3
  <2> QED BY <2>2, <2>3
<1>6. ASSUME NEW z \in X, 0 < more[z], more[z] < z.open_size
      PROVE  left - executed = 0
  <2>1. CASE z = o
    BY <1>1, <1>6, <2>1
  <2>2. CASE z # o
    <3>1. left = 0
      BY <1>1, <1>6, <2>2 DEF Shared
    <3> QED BY <3>1
  <2> QED BY <2>1, <2>2
<1> QED BY <1>1, <1>3, <1>4, <1>5, <1>6 DEF Shared

-----------------------------------------------------------------------------
(* The trades, in priority.                                                *)

\* q lists the orders of X that have given something, in priority.
Queue(q, X, given) ==
    /\ q \in Seq(X)
    /\ \A n \in 1 .. Len(q) : given[q[n]] > 0
    /\ \A o \in X : given[o] > 0 => \E n \in 1 .. Len(q) : o = q[n]
    /\ \A m \in 1 .. Len(q) : \A n \in 1 .. Len(q) :
          m < n => Abstract!Precedes(q[m], q[n])

\* The trade of an incoming order with the resting order o.
TradeWith(order, o, size) ==
    [type |-> "trade_executed", aggressor |-> order.key, resting |-> o.key,
     instrument |-> order.instrument, execution_price |-> o.limit_price,
     executed_size |-> size]

\* Numbered things are as many as their numbers.
LEMMA CardinalityNumbered ==
    ASSUME NEW n \in Nat, NEW q,
           \A i \in 1 .. n : \A j \in 1 .. n : i # j => q[i] # q[j]
    PROVE  Abstract!Cardinality({q[i] : i \in 1 .. n}) = n
<1> DEFINE S == {q[i] : i \in 1 .. n}
           f == [i \in 1 .. n |-> q[i]]
<1>1. f \in Bijection(1 .. n, S)
  <2>1. f \in [1 .. n -> S]
    OBVIOUS
  <2>2. \A i, j \in 1 .. n : f[i] = f[j] => i = j
    OBVIOUS
  <2>3. \A s \in S : \E i \in 1 .. n : f[i] = s
    OBVIOUS
  <2> HIDE DEF f, S
  <2> QED BY <2>1, <2>2, <2>3
          DEF Bijection, Injection, Surjection, IsInjective
<1>2. IsFiniteSet(1 .. n) /\ Cardinality(1 .. n) = n
  BY FS_Interval
<1> HIDE DEF S, f
<1>3. Cardinality(S) = n
  <2>1. ExistsBijection(1 .. n, S)
    BY <1>1 DEF ExistsBijection
  <2> QED BY <1>2, <2>1, FS_Bijection
<1>4. Abstract!Cardinality(S) = Cardinality(S)
  BY DEF Abstract!Cardinality, Cardinality
<1> QED BY <1>3, <1>4 DEF S

\* PriceTimeMatching lists the trades in the order of the queue.
LEMMA QueueTrades ==
    ASSUME NEW X, Ranked(X), NEW given, given \in [X -> Nat],
           NEW q, Queue(q, X, given), NEW order,
           \A o \in X : Abstract!Fill(o, X, order.open_size) = given[o]
    PROVE  Abstract!Trades(order, X) =
              [n \in 1 .. Len(q) |-> TradeWith(order, q[n], given[q[n]])]
<1> DEFINE size == order.open_size
           hit == {o \in X : Abstract!Fill(o, X, size) > 0}
           nth(n) == CHOOSE o \in hit :
                        Abstract!Cardinality(
                           {r \in hit : Abstract!Precedes(r, o)}) = n - 1
           k == Len(q)
<1>1. Abstract!Trades(order, X) =
         [n \in 1 .. Abstract!Cardinality(hit) |->
             [type |-> "trade_executed", aggressor |-> order.key,
              resting |-> nth(n).key, instrument |-> order.instrument,
              execution_price |-> nth(n).limit_price,
              executed_size |-> Abstract!Fill(nth(n), X, size)]]
  BY DEF Abstract!Trades
<1>2. /\ k \in Nat /\ \A i \in 1 .. k : q[i] \in X
      /\ \A i \in 1 .. k : given[q[i]] > 0
  BY DEF Queue
<1>3. \A o : o \in hit <=> o \in X /\ given[o] > 0
  OBVIOUS
<1> HIDE DEF hit
<1>4. \A i \in 1 .. k : q[i] \in hit
  BY <1>2, <1>3
<1>5. \A i \in 1 .. k : \A j \in 1 .. k :
         Abstract!Precedes(q[i], q[j]) <=> i < j
  <2>1. ASSUME NEW i \in 1 .. k, NEW j \in 1 .. k
        PROVE  Abstract!Precedes(q[i], q[j]) <=> i < j
    <3>1. i < j => Abstract!Precedes(q[i], q[j])
      BY DEF Queue
    <3>2. j < i => Abstract!Precedes(q[j], q[i])
      BY DEF Queue
    <3>3. ~ (Abstract!Precedes(q[i], q[j]) /\ Abstract!Precedes(q[j], q[i]))
      BY <1>2 DEF Ranked
    <3> QED BY <3>1, <3>2, <3>3
  <2> QED BY <2>1
<1>6. \A i \in 1 .. k : \A j \in 1 .. k : i # j => q[i] # q[j]
  BY <1>5
<1>7. hit = {q[i] : i \in 1 .. k}
  BY <1>3, <1>4 DEF Queue
<1>8. Abstract!Cardinality(hit) = k
  <2>1. PICK m \in Nat : m = k
    BY <1>2
  <2>2. \A i \in 1 .. m : \A j \in 1 .. m : i # j => q[i] # q[j]
    BY <1>6, <2>1
  <2>3. Abstract!Cardinality({q[i] : i \in 1 .. m}) = m
    BY <2>2, CardinalityNumbered
  <2> QED BY <1>7, <2>1, <2>3
<1>9. ASSUME NEW n \in 1 .. k
      PROVE  Abstract!Cardinality(
                {r \in hit : Abstract!Precedes(r, q[n])}) = n - 1
  <2>1. {r \in hit : Abstract!Precedes(r, q[n])} = {q[i] : i \in 1 .. n - 1}
    BY <1>2, <1>5, <1>7
  <2>2. /\ n - 1 \in Nat
        /\ \A i \in 1 .. n - 1 : \A j \in 1 .. n - 1 : i # j => q[i] # q[j]
    BY <1>2, <1>6
  <2>3. PICK m \in Nat : m = n - 1
    BY <2>2
  <2>4. Abstract!Cardinality({q[i] : i \in 1 .. m}) = m
    BY <2>2, <2>3, CardinalityNumbered
  <2> QED BY <2>1, <2>3, <2>4
<1>10. ASSUME NEW n \in 1 .. k
       PROVE  nth(n) = q[n]
  <2>1. q[n] \in hit
    BY <1>4
  <2>2. ASSUME NEW o \in hit,
               Abstract!Cardinality(
                  {r \in hit : Abstract!Precedes(r, o)}) = n - 1
        PROVE  o = q[n]
    <3>1. PICK m \in 1 .. k : o = q[m]
      BY <1>7
    <3>2. m - 1 = n - 1
      BY <1>9, <2>2, <3>1
    <3> QED BY <3>1, <3>2
  <2> QED BY <1>9, <2>1, <2>2
<1> HIDE DEF nth
<1>11. ASSUME NEW n \in 1 .. k
       PROVE  [type |-> "trade_executed", aggressor |-> order.key,
               resting |-> nth(n).key, instrument |-> order.instrument,
               execution_price |-> nth(n).limit_price,
               executed_size |-> Abstract!Fill(nth(n), X, size)]
              = TradeWith(order, q[n], given[q[n]])
  BY <1>2, <1>10 DEF TradeWith
<1> QED BY <1>1, <1>8, <1>11

-----------------------------------------------------------------------------
(* The invariant of the refinement.                                        *)

\* The resting orders without the one the command in progress replaces.
Pool(resting, c) == {o \in resting : o.key # c.key}

\* The order that a command brings, as PriceTimeMatching enters it.
Arriving(c) ==
    [key |-> c.key, instrument |-> c.instrument, direction |-> c.direction,
     limit_price |-> c.pricing, open_size |-> c.size, sequence |-> c.sequence]

\* The orders it crosses.
Reach(resting, c) == Abstract!Crossed(Pool(resting, c), Arriving(c))

\* The answer so far: the command is accepted, and the trades of the queue.
Answer(c, q, given) ==
    <<accepted(IF c.kind = "submit" THEN "submit_accepted"
               ELSE "update_accepted", c.key)>>
    \o [n \in 1 .. Len(q) |-> TradeWith(Arriving(c), q[n], given[q[n]])]

\* A command that was accepted over these resting orders.
Admitted(resting, c) ==
    /\ c.key.user # 0 /\ c.key.client_order # 0
    /\ c.kind = "submit" => /\ c.instrument # 0
                            /\ \A o \in resting : o.key # c.key
    /\ c.kind = "replace" =>
          /\ c.pricing \in Price
          /\ \E o \in resting :
                /\ o.key = c.key
                /\ o.instrument = c.instrument /\ o.direction = c.direction
                /\ ~ (c.pricing = o.limit_price /\ c.size <= o.open_size)

\* How far such a command has come: the books hold R, the events are `stream'.
Progress(resting, c, R, stream) ==
    \E given, q :
        /\ Shared(Reach(resting, c), given, c.open_size, c.size)
        /\ Queue(q, Reach(resting, c), given)
        /\ R = Remaining(Pool(resting, c), Reach(resting, c), given)
        /\ stream = Answer(c, q, given)

\* What was visible at the last return is what rests now, or what rested when
\* the command in progress began.
RefInv ==
    /\ IndexInv
    /\ committed = [resting |-> committed.resting,
                    next_sequence |-> committed.next_sequence,
                    response |-> committed.response]
    /\ call = NoCall => /\ committed.resting = RestingOf(books)
                        /\ committed.next_sequence = next_sequence
    /\ call # NoCall => /\ committed.next_sequence = call.sequence
                        /\ call.sequence <= MaxSequence
                        /\ GoodPool(committed.resting, call.sequence)
                        /\ Admitted(committed.resting, call)
                        /\ Progress(committed.resting, call,
                                    RestingOf(books), events)

\* A new engine satisfies the invariant.
LEMMA InitRefInv == HInit => RefInv
<1> SUFFICES ASSUME HInit PROVE RefInv
  OBVIOUS
<1>1. IndexInv
  BY InitIndexInv DEF HInit
<1>2. /\ books = EmptyMap /\ next_sequence = 1 /\ call = NoCall
      /\ committed = [resting |-> {}, next_sequence |-> 1, response |-> <<>>]
  BY DEF HInit, Init
<1>3. RestingOf(books) = {}
  <2>1. DOMAIN books = {}
    BY <1>2 DEF EmptyMap
  <2> QED BY <2>1 DEF RestingOf
<1> QED BY <1>1, <1>2, <1>3 DEF RefInv

\* What is committed, by the way a step ends.
LEMMA CommittedStep ==
    ASSUME HNext
    PROVE  /\ Next
           /\ call' = NoCall =>
                 committed' = [resting |-> RestingOf(books'),
                               next_sequence |-> next_sequence',
                               response |-> Response(events')]
           /\ call' # NoCall =>
                 committed' = [committed EXCEPT !.response = <<>>]
BY DEF HNext, Visible, Resting, RestingOf

\* The pool is as good as the resting orders it is taken from.
LEMMA PoolGood ==
    ASSUME NEW resting, NEW n, GoodPool(resting, n), NEW c
    PROVE  GoodPool(Pool(resting, c), n)
<1>1. Pool(resting, c) \in SUBSET resting
  BY DEF Pool
<1>2. IsFiniteSet(Pool(resting, c))
  BY <1>1, FS_Subset DEF GoodPool
<1> QED BY <1>1, <1>2 DEF GoodPool

\* What a command crosses stands in priority.
LEMMA ReachRanked ==
    ASSUME NEW resting, NEW n, GoodPool(resting, n), NEW c \in Call
    PROVE  /\ Ranked(Reach(resting, c))
           /\ Reach(resting, c) \subseteq Pool(resting, c)
           /\ \A o \in Reach(resting, c) : o \in Placed
<1>1. GoodPool(Pool(resting, c), n)
  BY PoolGood
<1>2. Arriving(c).direction \in Side
  BY DEF Arriving, Call
<1> QED BY <1>1, <1>2, CrossedRanked DEF Reach

\* A command that has just begun has traded with nobody.
LEMMA BegunProgress ==
    ASSUME NEW resting, NEW n, GoodPool(resting, n),
           NEW c \in Call, c.open_size = c.size,
           NEW R, R = Pool(resting, c),
           NEW stream,
           stream = <<accepted(IF c.kind = "submit" THEN "submit_accepted"
                               ELSE "update_accepted", c.key)>>
    PROVE  Progress(resting, c, R, stream)
<1> DEFINE X == Reach(resting, c)
           P == Pool(resting, c)
           given == [o \in X |-> 0]
           q == <<>>
<1>1. Ranked(X) /\ X \subseteq P /\ \A o \in X : o \in Placed
  BY ReachRanked
<1>2. c.size \in Nat
  BY SizeModulusAssumption DEF Call, Quantity
<1> HIDE DEF X, P
<1>3. /\ given \in [X -> Nat] /\ \A o \in X : given[o] = 0
      /\ \A o \in X : o.open_size \in Nat \ {0}
      /\ IsFiniteSet(X)
  BY <1>1 DEF Ranked
<1> HIDE DEF given
<1>4. Shared(X, given, c.open_size, c.size)
  <2>1. Total(given, X) = 0
    BY <1>3, TotalZero
  <2> QED BY <1>2, <1>3, <2>1 DEF Shared
<1>5. Queue(q, X, given)
  <2>1. q \in Seq(X) /\ Len(q) = 0 /\ 1 .. 0 = {}
    OBVIOUS
  <2> QED BY <1>3, <2>1 DEF Queue
<1>6. P = Remaining(P, X, given)
  <2>1. \A o \in X : given[o] < o.open_size
    BY <1>3
  <2>2. \A o \in X : [o EXCEPT !.open_size = @ - given[o]] = o
    <3>1. ASSUME NEW o \in X
          PROVE  [o EXCEPT !.open_size = @ - given[o]] = o
      <4>1. o.open_size - given[o] = o.open_size
        BY <1>3
      <4>2. o \in Placed
        BY <1>1
      <4> QED BY <4>1, <4>2 DEF Placed
    <3> QED BY <3>1
  <2>3. {[o EXCEPT !.open_size = @ - given[o]] :
            o \in {r \in X : given[r] < r.open_size}} = X
    BY <2>1, <2>2
  <2> QED BY <1>1, <2>3 DEF Remaining
<1>7. stream = Answer(c, q, given)
  <2>1. [m \in 1 .. Len(q) |-> TradeWith(Arriving(c), q[m], given[q[m]])]
           = <<>>
    <3>1. 1 .. Len(q) = {}
      OBVIOUS
    <3> QED BY <3>1
  <2>2. \A e : <<e>> \o <<>> = <<e>>
    OBVIOUS
  <2> QED BY <2>1, <2>2 DEF Answer
<1> QED BY <1>4, <1>5, <1>6, <1>7 DEF Progress, X, P

-----------------------------------------------------------------------------
(* Commands that name an order.                                            *)

\* Between two commands the index names the orders that rest.
LEMMA Between ==
    ASSUME IndexInv, call = NoCall
    PROVE  /\ next_sequence \in Nat
           /\ GoodPool(RestingOf(books), next_sequence)
           /\ \A o \in RestingOf(books) : o.key \in DOMAIN active_orders
           /\ \A key \in DOMAIN active_orders :
                 \E o \in RestingOf(books) : o.key = key
<1>1. Unsettled = {} /\ Bound = next_sequence
  BY DEF Unsettled, Bound
<1>2. /\ next_sequence \in Nat /\ GoodBooks(books, next_sequence)
      /\ UniqueNodes(books) /\ Agree(books, active_orders, {})
  BY <1>1 DEF IndexInv, IInv, Indexed, Sequence
<1>3. /\ GoodPool(RestingOf(books), next_sequence)
      /\ \A o \in RestingOf(books) : o.key \in DOMAIN active_orders \ {}
      /\ \A key \in DOMAIN active_orders \ {} :
            \E o \in RestingOf(books) : o.key = key
  BY <1>2, RestingGood
<1> QED BY <1>2, <1>3

\* In a good pool an order is known by its key or by its number.
LEMMA LessOne ==
    ASSUME NEW R, NEW n, GoodPool(R, n), NEW f \in R
    PROVE  /\ Less(R, f.sequence) = R \ {f}
           /\ {o \in R : o.key # f.key} = R \ {f}
           /\ (CHOOSE o \in R : o.key = f.key) = f
BY DEF Less, GoodPool

\* The order of an active key: what taking it out (remove_order) or giving it
\* another size (reduce_order_size) does to the set of the resting orders.
LEMMA NamedOrder ==
    ASSUME IndexInv, call = NoCall, NEW key \in DOMAIN active_orders
    PROVE  LET active == active_orders[key]
               s == active.instrument
               d == active.direction
               before == LevelsOf(active)
               f == AsResting(s, Behind(before, active))
           IN  /\ s \in DOMAIN books
               /\ Holds(before, active, key)
               /\ f \in RestingOf(books)
               /\ f.key = key /\ f.instrument = s /\ f.direction = d
               /\ RestingOf(Stored(books, s, d, remove_order(before, active)))
                     = RestingOf(books) \ {f}
               /\ \A size :
                     RestingOf(Stored(books, s, d,
                                      reduce_order_size(before, active, size)))
                        = (RestingOf(books) \ {f})
                          \cup {[f EXCEPT !.open_size = size]}
               /\ \A pricing, size :
                     can_reduce(before, active, key, pricing, size) <=>
                        pricing = f.limit_price /\ size <= f.open_size
<1> DEFINE active == active_orders[key]
           s == active.instrument
           d == active.direction
           p == active.limit_price
           before == LevelsOf(active)
           r == Behind(before, active)
           f == AsResting(s, r)
           out == remove_order(before, active)
<1>0. IInv /\ Indexed /\ UniqueNodes(books)
  BY DEF IndexInv, Indexed
<1>1. key \in DOMAIN active_orders \ Unsettled
  BY DEF Unsettled
<1>2. s \in DOMAIN books /\ Holds(before, active, key)
  BY <1>0, <1>1, ActiveHeld
<1>3. /\ d \in Side /\ next_sequence \in Nat
      /\ GoodBooks(books, next_sequence)
      /\ GoodLevels(before, d, next_sequence)
  BY <1>0, <1>2, ActiveFacts
<1>4. /\ In(before, p, r) /\ r \in resting_order
      /\ r.sequence = active.node /\ r.key = key
  BY <1>2, <1>3, BehindFacts
<1>5. before = books[s][d] /\ At(books, s, d, p, r)
  BY <1>2, <1>3, <1>4 DEF LevelsOf, At
<1>6. \A q, o : In(out, q, o) <=> InBut(before, p, r.sequence, q, o)
  BY <1>2, <1>3, <1>4, RemoveOrderIn
<1>7. ASSUME NEW size
      PROVE  \A q, o : In(reduce_order_size(before, active, size), q, o) <=>
                          \/ InBut(before, p, r.sequence, q, o)
                          \/ q = p /\ o = [r EXCEPT !.open_size = size]
  BY <1>2, <1>3, <1>4, ReduceOrderIn
<1>8. ASSUME NEW pricing, NEW size
      PROVE  can_reduce(before, active, key, pricing, size) <=>
                pricing = p /\ size <= r.open_size
  BY <1>2 DEF can_reduce, Behind
<1>9. r.limit_price = p /\ r.direction = d
  BY <1>3, <1>5, AtFacts
<1> HIDE DEF s, d, p, before, r, out
<1>10. f \in RestingOf(books)
  BY <1>5, RestingIs
<1>11. /\ f.key = key /\ f.instrument = s /\ f.direction = d
       /\ f.limit_price = p /\ f.open_size = r.open_size
       /\ f.sequence = r.sequence
  BY <1>4, <1>9 DEF AsResting
<1>12. ASSUME NEW size
       PROVE  AsResting(s, [r EXCEPT !.open_size = size])
                 = [f EXCEPT !.open_size = size]
  BY <1>4 DEF AsResting, resting_order
<1> HIDE DEF f
<1>13. Less(RestingOf(books), r.sequence) = RestingOf(books) \ {f}
  BY <1>10, <1>11, Between, LessOne
<1>14. RestingOf(Stored(books, s, d, out)) = RestingOf(books) \ {f}
  <2>1. Removed(books, Stored(books, s, d, out), r)
    BY <1>0, <1>2, <1>3, <1>5, <1>6, StoredRemoved
  <2> QED BY <1>13, <2>1, RemovedResting
<1>15. ASSUME NEW size
       PROVE  RestingOf(Stored(books, s, d,
                               reduce_order_size(before, active, size)))
                 = (RestingOf(books) \ {f})
                   \cup {[f EXCEPT !.open_size = size]}
  <2> DEFINE x == reduce_order_size(before, active, size)
             z == [r EXCEPT !.open_size = size]
  <2>1. \A q, o : In(x, q, o) <=>
           InBut(books[s][d], p, r.sequence, q, o) \/ (q = p /\ o = z)
    BY <1>5, <1>7
  <2>2. AsResting(s, z) = [f EXCEPT !.open_size = size]
    BY <1>12
  <2> HIDE DEF x, z
  <2>3. Resized(books, Stored(books, s, d, x), s, d, p, r, z)
    BY <1>0, <1>2, <1>3, <1>5, <2>1, StoredResized
  <2>4. RestingOf(Stored(books, s, d, x)) =
           Less(RestingOf(books), r.sequence) \cup {AsResting(s, z)}
    BY <2>3, ResizedResting
  <2> QED BY <1>13, <2>2, <2>4 DEF x
<1> QED BY <1>2, <1>8, <1>10, <1>11, <1>14, <1>15
        DEF s, d, p, before, r, f, out

-----------------------------------------------------------------------------
(* The steps that begin a command.                                         *)

\* A submit or a replacement that begins: the order it replaces is out of the
\* books, the command is accepted, and no order has given anything yet.
LEMMA BegunRef ==
    ASSUME RefInv, HNext, IndexInv', call = NoCall,
           NEW c \in Call, call' = c, c.sequence = next_sequence,
           next_sequence <= MaxSequence,
           c.open_size = c.size,
           Admitted(RestingOf(books), c),
           RestingOf(books') = Pool(RestingOf(books), c),
           events' = <<accepted(IF c.kind = "submit" THEN "submit_accepted"
                                ELSE "update_accepted", c.key)>>
    PROVE  RefInv'
<1>1. c # NoCall
  BY DEF Call, NoCall
<1>2. /\ committed.resting = RestingOf(books)
      /\ committed.next_sequence = next_sequence
      /\ committed = [resting |-> committed.resting,
                      next_sequence |-> committed.next_sequence,
                      response |-> committed.response]
      /\ IndexInv
  BY DEF RefInv
<1>3. committed' = [committed EXCEPT !.response = <<>>]
  BY <1>1, CommittedStep
<1>4. /\ committed' = [resting |-> committed'.resting,
                       next_sequence |-> committed'.next_sequence,
                       response |-> committed'.response]
      /\ committed'.resting = RestingOf(books)
      /\ committed'.next_sequence = next_sequence
  BY <1>2, <1>3
<1>5. PICK R : R = RestingOf(books)
  OBVIOUS
<1>6. PICK n : n = next_sequence
  OBVIOUS
<1>7. GoodPool(R, n)
  BY <1>2, <1>5, <1>6, Between
<1>8. PICK S : S = RestingOf(books')
  OBVIOUS
<1>9. PICK stream : stream = events'
  OBVIOUS
<1>10. Progress(R, c, S, stream)
  BY <1>5, <1>7, <1>8, <1>9, BegunProgress
<1>11. GoodPool(committed'.resting, call'.sequence)
  BY <1>4, <1>5, <1>6, <1>7
<1>12. Admitted(committed'.resting, call')
  BY <1>4
<1>13. Progress(committed'.resting, call', RestingOf(books'), events')
  BY <1>4, <1>5, <1>8, <1>9, <1>10
<1>14. /\ committed'.next_sequence = call'.sequence
       /\ call'.sequence <= MaxSequence
       /\ call' # NoCall
  BY <1>1, <1>4
<1> QED BY <1>4, <1>11, <1>12, <1>13, <1>14 DEF RefInv

\* A submission begins over all the orders that rest: none has its key.
LEMMA SubmitBeginRef ==
    ASSUME RefInv, HNext, IndexInv', NEW key \in Keys,
           NEW instrument \in Symbols, NEW direction \in Side,
           NEW pricing \in Pricing, NEW size \in Quantity,
           SubmitBegin(key, instrument, direction, pricing, size)
    PROVE  RefInv'
<1>1. /\ call = NoCall /\ submit_verdict(key, instrument) = Ok
      /\ next_sequence <= MaxSequence
      /\ events' = <<accepted("submit_accepted", key)>>
      /\ call'.kind = "submit" /\ call'.key = key
      /\ call'.instrument = instrument
      /\ call'.open_size = size /\ call'.size = size
      /\ call'.sequence = next_sequence
  BY DEF SubmitBegin
<1>2. key \notin DOMAIN active_orders
  BY <1>1 DEF submit_verdict, Ok
<1>3. key.user # 0 /\ key.client_order # 0 /\ instrument # 0
  BY <1>1 DEF submit_verdict, Ok
<1>4. IndexInv
  BY DEF RefInv
<1>5. \A o \in RestingOf(books) : o.key # key
  BY <1>1, <1>2, <1>4, Between
<1>6. RestingOf(books') = RestingOf(books)
  <2>1. Same(books, books')
    BY SubmitBeginSame
  <2> QED BY <2>1, SameResting
<1>7. PICK c : c = call'
  OBVIOUS
<1>8. c \in Call
  <2>1. call' \in Call \cup {NoCall}
    BY DEF IndexInv, IInv
  <2>2. c # NoCall
    BY <1>1, <1>7 DEF NoCall
  <2> QED BY <1>7, <2>1, <2>2
<1>9. Pool(RestingOf(books), c) = RestingOf(books)
  BY <1>1, <1>5, <1>7 DEF Pool
<1>10. Admitted(RestingOf(books), c)
  BY <1>1, <1>3, <1>5, <1>7 DEF Admitted
<1>11. events' = <<accepted(IF c.kind = "submit" THEN "submit_accepted"
                            ELSE "update_accepted", c.key)>>
  BY <1>1, <1>7
<1> QED BY <1>1, <1>6, <1>7, <1>8, <1>9, <1>10, <1>11, BegunRef

\* A replacement begins over the others: its own order is taken out.
LEMMA ReplaceBeginRef ==
    ASSUME RefInv, HNext, IndexInv', NEW key \in Keys,
           NEW pricing \in Price, NEW size \in Quantity,
           ReplaceBegin(key, pricing, size)
    PROVE  RefInv'
<1> DEFINE active == active_orders[key]
           s == active.instrument
           d == active.direction
           before == LevelsOf(active)
           f == AsResting(s, Behind(before, active))
<1>1. /\ call = NoCall /\ update_verdict(key, pricing) = Ok
      /\ next_sequence <= MaxSequence
      /\ events' = <<accepted("update_accepted", key)>>
      /\ books' = Stored(books, s, d, remove_order(before, active))
      /\ ~ can_reduce(before, active, key, pricing, size)
      /\ call'.kind = "replace" /\ call'.key = key
      /\ call'.instrument = s /\ call'.direction = d
      /\ call'.pricing = pricing
      /\ call'.open_size = size /\ call'.size = size
      /\ call'.sequence = next_sequence
  BY DEF ReplaceBegin, Stored
<1>2. /\ key \in DOMAIN active_orders
      /\ key.user # 0 /\ key.client_order # 0
  BY <1>1 DEF update_verdict, Ok
<1>3. IndexInv
  BY DEF RefInv
<1>4. /\ f \in RestingOf(books) /\ f.key = key
      /\ f.instrument = s /\ f.direction = d
      /\ RestingOf(Stored(books, s, d, remove_order(before, active)))
            = RestingOf(books) \ {f}
      /\ can_reduce(before, active, key, pricing, size) <=>
            pricing = f.limit_price /\ size <= f.open_size
  BY <1>1, <1>2, <1>3, NamedOrder
<1> HIDE DEF s, d, before, f
<1>5. RestingOf(books') = {o \in RestingOf(books) : o.key # key}
  BY <1>1, <1>3, <1>4, Between, LessOne
<1>6. PICK c : c = call'
  OBVIOUS
<1>7. c \in Call
  <2>1. call' \in Call \cup {NoCall}
    BY DEF IndexInv, IInv
  <2>2. c # NoCall
    BY <1>1, <1>6 DEF NoCall
  <2> QED BY <1>6, <2>1, <2>2
<1>8. RestingOf(books') = Pool(RestingOf(books), c)
  BY <1>1, <1>5, <1>6 DEF Pool
<1>9. Admitted(RestingOf(books), c)
  <2>1. ~ (c.pricing = f.limit_price /\ c.size <= f.open_size)
    BY <1>1, <1>4, <1>6
  <2>2. c.kind = "replace" /\ c.key = key /\ c.pricing \in Price
        /\ f.instrument = c.instrument /\ f.direction = c.direction
    BY <1>1, <1>4, <1>6
  <2> QED BY <1>2, <1>4, <2>1, <2>2 DEF Admitted
<1>10. events' = <<accepted(IF c.kind = "submit" THEN "submit_accepted"
                            ELSE "update_accepted", c.key)>>
  BY <1>1, <1>6
<1> QED BY <1>1, <1>6, <1>7, <1>8, <1>9, <1>10, BegunRef

-----------------------------------------------------------------------------
(* A trade: one order of those that are crossed gives.                     *)

\* An order that rests, and that the incoming one crosses while some of it is
\* open, has given nothing yet.
LEMMA StillWhole ==
    ASSUME NEW P, NEW order, NEW X, X = Abstract!Crossed(P, order),
           \A o \in X : o \in Placed,
           NEW given, NEW left, NEW size, Shared(X, given, left, size),
           left # 0,
           NEW f \in Abstract!Crossed(Remaining(P, X, given), order)
    PROVE  f \in X /\ given[f] = 0
<1>1. /\ f \in Remaining(P, X, given)
      /\ f \in P => f \in X
  BY DEF Abstract!Crossed, Abstract!MarketPricing
<1>2. PICK o \in X : given[o] < o.open_size
                     /\ f = [o EXCEPT !.open_size = @ - given[o]]
  BY <1>1 DEF Remaining
<1>3. given[o] = 0
  BY <1>2 DEF Shared
<1>4. o \in Placed
  OBVIOUS
<1>5. f = o
  <2>1. o.open_size - given[o] = o.open_size
    BY <1>3, <1>4, SizeModulusAssumption DEF Placed, Quantity
  <2> QED BY <1>2, <1>4, <2>1 DEF Placed
<1> QED BY <1>3, <1>5

\* What the orders have given once f gives this much as well.
Gives(given, f, executed, more) == more = [given EXCEPT ![f] = executed]

\* The resting orders after f, one of them, has given this much.
After(R, f, executed) ==
    Less(R, f.sequence)
    \cup (IF executed < f.open_size
          THEN {[f EXCEPT !.open_size = @ - executed]} ELSE {})

\* What one more order gives is taken out of what rests.
LEMMA RemainingMore ==
    ASSUME NEW P, NEW n, GoodPool(P, n), NEW X, X \subseteq P,
           NEW given, given \in [X -> Nat],
           NEW f \in X, given[f] = 0, NEW executed,
           NEW more, Gives(given, f, executed, more)
    PROVE  Remaining(P, X, more) = After(Remaining(P, X, given), f, executed)
<1> DEFINE now(o) == [o EXCEPT !.open_size = @ - given[o]]
           then(o) == [o EXCEPT !.open_size = @ - more[o]]
<1>1. \A o \in X : o \in Placed
  BY DEF GoodPool
<1>2. ASSUME NEW o \in X
      PROVE  now(o).sequence = o.sequence
  BY <1>1 DEF Placed
<1>3. ASSUME NEW o \in X
      PROVE  o # f => more[o] = given[o] /\ o.sequence # f.sequence
  BY DEF GoodPool, Gives
<1>4. more[f] = executed
  BY DEF Gives
<1>5. \A o \in P \ X : o.sequence # f.sequence
  BY DEF GoodPool
<1>6. \A o \in X : o # f => then(o) = now(o)
  BY <1>3
<1>7. ASSUME NEW x
      PROVE  x \in Remaining(P, X, more) <=>
                \/ x \in P \ X
                \/ \E o \in X : more[o] < o.open_size /\ x = then(o)
  BY DEF Remaining
<1>8. ASSUME NEW x
      PROVE  x \in Remaining(P, X, given) <=>
                \/ x \in P \ X
                \/ \E o \in X : given[o] < o.open_size /\ x = now(o)
  BY DEF Remaining
<1>9. then(f) = [f EXCEPT !.open_size = @ - executed]
  BY <1>4
<1> HIDE DEF now, then
<1>10. ASSUME NEW x
       PROVE  x \in Remaining(P, X, more) <=>
                 \/ x \in Remaining(P, X, given) /\ x.sequence # f.sequence
                 \/ executed < f.open_size /\ x = then(f)
  <2>1. ASSUME x \in Remaining(P, X, more)
        PROVE  \/ x \in Remaining(P, X, given) /\ x.sequence # f.sequence
               \/ executed < f.open_size /\ x = then(f)
    <3>1. CASE x \in P \ X
      BY <1>5, <1>8, <3>1
    <3>2. CASE \E o \in X : more[o] < o.open_size /\ x = then(o)
      <4>1. PICK o \in X : more[o] < o.open_size /\ x = then(o)
        BY <3>2
      <4>2. CASE o = f
        BY <1>4, <4>1, <4>2
      <4>3. CASE o # f
        BY <1>2, <1>3, <1>6, <1>8, <4>1, <4>3
      <4> QED BY <4>2, <4>3
    <3> QED BY <1>7, <2>1, <3>1, <3>2
  <2>2. ASSUME x \in Remaining(P, X, given), x.sequence # f.sequence
        PROVE  x \in Remaining(P, X, more)
    <3>1. CASE x \in P \ X
      BY <1>7, <3>1
    <3>2. CASE \E o \in X : given[o] < o.open_size /\ x = now(o)
      <4>1. PICK o \in X : given[o] < o.open_size /\ x = now(o)
        BY <3>2
      <4>2. o # f
        BY <1>2, <2>2, <4>1
      <4> QED BY <1>3, <1>6, <1>7, <4>1, <4>2
    <3> QED BY <1>8, <2>2, <3>1, <3>2
  <2>3. ASSUME executed < f.open_size, x = then(f)
        PROVE  x \in Remaining(P, X, more)
    BY <1>4, <1>7, <2>3
  <2> QED BY <2>1, <2>2, <2>3
<1>11. PICK A : A = Remaining(P, X, more)
  OBVIOUS
<1>12. PICK B : B = Remaining(P, X, given)
  OBVIOUS
<1>13. PICK w : w = then(f)
  OBVIOUS
<1>14. \A x : x \in A <=> \/ x \in B /\ x.sequence # f.sequence
                          \/ executed < f.open_size /\ x = w
  BY <1>10, <1>11, <1>12, <1>13
<1>15. A = {o \in B : o.sequence # f.sequence}
           \cup (IF executed < f.open_size THEN {w} ELSE {})
  <2>1. CASE executed < f.open_size
    BY <1>14, <2>1
  <2>2. CASE ~ (executed < f.open_size)
    BY <1>14, <2>2
  <2> QED BY <2>1, <2>2
<1> QED BY <1>9, <1>11, <1>12, <1>13, <1>15 DEF After, Less

\* The queue q with f as its last; the orders in it have given what they had.
Lengthened(q, given, f, longer, more) ==
    /\ Len(q) \in Nat /\ Len(longer) = Len(q) + 1
    /\ longer[Len(q) + 1] = f
    /\ \A m \in 1 .. Len(q) : longer[m] = q[m] /\ more[q[m]] = given[q[m]]

\* It is the last in the queue of those that have given.
LEMMA QueueMore ==
    ASSUME NEW X, Ranked(X), NEW given, NEW left, NEW size,
           Shared(X, given, left, size),
           NEW q, Queue(q, X, given), NEW f \in X, given[f] = 0,
           NEW executed \in Nat \ {0},
           NEW more, Gives(given, f, executed, more),
           NEW longer, longer = Append(q, f)
    PROVE  Queue(longer, X, more) /\ Lengthened(q, given, f, longer, more)
<1>1. given \in [X -> Nat] /\ q \in Seq(X)
  BY DEF Shared, Queue
<1>2. /\ longer \in Seq(X)
      /\ Len(q) \in Nat /\ Len(longer) = Len(q) + 1
      /\ longer[Len(q) + 1] = f
      /\ \A m \in 1 .. Len(q) : longer[m] = q[m] /\ q[m] \in X
  BY <1>1
<1>3. more[f] = executed /\ \A o \in X : o # f => more[o] = given[o]
  BY <1>1 DEF Gives
<1>4. \A m \in 1 .. Len(q) : given[q[m]] > 0 /\ q[m] # f
  BY DEF Queue
<1>5. \A m \in 1 .. Len(q) : more[q[m]] = given[q[m]]
  BY <1>2, <1>3, <1>4
<1>6. \A o \in X : given[o] > 0 => Abstract!Precedes(o, f)
  <2> SUFFICES ASSUME NEW o \in X, given[o] > 0
               PROVE  Abstract!Precedes(o, f)
    OBVIOUS
  <2>1. o # f /\ f.open_size # 0
    BY DEF Ranked
  <2>2. ~ Abstract!Precedes(f, o)
    BY <2>1 DEF Shared
  <2> QED BY <2>1, <2>2 DEF Ranked
<1> DEFINE k == Len(q)
<1>7. k \in Nat
  BY <1>2
<1>8. \A m \in 1 .. k + 1 : m = k + 1 \/ m \in 1 .. k
  BY <1>7
<1>9. \A m \in 1 .. Len(longer) : more[longer[m]] > 0
  BY <1>2, <1>3, <1>4, <1>5, <1>8
<1>10. \A o \in X : more[o] > 0 => \E m \in 1 .. Len(longer) : o = longer[m]
  <2> SUFFICES ASSUME NEW o \in X, more[o] > 0
               PROVE  \E m \in 1 .. Len(longer) : o = longer[m]
    OBVIOUS
  <2>1. CASE o = f
    <3>1. k + 1 \in 1 .. Len(longer)
      BY <1>2
    <3> QED BY <1>2, <2>1, <3>1
  <2>2. CASE o # f
    <3>1. given[o] > 0
      BY <1>3, <2>2
    <3>2. PICK m \in 1 .. Len(q) : o = q[m]
      BY <3>1 DEF Queue
    <3>3. m \in 1 .. Len(longer) /\ longer[m] = o
      BY <1>2, <3>2
    <3> QED BY <3>3
  <2> QED BY <2>1, <2>2
<1>11. ASSUME NEW m \in 1 .. Len(longer), NEW j \in 1 .. Len(longer), m < j
       PROVE  Abstract!Precedes(longer[m], longer[j])
  <2>1. m \in 1 .. k
    BY <1>2, <1>11
  <2>2. CASE j = k + 1
    BY <1>2, <1>4, <1>6, <2>1, <2>2
  <2>3. CASE j \in 1 .. k
    BY <1>2, <1>11, <2>1, <2>3 DEF Queue
  <2> QED BY <1>2, <1>8, <2>2, <2>3
<1>12. Queue(longer, X, more)
  BY <1>2, <1>9, <1>10, <1>11 DEF Queue
<1> QED BY <1>2, <1>5, <1>12 DEF Lengthened

\* The answer grows by the trade with that order.
LEMMA AnswerMore ==
    ASSUME NEW c, NEW q, NEW longer, NEW given, NEW more, NEW f,
           Lengthened(q, given, f, longer, more)
    PROVE  Append(Answer(c, q, given), TradeWith(Arriving(c), f, more[f]))
              = Answer(c, longer, more)
<1> DEFINE head == accepted(IF c.kind = "submit" THEN "submit_accepted"
                            ELSE "update_accepted", c.key)
           a == [m \in 1 .. Len(q) |->
                    TradeWith(Arriving(c), q[m], given[q[m]])]
           b == [m \in 1 .. Len(longer) |->
                    TradeWith(Arriving(c), longer[m], more[longer[m]])]
           e == TradeWith(Arriving(c), f, more[f])
<1>1. PICK k \in Nat :
         /\ k = Len(q) /\ Len(longer) = k + 1
         /\ longer[k + 1] = f
         /\ \A m \in 1 .. k : longer[m] = q[m] /\ more[q[m]] = given[q[m]]
  BY DEF Lengthened
<1>2. /\ \A m \in 1 .. k : a[m] = b[m]
      /\ b[k + 1] = e
  BY <1>1
<1>3. PICK S : S = {head, e} \cup {a[m] : m \in 1 .. k}
  OBVIOUS
<1>4. /\ a \in [1 .. k -> S] /\ b \in [1 .. k + 1 -> S]
      /\ head \in S /\ e \in S
  <2>1. \A m \in 1 .. k : a[m] \in S
    BY <1>3
  <2>2. a = [m \in 1 .. k |-> a[m]]
    BY <1>1
  <2>3. \A m \in 1 .. k + 1 : m = k + 1 \/ m \in 1 .. k
    OBVIOUS
  <2>4. \A m \in 1 .. k + 1 : b[m] \in S
    <3> SUFFICES ASSUME NEW m \in 1 .. k + 1
                 PROVE  b[m] \in S
      OBVIOUS
    <3> HIDE DEF a, b, e, head
    <3>1. CASE m = k + 1
      BY <1>2, <1>3, <3>1
    <3>2. CASE m \in 1 .. k
      BY <1>2, <2>1, <3>2
    <3> QED BY <2>3, <3>1, <3>2
  <2>5. b = [m \in 1 .. k + 1 |-> b[m]]
    BY <1>1
  <2> HIDE DEF a, b
  <2> QED BY <1>3, <2>1, <2>2, <2>4, <2>5
<1> HIDE DEF a, b, e, head
<1>5. a \in Seq(S) /\ Len(a) = k /\ b \in Seq(S) /\ Len(b) = k + 1
  BY <1>4
<1>6. Append(a, e) = b
  <2>1. /\ Append(a, e) \in Seq(S) /\ Len(Append(a, e)) = k + 1
        /\ \A m \in 1 .. k : Append(a, e)[m] = a[m]
        /\ Append(a, e)[k + 1] = e
    BY <1>4, <1>5, AppendProperties
  <2>2. \A m \in 1 .. k + 1 : m = k + 1 \/ m \in 1 .. k
    OBVIOUS
  <2>3. \A m \in 1 .. Len(Append(a, e)) : Append(a, e)[m] = b[m]
    BY <1>2, <2>1, <2>2
  <2> QED BY <1>5, <2>1, <2>3, SeqEqual
<1>7. <<head>> \in Seq(S) /\ <<e>> \in Seq(S) /\ <<head>> \o a \in Seq(S)
  BY <1>4, <1>5
<1>8. Append(<<head>> \o a, e) = (<<head>> \o a) \o <<e>>
  BY <1>4, <1>7, AppendIsConcat
<1>9. (<<head>> \o a) \o <<e>> = <<head>> \o (a \o <<e>>)
  BY <1>5, <1>7, ConcatAssociative
<1>10. a \o <<e>> = b
  BY <1>4, <1>5, <1>6, AppendIsConcat
<1>11. Append(<<head>> \o a, e) = <<head>> \o b
  BY <1>8, <1>9, <1>10
<1> QED BY <1>11 DEF Answer, a, b, e, head

\* The command c after a trade of this size.
Closer(c, executed, b) ==
    /\ b.kind = c.kind /\ b.key = c.key /\ b.size = c.size
    /\ b.instrument = c.instrument /\ b.direction = c.direction
    /\ b.pricing = c.pricing /\ b.sequence = c.sequence
    /\ b.open_size = c.open_size - executed

\* One more order gives: the command has come so much further.
LEMMA ProgressMore ==
    ASSUME NEW resting, NEW n, GoodPool(resting, n), NEW c \in Call,
           c.open_size # 0,
           NEW R, NEW stream, Progress(resting, c, R, stream),
           NEW f \in Abstract!Crossed(R, Arriving(c)),
           \A o \in R : /\ o.instrument = f.instrument
                        /\ o.direction = f.direction
                        => ~ Abstract!Precedes(o, f),
           NEW executed \in Nat \ {0},
           executed <= c.open_size, executed <= f.open_size,
           executed = c.open_size \/ executed = f.open_size,
           NEW b, Closer(c, executed, b)
    PROVE  Progress(resting, b, After(R, f, executed),
                    Append(stream, TradeWith(Arriving(c), f, executed)))
<1> DEFINE P == Pool(resting, c)
           X == Reach(resting, c)
<1>1. PICK given, q :
         /\ Shared(X, given, c.open_size, c.size)
         /\ Queue(q, X, given)
         /\ R = Remaining(P, X, given)
         /\ stream = Answer(c, q, given)
  BY DEF Progress
<1>2. GoodPool(P, n)
  BY PoolGood
<1>3. Ranked(X) /\ X \subseteq P /\ \A o \in X : o \in Placed
  BY ReachRanked
<1>4. X = Abstract!Crossed(P, Arriving(c))
  BY DEF Reach
<1>5. c.size \in Nat /\ c.open_size \in Nat
  BY SizeModulusAssumption DEF Call, Quantity, Size
<1> HIDE DEF P, X
<1>6. f \in X /\ given[f] = 0
  BY <1>1, <1>3, <1>4, StillWhole
<1>7. given \in [X -> Nat] /\ \A o \in X : given[o] <= o.open_size
  BY <1>1 DEF Shared
<1>8. \A r \in X : Abstract!Precedes(r, f) => given[r] = r.open_size
  <2> SUFFICES ASSUME NEW r \in X, given[r] # r.open_size
               PROVE  ~ Abstract!Precedes(r, f)
    OBVIOUS
  <2>1. r \in Placed /\ r.open_size \in Nat
    BY <1>3 DEF Ranked
  <2>2. given[r] < r.open_size
    BY <1>7, <2>1
  <2> DEFINE o == [r EXCEPT !.open_size = @ - given[r]]
  <2>3. o \in R
    BY <1>1, <2>2 DEF Remaining
  <2>4. /\ o.instrument = r.instrument /\ o.direction = r.direction
        /\ o.limit_price = r.limit_price /\ o.sequence = r.sequence
    BY <2>1 DEF Placed
  <2> HIDE DEF o
  <2>5. /\ r.instrument = f.instrument /\ r.direction = f.direction
    <3>1. /\ r.instrument = Arriving(c).instrument
          /\ f.instrument = Arriving(c).instrument
          /\ r.direction # Arriving(c).direction
          /\ f.direction # Arriving(c).direction
      BY <1>4, <1>6 DEF Abstract!Crossed
    <3>2. Arriving(c).direction \in Side
      BY DEF Arriving, Call
    <3>3. r.direction \in Side /\ f.direction \in Side
      BY <1>3, <1>6 DEF Placed
    <3> QED BY <3>1, <3>2, <3>3 DEF Side
  <2>6. ~ Abstract!Precedes(o, f)
    BY <2>3, <2>4, <2>5
  <2> QED BY <2>4, <2>6 DEF Abstract!Precedes
<1>9. PICK more : Gives(given, f, executed, more)
  BY DEF Gives
<1>10. PICK longer : longer = Append(q, f)
  OBVIOUS
<1>11. Shared(X, more, c.open_size - executed, c.size)
  BY <1>1, <1>3, <1>5, <1>6, <1>8, <1>9, SharedMore DEF Gives
<1>12. Queue(longer, X, more) /\ Lengthened(q, given, f, longer, more)
  <2>1. PICK left : left = c.open_size
    OBVIOUS
  <2>2. PICK size : size = c.size
    OBVIOUS
  <2>3. Shared(X, given, left, size)
    BY <1>1, <2>1, <2>2
  <2> QED BY <1>1, <1>3, <1>6, <1>9, <1>10, <2>3, QueueMore
<1>13. After(R, f, executed) = Remaining(P, X, more)
  BY <1>1, <1>2, <1>3, <1>6, <1>7, <1>9, RemainingMore
<1>14. Append(stream, TradeWith(Arriving(c), f, executed))
          = Answer(c, longer, more)
  <2>1. more[f] = executed
    BY <1>6, <1>7, <1>9 DEF Gives
  <2> QED BY <1>1, <1>12, <2>1, AnswerMore
<1>15. /\ b.kind = c.kind /\ b.key = c.key /\ b.size = c.size
       /\ b.instrument = c.instrument /\ b.direction = c.direction
       /\ b.pricing = c.pricing /\ b.sequence = c.sequence
       /\ b.open_size = c.open_size - executed
  BY DEF Closer
<1>16. Pool(resting, b) = P /\ Arriving(b) = Arriving(c)
  BY <1>15 DEF Pool, Arriving, P
<1>17. Reach(resting, b) = X
  BY <1>16 DEF Reach, X, P
<1>18. Answer(b, longer, more) = Answer(c, longer, more)
  BY <1>15, <1>16 DEF Answer
<1> QED BY <1>11, <1>12, <1>13, <1>14, <1>15, <1>16, <1>17, <1>18 DEF Progress

\* The order match_against_level takes first (order_book.cpp:462) is crossed by
\* the incoming one, and no other order of the side precedes it.
LEMMA FrontFirst ==
    ASSUME IInv, call # NoCall, CanMatch
    PROVE  LET d == Opposite(call.direction)
               p == begin(d, OppositeLevels)
               r == Head(OppositeLevels[p].orders)
               f == AsResting(call.instrument, r)
           IN  /\ At(books, call.instrument, d, p, r)
               /\ f \in Abstract!Crossed(RestingOf(books), Arriving(call))
               /\ \A o \in RestingOf(books) :
                     o.instrument = f.instrument /\ o.direction = f.direction
                        => ~ Abstract!Precedes(o, f)
<1> DEFINE s == call.instrument
           d == Opposite(call.direction)
           p == begin(d, OppositeLevels)
           orders == OppositeLevels[p].orders
           r == Head(orders)
           f == AsResting(s, r)
<1>1. /\ s \in DOMAIN books /\ d \in Side /\ call.direction \in Side
      /\ call.sequence \in Nat
      /\ GoodBooks(books, call.sequence)
      /\ GoodLevels(OppositeLevels, d, call.sequence)
  BY CallFacts
<1>2. /\ DOMAIN OppositeLevels # {}
      /\ can_cross(call.direction, call.pricing, p)
  BY DEF CanMatch
<1>3. /\ p \in DOMAIN OppositeLevels
      /\ \A q \in DOMAIN OppositeLevels : ~ Better(d, q, p)
  <2>1. DOMAIN OppositeLevels \subseteq Price
    BY <1>1 DEF GoodLevels, IsLevels, IsMap
  <2> QED BY <1>2, <2>1, BeginIsBest
<1> HIDE DEF p
<1>4. In(OppositeLevels, p, r) /\ r \in resting_order
  BY <1>1, <1>3, TakeFromFrontIn
<1>5. OppositeLevels = books[s][d] /\ At(books, s, d, p, r)
  BY <1>1, <1>4 DEF OppositeLevels, At
<1>6. /\ orders \in Seq(resting_order) /\ orders # <<>>
      /\ OrderedList(orders, d, p, call.sequence)
  BY <1>1, <1>3, LevelFacts
<1>7. 1 \in DOMAIN orders /\ r = orders[1]
  BY <1>6
<1>8. r.limit_price = p /\ r.direction = d /\ p \in Price
  <2>1. p \in Price
    BY <1>1, <1>3, LevelFacts
  <2> QED BY <1>1, <1>5, <2>1, AtFacts
<1> HIDE DEF orders, r
<1>9. /\ f.instrument = s /\ f.direction = d /\ f.limit_price = p
      /\ f.sequence = r.sequence /\ f \in RestingOf(books)
  <2>1. AsResting(s, r) \in RestingOf(books)
    BY <1>5, RestingIs
  <2> QED BY <1>8, <2>1 DEF AsResting
<1> HIDE DEF f
<1>10. f \in Abstract!Crossed(RestingOf(books), Arriving(call))
  <2>1. /\ Arriving(call).instrument = s
        /\ Arriving(call).direction = call.direction
        /\ Arriving(call).limit_price = call.pricing
    BY DEF Arriving
  <2>2. d # call.direction
    BY <1>1 DEF Opposite, Side
  <2> HIDE DEF d, s
  <2> QED BY <1>2, <1>9, <2>1, <2>2
          DEF Abstract!Crossed, Abstract!MarketPricing, can_cross, Market
<1>11. ASSUME NEW o \in RestingOf(books),
              o.instrument = f.instrument, o.direction = f.direction
       PROVE  ~ Abstract!Precedes(o, f)
  <2>1. PICK t, e, q, x : At(books, t, e, q, x) /\ o = AsResting(t, x)
    BY RestingIs
  <2>2. /\ o.instrument = t /\ o.direction = x.direction
        /\ o.limit_price = x.limit_price /\ o.sequence = x.sequence
    BY <2>1 DEF AsResting
  <2>3. x.limit_price = q /\ x.direction = e
    BY <1>1, <2>1, AtFacts
  <2>4. In(OppositeLevels, q, x)
    BY <1>5, <1>9, <1>11, <2>1, <2>2, <2>3 DEF At
  <2>5. ~ Better(d, q, p)
    BY <1>3, <2>4 DEF In
  <2>6. q = p => ~ (x.sequence < r.sequence)
    <3> SUFFICES ASSUME q = p PROVE ~ (x.sequence < r.sequence)
      OBVIOUS
    <3>1. PICK i \in DOMAIN orders : x = orders[i]
      BY <2>4 DEF In, ToSet, orders
    <3>2. i = 1 \/ 1 < i
      BY <1>6, <3>1
    <3>3. r.sequence \in Nat /\ x.sequence \in Nat
      BY <1>1, <1>5, <2>1, AtFacts
    <3> QED BY <1>6, <1>7, <3>1, <3>2, <3>3 DEF OrderedList
  <2>7. q \in Price
    BY <1>1, <2>4, LevelFacts DEF In
  <2>8. d = "buy" \/ d = "sell"
    BY <1>1 DEF Side
  <2> HIDE DEF d, s
  <2> QED BY <1>8, <1>9, <1>11, <2>2, <2>3, <2>5, <2>6, <2>7, <2>8
          DEF Abstract!Precedes, Better, Price
<1> QED BY <1>5, <1>10, <1>11 DEF f, r, orders, p

\* One iteration of the loop is one more order of the queue.
LEMMA MatchFrontRef ==
    ASSUME RefInv, HNext, IndexInv', MatchFront
    PROVE  RefInv'
<1> DEFINE s == call.instrument
           d == Opposite(call.direction)
           p == begin(d, OppositeLevels)
           r == Head(OppositeLevels[p].orders)
           f == AsResting(s, r)
           executed == Min({call.open_size, r.open_size})
           after == take_from_front(OppositeLevels, p, executed)
           z == [r EXCEPT !.open_size = @ - executed]
           trade == trade_executed(call.key, r.key, s, r.limit_price, executed)
<1>1. /\ call # NoCall /\ CanMatch
      /\ call.open_size > 0 /\ DOMAIN OppositeLevels # {}
      /\ events' = Append(events, trade)
      /\ call' = [call EXCEPT
                     !.open_size = @ - executed,
                     !.filled = IF executed = r.open_size
                                THEN @ \cup {r.key} ELSE @]
      /\ books' = Stored(books, s, d, after)
  BY DEF MatchFront, match_against_level, CanMatch, Stored, OppositeLevels
<1>2. IndexInv /\ IInv /\ UniqueNodes(books)
  BY DEF RefInv, IndexInv, Indexed
<1>3. /\ At(books, s, d, p, r)
      /\ f \in Abstract!Crossed(RestingOf(books), Arriving(call))
      /\ \A o \in RestingOf(books) :
            o.instrument = f.instrument /\ o.direction = f.direction
               => ~ Abstract!Precedes(o, f)
  BY <1>1, <1>2, FrontFirst
<1>4. /\ call \in Call /\ s \in DOMAIN books /\ d \in Side
      /\ call.open_size \in Size /\ call.sequence \in Nat
      /\ GoodBooks(books, call.sequence)
      /\ GoodLevels(OppositeLevels, d, call.sequence)
  BY <1>1, <1>2, CallFacts
<1>5. p \in DOMAIN OppositeLevels /\ OppositeLevels = books[s][d]
  BY <1>3 DEF At, In, OppositeLevels
<1> HIDE DEF p
<1>6. \A q, o : In(after, q, o) <=>
                   \/ InBut(OppositeLevels, p, r.sequence, q, o)
                   \/ executed # r.open_size /\ q = p /\ o = z
  BY <1>4, <1>5, TakeFromFrontIn
<1>7. r \in resting_order
  BY <1>3, <1>4, AtFacts
<1> HIDE DEF r
<1>8. /\ executed \in Nat \ {0} /\ executed <= call.open_size
      /\ executed <= r.open_size
      /\ executed = call.open_size \/ executed = r.open_size
      /\ r.open_size \in Nat /\ call.open_size \in Nat
  <2>1. /\ call.open_size \in Nat \ {0} /\ r.open_size \in Nat \ {0}
    BY <1>1, <1>4, <1>7, SizeModulusAssumption
       DEF Size, Quantity, resting_order
  <2>2. /\ executed \in {call.open_size, r.open_size}
        /\ \A y \in {call.open_size, r.open_size} : executed <= y
    <3>1. \E x \in {call.open_size, r.open_size} :
             \A y \in {call.open_size, r.open_size} : x <= y
      BY <2>1
    <3> QED BY <3>1 DEF Min
  <2> HIDE DEF executed
  <2> QED BY <2>1, <2>2
<1> HIDE DEF s, d, executed, after
<1>9. /\ f.sequence = r.sequence /\ f.open_size = r.open_size
      /\ f.key = r.key /\ f.limit_price = r.limit_price
      /\ AsResting(s, z) = [f EXCEPT !.open_size = @ - executed]
  BY <1>7 DEF AsResting, resting_order
<1> HIDE DEF z, f
<1>10. RestingOf(books') = After(RestingOf(books), f, executed)
  <2>1. CASE executed = r.open_size
    <3>1. \A q, o : In(after, q, o) <=> InBut(books[s][d], p, r.sequence, q, o)
      BY <1>5, <1>6, <2>1
    <3>2. Removed(books, Stored(books, s, d, after), r)
      BY <1>2, <1>3, <1>4, <3>1, StoredRemoved
    <3>3. Removed(books, books', r)
      BY <1>1, <3>2
    <3>4. RestingOf(books') = Less(RestingOf(books), r.sequence)
      BY <3>3, RemovedResting
    <3>5. ~ (executed < f.open_size)
      BY <1>8, <1>9, <2>1
    <3> QED BY <1>9, <3>4, <3>5 DEF After
  <2>2. CASE executed # r.open_size
    <3>1. \A q, o : In(after, q, o) <=>
                       InBut(books[s][d], p, r.sequence, q, o)
                       \/ (q = p /\ o = z)
      BY <1>5, <1>6, <2>2
    <3>2. Resized(books, Stored(books, s, d, after), s, d, p, r, z)
      BY <1>2, <1>3, <1>4, <3>1, StoredResized
    <3>3. Resized(books, books', s, d, p, r, z)
      BY <1>1, <3>2
    <3>4. RestingOf(books') =
             Less(RestingOf(books), r.sequence) \cup {AsResting(s, z)}
      BY <3>3, ResizedResting
    <3>5. executed < f.open_size
      BY <1>8, <1>9, <2>2
    <3> QED BY <1>9, <3>4, <3>5 DEF After
  <2> QED BY <2>1, <2>2
<1>11. PICK b : b = call'
  OBVIOUS
<1>12. Closer(call, executed, b) /\ b # NoCall
  <2>1. Closer(call, executed, b)
    BY <1>1, <1>4, <1>11 DEF Closer, Call
  <2>2. b # NoCall
    BY <1>4, <2>1 DEF Closer, Call, NoCall
  <2> QED BY <2>1, <2>2
<1>13. trade = TradeWith(Arriving(call), f, executed)
  BY <1>9 DEF TradeWith, Arriving, trade_executed, s
<1> HIDE DEF trade
<1>14. /\ committed.next_sequence = call.sequence
       /\ call.sequence <= MaxSequence
       /\ GoodPool(committed.resting, call.sequence)
       /\ Admitted(committed.resting, call)
       /\ Progress(committed.resting, call, RestingOf(books), events)
       /\ committed = [resting |-> committed.resting,
                       next_sequence |-> committed.next_sequence,
                       response |-> committed.response]
  BY <1>1 DEF RefInv
<1>15. PICK R : R = RestingOf(books)
  OBVIOUS
<1>16. PICK S : S = RestingOf(books')
  OBVIOUS
<1>17. PICK pool : pool = committed.resting
  OBVIOUS
<1>18. PICK stream : stream = Append(events, trade)
  OBVIOUS
<1>19. call.open_size # 0
  BY <1>1, <1>8
<1>20. Progress(pool, b, S, stream)
  <2>1. Progress(pool, b, After(R, f, executed),
                 Append(events, TradeWith(Arriving(call), f, executed)))
    BY <1>3, <1>4, <1>8, <1>9, <1>12, <1>14, <1>15, <1>17, <1>19,
       ProgressMore
  <2> QED BY <1>10, <1>13, <1>15, <1>16, <1>18, <2>1
<1>21. Admitted(pool, b)
  BY <1>12, <1>14, <1>17 DEF Admitted, Closer
<1>22. /\ committed'.resting = pool
       /\ committed'.next_sequence = b.sequence
       /\ committed' = [resting |-> committed'.resting,
                        next_sequence |-> committed'.next_sequence,
                        response |-> committed'.response]
  <2>1. committed' = [committed EXCEPT !.response = <<>>]
    BY <1>11, <1>12, CommittedStep
  <2> QED BY <1>12, <1>14, <1>17, <2>1 DEF Closer
<1>23. b.sequence <= MaxSequence /\ GoodPool(pool, b.sequence)
  BY <1>12, <1>14, <1>17 DEF Closer
<1> QED BY <1>1, <1>11, <1>12, <1>16, <1>18, <1>20, <1>21, <1>22, <1>23
        DEF RefInv

\* A step that ends a command, or is one, shows what it did at once.
LEMMA SettledRef ==
    ASSUME HNext, IndexInv', call' = NoCall
    PROVE  RefInv'
<1>1. committed' = [resting |-> RestingOf(books'),
                    next_sequence |-> next_sequence',
                    response |-> Response(events')]
  BY CommittedStep
<1>2. /\ committed' = [resting |-> committed'.resting,
                       next_sequence |-> committed'.next_sequence,
                       response |-> committed'.response]
      /\ committed'.resting = RestingOf(books')
      /\ committed'.next_sequence = next_sequence'
  BY <1>1
<1> QED BY <1>2 DEF RefInv

\* The steps after which a command is in progress.
LEMMA RunningSteps ==
    ASSUME Next, call' # NoCall
    PROVE  \/ MatchFront
           \/ \E key \in Keys :
                 \/ \E instrument \in Symbols : \E direction \in Side :
                    \E pricing \in Pricing : \E size \in Quantity :
                       SubmitBegin(key, instrument, direction, pricing, size)
                 \/ \E pricing \in Price : \E size \in Quantity :
                       ReplaceBegin(key, pricing, size)
BY DEF Next, FinishSubmit, FinishReplace, CancelRejected, Cancel,
       SubmitRejected, UpdateRejected, UpdateReduce

\* Every step keeps the invariant of the refinement.
LEMMA NextRefInv ==
    ASSUME RefInv, [HNext]_hvars
    PROVE  RefInv'
<1>1. CASE UNCHANGED hvars
  <2>1. UNCHANGED <<books, active_orders, next_sequence, events, call,
                    committed>>
    BY <1>1 DEF hvars, vars
  <2>2. UNCHANGED vars
    BY <2>1 DEF vars
  <2>3. IndexInv'
    BY <2>2, NextIndexInv DEF RefInv
  <2> QED BY <2>1, <2>3 DEF RefInv
<1>2. CASE HNext
  <2> USE <1>2
  <2>1. Next
    BY CommittedStep
  <2>2. IndexInv'
    BY <2>1, NextIndexInv DEF RefInv
  <2>3. CASE call' = NoCall
    BY <2>2, <2>3, SettledRef
  <2>4. CASE call' # NoCall
    <3>1. CASE MatchFront
      BY <2>2, <3>1, MatchFrontRef
    <3>2. ASSUME NEW key \in Keys, NEW instrument \in Symbols,
                 NEW direction \in Side, NEW pricing \in Pricing,
                 NEW size \in Quantity,
                 SubmitBegin(key, instrument, direction, pricing, size)
          PROVE  RefInv'
      BY <2>2, <3>2, SubmitBeginRef
    <3>3. ASSUME NEW key \in Keys, NEW pricing \in Price,
                 NEW size \in Quantity, ReplaceBegin(key, pricing, size)
          PROVE  RefInv'
      BY <2>2, <3>3, ReplaceBeginRef
    <3> QED BY <2>1, <2>4, <3>1, <3>2, <3>3, RunningSteps
  <2> QED BY <2>3, <2>4
<1> QED BY <1>1, <1>2

\* The invariant of the refinement holds in every reachable state: between
\* two trades of a command the books hold what the orders crossed have left,
\* and the events are the trades with them, in priority.
THEOREM RefInductive == HSpec => []RefInv
BY InitRefInv, NextRefInv, PTL DEF HSpec

-----------------------------------------------------------------------------
(* Steps of the engine as steps of PriceTimeMatching.                      *)

\* A step after which a command is in progress: the answer to the one before
\* has been taken.
LEMMA RunningStep ==
    ASSUME RefInv, HNext, call' # NoCall
    PROVE  Abstract!Take
<1>1. committed = [resting |-> committed.resting,
                   next_sequence |-> committed.next_sequence,
                   response |-> committed.response]
  BY DEF RefInv
<1>2. committed' = [committed EXCEPT !.response = <<>>]
  BY CommittedStep
<1>3. /\ committed'.response = <<>>
      /\ committed'.resting = committed.resting
      /\ committed'.next_sequence = committed.next_sequence
  BY <1>1, <1>2
<1> QED BY <1>3 DEF Abstract!Take

\* A step that ends a command, or is one, from the orders visible before to
\* those visible after.
LEMMA ShownStep ==
    ASSUME HNext, call' = NoCall
    PROVE  /\ committed'.resting = RestingOf(books')
           /\ committed'.next_sequence = next_sequence'
           /\ committed'.response = Response(events')
BY CommittedStep

\* The active keys and the order of a key.
LEMMA ActiveIs ==
    ASSUME RefInv, call = NoCall
    PROVE  /\ committed.resting = RestingOf(books)
           /\ committed.next_sequence = next_sequence
           /\ Abstract!ActiveKeys = DOMAIN active_orders
           /\ \A o \in RestingOf(books) : Abstract!OrderOf(o.key) = o
<1>1. /\ committed.resting = RestingOf(books)
      /\ committed.next_sequence = next_sequence /\ IndexInv
  BY DEF RefInv
<1>2. /\ GoodPool(RestingOf(books), next_sequence)
      /\ \A o \in RestingOf(books) : o.key \in DOMAIN active_orders
      /\ \A key \in DOMAIN active_orders :
            \E o \in RestingOf(books) : o.key = key
  BY <1>1, Between
<1>3. Abstract!ActiveKeys = DOMAIN active_orders
  BY <1>1, <1>2 DEF Abstract!ActiveKeys
<1>4. \A o \in RestingOf(books) : Abstract!OrderOf(o.key) = o
  BY <1>1, <1>2, LessOne DEF Abstract!OrderOf
<1> QED BY <1>1, <1>3, <1>4

\* One event is heard as itself.
LEMMA OneHeard ==
    ASSUME NEW e \in event, e.type # "book_updated"
    PROVE  Response(<<e>>) = <<e>>
BY OneSilent, ResponseSilent

\* The same with a book update after it.
LEMMA OneHeardUpdated ==
    ASSUME NEW e \in event, e.type # "book_updated",
           NEW i \in Symbols, NEW d \in Side, NEW before,
           NEW after \in top_of_book_state
    PROVE  Response(<<e>> \o book_update_if_changed(i, d, before, after))
              = <<e>>
<1>1. PICK a \in Seq(event) : a = <<e>>
  BY OneSilent
<1>2. PICK b : Updated(a, i, d, before, after, b)
  BY DEF Updated
<1>3. Response(b) = Response(a)
  BY <1>2, ResponseTold
<1> QED BY <1>1, <1>2, <1>3, OneHeard DEF Updated

\* A refused command: one event, and nothing else changes.
LEMMA RefusedStep ==
    ASSUME RefInv, HNext, call = NoCall, call' = NoCall,
           UNCHANGED <<books, next_sequence>>,
           NEW type \in {"submit_rejected", "update_rejected",
                         "cancel_rejected"},
           NEW key \in Keys, NEW reason \in Reason,
           events' = <<rejected(type, key, reason)>>
    PROVE  Abstract!Refuse(type, key, reason)
<1>1. Response(<<rejected(type, key, reason)>>)
         = <<rejected(type, key, reason)>>
  <2>1. rejected(type, key, reason) \in event
    BY RejectedType
  <2>2. rejected(type, key, reason).type # "book_updated"
    BY DEF rejected
  <2> HIDE DEF rejected
  <2> QED BY <2>1, <2>2, OneHeard
<1>2. committed'.response = <<rejected(type, key, reason)>>
  BY <1>1, ShownStep
<1>3. /\ committed'.resting = committed.resting
      /\ committed'.next_sequence = committed.next_sequence
  BY ActiveIs, ShownStep
<1> QED BY <1>2, <1>3 DEF Abstract!Refuse, rejected

\* submit refuses what PriceTimeMatching refuses, for the same reason.
LEMMA SubmitRejectedStep ==
    ASSUME RefInv, HNext, NEW key \in Keys, NEW instrument \in Symbols,
           SubmitRejected(key, instrument)
    PROVE  Abstract!RefuseSubmit(key, instrument)
<1>1. /\ call = NoCall /\ call' = NoCall
      /\ UNCHANGED <<books, next_sequence>>
      /\ submit_verdict(key, instrument) # Ok
      /\ events' = <<rejected("submit_rejected", key,
                              submit_verdict(key, instrument))>>
  BY DEF SubmitRejected
<1>2. ASSUME NEW reason \in Reason, submit_verdict(key, instrument) = reason
      PROVE  Abstract!Refuse("submit_rejected", key, reason)
  BY <1>1, <1>2, RefusedStep
<1>3. Abstract!ActiveKeys = DOMAIN active_orders
  BY <1>1, ActiveIs
<1>4. CASE key.user = 0
  <2>1. submit_verdict(key, instrument) = "user id must be non-zero"
    BY <1>4 DEF submit_verdict
  <2> QED BY <1>2, <1>4, <2>1 DEF Abstract!RefuseSubmit, Reason
<1>5. CASE key.user # 0 /\ key.client_order = 0
  <2>1. submit_verdict(key, instrument) = "client order id must be non-zero"
    BY <1>5 DEF submit_verdict
  <2> QED BY <1>2, <1>5, <2>1 DEF Abstract!RefuseSubmit, Reason
<1>6. CASE key.user # 0 /\ key.client_order # 0 /\ instrument = 0
  <2>1. submit_verdict(key, instrument) = "symbol id must be non-zero"
    BY <1>6 DEF submit_verdict
  <2> QED BY <1>2, <1>6, <2>1
          DEF Abstract!RefuseSubmit, Abstract!ValidKey, Reason
<1>7. CASE key.user # 0 /\ key.client_order # 0 /\ instrument # 0
  <2>1. key \in DOMAIN active_orders
    BY <1>1, <1>7 DEF submit_verdict
  <2>2. submit_verdict(key, instrument) = "order key is already active"
    BY <1>7, <2>1 DEF submit_verdict
  <2> QED BY <1>2, <1>3, <1>7, <2>1, <2>2
          DEF Abstract!RefuseSubmit, Abstract!ValidKey, Reason
<1> QED BY <1>4, <1>5, <1>6, <1>7

\* The two verdicts on a corrupted index are never given.
LEMMA SoundVerdicts ==
    ASSUME RefInv, call = NoCall, NEW key \in DOMAIN active_orders
    PROVE  /\ active_orders[key].instrument \in DOMAIN books
           /\ Holds(LevelsOf(active_orders[key]), active_orders[key], key)
BY NamedOrder DEF RefInv

\* update refuses what PriceTimeMatching refuses, for the same reason.
LEMMA UpdateRejectedStep ==
    ASSUME RefInv, HNext, NEW key \in Keys, NEW pricing \in Pricing,
           UpdateRejected(key, pricing)
    PROVE  Abstract!RefuseUpdate(key, pricing)
<1>1. /\ call = NoCall /\ call' = NoCall /\ books' = books
      /\ update_verdict(key, pricing) # Ok
      /\ next_sequence' =
            IF update_verdict(key, pricing) = "order book is inconsistent"
            THEN next_sequence + 1 ELSE next_sequence
      /\ events' = <<rejected("update_rejected", key,
                              update_verdict(key, pricing))>>
  BY DEF UpdateRejected
<1>2. ASSUME NEW reason \in Reason, update_verdict(key, pricing) = reason,
             reason # "order book is inconsistent"
      PROVE  Abstract!Refuse("update_rejected", key, reason)
  BY <1>1, <1>2, RefusedStep
<1>3. Abstract!ActiveKeys = DOMAIN active_orders
  BY <1>1, ActiveIs
<1>4. CASE key.user = 0
  <2>1. update_verdict(key, pricing) = "user id must be non-zero"
    BY <1>4 DEF update_verdict
  <2> QED BY <1>2, <1>4, <2>1 DEF Abstract!RefuseUpdate, Reason
<1>5. CASE key.user # 0 /\ key.client_order = 0
  <2>1. update_verdict(key, pricing) = "client order id must be non-zero"
    BY <1>5 DEF update_verdict
  <2> QED BY <1>2, <1>5, <2>1 DEF Abstract!RefuseUpdate, Reason
<1>6. CASE key.user # 0 /\ key.client_order # 0 /\ pricing = Market
  <2>1. update_verdict(key, pricing) = "update pricing must be limit"
    BY <1>6 DEF update_verdict
  <2> QED BY <1>2, <1>6, <2>1
          DEF Abstract!RefuseUpdate, Abstract!ValidKey, Reason,
              Abstract!MarketPricing, Market
<1>7. CASE key.user # 0 /\ key.client_order # 0 /\ pricing # Market
  <2>1. key \notin DOMAIN active_orders
    BY <1>1, <1>7, SoundVerdicts DEF update_verdict
  <2>2. update_verdict(key, pricing) = "order is not active"
    BY <1>7, <2>1 DEF update_verdict
  <2> QED BY <1>2, <1>3, <1>7, <2>1, <2>2
          DEF Abstract!RefuseUpdate, Abstract!ValidKey, Reason,
              Abstract!MarketPricing, Market
<1> QED BY <1>4, <1>5, <1>6, <1>7

\* cancel refuses what PriceTimeMatching refuses.
LEMMA CancelRejectedStep ==
    ASSUME RefInv, HNext, NEW key \in Keys, CancelRejected(key)
    PROVE  Abstract!RefuseCancel(key)
<1>1. /\ call = NoCall /\ call' = NoCall
      /\ UNCHANGED <<books, next_sequence>>
      /\ cancel_verdict(key) # Ok
      /\ events' = <<rejected("cancel_rejected", key, cancel_verdict(key))>>
  BY DEF CancelRejected
<1>2. key \notin DOMAIN active_orders
  BY <1>1, SoundVerdicts DEF cancel_verdict
<1>3. cancel_verdict(key) = "order is not active"
  BY <1>2 DEF cancel_verdict
<1>4. Abstract!Refuse("cancel_rejected", key, "order is not active")
  BY <1>1, <1>3, RefusedStep DEF Reason
<1>5. key \notin Abstract!ActiveKeys
  BY <1>1, <1>2, ActiveIs
<1> QED BY <1>4, <1>5 DEF Abstract!RefuseCancel

\* cancel takes the order of its key out.
LEMMA CancelStep ==
    ASSUME RefInv, HNext, NEW key \in Keys, Cancel(key)
    PROVE  Abstract!Cancel(key)
<1> DEFINE active == active_orders[key]
           s == active.instrument
           d == active.direction
           before == LevelsOf(active)
           after == remove_order(before, active)
           f == AsResting(s, Behind(before, active))
           e == accepted("order_cancelled", key)
<1>1. /\ call = NoCall /\ call' = NoCall /\ next_sequence' = next_sequence
      /\ key \in DOMAIN active_orders
  BY DEF Cancel, cancel_verdict, Ok
<1>2. IndexInv /\ IInv
  BY DEF RefInv, IndexInv
<1>3. /\ s \in DOMAIN books
      /\ Holds(before, active, key)
      /\ f \in RestingOf(books) /\ f.key = key
      /\ RestingOf(Stored(books, s, d, after)) = RestingOf(books) \ {f}
  BY <1>1, <1>2, NamedOrder
<1>4. /\ books' = Stored(books, s, d, after)
      /\ events' = <<e>> \o book_update_if_changed(s, d,
                         top_of_book(d, before), top_of_book(d, after))
  BY <1>3 DEF Cancel, Stored
<1>5. /\ s \in Symbols /\ d \in Side /\ next_sequence \in Nat
      /\ GoodLevels(before, d, next_sequence)
  BY <1>1, <1>2, <1>3, ActiveFacts
<1>6. top_of_book(d, after) \in top_of_book_state
  <2>1. GoodLevels(after, d, next_sequence)
    BY <1>3, <1>5, RemoveOrderGood
  <2> QED BY <2>1, TopOfBookType
<1>7. e \in event /\ e.type # "book_updated"
  <2>1. e \in event
    BY AcceptedType
  <2> QED BY <2>1 DEF accepted
<1>8. e = [type |-> "order_cancelled", key |-> key]
  BY DEF accepted
<1> HIDE DEF s, d, before, after, f, e
<1>9. Response(events') = <<e>>
  <2>1. PICK top : top = top_of_book(d, before)
    OBVIOUS
  <2>2. PICK new \in top_of_book_state : new = top_of_book(d, after)
    BY <1>6
  <2>3. Response(<<e>> \o book_update_if_changed(s, d, top, new)) = <<e>>
    BY <1>5, <1>7, OneHeardUpdated
  <2> QED BY <1>4, <2>1, <2>2, <2>3
<1>10. /\ committed'.resting = committed.resting \ {f}
       /\ committed'.next_sequence = committed.next_sequence
       /\ committed'.response = <<e>>
  BY <1>1, <1>3, <1>4, <1>9, ActiveIs, ShownStep
<1>11. key \in Abstract!ActiveKeys /\ Abstract!OrderOf(key) = f
  BY <1>1, <1>3, ActiveIs
<1> QED BY <1>8, <1>10, <1>11 DEF Abstract!Cancel

\* An update in place gives the order of its key another size.
LEMMA UpdateReduceStep ==
    ASSUME RefInv, HNext, NEW key \in Keys, NEW pricing \in Price,
           NEW size \in Quantity, UpdateReduce(key, pricing, size)
    PROVE  Abstract!Reduce(key, pricing, size)
<1> DEFINE active == active_orders[key]
           s == active.instrument
           d == active.direction
           before == LevelsOf(active)
           after == reduce_order_size(before, active, size)
           f == AsResting(s, Behind(before, active))
           e == accepted("update_accepted", key)
<1>1. /\ call = NoCall /\ call' = NoCall
      /\ next_sequence <= MaxSequence
      /\ next_sequence' = next_sequence + 1
      /\ update_verdict(key, pricing) = Ok
      /\ can_reduce(before, active, key, pricing, size)
      /\ books' = Stored(books, s, d, after)
      /\ events' = <<e>> \o book_update_if_changed(s, d,
                         top_of_book(d, before), top_of_book(d, after))
  BY DEF UpdateReduce, Stored
<1>2. IndexInv /\ IInv
  BY DEF RefInv, IndexInv
<1>3. key \in DOMAIN active_orders
  BY <1>1 DEF update_verdict, Ok
<1>4. /\ s \in DOMAIN books
      /\ Holds(before, active, key)
      /\ f \in RestingOf(books) /\ f.key = key
      /\ RestingOf(Stored(books, s, d, after))
            = (RestingOf(books) \ {f}) \cup {[f EXCEPT !.open_size = size]}
      /\ can_reduce(before, active, key, pricing, size) <=>
            pricing = f.limit_price /\ size <= f.open_size
  BY <1>1, <1>2, <1>3, NamedOrder
<1>5. /\ s \in Symbols /\ d \in Side /\ next_sequence \in Nat
      /\ GoodLevels(before, d, next_sequence)
  BY <1>1, <1>2, <1>3, <1>4, ActiveFacts
<1>6. top_of_book(d, after) \in top_of_book_state
  <2>1. GoodLevels(after, d, next_sequence)
    BY <1>4, <1>5, ReduceOrderGood
  <2> QED BY <2>1, TopOfBookType
<1>7. e \in event /\ e.type # "book_updated"
  <2>1. e \in event
    BY AcceptedType
  <2> QED BY <2>1 DEF accepted
<1>8. e = [type |-> "update_accepted", key |-> key]
  BY DEF accepted
<1> HIDE DEF s, d, before, after, f, e
<1>9. Response(events') = <<e>>
  <2>1. PICK top : top = top_of_book(d, before)
    OBVIOUS
  <2>2. PICK new \in top_of_book_state : new = top_of_book(d, after)
    BY <1>6
  <2>3. Response(<<e>> \o book_update_if_changed(s, d, top, new)) = <<e>>
    BY <1>5, <1>7, OneHeardUpdated
  <2> QED BY <1>1, <2>1, <2>2, <2>3
<1>10. PICK z : z = [f EXCEPT !.open_size = size]
  OBVIOUS
<1>11. /\ committed.resting = RestingOf(books)
       /\ committed.next_sequence = next_sequence
       /\ committed'.resting = (committed.resting \ {f}) \cup {z}
       /\ committed'.next_sequence = next_sequence + 1
       /\ committed'.response = <<e>>
  BY <1>1, <1>4, <1>9, <1>10, ActiveIs, ShownStep
<1>12. key \in Abstract!ActiveKeys /\ Abstract!OrderOf(key) = f
  BY <1>1, <1>3, <1>4, ActiveIs
<1>13. pricing = f.limit_price /\ size <= f.open_size
  BY <1>1, <1>4
<1> QED BY <1>1, <1>8, <1>10, <1>11, <1>12, <1>13
        DEF Abstract!Reduce, Abstract!Accept

-----------------------------------------------------------------------------
(* The end of a command: the step of PriceTimeMatching.                    *)

\* When the loop of match_order ends (order_book.cpp:436) with something left
\* open, nothing that rests is crossed any more.
LEMMA NothingCrossed ==
    ASSUME IInv, call # NoCall, ~ CanMatch, call.open_size # 0
    PROVE  Abstract!Crossed(RestingOf(books), Arriving(call)) = {}
<1> DEFINE s == call.instrument
           d == Opposite(call.direction)
           best == begin(d, OppositeLevels)
<1>1. /\ s \in DOMAIN books /\ d \in Side /\ call.direction \in Side
      /\ call.sequence \in Nat /\ call.open_size \in Size
      /\ GoodBooks(books, call.sequence)
      /\ GoodLevels(OppositeLevels, d, call.sequence)
  BY CallFacts
<1>2. call.open_size > 0
  BY <1>1, SizeModulusAssumption DEF Size
<1> SUFFICES ASSUME NEW o \in Abstract!Crossed(RestingOf(books),
                                               Arriving(call))
             PROVE  FALSE
  OBVIOUS
<1>3. /\ o \in RestingOf(books) /\ o.instrument = s
      /\ o.direction # call.direction
      /\ \/ call.pricing = 0
         \/ call.direction = "buy" /\ call.pricing >= o.limit_price
         \/ call.direction = "sell" /\ call.pricing <= o.limit_price
  BY DEF Abstract!Crossed, Abstract!MarketPricing, Arriving
<1>4. PICK t, e, q, x : At(books, t, e, q, x) /\ o = AsResting(t, x)
  BY <1>3, RestingIs
<1>5. /\ t = s /\ x.direction = o.direction /\ x.limit_price = o.limit_price
      /\ x.limit_price = q /\ x.direction = e /\ e \in Side
  <2>1. /\ o.instrument = t /\ o.direction = x.direction
        /\ o.limit_price = x.limit_price
    BY <1>4 DEF AsResting
  <2>2. x.limit_price = q /\ x.direction = e
    BY <1>1, <1>4, AtFacts
  <2>3. e \in Side
    BY <1>4 DEF At
  <2> QED BY <1>3, <2>1, <2>2, <2>3
<1>6. e = d
  BY <1>1, <1>3, <1>5 DEF Side, Opposite
<1>7. q \in DOMAIN OppositeLevels
  BY <1>4, <1>5, <1>6 DEF At, In, OppositeLevels
<1>8. best \in DOMAIN OppositeLevels /\ ~ Better(d, q, best)
  <2>1. DOMAIN OppositeLevels \subseteq Price
    BY <1>1 DEF GoodLevels, IsLevels, IsMap
  <2> QED BY <1>7, <2>1, BeginIsBest
<1>9. ~ can_cross(call.direction, call.pricing, best)
  BY <1>2, <1>7 DEF CanMatch
<1>10. best \in Nat /\ q \in Nat
  BY <1>1, <1>7, <1>8, LevelFacts DEF Price
<1>11. call.pricing \in Nat
  <2>1. call.pricing \in Pricing
    BY CallFacts
  <2> QED BY <2>1, MaxPriceAssumption DEF Pricing, Price, Market
<1>12. d = IF call.direction = "buy" THEN "sell" ELSE "buy"
  BY DEF Opposite
<1> HIDE DEF best, d
<1> QED BY <1>1, <1>3, <1>5, <1>8, <1>9, <1>10, <1>11, <1>12
        DEF can_cross, Better, Market, Side

\* So the orders crossed have given all they had, or all that was wanted.
LEMMA AllGiven ==
    ASSUME NEW resting, NEW n, GoodPool(resting, n), NEW c \in Call,
           NEW given,
           given \in [Reach(resting, c) -> Nat],
           NEW R,
           R = Remaining(Pool(resting, c), Reach(resting, c), given),
           Abstract!Crossed(R, Arriving(c)) = {},
           NEW o \in Reach(resting, c)
    PROVE  ~ (given[o] < o.open_size)
<1> SUFFICES ASSUME given[o] < o.open_size
             PROVE  FALSE
  OBVIOUS
<1> DEFINE r == [o EXCEPT !.open_size = @ - given[o]]
<1>1. o \in Placed
  BY ReachRanked
<1>2. r \in R
  BY DEF Remaining
<1>3. /\ r.instrument = o.instrument /\ r.direction = o.direction
      /\ r.limit_price = o.limit_price
  BY <1>1 DEF Placed
<1> HIDE DEF r
<1>4. r \in Abstract!Crossed(R, Arriving(c))
  BY <1>2, <1>3 DEF Abstract!Crossed, Reach
<1> QED BY <1>4

\* The tops a command reports at its end are well typed.
LEMMA FinishTops ==
    ASSUME IInv, call # NoCall, ~ CanMatch, StoreOwnLevels
    PROVE  /\ top_of_book(call.direction, OwnLevelsAfter)
                 \in top_of_book_state
           /\ top_of_book(Opposite(call.direction), OppositeLevels)
                 \in top_of_book_state
<1> DEFINE i == call.instrument
           own == call.direction
<1>1. /\ i \in DOMAIN books /\ own \in Side
      /\ GoodBooks(books, call.sequence)
      /\ GoodLevels(OppositeLevels, Opposite(own), call.sequence)
  BY CallFacts
<1>2. books' = Stored(books, i, own, OwnLevelsAfter)
  BY DEF StoreOwnLevels, Stored
<1>3. GoodBooks(books', next_sequence)
  BY FinishBooks
<1> HIDE DEF i, own
<1>4. i \in DOMAIN books' /\ books'[i][own] = OwnLevelsAfter
  <2>1. own \in DOMAIN books[i]
    BY <1>1 DEF GoodBooks, IsBook
  <2> QED BY <1>1, <1>2, <2>1 DEF Stored
<1>5. GoodLevels(OwnLevelsAfter, own, next_sequence)
  BY <1>1, <1>3, <1>4 DEF GoodBooks
<1> QED BY <1>1, <1>5, TopOfBookType DEF own

\* The book updates at the end of a command are not heard.
LEMMA FinishAnswer ==
    ASSUME IInv, Silent(events), call # NoCall, ~ CanMatch, StoreOwnLevels,
           \/ events' = events \o OwnUpdate \o OppositeUpdate
           \/ events' = events \o OppositeUpdate \o OwnUpdate
    PROVE  Response(events') = events
<1>1. /\ call.instrument \in Symbols /\ call.direction \in Side
      /\ Opposite(call.direction) \in Side
  BY CallFacts
<1>2. PICK i \in Symbols : i = call.instrument
  BY <1>1
<1>3. PICK d \in Side : d = call.direction
  BY <1>1
<1>4. PICK e \in Side : e = Opposite(call.direction)
  BY <1>1
<1>5. PICK own \in top_of_book_state :
         own = top_of_book(call.direction, OwnLevelsAfter)
  BY FinishTops
<1>6. PICK opposite \in top_of_book_state :
         opposite = top_of_book(Opposite(call.direction), OppositeLevels)
  BY FinishTops
<1>7. PICK a \in Seq(event) : a = events
  BY DEF IInv
<1>8. PICK ownBefore : ownBefore = call.own_before
  OBVIOUS
<1>9. PICK oppositeBefore : oppositeBefore = call.opposite_before
  OBVIOUS
<1>10. /\ OwnUpdate = book_update_if_changed(i, d, ownBefore, own)
       /\ OppositeUpdate =
             book_update_if_changed(i, e, oppositeBefore, opposite)
  BY <1>2, <1>3, <1>4, <1>5, <1>6, <1>8, <1>9 DEF OwnUpdate, OppositeUpdate
<1>11. Response(a) = a
  BY <1>7, ResponseSilent
<1>12. PICK z : z = events'
  OBVIOUS
<1>13. CASE z = a \o OwnUpdate \o OppositeUpdate
  <2>1. PICK b : Updated(a, i, d, ownBefore, own, b)
    BY DEF Updated
  <2>2. b \in Seq(event) /\ Response(b) = Response(a)
    BY <2>1, ResponseTold
  <2>3. Updated(b, i, e, oppositeBefore, opposite, z)
    BY <1>10, <1>13, <2>1 DEF Updated
  <2>4. Response(z) = Response(b)
    BY <2>2, <2>3, ResponseTold
  <2> QED BY <1>7, <1>11, <1>12, <2>2, <2>4
<1>14. CASE z = a \o OppositeUpdate \o OwnUpdate
  <2>1. PICK b : Updated(a, i, e, oppositeBefore, opposite, b)
    BY DEF Updated
  <2>2. b \in Seq(event) /\ Response(b) = Response(a)
    BY <2>1, ResponseTold
  <2>3. Updated(b, i, d, ownBefore, own, z)
    BY <1>10, <1>14, <2>1 DEF Updated
  <2>4. Response(z) = Response(b)
    BY <2>2, <2>3, ResponseTold
  <2> QED BY <1>7, <1>11, <1>12, <2>2, <2>4
<1> QED BY <1>7, <1>12, <1>13, <1>14

\* What is left of a limit order joins the orders that rest.
LEMMA FinishResting ==
    ASSUME IndexInv, call # NoCall, ~ CanMatch, StoreOwnLevels
    PROVE  RestingOf(books') =
              RestingOf(books) \cup Joining(Arriving(call), call.open_size)
<1> DEFINE r == [key |-> call.key, direction |-> call.direction,
                 limit_price |-> call.pricing, open_size |-> call.open_size,
                 sequence |-> call.sequence]
<1>1. /\ ~ Rests => Same(books, books')
      /\ Rests => Added(books, books', call.instrument, call.direction,
                        call.pricing, r)
  BY FinishOrders DEF IndexInv
<1>2. /\ AsResting(call.instrument, r) =
            [Arriving(call) EXCEPT !.open_size = call.open_size]
      /\ Arriving(call).limit_price = call.pricing
  BY DEF AsResting, Arriving
<1>3. Rests <=> call.open_size > 0 /\ Arriving(call).limit_price # 0
  BY <1>2 DEF Rests, Market
<1> HIDE DEF r
<1>4. CASE Rests
  <2>1. RestingOf(books') =
           RestingOf(books) \cup {AsResting(call.instrument, r)}
    BY <1>1, <1>4, AddedResting
  <2>2. Joining(Arriving(call), call.open_size) =
           {AsResting(call.instrument, r)}
    BY <1>2, <1>3, <1>4 DEF Joining
  <2> QED BY <2>1, <2>2
<1>5. CASE ~ Rests
  <2>1. RestingOf(books') = RestingOf(books)
    BY <1>1, <1>5, SameResting
  <2>2. Joining(Arriving(call), call.open_size) = {}
    BY <1>3, <1>5 DEF Joining
  <2> QED BY <2>1, <2>2
<1> QED BY <1>4, <1>5

\* From the beginning of a command to its end, what is visible changes as
\* when PriceTimeMatching enters the order at once.
LEMMA FinishEnter ==
    ASSUME RefInv, Silent(events), HNext, call # NoCall, call' = NoCall,
           ~ CanMatch, StoreOwnLevels,
           \/ events' = events \o OwnUpdate \o OppositeUpdate
           \/ events' = events \o OppositeUpdate \o OwnUpdate,
           NEW verdict,
           verdict = IF call.kind = "submit" THEN "submit_accepted"
                     ELSE "update_accepted"
    PROVE  Abstract!Enter(Pool(committed.resting, call), Arriving(call),
                          verdict)
<1>1. IndexInv /\ IInv
  BY DEF RefInv, IndexInv
<1>2. PICK c \in Call : c = call
  BY <1>1, CallFacts
<1>3. PICK resting : resting = committed.resting
  OBVIOUS
<1>4. PICK n : n = call.sequence
  OBVIOUS
<1>5. PICK R : R = RestingOf(books)
  OBVIOUS
<1>6. GoodPool(resting, n) /\ Progress(resting, c, R, events)
  BY <1>2, <1>3, <1>4, <1>5 DEF RefInv
<1> DEFINE P == Pool(resting, c)
           X == Reach(resting, c)
           order == Arriving(c)
<1>7. PICK given, q :
         /\ Shared(X, given, c.open_size, c.size)
         /\ Queue(q, X, given)
         /\ R = Remaining(P, X, given)
         /\ events = Answer(c, q, given)
  BY <1>6 DEF Progress
<1>8. Ranked(X) /\ X = Abstract!Crossed(P, order) /\ IsFiniteSet(X)
  BY <1>6, ReachRanked DEF Reach, Ranked
<1>9. c.open_size \in Nat /\ c.size \in Nat
  BY SizeModulusAssumption DEF Call, Quantity, Size
<1>10. given \in [X -> Nat]
  BY <1>7 DEF Shared
<1>11. \A o \in X : given[o] < o.open_size => c.open_size = 0
  <2>1. CASE c.open_size = 0
    BY <2>1
  <2>2. CASE c.open_size # 0
    <3>1. Abstract!Crossed(R, Arriving(c)) = {}
      BY <1>1, <1>2, <1>5, <2>2, NothingCrossed
    <3>2. \A o \in X : ~ (given[o] < o.open_size)
      BY <1>6, <1>7, <1>10, <3>1, AllGiven
    <3> QED BY <3>2
  <2> QED BY <2>1, <2>2
<1>12. order.open_size = c.size /\ order.key = c.key
  BY DEF Arriving
<1> HIDE DEF P, X, order
<1>13. \A o \in X : Abstract!Fill(o, X, c.size) = given[o]
  <2>1. PICK left \in Nat : left = c.open_size
    BY <1>9
  <2>2. PICK size \in Nat : size = c.size
    BY <1>9
  <2>3. ASSUME NEW o \in X
        PROVE  Abstract!Fill(o, X, size) = given[o]
    <3>1. Shared(X, given, left, size)
      BY <1>7, <2>1, <2>2
    <3>2. \A x \in X : given[x] < x.open_size => left = 0
      BY <1>11, <2>1
    <3> QED BY <1>8, <3>1, <3>2, SharedIsFill
  <2> QED BY <2>2, <2>3
<1>14. Numbers(given, X)
  BY <1>10 DEF Numbers
<1>15. c.open_size = order.open_size - Total(given, X)
  <2>1. Total(given, X) + c.open_size = c.size
    BY <1>7 DEF Shared
  <2>2. Total(given, X) \in Int
    BY <1>8, <1>10, TotalNat
  <2> QED BY <1>9, <1>12, <2>1, <2>2
<1>16. committed'.resting =
          Remaining(P, X, given) \cup Joining(order, c.open_size)
  <2>1. committed'.resting = RestingOf(books')
    BY ShownStep
  <2>2. RestingOf(books') =
           RestingOf(books) \cup Joining(Arriving(call), call.open_size)
    BY <1>1, FinishResting
  <2> QED BY <1>2, <1>5, <1>7, <2>1, <2>2 DEF order
<1>17. committed'.response =
          <<[type |-> verdict, key |-> order.key]>>
          \o Abstract!Trades(order, X)
  <2>1. committed'.response = events
    BY <1>1, FinishAnswer, ShownStep
  <2>2. Abstract!Trades(order, X) =
           [m \in 1 .. Len(q) |-> TradeWith(order, q[m], given[q[m]])]
    BY <1>7, <1>8, <1>10, <1>12, <1>13, QueueTrades
  <2>3. accepted(verdict, c.key) = [type |-> verdict, key |-> order.key]
    BY <1>12 DEF accepted
  <2>4. verdict = IF c.kind = "submit" THEN "submit_accepted"
                  ELSE "update_accepted"
    BY <1>2
  <2>5. Answer(c, q, given) = <<accepted(verdict, c.key)>>
           \o [m \in 1 .. Len(q) |-> TradeWith(order, q[m], given[q[m]])]
    BY <2>4 DEF Answer, order
  <2> QED BY <1>7, <2>1, <2>2, <2>3, <2>5
<1>18. Abstract!Enter(P, order, verdict)
  <2>1. \A x \in X : given[x] = Abstract!Fill(x, X, order.open_size)
    BY <1>12, <1>13
  <2>2. PICK left : left = c.open_size
    OBVIOUS
  <2>3. left = order.open_size - Total(given, X)
    BY <1>15, <2>2
  <2> QED BY <1>8, <1>14, <1>16, <1>17, <2>1, <2>2, <2>3, EnterIs
<1> QED BY <1>2, <1>3, <1>18 DEF P, order

\* The numbers of a command that ends.
LEMMA FinishAccept ==
    ASSUME RefInv, HNext, call # NoCall, call' = NoCall,
           next_sequence' = next_sequence
    PROVE  Abstract!Accept /\ committed.next_sequence = call.sequence
<1>1. committed.next_sequence = call.sequence /\ call.sequence <= MaxSequence
  BY DEF RefInv
<1>2. next_sequence = call.sequence + 1
  BY CallFacts DEF RefInv, IndexInv
<1>3. committed'.next_sequence = next_sequence
  BY ShownStep
<1> QED BY <1>1, <1>2, <1>3 DEF Abstract!Accept

\* A submission, from its beginning to its end, is Submit.
LEMMA FinishSubmitStep ==
    ASSUME RefInv, Silent(events), HNext, FinishSubmit
    PROVE  Abstract!Submit(call.key, call.instrument, call.direction,
                           call.pricing, call.size)
<1>1. /\ call.kind = "submit" /\ call # NoCall /\ call' = NoCall
      /\ ~ CanMatch /\ StoreOwnLevels
      /\ next_sequence' = next_sequence
      /\ \/ events' = events \o OwnUpdate \o OppositeUpdate
         \/ events' = events \o OppositeUpdate \o OwnUpdate
  BY DEF FinishSubmit, NoCall
<1>2. /\ call.key.user # 0 /\ call.key.client_order # 0
      /\ call.instrument # 0
      /\ \A o \in committed.resting : o.key # call.key
  BY <1>1 DEF RefInv, Admitted
<1>3. Abstract!Accept /\ committed.next_sequence = call.sequence
  BY <1>1, FinishAccept
<1>4. Pool(committed.resting, call) = committed.resting
  BY <1>2 DEF Pool
<1>5. Abstract!Order(call.key, call.instrument, call.direction, call.pricing,
                     call.size) = Arriving(call)
  BY <1>3 DEF Abstract!Order, Arriving
<1>6. Abstract!Enter(Pool(committed.resting, call), Arriving(call),
                     "submit_accepted")
  BY <1>1, FinishEnter
<1>7. Abstract!Enter(committed.resting,
                     Abstract!Order(call.key, call.instrument, call.direction,
                                    call.pricing, call.size),
                     "submit_accepted")
  BY <1>4, <1>5, <1>6
<1>8. call.key \notin Abstract!ActiveKeys
  BY <1>2 DEF Abstract!ActiveKeys
<1> QED BY <1>2, <1>3, <1>7, <1>8 DEF Abstract!Submit, Abstract!ValidKey

\* A replacement, from its beginning to its end, is Replace.
LEMMA FinishReplaceStep ==
    ASSUME RefInv, Silent(events), HNext, FinishReplace
    PROVE  Abstract!Replace(call.key, call.pricing, call.size)
<1>1. /\ call.kind = "replace" /\ call # NoCall /\ call' = NoCall
      /\ ~ CanMatch /\ StoreOwnLevels
      /\ next_sequence' = next_sequence
      /\ events' = events \o OwnUpdate \o OppositeUpdate
  BY DEF FinishReplace, NoCall
<1>2. /\ GoodPool(committed.resting, call.sequence)
      /\ Admitted(committed.resting, call)
  BY <1>1 DEF RefInv
<1>3. PICK f \in committed.resting :
         /\ f.key = call.key
         /\ f.instrument = call.instrument /\ f.direction = call.direction
         /\ ~ (call.pricing = f.limit_price /\ call.size <= f.open_size)
  BY <1>1, <1>2 DEF Admitted
<1>4. /\ Pool(committed.resting, call) = committed.resting \ {f}
      /\ Abstract!OrderOf(call.key) = f
  <2>1. PICK R : R = committed.resting
    OBVIOUS
  <2>2. PICK n : n = call.sequence
    OBVIOUS
  <2>3. /\ {o \in R : o.key # f.key} = R \ {f}
        /\ (CHOOSE o \in R : o.key = f.key) = f
    BY <1>2, <1>3, <2>1, <2>2, LessOne
  <2> QED BY <1>3, <2>1, <2>3 DEF Pool, Abstract!OrderOf
<1>5. Abstract!Accept /\ committed.next_sequence = call.sequence
  BY <1>1, FinishAccept
<1>6. Abstract!Order(call.key, f.instrument, f.direction, call.pricing,
                     call.size) = Arriving(call)
  BY <1>3, <1>5 DEF Abstract!Order, Arriving
<1>7. Abstract!Enter(Pool(committed.resting, call), Arriving(call),
                     "update_accepted")
  BY <1>1, FinishEnter
<1>8. Abstract!Enter(committed.resting \ {f},
                     Abstract!Order(call.key, f.instrument, f.direction,
                                    call.pricing, call.size),
                     "update_accepted")
  BY <1>4, <1>6, <1>7
<1>9. call.key \in Abstract!ActiveKeys
  BY <1>3 DEF Abstract!ActiveKeys
<1> QED BY <1>3, <1>4, <1>5, <1>8, <1>9 DEF Abstract!Replace

-----------------------------------------------------------------------------
(* The engine implements PriceTimeMatching.                                *)

\* A new engine is a new PriceTimeMatching.
LEMMA InitStep == HInit => Abstract!Init
BY DEF HInit, Abstract!Init

\* The commands of PriceTimeMatching, one by one.
LEMMA AbstractCommands ==
    /\ Abstract!Take => Abstract!Next
    /\ \A key \in Keys :
          /\ Abstract!Cancel(key) \/ Abstract!RefuseCancel(key)
                => Abstract!Next
          /\ \A pricing \in Pricing :
                Abstract!RefuseUpdate(key, pricing) => Abstract!Next
          /\ \A pricing \in Price : \A size \in Quantity :
                Abstract!Reduce(key, pricing, size)
                \/ Abstract!Replace(key, pricing, size) => Abstract!Next
          /\ \A instrument \in Symbols :
                /\ Abstract!RefuseSubmit(key, instrument) => Abstract!Next
                /\ \A direction \in Side : \A pricing \in Pricing :
                   \A size \in Quantity :
                      Abstract!Submit(key, instrument, direction, pricing, size)
                         => Abstract!Next
<1>1. Side = Abstract!Sides /\ Pricing = Price \cup {Abstract!MarketPricing}
  BY DEF Side, Abstract!Sides, Pricing, Market, Abstract!MarketPricing
<1> QED BY <1>1 DEF Abstract!Next

\* Every step of the engine is a step of PriceTimeMatching, or none.
LEMMA NextStep ==
    ASSUME RefInv, ViewInv, [HNext]_hvars
    PROVE  [Abstract!Next]_(Abstract!vars)
<1>1. CASE UNCHANGED hvars
  BY <1>1 DEF hvars, Abstract!vars
<1>2. CASE HNext /\ call' # NoCall
  BY <1>2, RunningStep, AbstractCommands
<1>3. CASE HNext /\ call' = NoCall
  <2> USE <1>3
  <2>1. Next
    BY CommittedStep
  <2>2. CASE MatchFront
    <3>1. PICK executed, filled :
             call' = [call EXCEPT !.open_size = @ - executed,
                                  !.filled = filled]
      BY <2>2 DEF MatchFront, match_against_level
    <3>2. call # NoCall /\ IInv
      BY <2>2 DEF MatchFront, RefInv, IndexInv
    <3>3. call'.kind = call.kind /\ call \in Call
      BY <3>1, <3>2, CallFacts DEF Call
    <3> QED BY <3>3 DEF Call, NoCall
  <2>3. CASE FinishSubmit
    <3>1. call # NoCall
      BY <2>3 DEF FinishSubmit, NoCall
    <3>2. Silent(events)
      BY <3>1 DEF ViewInv
    <3>3. /\ call.key \in Keys /\ call.instrument \in Symbols
          /\ call.direction \in Side /\ call.pricing \in Pricing
          /\ call.size \in Quantity
      BY <3>1, CallFacts DEF ViewInv, Call
    <3> QED BY <2>3, <3>2, <3>3, FinishSubmitStep, AbstractCommands
  <2>4. CASE FinishReplace
    <3>1. call # NoCall /\ call.kind = "replace"
      BY <2>4 DEF FinishReplace, NoCall
    <3>2. Silent(events)
      BY <3>1 DEF ViewInv
    <3>3. call.key \in Keys /\ call.size \in Quantity
      BY <3>1, CallFacts DEF ViewInv, Call
    <3>4. call.pricing \in Price
      BY <3>1 DEF RefInv, Admitted
    <3> QED BY <2>4, <3>2, <3>3, <3>4, FinishReplaceStep, AbstractCommands
  <2>5. ASSUME NEW key \in Keys, CancelRejected(key)
        PROVE  Abstract!Next
    BY <2>5, CancelRejectedStep, AbstractCommands
  <2>6. ASSUME NEW key \in Keys, Cancel(key)
        PROVE  Abstract!Next
    BY <2>6, CancelStep, AbstractCommands
  <2>7. ASSUME NEW key \in Keys, NEW instrument \in Symbols,
               SubmitRejected(key, instrument)
        PROVE  Abstract!Next
    BY <2>7, SubmitRejectedStep, AbstractCommands
  <2>8. ASSUME NEW key \in Keys, NEW instrument \in Symbols,
               NEW direction \in Side, NEW pricing \in Pricing,
               NEW size \in Quantity,
               SubmitBegin(key, instrument, direction, pricing, size)
        PROVE  FALSE
    BY <2>8 DEF SubmitBegin, NoCall
  <2>9. ASSUME NEW key \in Keys, NEW pricing \in Pricing,
               UpdateRejected(key, pricing)
        PROVE  Abstract!Next
    BY <2>9, UpdateRejectedStep, AbstractCommands
  <2>10. ASSUME NEW key \in Keys, NEW pricing \in Price,
                NEW size \in Quantity, UpdateReduce(key, pricing, size)
         PROVE  Abstract!Next
    BY <2>10, UpdateReduceStep, AbstractCommands
  <2>11. ASSUME NEW key \in Keys, NEW pricing \in Price,
                NEW size \in Quantity, ReplaceBegin(key, pricing, size)
         PROVE  FALSE
    BY <2>11 DEF ReplaceBegin, NoCall
  <2> QED BY <2>1, <2>2, <2>3, <2>4, <2>5, <2>6, <2>7, <2>8, <2>9, <2>10,
             <2>11 DEF Next
<1> QED BY <1>1, <1>2, <1>3

\* Engine implements PriceTimeMatching, for any number of keys and symbols,
\* any prices and sizes: every submit, update and cancel, with its loop over
\* the levels and their lists (order_book.cpp:436), does what one step of the
\* abstract specification does, and answers with the same events in the same
\* order.
THEOREM PriceTimeImplemented == HSpec => ImplementsPriceTime
<1>1. HInit => Abstract!Init
  BY InitStep
<1>2. RefInv /\ ViewInv /\ [HNext]_hvars => [Abstract!Next]_(Abstract!vars)
  BY NextStep
<1> QED BY <1>1, <1>2, RefInductive, ViewInductive, PTL
        DEF HSpec, ImplementsPriceTime, Abstract!Spec

-----------------------------------------------------------------------------
(* The levels of a side in the order of its map.                           *)

\* The prices among S that come before p.
Ahead(S, direction, p) == {q \in S : Better(direction, q, p)}

\* Every finite set of prices can be listed, best first: a price stands behind
\* as many others as are better.
LEMMA OrderExists ==
    ASSUME NEW S \in SUBSET Nat, IsFiniteSet(S), NEW direction
    PROVE  \E prices \in [1 .. Cardinality(S) -> S] :
              \A i, j \in 1 .. Cardinality(S) :
                 i < j => Better(direction, prices[i], prices[j])
<1> DEFINE n == Cardinality(S)
           rank == [p \in S |-> Cardinality(Ahead(S, direction, p)) + 1]
<1>0. \A x \in S : x \in Int
  OBVIOUS
<1>1. n \in Nat
  BY FS_CardinalityType
<1>2. ASSUME NEW p \in S
      PROVE  /\ IsFiniteSet(Ahead(S, direction, p))
             /\ Cardinality(Ahead(S, direction, p)) \in Nat
             /\ Cardinality(Ahead(S, direction, p)) <= n - 1
  <2>1. Ahead(S, direction, p) \in SUBSET (S \ {p})
    BY DEF Ahead, Better
  <2>2. IsFiniteSet(S \ {p}) /\ Cardinality(S \ {p}) = n - 1
    BY FS_RemoveElement
  <2> QED BY <2>1, <2>2, FS_Subset, FS_CardinalityType
<1>3. ASSUME NEW p \in S, NEW q \in S, Better(direction, p, q)
      PROVE  rank[p] < rank[q]
  <2> DEFINE A == Ahead(S, direction, p)
             B == Ahead(S, direction, q)
  <2>1. A \cup {p} \in SUBSET B /\ p \notin A
    <3>1. p \in Int /\ q \in Int
      BY <1>0
    <3>2. \A x \in A : x \in S /\ x \in Int /\ Better(direction, x, p)
      BY <1>0 DEF Ahead
    <3> HIDE DEF A
    <3>3. \A x \in A : Better(direction, x, q) /\ x # p
      BY <1>3, <3>1, <3>2 DEF Better
    <3> QED BY <1>3, <3>2, <3>3 DEF Ahead
  <2>2. /\ IsFiniteSet(A) /\ Cardinality(A) \in Nat
        /\ IsFiniteSet(B) /\ Cardinality(B) \in Nat
    BY <1>2
  <2> HIDE DEF A, B
  <2>3. Cardinality(A \cup {p}) = Cardinality(A) + 1
    BY <2>1, <2>2, FS_AddElement
  <2>4. Cardinality(A \cup {p}) <= Cardinality(B)
    BY <2>1, <2>2, FS_Subset
  <2>5. Cardinality(A) < Cardinality(B)
    BY <2>2, <2>3, <2>4
  <2> QED BY <2>2, <2>5 DEF A, B
<1>4. rank \in Injection(S, 1 .. n)
  <2>1. \A p \in S : rank[p] \in 1 .. n
    BY <1>1, <1>2
  <2>2. \A p, q \in S :
           p = q \/ Better(direction, p, q) \/ Better(direction, q, p)
    BY DEF Better
  <2>3. \A p \in S : rank[p] \in Int
    BY <2>1
  <2>4. rank \in [S -> 1 .. n]
    BY <2>1
  <2> HIDE DEF rank
  <2>5. \A p, q \in S : rank[p] = rank[q] => p = q
    BY <1>3, <2>2, <2>3
  <2> QED BY <2>4, <2>5 DEF Injection, IsInjective
<1>5. rank \in Surjection(S, 1 .. n)
  <2>1. IsFiniteSet(1 .. n) /\ Cardinality(1 .. n) = n
    BY <1>1, FS_Interval
  <2> HIDE DEF rank
  <2> QED BY <1>4, <2>1, FS_Injection
<1> HIDE DEF rank
<1>6. \A i \in 1 .. n : \E p \in S : rank[p] = i
  BY <1>5 DEF Surjection
<1> DEFINE prices == [i \in 1 .. n |-> CHOOSE p \in S : rank[p] = i]
<1>7. \A i \in 1 .. n : prices[i] \in S /\ rank[prices[i]] = i
  BY <1>6
<1>8. prices \in [1 .. n -> S]
  BY <1>7
<1> HIDE DEF prices
<1>9. ASSUME NEW i \in 1 .. n, NEW j \in 1 .. n, i < j
      PROVE  Better(direction, prices[i], prices[j])
  <2>1. prices[i] \in S /\ prices[j] \in S
    BY <1>7
  <2>2. prices[i] # prices[j]
    BY <1>7, <1>9
  <2>3. ~ Better(direction, prices[j], prices[i])
    <3>1. i \in Int /\ j \in Int
      BY <1>1
    <3>2. SUFFICES ASSUME Better(direction, prices[j], prices[i])
                   PROVE  FALSE
      OBVIOUS
    <3>3. rank[prices[j]] < rank[prices[i]]
      BY <1>3, <2>1, <3>2
    <3>4. rank[prices[j]] = j /\ rank[prices[i]] = i
      BY <1>7
    <3> QED BY <1>9, <3>1, <3>3, <3>4
  <2>4. prices[i] \in Int /\ prices[j] \in Int
    BY <1>0, <2>1
  <2> QED BY <2>2, <2>3, <2>4 DEF Better
<1> QED BY <1>8, <1>9

\* The prices as the map lists them: each stands at its rank.
LEMMA InOrder ==
    ASSUME NEW levels, NEW direction,
           DOMAIN levels \subseteq Nat, IsFiniteSet(DOMAIN levels),
           NEW n, n = Cardinality(DOMAIN levels),
           NEW prices, prices = in_order(direction, levels)
    PROVE  /\ n \in Nat
           /\ \A i \in 1 .. n :
                 /\ prices[i] \in DOMAIN levels
                 /\ Cardinality(Ahead(DOMAIN levels, direction, prices[i]))
                       = i - 1
<1> DEFINE S == DOMAIN levels
           P(q) == \A i, j \in 1 .. n : i < j => Better(direction, q[i], q[j])
<1>1. n \in Nat
  BY FS_CardinalityType
<1>2. \E q \in [1 .. n -> S] : P(q)
  BY OrderExists
<1>3. prices = CHOOSE q \in [1 .. n -> S] : P(q)
  BY DEF in_order
<1> HIDE DEF P
<1>4. prices \in [1 .. n -> S] /\ P(prices)
  BY <1>2, <1>3
<1>5. \A i, j \in 1 .. n : i < j => Better(direction, prices[i], prices[j])
  BY <1>4 DEF P
<1>6. \A i \in 1 .. n : prices[i] \in S /\ prices[i] \in Nat
  BY <1>4
<1>7. \A i, j \in 1 .. n : i # j => prices[i] # prices[j]
  <2>1. \A i, j \in 1 .. n : i < j => prices[i] # prices[j]
    BY <1>5, <1>6 DEF Better
  <2> QED BY <2>1, <1>1
<1>8. \A p \in S : \E i \in 1 .. n : p = prices[i]
  <2>1. prices \in Injection(1 .. n, S)
    BY <1>4, <1>7 DEF Injection, IsInjective
  <2>2. IsFiniteSet(1 .. n) /\ Cardinality(1 .. n) = n
    BY <1>1, FS_Interval
  <2>3. prices \in Surjection(1 .. n, S)
    BY <2>1, <2>2, FS_Injection
  <2> QED BY <2>3 DEF Surjection
<1>9. ASSUME NEW i \in 1 .. n
      PROVE  Cardinality(Ahead(S, direction, prices[i])) = i - 1
  <2>1. Ahead(S, direction, prices[i]) = {prices[j] : j \in 1 .. i - 1}
    <3>1. ASSUME NEW p \in S, Better(direction, p, prices[i])
          PROVE  \E j \in 1 .. i - 1 : p = prices[j]
      <4>1. PICK j \in 1 .. n : p = prices[j]
        BY <1>8
      <4>2. ~ (i < j) /\ i # j
        BY <1>5, <1>6, <3>1, <4>1 DEF Better
      <4> QED BY <4>1, <4>2
    <3>2. ASSUME NEW j \in 1 .. i - 1
          PROVE  prices[j] \in S /\ Better(direction, prices[j], prices[i])
      BY <1>1, <1>5, <1>6
    <3> QED BY <3>1, <3>2 DEF Ahead
  <2>2. PICK m \in Nat : m = i - 1
    BY <1>1
  <2>3. \A j \in 1 .. m : \A k \in 1 .. m : j # k => prices[j] # prices[k]
    BY <1>1, <1>7, <2>2
  <2>4. Abstract!Cardinality({prices[j] : j \in 1 .. m}) = m
    BY <2>3, CardinalityNumbered
  <2>5. Cardinality({prices[j] : j \in 1 .. m}) = m
    BY <2>4 DEF Abstract!Cardinality, Cardinality
  <2> QED BY <2>1, <2>2, <2>5
<1> QED BY <1>1, <1>6, <1>9

-----------------------------------------------------------------------------
(* What a snapshot shows of a level, from the active orders.               *)

\* The open sizes of the orders of some keys, added up.
LEMMA KeysTotal ==
    ASSUME NEW S, IsFiniteSet(S), NEW g, Numbers(g, S),
           \A key \in S : g[key] = OpenSizeOf(key)
    PROVE  MapThenSumSet(OpenSizeOf, S) = Total(g, S)
<1> DEFINE P(iter) ==
             iter = [s \in SUBSET S |->
                       IF s = {} THEN 0
                       ELSE OpenSizeOf(CHOOSE x \in s : TRUE)
                            + iter[s \ {CHOOSE x \in s : TRUE}]]
           fold == CHOOSE iter : P(iter)
<1>1. MapThenSumSet(OpenSizeOf, S) = fold[S]
  BY DEF MapThenSumSet, MapThenFoldSet
<1>2. ASSUME NEW iter
      PROVE  P(iter) <=> SetSums(iter, g, S)
  <2>1. ASSUME NEW s \in SUBSET S
        PROVE  (IF s = {} THEN 0
                ELSE OpenSizeOf(CHOOSE x \in s : TRUE)
                     + iter[s \ {CHOOSE x \in s : TRUE}]) =
               (IF s = {} THEN 0 ELSE g[First(s)] + iter[s \ {First(s)}])
    <3>1. s # {} => First(s) \in S
      BY SubsetFacts
    <3> QED BY <3>1 DEF First
  <2> QED BY <2>1 DEF SetSums
<1>3. \E iter : P(iter)
  <2>1. PICK iter \in [SUBSET S -> Int] : SetSums(iter, g, S)
    BY SetSumExists
  <2> HIDE DEF P
  <2> QED BY <1>2, <2>1
<1>4. P(fold)
  <2> HIDE DEF P
  <2> QED BY <1>3
<1>5. SetSums(fold, g, S)
  BY <1>2, <1>4
<1> HIDE DEF fold
<1>6. fold[S] = Total(g, S)
  BY <1>5, TotalIs
<1> QED BY <1>1, <1>6

\* A list of orders of different keys adds up to the sum over these keys.
LEMMA ListTotal ==
    ASSUME NEW orders \in Seq(resting_order),
           \A i, j \in DOMAIN orders : orders[i].key = orders[j].key => i = j,
           NEW S, S = {orders[i].key : i \in DOMAIN orders}, IsFiniteSet(S),
           NEW g,
           \A i \in DOMAIN orders : g[orders[i].key] = orders[i].open_size
    PROVE  Numbers(g, S) /\ SumOpen(orders) = Total(g, S)
<1> DEFINE n == Len(orders)
           K(k) == {orders[i].key : i \in 1 .. k}
           h == [k \in 0 .. n |-> Total(g, K(k))]
<1>1. /\ n \in Nat /\ DOMAIN orders = 1 .. n
      /\ \A i \in 1 .. n : orders[i].open_size \in Int
  <2>1. \A i \in 1 .. n : orders[i] \in resting_order
    BY ElementOfSeq
  <2> QED BY <2>1, SizeModulusAssumption DEF resting_order, Quantity
<1>2. Numbers(g, S)
  BY <1>1 DEF Numbers
<1>3. /\ Total(g, {}) = 0
      /\ \A s \in SUBSET S :
            /\ Total(g, s) \in Int
            /\ \A x \in s : Total(g, s) = g[x] + Total(g, s \ {x})
  BY <1>2, TotalRemove
<1>4. \A k \in 0 .. n : K(k) \in SUBSET S
  BY <1>1
<1>5. h[0] = 0 /\ h \in [0 .. n -> Int]
  <2>1. K(0) = {}
    OBVIOUS
  <2>2. 0 \in 0 .. n
    BY <1>1
  <2> QED BY <1>3, <1>4, <2>1, <2>2
<1>6. ASSUME NEW k \in 1 .. n
      PROVE  h[k] = h[k - 1] + orders[k].open_size
  <2>1. k - 1 \in 0 .. n /\ k \in 0 .. n
    BY <1>1
  <2>2. orders[k].key \in K(k)
    BY <1>1
  <2>3. K(k) \ {orders[k].key} = K(k - 1)
    <3>1. \A i \in 1 .. k : i \in 1 .. n
      BY <1>1
    <3>2. \A i \in 1 .. k : i = k \/ i \in 1 .. k - 1
      BY <1>1
    <3>3. \A i \in 1 .. k - 1 : i \in 1 .. k /\ i \in 1 .. n /\ i # k
      BY <1>1
    <3> QED BY <1>1, <3>1, <3>2, <3>3
  <2>4. g[orders[k].key] = orders[k].open_size
    BY <1>1
  <2> HIDE DEF K
  <2>5. Total(g, K(k)) = g[orders[k].key] + Total(g, K(k) \ {orders[k].key})
    BY <1>3, <1>4, <2>1, <2>2
  <2>6. Total(g, K(k - 1)) \in Int /\ orders[k].open_size \in Int
    BY <1>1, <1>3, <1>4, <2>1
  <2>7. h[k] = Total(g, K(k)) /\ h[k - 1] = Total(g, K(k - 1))
    BY <2>1
  <2> HIDE DEF h
  <2>8. PICK a \in Int : a = Total(g, K(k - 1))
    BY <2>6
  <2>9. PICK b \in Int : b = orders[k].open_size
    BY <2>6
  <2>10. h[k] = b + a /\ h[k - 1] = a
    BY <2>3, <2>4, <2>5, <2>7, <2>8, <2>9
  <2>11. b + a = a + b
    OBVIOUS
  <2> QED BY <2>9, <2>10, <2>11
<1>7. K(n) = S /\ h[n] = Total(g, K(n))
  BY <1>1
<1> HIDE DEF h, K
<1>8. /\ Sizes(orders) \in Seq(Int) /\ Len(Sizes(orders)) = n
      /\ \A i \in 1 .. n : Sizes(orders)[i] = orders[i].open_size
  BY SizesType DEF Sizes
<1>9. Accumulates(h, Sizes(orders))
  BY <1>5, <1>6, <1>8 DEF Accumulates
<1>10. PICK f : Accumulates(f, Sizes(orders)) /\ SumOpen(orders) = f[n]
  BY SumOpenIs
<1>11. f[n] = h[n]
  BY <1>8, <1>9, <1>10, SumsUnique
<1> QED BY <1>2, <1>7, <1>10, <1>11

\* The active orders of one side of a book.
KeysOf(s, d) ==
    {key \in DOMAIN active_orders : /\ active_orders[key].instrument = s
                                    /\ active_orders[key].direction = d}

\* Those with a handle to one price.
KeysAt(s, d, p) == {key \in KeysOf(s, d) : active_orders[key].limit_price = p}

\* Between two commands the index and the books agree on every key.
LEMMA AllSettled ==
    ASSUME IndexInv, call = NoCall
    PROVE  /\ next_sequence \in Nat /\ GoodBooks(books, next_sequence)
           /\ Agree(books, active_orders, {})
<1>1. Unsettled = {} /\ Bound = next_sequence
  BY DEF Unsettled, Bound
<1> QED BY <1>1 DEF IndexInv, IInv, Indexed, Sequence

\* The prices of a side are those its active orders have a handle to.
LEMMA PricesOfKeys ==
    ASSUME IndexInv, call = NoCall, NEW s \in DOMAIN books, NEW d \in Side
    PROVE  {active_orders[key].limit_price : key \in KeysOf(s, d)}
              = DOMAIN books[s][d]
<1>1. /\ GoodLevels(books[s][d], d, next_sequence)
      /\ Agree(books, active_orders, {})
  BY AllSettled DEF GoodBooks
<1>2. ASSUME NEW p \in DOMAIN books[s][d]
      PROVE  \E key \in KeysOf(s, d) : active_orders[key].limit_price = p
  <2>1. /\ books[s][d][p].orders \in Seq(resting_order)
        /\ books[s][d][p].orders # <<>>
    BY <1>1, LevelFacts
  <2>2. 1 \in DOMAIN books[s][d][p].orders
    BY <2>1
  <2>3. PICK o : o = books[s][d][p].orders[1]
    OBVIOUS
  <2>4. At(books, s, d, p, o)
    BY <2>2, <2>3 DEF At, In, ToSet
  <2>5. /\ o.key \in DOMAIN active_orders
        /\ active_orders[o.key] = [instrument |-> s, direction |-> d,
                                   limit_price |-> p, node |-> o.sequence]
    BY <1>1, <2>4 DEF Agree
  <2> QED BY <2>5 DEF KeysOf
<1>3. ASSUME NEW key \in KeysOf(s, d)
      PROVE  active_orders[key].limit_price \in DOMAIN books[s][d]
  <2>1. /\ key \in DOMAIN active_orders \ {}
        /\ active_orders[key].instrument = s /\ active_orders[key].direction = d
    BY DEF KeysOf
  <2>2. PICK o : At(books, s, d, active_orders[key].limit_price, o)
    BY <1>1, <2>1 DEF Agree
  <2> QED BY <2>2 DEF At, In
<1> QED BY <1>2, <1>3

\* The keys are those of a list of orders, each of another, and OpenSizeOf
\* finds the size of each.
Lists(orders, keys) ==
    /\ orders \in Seq(resting_order)
    /\ keys = {orders[i].key : i \in DOMAIN orders}
    /\ \A i \in DOMAIN orders :
          OpenSizeOf(orders[i].key) = orders[i].open_size
    /\ \A i, j \in DOMAIN orders :
          orders[i].key = orders[j].key => i = j

\* The keys at a price are those of the orders in its list.
LEMMA KeysOfList ==
    ASSUME IndexInv, call = NoCall, NEW s \in DOMAIN books, NEW d \in Side,
           NEW p \in DOMAIN books[s][d],
           NEW orders, orders = books[s][d][p].orders
    PROVE  Lists(orders, KeysAt(s, d, p))
<1>1. /\ GoodLevels(books[s][d], d, next_sequence)
      /\ Agree(books, active_orders, {})
  BY AllSettled DEF GoodBooks
<1>2. orders \in Seq(resting_order) /\ OrderedList(orders, d, p, next_sequence)
  BY <1>1, LevelFacts
<1>3. ASSUME NEW i \in DOMAIN orders
      PROVE  /\ orders[i].key \in DOMAIN active_orders
             /\ active_orders[orders[i].key].instrument = s
             /\ active_orders[orders[i].key].direction = d
             /\ active_orders[orders[i].key].limit_price = p
             /\ active_orders[orders[i].key].node = orders[i].sequence
  <2>1. At(books, s, d, p, orders[i])
    BY DEF At, In, ToSet
  <2>2. /\ orders[i].key \in DOMAIN active_orders
        /\ active_orders[orders[i].key]
              = [instrument |-> s, direction |-> d,
                 limit_price |-> p, node |-> orders[i].sequence]
    BY <1>1, <2>1 DEF Agree
  <2> QED BY <2>2
<1>4. ASSUME NEW i \in DOMAIN orders, NEW j \in DOMAIN orders,
             orders[i].sequence = orders[j].sequence
      PROVE  i = j
  BY <1>2, <1>4, SequencesDiffer
<1>5. \A i, j \in DOMAIN orders : orders[i].key = orders[j].key => i = j
  <2> SUFFICES ASSUME NEW i \in DOMAIN orders, NEW j \in DOMAIN orders,
                      orders[i].key = orders[j].key
               PROVE  i = j
    OBVIOUS
  <2>1. /\ active_orders[orders[i].key].node = orders[i].sequence
        /\ active_orders[orders[j].key].node = orders[j].sequence
    BY <1>3
  <2> QED BY <1>4, <2>1
<1>6. ASSUME NEW i \in DOMAIN orders
      PROVE  OpenSizeOf(orders[i].key) = orders[i].open_size
  <2>1. LevelsOf(active_orders[orders[i].key]) = books[s][d]
    BY <1>3 DEF LevelsOf
  <2>2. \A j \in DOMAIN orders :
           orders[j].sequence = orders[i].sequence => j = i
    BY <1>4
  <2>3. PositionOf(orders, orders[i].sequence) = i
    BY <2>2 DEF PositionOf
  <2> QED BY <1>3, <2>1, <2>3 DEF OpenSizeOf
<1>7. ASSUME NEW key \in KeysAt(s, d, p)
      PROVE  \E i \in DOMAIN orders : key = orders[i].key
  <2>1. /\ key \in DOMAIN active_orders \ {}
        /\ active_orders[key].instrument = s /\ active_orders[key].direction = d
        /\ active_orders[key].limit_price = p
    BY DEF KeysAt, KeysOf
  <2>2. PICK o : At(books, s, d, p, o) /\ o.key = key
    BY <1>1, <2>1 DEF Agree
  <2> QED BY <2>2 DEF At, In, ToSet
<1>8. \A i \in DOMAIN orders : orders[i].key \in KeysAt(s, d, p)
  BY <1>3 DEF KeysAt, KeysOf
<1> QED BY <1>2, <1>5, <1>6, <1>7, <1>8 DEF Lists

\* The total of a level is the sum over the keys at its price.
LEMMA LevelOfKeys ==
    ASSUME IndexInv, BooksRight(books), call = NoCall,
           NEW s \in DOMAIN books, NEW d \in Side, NEW p \in DOMAIN books[s][d]
    PROVE  books[s][d][p].total_size =
              MapThenSumSet(OpenSizeOf, KeysAt(s, d, p)) % SizeModulus
<1>1. PICK orders : orders = books[s][d][p].orders
  OBVIOUS
<1>2. /\ orders \in Seq(resting_order)
      /\ KeysAt(s, d, p) = {orders[i].key : i \in DOMAIN orders}
      /\ \A i \in DOMAIN orders :
            OpenSizeOf(orders[i].key) = orders[i].open_size
      /\ \A i, j \in DOMAIN orders :
            orders[i].key = orders[j].key => i = j
  <2>1. Lists(orders, KeysAt(s, d, p))
    BY <1>1, KeysOfList
  <2> QED BY <2>1 DEF Lists
<1> DEFINE S == KeysAt(s, d, p)
           g == [key \in S |-> OpenSizeOf(key)]
<1>3. IsFiniteSet(S)
  <2>1. DOMAIN orders = 1 .. Len(orders) /\ Len(orders) \in Nat
    BY <1>2
  <2>2. IsFiniteSet(1 .. Len(orders))
    BY <2>1, FS_Interval
  <2> DEFINE f == [i \in 1 .. Len(orders) |-> orders[i].key]
  <2>3. f \in Surjection(1 .. Len(orders), S)
    BY <1>2, <2>1 DEF Surjection
  <2> HIDE DEF f, S
  <2> QED BY <2>2, <2>3, FS_Surjection
<1>4. \A i \in DOMAIN orders : g[orders[i].key] = orders[i].open_size
  BY <1>2
<1>5. \A key \in S : g[key] = OpenSizeOf(key)
  OBVIOUS
<1>6. S = {orders[i].key : i \in DOMAIN orders}
  BY <1>2
<1> HIDE DEF S, g
<1>7. Numbers(g, S) /\ SumOpen(orders) = Total(g, S)
  BY <1>2, <1>3, <1>4, <1>6, ListTotal
<1>8. MapThenSumSet(OpenSizeOf, S) = Total(g, S)
  BY <1>3, <1>5, <1>7, KeysTotal
<1>9. books[s][d][p].total_size = SumOpen(orders) % SizeModulus
  BY <1>1 DEF BooksRight, RightTotals
<1> QED BY <1>7, <1>8, <1>9 DEF S

\* The loop of a snapshot shows the best levels of a side, best first.
LEMMA SnapshotIs ==
    ASSUME NEW levels, NEW d, DOMAIN levels \subseteq Nat,
           IsFiniteSet(DOMAIN levels), NEW depth \in Nat,
           NEW shown, shown = snapshot_levels(d, levels, depth)
    PROVE  /\ Len(shown) = Min({depth, Cardinality(DOMAIN levels)})
           /\ DOMAIN shown = 1 .. Len(shown)
           /\ \A i \in DOMAIN shown :
                 \E p \in DOMAIN levels :
                    /\ shown[i].level_price = p
                    /\ shown[i].total_size = levels[p].total_size
                    /\ Cardinality(Ahead(DOMAIN levels, d, p)) = i - 1
<1>1. PICK n : n = Cardinality(DOMAIN levels)
  OBVIOUS
<1>2. PICK prices : prices = in_order(d, levels)
  OBVIOUS
<1>3. /\ n \in Nat
      /\ \A i \in 1 .. n :
            /\ prices[i] \in DOMAIN levels
            /\ Cardinality(Ahead(DOMAIN levels, d, prices[i])) = i - 1
  BY <1>1, <1>2, InOrder
<1>4. PICK m : m = Min({depth, n})
  OBVIOUS
<1>5. m \in Nat /\ m <= n
  <2>1. \E x \in {depth, n} : \A y \in {depth, n} : x <= y
    BY <1>3
  <2>2. m \in {depth, n} /\ \A y \in {depth, n} : m <= y
    BY <1>4, <2>1 DEF Min
  <2> QED BY <1>3, <2>2
<1>6. shown = [i \in 1 .. m |->
                 [level_price |-> prices[i],
                  total_size |-> levels[prices[i]].total_size]]
  BY <1>1, <1>2, <1>4 DEF snapshot_levels
<1>7. Len(shown) = m /\ DOMAIN shown = 1 .. m
  BY <1>5, <1>6
<1>8. ASSUME NEW i \in 1 .. m
      PROVE  /\ shown[i].level_price = prices[i]
             /\ shown[i].total_size = levels[prices[i]].total_size
             /\ i \in 1 .. n
  BY <1>3, <1>5, <1>6
<1> QED BY <1>1, <1>3, <1>4, <1>7, <1>8

\* What a snapshot says of one side, if it is what the index says.
Truthful(shown, prices, depth, s, d) ==
    /\ Len(shown) = Min({depth, Cardinality(prices)})
    /\ \A i \in DOMAIN shown :
          /\ shown[i].level_price \in prices
          /\ Cardinality(Ahead(prices, d, shown[i].level_price)) = i - 1
          /\ shown[i].total_size =
                MapThenSumSet(OpenSizeOf, KeysAt(s, d, shown[i].level_price))
                   % SizeModulus

\* Between two commands, a snapshot says of a side what the index says.
LEMMA SnapshotSide ==
    ASSUME IndexInv, BooksRight(books), call = NoCall, NEW depth \in Nat,
           NEW s \in DOMAIN books, NEW d \in Side,
           NEW shown, shown = snapshot(s, depth)[d],
           NEW prices,
           prices = {active_orders[key].limit_price : key \in KeysOf(s, d)}
    PROVE  Truthful(shown, prices, depth, s, d)
<1>1. PICK levels : levels = books[s][d]
  OBVIOUS
<1>2. prices = DOMAIN levels
  BY <1>1, PricesOfKeys
<1>3. shown = snapshot_levels(d, levels, depth)
  BY <1>1 DEF snapshot
<1>4. DOMAIN levels \subseteq Nat /\ IsFiniteSet(DOMAIN levels)
  <2>1. GoodLevels(levels, d, next_sequence)
    BY <1>1, AllSettled DEF GoodBooks
  <2>2. DOMAIN levels \in SUBSET (1 .. MaxPrice)
    BY <2>1, LevelFacts DEF Price
  <2>3. IsFiniteSet(1 .. MaxPrice)
    BY MaxPriceAssumption, FS_Interval
  <2> QED BY <2>2, <2>3, MaxPriceAssumption, FS_Subset
<1>5. /\ Len(shown) = Min({depth, Cardinality(DOMAIN levels)})
      /\ \A i \in DOMAIN shown :
            \E p \in DOMAIN levels :
               /\ shown[i].level_price = p
               /\ shown[i].total_size = levels[p].total_size
               /\ Cardinality(Ahead(DOMAIN levels, d, p)) = i - 1
  BY <1>3, <1>4, SnapshotIs
<1>6. ASSUME NEW p \in DOMAIN levels
      PROVE  levels[p].total_size =
                MapThenSumSet(OpenSizeOf, KeysAt(s, d, p)) % SizeModulus
  BY <1>1, LevelOfKeys
<1> QED BY <1>2, <1>5, <1>6 DEF Truthful

\* The invariants of the index and of the totals imply it for any depth.
LEMMA SnapshotFromInv ==
    ASSUME IndexInv, TotalsInv, NEW depth \in Nat
    PROVE  TruthfulAt(depth)
<1> SUFFICES ASSUME call = NoCall, NEW s \in DOMAIN books, NEW d \in Side
             PROVE  Truthful(snapshot(s, depth)[d],
                             {active_orders[key].limit_price :
                                 key \in KeysOf(s, d)},
                             depth, s, d)
  BY DEF TruthfulAt, Truthful, KeysOf, KeysAt, Ahead
<1>1. PICK shown : shown = snapshot(s, depth)[d]
  OBVIOUS
<1>2. PICK prices :
         prices = {active_orders[key].limit_price : key \in KeysOf(s, d)}
  OBVIOUS
<1>3. Truthful(shown, prices, depth, s, d)
  BY <1>1, <1>2, SnapshotSide DEF TotalsInv
<1> QED BY <1>1, <1>2, <1>3

\* A snapshot of any depth, not only of those that the runs look at, shows the
\* best levels, best first, with the sums of what is active there
\* (order_book::snapshot_levels, order_book.cpp:538).
THEOREM SnapshotOfAnyDepth ==
    ASSUME NEW depth \in Nat
    PROVE  Spec => []TruthfulAt(depth)
<1>1. IndexInv /\ TotalsInv => TruthfulAt(depth)
  BY SnapshotFromInv
<1> QED BY <1>1, IndexInductive, TotalsInductive, PTL

\* The same for the depths that the run looks at: none, the best level, and
\* two, whatever was submitted, updated and cancelled before.
THEOREM SnapshotsTrue == Spec => []SnapshotTruthful
<1>1. IndexInv /\ TotalsInv => SnapshotTruthful
  <2>1. \A depth \in 0 .. 2 : depth \in Nat
    OBVIOUS
  <2> QED BY <2>1, SnapshotFromInv DEF SnapshotTruthful
<1> QED BY <1>1, IndexInductive, TotalsInductive, PTL

=============================================================================
