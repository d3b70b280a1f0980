------------------------ MODULE BufferScheduler_proofs ------------------------
(***************************************************************************)
(* Proofs about BufferScheduler for every value of its constants: the type *)
(* invariant, the ceilings, the conveyor, the rate of a heard unit, the    *)
(* accounts of every counter and unit, and what the listener is told.      *)
(* Each method is taken once for each of them.  The sums the counters are  *)
(* compared with are folds: the first part shows, from a smallest set that *)
(* would break it, what such a sum is when a sequence grows or shrinks.    *)
(***************************************************************************)
EXTENDS BufferScheduler, SequenceTheorems, FiniteSetTheorems, TLAPS

-----------------------------------------------------------------------------
(* Sums over a sequence, taken as FoldSeq takes them *)

\* Among the sets of a finite set that have a property one has no smaller one below
\* it: what an induction over a sum is made of.
LEMMA SmallestSet ==
    ASSUME NEW D, IsFiniteSet(D), NEW Bad, Bad \subseteq SUBSET D, Bad # {}
    PROVE  \E S \in Bad : \A U \in Bad : ~(U \subseteq S /\ U # S)
<1>1. IsWellFoundedOn(StrictSubsetOrdering(D), FiniteSubsetsOf(D))
  BY FS_StrictSubsetOrderingWellFounded
<1>2. Bad \subseteq FiniteSubsetsOf(D)
  BY FS_Subset DEF FiniteSubsetsOf
<1>3. \E S \in Bad : \A U \in Bad : ~ (<<U, S>> \in StrictSubsetOrdering(D))
  BY <1>1, <1>2, WFMin
<1> QED BY <1>2, <1>3 DEF StrictSubsetOrdering, FiniteSubsetsOf

Pick(S) == CHOOSE x \in S : TRUE

\* g is the sum of w over every set of D, taken as FoldSeq takes it.
Sums(g, w, D) ==
    g = [S \in SUBSET D |-> IF S = {} THEN 0 ELSE g[S \ {Pick(S)}] + w[Pick(S)]]

\* The element a fold picks is one of them.
LEMMA Picked == ASSUME NEW S, S # {} PROVE Pick(S) \in S
BY DEF Pick

\* A sum at a set is what is picked from it and the sum of the rest.
LEMMA SumsAt ==
    ASSUME NEW D, NEW w, NEW g, Sums(g, w, D)
    PROVE  /\ g[{}] = 0
           /\ \A S \in SUBSET D : S # {} => g[S] = g[S \ {Pick(S)}] + w[Pick(S)]
<1>1. /\ g = [S \in SUBSET D |-> IF S = {} THEN 0 ELSE g[S \ {Pick(S)}] + w[Pick(S)]]
      /\ {} \in SUBSET D
  BY DEF Sums
<1> QED BY <1>1

\* Sums agree where both are defined.
LEMMA SumsAgree ==
    ASSUME NEW D, NEW E, IsFiniteSet(D), NEW w, NEW v, NEW g, NEW h,
           Sums(g, w, D), Sums(h, v, E),
           NEW S \in SUBSET D, S \in SUBSET E, \A x \in S : w[x] = v[x]
    PROVE  g[S] = h[S]
<1> DEFINE Bad == {U \in SUBSET S : g[U] # h[U]}
<1> SUFFICES ASSUME Bad # {} PROVE FALSE
  OBVIOUS
<1>1. PICK U \in Bad : \A V \in Bad : ~(V \subseteq U /\ V # U)
  <2>1. Bad \subseteq SUBSET D
    OBVIOUS
  <2> HIDE DEF Bad
  <2> QED BY <2>1, SmallestSet
<1>2. U # {}
  BY SumsAt
<1>3. Pick(U) \in U
  BY <1>2, Picked
<1>4. g[U \ {Pick(U)}] = h[U \ {Pick(U)}]
  BY <1>1, <1>3
<1>5. /\ g[U] = g[U \ {Pick(U)}] + w[Pick(U)] /\ h[U] = h[U \ {Pick(U)}] + v[Pick(U)]
  <2>1. U \in SUBSET D /\ U \in SUBSET E
    OBVIOUS
  <2> QED BY <1>2, <2>1, SumsAt
<1> QED BY <1>1, <1>3, <1>4, <1>5

\* A finite set has sums: a smallest set without would have them.
LEMMA SumsExist ==
    ASSUME NEW D, IsFiniteSet(D), NEW w
    PROVE  \E g : Sums(g, w, D)
<1> DEFINE Bad == {U \in SUBSET D : ~ \E g : Sums(g, w, U)}
<1> SUFFICES ASSUME Bad # {} PROVE FALSE
  OBVIOUS
<1>1. PICK S \in Bad : \A V \in Bad : ~(V \subseteq S /\ V # S)
  <2>1. Bad \subseteq SUBSET D
    OBVIOUS
  <2> HIDE DEF Bad
  <2> QED BY <2>1, SmallestSet
<1> DEFINE some(U) == CHOOSE g : Sums(g, w, U)
           g == [U \in SUBSET S |-> IF U = {} THEN 0
                     ELSE some(U \ {Pick(U)})[U \ {Pick(U)}] + w[Pick(U)]]
<1>2. ASSUME NEW U \in SUBSET S, U # S PROVE Sums(some(U), w, U)
  <2>1. U \notin Bad
    BY <1>1, <1>2
  <2>2. \E k : Sums(k, w, U)
    BY <2>1
  <2> QED BY <2>2
<1>3. ASSUME NEW U \in SUBSET S, U # S PROVE g[U] = some(U)[U]
  <2>0. Sums(some(U), w, U)
    BY <1>2, <1>3
  <2>1. CASE U = {}
    BY <2>0, <2>1, SumsAt
  <2>2. CASE U # {}
    <3> DEFINE V == U \ {Pick(U)}
    <3>1. V \in SUBSET S /\ V # S /\ V \in SUBSET U /\ IsFiniteSet(V)
      BY <2>2, Picked, FS_Subset
    <3>2. Sums(some(V), w, V)
      BY <1>2, <3>1
    <3>3. some(V)[V] = some(U)[V]
      <4> HIDE DEF V, some
      <4> QED BY <2>0, <3>1, <3>2, SumsAgree
    <3>4. some(U)[U] = some(U)[V] + w[Pick(U)]
      <4> HIDE DEF some
      <4> QED BY <2>0, <2>2, SumsAt
    <3> QED BY <2>2, <3>3, <3>4
  <2> QED BY <2>1, <2>2
<1>4. Sums(g, w, S)
  <2>1. ASSUME NEW U \in SUBSET S, U # {}
        PROVE  some(U \ {Pick(U)})[U \ {Pick(U)}] = g[U \ {Pick(U)}]
    BY <1>3, <2>1, Picked
  <2> DEFINE h == [U \in SUBSET S |-> IF U = {} THEN 0
                      ELSE g[U \ {Pick(U)}] + w[Pick(U)]]
  <2>2. \A U \in SUBSET S : g[U] = h[U]
    <3> HIDE DEF some
    <3> QED BY <2>1
  <2>3. g = h
    <3>1. g = [U \in SUBSET S |-> g[U]] /\ h = [U \in SUBSET S |-> h[U]]
      OBVIOUS
    <3> HIDE DEF g, h
    <3> QED BY <2>2, <3>1
  <2> QED BY <2>3, Zenon DEF Sums
<1> QED BY <1>1, <1>4

\* Any element of a set can be added last: the order of a sum does not matter.
Splits(g, w, S) == g[S] \in Int /\ \A x \in S : g[S] = g[S \ {x}] + w[x]

\* A smallest set that no element splits would be split by the one that is picked.
LEMMA SumsSplit ==
    ASSUME NEW D, IsFiniteSet(D), NEW w \in [D -> Int], NEW g, Sums(g, w, D),
           NEW S \in SUBSET D
    PROVE  Splits(g, w, S)
<1> DEFINE Good(U) == g[U] \in Int /\ \A x \in U : g[U] = g[U \ {x}] + w[x]
           Bad == {U \in SUBSET D : ~Good(U)}
<1> SUFFICES ASSUME Bad # {} PROVE FALSE
  BY DEF Splits
<1>1. PICK U \in Bad : \A V \in Bad : ~(V \subseteq U /\ V # U)
  <2>1. Bad \subseteq SUBSET D
    OBVIOUS
  <2> HIDE DEF Bad
  <2> QED BY <2>1, SmallestSet
<1>2. U # {}
  <2>1. Good({})
    BY SumsAt
  <2> QED BY <2>1
<1> DEFINE c == Pick(U)
<1>3. c \in U /\ g[U] = g[U \ {c}] + w[c]
  <2>1. U \in SUBSET D
    OBVIOUS
  <2> QED BY <1>2, <2>1, Picked, SumsAt
<1> HIDE DEF c
<1>4. ASSUME NEW V \in SUBSET U, V # U PROVE Good(V)
  <2>1. V \notin Bad
    BY <1>1, <1>4
  <2> QED BY <2>1
<1>7. c \in D /\ w[c] \in Int /\ \A x \in U : w[x] \in Int
  BY <1>3
<1>5. ASSUME NEW x \in U, x # c PROVE g[U] = g[U \ {x}] + w[x]
  <2>1. Good(U \ {x}) /\ Good(U \ {c})
    <3>1. /\ U \ {x} \in SUBSET U /\ U \ {x} # U
          /\ U \ {c} \in SUBSET U /\ U \ {c} # U
      BY <1>3
    <3> HIDE DEF Good
    <3> QED BY <1>4, <3>1
  <2>2. g[(U \ {c}) \ {x}] = g[(U \ {x}) \ {c}]
    <3>1. (U \ {c}) \ {x} = (U \ {x}) \ {c}
      OBVIOUS
    <3> QED BY <3>1
  <2>3. g[U \ {c}] = g[(U \ {c}) \ {x}] + w[x]
    BY <1>5, <2>1
  <2>4. g[U \ {x}] = g[(U \ {x}) \ {c}] + w[c]
    BY <1>3, <1>5, <2>1
  <2>5. g[(U \ {c}) \ {x}] \in Int
    <3>1. (U \ {c}) \ {x} \in SUBSET U /\ (U \ {c}) \ {x} # U
      BY <1>3
    <3>2. Good((U \ {c}) \ {x})
      <4> HIDE DEF Good
      <4> QED BY <1>4, <3>1
    <3> QED BY <3>2
  <2> DEFINE a == g[(U \ {c}) \ {x}]
  <2>6. /\ g[U] = (a + w[x]) + w[c] /\ g[U \ {x}] = a + w[c]
        /\ a \in Int /\ w[x] \in Int /\ w[c] \in Int
    BY <1>3, <1>7, <2>2, <2>3, <2>4, <2>5
  <2> HIDE DEF a
  <2> QED BY <2>6
<1>6. Good(U)
  <2>1. U \ {c} \in SUBSET U /\ U \ {c} # U
    BY <1>3
  <2>2. Good(U \ {c})
    <3> HIDE DEF Good
    <3> QED BY <1>4, <2>1
  <2>3. g[U] \in Int
    <3>1. g[U \ {c}] \in Int
      BY <2>2
    <3> QED BY <1>3, <1>7, <3>1
  <2>4. \A x \in U : g[U] = g[U \ {x}] + w[x]
    BY <1>3, <1>5
  <2> QED BY <2>3, <2>4
<1> QED BY <1>6

\* The sum of what weight gives to the elements of s, as FoldSeq takes it.
Weights(weight, s) == [i \in DOMAIN s |-> weight[s[i]]]
Total(weight, s) == (CHOOSE g : Sums(g, Weights(weight, s), DOMAIN s))[DOMAIN s]

\* The indices of a sequence are finitely many, and every one has a weight.
LEMMA Indices ==
    ASSUME NEW U, NEW s \in Seq(U), NEW weight \in [U -> Int]
    PROVE  /\ Len(s) \in Nat /\ DOMAIN s = 1 .. Len(s) /\ IsFiniteSet(DOMAIN s)
           /\ Weights(weight, s) \in [DOMAIN s -> Int]
           /\ \A i \in 1 .. Len(s) : s[i] \in U
<1>1. Len(s) \in Nat /\ DOMAIN s = 1 .. Len(s) /\ \A i \in 1 .. Len(s) : s[i] \in U
  OBVIOUS
<1>2. IsFiniteSet(1 .. Len(s))
  BY <1>1, FS_Interval
<1> QED BY <1>1, <1>2 DEF Weights

\* Whatever follows the fold gives the total.
LEMMA TotalIs ==
    ASSUME NEW U, NEW s \in Seq(U), NEW weight \in [U -> Int],
           NEW g, Sums(g, Weights(weight, s), DOMAIN s)
    PROVE  Total(weight, s) = g[DOMAIN s]
<1> DEFINE w == Weights(weight, s)
           D == DOMAIN s
           h == CHOOSE k : Sums(k, w, D)
<1>1. Sums(h, w, D)
  OBVIOUS
<1>2. IsFiniteSet(D) /\ D \in SUBSET D
  BY Indices
<1>3. Sums(g, w, D)
  OBVIOUS
<1> HIDE DEF w, D, h
<1>4. h[D] = g[D]
  BY <1>1, <1>2, <1>3, SumsAgree
<1> QED BY <1>4 DEF Total, h, w, D

\* Something follows the fold, and gives the total.
LEMMA TotalOf ==
    ASSUME NEW U, NEW s \in Seq(U), NEW weight \in [U -> Int]
    PROVE  \E g : /\ Sums(g, Weights(weight, s), DOMAIN s)
                  /\ Total(weight, s) = g[DOMAIN s]
<1>1. IsFiniteSet(DOMAIN s)
  BY Indices
<1>2. PICK g : Sums(g, Weights(weight, s), DOMAIN s)
  BY <1>1, SumsExist
<1> QED BY <1>2, TotalIs

\* A total of integers is an integer.
LEMMA TotalTyped ==
    ASSUME NEW U, NEW s \in Seq(U), NEW weight \in [U -> Int]
    PROVE  Total(weight, s) \in Int
<1>1. PICK g : Sums(g, Weights(weight, s), DOMAIN s) /\ Total(weight, s) = g[DOMAIN s]
  BY TotalOf
<1> DEFINE w == Weights(weight, s)
           D == DOMAIN s
<1>2. IsFiniteSet(D) /\ D \in SUBSET D /\ w \in [D -> Int] /\ Sums(g, w, D)
  BY <1>1, Indices
<1> HIDE DEF w, D
<1>3. Splits(g, w, D)
  BY <1>2, SumsSplit
<1> QED BY <1>1, <1>3 DEF D, Splits

\* Nothing adds up to zero.
LEMMA TotalEmpty == ASSUME NEW U, NEW weight \in [U -> Int] PROVE Total(weight, <<>>) = 0
<1>1. <<>> \in Seq(U) /\ DOMAIN <<>> = {}
  OBVIOUS
<1>2. PICK g : Sums(g, Weights(weight, <<>>), DOMAIN <<>>) /\ Total(weight, <<>>) = g[DOMAIN <<>>]
  BY <1>1, TotalOf
<1> QED BY <1>1, <1>2, SumsAt

\* What is appended is added.
LEMMA TotalAppend ==
    ASSUME NEW U, NEW s \in Seq(U), NEW weight \in [U -> Int], NEW u \in U
    PROVE  Total(weight, Append(s, u)) = Total(weight, s) + weight[u]
<1> DEFINE t == Append(s, u)
           n == Len(s)
           w == Weights(weight, s)
           v == Weights(weight, t)
           D == DOMAIN s
           E == DOMAIN t
<1>1. /\ t \in Seq(U) /\ n \in Nat /\ D = 1 .. n /\ E = 1 .. n + 1
      /\ t[n + 1] = u /\ \A i \in 1 .. n : t[i] = s[i]
  BY AppendProperties
<1>2. PICK g : Sums(g, w, D) /\ Total(weight, s) = g[D]
  BY TotalOf
<1>3. PICK h : Sums(h, v, E) /\ Total(weight, t) = h[E]
  BY <1>1, TotalOf
<1>4. /\ IsFiniteSet(D) /\ IsFiniteSet(E) /\ v \in [E -> Int] /\ n + 1 \in E
      /\ E \ {n + 1} = D /\ D \in SUBSET E /\ E \in SUBSET E /\ D \in SUBSET D
      /\ v[n + 1] = weight[u] /\ \A i \in D : v[i] = w[i]
  <2>1. IsFiniteSet(D) /\ IsFiniteSet(E) /\ v \in [E -> Int]
    <3> HIDE DEF t
    <3> QED BY <1>1, Indices
  <2>2. /\ n + 1 \in E /\ E \ {n + 1} = D /\ D \in SUBSET E /\ E \in SUBSET E
        /\ D \in SUBSET D
    <3> HIDE DEF D, E, n
    <3> QED BY <1>1
  <2>3. v[n + 1] = weight[u] /\ \A i \in D : v[i] = w[i]
    <3>1. /\ v = [i \in E |-> weight[t[i]]] /\ w = [i \in D |-> weight[s[i]]]
      BY DEF Weights
    <3> HIDE DEF v, w, D, E, t, n
    <3> QED BY <1>1, <2>2, <3>1
  <2> QED BY <2>1, <2>2, <2>3
<1> HIDE DEF v, w, D, E, t, n
<1>5. h[E] = h[E \ {n + 1}] + v[n + 1]
  <2>1. IsFiniteSet(E) /\ v \in [E -> Int] /\ E \in SUBSET E
    BY <1>4
  <2>2. Sums(h, v, E)
    BY <1>3
  <2>3. n + 1 \in E
    BY <1>4
  <2>4. Splits(h, v, E)
    BY <2>1, <2>2, SumsSplit
  <2> QED BY <2>3, <2>4 DEF Splits
<1>6. h[D] = g[D]
  <2>1. IsFiniteSet(E) /\ D \in SUBSET E /\ D \in SUBSET D
    BY <1>4
  <2>2. \A i \in D : v[i] = w[i]
    BY <1>4
  <2>3. Sums(h, v, E) /\ Sums(g, w, D)
    BY <1>2, <1>3
  <2> QED BY <2>1, <2>2, <2>3, SumsAgree
<1>7. h[E] = g[D] + weight[u]
  BY <1>4, <1>5, <1>6
<1> QED BY <1>2, <1>3, <1>7 DEF t

\* What leaves the front is taken away.
LEMMA TotalTail ==
    ASSUME NEW U, NEW s \in Seq(U), NEW weight \in [U -> Int], s # <<>>
    PROVE  Total(weight, s) = weight[s[1]] + Total(weight, Tail(s))
<1> DEFINE t == Tail(s)
           n == Len(s)
           w == Weights(weight, s)
           v == Weights(weight, t)
           D == DOMAIN s
           E == DOMAIN t
           next(S) == {x + 1 : x \in S}
<1>1. /\ t \in Seq(U) /\ n \in Nat /\ n > 0 /\ D = 1 .. n /\ E = 1 .. n - 1
      /\ \A i \in 1 .. n - 1 : t[i] = s[i + 1]
  BY HeadTailProperties
<1>2. PICK g : Sums(g, w, D) /\ Total(weight, s) = g[D]
  BY TotalOf
<1>3. PICK h : Sums(h, v, E) /\ Total(weight, t) = h[E]
  BY <1>1, TotalOf
<1>4. /\ IsFiniteSet(D) /\ IsFiniteSet(E) /\ w \in [D -> Int] /\ v \in [E -> Int]
      /\ \A i \in E : v[i] = w[i + 1]
  <2>1. /\ IsFiniteSet(D) /\ IsFiniteSet(E) /\ w \in [D -> Int] /\ v \in [E -> Int]
    <3> HIDE DEF t
    <3> QED BY <1>1, Indices
  <2>2. /\ v = [i \in E |-> weight[t[i]]] /\ w = [i \in D |-> weight[s[i]]]
    BY DEF Weights
  <2>3. \A i \in E : v[i] = w[i + 1]
    <3> HIDE DEF v, w, D, E, t, n
    <3> QED BY <1>1, <2>2
  <2> QED BY <2>1, <2>3
<1>5. /\ D \ {1} = next(E) /\ 1 \in D /\ w[1] = weight[s[1]] /\ E \in SUBSET E
      /\ \A S \in SUBSET E : next(S) \in SUBSET D
  <2>1. w[1] = weight[s[1]]
    BY <1>1 DEF Weights
  <2>2. D \ {1} = next(E)
    <3>1. ASSUME NEW x \in D \ {1} PROVE x \in next(E)
      <4>1. x - 1 \in E /\ x = (x - 1) + 1
        BY <1>1
      <4> QED BY <4>1
    <3>2. ASSUME NEW x \in next(E) PROVE x \in D \ {1}
      BY <1>1
    <3> HIDE DEF D, E, next
    <3> QED BY <3>1, <3>2
  <2> HIDE DEF D, E, w, n, t
  <2> QED BY <1>1, <2>1, <2>2
<1> HIDE DEF v, w, D, E, t, n
<1>6. ASSUME NEW S \in SUBSET E PROVE g[next(S)] = h[S]
  <2> DEFINE Bad == {V \in SUBSET E : g[next(V)] # h[V]}
  <2> SUFFICES ASSUME Bad # {} PROVE FALSE
    OBVIOUS
  <2>1. PICK V \in Bad : \A X \in Bad : ~(X \subseteq V /\ X # V)
    <3>1. Bad \subseteq SUBSET E
      OBVIOUS
    <3> HIDE DEF Bad
    <3> QED BY <1>4, <3>1, SmallestSet
  <2>2. V # {}
    <3>1. next({}) = {}
      OBVIOUS
    <3> QED BY <1>2, <1>3, <3>1, SumsAt
  <2>3. PICK x \in V : TRUE
    BY <2>2
  <2>4. g[next(V \ {x})] = h[V \ {x}]
    BY <2>1, <2>3
  <2>5. h[V] = h[V \ {x}] + v[x]
    <3>1. V \in SUBSET E
      OBVIOUS
    <3>2. Splits(h, v, V)
      BY <1>3, <1>4, <3>1, SumsSplit
    <3> QED BY <2>3, <3>2 DEF Splits
  <2>6. g[next(V)] = g[next(V) \ {x + 1}] + w[x + 1]
    <3>1. next(V) \in SUBSET D /\ x + 1 \in next(V)
      BY <1>5
    <3> DEFINE X == next(V)
    <3>2. X \in SUBSET D /\ x + 1 \in X
      BY <3>1
    <3> HIDE DEF X
    <3>3. Splits(g, w, X)
      BY <1>2, <1>4, <3>2, SumsSplit
    <3> QED BY <3>2, <3>3 DEF X, Splits
  <2>7. next(V) \ {x + 1} = next(V \ {x})
    <3>1. \A y \in V : y \in Int
      BY <1>1 DEF E
    <3> QED BY <2>3, <3>1
  <2> QED BY <1>4, <2>1, <2>3, <2>4, <2>5, <2>6, <2>7
<1>7. g[D] = g[D \ {1}] + w[1] /\ g[D \ {1}] \in Int /\ w[1] \in Int
  <2>1. D \in SUBSET D /\ D \ {1} \in SUBSET D
    OBVIOUS
  <2>0. IsFiniteSet(D) /\ w \in [D -> Int] /\ Sums(g, w, D)
    BY <1>2, <1>4
  <2>2. g[D] = g[D \ {1}] + w[1]
    <3>1. Splits(g, w, D)
      BY <2>0, <2>1, SumsSplit
    <3> QED BY <1>5, <3>1 DEF Splits
  <2>3. g[D \ {1}] \in Int
    <3> DEFINE X == D \ {1}
    <3>1. X \in SUBSET D
      OBVIOUS
    <3> HIDE DEF X
    <3>2. Splits(g, w, X)
      BY <2>0, <3>1, SumsSplit
    <3> QED BY <3>2 DEF X, Splits
  <2>4. w[1] \in Int
    BY <1>4, <1>5
  <2> QED BY <2>2, <2>3, <2>4
<1>8. g[D \ {1}] = h[E]
  BY <1>5, <1>6
<1> QED BY <1>2, <1>3, <1>5, <1>7, <1>8 DEF t

\* What weighs something weighs more than nothing.
LEMMA TotalNat ==
    ASSUME NEW U, NEW s \in Seq(U), NEW weight \in [U -> Int],
           \A i \in 1 .. Len(s) : weight[s[i]] \in Nat
    PROVE  Total(weight, s) \in Nat
<1> DEFINE w == Weights(weight, s)
           D == DOMAIN s
<1>1. PICK k : Sums(k, w, D) /\ Total(weight, s) = k[D]
  BY TotalOf
<1>2. /\ IsFiniteSet(D) /\ w \in [D -> Int] /\ \A i \in D : w[i] \in Nat
  BY Indices DEF Weights
<1> HIDE DEF w, D
<1>3. ASSUME NEW V \in SUBSET D, k[V] \notin Nat PROVE FALSE
  <2> DEFINE Wrong == {X \in SUBSET D : k[X] \notin Nat}
  <2>1. PICK X \in Wrong : \A Y \in Wrong : ~(Y \subseteq X /\ Y # X)
    <3>1. Wrong \subseteq SUBSET D /\ Wrong # {}
      BY <1>3
    <3> HIDE DEF Wrong
    <3> QED BY <1>2, <3>1, SmallestSet
  <2>2. X # {}
    <3>1. k[{}] = 0
      <4>1. Sums(k, w, D)
        BY <1>1
      <4> QED BY <4>1, SumsAt
    <3>2. k[X] \notin Nat
      BY <2>1
    <3>3. ASSUME X = {} PROVE k[X] = 0
      BY <3>1, <3>3
    <3> HIDE DEF Wrong
    <3> QED BY <3>2, <3>3
  <2>3. PICK x \in X : TRUE
    BY <2>2
  <2>4. Splits(k, w, X)
    <3>1. X \in SUBSET D
      OBVIOUS
    <3> QED BY <1>1, <1>2, <3>1, SumsSplit
  <2>5. k[X] = k[X \ {x}] + w[x]
    BY <2>3, <2>4 DEF Splits
  <2>6. k[X \ {x}] \in Nat /\ w[x] \in Nat
    BY <1>2, <2>1, <2>3
  <2> QED BY <2>5, <2>6
<1> QED BY <1>1, <1>3 DEF D

\* A sequence of things that weigh something weighs something.
LEMMA TotalPositive ==
    ASSUME NEW U, NEW s \in Seq(U), NEW weight \in [U -> Int], s # <<>>,
           \A i \in 1 .. Len(s) : weight[s[i]] \in Nat \ {0}
    PROVE  Total(weight, s) \in Nat /\ Total(weight, s) > 0
<1>1. Total(weight, s) = weight[s[1]] + Total(weight, Tail(s))
  BY TotalTail
<1>2. /\ Tail(s) \in Seq(U) /\ Len(s) \in Nat /\ Len(s) > 0
      /\ \A i \in 1 .. Len(Tail(s)) : Tail(s)[i] = s[i + 1] /\ i + 1 \in 1 .. Len(s)
  BY HeadTailProperties
<1>3. Total(weight, Tail(s)) \in Nat
  <2>1. \A i \in 1 .. Len(Tail(s)) : weight[Tail(s)[i]] \in Nat
    BY <1>2
  <2> HIDE DEF Total
  <2> QED BY <1>2, <2>1, TotalNat
<1>4. weight[s[1]] \in Nat \ {0}
  BY <1>2
<1> QED BY <1>1, <1>3, <1>4

\* Changing the first element changes the sum by as much.
LEMMA TotalFirst ==
    ASSUME NEW U, NEW s \in Seq(U), NEW weight \in [U -> Int], s # <<>>, NEW u \in U
    PROVE  Total(weight, [s EXCEPT ![1] = u]) = Total(weight, s) - weight[s[1]] + weight[u]
<1> DEFINE t == [s EXCEPT ![1] = u]
<1>1. /\ t \in Seq(U) /\ t # <<>> /\ t[1] = u /\ Tail(t) = Tail(s) /\ Tail(s) \in Seq(U)
      /\ s[1] \in U
  <2>1. t \in Seq(U) /\ Len(t) = Len(s) /\ t[1] = u /\ Len(s) > 0
        /\ \A i \in 1 .. Len(s) : i # 1 => t[i] = s[i]
    BY ExceptSeq
  <2>2. Tail(t) = Tail(s)
    <3>1. /\ Tail(t) \in Seq(U) /\ Tail(s) \in Seq(U) /\ Len(Tail(t)) = Len(Tail(s))
          /\ \A i \in 1 .. Len(Tail(t)) : Tail(t)[i] = Tail(s)[i]
      BY <2>1, HeadTailProperties
    <3> QED BY <3>1, SeqEqual
  <2> QED BY <2>1, <2>2
<1> HIDE DEF t
<1>2. /\ Total(weight, t) = weight[u] + Total(weight, Tail(s))
      /\ Total(weight, s) = weight[s[1]] + Total(weight, Tail(s))
  BY <1>1, TotalTail
<1>3. Total(weight, Tail(s)) \in Int /\ weight[u] \in Int /\ weight[s[1]] \in Int
  BY <1>1, TotalTyped
<1> QED BY <1>2, <1>3 DEF t

\* Counting is adding ones.
LEMMA TotalCounts ==
    ASSUME NEW U, NEW s \in Seq(U), NEW P \in [U -> BOOLEAN]
    PROVE  Total([u \in U |-> IF P[u] THEN 1 ELSE 0], s)
               = Cardinality({i \in 1 .. Len(s) : P[s[i]]})
<1> DEFINE weight == [u \in U |-> IF P[u] THEN 1 ELSE 0]
           w == Weights(weight, s)
           D == DOMAIN s
           found(V) == {i \in V : P[s[i]]}
<1>0. weight \in [U -> Int]
  OBVIOUS
<1>1. PICK k : Sums(k, w, D) /\ Total(weight, s) = k[D]
  <2> HIDE DEF weight
  <2> QED BY <1>0, TotalOf
<1>2. /\ IsFiniteSet(D) /\ w \in [D -> Int]
      /\ D = 1 .. Len(s) /\ \A i \in D : s[i] \in U
  <2> HIDE DEF weight
  <2> QED BY <1>0, Indices
<1>3. \A i \in D : w[i] = IF P[s[i]] THEN 1 ELSE 0
  BY <1>2 DEF Weights
<1> HIDE DEF w, D, weight
<1>4. ASSUME NEW V \in SUBSET D, k[V] # Cardinality(found(V)) PROVE FALSE
  <2> DEFINE Wrong == {X \in SUBSET D : k[X] # Cardinality(found(X))}
  <2>1. PICK X \in Wrong : \A Y \in Wrong : ~(Y \subseteq X /\ Y # X)
    <3>1. Wrong \subseteq SUBSET D /\ Wrong # {} /\ IsFiniteSet(D)
      BY <1>2, <1>4
    <3> HIDE DEF Wrong
    <3> QED BY <3>1, SmallestSet
  <2>2. X # {}
    <3>1. found({}) = {}
      OBVIOUS
    <3> QED BY <1>1, <3>1, SumsAt, FS_EmptySet
  <2>3. PICK x \in X : TRUE
    BY <2>2
  <2>4. Splits(k, w, X)
    <3>1. X \in SUBSET D
      OBVIOUS
    <3> QED BY <1>1, <1>2, <3>1, SumsSplit
  <2>5. k[X] = k[X \ {x}] + w[x]
    BY <2>3, <2>4 DEF Splits
  <2>6. k[X \ {x}] = Cardinality(found(X \ {x}))
    <3>1. X \ {x} \in SUBSET D /\ X \ {x} \subseteq X /\ X \ {x} # X
      BY <2>3
    <3>2. X \ {x} \notin Wrong
      <4> HIDE DEF Wrong
      <4> QED BY <2>1, <3>1
    <3> QED BY <3>1, <3>2
  <2>7. IsFiniteSet(found(X \ {x})) /\ x \notin found(X \ {x})
    BY <1>2, <2>1, FS_Subset
  <2>8. CASE P[s[x]]
    <3>1. found(X) = found(X \ {x}) \cup {x}
      BY <2>3, <2>8
    <3>2. Cardinality(found(X)) = Cardinality(found(X \ {x})) + 1
      <4> HIDE DEF found
      <4> QED BY <2>7, <3>1, FS_AddElement
    <3>3. w[x] = 1
      BY <1>3, <2>3, <2>8
    <3> QED BY <2>1, <2>5, <2>6, <3>2, <3>3
  <2>9. CASE ~P[s[x]]
    <3>1. found(X) = found(X \ {x})
      BY <2>3, <2>9
    <3>2. w[x] = 0
      BY <1>3, <2>3, <2>9
    <3>3. Cardinality(found(X \ {x})) \in Int
      <4> HIDE DEF found
      <4> QED BY <2>7, FS_CardinalityType
    <3>4. k[X] = Cardinality(found(X \ {x}))
      <4> HIDE DEF found
      <4> QED BY <2>5, <2>6, <3>2, <3>3
    <3> QED BY <2>1, <3>1, <3>4
  <2> QED BY <2>8, <2>9
<1>5. k[D] = Cardinality(found(D))
  BY <1>4
<1> QED BY <1>1, <1>2, <1>5 DEF weight

-----------------------------------------------------------------------------
(* The invariant *)

\* At most one operation is in progress, and only in the service state that
\* goes with it: a failure can hit either the preparation or the synthesis.
OneOperation ==
    /\ activeSynthesis # NoSegment <=> serviceState = "generating"
    /\ activeSynthesis # NoSegment => identity # NoIdentity
    /\ resources.activeNarrationPreparations # 0 => serviceState = "ready"

IInv == TypeOK /\ WithinCeilings /\ OneOperation /\ Conveyor

USE LimitsAssumption, TargetsAssumption, InputsAssumption

-----------------------------------------------------------------------------
(* The operators *)

\* Whatever the refresh decides, it leaves typed listening variables.
LEMMA RefreshTyped ==
    ASSUME StateTypes, refreshPlaybackState,
           serviceState' \in {"stopped", "starting", "unloaded", "preparing",
             "ready", "generating", "cancelling", "stopping", "failed"}
    PROVE  StateTypes'
BY DEF StateTypes, refreshPlaybackState, listeningVars

\* A failure leaves typed listening variables.
LEMMA FailTyped ==
    ASSUME StateTypes, failPlaybackWhenSilent, serviceState' = "failed"
    PROVE  StateTypes'
BY DEF StateTypes, failPlaybackWhenSilent

\* Operations are dispatched in one service state each.
LEMMA DispatchStates ==
    /\ nextAction = "start-service" => serviceState = "stopped"
    /\ nextAction = "prepare-service" => serviceState = "unloaded"
    /\ nextAction \in {"prepare-narration", "synthesize"} =>
          /\ identity # NoIdentity
          /\ serviceState \notin {"failed", "stopped", "unloaded", "starting",
                "preparing", "cancelling", "stopping", "generating"}
          /\ resources.activeNarrationPreparations = 0
          /\ canReserveAdaptiveBufferServiceUnit(resources)
    /\ nextAction = "synthesize" => pendingSegments # <<>>
BY DEF nextAction

LEMMA InitialRateTyped ==
    \A rate \in Rates : initialPlaybackRate(rate)
                            \in [selected : Nat, active : Nat, pending : Nat]
BY DEF initialPlaybackRate, selectNarrationPlaybackRate, NoRate

LEMMA ModeTyped == \A m \in Modes : m \in Nat
BY DEF Modes, Quick

\* The counters of an empty scheduler.
LEMMA EmptyTyped ==
    /\ DOMAIN emptyResources = Counters
    /\ \A counter \in Counters : emptyResources[counter] \in Int
    /\ WithinLimits(emptyResources)
    /\ emptyResources.activeNarrationPreparations = 0
BY DEF emptyResources, Counters, WithinLimits

-----------------------------------------------------------------------------
(* Initial states *)

LEMMA InitIInv == Init => IInv
<1> SUFFICES ASSUME Init PROVE IInv
  OBVIOUS
<1>1. RunTypes /\ RateTypes
  BY InitialRateTyped, ModeTyped DEF Init, RunTypes, RateTypes, NoSequence
<1>2. TextTypes
  <2>1. pendingSegments \in Seq(Segment)
    BY DEF Init
  <2>2. activeSynthesis \in Segment \cup {NoSegment}
    BY DEF Init
  <2>3. lastAcceptedSequence \in Nat /\ remaining \in Nat
    BY DEF Init, NoSequence
  <2>4. rangeComplete \in BOOLEAN
    BY DEF Init
  <2>. QED BY <2>1, <2>2, <2>3, <2>4 DEF TextTypes
<1>3. UnitTypes
  <2>1. DOMAIN releases = {}
    BY DEF Init
  <2>. QED BY <2>1 DEF Init, UnitTypes
<1>4. StateTypes
  BY DEF Init, StateTypes
<1>5. ResourceTypes /\ WithinCeilings
  BY EmptyTyped DEF Init, ResourceTypes, WithinCeilings
<1>6. OneOperation
  BY EmptyTyped DEF Init, OneOperation, NoIdentity
<1>7. Conveyor
  BY DEF Init, Conveyor, Active, NoIdentity, NoSequence
<1>. QED BY <1>1, <1>2, <1>3, <1>4, <1>5, <1>6, <1>7 DEF IInv, TypeOK

-----------------------------------------------------------------------------
(* Type correctness, action by action *)

\* Variables a method leaves alone keep their types.
LEMMA UnchangedTyped ==
    ASSUME TypeOK
    PROVE  /\ UNCHANGED runVars => RunTypes'
           /\ UNCHANGED textVars => TextTypes'
           /\ UNCHANGED unitVars => UnitTypes'
           /\ UNCHANGED rateVars => RateTypes'
           /\ UNCHANGED resources => ResourceTypes'
           /\ UNCHANGED listeningVars /\ UNCHANGED serviceState => StateTypes'
<1>1. UNCHANGED runVars => RunTypes'
  BY DEF TypeOK, RunTypes, runVars
<1>2. UNCHANGED textVars => TextTypes'
  BY DEF TypeOK, TextTypes, textVars
<1>3. UNCHANGED unitVars => UnitTypes'
  BY DEF TypeOK, UnitTypes, unitVars
<1>4. UNCHANGED rateVars => RateTypes'
  BY DEF TypeOK, RateTypes, rateVars
<1>5. UNCHANGED resources => ResourceTypes'
  BY DEF TypeOK, ResourceTypes
<1>6. UNCHANGED listeningVars /\ UNCHANGED serviceState => StateTypes'
  BY DEF TypeOK, StateTypes, listeningVars
<1>. QED BY <1>1, <1>2, <1>3, <1>4, <1>5, <1>6

LEMMA ReservedTyped ==
    ASSUME ResourceTypes
    PROVE  /\ DOMAIN Reserved(resources) = Counters
           /\ \A counter \in Counters : Reserved(resources)[counter] \in Int
<1>1. DOMAIN Reserved(resources) = Counters
  BY DEF Reserved, ResourceTypes
<1>2. Reservation \in Int
  OBVIOUS
<1>3. ASSUME NEW counter \in Counters
      PROVE  Reserved(resources)[counter] \in Int
  <2>1. resources[counter] \in Int /\ counter \in DOMAIN resources
    BY DEF ResourceTypes
  <2>2. Reserved(resources)[counter] \in
            {resources[counter], resources[counter] + Reservation,
             resources[counter] + 1}
    BY <2>1 DEF Reserved
  <2>. QED BY <1>2, <2>1, <2>2
<1>. QED BY <1>1, <1>3

LEMMA DispatchTyped == TypeOK /\ Dispatch => TypeOK'
<1> SUFFICES ASSUME TypeOK, Dispatch PROVE TypeOK'
  OBVIOUS
<1>1. CASE beginServiceStart \/ beginServicePrepare
  <2>1. StateTypes'
    BY <1>1 DEF beginServiceStart, beginServicePrepare, ServiceStep, TypeOK,
       StateTypes, listeningVars
  <2>. QED BY <1>1, <2>1, UnchangedTyped
           DEF beginServiceStart, beginServicePrepare, ServiceStep, TypeOK
<1>2. CASE beginNarrationPreparation
  <2>1. ResourceTypes'
    BY <1>2 DEF beginNarrationPreparation, TypeOK, ResourceTypes, Counters
  <2>. QED BY <1>2, <2>1, UnchangedTyped DEF beginNarrationPreparation, TypeOK
<1>3. CASE beginSynthesis
  <2>1. /\ Head(pendingSegments) \in Segment
        /\ Tail(pendingSegments) \in Seq(Segment)
    BY <1>3, DispatchStates DEF beginSynthesis, TypeOK, TextTypes
  <2>2. TextTypes'
    BY <1>3, <2>1 DEF beginSynthesis, TypeOK, TextTypes
  <2>3. UnitTypes'
    <3>1. <<identity, Head(pendingSegments).sequence>> \in Nat \X Sequence
      BY <2>1 DEF TypeOK, RunTypes, Segment
    <3>2. (inflight \subseteq Nat \X Sequence)'
      BY <1>3, <3>1 DEF beginSynthesis, TypeOK, UnitTypes
    <3>. QED BY <1>3, <3>2 DEF beginSynthesis, TypeOK, UnitTypes
  <2>4. ResourceTypes'
    BY <1>3, ReservedTyped DEF beginSynthesis, TypeOK, ResourceTypes
  <2>5. StateTypes'
    BY <1>3 DEF beginSynthesis, TypeOK, StateTypes, listeningVars
  <2>. QED BY <1>3, <2>2, <2>3, <2>4, <2>5, UnchangedTyped
           DEF beginSynthesis, TypeOK
<1>. QED BY <1>1, <1>2, <1>3 DEF Dispatch

LEMMA ServiceAnswerTyped ==
    ASSUME TypeOK, markServiceStarted \/ markServiceReady
                       \/ failServiceTransition
    PROVE  TypeOK'
<1>1. CASE markServiceStarted \/ markServiceReady
  <2>1. StateTypes'
    BY <1>1 DEF markServiceStarted, markServiceReady, ServiceStep, TypeOK,
       StateTypes, listeningVars
  <2>. QED BY <1>1, <2>1, UnchangedTyped
           DEF markServiceStarted, markServiceReady, ServiceStep, TypeOK
<1>2. CASE failServiceTransition
  BY <1>2, FailTyped, UnchangedTyped DEF failServiceTransition, TypeOK
<1>. QED BY <1>1, <1>2

LEMMA PreparedTyped ==
    ASSUME TypeOK, NEW n \in 1 .. MaximumSegments, NEW complete \in BOOLEAN,
           NEW texts \in [1 .. n -> TextSizes],
           acceptPreparedBatch(texts, complete)
    PROVE  TypeOK'
<1>1. Len(texts) = n /\ \A i \in 1 .. n : texts[i] \in Nat
  <2>1. n \in Nat
    OBVIOUS
  <2>2. texts \in Seq(TextSizes)
    BY <2>1, SeqDef
  <2>3. \A i \in 1 .. n : texts[i] \in Nat
    OBVIOUS
  <2>4. Len(texts) \in Nat /\ DOMAIN texts = 1 .. Len(texts)
    BY <2>2
  <2>5. 1 .. Len(texts) = 1 .. n
    BY <2>4
  <2>. QED BY <2>1, <2>3, <2>4, <2>5
<1>2. TextTypes'
  <2>1. (pendingSegments \in Seq(Segment))'
    <3>1. Numbered(texts) \in Seq(Segment)
      BY <1>1 DEF Numbered, TypeOK, TextTypes, Segment, Sequence, NoSequence
    <3>. QED BY <3>1 DEF acceptPreparedBatch
  <2>2. (lastAcceptedSequence \in Nat /\ remaining \in Nat)'
    BY <1>1 DEF acceptPreparedBatch, TypeOK, TextTypes
  <2>3. (rangeComplete \in BOOLEAN)'
    BY DEF acceptPreparedBatch
  <2>4. (activeSynthesis \in Segment \cup {NoSegment})'
    BY DEF acceptPreparedBatch, TypeOK, TextTypes
  <2>. QED BY <2>1, <2>2, <2>3, <2>4 DEF TextTypes
<1>3. ResourceTypes'
  BY DEF acceptPreparedBatch, evaluateAdaptiveBufferResources, TypeOK,
     ResourceTypes
<1>. QED BY <1>2, <1>3, UnchangedTyped DEF acceptPreparedBatch, TypeOK

LEMMA PreparationEndTyped ==
    ASSUME TypeOK,
           \/ failNarrationPreparation
           \/ \E complete \in BOOLEAN : acceptEmptyPreparedRange(complete)
    PROVE  TypeOK'
<1>1. CASE failNarrationPreparation
  <2>1. ResourceTypes'
    BY <1>1 DEF failNarrationPreparation, TypeOK, ResourceTypes, Counters
  <2>. QED BY <1>1, <2>1, FailTyped, UnchangedTyped
           DEF failNarrationPreparation, TypeOK
<1>2. ASSUME NEW complete \in BOOLEAN, acceptEmptyPreparedRange(complete)
      PROVE  TypeOK'
  <2>1. ResourceTypes'
    BY <1>2 DEF acceptEmptyPreparedRange, TypeOK, ResourceTypes, Counters
  <2>2. TextTypes'
    BY <1>2 DEF acceptEmptyPreparedRange, TypeOK, TextTypes
  <2>3. StateTypes'
    BY <1>2, RefreshTyped
       DEF acceptEmptyPreparedRange, TypeOK, StateTypes
  <2>. QED BY <1>2, <2>1, <2>2, <2>3, UnchangedTyped
           DEF acceptEmptyPreparedRange, TypeOK
<1>. QED BY <1>1, <1>2

\* An answered unit is recorded under a typed identity.
LEMMA DeliveredTyped ==
    ASSUME TypeOK, NEW id \in inflight, NEW released, Delivered(id, released)
    PROVE  /\ inflight' \subseteq Nat \X Sequence
           /\ DOMAIN releases' \subseteq Nat \X Sequence
BY DEF Delivered, TypeOK, UnitTypes

LEMMA SettledTyped ==
    ASSUME TypeOK
    PROVE  /\ DOMAIN settleActivePromptResources(resources) = Counters
           /\ \A counter \in Counters :
                 settleActivePromptResources(resources)[counter] \in Int
<1>1. activeSynthesis.text \in Nat
  BY DEF TypeOK, TextTypes, Segment, NoSegment
<1>2. DOMAIN resources = Counters
  BY DEF TypeOK, ResourceTypes
<1>3. ASSUME NEW counter \in Counters
      PROVE  settleActivePromptResources(resources)[counter] \in Int
  <2>1. /\ resources[counter] \in Int
        /\ resources.retainedPreparedSegments \in Int
    BY DEF TypeOK, ResourceTypes, Counters
  <2>2. settleActivePromptResources(resources)[counter] \in
            {resources[counter], resources.retainedPreparedSegments - 1,
             resources[counter] - activeSynthesis.text, 0}
    BY <1>2 DEF settleActivePromptResources
  <2>. QED BY <1>1, <2>1, <2>2
<1>. QED BY <1>2, <1>3 DEF settleActivePromptResources

LEMMA SettleTyped ==
    ASSUME TypeOK, settleActiveSynthesis, UnitTypes'
    PROVE  TypeOK'
<1>1. ResourceTypes'
  BY SettledTyped DEF settleActiveSynthesis, ResourceTypes, Counters
<1>2. TextTypes'
  BY DEF settleActiveSynthesis, TypeOK, TextTypes
<1>3. StateTypes'
  BY FailTyped DEF settleActiveSynthesis, TypeOK
<1>. QED BY <1>1, <1>2, <1>3, UnchangedTyped DEF settleActiveSynthesis, TypeOK

LEMMA FailedSynthesisTyped ==
    ASSUME TypeOK,
           \/ failActiveSynthesis
           \/ \E id \in inflight : rejectInvalidUnit(id)
    PROVE  TypeOK'
<1>1. CASE failActiveSynthesis
  <2>1. UnitTypes'
    BY <1>1 DEF failActiveSynthesis, settleActiveSynthesis, TypeOK, UnitTypes
  <2>. QED BY <1>1, <2>1, SettleTyped DEF failActiveSynthesis
<1>2. ASSUME NEW id \in inflight, rejectInvalidUnit(id) PROVE TypeOK'
  <2>1. UnitTypes'
    BY <1>2, DeliveredTyped
       DEF rejectInvalidUnit, settleActiveSynthesis, TypeOK, UnitTypes
  <2>. QED BY <1>2, <2>1, SettleTyped DEF rejectInvalidUnit
<1>. QED BY <1>1, <1>2

LEMMA CompletedTyped ==
    ASSUME TypeOK, NEW id \in inflight, NEW frames \in FrameCounts,
           acceptCompletedUnit(id, frames)
    PROVE  TypeOK'
<1>1. ResourceTypes'
  <2> DEFINE settled == settleActivePromptResources(resources)
  <2>1. DOMAIN settled = Counters /\ \A c \in Counters : settled[c] \in Int
    BY SettledTyped
  <2>2. resources' = [settled EXCEPT
            !.audioSampleFrames = @ - Reservation + frames]
    BY DEF acceptCompletedUnit
  <2> HIDE DEF settled
  <2>3. frames \in Int /\ Reservation \in Int
    OBVIOUS
  <2>. QED BY <2>1, <2>2, <2>3 DEF ResourceTypes, Counters
<1>2. TextTypes'
  BY DEF acceptCompletedUnit, TypeOK, TextTypes
<1>3. UnitTypes'
  <2>1. id[1] \in Nat /\ activeSynthesis.sequence \in Sequence
    BY DEF acceptCompletedUnit, sameIdentity, TypeOK, UnitTypes, TextTypes,
           Segment
  <2>2. [generation |-> id[1], sequence |-> activeSynthesis.sequence,
         sampleFrames |-> frames, consumedSampleFrames |-> 0] \in Unit
    BY <2>1 DEF Unit
  <2>3. (audioUnits \in Seq(Unit))'
    BY <2>2, AppendProperties DEF acceptCompletedUnit, TypeOK, UnitTypes
  <2>. QED BY <2>3, DeliveredTyped DEF acceptCompletedUnit, TypeOK, UnitTypes
<1>4. StateTypes'
  BY RefreshTyped DEF acceptCompletedUnit, TypeOK, StateTypes
<1>. QED BY <1>1, <1>2, <1>3, <1>4, UnchangedTyped
         DEF acceptCompletedUnit, TypeOK

LEMMA AnswerTyped == TypeOK /\ Answer => TypeOK'
BY ServiceAnswerTyped, PreparedTyped, PreparationEndTyped,
   FailedSynthesisTyped, CompletedTyped DEF Answer

LEMMA WithoutUnitTyped ==
    ASSUME ResourceTypes, NEW unit \in Unit
    PROVE  /\ DOMAIN WithoutUnit(resources, unit) = Counters
           /\ \A counter \in Counters :
                 WithoutUnit(resources, unit)[counter] \in Int
BY DEF WithoutUnit, ResourceTypes, Counters, Unit

LEMMA RenderTyped == TypeOK /\ Render => TypeOK'
<1> SUFFICES ASSUME TypeOK, Render PROVE TypeOK'
  OBVIOUS
<1>1. CASE activateCurrentPlaybackRate
  <2>1. audioUnits[1] \in Unit
    BY <1>1 DEF activateCurrentPlaybackRate, TypeOK, UnitTypes
  <2>2. RateTypes'
    BY <1>1, <2>1 DEF activateCurrentPlaybackRate, TypeOK, RateTypes, Unit,
       Sequence, NoRate
  <2>. QED BY <1>1, <2>2, UnchangedTyped
           DEF activateCurrentPlaybackRate, TypeOK
<1>2. ASSUME NEW frames \in 1 .. Reservation,
             accountRenderedSampleFrames(frames)
      PROVE  TypeOK'
  <2>1. audioUnits[1] \in Unit /\ 1 \in DOMAIN audioUnits
    BY <1>2 DEF accountRenderedSampleFrames, TypeOK, UnitTypes
  <2>2. ResourceTypes'
    BY <1>2, <2>1, WithoutUnitTyped
       DEF accountRenderedSampleFrames, TypeOK, ResourceTypes
  <2>3. UnitTypes'
    <3>1. CASE frames = Remaining(audioUnits[1])
      <4>1. /\ audioUnits \in Seq(Unit) /\ audioUnits # <<>> /\ heard \in Nat
            /\ audioUnits' = Tail(audioUnits) /\ heard' = heard + 1
        BY <1>2, <3>1 DEF accountRenderedSampleFrames, TypeOK, UnitTypes
      <4>2. DOMAIN releases' = DOMAIN releases
        BY <1>2, <3>1 DEF accountRenderedSampleFrames
      <4>3. (audioUnits \in Seq(Unit))' /\ heard' \in Nat
        BY <4>1, HeadTailProperties
      <4>4. UNCHANGED <<discardedAudioUnits, inflight>>
        BY <1>2 DEF accountRenderedSampleFrames
      <4>. QED BY <4>2, <4>3, <4>4 DEF TypeOK, UnitTypes
    <3>2. CASE frames # Remaining(audioUnits[1])
      <4>1. audioUnits[1].consumedSampleFrames + frames \in Nat
        BY <2>1 DEF Unit
      <4>2. [audioUnits[1] EXCEPT !.consumedSampleFrames = @ + frames] \in Unit
        BY <2>1, <4>1 DEF Unit
      <4>3. audioUnits' = [audioUnits EXCEPT ![1] =
                [audioUnits[1] EXCEPT !.consumedSampleFrames = @ + frames]]
        BY <1>2, <3>2 DEF accountRenderedSampleFrames
      <4>4. (audioUnits \in Seq(Unit))'
        BY <2>1, <4>2, <4>3, ExceptSeq DEF TypeOK, UnitTypes
      <4>. QED BY <1>2, <3>2, <4>4
               DEF accountRenderedSampleFrames, TypeOK, UnitTypes
    <3>. QED BY <3>1, <3>2
  <2>4. StateTypes'
    BY <1>2, RefreshTyped DEF accountRenderedSampleFrames, TypeOK, StateTypes
  <2>. QED BY <1>2, <2>2, <2>3, <2>4, UnchangedTyped
           DEF accountRenderedSampleFrames, TypeOK
<1>. QED BY <1>1, <1>2 DEF Render

LEMMA ListenerTyped == TypeOK /\ Listener => TypeOK'
<1> SUFFICES ASSUME TypeOK, Listener PROVE TypeOK'
  OBVIOUS
<1>1. ASSUME NEW rate \in Rates, selectPlaybackRatePercent(rate)
      PROVE  TypeOK'
  <2>1. (playbackRate \in [selected : Nat, active : Nat, pending : Nat])'
    BY <1>1 DEF selectPlaybackRatePercent, selectNarrationPlaybackRate,
       TypeOK, RateTypes, NoRate
  <2>2. RateTypes'
    BY <1>1, <2>1 DEF selectPlaybackRatePercent, TypeOK, RateTypes
  <2>3. StateTypes'
    BY <1>1, RefreshTyped DEF selectPlaybackRatePercent, TypeOK, StateTypes
  <2>. QED BY <1>1, <2>2, <2>3, UnchangedTyped
           DEF selectPlaybackRatePercent, TypeOK
<1>2. CASE pausePlayback \/ resumePlayback \/ playAvailableAudio
  <2>1. StateTypes'
    BY <1>2 DEF pausePlayback, resumePlayback, playAvailableAudio, TypeOK,
       StateTypes
  <2>. QED BY <1>2, <2>1, UnchangedTyped
           DEF pausePlayback, resumePlayback, playAvailableAudio, TypeOK
<1>. QED BY <1>1, <1>2 DEF Listener

LEMMA TeardownTyped == TypeOK /\ Teardown => TypeOK'
<1> SUFFICES ASSUME TypeOK, Teardown PROVE TypeOK'
  OBVIOUS
<1>1. CASE invalidate
  <2>1. RunTypes'
    BY <1>1 DEF invalidate, TypeOK, RunTypes, NoIdentity
  <2>2. TextTypes'
    <3>1. (pendingSegments \in Seq(Segment))'
      BY <1>1 DEF invalidate
    <3>2. (activeSynthesis \in Segment \cup {NoSegment})'
      BY <1>1 DEF invalidate
    <3>3. (rangeComplete \in BOOLEAN)'
      BY <1>1 DEF invalidate
    <3>4. (lastAcceptedSequence \in Nat /\ remaining \in Nat)'
      BY <1>1 DEF invalidate, TypeOK, TextTypes
    <3>. QED BY <3>1, <3>2, <3>3, <3>4 DEF TextTypes
  <2>3. UnitTypes'
    <3>1. (discardedAudioUnits \in Seq(Unit) /\ audioUnits \in Seq(Unit))'
      BY <1>1, ConcatProperties DEF invalidate, TypeOK, UnitTypes
    <3>. QED BY <1>1, <3>1 DEF invalidate, TypeOK, UnitTypes
  <2>4. StateTypes'
    BY <1>1 DEF invalidate, TypeOK, StateTypes
  <2>5. RateTypes'
    BY <1>1 DEF invalidate, TypeOK, RateTypes, NoSequence
  <2>6. ResourceTypes'
    <3>1. CASE activeSynthesis = NoSegment
      <4>1. resources' = [emptyResources EXCEPT
                !.audioSampleFrames = resources.audioSampleFrames - 0 * Reservation,
                !.completeAudioUnits = resources.completeAudioUnits - 0]
        BY <1>1, <3>1 DEF invalidate
      <4>. QED BY <4>1, EmptyTyped DEF TypeOK, ResourceTypes, Counters
    <3>2. CASE activeSynthesis # NoSegment
      <4>1. resources' = [emptyResources EXCEPT
                !.audioSampleFrames = resources.audioSampleFrames - 1 * Reservation,
                !.completeAudioUnits = resources.completeAudioUnits - 1]
        BY <1>1, <3>2 DEF invalidate
      <4>. QED BY <4>1, EmptyTyped DEF TypeOK, ResourceTypes, Counters
    <3>. QED BY <3>1, <3>2
  <2>. QED BY <2>1, <2>2, <2>3, <2>4, <2>5, <2>6 DEF TypeOK
<1>2. CASE releaseDiscardedAudioUnits
  <2>1. discardedAudioUnits[1] \in Unit
    BY <1>2 DEF releaseDiscardedAudioUnits, TypeOK, UnitTypes
  <2>2. ResourceTypes'
    BY <1>2, <2>1, WithoutUnitTyped
       DEF releaseDiscardedAudioUnits, TypeOK, ResourceTypes
  <2>3. UnitTypes'
    BY <1>2, <2>1 DEF releaseDiscardedAudioUnits, TypeOK, UnitTypes
  <2>. QED BY <1>2, <2>2, <2>3, UnchangedTyped
           DEF releaseDiscardedAudioUnits, TypeOK
<1>3. CASE settleServiceStop
  <2>1. StateTypes'
    BY <1>3 DEF settleServiceStop, ServiceStep, TypeOK, StateTypes,
       listeningVars
  <2>. QED BY <1>3, <2>1, UnchangedTyped
           DEF settleServiceStop, ServiceStep, TypeOK
<1>4. ASSUME NEW id \in inflight, discardStaleUnit(id) PROVE TypeOK'
  <2>1. UnitTypes'
    BY <1>4, DeliveredTyped
       DEF discardStaleUnit, schedulerVars, TypeOK, UnitTypes
  <2>2. RunTypes' /\ TextTypes' /\ StateTypes'
    BY <1>4 DEF discardStaleUnit, schedulerVars, TypeOK, RunTypes, TextTypes,
       StateTypes
  <2>3. RateTypes' /\ ResourceTypes'
    BY <1>4 DEF discardStaleUnit, schedulerVars, TypeOK, RateTypes,
       ResourceTypes
  <2>. QED BY <2>1, <2>2, <2>3 DEF TypeOK
<1>5. ASSUME NEW newMode \in Modes, NEW rate \in Rates, NewRun(newMode, rate)
      PROVE  TypeOK'
  <2>1. RunTypes'
    BY <1>5, ModeTyped DEF NewRun, TypeOK, RunTypes
  <2>2. TextTypes'
    <3>1. (pendingSegments \in Seq(Segment))'
      BY <1>5 DEF NewRun
    <3>2. (activeSynthesis \in Segment \cup {NoSegment})'
      BY <1>5 DEF NewRun
    <3>3. (rangeComplete \in BOOLEAN /\ lastAcceptedSequence \in Nat)'
      BY <1>5 DEF NewRun, NoSequence
    <3>4. (remaining \in Nat)'
      BY <1>5 DEF NewRun
    <3>. QED BY <3>1, <3>2, <3>3, <3>4 DEF TextTypes
  <2>3. UnitTypes'
    BY <1>5 DEF NewRun, TypeOK, UnitTypes
  <2>4. StateTypes'
    BY <1>5 DEF NewRun, StateTypes
  <2>5. RateTypes'
    BY <1>5, InitialRateTyped DEF NewRun, RateTypes, NoSequence
  <2>6. ResourceTypes'
    BY <1>5, EmptyTyped DEF NewRun, ResourceTypes
  <2>. QED BY <2>1, <2>2, <2>3, <2>4, <2>5, <2>6 DEF TypeOK
<1>. QED BY <1>1, <1>2, <1>3, <1>4, <1>5 DEF Teardown

LEMMA StutterTyped == TypeOK /\ UNCHANGED vars => TypeOK'
<1> SUFFICES ASSUME TypeOK, UNCHANGED vars PROVE TypeOK'
  OBVIOUS
<1>1. RunTypes' /\ TextTypes' /\ StateTypes'
  BY DEF vars, schedulerVars, TypeOK, RunTypes, TextTypes, StateTypes
<1>2. UnitTypes'
  BY DEF vars, schedulerVars, TypeOK, UnitTypes
<1>3. RateTypes' /\ ResourceTypes'
  BY DEF vars, schedulerVars, TypeOK, RateTypes, ResourceTypes
<1>. QED BY <1>1, <1>2, <1>3 DEF TypeOK

\* In every run, over every range and under every limit, each variable of the
\* scheduler keeps its type: the counters stay integers, the queues stay
\* sequences of segments and of units.
THEOREM Typing == Spec => []TypeOK
<1>1. Init => TypeOK
  BY InitIInv DEF IInv
<1>2. TypeOK /\ [Next]_vars => TypeOK'
  BY DispatchTyped, AnswerTyped, RenderTyped, ListenerTyped, TeardownTyped,
     StutterTyped DEF Next
<1>. QED BY <1>1, <1>2, PTL DEF Spec

-----------------------------------------------------------------------------
(* The ceilings.  Only a dispatch and an accepted batch raise a counter, and *)
(* both are checked first; a reservation stands for what the service returns. *)

LEMMA SettledWithin ==
    ASSUME TypeOK, WithinCeilings
    PROVE  WithinLimits(settleActivePromptResources(resources))
<1>1. activeSynthesis.text \in Nat
  BY DEF TypeOK, TextTypes, Segment, NoSegment
<1>2. DOMAIN resources = Counters /\ WithinLimits(resources)
  BY DEF TypeOK, ResourceTypes, WithinCeilings
<1>3. \A counter \in Counters : resources[counter] \in Int
  BY DEF TypeOK, ResourceTypes
<1> DEFINE settled == settleActivePromptResources(resources)
<1>4. /\ settled.audioSampleFrames = resources.audioSampleFrames
      /\ settled.completeAudioUnits = resources.completeAudioUnits
      /\ settled.activeNarrationPreparations =
            resources.activeNarrationPreparations
      /\ settled.activeSyntheses = 0
  BY <1>2 DEF settleActivePromptResources, Counters
<1>5. settled.retainedPreparedSegments = resources.retainedPreparedSegments - 1
  BY <1>2 DEF settleActivePromptResources, Counters
<1>6. settled.retainedNarrationText =
            resources.retainedNarrationText - activeSynthesis.text
  BY <1>2 DEF settleActivePromptResources, Counters
<1>7. settled.retainedPreparedBatches \in {0, resources.retainedPreparedBatches}
  BY <1>2 DEF settleActivePromptResources, Counters
<1> HIDE DEF settled
<1>8. /\ resources.retainedPreparedSegments \in Int
      /\ resources.retainedNarrationText \in Int
  BY <1>3 DEF Counters
<1>9. /\ settled.retainedPreparedSegments <= MaximumSegments
      /\ settled.retainedNarrationText <= MaximumText
  BY <1>1, <1>2, <1>5, <1>6, <1>8 DEF WithinLimits
<1>10. WithinLimits(settled)
  BY <1>2, <1>4, <1>7, <1>9 DEF WithinLimits
<1>. QED BY <1>10 DEF settled

LEMMA WithoutUnitWithin ==
    ASSUME TypeOK, WithinCeilings, NEW unit \in Unit
    PROVE  WithinLimits(WithoutUnit(resources, unit))
BY DEF WithoutUnit, TypeOK, ResourceTypes, Counters, Unit, WithinCeilings,
       WithinLimits

LEMMA CeilingsStep ==
    TypeOK /\ WithinCeilings /\ [Next]_vars => WithinCeilings'
<1> SUFFICES ASSUME TypeOK, WithinCeilings, [Next]_vars PROVE WithinCeilings'
  OBVIOUS
<1>1. CASE UNCHANGED resources
  BY <1>1 DEF WithinCeilings, WithinLimits
<1>2. CASE \/ beginNarrationPreparation \/ failNarrationPreparation
           \/ \E complete \in BOOLEAN : acceptEmptyPreparedRange(complete)
  <2>1. \E n \in {0, 1} :
           resources' = [resources EXCEPT !.activeNarrationPreparations = n]
    BY <1>2 DEF beginNarrationPreparation, failNarrationPreparation,
       acceptEmptyPreparedRange
  <2>. QED BY <2>1 DEF TypeOK, ResourceTypes, Counters, WithinCeilings,
           WithinLimits
<1>3. CASE beginSynthesis
  <2>1. WithinLimits(Reserved(resources))
    BY <1>3, DispatchStates DEF beginSynthesis,
       canReserveAdaptiveBufferServiceUnit, evaluateAdaptiveBufferResources
  <2>. QED BY <1>3, <2>1 DEF beginSynthesis, Reserved, TypeOK, ResourceTypes,
           Counters, WithinCeilings, WithinLimits
<1>4. ASSUME NEW n \in 1 .. MaximumSegments, NEW complete \in BOOLEAN,
             NEW texts \in [1 .. n -> TextSizes],
             acceptPreparedBatch(texts, complete)
      PROVE  WithinCeilings'
  BY <1>4 DEF acceptPreparedBatch, evaluateAdaptiveBufferResources,
     WithinCeilings
<1>5. CASE settleActiveSynthesis
  <2>1. WithinLimits(settleActivePromptResources(resources))
    BY SettledWithin
  <2>. QED BY <1>5, <2>1, SettledTyped DEF settleActiveSynthesis, Counters,
           WithinCeilings, WithinLimits
<1>6. ASSUME NEW id \in inflight, NEW frames \in FrameCounts,
             acceptCompletedUnit(id, frames)
      PROVE  WithinCeilings'
  <2>1. WithinLimits(settleActivePromptResources(resources))
    BY SettledWithin
  <2>2. frames \in 1 .. Reservation
    OBVIOUS
  <2> DEFINE settled == settleActivePromptResources(resources)
  <2>3. resources' = [settled EXCEPT
            !.audioSampleFrames = @ - Reservation + frames]
    BY <1>6 DEF acceptCompletedUnit
  <2>4. DOMAIN settled = Counters /\ \A c \in Counters : settled[c] \in Int
    BY SettledTyped
  <2>5. WithinLimits(settled)
    BY <2>1
  <2> HIDE DEF settled
  <2>6. settled.audioSampleFrames - Reservation + frames <= MaximumSampleFrames
    BY <2>2, <2>4, <2>5 DEF WithinLimits, Counters
  <2>. QED BY <2>3, <2>4, <2>5, <2>6 DEF Counters, WithinCeilings, WithinLimits
<1>7. ASSUME NEW frames \in 1 .. Reservation,
             accountRenderedSampleFrames(frames)
      PROVE  WithinCeilings'
  <2>1. audioUnits[1] \in Unit
    BY <1>7 DEF accountRenderedSampleFrames, TypeOK, UnitTypes
  <2>. QED BY <1>1, <1>7, <2>1, WithoutUnitWithin
           DEF accountRenderedSampleFrames, WithinCeilings
<1>8. CASE invalidate
  <2>1. \E a \in {0, 1} : resources' = [emptyResources EXCEPT
           !.audioSampleFrames = resources.audioSampleFrames - a * Reservation,
           !.completeAudioUnits = resources.completeAudioUnits - a]
    BY <1>8 DEF invalidate
  <2>2. PICK a \in {0, 1} : resources' = [emptyResources EXCEPT
           !.audioSampleFrames = resources.audioSampleFrames - a * Reservation,
           !.completeAudioUnits = resources.completeAudioUnits - a]
    BY <2>1
  <2>3. a * Reservation \in Nat
    OBVIOUS
  <2>. QED BY <2>2, <2>3, EmptyTyped DEF TypeOK, ResourceTypes, Counters,
           WithinCeilings, WithinLimits
<1>9. CASE releaseDiscardedAudioUnits
  <2>1. discardedAudioUnits[1] \in Unit
    BY <1>9 DEF releaseDiscardedAudioUnits, TypeOK, UnitTypes
  <2>. QED BY <1>9, <2>1, WithoutUnitWithin
           DEF releaseDiscardedAudioUnits, WithinCeilings
<1>10. ASSUME NEW m \in Modes, NEW rate \in Rates, NewRun(m, rate)
       PROVE  WithinCeilings'
  BY <1>10, EmptyTyped DEF NewRun, WithinCeilings
<1>11. CASE UNCHANGED vars
  BY <1>1, <1>11 DEF vars, schedulerVars
<1>12. CASE Dispatch
  BY <1>1, <1>2, <1>3, <1>12 DEF Dispatch, beginServiceStart,
     beginServicePrepare, ServiceStep
<1>13. CASE Answer
  BY <1>1, <1>2, <1>4, <1>5, <1>6, <1>13 DEF Answer, markServiceStarted,
     markServiceReady, ServiceStep, failServiceTransition, rejectInvalidUnit,
     failActiveSynthesis
<1>14. CASE Render
  BY <1>1, <1>7, <1>14 DEF Render, activateCurrentPlaybackRate
<1>15. CASE Listener
  BY <1>1, <1>15 DEF Listener, selectPlaybackRatePercent, pausePlayback,
     resumePlayback, playAvailableAudio
<1>16. CASE Teardown
  BY <1>1, <1>8, <1>9, <1>10, <1>16 DEF Teardown, settleServiceStop,
     ServiceStep, discardStaleUnit, schedulerVars
<1>. QED BY <1>11, <1>12, <1>13, <1>14, <1>15, <1>16 DEF Next

\* The memory ceilings of the adaptive-buffer authority hold for every value of
\* the limits and every size the service returns, across failures, replaced
\* runs and late answers.
THEOREM Ceilings == Spec => []WithinCeilings
<1>1. Init => TypeOK /\ WithinCeilings
  BY InitIInv DEF IInv
<1>2. TypeOK /\ WithinCeilings /\ [Next]_vars => WithinCeilings'
  BY CeilingsStep
<1>. QED BY <1>1, <1>2, Typing, PTL DEF Spec

-----------------------------------------------------------------------------
(* One operation at a time *)

LEMMA OneOperationStep ==
    TypeOK /\ OneOperation /\ [Next]_vars => OneOperation'
<1> SUFFICES ASSUME TypeOK, OneOperation, [Next]_vars PROVE OneOperation'
  OBVIOUS
<1>0. Counters \subseteq DOMAIN resources
  BY DEF TypeOK, ResourceTypes
<1>1. CASE UNCHANGED <<identity, activeSynthesis, resources, serviceState>>
  BY <1>1 DEF OneOperation
<1>2. ASSUME NEW from, NEW to, ServiceStep(from, to),
             from \notin {"ready", "generating"}, to # "generating"
      PROVE  OneOperation'
  BY <1>2 DEF ServiceStep, OneOperation, runVars, textVars
<1>3. CASE failServiceTransition
  BY <1>3 DEF failServiceTransition, OneOperation, runVars, textVars
<1>4. CASE beginNarrationPreparation
  <2>1. serviceState = "ready"
    BY <1>4, DispatchStates DEF beginNarrationPreparation, TypeOK, StateTypes
  <2>. QED BY <1>4, <2>1
           DEF beginNarrationPreparation, OneOperation, runVars, textVars
<1>5. CASE beginSynthesis
  <2>1. Head(pendingSegments) \in Segment
    BY <1>5, DispatchStates DEF beginSynthesis, TypeOK, TextTypes
  <2>2. Head(pendingSegments) # NoSegment
    BY <2>1 DEF Segment, NoSegment, Sequence
  <2>3. resources'.activeNarrationPreparations = 0
    BY <1>0, <1>5, DispatchStates DEF beginSynthesis, Reserved, Counters
  <2>. QED BY <1>5, <2>2, <2>3, DispatchStates
           DEF beginSynthesis, OneOperation, runVars
<1>6. ASSUME NEW n \in 1 .. MaximumSegments, NEW complete \in BOOLEAN,
             NEW texts \in [1 .. n -> TextSizes],
             acceptPreparedBatch(texts, complete)
      PROVE  OneOperation'
  <2>1. resources'.activeNarrationPreparations = 0
    BY <1>0, <1>6 DEF acceptPreparedBatch, Counters
  <2>. QED BY <1>6, <2>1 DEF acceptPreparedBatch, OneOperation, runVars
<1>7. CASE \/ failNarrationPreparation
           \/ \E complete \in BOOLEAN : acceptEmptyPreparedRange(complete)
  <2>1. resources'.activeNarrationPreparations = 0
    BY <1>0, <1>7 DEF failNarrationPreparation, acceptEmptyPreparedRange,
       Counters
  <2>2. serviceState = "ready"
    BY <1>7 DEF failNarrationPreparation, acceptEmptyPreparedRange,
       AwaitsBatch, OneOperation
  <2>. QED BY <1>7, <2>1, <2>2 DEF failNarrationPreparation,
           acceptEmptyPreparedRange, OneOperation, runVars, textVars
<1>8. CASE activeSynthesis # NoSegment /\ settleActiveSynthesis
  <2>1. resources'.activeNarrationPreparations
           = resources.activeNarrationPreparations
    BY <1>0, <1>8 DEF settleActiveSynthesis, settleActivePromptResources,
       Counters
  <2>2. resources.activeNarrationPreparations = 0
    BY <1>8 DEF OneOperation
  <2>. QED BY <1>8, <2>1, <2>2 DEF settleActiveSynthesis, OneOperation
<1>9. ASSUME NEW id \in inflight, NEW frames \in FrameCounts,
             acceptCompletedUnit(id, frames)
      PROVE  OneOperation'
  BY <1>9 DEF acceptCompletedUnit, OneOperation
<1>10. ASSUME NEW frames \in 1 .. Reservation,
              accountRenderedSampleFrames(frames)
       PROVE  OneOperation'
  <2>1. resources'.activeNarrationPreparations
           = resources.activeNarrationPreparations
    BY <1>0, <1>10 DEF accountRenderedSampleFrames, WithoutUnit, Counters
  <2>. QED BY <1>10, <2>1
           DEF accountRenderedSampleFrames, OneOperation, runVars, textVars
<1>11. CASE invalidate
  <2>1. resources'.activeNarrationPreparations = 0
    BY <1>11, EmptyTyped DEF invalidate, Counters
  <2>. QED BY <1>11, <2>1 DEF invalidate, OneOperation
<1>12. CASE releaseDiscardedAudioUnits
  <2>1. resources'.activeNarrationPreparations
           = resources.activeNarrationPreparations
    BY <1>0, <1>12 DEF releaseDiscardedAudioUnits, WithoutUnit, Counters
  <2>. QED BY <1>12, <2>1
           DEF releaseDiscardedAudioUnits, OneOperation, runVars, textVars
<1>13. ASSUME NEW m \in Modes, NEW rate \in Rates, NewRun(m, rate)
       PROVE  OneOperation'
  BY <1>13, EmptyTyped DEF NewRun, OneOperation
<1>14. CASE Dispatch
  BY <1>2, <1>4, <1>5, <1>14 DEF Dispatch, beginServiceStart,
     beginServicePrepare
<1>15. CASE Answer
  <2>1. (\E id \in inflight : rejectInvalidUnit(id)) \/ failActiveSynthesis
            => activeSynthesis # NoSegment /\ settleActiveSynthesis
    BY DEF rejectInvalidUnit, failActiveSynthesis, sameIdentity
  <2>2. markServiceStarted \/ markServiceReady => OneOperation'
    BY <1>2 DEF markServiceStarted, markServiceReady
  <2>. QED BY <1>3, <1>6, <1>7, <1>8, <1>9, <1>15, <2>1, <2>2 DEF Answer
<1>16. CASE Render
  BY <1>1, <1>10, <1>16 DEF Render, activateCurrentPlaybackRate, runVars,
     textVars
<1>17. CASE Listener
  BY <1>1, <1>17 DEF Listener, selectPlaybackRatePercent, pausePlayback,
     resumePlayback, playAvailableAudio, runVars, textVars
<1>18. CASE Teardown
  <2>1. settleServiceStop => OneOperation'
    BY <1>2 DEF settleServiceStop
  <2>2. (\E id \in inflight : discardStaleUnit(id)) => OneOperation'
    BY <1>1 DEF discardStaleUnit, schedulerVars
  <2>. QED BY <1>11, <1>12, <1>13, <1>18, <2>1, <2>2 DEF Teardown
<1>19. CASE UNCHANGED vars
  BY <1>1, <1>19 DEF vars, schedulerVars
<1>. QED BY <1>14, <1>15, <1>16, <1>17, <1>18, <1>19 DEF Next

-----------------------------------------------------------------------------
(* The conveyor: what it says of the buffer, and of the text behind it *)

Buffered ==
    \A i \in 1 .. Len(audioUnits) :
        /\ audioUnits[i].sequence = heard + i
        /\ audioUnits[i].generation = identity

Waiting ==
    LET buffered == heard + Len(audioUnits) IN
    /\ activeSynthesis # NoSegment => activeSynthesis.sequence = buffered + 1
    /\ \A i \in 1 .. Len(pendingSegments) :
          pendingSegments[i].sequence = buffered + Active + i
    /\ lastAcceptedSequence = buffered + Active + Len(pendingSegments)

Serving == identity # NoIdentity /\ serviceState # "failed"

LEMMA ConveyorParts == Conveyor <=> (Buffered /\ (Serving => Waiting))
BY DEF Conveyor, Buffered, Waiting, Serving

\* Text, units and run are untouched: the conveyor stands still.
LEMMA ConveyorStill ==
    ASSUME Conveyor,
           UNCHANGED <<identity, pendingSegments, activeSynthesis,
                       lastAcceptedSequence, heard>>,
           Len(audioUnits') = Len(audioUnits),
           \A i \in 1 .. Len(audioUnits) :
               /\ audioUnits'[i].sequence = audioUnits[i].sequence
               /\ audioUnits'[i].generation = audioUnits[i].generation,
           serviceState' # "failed" => serviceState # "failed"
                                          \/ identity = NoIdentity
    PROVE  Conveyor'
<1>1. Buffered'
  BY ConveyorParts DEF Buffered
<1>2. Serving' => Waiting'
  BY ConveyorParts DEF Serving, Waiting, Active
<1>. QED BY <1>1, <1>2, ConveyorParts DEF Conveyor, Buffered, Waiting, Serving

LEMMA ConveyorStep == IInv /\ [Next]_vars => Conveyor'
<1> SUFFICES ASSUME IInv, [Next]_vars PROVE Conveyor'
  OBVIOUS
<1>0. TypeOK /\ OneOperation /\ Buffered /\ (Serving => Waiting)
  BY ConveyorParts DEF IInv
<1>1. CASE /\ UNCHANGED <<identity, pendingSegments, activeSynthesis,
                          lastAcceptedSequence, heard, audioUnits>>
           /\ serviceState' # "failed" => serviceState # "failed"
                                             \/ identity = NoIdentity
  BY <1>1, ConveyorStill DEF IInv
<1>2. CASE beginSynthesis
  <2>1. /\ identity # NoIdentity /\ activeSynthesis = NoSegment
        /\ serviceState # "failed" /\ pendingSegments # <<>>
    BY <1>0, <1>2, DispatchStates DEF beginSynthesis, OneOperation
  <2>2. Waiting /\ Active = 0
    BY <1>0, <2>1 DEF Serving, Active
  <2>3. /\ Head(pendingSegments) \in Segment
        /\ Head(pendingSegments) = pendingSegments[1]
        /\ Len(Tail(pendingSegments)) = Len(pendingSegments) - 1
        /\ \A i \in 1 .. Len(Tail(pendingSegments)) :
              Tail(pendingSegments)[i] = pendingSegments[i + 1]
        /\ Len(pendingSegments) \in Nat /\ Len(pendingSegments) > 0
    BY <1>0, <2>1, HeadTailProperties DEF TypeOK, TextTypes
  <2>4. Active' = 1
    BY <1>2, <2>3 DEF beginSynthesis, Active, Segment, NoSegment, Sequence
  <2>5. Len(audioUnits) \in Nat /\ heard \in Nat
    BY <1>0 DEF TypeOK, UnitTypes
  <2>6. Waiting'
    <3> DEFINE buffered == heard + Len(audioUnits)
    <3>0. buffered \in Nat
      BY <2>5
    <3>1. activeSynthesis'.sequence = buffered + 1
      <4>1. activeSynthesis' = pendingSegments[1]
        BY <1>2, <2>3 DEF beginSynthesis
      <4>2. pendingSegments[1].sequence = buffered + 0 + 1
        BY <2>2, <2>3 DEF Waiting
      <4>. QED BY <3>0, <4>1, <4>2
    <3>2. ASSUME NEW i \in 1 .. Len(Tail(pendingSegments))
          PROVE  Tail(pendingSegments)[i].sequence = buffered + 1 + i
      <4>1. i + 1 \in 1 .. Len(pendingSegments)
        BY <2>3
      <4>2. pendingSegments[i + 1].sequence = buffered + 0 + (i + 1)
        BY <2>2, <4>1 DEF Waiting
      <4>3. i \in Int /\ buffered + 0 + (i + 1) = buffered + 1 + i
        BY <2>3, <3>0
      <4>4. Tail(pendingSegments)[i] = pendingSegments[i + 1]
        BY <2>3
      <4>. QED BY <4>2, <4>3, <4>4
    <3>3. lastAcceptedSequence = buffered + 1 + Len(Tail(pendingSegments))
      <4>1. lastAcceptedSequence = buffered + 0 + Len(pendingSegments)
        BY <2>2 DEF Waiting
      <4>2. /\ Len(pendingSegments) \in Nat
            /\ Len(Tail(pendingSegments)) = Len(pendingSegments) - 1
        BY <2>3
      <4> DEFINE n == Len(pendingSegments)
                 rest == Len(Tail(pendingSegments))
      <4>3. n \in Nat /\ rest = n - 1 /\ lastAcceptedSequence = buffered + 0 + n
        BY <4>1, <4>2
      <4>4. lastAcceptedSequence = buffered + 1 + rest
        <5> HIDE DEF n, rest, buffered
        <5>. QED BY <3>0, <4>3
      <4>. QED BY <4>4
    <3>. QED BY <1>2, <2>4, <3>1, <3>2, <3>3 DEF beginSynthesis, Waiting
  <2>7. Buffered'
    BY <1>0, <1>2 DEF beginSynthesis, Buffered, runVars
  <2>. QED BY <2>6, <2>7 DEF Conveyor, Buffered, Waiting
<1>3. ASSUME NEW n \in 1 .. MaximumSegments, NEW complete \in BOOLEAN,
             NEW texts \in [1 .. n -> TextSizes],
             acceptPreparedBatch(texts, complete)
      PROVE  Conveyor'
  <2>1. /\ activeSynthesis = NoSegment /\ pendingSegments = <<>>
        /\ UNCHANGED <<identity, serviceState, audioUnits, heard,
                       activeSynthesis>>
    BY <1>3 DEF acceptPreparedBatch, AwaitsBatch, runVars, unitVars
  <2>2. Len(texts) \in Nat /\ Len(audioUnits) \in Nat /\ heard \in Nat
    <3>1. texts \in Seq(TextSizes)
      BY SeqDef
    <3>. QED BY <1>0, <3>1 DEF TypeOK, UnitTypes
  <2>3. /\ Len(pendingSegments') = Len(texts)
        /\ \A i \in 1 .. Len(texts) :
              pendingSegments'[i].sequence = lastAcceptedSequence + i
    BY <1>3, <2>2 DEF acceptPreparedBatch, Numbered
  <2>4. Serving' => Waiting'
    BY <1>0, <1>3, <2>1, <2>2, <2>3
       DEF acceptPreparedBatch, Waiting, Serving, Active
  <2>5. Buffered'
    BY <1>0, <2>1 DEF Buffered
  <2>. QED BY <2>4, <2>5 DEF Conveyor, Buffered, Waiting, Serving
<1>4. ASSUME NEW id \in inflight, NEW frames \in FrameCounts,
             acceptCompletedUnit(id, frames)
      PROVE  Conveyor'
  <2>1. /\ activeSynthesis # NoSegment /\ id[1] = identity
        /\ UNCHANGED <<identity, heard, pendingSegments,
                       lastAcceptedSequence>>
        /\ activeSynthesis' = NoSegment
    BY <1>4 DEF acceptCompletedUnit, sameIdentity, runVars
  <2>2. Waiting
    BY <1>0, <2>1 DEF OneOperation, Serving
  <2>3. Active = 1 /\ Active' = 0
    BY <2>1 DEF Active
  <2>4. audioUnits \in Seq(Unit) /\ heard \in Nat
    BY <1>0 DEF TypeOK, UnitTypes
  <2>5. PICK unit : /\ audioUnits' = Append(audioUnits, unit)
                    /\ unit.sequence = activeSynthesis.sequence
                    /\ unit.generation = id[1]
    BY <1>4 DEF acceptCompletedUnit
  <2>6. /\ Len(audioUnits') = Len(audioUnits) + 1
        /\ Len(audioUnits) \in Nat
        /\ \A i \in 1 .. Len(audioUnits) : audioUnits'[i] = audioUnits[i]
        /\ audioUnits'[Len(audioUnits) + 1] = unit
    BY <2>4, <2>5
  <2>7. Buffered'
    <3>1. ASSUME NEW i \in 1 .. Len(audioUnits')
          PROVE  /\ audioUnits'[i].sequence = heard + i
                 /\ audioUnits'[i].generation = identity
      <4>1. CASE i \in 1 .. Len(audioUnits)
        BY <1>0, <2>6, <4>1 DEF Buffered
      <4>2. CASE i = Len(audioUnits) + 1
        BY <2>1, <2>2, <2>4, <2>5, <2>6, <4>2 DEF Waiting
      <4>. QED BY <2>6, <4>1, <4>2
    <3>. QED BY <2>1, <3>1 DEF Buffered
  <2>8. Waiting'
    BY <2>1, <2>2, <2>3, <2>4, <2>6 DEF Waiting
  <2>. QED BY <2>7, <2>8 DEF Conveyor, Buffered, Waiting
<1>5. ASSUME NEW frames \in 1 .. Reservation,
             accountRenderedSampleFrames(frames)
      PROVE  Conveyor'
  <2>1. /\ UNCHANGED <<identity, serviceState, pendingSegments,
                       activeSynthesis, lastAcceptedSequence>>
        /\ audioUnits # <<>> /\ audioUnits \in Seq(Unit) /\ heard \in Nat
    BY <1>0, <1>5
       DEF accountRenderedSampleFrames, runVars, textVars, TypeOK, UnitTypes
  <2>2. CASE frames = Remaining(audioUnits[1])
    <3>1. audioUnits' = Tail(audioUnits) /\ heard' = heard + 1
      BY <1>5, <2>2 DEF accountRenderedSampleFrames
    <3>2. /\ Len(audioUnits') = Len(audioUnits) - 1
          /\ Len(audioUnits) \in Nat
          /\ \A i \in 1 .. Len(audioUnits') :
                audioUnits'[i] = audioUnits[i + 1]
      BY <2>1, <3>1, HeadTailProperties
    <3>3. Buffered'
      <4>1. ASSUME NEW i \in 1 .. Len(audioUnits')
            PROVE  /\ audioUnits'[i].sequence = heard + 1 + i
                   /\ audioUnits'[i].generation = identity
        <5>1. i + 1 \in 1 .. Len(audioUnits)
          BY <3>2
        <5>2. /\ audioUnits[i + 1].sequence = heard + (i + 1)
              /\ audioUnits[i + 1].generation = identity
          BY <1>0, <5>1 DEF Buffered
        <5>. QED BY <2>1, <3>2, <5>2
      <4>. QED BY <2>1, <3>1, <4>1 DEF Buffered
    <3>4. Serving' => Waiting'
      BY <1>0, <2>1, <3>1, <3>2 DEF Serving, Waiting, Active
    <3>. QED BY <3>3, <3>4 DEF Conveyor, Buffered, Waiting, Serving
  <2>3. CASE frames # Remaining(audioUnits[1])
    <3>1. /\ heard' = heard
          /\ audioUnits' = [audioUnits EXCEPT
                               ![1].consumedSampleFrames = @ + frames]
      BY <1>5, <2>3 DEF accountRenderedSampleFrames
    <3>2. /\ Len(audioUnits') = Len(audioUnits)
          /\ \A i \in 1 .. Len(audioUnits) :
                /\ audioUnits'[i].sequence = audioUnits[i].sequence
                /\ audioUnits'[i].generation = audioUnits[i].generation
      <4>1. /\ audioUnits[1] \in Unit /\ 1 \in 1 .. Len(audioUnits)
            /\ Len(audioUnits) \in Nat
        BY <2>1
      <4> DEFINE unit == [audioUnits[1] EXCEPT
                            !.consumedSampleFrames = @ + frames]
      <4>3. /\ unit.sequence = audioUnits[1].sequence
            /\ unit.generation = audioUnits[1].generation
        BY <4>1 DEF Unit
      <4>4. audioUnits' = [audioUnits EXCEPT ![1] = unit]
        BY <3>1
      <4> HIDE DEF unit
      <4>5. /\ Len(audioUnits') = Len(audioUnits)
            /\ \A i \in 1 .. Len(audioUnits) :
                  audioUnits'[i] = IF i = 1 THEN unit ELSE audioUnits[i]
        BY <2>1, <4>1, <4>4
      <4>. QED BY <4>3, <4>5
    <3>. QED BY <2>1, <3>1, <3>2, ConveyorStill DEF IInv
  <2>. QED BY <2>2, <2>3
<1>6. CASE invalidate
  BY <1>6 DEF invalidate, Conveyor
<1>7. ASSUME NEW m \in Modes, NEW rate \in Rates, NewRun(m, rate)
      PROVE  Conveyor'
  BY <1>7 DEF NewRun, Conveyor, Active, NoSequence
<1>8. CASE activeSynthesis # NoSegment /\ settleActiveSynthesis
  <2>1. Buffered' /\ ~Serving'
    BY <1>0, <1>8 DEF settleActiveSynthesis, Buffered, Serving, runVars
  <2>. QED BY <2>1 DEF Conveyor, Buffered, Serving
<1>9. CASE Dispatch
  BY <1>1, <1>2, <1>9 DEF Dispatch, beginServiceStart, beginServicePrepare,
     beginNarrationPreparation, ServiceStep, runVars, textVars, unitVars
<1>10. CASE Answer
  <2>1. (\E id \in inflight : rejectInvalidUnit(id)) \/ failActiveSynthesis
            => activeSynthesis # NoSegment /\ settleActiveSynthesis
    BY DEF rejectInvalidUnit, failActiveSynthesis, sameIdentity
  <2>2. markServiceStarted \/ markServiceReady => Conveyor'
    BY <1>1 DEF markServiceStarted, markServiceReady, ServiceStep, runVars,
       textVars, unitVars
  <2>3. failServiceTransition \/ failNarrationPreparation => Conveyor'
    BY <1>1 DEF failServiceTransition, failNarrationPreparation, runVars,
       textVars, unitVars
  <2>4. (\E complete \in BOOLEAN : acceptEmptyPreparedRange(complete))
            => Conveyor'
    BY <1>1 DEF acceptEmptyPreparedRange, runVars, unitVars
  <2>. QED BY <1>3, <1>4, <1>8, <1>10, <2>1, <2>2, <2>3, <2>4 DEF Answer
<1>11. CASE Render
  BY <1>1, <1>5, <1>11 DEF Render, activateCurrentPlaybackRate, runVars,
     textVars, unitVars
<1>12. CASE Listener
  BY <1>1, <1>12 DEF Listener, selectPlaybackRatePercent, pausePlayback,
     resumePlayback, playAvailableAudio, runVars, textVars, unitVars
<1>13. CASE Teardown
  <2>1. settleServiceStop \/ releaseDiscardedAudioUnits => Conveyor'
    BY <1>1 DEF settleServiceStop, releaseDiscardedAudioUnits, ServiceStep,
       runVars, textVars, unitVars
  <2>2. (\E id \in inflight : discardStaleUnit(id)) => Conveyor'
    BY <1>1 DEF discardStaleUnit, schedulerVars
  <2>. QED BY <1>6, <1>7, <1>13, <2>1, <2>2 DEF Teardown
<1>14. CASE UNCHANGED vars
  BY <1>1, <1>14 DEF vars, schedulerVars
<1>. QED BY <1>9, <1>10, <1>11, <1>12, <1>13, <1>14 DEF Next

\* Nothing accepted for reading aloud is lost, repeated or overtaken on its way
\* to the listener, whatever the length of the range, the batches prepared, the
\* failures on the way and the answers that arrive after a replaced run.
THEOREM NothingLost == Spec => []Conveyor
<1>1. Init => IInv
  BY InitIInv
<1>2. IInv /\ [Next]_vars => IInv'
  BY DispatchTyped, AnswerTyped, RenderTyped, ListenerTyped, TeardownTyped,
     StutterTyped, CeilingsStep, OneOperationStep, ConveyorStep DEF IInv, Next
<1>3. IInv => Conveyor
  BY DEF IInv
<1>. QED BY <1>1, <1>2, <1>3, PTL DEF Spec

-----------------------------------------------------------------------------
(* The rate of the unit being heard *)

\* What HeardUnitKeepsItsRate asks of one step.
KeepsRate ==
    (/\ audioUnits # <<>> /\ audioUnits' # <<>>
     /\ audioUnits[1].sequence = activePlaybackSequence
     /\ UnitId(audioUnits'[1]) = UnitId(audioUnits[1]))
        => /\ playbackRate'.active = playbackRate.active
           /\ activePlaybackSequence' = activePlaybackSequence

LEMMA KeepsRateStep == TypeOK /\ [Next]_vars => [KeepsRate]_vars
<1> SUFFICES ASSUME TypeOK, Next PROVE KeepsRate
  BY DEF vars, schedulerVars
<1>1. CASE UNCHANGED rateVars
  BY <1>1 DEF rateVars, KeepsRate
<1>2. ASSUME NEW rate \in Rates, selectPlaybackRatePercent(rate)
      PROVE  KeepsRate
  BY <1>2 DEF selectPlaybackRatePercent, selectNarrationPlaybackRate, TypeOK,
     RateTypes, KeepsRate
<1>3. CASE activateCurrentPlaybackRate
  BY <1>3 DEF activateCurrentPlaybackRate, KeepsRate
<1>4. CASE \/ invalidate
           \/ \E m \in Modes, rate \in Rates : NewRun(m, rate)
  BY <1>4 DEF invalidate, NewRun, KeepsRate
<1>5. CASE Dispatch
  BY <1>1, <1>5 DEF Dispatch, beginServiceStart, beginServicePrepare,
     beginNarrationPreparation, beginSynthesis, ServiceStep
<1>6. CASE Answer
  BY <1>1, <1>6 DEF Answer, markServiceStarted, markServiceReady, ServiceStep,
     failServiceTransition, acceptPreparedBatch, acceptEmptyPreparedRange,
     failNarrationPreparation, acceptCompletedUnit, rejectInvalidUnit,
     failActiveSynthesis, settleActiveSynthesis
<1>7. CASE Render
  BY <1>1, <1>3, <1>7 DEF Render, accountRenderedSampleFrames
<1>8. CASE Listener
  BY <1>1, <1>2, <1>8 DEF Listener, pausePlayback, resumePlayback,
     playAvailableAudio
<1>9. CASE Teardown
  BY <1>1, <1>4, <1>9 DEF Teardown, releaseDiscardedAudioUnits,
     settleServiceStop, ServiceStep, discardStaleUnit, schedulerVars, rateVars
<1>. QED BY <1>5, <1>6, <1>7, <1>8, <1>9 DEF Next

\* Whatever rates are offered and whenever one is selected, the unit being heard
\* keeps the rate it started with.
THEOREM SteadyRate == Spec => HeardUnitKeepsItsRate
<1>1. TypeOK /\ [Next]_vars => [KeepsRate]_vars
  BY KeepsRateStep
<1>2. [][KeepsRate]_vars => HeardUnitKeepsItsRate
  BY PTL DEF HeardUnitKeepsItsRate, KeepsRate
<1>. QED BY <1>1, <1>2, Typing, PTL DEF Spec

-----------------------------------------------------------------------------
(* What the scheduler adds up *)

\* What is added up: the frames of a unit, those that are left of it, the text of a
\* segment, a size of text.
Frames == [unit \in Unit |-> unit.sampleFrames]
Left == [unit \in Unit |-> Remaining(unit)]
Texts == [segment \in Segment |-> segment.text]
Sizes == [text \in Nat |-> text]

\* Each gives a number to what it weighs.
LEMMA WeightTypes ==
    /\ Frames \in [Unit -> Int] /\ Left \in [Unit -> Int] /\ Texts \in [Segment -> Int]
    /\ Sizes \in [Nat -> Int]
BY DEF Frames, Left, Texts, Sizes, Unit, Segment, Remaining

\* The frames of a queue are the sum of its units' frames.
LEMMA FramesAre ==
    ASSUME NEW units \in Seq(Unit)
    PROVE  FramesOf(units) = Total(Frames, units)
<1> DEFINE D == DOMAIN units
           Follows(iter) == iter = [S \in SUBSET D |-> IF S = {} THEN 0
                     ELSE iter[S \ {Pick(S)}] + units[Pick(S)].sampleFrames]
           J == CHOOSE iter : Follows(iter)
<1>1. FramesOf(units) = J[D]
  BY DEF FramesOf, FoldSeq, FoldFunction, FoldFunctionOnSet, MapThenFoldSet, Pick
<1>2. \A iter : Follows(iter) <=> Sums(iter, Weights(Frames, units), D)
  <2>1. \A i \in D : Weights(Frames, units)[i] = units[i].sampleFrames
    BY Indices, WeightTypes DEF Weights, Frames
  <2>2. \A S \in SUBSET D : S # {} => Pick(S) \in D
    BY Picked
  <2> QED BY <2>1, <2>2 DEF Sums
<1>3. PICK g : Sums(g, Weights(Frames, units), D)
  BY TotalOf, WeightTypes
<1>4. Follows(J)
  <2>1. Follows(g)
    BY <1>2, <1>3
  <2> HIDE DEF Follows
  <2> QED BY <2>1
<1>5. Sums(J, Weights(Frames, units), D)
  <2> HIDE DEF Follows, J
  <2> QED BY <1>2, <1>4
<1> QED BY <1>1, <1>5, TotalIs, WeightTypes

\* What is left to hear is what is left of each unit.
LEMMA PlayableAre ==
    ASSUME audioUnits \in Seq(Unit)
    PROVE  playableSampleFrames = Total(Left, audioUnits)
<1> DEFINE D == DOMAIN audioUnits
           Follows(iter) == iter = [S \in SUBSET D |-> IF S = {} THEN 0
                     ELSE iter[S \ {Pick(S)}] + Remaining(audioUnits[Pick(S)])]
           J == CHOOSE iter : Follows(iter)
<1>1. playableSampleFrames = J[D]
  BY DEF playableSampleFrames, FoldSeq, FoldFunction, FoldFunctionOnSet, MapThenFoldSet, Pick
<1>2. \A iter : Follows(iter) <=> Sums(iter, Weights(Left, audioUnits), D)
  <2>1. \A i \in D : Weights(Left, audioUnits)[i] = Remaining(audioUnits[i])
    BY Indices, WeightTypes DEF Weights, Left
  <2>2. \A S \in SUBSET D : S # {} => Pick(S) \in D
    BY Picked
  <2> QED BY <2>1, <2>2 DEF Sums
<1>3. PICK g : Sums(g, Weights(Left, audioUnits), D)
  BY TotalOf, WeightTypes
<1>4. Follows(J)
  <2>1. Follows(g)
    BY <1>2, <1>3
  <2> HIDE DEF Follows
  <2> QED BY <2>1
<1>5. Sums(J, Weights(Left, audioUnits), D)
  <2> HIDE DEF Follows, J
  <2> QED BY <1>2, <1>4
<1> QED BY <1>1, <1>5, TotalIs, WeightTypes

\* The text that waits is the text of the pending segments.
LEMMA TextPendingIs ==
    ASSUME pendingSegments \in Seq(Segment)
    PROVE  TextPending = Total(Texts, pendingSegments)
<1> DEFINE D == DOMAIN pendingSegments
           Follows(iter) == iter = [S \in SUBSET D |-> IF S = {} THEN 0
                     ELSE iter[S \ {Pick(S)}] + pendingSegments[Pick(S)].text]
           J == CHOOSE iter : Follows(iter)
<1>1. TextPending = J[D]
  BY DEF TextPending, FoldSeq, FoldFunction, FoldFunctionOnSet, MapThenFoldSet, Pick
<1>2. \A iter : Follows(iter) <=> Sums(iter, Weights(Texts, pendingSegments), D)
  <2>1. \A i \in D : Weights(Texts, pendingSegments)[i] = pendingSegments[i].text
    BY Indices, WeightTypes DEF Weights, Texts
  <2>2. \A S \in SUBSET D : S # {} => Pick(S) \in D
    BY Picked
  <2> QED BY <2>1, <2>2 DEF Sums
<1>3. PICK g : Sums(g, Weights(Texts, pendingSegments), D)
  BY TotalOf, WeightTypes
<1>4. Follows(J)
  <2>1. Follows(g)
    BY <1>2, <1>3
  <2> HIDE DEF Follows
  <2> QED BY <2>1
<1>5. Sums(J, Weights(Texts, pendingSegments), D)
  <2> HIDE DEF Follows, J
  <2> QED BY <1>2, <1>4
<1> QED BY <1>1, <1>5, TotalIs, WeightTypes

\* The text of a batch is the sum of its segments' sizes.
LEMMA TextIs ==
    ASSUME NEW texts \in Seq(Nat)
    PROVE  TextOf(texts) = Total(Sizes, texts)
<1> DEFINE D == DOMAIN texts
           Follows(iter) == iter = [S \in SUBSET D |-> IF S = {} THEN 0
                     ELSE iter[S \ {Pick(S)}] + texts[Pick(S)]]
           J == CHOOSE iter : Follows(iter)
<1>1. TextOf(texts) = J[D]
  BY DEF TextOf, FoldSeq, FoldFunction, FoldFunctionOnSet, MapThenFoldSet, Pick
<1>2. \A iter : Follows(iter) <=> Sums(iter, Weights(Sizes, texts), D)
  <2>1. \A i \in D : Weights(Sizes, texts)[i] = texts[i]
    BY Indices, WeightTypes DEF Weights, Sizes
  <2>2. \A S \in SUBSET D : S # {} => Pick(S) \in D
    BY Picked
  <2> QED BY <2>1, <2>2 DEF Sums
<1>3. PICK g : Sums(g, Weights(Sizes, texts), D)
  BY TotalOf, WeightTypes
<1>4. Follows(J)
  <2>1. Follows(g)
    BY <1>2, <1>3
  <2> HIDE DEF Follows
  <2> QED BY <2>1
<1>5. Sums(J, Weights(Sizes, texts), D)
  <2> HIDE DEF Follows, J
  <2> QED BY <1>2, <1>4
<1> QED BY <1>1, <1>5, TotalIs, WeightTypes

\* Counts one for a unit with this identity.
Is(id) == [unit \in Unit |-> IF UnitId(unit) = id THEN 1 ELSE 0]

\* It is a number.
LEMMA IsTyped == \A id : Is(id) \in [Unit -> Int]
BY DEF Is

\* A unit occurs in a queue as often as the ones add up to.
LEMMA OccurrencesAre ==
    ASSUME NEW units \in Seq(Unit), NEW id
    PROVE  Occurrences(units, id) = Total(Is(id), units)
<1> DEFINE P == [unit \in Unit |-> UnitId(unit) = id]
<1>1. P \in [Unit -> BOOLEAN]
  OBVIOUS
<1>2. Total([unit \in Unit |-> IF P[unit] THEN 1 ELSE 0], units)
          = Cardinality({i \in 1 .. Len(units) : P[units[i]]})
  <2> HIDE DEF P
  <2> QED BY <1>1, TotalCounts
<1>3. [unit \in Unit |-> IF P[unit] THEN 1 ELSE 0] = Is(id)
  BY DEF Is
<1>4. {i \in 1 .. Len(units) : P[units[i]]} = {i \in 1 .. Len(units) : UnitId(units[i]) = id}
  <2>1. \A i \in 1 .. Len(units) : units[i] \in Unit
    OBVIOUS
  <2> QED BY <2>1
<1> QED BY <1>2, <1>3, <1>4 DEF Occurrences

-----------------------------------------------------------------------------
(* Every counter and every unit is accounted for *)

\* ResourcesMatchOwners, in terms of sums.
AudioOwned ==
    /\ resources.completeAudioUnits =
          Len(audioUnits) + Len(discardedAudioUnits) + Active
    /\ resources.audioSampleFrames =
          Total(Frames, audioUnits) + Total(Frames, discardedAudioUnits)
              + Active * Reservation
    /\ resources.activeSyntheses = Active

TextOwned ==
    /\ resources.retainedPreparedSegments = Len(pendingSegments) + Active
    /\ resources.retainedNarrationText =
          Total(Texts, pendingSegments) + activeSynthesis.text
    /\ resources.retainedPreparedBatches =
          IF resources.retainedPreparedSegments = 0 THEN 0 ELSE 1

\* UnitOwnership, likewise.
OwnedOnce ==
    \A id \in DOMAIN releases :
        Total(Is(id), audioUnits) + Total(Is(id), discardedAudioUnits)
            + releases[id] = 1

\* A unit was delivered, and what is buffered is not heard yet.
UnitsKept ==
    /\ \A i \in 1 .. Len(audioUnits) :
          /\ Remaining(audioUnits[i]) > 0 /\ UnitId(audioUnits[i]) \in DOMAIN releases
    /\ \A i \in 1 .. Len(discardedAudioUnits) :
          UnitId(discardedAudioUnits[i]) \in DOMAIN releases
    /\ \A id \in DOMAIN releases : releases[id] \in Nat

Known == inflight \cup DOMAIN releases

\* A unit that is asked for was neither asked for nor delivered before.
Fresh ==
    /\ inflight \cap DOMAIN releases = {}
    /\ \A id \in Known : id[1] <= generation
    /\ identity # NoIdentity => identity = generation /\ discardedAudioUnits = <<>>
    /\ identity # NoIdentity /\ serviceState # "failed" =>
          \A id \in Known :
              id[1] = identity => id[2] <= heard + Len(audioUnits) + Active

Accounts == AudioOwned /\ TextOwned /\ OwnedOnce /\ UnitsKept /\ Fresh

AccountsOwned ==
    TypeOK => /\ ResourcesMatchOwners <=> AudioOwned /\ TextOwned
              /\ UnitOwnership <=> OwnedOnce

\* The accounts of the model are those that are added up here.
LEMMA AccountsAre == AccountsOwned
<1> SUFFICES ASSUME TypeOK PROVE /\ ResourcesMatchOwners <=> AudioOwned /\ TextOwned
                                 /\ UnitOwnership <=> OwnedOnce
  BY DEF AccountsOwned
<1>1. /\ audioUnits \in Seq(Unit) /\ discardedAudioUnits \in Seq(Unit)
      /\ pendingSegments \in Seq(Segment)
  BY DEF TypeOK, UnitTypes, TextTypes
<1>2. /\ FramesOf(audioUnits) = Total(Frames, audioUnits)
      /\ FramesOf(discardedAudioUnits) = Total(Frames, discardedAudioUnits)
      /\ TextPending = Total(Texts, pendingSegments)
  BY <1>1, FramesAre, TextPendingIs
<1>3. \A id : /\ Occurrences(audioUnits, id) = Total(Is(id), audioUnits)
              /\ Occurrences(discardedAudioUnits, id) = Total(Is(id), discardedAudioUnits)
  BY <1>1, OccurrencesAre
<1>4. ResourcesMatchOwners <=> AudioOwned /\ TextOwned
  BY <1>2 DEF ResourcesMatchOwners, AudioOwned, TextOwned
<1>5. UnitOwnership <=> OwnedOnce
  BY <1>3 DEF UnitOwnership, OwnedOnce
<1> QED BY <1>4, <1>5

\* At the start nothing is owned and every counter is zero.
LEMMA InitAccounts == Init => Accounts
<1> SUFFICES ASSUME Init PROVE Accounts
  OBVIOUS
<1>1. /\ audioUnits = <<>> /\ discardedAudioUnits = <<>> /\ pendingSegments = <<>>
      /\ activeSynthesis = NoSegment /\ Active = 0 /\ releases = <<>> /\ inflight = {}
      /\ identity = generation /\ resources = emptyResources
  BY DEF Init, Active
<1>2. /\ Total(Frames, <<>>) = 0 /\ Total(Texts, <<>>) = 0 /\ NoSegment.text = 0
  BY TotalEmpty, WeightTypes DEF NoSegment
<1>3. AudioOwned /\ TextOwned
  <2>1. \A counter \in Counters : resources[counter] = 0
    BY <1>1 DEF emptyResources
  <2>2. Len(audioUnits) = 0 /\ Len(discardedAudioUnits) = 0 /\ Len(pendingSegments) = 0
    BY <1>1
  <2>3. Active * Reservation = 0
    <3>1. Reservation \in Int /\ 0 * Reservation = 0
      BY LimitsAssumption
    <3> QED BY <1>1, <3>1
  <2>4. AudioOwned
    BY <1>1, <1>2, <2>1, <2>2, <2>3 DEF AudioOwned, Counters
  <2>5. TextOwned
    BY <1>1, <1>2, <2>1, <2>2 DEF TextOwned, Counters
  <2> QED BY <2>4, <2>5
<1>4. DOMAIN releases = {}
  BY <1>1
<1>5. UnitsKept /\ OwnedOnce /\ Fresh
  <2>1. Len(audioUnits) = 0 /\ Len(discardedAudioUnits) = 0
    BY <1>1
  <2> QED BY <1>1, <1>4, <2>1 DEF UnitsKept, OwnedOnce, Fresh, Known
<1> QED BY <1>3, <1>5 DEF Accounts

\* A step that moves no unit and no segment.
Aside ==
    /\ UNCHANGED <<audioUnits, discardedAudioUnits, activeSynthesis, pendingSegments,
                   releases, inflight, identity, generation, heard>>
    /\ \A counter \in Counters \ {"activeNarrationPreparations"} :
          resources'[counter] = resources[counter]
    /\ identity # NoIdentity /\ serviceState' # "failed" => serviceState # "failed"

\* Such a step leaves the accounts alone.
LEMMA AsideKeeps == Accounts /\ Aside => Accounts'
<1> SUFFICES ASSUME Accounts, Aside PROVE Accounts'
  OBVIOUS
<1>1. Active' = Active
  BY DEF Aside, Active
<1>2. AudioOwned' /\ TextOwned'
  BY <1>1 DEF Accounts, Aside, AudioOwned, TextOwned, Counters
<1>3. OwnedOnce' /\ UnitsKept'
  BY DEF Accounts, Aside, OwnedOnce, UnitsKept
<1>4. Fresh'
  BY <1>1 DEF Accounts, Aside, Fresh, Known
<1> QED BY <1>2, <1>3, <1>4 DEF Accounts

\* An accepted batch is owned from the first of its segments to the last.
LEMMA BatchAccounts ==
    ASSUME TypeOK, Accounts, NEW n \in 1 .. MaximumSegments, NEW complete \in BOOLEAN,
           NEW texts \in [1 .. n -> TextSizes], acceptPreparedBatch(texts, complete)
    PROVE  Accounts'
<1>1. texts \in Seq(Nat) /\ Len(texts) = n /\ n \in Nat /\ n > 0
  <2>1. n \in Nat /\ n > 0 /\ DOMAIN texts = 1 .. n
    OBVIOUS
  <2>2. texts \in Seq(TextSizes)
    BY <2>1, SeqDef
  <2>3. \A i \in 1 .. n : texts[i] \in Nat
    <3>1. \A i \in 1 .. n : texts[i] \in TextSizes
      OBVIOUS
    <3>2. TextSizes \subseteq Nat
      BY InputsAssumption
    <3> QED BY <3>1, <3>2
  <2>5. Len(texts) \in Nat /\ DOMAIN texts = 1 .. Len(texts)
    BY <2>2
  <2>6. 1 .. Len(texts) = 1 .. n
    BY <2>1, <2>5
  <2>7. Len(texts) = n
    BY <2>1, <2>5, <2>6
  <2>8. texts = [i \in 1 .. n |-> texts[i]]
    OBVIOUS
  <2>9. texts \in Seq(Nat)
    BY <2>1, <2>3, <2>8, SeqDef
  <2> QED BY <2>1, <2>7, <2>9
<1>2. /\ pendingSegments' = Numbered(texts) /\ activeSynthesis = NoSegment
      /\ UNCHANGED <<audioUnits, discardedAudioUnits, activeSynthesis,
                     releases, inflight, identity, generation, heard, serviceState>>
      /\ resources' = [resources EXCEPT
            !.retainedPreparedBatches = 1, !.retainedPreparedSegments = n,
            !.retainedNarrationText = TextOf(texts), !.activeNarrationPreparations = 0]
  BY <1>1 DEF acceptPreparedBatch, AwaitsBatch, runVars, unitVars
<1>3. Active = 0 /\ Active' = 0 /\ activeSynthesis'.text = 0
  BY <1>2 DEF Active, NoSegment
<1>4. Numbered(texts) \in Seq(Segment) /\ Len(Numbered(texts)) = n
  <2>1. \A i \in 1 .. n : texts[i] \in Nat
    BY <1>1
  <2>2. \A i \in 1 .. n : i \in Nat /\ lastAcceptedSequence + i \in Sequence
    BY <1>1 DEF TypeOK, TextTypes, Sequence, NoSequence
  <2>3. \A i \in 1 .. n : [sequence |-> lastAcceptedSequence + i, text |-> texts[i]] \in Segment
    BY <2>1, <2>2 DEF Segment
  <2>4. Numbered(texts) \in [1 .. n -> Segment]
    BY <1>1, <2>3 DEF Numbered
  <2>5. Numbered(texts) \in Seq(Segment)
    BY <1>1, <2>4, SeqDef
  <2> QED BY <1>1, <2>5 DEF Numbered
<1>5. Total(Texts, Numbered(texts)) = TextOf(texts)
  <2>1. Weights(Texts, Numbered(texts)) = Weights(Sizes, texts)
    <3>1. /\ DOMAIN Numbered(texts) = 1 .. n /\ DOMAIN texts = 1 .. n
          /\ \A i \in 1 .. n : /\ Numbered(texts)[i] \in Segment /\ texts[i] \in Nat
                               /\ Numbered(texts)[i].text = texts[i]
      BY <1>1, <1>4 DEF Numbered
    <3> QED BY <3>1 DEF Weights, Texts, Sizes
  <2>2. DOMAIN Numbered(texts) = DOMAIN texts
    BY <1>1, <1>4
  <2>3. Total(Texts, Numbered(texts)) = Total(Sizes, texts)
    BY <2>1, <2>2 DEF Total
  <2> QED BY <1>1, <2>3, TextIs
<1>6. Counters \subseteq DOMAIN resources
  BY DEF TypeOK, ResourceTypes
<1>7. AudioOwned'
  BY <1>2, <1>3, <1>6 DEF Accounts, AudioOwned, Counters
<1>8. TextOwned'
  <2>1. Total(Texts, Numbered(texts)) \in Int
    BY <1>4, TotalTyped, WeightTypes
  <2> QED BY <1>1, <1>2, <1>3, <1>4, <1>5, <1>6, <2>1 DEF TextOwned, Counters
<1>9. OwnedOnce' /\ UnitsKept' /\ Fresh'
  BY <1>2, <1>3 DEF Accounts, OwnedOnce, UnitsKept, Fresh, Known
<1> QED BY <1>7, <1>8, <1>9 DEF Accounts

-----------------------------------------------------------------------------
(* The accounts of each method *)

\* A unit that was not delivered is nowhere.
LEMMA Nowhere ==
    ASSUME NEW units \in Seq(Unit), NEW id,
           \A i \in 1 .. Len(units) : UnitId(units[i]) # id
    PROVE  Total(Is(id), units) = 0
<1>1. {i \in 1 .. Len(units) : UnitId(units[i]) = id} = {}
  OBVIOUS
<1>2. Occurrences(units, id) = 0
  BY <1>1, FS_EmptySet DEF Occurrences
<1> QED BY <1>2, OccurrencesAre

\* What the code's settling leaves in each counter.
LEMMA SettledIs ==
    ASSUME TypeOK
    PROVE  LET settled == settleActivePromptResources(resources) IN
           /\ settled.audioSampleFrames = resources.audioSampleFrames
           /\ settled.completeAudioUnits = resources.completeAudioUnits
           /\ settled.activeSyntheses = 0
           /\ settled.retainedPreparedSegments = resources.retainedPreparedSegments - 1
           /\ settled.retainedNarrationText =
                 resources.retainedNarrationText - activeSynthesis.text
           /\ settled.retainedPreparedBatches =
                 IF pendingSegments = <<>> /\ resources.retainedPreparedSegments - 1 = 0
                 THEN 0 ELSE resources.retainedPreparedBatches
BY DEF TypeOK, ResourceTypes, Counters, settleActivePromptResources

\* The settled segment is no longer owned.
LEMMA TextSettles ==
    ASSUME TypeOK, TextOwned, activeSynthesis # NoSegment,
           pendingSegments' = pendingSegments, activeSynthesis' = NoSegment,
           \A counter \in {"retainedPreparedSegments", "retainedNarrationText",
                           "retainedPreparedBatches"} :
               resources'[counter] = settleActivePromptResources(resources)[counter]
    PROVE  TextOwned'
<1>1. Active = 1 /\ Active' = 0 /\ activeSynthesis'.text = 0
  BY DEF Active, NoSegment
<1>2. /\ resources'.retainedPreparedSegments = resources.retainedPreparedSegments - 1
      /\ resources'.retainedNarrationText =
            resources.retainedNarrationText - activeSynthesis.text
      /\ resources'.retainedPreparedBatches =
            IF pendingSegments = <<>> /\ resources.retainedPreparedSegments - 1 = 0
            THEN 0 ELSE resources.retainedPreparedBatches
  BY SettledIs
<1>3. /\ Len(pendingSegments) \in Nat /\ (Len(pendingSegments) = 0 <=> pendingSegments = <<>>)
      /\ activeSynthesis.text \in Int /\ Total(Texts, pendingSegments) \in Int
  <2>1. pendingSegments \in Seq(Segment)
    BY DEF TypeOK, TextTypes
  <2>2. activeSynthesis.text \in Int
    BY DEF TypeOK, TextTypes, Segment, NoSegment
  <2> QED BY <2>1, <2>2, TotalTyped, WeightTypes
<1> QED BY <1>1, <1>2, <1>3 DEF TextOwned

\* A unit that is released as soon as it is delivered is accounted for.
LEMMA ReleasedAtOnce ==
    ASSUME TypeOK, OwnedOnce, UnitsKept, Fresh, NEW id \in inflight, Delivered(id, 1),
           UNCHANGED <<audioUnits, discardedAudioUnits, identity, generation, heard>>,
           serviceState' # "failed" => serviceState # "failed" /\ Active' = Active
    PROVE  OwnedOnce' /\ UnitsKept' /\ Fresh'
<1>1. id \notin DOMAIN releases
  BY DEF Fresh
<1>2. /\ DOMAIN releases' = DOMAIN releases \cup {id} /\ inflight' = inflight \ {id}
      /\ releases'[id] = 1 /\ \A x \in DOMAIN releases : releases'[x] = releases[x]
  BY <1>1 DEF Delivered
<1>3. Total(Is(id), audioUnits) = 0 /\ Total(Is(id), discardedAudioUnits) = 0
  <2>1. audioUnits \in Seq(Unit) /\ discardedAudioUnits \in Seq(Unit)
    BY DEF TypeOK, UnitTypes
  <2>2. /\ \A i \in 1 .. Len(audioUnits) : UnitId(audioUnits[i]) # id
        /\ \A i \in 1 .. Len(discardedAudioUnits) :
              UnitId(discardedAudioUnits[i]) # id
    BY <1>1, SMTT(30) DEF UnitsKept
  <2> QED BY <2>1, <2>2, Nowhere
<1>4. OwnedOnce'
  BY <1>2, <1>3 DEF OwnedOnce
<1>5. UnitsKept'
  BY <1>2 DEF UnitsKept
<1>6. Fresh'
  <2>1. Known' = Known
    BY <1>2 DEF Known
  <2>2. (inflight \cap DOMAIN releases = {})'
    BY <1>2 DEF Fresh
  <2> QED BY <2>1, <2>2 DEF Fresh
<1> QED BY <1>4, <1>5, <1>6

\* The front unit of a queue leaves it, and is released.
LEMMA FrontReleased ==
    ASSUME NEW units \in Seq(Unit), units # <<>>, NEW id
    PROVE  Total(Is(id), units)
               = Total(Is(id), Tail(units)) + (IF id = UnitId(units[1]) THEN 1 ELSE 0)
<1>1. /\ Total(Is(id), units) = Is(id)[units[1]] + Total(Is(id), Tail(units))
      /\ Total(Is(id), Tail(units)) \in Int
  <2>1. Is(id) \in [Unit -> Int] /\ Tail(units) \in Seq(Unit)
    BY IsTyped
  <2>2. Total(Is(id), units) = Is(id)[units[1]] + Total(Is(id), Tail(units))
    BY <2>1, TotalTail
  <2>3. Total(Is(id), Tail(units)) \in Int
    BY <2>1, TotalTyped
  <2> QED BY <2>2, <2>3
<1>2. units[1] \in Unit
  OBVIOUS
<1>3. Is(id)[units[1]] = IF id = UnitId(units[1]) THEN 1 ELSE 0
  BY <1>2 DEF Is
<1> QED BY <1>1, <1>3

\* A dispatched segment moves from the pending text to the reservation, and the unit
\* that is asked for is new: its sequence is above every one asked for in this run.
LEMMA SynthesisAccounts ==
    ASSUME TypeOK, OneOperation, Conveyor, Accounts, beginSynthesis
    PROVE  Accounts'
<1> DEFINE first == Head(pendingSegments)
           id == <<identity, first.sequence>>
<1>1. /\ identity # NoIdentity /\ activeSynthesis = NoSegment
      /\ serviceState # "failed" /\ pendingSegments # <<>>
  BY DispatchStates DEF beginSynthesis, OneOperation
<1>2. Waiting /\ Active = 0
  BY <1>1, ConveyorParts DEF Serving, Active
<1>3. /\ first \in Segment /\ first = pendingSegments[1]
      /\ Len(Tail(pendingSegments)) = Len(pendingSegments) - 1
      /\ Len(pendingSegments) \in Nat /\ Len(pendingSegments) > 0
      /\ pendingSegments \in Seq(Segment)
  BY <1>1, HeadTailProperties DEF TypeOK, TextTypes
<1>4. /\ activeSynthesis' = first /\ Active' = 1
      /\ pendingSegments' = Tail(pendingSegments) /\ inflight' = inflight \cup {id}
      /\ UNCHANGED <<audioUnits, discardedAudioUnits, releases, heard, identity, generation>>
  BY <1>3 DEF beginSynthesis, Active, Segment, NoSegment, Sequence, runVars
<1>5. /\ resources'.audioSampleFrames = resources.audioSampleFrames + Reservation
      /\ resources'.completeAudioUnits = resources.completeAudioUnits + 1
      /\ resources'.activeSyntheses = 1
      /\ resources'.retainedPreparedSegments = resources.retainedPreparedSegments
      /\ resources'.retainedNarrationText = resources.retainedNarrationText
      /\ resources'.retainedPreparedBatches = resources.retainedPreparedBatches
  BY DEF beginSynthesis, Reserved, TypeOK, ResourceTypes, Counters
<1>6. /\ audioUnits \in Seq(Unit) /\ discardedAudioUnits \in Seq(Unit)
      /\ Total(Frames, audioUnits) \in Int /\ Total(Frames, discardedAudioUnits) \in Int
      /\ Len(audioUnits) \in Nat /\ Len(discardedAudioUnits) \in Nat /\ heard \in Nat
  BY TotalTyped, WeightTypes DEF TypeOK, UnitTypes
<1>7. AudioOwned'
  <2>1. Reservation \in Int /\ 0 * Reservation = 0 /\ 1 * Reservation = Reservation
    BY LimitsAssumption
  <2>2. AudioOwned
    BY DEF Accounts
  <2> QED BY <1>2, <1>4, <1>5, <1>6, <2>1, <2>2 DEF AudioOwned
<1>8. TextOwned'
  <2>1. Total(Texts, pendingSegments) = first.text + Total(Texts, Tail(pendingSegments))
    <3>1. Total(Texts, pendingSegments)
              = Texts[pendingSegments[1]] + Total(Texts, Tail(pendingSegments))
      BY <1>1, <1>3, TotalTail, WeightTypes
    <3>2. Texts[first] = first.text
      BY <1>3 DEF Texts
    <3> QED BY <1>3, <3>1, <3>2
  <2>2. Total(Texts, Tail(pendingSegments)) \in Int /\ first.text \in Int
    <3>1. Tail(pendingSegments) \in Seq(Segment)
      BY <1>1, <1>3
    <3>2. Total(Texts, Tail(pendingSegments)) \in Int
      BY <3>1, TotalTyped, WeightTypes
    <3>3. first.text \in Int
      BY <1>3 DEF Segment
    <3> QED BY <3>2, <3>3
  <2>3. TextOwned /\ activeSynthesis.text = 0
    BY <1>1 DEF Accounts, NoSegment
  <2> HIDE DEF first
  <2> QED BY <1>2, <1>3, <1>4, <1>5, <2>1, <2>2, <2>3 DEF TextOwned
<1>9. OwnedOnce' /\ UnitsKept'
  BY <1>4 DEF Accounts, OwnedOnce, UnitsKept
<1>10. first.sequence = heard + Len(audioUnits) + 1
  <2>1. 1 \in 1 .. Len(pendingSegments)
    BY <1>3
  <2>2. pendingSegments[1].sequence = heard + Len(audioUnits) + Active + 1
    BY <1>2, <2>1 DEF Waiting
  <2> QED BY <1>2, <1>3, <1>6, <2>2
<1>11. Fresh'
  <2>1. Fresh /\ generation \in Nat /\ identity = generation
    BY <1>1 DEF Accounts, Fresh, TypeOK, RunTypes
  <2>2. \A x \in Known : x[1] = identity => x[2] <= heard + Len(audioUnits)
    BY <1>1, <1>2, <1>6, <2>1 DEF Fresh
  <2>3. /\ id[1] = identity /\ id[2] = heard + Len(audioUnits) + 1
    BY <1>10
  <2>4. id \notin Known
    <3> HIDE DEF id
    <3> QED BY <1>6, <2>2, <2>3
  <2>5. Known' = Known \cup {id}
    BY <1>4 DEF Known
  <2>6. (inflight \cap DOMAIN releases = {})'
    <3> HIDE DEF id
    <3> QED BY <1>4, <2>1, <2>4 DEF Fresh, Known
  <2>7. \A x \in Known' : x[1] <= generation
    <3> HIDE DEF id
    <3> QED BY <2>1, <2>3, <2>5 DEF Fresh
  <2>8. \A x \in Known' : x[1] = identity => x[2] <= heard + Len(audioUnits) + 1
    <3>1. \A x \in Known : x[1] = identity => x[2] <= heard + Len(audioUnits) + 1
      <4>1. \A x \in Known : x[2] \in Nat
        BY DEF Known, TypeOK, UnitTypes, Sequence
      <4> QED BY <1>6, <2>2, <4>1
    <3> HIDE DEF id
    <3> QED BY <1>6, <2>3, <2>5, <3>1
  <2> QED BY <1>4, <2>1, <2>6, <2>7, <2>8 DEF Fresh
<1> QED BY <1>7, <1>8, <1>9, <1>11 DEF Accounts

\* A completed unit replaces the reservation by its own frames.
LEMMA CompletedAccounts ==
    ASSUME TypeOK, OneOperation, Conveyor, Accounts, NEW id \in inflight,
           NEW frames \in FrameCounts, acceptCompletedUnit(id, frames)
    PROVE  Accounts'
<1> DEFINE unit == [generation |-> id[1], sequence |-> activeSynthesis.sequence,
                    sampleFrames |-> frames, consumedSampleFrames |-> 0]
           settled == settleActivePromptResources(resources)
<1>1. /\ activeSynthesis # NoSegment /\ id = <<identity, activeSynthesis.sequence>>
      /\ activeSynthesis' = NoSegment /\ Active = 1 /\ Active' = 0
      /\ audioUnits' = Append(audioUnits, unit) /\ Delivered(id, 0)
      /\ UNCHANGED <<discardedAudioUnits, pendingSegments, identity, generation, heard>>
      /\ resources' = [settled EXCEPT !.audioSampleFrames = @ - Reservation + frames]
  BY DEF acceptCompletedUnit, sameIdentity, runVars, Active
<1>2. /\ unit \in Unit /\ UnitId(unit) = id /\ Remaining(unit) > 0 /\ frames \in Nat
      /\ unit.sampleFrames = frames
  <2>1. frames \in Nat /\ frames > 0
    BY InputsAssumption, LimitsAssumption
  <2>2. id[1] \in Nat /\ activeSynthesis.sequence \in Sequence
    BY <1>1 DEF TypeOK, UnitTypes, TextTypes, Segment
  <2> QED BY <1>1, <2>1, <2>2 DEF Unit, UnitId, Remaining
<1>3. /\ audioUnits \in Seq(Unit) /\ discardedAudioUnits \in Seq(Unit)
      /\ Len(audioUnits) \in Nat /\ Len(discardedAudioUnits) \in Nat /\ heard \in Nat
  BY DEF TypeOK, UnitTypes
<1>4. id \notin DOMAIN releases
  BY DEF Accounts, Fresh
<1>5. /\ DOMAIN releases' = DOMAIN releases \cup {id} /\ inflight' = inflight \ {id}
      /\ releases'[id] = 0 /\ \A x \in DOMAIN releases : releases'[x] = releases[x]
  BY <1>1, <1>4 DEF Delivered
<1> HIDE DEF unit
<1>6. /\ Len(audioUnits') = Len(audioUnits) + 1
      /\ \A i \in 1 .. Len(audioUnits) : audioUnits'[i] = audioUnits[i]
      /\ audioUnits'[Len(audioUnits) + 1] = unit
  BY <1>1, <1>2, <1>3, AppendProperties
<1>7. AudioOwned'
  <2>1. /\ resources'.audioSampleFrames = resources.audioSampleFrames - Reservation + frames
        /\ resources'.completeAudioUnits = resources.completeAudioUnits
        /\ resources'.activeSyntheses = 0
    <3>1. DOMAIN settled = Counters
      BY SettledTyped
    <3>2. /\ settled.audioSampleFrames = resources.audioSampleFrames
          /\ settled.completeAudioUnits = resources.completeAudioUnits
          /\ settled.activeSyntheses = 0
      BY SettledIs
    <3> HIDE DEF settled
    <3> QED BY <1>1, <3>1, <3>2 DEF Counters
  <2>2. Total(Frames, audioUnits') = Total(Frames, audioUnits) + frames
    <3>1. Total(Frames, Append(audioUnits, unit)) = Total(Frames, audioUnits) + Frames[unit]
      <4>1. unit \in Unit /\ audioUnits \in Seq(Unit) /\ Frames \in [Unit -> Int]
        BY <1>2, <1>3, WeightTypes
      <4> QED BY <4>1, TotalAppend
    <3>2. Frames[unit] = frames
      BY <1>2 DEF Frames
    <3> QED BY <1>1, <3>1, <3>2
  <2>3. Total(Frames, audioUnits) \in Int /\ Total(Frames, discardedAudioUnits) \in Int
    BY <1>3, TotalTyped, WeightTypes
  <2>4. Reservation \in Int /\ 0 * Reservation = 0 /\ 1 * Reservation = Reservation
    BY LimitsAssumption
  <2>5. AudioOwned
    BY DEF Accounts
  <2>6. Len(audioUnits') = Len(audioUnits) + 1 /\ discardedAudioUnits' = discardedAudioUnits
        /\ Active = 1 /\ Active' = 0 /\ frames \in Int
    BY <1>1, <1>2, <1>6
  <2>7. /\ resources.completeAudioUnits = Len(audioUnits) + Len(discardedAudioUnits) + 1
        /\ resources.audioSampleFrames
              = Total(Frames, audioUnits) + Total(Frames, discardedAudioUnits) + Reservation
    BY <2>4, <2>5, <2>6 DEF AudioOwned
  <2>8. resources'.completeAudioUnits = Len(audioUnits') + Len(discardedAudioUnits') + 0
    BY <1>3, <2>1, <2>6, <2>7
  <2>9. resources'.audioSampleFrames
            = Total(Frames, audioUnits') + Total(Frames, discardedAudioUnits') + 0
    BY <2>1, <2>2, <2>3, <2>4, <2>6, <2>7
  <2> QED BY <2>1, <2>4, <2>6, <2>8, <2>9 DEF AudioOwned
<1>8. TextOwned'
  <2>1. \A counter \in {"retainedPreparedSegments", "retainedNarrationText",
                        "retainedPreparedBatches"} : resources'[counter] = settled[counter]
    <3>1. DOMAIN settled = Counters
      BY SettledTyped
    <3> HIDE DEF settled
    <3> QED BY <1>1, <3>1 DEF Counters
  <2> QED BY <1>1, <2>1, TextSettles DEF Accounts
<1>9. ASSUME NEW x
      PROVE  Total(Is(x), audioUnits')
                 = Total(Is(x), audioUnits) + (IF id = x THEN 1 ELSE 0)
  <2>1. Is(x) \in [Unit -> Int]
    BY IsTyped
  <2>2. Total(Is(x), Append(audioUnits, unit)) = Total(Is(x), audioUnits) + Is(x)[unit]
    BY <1>2, <1>3, <2>1, TotalAppend
  <2>3. Is(x)[unit] = IF id = x THEN 1 ELSE 0
    BY <1>2 DEF Is
  <2> QED BY <1>1, <2>2, <2>3
<1>10. OwnedOnce'
  <2>1. Total(Is(id), audioUnits) = 0 /\ Total(Is(id), discardedAudioUnits) = 0
    BY <1>3, <1>4, Nowhere DEF Accounts, UnitsKept
  <2>2. Total(Is(id), audioUnits') + Total(Is(id), discardedAudioUnits') + releases'[id] = 1
    <3>1. Total(Is(id), audioUnits') = 0 + 1
      BY <1>9, <2>1
    <3> QED BY <1>1, <1>5, <2>1, <3>1
  <2>3. ASSUME NEW x \in DOMAIN releases
        PROVE  Total(Is(x), audioUnits') + Total(Is(x), discardedAudioUnits')
                   + releases'[x] = 1
    <3>1. x # id
      BY <1>4
    <3>2. Total(Is(x), audioUnits) \in Int
      BY <1>3, IsTyped, TotalTyped
    <3>3. Total(Is(x), audioUnits') = Total(Is(x), audioUnits)
      BY <1>9, <3>1, <3>2
    <3> QED BY <1>1, <1>5, <3>3 DEF Accounts, OwnedOnce
  <2> QED BY <1>5, <2>2, <2>3 DEF OwnedOnce
<1>11. UnitsKept'
  <2>1. ASSUME NEW i \in 1 .. Len(audioUnits')
        PROVE  Remaining(audioUnits'[i]) > 0 /\ UnitId(audioUnits'[i]) \in DOMAIN releases'
    <3>1. CASE i \in 1 .. Len(audioUnits)
      BY <1>5, <1>6, <3>1 DEF Accounts, UnitsKept
    <3>2. CASE i = Len(audioUnits) + 1
      BY <1>2, <1>5, <1>6, <3>2
    <3> QED BY <1>3, <1>6, <3>1, <3>2
  <2>2. ASSUME NEW i \in 1 .. Len(discardedAudioUnits')
        PROVE  UnitId(discardedAudioUnits'[i]) \in DOMAIN releases'
    BY <1>1, <1>5 DEF Accounts, UnitsKept
  <2>3. \A x \in DOMAIN releases' : releases'[x] \in Nat
    BY <1>5 DEF Accounts, UnitsKept
  <2> QED BY <2>1, <2>2, <2>3 DEF UnitsKept
<1>12. Fresh'
  <2>1. Known' = Known
    BY <1>5 DEF Known
  <2>2. (inflight \cap DOMAIN releases = {})'
    BY <1>5 DEF Accounts, Fresh
  <2>3. serviceState # "failed"
    BY <1>1 DEF OneOperation
  <2>4. (Len(audioUnits) + Active)' = Len(audioUnits) + Active
    BY <1>1, <1>3, <1>6
  <2>5. (heard + Len(audioUnits) + Active)' = heard + Len(audioUnits) + Active
    BY <1>1, <1>3, <1>6
  <2> QED BY <1>1, <2>1, <2>2, <2>3, <2>5 DEF Accounts, Fresh
<1> QED BY <1>7, <1>8, <1>10, <1>11, <1>12 DEF Accounts

\* A synthesis that failed gives everything back.
LEMMA SettleAccounts ==
    ASSUME TypeOK, AudioOwned, TextOwned, activeSynthesis # NoSegment, settleActiveSynthesis
    PROVE  AudioOwned' /\ TextOwned'
<1> DEFINE settled == settleActivePromptResources(resources)
<1>1. /\ activeSynthesis' = NoSegment /\ Active = 1 /\ Active' = 0
      /\ UNCHANGED <<audioUnits, discardedAudioUnits, pendingSegments>>
      /\ resources' = [settled EXCEPT !.audioSampleFrames = @ - Reservation,
                                      !.completeAudioUnits = @ - 1]
  BY DEF settleActiveSynthesis, Active
<1>2. DOMAIN settled = Counters
  BY SettledTyped
<1>3. /\ settled.audioSampleFrames = resources.audioSampleFrames
      /\ settled.completeAudioUnits = resources.completeAudioUnits
      /\ settled.activeSyntheses = 0
  BY SettledIs
<1> HIDE DEF settled
<1>4. AudioOwned'
  <2>1. /\ resources'.audioSampleFrames = resources.audioSampleFrames - Reservation
        /\ resources'.completeAudioUnits = resources.completeAudioUnits - 1
        /\ resources'.activeSyntheses = 0
    BY <1>1, <1>2, <1>3 DEF Counters
  <2>2. /\ audioUnits \in Seq(Unit) /\ discardedAudioUnits \in Seq(Unit)
        /\ Len(audioUnits) \in Nat /\ Len(discardedAudioUnits) \in Nat
    BY DEF TypeOK, UnitTypes
  <2>3. Total(Frames, audioUnits) \in Int /\ Total(Frames, discardedAudioUnits) \in Int
    BY <2>2, TotalTyped, WeightTypes
  <2>4. Reservation \in Int /\ 0 * Reservation = 0 /\ 1 * Reservation = Reservation
    BY LimitsAssumption
  <2> QED BY <1>1, <2>1, <2>2, <2>3, <2>4, SMTT(60) DEF AudioOwned
<1>5. TextOwned'
  <2>1. \A counter \in {"retainedPreparedSegments", "retainedNarrationText",
                        "retainedPreparedBatches"} : resources'[counter] = settled[counter]
    BY <1>1, <1>2 DEF Counters
  <2> QED BY <1>1, <2>1, TextSettles DEF settled
<1> QED BY <1>4, <1>5

\* A failed or invalid synthesis ends with its unit, if any, released.
LEMMA FailureAccounts ==
    ASSUME TypeOK, OneOperation, Accounts,
           failActiveSynthesis \/ \E id \in inflight : rejectInvalidUnit(id)
    PROVE  Accounts'
<1>1. /\ activeSynthesis # NoSegment /\ settleActiveSynthesis
      /\ UNCHANGED <<audioUnits, discardedAudioUnits, identity, generation, heard>>
      /\ serviceState' = "failed"
  BY DEF failActiveSynthesis, rejectInvalidUnit, sameIdentity, settleActiveSynthesis, runVars
<1>2. AudioOwned' /\ TextOwned'
  BY <1>1, SettleAccounts DEF Accounts
<1>3. OwnedOnce' /\ UnitsKept' /\ Fresh'
  <2>1. CASE failActiveSynthesis
    <3>1. releases' = releases /\ inflight' \subseteq inflight
      BY <2>1 DEF failActiveSynthesis
    <3>2. OwnedOnce' /\ UnitsKept'
      BY <1>1, <3>1 DEF Accounts, OwnedOnce, UnitsKept
    <3>3. Known' \subseteq Known
      BY <3>1 DEF Known
    <3>4. (inflight \cap DOMAIN releases = {})'
      BY <3>1 DEF Accounts, Fresh
    <3> QED BY <1>1, <3>2, <3>3, <3>4 DEF Accounts, Fresh
  <2>2. ASSUME NEW id \in inflight, rejectInvalidUnit(id) PROVE OwnedOnce' /\ UnitsKept' /\ Fresh'
    BY <1>1, <2>2, ReleasedAtOnce DEF rejectInvalidUnit, Accounts
  <2> QED BY <2>1, <2>2
<1> QED BY <1>2, <1>3 DEF Accounts

\* A unit of an earlier run is released as it arrives, and no counter moves.
LEMMA StaleAccounts ==
    ASSUME TypeOK, Accounts, NEW id \in inflight, discardStaleUnit(id)
    PROVE  Accounts'
<1>1. /\ Delivered(id, 1)
      /\ UNCHANGED <<audioUnits, discardedAudioUnits, identity, generation, heard,
                     serviceState, activeSynthesis, pendingSegments, resources>>
  BY DEF discardStaleUnit, schedulerVars
<1>2. Active' = Active
  BY <1>1 DEF Active
<1>3. OwnedOnce' /\ UnitsKept' /\ Fresh'
  BY <1>1, <1>2, ReleasedAtOnce DEF Accounts
<1> QED BY <1>1, <1>2, <1>3 DEF Accounts, AudioOwned, TextOwned

\* A unit that leaves the front of either queue is handed back.
LEMMA WithoutUnitIs ==
    ASSUME TypeOK, NEW unit \in Unit
    PROVE  LET left == WithoutUnit(resources, unit) IN
           /\ left.audioSampleFrames = resources.audioSampleFrames - unit.sampleFrames
           /\ left.completeAudioUnits = resources.completeAudioUnits - 1
           /\ \A counter \in Counters \ {"audioSampleFrames", "completeAudioUnits"} :
                 left[counter] = resources[counter]
BY DEF WithoutUnit, TypeOK, ResourceTypes, Counters

\* A unit that was heard to its end is handed back; one that was heard in part is not.
LEMMA RenderedAccounts ==
    ASSUME TypeOK, Accounts, NEW frames \in 1 .. Reservation,
           accountRenderedSampleFrames(frames)
    PROVE  Accounts'
<1> DEFINE unit == audioUnits[1]
<1>1. /\ UNCHANGED <<discardedAudioUnits, pendingSegments, activeSynthesis, inflight,
                     identity, generation, serviceState>>
      /\ audioUnits # <<>> /\ frames <= Remaining(unit) /\ Active' = Active
  BY DEF accountRenderedSampleFrames, runVars, textVars, Active
<1>2. /\ audioUnits \in Seq(Unit) /\ discardedAudioUnits \in Seq(Unit)
      /\ Len(audioUnits) \in Nat /\ Len(audioUnits) > 0 /\ 1 \in 1 .. Len(audioUnits)
      /\ Len(discardedAudioUnits) \in Nat /\ unit \in Unit /\ heard \in Nat
      /\ Active \in {0, 1}
  BY <1>1 DEF TypeOK, UnitTypes, Active
<1>3. UnitId(unit) \in DOMAIN releases
  BY <1>2 DEF Accounts, UnitsKept
<1>4. /\ Total(Frames, audioUnits) \in Int /\ Total(Frames, discardedAudioUnits) \in Int
      /\ Frames[unit] = unit.sampleFrames /\ unit.sampleFrames \in Nat
  <2>1. Total(Frames, audioUnits) \in Int /\ Total(Frames, discardedAudioUnits) \in Int
    BY <1>2, TotalTyped, WeightTypes
  <2>2. Frames[unit] = unit.sampleFrames /\ unit.sampleFrames \in Nat
    BY <1>2 DEF Frames, Unit
  <2> QED BY <2>1, <2>2
<1>5. CASE frames = Remaining(unit)
  <2>1. /\ audioUnits' = Tail(audioUnits) /\ heard' = heard + 1
        /\ resources' = WithoutUnit(resources, unit)
        /\ releases' = [releases EXCEPT ![UnitId(unit)] = @ + 1]
    BY <1>5 DEF accountRenderedSampleFrames
  <2>2. /\ Tail(audioUnits) \in Seq(Unit) /\ Len(Tail(audioUnits)) = Len(audioUnits) - 1
        /\ \A i \in 1 .. Len(Tail(audioUnits)) :
              i + 1 \in 1 .. Len(audioUnits) /\ Tail(audioUnits)[i] = audioUnits[i + 1]
    BY <1>1, <1>2, HeadTailProperties
  <2>3. AudioOwned'
    <3>1. Total(Frames, audioUnits) = unit.sampleFrames + Total(Frames, Tail(audioUnits))
      BY <1>1, <1>2, <1>4, TotalTail, WeightTypes
    <3>2. /\ resources'.audioSampleFrames = resources.audioSampleFrames - unit.sampleFrames
          /\ resources'.completeAudioUnits = resources.completeAudioUnits - 1
          /\ resources'.activeSyntheses = resources.activeSyntheses
      BY <1>2, <2>1, WithoutUnitIs DEF Counters
    <3>3. Active * Reservation \in Int /\ Active' * Reservation = Active * Reservation
      <4>1. Reservation \in Int /\ Active \in Int
        BY <1>2, LimitsAssumption
      <4> QED BY <1>1, <4>1
    <3>4. Total(Frames, Tail(audioUnits)) \in Int
      BY <2>2, TotalTyped, WeightTypes
    <3>5. AudioOwned
      BY DEF Accounts
    <3> DEFINE reserved == Active * Reservation
               rest == Total(Frames, Tail(audioUnits))
               apart == Total(Frames, discardedAudioUnits)
    <3>6. resources'.audioSampleFrames = rest + apart + reserved
      <4>1. resources.audioSampleFrames = Total(Frames, audioUnits) + apart + reserved
        BY <3>5 DEF AudioOwned
      <4> DEFINE frame == unit.sampleFrames
      <4>2. frame \in Int /\ rest \in Int /\ apart \in Int /\ reserved \in Int
        BY <1>4, <3>3, <3>4
      <4>3. resources.audioSampleFrames = (frame + rest) + apart + reserved
        <5>1. Total(Frames, audioUnits) = frame + rest
          BY <3>1
        <5> HIDE DEF frame, rest, apart, reserved
        <5> QED BY <4>1, <5>1
      <4>4. resources'.audioSampleFrames = resources.audioSampleFrames - frame
        BY <3>2
      <4> HIDE DEF reserved, rest, apart, frame
      <4> QED BY <4>2, <4>3, <4>4
    <3>7. resources'.completeAudioUnits
              = Len(Tail(audioUnits)) + Len(discardedAudioUnits) + Active
      BY <1>2, <2>2, <3>2, <3>5 DEF AudioOwned
    <3> QED BY <1>1, <2>1, <3>2, <3>3, <3>5, <3>6, <3>7 DEF AudioOwned
  <2>4. TextOwned'
    <3>1. \A counter \in {"retainedPreparedSegments", "retainedNarrationText",
                          "retainedPreparedBatches"} : resources'[counter] = resources[counter]
      BY <1>2, <2>1, WithoutUnitIs DEF Counters
    <3> QED BY <1>1, <3>1 DEF Accounts, TextOwned
  <2>5. OwnedOnce'
    <3>1. ASSUME NEW x \in DOMAIN releases
          PROVE  Total(Is(x), audioUnits') + Total(Is(x), discardedAudioUnits')
                     + releases'[x] = 1
      <4>1. Total(Is(x), audioUnits) = Total(Is(x), Tail(audioUnits))
                + (IF x = UnitId(unit) THEN 1 ELSE 0)
        BY <1>1, <1>2, FrontReleased
      <4>2. /\ Total(Is(x), Tail(audioUnits)) \in Int /\ Total(Is(x), discardedAudioUnits) \in Int
            /\ releases[x] \in Nat
        <5>1. Is(x) \in [Unit -> Int]
          BY IsTyped
        <5>2. Total(Is(x), Tail(audioUnits)) \in Int /\ Total(Is(x), discardedAudioUnits) \in Int
          BY <1>2, <2>2, <5>1, TotalTyped
        <5> QED BY <5>2 DEF Accounts, UnitsKept
      <4>3. releases'[x] = releases[x] + (IF x = UnitId(unit) THEN 1 ELSE 0)
        BY <2>1, <4>2
      <4>4. Total(Is(x), audioUnits) + Total(Is(x), discardedAudioUnits) + releases[x] = 1
        BY DEF Accounts, OwnedOnce
      <4> HIDE DEF unit
      <4>5. CASE x = UnitId(unit)
        BY <1>1, <2>1, <4>1, <4>2, <4>3, <4>4, <4>5, SMTT(60)
      <4>6. CASE x # UnitId(unit)
        BY <1>1, <2>1, <4>1, <4>2, <4>3, <4>4, <4>6
      <4> QED BY <4>5, <4>6
    <3>2. DOMAIN releases' = DOMAIN releases
      BY <2>1
    <3> QED BY <3>1, <3>2 DEF OwnedOnce
  <2>6. UnitsKept'
    <3>1. DOMAIN releases' = DOMAIN releases
      BY <2>1
    <3>2. \A x \in DOMAIN releases : releases'[x] \in Nat
      BY <2>1 DEF Accounts, UnitsKept
    <3> QED BY <1>1, <2>1, <2>2, <3>1, <3>2 DEF Accounts, UnitsKept
  <2>7. Fresh'
    <3>1. Known' = Known /\ DOMAIN releases' = DOMAIN releases
      BY <1>1, <2>1 DEF Known
    <3>2. (heard + Len(audioUnits) + Active)' = heard + Len(audioUnits) + Active
      BY <1>1, <1>2, <2>1, <2>2
    <3> QED BY <1>1, <3>1, <3>2 DEF Accounts, Fresh
  <2> QED BY <2>3, <2>4, <2>5, <2>6, <2>7 DEF Accounts
<1>6. CASE frames # Remaining(unit)
  <2> DEFINE played == [unit EXCEPT !.consumedSampleFrames = @ + frames]
  <2>1. audioUnits' = [audioUnits EXCEPT ![1] = played] /\ UNCHANGED <<resources, releases, heard>>
    BY <1>6 DEF accountRenderedSampleFrames
  <2>2. /\ played \in Unit /\ played.sampleFrames = unit.sampleFrames
        /\ UnitId(played) = UnitId(unit) /\ Remaining(played) > 0
    <3>1. /\ frames \in Nat /\ unit.consumedSampleFrames \in Nat /\ unit.sampleFrames \in Nat
      BY <1>2, LimitsAssumption DEF Unit
    <3>2. /\ played.sampleFrames = unit.sampleFrames /\ played.sequence = unit.sequence
          /\ played.generation = unit.generation
          /\ played.consumedSampleFrames = unit.consumedSampleFrames + frames
      BY <1>2 DEF Unit
    <3>3. played \in Unit
      <4>1. unit.consumedSampleFrames + frames \in Nat
        BY <3>1
      <4> QED BY <1>2, <4>1 DEF Unit
    <3> HIDE DEF played, unit
    <3> QED BY <1>1, <1>6, <3>1, <3>2, <3>3 DEF UnitId, Remaining
  <2> HIDE DEF played
  <2>3. /\ Len(audioUnits') = Len(audioUnits)
        /\ \A i \in 1 .. Len(audioUnits) :
              audioUnits'[i] = IF i = 1 THEN played ELSE audioUnits[i]
    BY <1>2, <2>1
  <2>4. AudioOwned' /\ TextOwned'
    <3>1. Total(Frames, audioUnits') = Total(Frames, audioUnits)
      <4>1. Total(Frames, [audioUnits EXCEPT ![1] = played])
                = Total(Frames, audioUnits) - Frames[unit] + Frames[played]
        <5>1. /\ audioUnits \in Seq(Unit) /\ audioUnits # <<>> /\ played \in Unit
              /\ Frames \in [Unit -> Int]
          BY <1>1, <1>2, <2>2, WeightTypes
        <5> QED BY <5>1, TotalFirst
      <4>2. Frames[played] = unit.sampleFrames
        BY <2>2 DEF Frames
      <4> HIDE DEF unit
      <4> QED BY <1>4, <2>1, <4>1, <4>2
    <3> QED BY <1>1, <2>1, <2>3, <3>1 DEF Accounts, AudioOwned, TextOwned
  <2>5. OwnedOnce'
    <3>1. ASSUME NEW x PROVE Total(Is(x), audioUnits') = Total(Is(x), audioUnits)
      <4>1. Is(x) \in [Unit -> Int]
        BY IsTyped
      <4>2. Total(Is(x), [audioUnits EXCEPT ![1] = played])
                = Total(Is(x), audioUnits) - Is(x)[unit] + Is(x)[played]
        <5>1. audioUnits \in Seq(Unit) /\ audioUnits # <<>> /\ played \in Unit
          BY <1>1, <1>2, <2>2
        <5> QED BY <4>1, <5>1, TotalFirst
      <4>3. Is(x)[played] = Is(x)[unit] /\ Is(x)[unit] \in Int
        BY <1>2, <2>2 DEF Is
      <4>4. Total(Is(x), audioUnits) \in Int
        BY <1>2, <4>1, TotalTyped
      <4> HIDE DEF unit
      <4> QED BY <2>1, <4>2, <4>3, <4>4
    <3> QED BY <1>1, <2>1, <3>1 DEF Accounts, OwnedOnce
  <2>6. UnitsKept'
    <3>1. ASSUME NEW i \in 1 .. Len(audioUnits')
          PROVE  Remaining(audioUnits'[i]) > 0 /\ UnitId(audioUnits'[i]) \in DOMAIN releases'
      <4> HIDE DEF unit
      <4>1. CASE i = 1
        BY <1>3, <2>1, <2>2, <2>3, <4>1
      <4>2. CASE i # 1
        BY <2>1, <2>3, <4>2 DEF Accounts, UnitsKept
      <4> QED BY <4>1, <4>2
    <3> QED BY <1>1, <2>1, <3>1 DEF Accounts, UnitsKept
  <2>7. Fresh'
    BY <1>1, <2>1, <2>3 DEF Accounts, Fresh, Known
  <2> QED BY <2>4, <2>5, <2>6, <2>7 DEF Accounts
<1> QED BY <1>5, <1>6

\* Cleaning up hands back one discarded unit.
LEMMA ReleaseAccounts ==
    ASSUME TypeOK, Accounts, releaseDiscardedAudioUnits
    PROVE  Accounts'
<1> DEFINE unit == discardedAudioUnits[1]
           rest == Tail(discardedAudioUnits)
<1>1. /\ UNCHANGED <<audioUnits, pendingSegments, activeSynthesis, inflight, heard,
                     identity, generation, serviceState>>
      /\ discardedAudioUnits # <<>> /\ discardedAudioUnits' = rest /\ Active' = Active
      /\ resources' = WithoutUnit(resources, unit)
      /\ releases' = [releases EXCEPT ![UnitId(unit)] = @ + 1]
  BY DEF releaseDiscardedAudioUnits, runVars, textVars, Active
<1>2. /\ audioUnits \in Seq(Unit) /\ discardedAudioUnits \in Seq(Unit)
      /\ Len(audioUnits) \in Nat /\ Len(discardedAudioUnits) \in Nat
      /\ 1 \in 1 .. Len(discardedAudioUnits) /\ unit \in Unit /\ Active \in {0, 1}
  BY <1>1 DEF TypeOK, UnitTypes, Active
<1>3. /\ rest \in Seq(Unit) /\ Len(rest) = Len(discardedAudioUnits) - 1
      /\ \A i \in 1 .. Len(rest) :
            i + 1 \in 1 .. Len(discardedAudioUnits) /\ rest[i] = discardedAudioUnits[i + 1]
  BY <1>1, <1>2, HeadTailProperties
<1>4. UnitId(unit) \in DOMAIN releases
  BY <1>2 DEF Accounts, UnitsKept
<1>5. AudioOwned'
  <2>1. Total(Frames, discardedAudioUnits) = unit.sampleFrames + Total(Frames, rest)
    <3>1. Total(Frames, discardedAudioUnits) = Frames[unit] + Total(Frames, rest)
      BY <1>1, <1>2, TotalTail, WeightTypes
    <3>2. Frames[unit] = unit.sampleFrames
      BY <1>2 DEF Frames
    <3> QED BY <3>1, <3>2
  <2>2. /\ resources'.audioSampleFrames = resources.audioSampleFrames - unit.sampleFrames
        /\ resources'.completeAudioUnits = resources.completeAudioUnits - 1
        /\ resources'.activeSyntheses = resources.activeSyntheses
    BY <1>1, <1>2, WithoutUnitIs DEF Counters
  <2>3. Active * Reservation \in Int /\ Active' * Reservation = Active * Reservation
    <3>1. Reservation \in Int /\ Active \in Int
      BY <1>2, LimitsAssumption
    <3> QED BY <1>1, <3>1
  <2>4. /\ Total(Frames, rest) \in Int /\ Total(Frames, audioUnits) \in Int
        /\ Total(Frames, discardedAudioUnits) \in Int /\ unit.sampleFrames \in Int
    <3>1. unit.sampleFrames \in Int
      BY <1>2 DEF Unit
    <3> QED BY <1>2, <1>3, <3>1, TotalTyped, WeightTypes
  <2>5. AudioOwned
    BY DEF Accounts
  <2> DEFINE reserved == Active * Reservation
             left == Total(Frames, rest)
             played == Total(Frames, audioUnits)
  <2>6. resources'.audioSampleFrames = played + left + reserved
    <3>1. resources.audioSampleFrames = played + Total(Frames, discardedAudioUnits) + reserved
      BY <2>5 DEF AudioOwned
    <3> DEFINE frame == unit.sampleFrames
    <3>2. frame \in Int /\ left \in Int /\ played \in Int /\ reserved \in Int
      BY <2>3, <2>4
    <3>3. resources.audioSampleFrames = played + (frame + left) + reserved
      <4>1. Total(Frames, discardedAudioUnits) = frame + left
        BY <2>1
      <4> HIDE DEF frame, left, played, reserved
      <4> QED BY <3>1, <4>1
    <3>4. resources'.audioSampleFrames = resources.audioSampleFrames - frame
      BY <2>2
    <3> HIDE DEF reserved, left, played, frame
    <3> QED BY <3>2, <3>3, <3>4
  <2>7. resources'.completeAudioUnits = Len(audioUnits) + Len(rest) + Active
    BY <1>2, <1>3, <2>2, <2>5 DEF AudioOwned
  <2> QED BY <1>1, <2>2, <2>3, <2>5, <2>6, <2>7 DEF AudioOwned
<1>6. TextOwned'
  <2>1. \A counter \in {"retainedPreparedSegments", "retainedNarrationText",
                        "retainedPreparedBatches"} : resources'[counter] = resources[counter]
    BY <1>1, <1>2, WithoutUnitIs DEF Counters
  <2> QED BY <1>1, <2>1 DEF Accounts, TextOwned
<1>7. DOMAIN releases' = DOMAIN releases
  BY <1>1
<1>8. OwnedOnce'
  <2>1. ASSUME NEW x \in DOMAIN releases
        PROVE  Total(Is(x), audioUnits') + Total(Is(x), discardedAudioUnits')
                   + releases'[x] = 1
    <3>1. Total(Is(x), discardedAudioUnits)
              = Total(Is(x), rest) + (IF x = UnitId(unit) THEN 1 ELSE 0)
      BY <1>1, <1>2, FrontReleased
    <3>2. /\ Total(Is(x), audioUnits) \in Int /\ Total(Is(x), rest) \in Int
          /\ releases[x] \in Nat
      <4>1. Is(x) \in [Unit -> Int]
        BY IsTyped
      <4>2. Total(Is(x), audioUnits) \in Int /\ Total(Is(x), rest) \in Int
        BY <1>2, <1>3, <4>1, TotalTyped
      <4> QED BY <4>2 DEF Accounts, UnitsKept
    <3>3. releases'[x] = releases[x] + (IF x = UnitId(unit) THEN 1 ELSE 0)
      BY <1>1, <3>2
    <3>4. Total(Is(x), audioUnits) + Total(Is(x), discardedAudioUnits) + releases[x] = 1
      BY DEF Accounts, OwnedOnce
    <3> HIDE DEF unit, rest
    <3>5. CASE x = UnitId(unit)
      BY <1>1, <3>1, <3>2, <3>3, <3>4, <3>5
    <3>6. CASE x # UnitId(unit)
      BY <1>1, <3>1, <3>2, <3>3, <3>4, <3>6
    <3> QED BY <3>5, <3>6
  <2> QED BY <1>7, <2>1 DEF OwnedOnce
<1>9. UnitsKept'
  <2>1. \A x \in DOMAIN releases : releases'[x] \in Nat
    BY <1>1 DEF Accounts, UnitsKept
  <2> HIDE DEF rest
  <2> QED BY <1>1, <1>3, <1>7, <2>1 DEF Accounts, UnitsKept
<1>10. Fresh'
  <2>1. identity = NoIdentity
    BY <1>1 DEF Accounts, Fresh
  <2>2. Known' = Known
    BY <1>1, <1>7 DEF Known
  <2> QED BY <1>1, <1>7, <2>1, <2>2 DEF Accounts, Fresh
<1> QED BY <1>5, <1>6, <1>8, <1>9, <1>10 DEF Accounts

\* Invalidation moves the buffer to the discarded units, and drops the rest.
LEMMA InvalidateAccounts ==
    ASSUME TypeOK, Accounts, invalidate
    PROVE  Accounts'
<1>1. /\ discardedAudioUnits = <<>> /\ identity' = NoIdentity /\ pendingSegments' = <<>>
      /\ activeSynthesis' = NoSegment /\ audioUnits' = <<>> /\ Active' = 0
      /\ UNCHANGED <<generation, inflight, releases, heard>>
      /\ discardedAudioUnits' = discardedAudioUnits \o audioUnits
      /\ resources' = [emptyResources EXCEPT
          !.audioSampleFrames = resources.audioSampleFrames - Active * Reservation,
          !.completeAudioUnits = resources.completeAudioUnits - Active]
  BY DEF invalidate, Active, Accounts, Fresh
<1>2. audioUnits \in Seq(Unit) /\ Len(audioUnits) \in Nat /\ Active \in {0, 1}
  BY DEF TypeOK, UnitTypes, Active
<1>3. discardedAudioUnits' = audioUnits
  BY <1>1, <1>2
<1>4. Len(<<>>) = 0 /\ Total(Frames, <<>>) = 0 /\ Total(Texts, <<>>) = 0 /\ NoSegment.text = 0
  BY TotalEmpty, WeightTypes DEF NoSegment
<1>5. /\ resources'.audioSampleFrames = resources.audioSampleFrames - Active * Reservation
      /\ resources'.completeAudioUnits = resources.completeAudioUnits - Active
      /\ resources'.activeSyntheses = 0 /\ resources'.retainedPreparedSegments = 0
      /\ resources'.retainedNarrationText = 0 /\ resources'.retainedPreparedBatches = 0
  BY <1>1 DEF emptyResources, Counters
<1>6. AudioOwned'
  <2>1. /\ Active * Reservation \in Int /\ 0 * Reservation = 0
        /\ Total(Frames, audioUnits) \in Int
    <3>1. Reservation \in Int /\ Active \in Int
      BY <1>2, LimitsAssumption
    <3> QED BY <1>2, <3>1, TotalTyped, WeightTypes
  <2>2. AudioOwned
    BY DEF Accounts
  <2> QED BY <1>1, <1>2, <1>3, <1>4, <1>5, <2>1, <2>2, SMTT(60) DEF AudioOwned
<1>7. TextOwned'
  BY <1>1, <1>4, <1>5 DEF TextOwned
<1>8. OwnedOnce'
  <2>1. ASSUME NEW x \in DOMAIN releases
        PROVE  Total(Is(x), audioUnits') + Total(Is(x), discardedAudioUnits')
                   + releases'[x] = 1
    <3>1. Total(Is(x), <<>>) = 0 /\ Total(Is(x), audioUnits) \in Int
      <4>1. Is(x) \in [Unit -> Int]
        BY IsTyped
      <4> QED BY <1>2, <4>1, TotalEmpty, TotalTyped
    <3>2. Total(Is(x), audioUnits) + Total(Is(x), discardedAudioUnits) + releases[x] = 1
      BY DEF Accounts, OwnedOnce
    <3> QED BY <1>1, <1>3, <3>1, <3>2
  <2> QED BY <1>1, <2>1 DEF OwnedOnce
<1>9. UnitsKept' /\ Fresh'
  BY <1>1, <1>3, <1>4 DEF Accounts, UnitsKept, Fresh, Known
<1> QED BY <1>6, <1>7, <1>8, <1>9 DEF Accounts

\* A run starts only when nothing of the old one is owned.
LEMMA NewRunAccounts ==
    ASSUME TypeOK, OneOperation, Accounts, NEW newMode \in Modes, NEW rate \in Rates,
           NewRun(newMode, rate)
    PROVE  Accounts'
<1>1. /\ resources.completeAudioUnits = 0 /\ UNCHANGED <<inflight, releases>>
      /\ generation' = generation + 1 /\ identity' = generation + 1
      /\ audioUnits' = <<>> /\ discardedAudioUnits' = <<>> /\ pendingSegments' = <<>>
      /\ activeSynthesis' = NoSegment /\ Active' = 0 /\ resources' = emptyResources
  BY DEF NewRun, Active
<1>2. audioUnits = <<>> /\ discardedAudioUnits = <<>>
  <2>1. /\ audioUnits \in Seq(Unit) /\ discardedAudioUnits \in Seq(Unit)
        /\ Len(audioUnits) \in Nat /\ Len(discardedAudioUnits) \in Nat /\ Active \in {0, 1}
    BY DEF TypeOK, UnitTypes, Active
  <2>2. Len(audioUnits) = 0 /\ Len(discardedAudioUnits) = 0
    BY <1>1, <2>1 DEF Accounts, AudioOwned
  <2> QED BY <2>1, <2>2
<1>3. /\ Len(<<>>) = 0 /\ Total(Frames, <<>>) = 0 /\ Total(Texts, <<>>) = 0
      /\ NoSegment.text = 0 /\ 0 * Reservation = 0
  <2>1. 0 * Reservation = 0
    BY LimitsAssumption
  <2> QED BY <2>1, TotalEmpty, WeightTypes DEF NoSegment
<1>4. \A counter \in Counters : resources'[counter] = 0
  BY <1>1 DEF emptyResources
<1>5. AudioOwned' /\ TextOwned'
  <2>1. AudioOwned'
    BY <1>1, <1>3, <1>4 DEF AudioOwned, Counters
  <2>2. TextOwned'
    BY <1>1, <1>3, <1>4 DEF TextOwned, Counters
  <2> QED BY <2>1, <2>2
<1>6. OwnedOnce' /\ UnitsKept'
  BY <1>1, <1>2 DEF Accounts, OwnedOnce, UnitsKept
<1>7. Fresh'
  <2>1. Known' = Known
    BY <1>1 DEF Known
  <2>2. generation \in Nat /\ \A id \in Known : id[1] \in Nat /\ id[1] <= generation
    BY DEF Accounts, Fresh, Known, TypeOK, RunTypes, UnitTypes
  <2> QED BY <1>1, <2>1, <2>2 DEF Accounts, Fresh
<1> QED BY <1>5, <1>6, <1>7 DEF Accounts

\* Every step keeps the accounts.
LEMMA AccountsStep == IInv /\ Accounts /\ [Next]_vars => Accounts'
<1> SUFFICES ASSUME IInv, Accounts, [Next]_vars PROVE Accounts'
  OBVIOUS
<1>0. TypeOK /\ OneOperation /\ Conveyor
  BY DEF IInv
<1>1. ASSUME NEW from, NEW to, ServiceStep(from, to), to # "failed",
             from # "failed" \/ identity = NoIdentity
      PROVE  Accounts'
  <2>1. Aside
    BY <1>1 DEF ServiceStep, Aside, runVars, textVars, unitVars
  <2> QED BY <2>1, AsideKeeps
<1>2. CASE Dispatch
  <2>1. beginServiceStart \/ beginServicePrepare => Accounts'
    BY <1>1 DEF beginServiceStart, beginServicePrepare
  <2>2. ASSUME beginNarrationPreparation PROVE Accounts'
    <3>1. Aside
      BY <1>0, <2>2 DEF beginNarrationPreparation, Aside, runVars, textVars, unitVars,
         TypeOK, ResourceTypes, Counters
    <3> QED BY <3>1, AsideKeeps
  <2> QED BY <1>0, <1>2, <2>1, <2>2, SynthesisAccounts DEF Dispatch
<1>3. CASE Answer
  <2>1. markServiceStarted \/ markServiceReady => Accounts'
    BY <1>1 DEF markServiceStarted, markServiceReady
  <2>2. ASSUME failServiceTransition \/ failNarrationPreparation PROVE Accounts'
    <3>1. Aside
      BY <1>0, <2>2 DEF failServiceTransition, failNarrationPreparation, Aside, runVars,
         textVars, unitVars, TypeOK, ResourceTypes, Counters
    <3> QED BY <3>1, AsideKeeps
  <2>3. ASSUME NEW complete \in BOOLEAN, acceptEmptyPreparedRange(complete) PROVE Accounts'
    <3>1. Aside
      BY <1>0, <2>3 DEF acceptEmptyPreparedRange, Aside, runVars, unitVars, AwaitsBatch,
         TypeOK, ResourceTypes, Counters
    <3> QED BY <3>1, AsideKeeps
  <2> QED BY <1>0, <1>3, <2>1, <2>2, <2>3, BatchAccounts, CompletedAccounts, FailureAccounts
          DEF Answer
<1>4. CASE Render
  <2>1. ASSUME activateCurrentPlaybackRate PROVE Accounts'
    <3>1. Aside
      BY <2>1 DEF activateCurrentPlaybackRate, Aside, runVars, textVars, unitVars
    <3> QED BY <3>1, AsideKeeps
  <2> QED BY <1>0, <1>4, <2>1, RenderedAccounts DEF Render
<1>5. CASE Listener
  <2>1. Aside
    BY <1>5 DEF Listener, selectPlaybackRatePercent, pausePlayback, resumePlayback,
       playAvailableAudio, Aside, runVars, textVars, unitVars
  <2> QED BY <2>1, AsideKeeps
<1>6. CASE Teardown
  <2>1. settleServiceStop => Accounts'
    BY <1>1 DEF settleServiceStop
  <2> QED BY <1>0, <1>6, <2>1, StaleAccounts, ReleaseAccounts, InvalidateAccounts,
             NewRunAccounts DEF Teardown
<1>7. CASE UNCHANGED vars
  <2>1. Aside
    BY <1>7 DEF vars, schedulerVars, Aside
  <2> QED BY <2>1, AsideKeeps
<1> QED BY <1>2, <1>3, <1>4, <1>5, <1>6, <1>7 DEF Next

\* Every step keeps the inductive invariant of the conveyor.
LEMMA IInvStep == IInv /\ [Next]_vars => IInv'
BY DispatchTyped, AnswerTyped, RenderTyped, ListenerTyped, TeardownTyped,
   StutterTyped, CeilingsStep, OneOperationStep, ConveyorStep DEF IInv, Next

\* Every counter the ceilings are checked against equals what the scheduler owns,
\* and every delivered unit has one owner until it is released once, through
\* reservations, failures, stale answers, invalidation, cleanup and new runs.
THEOREM NothingLeaks == Spec => []EverythingIsAccountedFor
<1>1. Init => IInv /\ Accounts
  BY InitIInv, InitAccounts
<1>2. IInv /\ Accounts /\ [Next]_vars => (IInv /\ Accounts)'
  BY IInvStep, AccountsStep
<1>3. IInv /\ Accounts => EverythingIsAccountedFor
  BY AccountsAre DEF AccountsOwned, IInv, Accounts, EverythingIsAccountedFor
<1> QED BY <1>1, <1>2, <1>3, PTL DEF Spec

-----------------------------------------------------------------------------
(* What can be heard *)

\* What is left to hear is the sum of what is left of each unit, and nothing is
\* left only when no unit is.
PlayableKnown ==
    TypeOK /\ UnitsKept =>
        /\ playableSampleFrames = Total(Left, audioUnits)
        /\ playableSampleFrames \in Nat
        /\ playableSampleFrames = 0 <=> audioUnits = <<>>

\* Units that were not heard to their end leave something to hear.
LEMMA Playable == PlayableKnown
<1> SUFFICES ASSUME TypeOK, UnitsKept
             PROVE  /\ playableSampleFrames = Total(Left, audioUnits)
                    /\ playableSampleFrames \in Nat
                    /\ playableSampleFrames = 0 <=> audioUnits = <<>>
  BY DEF PlayableKnown
<1>1. audioUnits \in Seq(Unit)
  BY DEF TypeOK, UnitTypes
<1>2. playableSampleFrames = Total(Left, audioUnits)
  BY <1>1, PlayableAre
<1>3. CASE audioUnits = <<>>
  BY <1>2, <1>3, TotalEmpty, WeightTypes
<1>4. CASE audioUnits # <<>>
  <2>1. ASSUME NEW i \in 1 .. Len(audioUnits) PROVE Left[audioUnits[i]] \in Nat \ {0}
    <3>1. audioUnits[i] \in Unit
      BY <1>1
    <3>2. Remaining(audioUnits[i]) \in Int /\ Remaining(audioUnits[i]) > 0
      BY <3>1 DEF UnitsKept, Remaining, Unit
    <3> QED BY <3>1, <3>2 DEF Left
  <2>2. Total(Left, audioUnits) \in Nat /\ Total(Left, audioUnits) > 0
    BY <1>1, <1>4, <2>1, TotalPositive, WeightTypes
  <2> QED BY <1>2, <1>4, <2>2
<1> QED BY <1>2, <1>3, <1>4

\* The same holds in the next state.
LEMMA PlayableThen == PlayableKnown /\ PlayableKnown'
<1>1. PlayableKnown
  BY Playable
<1> QED BY <1>1, PTL

-----------------------------------------------------------------------------
(* What the listener is told *)

RatesKept ==
    /\ playbackRate.selected \in Rates
    /\ playbackRate.active \in Rates \cup {NoRate}
    /\ playbackRate.pending \in Rates \cup {NoRate}

startThreshold == IF initialPlaybackStarted THEN RefillResume ELSE initialTarget
Waits == playbackState \in {"preparing", "buffering"}
Enough == playableSampleFrames > 0 /\ effectiveListeningDuration >= startThreshold

\* A run that is over is silent; only one that has started refills or is heard.
Settled ==
    /\ mode \in Modes
    /\ identity = NoIdentity =>
          /\ playbackState = "stopped"
          /\ serviceState \in {"cancelling", "stopping", "stopped"}
    /\ playbackState \in {"playing", "paused", "buffering"} => initialPlaybackStarted

\* The end of the range is the last thing that is prepared.
Ended ==
    rangeComplete => remaining = 0 /\ resources.activeNarrationPreparations = 0

\* The listener waits only while something is still to come and what is there is
\* not enough, and is told of the end only at the end.
Told ==
    /\ playbackState = "playing" => audioUnits # <<>>
    /\ Serving /\ Waits => ~AllProduced /\ ~Enough
    /\ serviceState # "failed" /\ playbackState = "complete" =>
          AllProduced /\ audioUnits = <<>>

Listening == RatesKept /\ Settled /\ Ended /\ Told

\* What is enough stays so while units, rates and mode stay as they are.
LEMMA EnoughStill ==
    ASSUME TypeOK, UnitsKept, TypeOK', UnitsKept',
           UNCHANGED <<audioUnits, playbackRate, activePlaybackSequence, mode,
                       initialPlaybackStarted>>
    PROVE  Enough' = Enough
<1>1. playableSampleFrames' = playableSampleFrames
  BY PlayableThen DEF PlayableKnown
<1>2. ActiveFrames' = ActiveFrames
  BY DEF ActiveFrames, Remaining
<1>3. effectiveListeningDuration' = effectiveListeningDuration
  BY <1>1, <1>2 DEF effectiveListeningDuration
<1>4. startThreshold' = startThreshold
  BY DEF startThreshold, initialTarget
<1> QED BY <1>1, <1>3, <1>4 DEF Enough

\* Nothing the listener is told of changes.
LEMMA ListeningStill ==
    ASSUME TypeOK, UnitsKept, TypeOK', UnitsKept', Listening,
           UNCHANGED <<identity, mode, playbackState, initialPlaybackStarted, rangeComplete,
                       pendingSegments, activeSynthesis, audioUnits, playbackRate,
                       activePlaybackSequence, remaining>>,
           resources'.activeNarrationPreparations = resources.activeNarrationPreparations,
           identity # NoIdentity /\ serviceState' # "failed" => serviceState # "failed",
           identity = NoIdentity => serviceState' \in {"cancelling", "stopping", "stopped"}
    PROVE  Listening'
<1>1. RatesKept' /\ Settled' /\ Ended'
  BY DEF Listening, RatesKept, Settled, Ended
<1>2. Enough' = Enough /\ AllProduced' = AllProduced /\ Waits' = Waits
  BY EnoughStill DEF AllProduced, Waits
<1>3. Told'
  BY <1>2 DEF Listening, Told, Serving, Settled
<1> QED BY <1>1, <1>3 DEF Listening

\* The service fails: what is buffered is still heard, a silent listener is told.
LEMMA ListeningFails ==
    ASSUME TypeOK, UnitsKept, Listening, identity # NoIdentity,
           failPlaybackWhenSilent, serviceState' = "failed",
           UNCHANGED <<identity, mode, rangeComplete, audioUnits, playbackRate, remaining>>,
           resources'.activeNarrationPreparations
               \in {0, resources.activeNarrationPreparations}
    PROVE  Listening'
<1>1. RatesKept' /\ Settled' /\ Ended'
  BY DEF Listening, RatesKept, Settled, Ended, failPlaybackWhenSilent
<1>2. Told'
  BY DEF Listening, Told, Serving, failPlaybackWhenSilent
<1> QED BY <1>1, <1>2 DEF Listening

\* The refresh tells the listener what the new units, text and rates mean.
LEMMA ListeningRefreshed ==
    ASSUME TypeOK, TypeOK', UnitsKept', Listening, Ended', RatesKept',
           refreshPlaybackState, UNCHANGED <<identity, mode>>,
           identity # NoIdentity /\ serviceState' # "failed" => serviceState # "failed",
           identity = NoIdentity => serviceState' \in {"cancelling", "stopping", "stopped"},
           playbackState = "complete" /\ serviceState # "failed" =>
               AllProduced' /\ audioUnits' = <<>>
    PROVE  Listening'
<1>1. playableSampleFrames' \in Nat /\ (playableSampleFrames' = 0 <=> audioUnits' = <<>>)
  BY PlayableThen DEF PlayableKnown
<1>2. Settled /\ Told
  BY DEF Listening
<1>3. CASE playbackState \in {"stopped", "paused"} \/ identity' = NoIdentity
  <2>1. UNCHANGED listeningVars /\ playbackState \in {"stopped", "paused"}
    BY <1>2, <1>3 DEF refreshPlaybackState, Settled
  <2>2. Settled'
    BY <1>2, <2>1 DEF Settled, listeningVars
  <2>3. Told'
    BY <2>1 DEF Told, Waits, listeningVars
  <2> QED BY <2>2, <2>3 DEF Listening
<1>4. CASE playbackState \notin {"stopped", "paused"} /\ identity' # NoIdentity
  <2>1. CASE playableSampleFrames' = 0
    <3>1. /\ playbackState' =
                 IF AllProduced' THEN "complete"
                 ELSE IF serviceState' = "failed" THEN "failed"
                 ELSE IF initialPlaybackStarted THEN "buffering" ELSE playbackState
          /\ initialPlaybackStarted' = initialPlaybackStarted
      BY <1>4, <2>1 DEF refreshPlaybackState
    <3>2. Settled'
      BY <1>2, <1>4, <3>1 DEF Settled
    <3>3. ~Enough'
      BY <2>1 DEF Enough
    <3>4. Told'
      BY <1>1, <1>2, <1>4, <2>1, <3>1, <3>3 DEF Settled, Told, Serving, Waits
    <3> QED BY <3>2, <3>4 DEF Listening
  <2>2. CASE playableSampleFrames' > 0
    <3>1. audioUnits' # <<>>
      BY <1>1, <2>2
    <3>2. CASE /\ playbackState # "playing"
               /\ AllProduced' \/ effectiveListeningDuration' >= startThreshold
      <4>1. playbackState' = "playing" /\ initialPlaybackStarted' = TRUE
        BY <1>1, <1>4, <2>2, <3>2 DEF refreshPlaybackState, startThreshold
      <4> QED BY <1>2, <1>4, <3>1, <4>1 DEF Listening, Settled, Told, Waits
    <3>3. CASE ~(/\ playbackState # "playing"
                 /\ AllProduced' \/ effectiveListeningDuration' >= startThreshold)
      <4>1. UNCHANGED listeningVars
        BY <1>1, <1>4, <2>2, <3>3 DEF refreshPlaybackState, startThreshold
      <4>2. startThreshold' = startThreshold /\ Waits' = Waits
        BY <4>1 DEF listeningVars, startThreshold, initialTarget, Waits
      <4>3. Waits' => ~AllProduced' /\ ~Enough'
        BY <3>3, <4>2 DEF Waits, Enough
      <4>4. Settled'
        BY <1>2, <1>4, <4>1 DEF Settled, listeningVars
      <4>5. Told'
        BY <1>2, <1>4, <3>1, <4>1, <4>3 DEF Told, listeningVars
      <4> QED BY <4>4, <4>5 DEF Listening
    <3> QED BY <3>2, <3>3
  <2> QED BY <1>1, <2>1, <2>2
<1> QED BY <1>3, <1>4

-----------------------------------------------------------------------------
(* What each method tells the listener *)

\* What an answer of the scheduler says of its state.
LEMMA WantedStates ==
    /\ nextAction \in {"start-service", "prepare-service", "prepare-narration", "synthesize"} =>
          identity # NoIdentity /\ playbackState # "complete"
    /\ nextAction = "prepare-narration" => ~rangeComplete
    /\ nextAction = "failed" => serviceState = "failed"
    /\ nextAction = "backpressure" =>
          /\ serviceState # "generating" /\ resources.activeNarrationPreparations = 0
          /\ ~shouldProduce \/ ~canReserveAdaptiveBufferServiceUnit(resources)
    /\ nextAction = "complete" =>
          \/ playbackState = "complete"
          \/ AllProduced
          \/ /\ serviceState # "generating" /\ pendingSegments = <<>> /\ rangeComplete
BY DEF nextAction

\* A narration starts with a listener who waits.
LEMMA InitListening == Init => Listening
<1> SUFFICES ASSUME Init PROVE Listening
  OBVIOUS
<1>1. RatesKept
  BY InputsAssumption DEF Init, RatesKept, initialPlaybackRate, selectNarrationPlaybackRate
<1>2. Settled /\ Ended
  BY DEF Init, Settled, Ended, NoIdentity
<1>3. PICK rate \in Rates : playbackRate = initialPlaybackRate(rate)
  BY DEF Init
<1>4. Told
  <2>1. TypeOK /\ UnitsKept
    BY InitIInv, InitAccounts DEF IInv, Accounts
  <2>2. ~Enough
    BY <2>1, Playable DEF PlayableKnown, Enough, Init
  <2> QED BY <2>2 DEF Told, Init, AllProduced
<1> QED BY <1>1, <1>2, <1>4 DEF Listening

\* Dispatching an operation never tells the listener anything.
LEMMA DispatchListening ==
    ASSUME TypeOK, OneOperation, UnitsKept, TypeOK', UnitsKept', Listening, Dispatch
    PROVE  Listening'
<1>1. CASE beginServiceStart \/ beginServicePrepare
  <2>1. identity # NoIdentity
    BY <1>1, WantedStates DEF beginServiceStart, beginServicePrepare
  <2> QED BY <1>1, <2>1, ListeningStill DEF beginServiceStart, beginServicePrepare, ServiceStep,
             runVars, textVars, unitVars, rateVars, listeningVars
<1>2. CASE beginNarrationPreparation
  <2>1. identity # NoIdentity /\ playbackState # "complete" /\ ~rangeComplete
    BY <1>2, WantedStates DEF beginNarrationPreparation
  <2>2. UNCHANGED <<identity, mode, playbackState, initialPlaybackStarted, rangeComplete,
                    pendingSegments, activeSynthesis, audioUnits, playbackRate,
                    activePlaybackSequence, remaining, serviceState>>
    BY <1>2 DEF beginNarrationPreparation, runVars, textVars, unitVars, rateVars, listeningVars
  <2>3. Enough' = Enough /\ AllProduced' = AllProduced
    BY <2>2, EnoughStill DEF AllProduced
  <2>4. RatesKept' /\ Settled' /\ Ended'
    BY <2>1, <2>2 DEF Listening, RatesKept, Settled, Ended
  <2>5. Told'
    BY <2>2, <2>3 DEF Listening, Told, Serving, Waits
  <2> QED BY <2>4, <2>5 DEF Listening
<1>3. CASE beginSynthesis
  <2>1. identity # NoIdentity /\ playbackState # "complete" /\ pendingSegments # <<>>
    BY <1>3, WantedStates, DispatchStates DEF beginSynthesis
  <2>2. Head(pendingSegments) \in Segment
    BY <2>1 DEF TypeOK, TextTypes
  <2>3. /\ UNCHANGED <<identity, mode, playbackState, initialPlaybackStarted, rangeComplete,
                       audioUnits, playbackRate, activePlaybackSequence, remaining>>
        /\ activeSynthesis' # NoSegment /\ serviceState' = "generating"
    BY <1>3, <2>2 DEF beginSynthesis, runVars, rateVars, listeningVars, Segment, NoSegment,
       Sequence
  <2>4. resources'.activeNarrationPreparations = resources.activeNarrationPreparations
    BY <1>3 DEF beginSynthesis, Reserved, TypeOK, ResourceTypes, Counters
  <2>5. Enough' = Enough /\ ~AllProduced'
    BY <2>3, EnoughStill DEF AllProduced
  <2>6. RatesKept' /\ Settled' /\ Ended'
    BY <2>1, <2>3, <2>4 DEF Listening, RatesKept, Settled, Ended
  <2>7. serviceState # "failed"
    BY <1>3, DispatchStates DEF beginSynthesis
  <2>8. Told'
    BY <2>1, <2>3, <2>5, <2>7 DEF Listening, Told, Serving, Waits
  <2> QED BY <2>6, <2>8 DEF Listening
<1> QED BY <1>1, <1>2, <1>3 DEF Dispatch

\* An answer tells the listener what it means.
LEMMA AnswerListening ==
    ASSUME TypeOK, OneOperation, UnitsKept, TypeOK', UnitsKept', Listening, Answer
    PROVE  Listening'
<1>0. identity = NoIdentity => serviceState \in {"cancelling", "stopping", "stopped"}
  BY DEF Listening, Settled
<1>1. CASE markServiceStarted \/ markServiceReady
  BY <1>0, <1>1, ListeningStill DEF markServiceStarted, markServiceReady, ServiceStep,
     runVars, textVars, unitVars, rateVars, listeningVars
<1>2. CASE failServiceTransition
  BY <1>0, <1>2, ListeningFails DEF failServiceTransition, runVars, textVars, unitVars, rateVars
<1>3. CASE failNarrationPreparation
  <2>1. resources'.activeNarrationPreparations = 0 /\ identity # NoIdentity
    BY <1>0, <1>3 DEF failNarrationPreparation, TypeOK, ResourceTypes, Counters, OneOperation
  <2> QED BY <1>3, <2>1, ListeningFails DEF failNarrationPreparation, runVars, textVars,
             unitVars, rateVars
<1>4. CASE failActiveSynthesis \/ \E id \in inflight : rejectInvalidUnit(id)
  <2>1. activeSynthesis # NoSegment /\ settleActiveSynthesis
    BY <1>4 DEF failActiveSynthesis, rejectInvalidUnit, sameIdentity
  <2>2. resources'.activeNarrationPreparations = resources.activeNarrationPreparations
    BY <2>1 DEF settleActiveSynthesis, settleActivePromptResources, TypeOK, ResourceTypes,
       Counters
  <2> QED BY <2>1, <2>2, ListeningFails DEF settleActiveSynthesis, runVars, rateVars,
             OneOperation
<1>5. ASSUME NEW n \in 1 .. MaximumSegments, NEW complete \in BOOLEAN,
             NEW texts \in [1 .. n -> TextSizes], acceptPreparedBatch(texts, complete)
      PROVE  Listening'
  <2>1. /\ UNCHANGED <<identity, mode, playbackState, initialPlaybackStarted, serviceState,
                       audioUnits, playbackRate, activePlaybackSequence>>
        /\ resources.activeNarrationPreparations = 1
        /\ complete => Len(texts) = remaining
        /\ rangeComplete' = complete /\ remaining' = remaining - Len(texts)
    BY <1>5 DEF acceptPreparedBatch, AwaitsBatch, runVars, unitVars, rateVars, listeningVars
  <2>2. resources'.activeNarrationPreparations = 0
    BY <1>5 DEF acceptPreparedBatch, TypeOK, ResourceTypes, Counters
  <2>3. pendingSegments' # <<>>
    <3>1. Len(texts) > 0 /\ pendingSegments' = Numbered(texts)
      BY <1>5 DEF acceptPreparedBatch
    <3>2. texts \in Seq(TextSizes)
      BY SeqDef
    <3>3. 1 \in DOMAIN Numbered(texts)
      BY <3>1, <3>2 DEF Numbered
    <3>4. DOMAIN <<>> = {}
      OBVIOUS
    <3> QED BY <3>1, <3>3, <3>4
  <2>4. ~rangeComplete
    BY <2>1 DEF Listening, Ended
  <2>5. Enough' = Enough /\ ~AllProduced'
    BY <2>1, <2>3, EnoughStill DEF AllProduced
  <2>6. RatesKept' /\ Settled'
    BY <2>1 DEF Listening, RatesKept, Settled
  <2>7. Ended'
    BY <2>1, <2>2 DEF Ended, TypeOK, TextTypes
  <2>8. Told'
    BY <2>1, <2>4, <2>5 DEF Listening, Told, Serving, Waits, AllProduced
  <2> QED BY <2>6, <2>7, <2>8 DEF Listening
<1>6. ASSUME NEW complete \in BOOLEAN, acceptEmptyPreparedRange(complete) PROVE Listening'
  <2>1. /\ UNCHANGED <<identity, mode, audioUnits, playbackRate, serviceState>>
        /\ resources.activeNarrationPreparations = 1 /\ refreshPlaybackState
        /\ complete => remaining <= 1
        /\ rangeComplete' = complete /\ remaining' = IF remaining > 0 THEN remaining - 1 ELSE 0
    BY <1>6 DEF acceptEmptyPreparedRange, AwaitsBatch, runVars, unitVars, rateVars
  <2>2. resources'.activeNarrationPreparations = 0
    BY <1>6 DEF acceptEmptyPreparedRange, TypeOK, ResourceTypes, Counters
  <2>3. Ended'
    BY <2>1, <2>2 DEF Ended, TypeOK, TextTypes
  <2>4. RatesKept'
    BY <2>1 DEF Listening, RatesKept
  <2>5. ~(playbackState = "complete" /\ serviceState # "failed")
    BY <2>1 DEF Listening, Told, Ended, AllProduced
  <2> QED BY <1>0, <2>1, <2>3, <2>4, <2>5, ListeningRefreshed
<1>7. ASSUME NEW id \in inflight, NEW frames \in FrameCounts, acceptCompletedUnit(id, frames)
      PROVE  Listening'
  <2>1. /\ UNCHANGED <<identity, mode, rangeComplete, remaining, playbackRate>>
        /\ activeSynthesis # NoSegment /\ serviceState' = "ready" /\ refreshPlaybackState
    BY <1>7 DEF acceptCompletedUnit, sameIdentity, runVars, rateVars
  <2>2. resources'.activeNarrationPreparations = resources.activeNarrationPreparations
    BY <1>7 DEF acceptCompletedUnit, settleActivePromptResources, TypeOK, ResourceTypes,
       Counters
  <2>3. RatesKept' /\ Ended'
    BY <2>1, <2>2 DEF Listening, RatesKept, Ended
  <2>4. identity # NoIdentity /\ serviceState # "failed"
    BY <2>1 DEF OneOperation
  <2>5. playbackState # "complete"
    BY <2>1, <2>4 DEF Listening, Told, AllProduced
  <2> QED BY <2>1, <2>3, <2>4, <2>5, ListeningRefreshed
<1> QED BY <1>1, <1>2, <1>3, <1>4, <1>5, <1>6, <1>7 DEF Answer

\* So does the sound that is heard.
LEMMA RenderListening ==
    ASSUME TypeOK, UnitsKept, TypeOK', UnitsKept', Listening, Render
    PROVE  Listening'
<1>0. identity = NoIdentity => serviceState \in {"cancelling", "stopping", "stopped"}
  BY DEF Listening, Settled
<1>1. CASE activateCurrentPlaybackRate
  <2>1. /\ UNCHANGED <<identity, mode, playbackState, initialPlaybackStarted, rangeComplete,
                       audioUnits, remaining, serviceState, resources>>
        /\ playbackState = "playing"
    BY <1>1 DEF activateCurrentPlaybackRate, runVars, textVars, unitVars, listeningVars
  <2>2. RatesKept'
    BY <1>1 DEF activateCurrentPlaybackRate, Listening, RatesKept, TypeOK, RateTypes
  <2>3. Settled' /\ Ended' /\ Told'
    BY <2>1 DEF Listening, Settled, Ended, Told, Waits
  <2> QED BY <2>2, <2>3 DEF Listening
<1>2. ASSUME NEW frames \in 1 .. Reservation, accountRenderedSampleFrames(frames)
      PROVE  Listening'
  <2>1. /\ UNCHANGED <<identity, mode, rangeComplete, remaining, playbackRate, serviceState>>
        /\ playbackState \in {"playing", "paused"} /\ refreshPlaybackState /\ audioUnits # <<>>
        /\ resources' \in {resources, WithoutUnit(resources, audioUnits[1])}
    BY <1>2 DEF accountRenderedSampleFrames, runVars, textVars, rateVars
  <2>2. resources'.activeNarrationPreparations = resources.activeNarrationPreparations
    <3>1. audioUnits[1] \in Unit
      BY <2>1 DEF TypeOK, UnitTypes
    <3> QED BY <2>1, <3>1, WithoutUnitIs DEF Counters
  <2>3. RatesKept' /\ Ended'
    BY <2>1, <2>2 DEF Listening, RatesKept, Ended
  <2> QED BY <1>0, <2>1, <2>3, ListeningRefreshed
<1> QED BY <1>1, <1>2 DEF Render

\* So does what the listener asks for.
LEMMA ListenerListening ==
    ASSUME TypeOK, UnitsKept, TypeOK', UnitsKept', Listening, Listener
    PROVE  Listening'
<1>0. /\ identity = NoIdentity => serviceState \in {"cancelling", "stopping", "stopped"}
      /\ playableSampleFrames \in Nat /\ (playableSampleFrames = 0 <=> audioUnits = <<>>)
  BY Playable DEF Listening, Settled, PlayableKnown
<1>1. ASSUME NEW rate \in Rates, selectPlaybackRatePercent(rate) PROVE Listening'
  <2>1. /\ UNCHANGED <<identity, mode, rangeComplete, remaining, serviceState, resources,
                       pendingSegments, activeSynthesis, audioUnits>>
        /\ refreshPlaybackState
    BY <1>1 DEF selectPlaybackRatePercent, runVars, textVars, unitVars
  <2>2. RatesKept'
    BY <1>1 DEF selectPlaybackRatePercent, selectNarrationPlaybackRate, Listening, RatesKept,
       TypeOK, RateTypes
  <2>3. Ended' /\ AllProduced' = AllProduced
    BY <2>1 DEF Listening, Ended, AllProduced
  <2>4. playbackState = "complete" /\ serviceState # "failed" =>
            AllProduced' /\ audioUnits' = <<>>
    BY <2>1, <2>3 DEF Listening, Told
  <2> QED BY <1>0, <2>1, <2>2, <2>3, <2>4, ListeningRefreshed
<1>2. CASE pausePlayback \/ resumePlayback \/ playAvailableAudio
  <2>1. UNCHANGED <<identity, mode, rangeComplete, remaining, serviceState, resources,
                    pendingSegments, activeSynthesis, audioUnits, playbackRate>>
    BY <1>2 DEF pausePlayback, resumePlayback, playAvailableAudio, runVars, textVars, unitVars,
       rateVars
  <2>2. RatesKept' /\ Ended' /\ AllProduced' = AllProduced
    BY <2>1 DEF Listening, RatesKept, Ended, AllProduced
  <2>3. CASE pausePlayback
    BY <2>1, <2>2, <2>3 DEF pausePlayback, Listening, Settled, Told, Waits
  <2>4. CASE resumePlayback
    <3>1. /\ playbackState = "paused" /\ initialPlaybackStarted' = initialPlaybackStarted
          /\ playbackState' = IF playableSampleFrames > 0 THEN "playing"
                              ELSE IF AllProduced THEN "complete"
                              ELSE IF serviceState = "failed" THEN "failed" ELSE "buffering"
      BY <2>4 DEF resumePlayback
    <3>2. Settled'
      BY <2>1, <3>1 DEF Listening, Settled
    <3>3. Waits' => ~Enough'
      <4>1. Waits' => audioUnits' = <<>>
        BY <1>0, <2>1, <3>1 DEF Waits
      <4>2. audioUnits' = <<>> => playableSampleFrames' = 0
        BY PlayableThen DEF PlayableKnown
      <4> QED BY <4>1, <4>2 DEF Enough
    <3>4. Told'
      BY <1>0, <2>1, <2>2, <3>1, <3>3 DEF Told, Waits, Serving
    <3> QED BY <2>2, <3>2, <3>4 DEF Listening
  <2>5. CASE playAvailableAudio
    <3>1. /\ playbackState \in {"preparing", "buffering"} /\ playableSampleFrames > 0
          /\ playbackState' = "playing" /\ initialPlaybackStarted' = TRUE
      BY <2>5 DEF playAvailableAudio, canPlayAvailableAudio
    <3> QED BY <1>0, <2>1, <2>2, <3>1 DEF Listening, Settled, Told, Waits
  <2> QED BY <1>2, <2>3, <2>4, <2>5
<1> QED BY <1>1, <1>2 DEF Listener

\* A run that is over is silent, and the next one waits.
LEMMA TeardownListening ==
    ASSUME TypeOK, OneOperation, UnitsKept, TypeOK', UnitsKept', Fresh, Listening, Teardown
    PROVE  Listening'
<1>0. identity = NoIdentity => serviceState \in {"cancelling", "stopping", "stopped"}
  BY DEF Listening, Settled
<1>1. CASE invalidate
  <2>1. /\ identity' = NoIdentity /\ mode' = mode /\ playbackState' = "stopped"
        /\ rangeComplete' = FALSE /\ UNCHANGED playbackRate
        /\ serviceState' \in {"stopping", "cancelling"}
    BY <1>1 DEF invalidate
  <2> QED BY <2>1 DEF Listening, RatesKept, Settled, Ended, Told, Waits, Serving
<1>2. CASE releaseDiscardedAudioUnits
  <2>1. resources'.activeNarrationPreparations = resources.activeNarrationPreparations
    <3>1. discardedAudioUnits[1] \in Unit
      BY <1>2 DEF releaseDiscardedAudioUnits, TypeOK, UnitTypes
    <3> QED BY <1>2, <3>1, WithoutUnitIs DEF releaseDiscardedAudioUnits, Counters
  <2> QED BY <1>0, <1>2, <2>1, ListeningStill DEF releaseDiscardedAudioUnits, runVars, textVars,
             rateVars, listeningVars
<1>3. CASE settleServiceStop
  BY <1>3, ListeningStill DEF settleServiceStop, ServiceStep, runVars, textVars, unitVars,
     rateVars, listeningVars
<1>4. ASSUME NEW id \in inflight, discardStaleUnit(id) PROVE Listening'
  BY <1>0, <1>4, ListeningStill DEF discardStaleUnit, schedulerVars
<1>5. ASSUME NEW newMode \in Modes, NEW rate \in Rates, NewRun(newMode, rate) PROVE Listening'
  <2>1. /\ identity' # NoIdentity /\ mode' \in Modes /\ playbackState' = "preparing"
        /\ rangeComplete' = FALSE /\ audioUnits' = <<>>
        /\ playbackRate' = initialPlaybackRate(rate)
    BY <1>5 DEF NewRun, NoIdentity, TypeOK, RunTypes
  <2>2. RatesKept'
    BY <2>1, InputsAssumption DEF RatesKept, initialPlaybackRate, selectNarrationPlaybackRate
  <2>3. ~Enough'
    BY <2>1, PlayableThen DEF PlayableKnown, Enough
  <2>4. Settled' /\ Ended' /\ Told'
    BY <2>1, <2>3 DEF Settled, Ended, Told, AllProduced
  <2> QED BY <2>2, <2>4 DEF Listening
<1> QED BY <1>1, <1>2, <1>3, <1>4, <1>5 DEF Teardown

\* Every step keeps what the listener is told true.
LEMMA ListeningStep == IInv /\ Accounts /\ Listening /\ [Next]_vars => Listening'
<1> SUFFICES ASSUME IInv, Accounts, Listening, [Next]_vars PROVE Listening'
  OBVIOUS
<1>1. TypeOK /\ OneOperation /\ UnitsKept /\ TypeOK' /\ UnitsKept' /\ Fresh
  BY IInvStep, AccountsStep DEF IInv, Accounts
<1>2. CASE UNCHANGED vars
  BY <1>1, <1>2, ListeningStill DEF vars, schedulerVars, Listening, Settled
<1> QED BY <1>1, <1>2, DispatchListening, AnswerListening, RenderListening, ListenerListening,
           TeardownListening DEF Next

-----------------------------------------------------------------------------
(* Why the listener waits *)

\* The duration is a number, zero when nothing is left to hear.
LEMMA DurationTyped ==
    ASSUME TypeOK, UnitsKept, RatesKept
    PROVE  /\ effectiveListeningDuration \in Int
           /\ playableSampleFrames = 0 => effectiveListeningDuration = 0
<1> DEFINE active == IF playbackRate.active = NoRate THEN playbackRate.selected
                                                     ELSE playbackRate.active
           selected == playbackRate.selected
           waiting == playableSampleFrames - ActiveFrames
           heardNow == ActiveFrames * selected + waiting * active
<1>1. active \in Nat \ {0} /\ selected \in Nat \ {0} /\ DefaultRate \in Nat
  BY InputsAssumption DEF RatesKept, NoRate
<1>2. ActiveFrames \in Int /\ playableSampleFrames \in Int
  <2>1. ActiveFrames \in Int
    <3>1. audioUnits # <<>> => audioUnits[1] \in Unit
      BY DEF TypeOK, UnitTypes
    <3>2. audioUnits # <<>> => Remaining(audioUnits[1]) \in Int
      BY <3>1 DEF Remaining, Unit
    <3> QED BY <3>2 DEF ActiveFrames
  <2> QED BY <2>1, Playable DEF PlayableKnown
<1>3. effectiveListeningDuration = (DefaultRate * heardNow) \div (active * selected)
  BY DEF effectiveListeningDuration
<1>4. active * selected \in Nat \ {0}
  <2> HIDE DEF active, selected
  <2> QED BY <1>1
<1>5. heardNow \in Int
  <2> HIDE DEF active, selected
  <2> QED BY <1>1, <1>2
<1>6. DefaultRate * heardNow \in Int
  <2> HIDE DEF heardNow
  <2> QED BY <1>1, <1>5
<1>7. effectiveListeningDuration \in Int
  <2> DEFINE over == active * selected
             frames == DefaultRate * heardNow
  <2> HIDE DEF over, frames
  <2> QED BY <1>3, <1>4, <1>6 DEF over, frames
<1>8. ASSUME playableSampleFrames = 0 PROVE effectiveListeningDuration = 0
  <2>1. ActiveFrames = 0
    BY <1>8, Playable DEF PlayableKnown, ActiveFrames
  <2>2. heardNow = 0
    <3>1. waiting = 0
      BY <1>8, <2>1
    <3> HIDE DEF active, selected, waiting
    <3> QED BY <1>1, <2>1, <3>1
  <2>3. DefaultRate * heardNow = 0
    <3> HIDE DEF heardNow
    <3> QED BY <1>1, <2>2
  <2> DEFINE over == active * selected
             frames == DefaultRate * heardNow
  <2>4. over \in Nat \ {0} /\ frames = 0 /\ effectiveListeningDuration = frames \div over
    BY <1>3, <1>4, <2>3
  <2> HIDE DEF over, frames
  <2> QED BY <2>4
<1> QED BY <1>7, <1>8

\* With nothing buffered and nothing in progress: a unit can be reserved.
LEMMA EmptyReserves ==
    ASSUME IInv, Accounts, identity # NoIdentity, audioUnits = <<>>,
           activeSynthesis = NoSegment, resources.activeNarrationPreparations = 0
    PROVE  canReserveAdaptiveBufferServiceUnit(resources)
<1>1. discardedAudioUnits = <<>> /\ Active = 0 /\ TypeOK /\ WithinCeilings
  BY DEF Accounts, Fresh, Active, IInv
<1>2. /\ resources.audioSampleFrames = 0 /\ resources.completeAudioUnits = 0
      /\ resources.activeSyntheses = 0
  <2>1. Len(<<>>) = 0 /\ Total(Frames, <<>>) = 0 /\ 0 * Reservation = 0
    BY TotalEmpty, WeightTypes, LimitsAssumption
  <2> QED BY <1>1, <2>1 DEF Accounts, AudioOwned
<1>3. /\ resources.retainedPreparedSegments \in Nat /\ resources.retainedNarrationText \in Nat
      /\ resources.retainedPreparedBatches \in {0, 1}
  <2>1. pendingSegments \in Seq(Segment) /\ Len(pendingSegments) \in Nat
    BY <1>1 DEF TypeOK, TextTypes
  <2>2. \A i \in 1 .. Len(pendingSegments) : Texts[pendingSegments[i]] \in Nat
    <3>1. ASSUME NEW i \in 1 .. Len(pendingSegments) PROVE Texts[pendingSegments[i]] \in Nat
      <4>1. pendingSegments[i] \in Segment
        BY <2>1
      <4> QED BY <4>1 DEF Texts, Segment
    <3> QED BY <3>1
  <2>3. Total(Texts, pendingSegments) \in Nat
    BY <2>1, <2>2, TotalNat, WeightTypes
  <2>4. activeSynthesis.text = 0
    BY DEF NoSegment
  <2> QED BY <1>1, <2>1, <2>3, <2>4 DEF Accounts, TextOwned
<1> DEFINE r == Reserved(resources)
<1>4. /\ r.audioSampleFrames = 0 + Reservation /\ r.completeAudioUnits = 0 + 1
      /\ r.activeSyntheses = 0 + 1
      /\ r.retainedPreparedBatches = resources.retainedPreparedBatches
      /\ r.retainedPreparedSegments = resources.retainedPreparedSegments
      /\ r.retainedNarrationText = resources.retainedNarrationText
      /\ r.activeNarrationPreparations = 0
  BY <1>1, <1>2 DEF Reserved, TypeOK, ResourceTypes, Counters
<1>5. WithinLimits(r)
  <2> HIDE DEF r
  <2> QED BY <1>1, <1>4, LimitsAssumption DEF WithinCeilings, WithinLimits
<1>6. \A counter \in Counters : r[counter] \in Nat
  <2> HIDE DEF r
  <2> QED BY <1>3, <1>4, LimitsAssumption DEF Counters
<1> QED BY <1>5, <1>6
        DEF canReserveAdaptiveBufferServiceUnit, evaluateAdaptiveBufferResources

\* A wait has a reason: with room a unit can be made until the target is reached, and
\* the target is at least what the wait is for; without room what is there is offered.
LEMMA NobodyWaits == IInv /\ Accounts /\ Listening => NoSilentStall
<1> SUFFICES ASSUME IInv, Accounts, Listening, Serving, Waits, ~canPlayAvailableAudio,
                    nextAction \in {"backpressure", "complete", "failed"}
             PROVE  FALSE
  BY DEF NoSilentStall, Serving, Waits
<1>1. TypeOK /\ OneOperation /\ UnitsKept /\ RatesKept
  BY DEF IInv, Accounts, Listening
<1>2. ~AllProduced /\ ~Enough
  BY DEF Listening, Told
<1>3. CASE nextAction = "failed"
  BY <1>3, WantedStates DEF Serving
<1>4. CASE nextAction = "complete"
  BY <1>1, <1>2, <1>4, WantedStates DEF AllProduced, OneOperation, Waits
<1>5. CASE nextAction = "backpressure"
  <2>1. /\ activeSynthesis = NoSegment /\ resources.activeNarrationPreparations = 0
        /\ ~shouldProduce \/ ~canReserveAdaptiveBufferServiceUnit(resources)
    BY <1>1, <1>5, WantedStates DEF OneOperation
  <2>2. playableSampleFrames \in Nat /\ (playableSampleFrames = 0 <=> audioUnits = <<>>)
    BY <1>1, Playable DEF PlayableKnown
  <2>3. CASE ~canReserveAdaptiveBufferServiceUnit(resources)
    <3>1. audioUnits # <<>>
      BY <2>1, <2>3, EmptyReserves DEF Serving
    <3> QED BY <1>5, <2>2, <2>3, <3>1 DEF canPlayAvailableAudio, Waits
  <2>4. CASE ~shouldProduce
    <3>1. /\ effectiveListeningDuration \in Int
          /\ playableSampleFrames = 0 => effectiveListeningDuration = 0
      BY <1>1, DurationTyped
    <3>2. /\ targetBuffer \in Nat \ {0} /\ startThreshold \in Nat
          /\ startThreshold <= targetBuffer
      <4>1. mode \in Modes
        BY DEF Listening, Settled
      <4> QED BY <4>1, TargetsAssumption DEF Modes, Quick, targetBuffer, initialTarget,
                 continuingTarget, startThreshold
    <3>3. effectiveListeningDuration >= targetBuffer
      BY <2>4, <3>1, <3>2 DEF shouldProduce
    <3> QED BY <1>2, <2>2, <3>1, <3>2, <3>3 DEF Enough
  <2> QED BY <2>1, <2>3, <2>4
<1> QED BY <1>3, <1>4, <1>5

\* The end is the end: nothing is buffered, pending, or left in the publication.
LEMMA NobodyIsMisled == IInv /\ Listening => TruthfulPlaybackState
<1> SUFFICES ASSUME IInv, Listening PROVE TruthfulPlaybackState
  OBVIOUS
<1>1. playbackState = "playing" => audioUnits # <<>>
  BY DEF Listening, Told
<1>2. ASSUME playbackState = "complete", serviceState # "failed"
      PROVE  heard = lastAcceptedSequence /\ remaining = 0
  <2>1. AllProduced /\ audioUnits = <<>> /\ remaining = 0 /\ Serving
    BY <1>2 DEF Listening, Told, Ended, AllProduced, Settled, Serving
  <2>2. Waiting /\ Active = 0 /\ heard \in Nat
    BY <2>1, ConveyorParts DEF IInv, Serving, AllProduced, Active, TypeOK, UnitTypes
  <2>3. Len(audioUnits) = 0 /\ Len(pendingSegments) = 0
    BY <2>1 DEF AllProduced
  <2> QED BY <2>1, <2>2, <2>3 DEF Waiting
<1> QED BY <1>1, <1>2 DEF TruthfulPlaybackState

\* The listener never waits for nothing, and is told neither that playback goes on
\* without audio nor that the narration is complete before its end.
THEOREM ListenerServed == Spec => []ListenerIsServed
<1>1. Init => IInv /\ Accounts /\ Listening
  BY InitIInv, InitAccounts, InitListening
<1>2. IInv /\ Accounts /\ Listening /\ [Next]_vars => (IInv /\ Accounts /\ Listening)'
  BY IInvStep, AccountsStep, ListeningStep
<1>3. IInv /\ Accounts /\ Listening => ListenerIsServed
  BY NobodyWaits, NobodyIsMisled DEF ListenerIsServed
<1> QED BY <1>1, <1>2, <1>3, PTL DEF Spec
=============================================================================
