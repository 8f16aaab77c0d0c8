----------------------------- MODULE SumProofs -----------------------------
(***************************************************************************)
(* Facts about sums over finite sets (SumFunctionOnSet of the community    *)
(* modules), which folds a function over a set in an order that CHOOSE     *)
(* picks, and about the sums that are taken over breakpoints.  The         *)
(* library's induction theorems cannot be instantiated here; a proof by    *)
(* induction on the size of a set takes a least counterexample.            *)
(***************************************************************************)
EXTENDS Integers, FiniteSets, Functions, Breakpoints, FiniteSetTheorems,
        WellFoundedInduction, TLAPS

\* A nonempty set of naturals has a least element.
LEMMA LeastNumber ==
  ASSUME NEW T, T \subseteq Nat, T # {}
  PROVE  \E x \in T : \A y \in T : x <= y
<1> DEFINE Less == {ss \in Nat \X Nat : ss[1] < ss[2]}
<1>1. OpToRel(<, Nat) = Less
  BY Zenon DEF OpToRel
<1>2. IsWellFoundedOn(Less, Nat)
  BY <1>1, NatLessThanWellFounded, Zenon
<1> HIDE DEF Less
<1>3. PICK x \in T : \A y \in T : <<y, x>> \notin Less
  BY <1>2, WFMin, Zenon
<1>4. ASSUME NEW y \in T
      PROVE  x <= y
  <2>1. x \in Nat /\ y \in Nat /\ <<y, x>> \notin Less
    BY <1>3
  <2>2. ~(y < x)
    BY <2>1 DEF Less
  <2> QED
    BY <2>1, <2>2
<1> QED
  BY <1>4

-----------------------------------------------------------------------------
(* The fold is the function its recursion describes.                       *)

Pick(s) == CHOOSE x \in s : TRUE

\* One step of the recursion, applied to F.
Step(f, F, s) == IF s = {} THEN 0 ELSE f[Pick(s)] + F[s \ {Pick(s)}]

\* F follows the recursion on the subsets of S with at most n elements.
Small(S, n) == {s \in SUBSET S : Cardinality(s) <= n}
Follows(f, F, S, n) == F = [s \in Small(S, n) |-> Step(f, F, s)]

\* Taking an element out of a finite set makes it smaller by one.
LEMMA Smaller ==
  ASSUME NEW s, IsFiniteSet(s), NEW x \in s
  PROVE  /\ IsFiniteSet(s \ {x}) /\ Cardinality(s) \in Nat \ {0}
         /\ Cardinality(s \ {x}) = Cardinality(s) - 1
<1>1. IsFiniteSet(s \ {x}) /\ Cardinality(s \ {x}) = Cardinality(s) - 1
  BY FS_RemoveElement
<1>2. Cardinality(s) \in Nat /\ Cardinality(s) # 0
  BY FS_CardinalityType, FS_EmptySet
<1> QED
  BY <1>1, <1>2

\* A function that follows the recursion so far can be taken one size further.
LEMMA FollowsExtends ==
  ASSUME NEW f, NEW F, NEW S, IsFiniteSet(S), NEW n \in Nat, Follows(f, F, S, n)
  PROVE  \E G : Follows(f, G, S, n + 1)
<1> DEFINE G == [s \in Small(S, n + 1) |-> Step(f, F, s)]
<1>1. ASSUME NEW s \in Small(S, n + 1), s # {}
      PROVE  s \ {Pick(s)} \in Small(S, n) /\ s \ {Pick(s)} \in Small(S, n + 1)
  <2>1. Pick(s) \in s /\ s \in SUBSET S /\ IsFiniteSet(s) /\ Cardinality(s) <= n + 1
    BY <1>1, FS_Subset DEF Small, Pick
  <2>2. Cardinality(s) \in Nat /\ Cardinality(s \ {Pick(s)}) = Cardinality(s) - 1
    BY <2>1, Smaller
  <2> QED
    BY <2>1, <2>2 DEF Small
<1>2. ASSUME NEW s \in Small(S, n)
      PROVE  G[s] = F[s]
  <2>1. s \in Small(S, n + 1)
    <3>1. s \in SUBSET S /\ IsFiniteSet(s) /\ Cardinality(s) <= n
      BY FS_Subset DEF Small
    <3>2. Cardinality(s) \in Nat
      BY <3>1, FS_CardinalityType
    <3> QED
      BY <3>1, <3>2 DEF Small
  <2> QED
    BY <2>1 DEF Follows
<1>3. ASSUME NEW s \in Small(S, n + 1)
      PROVE  Step(f, F, s) = Step(f, G, s)
  BY <1>1, <1>2, Zenon DEF Step
<1>4. G = [s \in Small(S, n + 1) |-> Step(f, G, s)]
  BY <1>3, Zenon
<1> HIDE DEF G
<1> QED
  BY <1>4, Zenon DEF Follows

\* There is such a function for every size.
LEMMA FollowsExists ==
  ASSUME NEW f, NEW S, IsFiniteSet(S), NEW n \in Nat
  PROVE  \E F : Follows(f, F, S, n)
<1> DEFINE Bad == {k \in Nat : ~\E F : Follows(f, F, S, k)}
<1> SUFFICES ASSUME Bad # {} PROVE FALSE
  BY Zenon
<1>1. PICK k \in Bad : \A j \in Bad : k <= j
  BY LeastNumber
<1>2. k # 0
  <2> SUFFICES ASSUME k = 0 PROVE FALSE
    BY Zenon
  <2> DEFINE Z == [s \in Small(S, 0) |-> 0]
  <2>1. ASSUME NEW s \in Small(S, 0)
        PROVE  s = {}
    <3>1. IsFiniteSet(s) /\ Cardinality(s) <= 0
      BY FS_Subset DEF Small
    <3> QED
      BY <3>1, FS_CardinalityType, FS_EmptySet
  <2>2. Z = [s \in Small(S, 0) |-> Step(f, Z, s)]
    BY <2>1, Zenon DEF Step
  <2> HIDE DEF Z
  <2> QED
    BY <2>2, Zenon DEF Follows
<1>3. k - 1 \in Nat /\ k - 1 \notin Bad /\ k = (k - 1) + 1
  BY <1>1, <1>2
<1>4. PICK F : Follows(f, F, S, k - 1)
  BY <1>3
<1>5. \E G : Follows(f, G, S, (k - 1) + 1)
  BY <1>3, <1>4, FollowsExtends
<1> QED
  BY <1>1, <1>3, <1>5

\* The function that SumFunctionOnSet computes with.
Partial(f, S) == CHOOSE F : F = [s \in SUBSET S |-> Step(f, F, s)]

\* The partial sums follow the recursion, and the whole is the sum.
LEMMA PartialFollows ==
  ASSUME NEW f, NEW S, IsFiniteSet(S)
  PROVE  /\ \A s \in SUBSET S : Partial(f, S)[s] = Step(f, Partial(f, S), s)
         /\ SumFunctionOnSet(f, S) = Partial(f, S)[S]
<1>1. Cardinality(S) \in Nat
  BY FS_CardinalityType
<1>2. Small(S, Cardinality(S)) = SUBSET S
  BY FS_Subset DEF Small
<1>3. \E F : F = [s \in SUBSET S |-> Step(f, F, s)]
  <2>1. PICK F : Follows(f, F, S, Cardinality(S))
    BY <1>1, FollowsExists
  <2> QED
    BY <2>1, <1>2, Zenon DEF Follows
<1>4. Partial(f, S) = [s \in SUBSET S |-> Step(f, Partial(f, S), s)]
  BY <1>3, Zenon DEF Partial
<1>5. SumFunctionOnSet(f, S) = Partial(f, S)[S]
  BY Zenon DEF SumFunctionOnSet, FoldFunctionOnSet, MapThenFoldSet, Partial, Step, Pick
<1>6. \A s \in SUBSET S : Partial(f, S)[s] = Step(f, Partial(f, S), s)
  BY <1>4, Zenon
<1> QED
  BY <1>5, <1>6

\* It does not depend on the set whose subsets it is defined on.
LEMMA PartialAgrees ==
  ASSUME NEW f, NEW S, IsFiniteSet(S), NEW T \in SUBSET S, NEW w \in SUBSET T
  PROVE  Partial(f, S)[w] = Partial(f, T)[w]
<1> DEFINE A == Partial(f, S)
           B == Partial(f, T)
           Bad == {k \in Nat : \E u \in SUBSET T : Cardinality(u) = k /\ A[u] # B[u]}
<1>1. IsFiniteSet(T)
  BY FS_Subset
<1>2. \A s \in SUBSET S : Partial(f, S)[s] = Step(f, Partial(f, S), s)
  BY PartialFollows
<1>3. \A s \in SUBSET T : Partial(f, T)[s] = Step(f, Partial(f, T), s)
  BY <1>1, PartialFollows
<1>4. \A u \in SUBSET T : A[u] = Step(f, A, u) /\ B[u] = Step(f, B, u)
  BY <1>2, <1>3, Zenon
<1> HIDE DEF A, B
<1>5. Bad = {}
  <2> SUFFICES ASSUME Bad # {} PROVE FALSE
    BY Zenon
  <2>1. PICK k \in Bad : \A j \in Bad : k <= j
    BY LeastNumber
  <2>2. PICK u \in SUBSET T : Cardinality(u) = k /\ A[u] # B[u]
    BY <2>1
  <2>3. IsFiniteSet(u)
    BY <1>1, FS_Subset
  <2>4. A[u] = Step(f, A, u) /\ B[u] = Step(f, B, u)
    BY <1>4
  <2>5. u # {}
    BY <2>2, <2>4 DEF Step
  <2> DEFINE v == u \ {Pick(u)}
  <2>6. Pick(u) \in u
    BY <2>5 DEF Pick
  <2>7. Cardinality(v) = k - 1 /\ k \in Nat \ {0} /\ v \in SUBSET T
    BY <2>2, <2>3, <2>6, Smaller
  <2>8. A[v] = B[v]
    BY <2>1, <2>7
  <2> QED
    BY <2>2, <2>4, <2>5, <2>8 DEF Step
<1>6. Cardinality(w) \in Nat
  BY <1>1, FS_Subset, FS_CardinalityType
<1> QED
  BY <1>5, <1>6 DEF A, B

-----------------------------------------------------------------------------
(* Sums.                                                                   *)

\* The sum over no elements.
LEMMA SumEmpty == \A f : SumFunctionOnSet(f, {}) = 0
<1> SUFFICES ASSUME NEW f PROVE SumFunctionOnSet(f, {}) = 0
  OBVIOUS
<1>1. IsFiniteSet({})
  BY FS_EmptySet
<1>2. /\ \A s \in SUBSET {} : Partial(f, {})[s] = Step(f, Partial(f, {}), s)
      /\ SumFunctionOnSet(f, {}) = Partial(f, {})[{}]
  BY <1>1, PartialFollows
<1>3. Partial(f, {})[{}] = Step(f, Partial(f, {}), {})
  BY <1>2, Zenon
<1> QED
  BY <1>2, <1>3 DEF Step

\* The element the fold takes first.
LEMMA SumFirst ==
  ASSUME NEW f, NEW S, IsFiniteSet(S), S # {}
  PROVE  /\ Pick(S) \in S
         /\ SumFunctionOnSet(f, S) = f[Pick(S)] + SumFunctionOnSet(f, S \ {Pick(S)})
<1> DEFINE T == S \ {Pick(S)}
<1>1. Pick(S) \in S
  BY Zenon DEF Pick
<1>2. IsFiniteSet(T) /\ T \in SUBSET S
  BY FS_Subset
<1>3. /\ \A s \in SUBSET S : Partial(f, S)[s] = Step(f, Partial(f, S), s)
      /\ SumFunctionOnSet(f, S) = Partial(f, S)[S]
  BY PartialFollows
<1>4. SumFunctionOnSet(f, T) = Partial(f, T)[T]
  BY <1>2, PartialFollows
<1>5. Partial(f, S)[T] = Partial(f, T)[T]
  BY <1>2, PartialAgrees
<1>6. Step(f, Partial(f, S), S) = f[Pick(S)] + Partial(f, S)[T]
  BY DEF Step
<1>7. Partial(f, S)[S] = Step(f, Partial(f, S), S)
  BY <1>3
<1> QED
  BY <1>1, <1>3, <1>4, <1>5, <1>6, <1>7

\* The sum of integers is an integer, whichever element is taken out first.
LEMMA SumTakesOut ==
  ASSUME NEW f, NEW S, IsFiniteSet(S), \A y \in S : f[y] \in Int
  PROVE  /\ SumFunctionOnSet(f, S) \in Int
         /\ \A x \in S : SumFunctionOnSet(f, S) = f[x] + SumFunctionOnSet(f, S \ {x})
<1> DEFINE Sum(T) == SumFunctionOnSet(f, T)
           Fine(T) == Sum(T) \in Int /\ \A x \in T : Sum(T) = f[x] + Sum(T \ {x})
           Bad == {k \in Nat : \E T \in SUBSET S : Cardinality(T) = k /\ ~Fine(T)}
<1>1. Bad = {}
  <2> SUFFICES ASSUME Bad # {} PROVE FALSE
    BY Zenon
  <2>1. PICK k \in Bad : \A j \in Bad : k <= j
    BY LeastNumber
  <2>2. PICK T \in SUBSET S : Cardinality(T) = k /\ ~Fine(T)
    BY <2>1
  <2>3. IsFiniteSet(T)
    BY FS_Subset
  <2>4. T # {}
    <3>1. Fine({})
      BY SumEmpty
    <3> QED
      BY <2>2, <3>1
  <2>5. ASSUME NEW U \in SUBSET T, NEW z \in T, U = T \ {z}
        PROVE  Fine(U)
    <3>1. IsFiniteSet(U) /\ Cardinality(U) = k - 1 /\ k \in Nat \ {0}
      BY <2>2, <2>3, <2>5, Smaller
    <3>2. Cardinality(U) \notin Bad
      BY <2>1, <3>1
    <3>3. Cardinality(U) \in Nat /\ U \in SUBSET S
      BY <3>1
    <3> HIDE DEF Fine
    <3> QED
      BY <3>2, <3>3
  <2> DEFINE c == Pick(T)
  <2>6. c \in T /\ Sum(T) = f[c] + Sum(T \ {c})
    BY <2>3, <2>4, SumFirst
  <2> HIDE DEF c, Sum
  <2>7. Fine(T \ {c}) /\ f[c] \in Int
    BY <2>5, <2>6
  <2>8. Sum(T) \in Int
    BY <2>6, <2>7
  <2>9. ASSUME NEW x \in T
        PROVE  Sum(T) = f[x] + Sum(T \ {x})
    <3>1. CASE x = c
      BY <2>6, <3>1
    <3>2. CASE x # c
      <4>1. Fine(T \ {x}) /\ f[x] \in Int
        BY <2>5
      <4>2. Sum(T \ {c}) = f[x] + Sum((T \ {c}) \ {x})
        BY <2>7, <3>2
      <4>3. Sum(T \ {x}) = f[c] + Sum((T \ {x}) \ {c})
        BY <2>6, <4>1, <3>2
      <4>4. Sum((T \ {c}) \ {x}) = Sum((T \ {x}) \ {c})
        <5>1. (T \ {c}) \ {x} = (T \ {x}) \ {c}
          OBVIOUS
        <5> QED
          BY <5>1, Zenon
      <4>5. /\ (T \ {x}) \in SUBSET S
            /\ Sum((T \ {x}) \ {c}) \in Int
        <5>1. c \in T \ {x} /\ IsFiniteSet(T \ {x})
          BY <2>3, <2>6, <3>2, FS_Subset
        <5>2. Cardinality((T \ {x}) \ {c}) = k - 2 /\ k - 2 \in Nat
          <6>1. Cardinality(T \ {x}) = k - 1 /\ k \in Nat \ {0}
            BY <2>2, <2>3, Smaller
          <6>2. /\ Cardinality(T \ {x}) \in Nat \ {0}
                /\ Cardinality((T \ {x}) \ {c}) = Cardinality(T \ {x}) - 1
            BY <5>1, Smaller
          <6> QED
            BY <6>1, <6>2
        <5>3. (T \ {x}) \ {c} \in SUBSET S /\ k - 2 \notin Bad
          BY <2>1, <5>2
        <5>4. Fine((T \ {x}) \ {c})
          <6> HIDE DEF Fine
          <6> QED
            BY <5>2, <5>3
        <5> QED
          BY <5>4
      <4> DEFINE all == Sum(T)
                 noc == Sum(T \ {c})
                 nox == Sum(T \ {x})
                 none == Sum((T \ {x}) \ {c})
                 fc == f[c]
                 fx == f[x]
      <4>6. /\ fc \in Int /\ fx \in Int /\ none \in Int
            /\ all = fc + noc /\ noc = fx + none /\ nox = fc + none
        BY <2>6, <2>7, <4>1, <4>2, <4>3, <4>4, <4>5
      <4> HIDE DEF all, noc, nox, none, fc, fx
      <4>7. all = fx + nox
        BY <4>6
      <4> QED
        BY <4>7 DEF all, fx, nox
    <3> QED
      BY <3>1, <3>2
  <2> QED
    BY <2>2, <2>8, <2>9
<1>2. Cardinality(S) \in Nat
  BY FS_CardinalityType
<1>3. Fine(S)
  <2> HIDE DEF Fine
  <2> QED
    BY <1>1, <1>2
<1> QED
  BY <1>3

\* Induction on the subsets of a finite set, for a property given as a set.
LEMMA SubsetInduction ==
  ASSUME NEW S, IsFiniteSet(S), NEW P, {} \in P,
         \A T \in SUBSET S : \A x \in S \ T : T \in P => T \cup {x} \in P
  PROVE  S \in P
<1> DEFINE Bad == {k \in Nat : \E T \in SUBSET S : Cardinality(T) = k /\ T \notin P}
<1>1. Bad = {}
  <2> SUFFICES ASSUME Bad # {} PROVE FALSE
    BY Zenon
  <2>1. PICK k \in Bad : \A j \in Bad : k <= j
    BY LeastNumber
  <2>2. PICK T \in SUBSET S : Cardinality(T) = k /\ T \notin P
    BY <2>1
  <2>3. PICK x \in T : TRUE
    BY <2>2
  <2>4. Cardinality(T \ {x}) = k - 1 /\ k \in Nat \ {0}
    BY <2>2, FS_Subset, Smaller
  <2>5. T \ {x} \in P /\ T \ {x} \in SUBSET S
    BY <2>1, <2>4
  <2>6. (T \ {x}) \cup {x} \in P
    BY <2>5
  <2>7. (T \ {x}) \cup {x} = T
    OBVIOUS
  <2> QED
    BY <2>2, <2>6, <2>7
<1>2. Cardinality(S) \in Nat
  BY FS_CardinalityType
<1> QED
  BY <1>1, <1>2

\* An element more.
LEMMA SumInsert ==
  ASSUME NEW f, NEW S, IsFiniteSet(S), NEW x, x \notin S, \A y \in S \cup {x} : f[y] \in Int
  PROVE  SumFunctionOnSet(f, S \cup {x}) = f[x] + SumFunctionOnSet(f, S)
<1>1. IsFiniteSet(S \cup {x})
  BY FS_AddElement
<1>2. (S \cup {x}) \ {x} = S
  OBVIOUS
<1>3. SumFunctionOnSet(f, S \cup {x}) = f[x] + SumFunctionOnSet(f, (S \cup {x}) \ {x})
  BY <1>1, SumTakesOut
<1> QED
  BY <1>2, <1>3, Zenon

\* Sums are linear.
LEMMA SumLinear ==
  ASSUME NEW f, NEW g, NEW h, NEW c \in Int, NEW S, IsFiniteSet(S),
         \A y \in S : f[y] \in Int /\ g[y] \in Int /\ h[y] = f[y] + c * g[y]
  PROVE  SumFunctionOnSet(h, S) = SumFunctionOnSet(f, S) + c * SumFunctionOnSet(g, S)
<1> DEFINE P == {T \in SUBSET S : SumFunctionOnSet(h, T)
                                    = SumFunctionOnSet(f, T) + c * SumFunctionOnSet(g, T)}
<1>1. {} \in P
  BY SumEmpty
<1>2. ASSUME NEW T \in SUBSET S, NEW x \in S \ T, T \in P
      PROVE  T \cup {x} \in P
  <2> DEFINE sf == SumFunctionOnSet(f, T)
             sg == SumFunctionOnSet(g, T)
             sh == SumFunctionOnSet(h, T)
             fx == f[x]
             gx == g[x]
             hx == h[x]
  <2>1. IsFiniteSet(T)
    BY FS_Subset
  <2>2. /\ SumFunctionOnSet(f, T \cup {x}) = fx + sf
        /\ SumFunctionOnSet(g, T \cup {x}) = gx + sg
        /\ SumFunctionOnSet(h, T \cup {x}) = hx + sh
    BY <2>1, SumInsert
  <2>3. sf \in Int /\ sg \in Int
    BY <2>1, SumTakesOut
  <2>4. fx \in Int /\ gx \in Int /\ hx = fx + c * gx /\ sh = sf + c * sg
    BY <1>2
  <2> HIDE DEF sf, sg, sh, fx, gx, hx
  <2>5. hx + sh = (fx + sf) + c * (gx + sg)
    BY <2>3, <2>4
  <2> QED
    BY <2>2, <2>5
<1> HIDE DEF P
<1>3. S \in P
  BY <1>1, <1>2, SubsetInduction
<1> QED
  BY <1>3 DEF P

\* A larger function has a larger sum.
LEMMA SumMonotone ==
  ASSUME NEW f, NEW g, NEW S, IsFiniteSet(S),
         \A y \in S : f[y] \in Int /\ g[y] \in Int /\ f[y] <= g[y]
  PROVE  SumFunctionOnSet(f, S) <= SumFunctionOnSet(g, S)
<1> DEFINE P == {T \in SUBSET S : SumFunctionOnSet(f, T) <= SumFunctionOnSet(g, T)}
<1>1. {} \in P
  BY SumEmpty
<1>2. ASSUME NEW T \in SUBSET S, NEW x \in S \ T, T \in P
      PROVE  T \cup {x} \in P
  <2> DEFINE sf == SumFunctionOnSet(f, T)
             sg == SumFunctionOnSet(g, T)
             fx == f[x]
             gx == g[x]
  <2>1. IsFiniteSet(T)
    BY FS_Subset
  <2>2. /\ SumFunctionOnSet(f, T \cup {x}) = fx + sf
        /\ SumFunctionOnSet(g, T \cup {x}) = gx + sg
    BY <2>1, SumInsert
  <2>3. sf \in Int /\ sg \in Int
    BY <2>1, SumTakesOut
  <2>4. fx \in Int /\ gx \in Int /\ fx <= gx /\ sf <= sg
    BY <1>2
  <2> HIDE DEF sf, sg, fx, gx
  <2>5. fx + sf <= gx + sg
    BY <2>3, <2>4
  <2> QED
    BY <2>2, <2>5
<1> HIDE DEF P
<1>3. S \in P
  BY <1>1, <1>2, SubsetInduction
<1> QED
  BY <1>3 DEF P

\* A sum over two disjoint sets.
LEMMA SumUnion ==
  ASSUME NEW f, NEW A, IsFiniteSet(A), NEW B, IsFiniteSet(B), A \cap B = {},
         \A y \in A \cup B : f[y] \in Int
  PROVE  SumFunctionOnSet(f, A \cup B) = SumFunctionOnSet(f, A) + SumFunctionOnSet(f, B)
<1> DEFINE P == {T \in SUBSET B : SumFunctionOnSet(f, A \cup T)
                                    = SumFunctionOnSet(f, A) + SumFunctionOnSet(f, T)}
<1>1. {} \in P
  <2>1. SumFunctionOnSet(f, A) \in Int /\ A \cup {} = A
    BY SumTakesOut
  <2> QED
    BY <2>1, SumEmpty
<1>2. ASSUME NEW T \in SUBSET B, NEW x \in B \ T, T \in P
      PROVE  T \cup {x} \in P
  <2> DEFINE sa == SumFunctionOnSet(f, A)
             st == SumFunctionOnSet(f, T)
             sat == SumFunctionOnSet(f, A \cup T)
             fx == f[x]
  <2>1. IsFiniteSet(T) /\ IsFiniteSet(A \cup T)
    BY FS_Subset, FS_Union
  <2>2. SumFunctionOnSet(f, T \cup {x}) = fx + st
    BY <2>1, SumInsert
  <2>3. SumFunctionOnSet(f, (A \cup T) \cup {x}) = fx + sat
    BY <2>1, SumInsert
  <2>4. sa \in Int /\ st \in Int
    BY <2>1, SumTakesOut
  <2>5. fx \in Int /\ sat = sa + st
    BY <1>2
  <2>6. A \cup (T \cup {x}) = (A \cup T) \cup {x}
    OBVIOUS
  <2> HIDE DEF sa, st, sat, fx
  <2>7. fx + sat = sa + (fx + st)
    BY <2>4, <2>5
  <2> QED
    BY <2>2, <2>3, <2>6, <2>7 DEF sa
<1> HIDE DEF P
<1>3. B \in P
  BY <1>1, <1>2, SubsetInduction
<1> QED
  BY <1>3 DEF P

\* A sum of zeros, and a sum of naturals.
LEMMA SumZero ==
  ASSUME NEW f, NEW S, IsFiniteSet(S), \A y \in S : f[y] = 0
  PROVE  SumFunctionOnSet(f, S) = 0
<1> DEFINE s == SumFunctionOnSet(f, S)
<1>1. s \in Int
  BY SumTakesOut
<1>2. s = s + 1 * s
  BY SumLinear
<1> HIDE DEF s
<1>3. s = 0
  BY <1>1, <1>2
<1> QED
  BY <1>3 DEF s

\* A sum of natural numbers is one.
LEMMA SumNatural ==
  ASSUME NEW f, NEW S, IsFiniteSet(S), \A y \in S : f[y] \in Nat
  PROVE  SumFunctionOnSet(f, S) \in Nat
<1> DEFINE zero == [y \in S |-> 0]
<1>1. SumFunctionOnSet(zero, S) = 0
  BY SumZero
<1>2. SumFunctionOnSet(f, S) \in Int
  BY SumTakesOut
<1>3. SumFunctionOnSet(zero, S) <= SumFunctionOnSet(f, S)
  BY SumMonotone
<1> QED
  BY <1>1, <1>2, <1>3

\* Two functions that agree on the set.
LEMMA SumSame ==
  ASSUME NEW f, NEW g, NEW S, IsFiniteSet(S), \A y \in S : f[y] \in Int /\ g[y] = f[y]
  PROVE  SumFunctionOnSet(g, S) = SumFunctionOnSet(f, S)
<1> DEFINE s == SumFunctionOnSet(f, S)
<1>1. s \in Int
  BY SumTakesOut
<1>2. SumFunctionOnSet(g, S) = s + 0 * s
  BY SumLinear
<1> HIDE DEF s
<1>3. s + 0 * s = s
  BY <1>1
<1> QED
  BY <1>2, <1>3 DEF s

\* One summand changes.
LEMMA SumChange ==
  ASSUME NEW f, NEW g, NEW S, IsFiniteSet(S), NEW x \in S,
         \A y \in S : f[y] \in Nat /\ g[y] \in Nat /\ (y # x => g[y] = f[y])
  PROVE  /\ SumFunctionOnSet(f, S) \in Nat /\ f[x] <= SumFunctionOnSet(f, S)
         /\ SumFunctionOnSet(g, S) = SumFunctionOnSet(f, S) - f[x] + g[x]
<1> DEFINE T == S \ {x}
           sf == SumFunctionOnSet(f, T)
           sg == SumFunctionOnSet(g, T)
           fx == f[x]
           gx == g[x]
<1>1. IsFiniteSet(T)
  BY FS_Subset
<1>2. SumFunctionOnSet(f, S) = fx + sf /\ SumFunctionOnSet(g, S) = gx + sg
  BY SumTakesOut
<1>3. sf \in Nat
  BY <1>1, SumNatural
<1>4. sg = sf
  BY <1>1, SumSame
<1>5. fx \in Nat /\ gx \in Nat
  OBVIOUS
<1> HIDE DEF sf, sg, fx, gx
<1>6. fx + sf \in Nat /\ fx <= fx + sf /\ gx + sg = (fx + sf) - fx + gx
  BY <1>3, <1>4, <1>5
<1> QED
  BY <1>2, <1>6 DEF fx, gx

-----------------------------------------------------------------------------
(* Numbers.                                                                *)

\* A product of natural numbers grows with its factors.
LEMMA TimesMonotone ==
  ASSUME NEW a \in Int, NEW b \in Int, NEW d \in Nat, a <= b
  PROVE  a * d <= b * d /\ d * a <= d * b
<1>1. (b - a) * d >= 0
  OBVIOUS
<1> QED
  BY <1>1

\* The quotient is the greatest number of times the divisor fits.
LEMMA Quotient ==
  ASSUME NEW a \in Nat, NEW d \in Nat \ {0}
  PROVE  /\ a \div d \in Nat /\ (a \div d) * d <= a
         /\ \A q \in Int : q * d <= a => q <= a \div d
<1> DEFINE n == a \div d
<1>1. n \in Int /\ n * d <= a /\ a < n * d + d
  OBVIOUS
<1> HIDE DEF n
<1>2. ASSUME NEW q \in Int, q * d <= a PROVE q <= n
  <2> SUFFICES ASSUME n + 1 <= q PROVE FALSE
    BY <1>1
  <2>1. (n + 1) * d <= q * d
    BY <1>1, TimesMonotone
  <2> QED
    BY <1>1, <1>2, <2>1
<1>3. 0 <= n
  BY <1>2
<1> QED
  BY <1>1, <1>2, <1>3 DEF n

\* Quotients grow with the dividend.
LEMMA QuotientMonotone ==
  ASSUME NEW a \in Nat, NEW b \in Nat, a <= b, NEW d \in Nat \ {0}
  PROVE  a \div d <= b \div d
<1>1. a \div d \in Nat /\ (a \div d) * d <= a
  BY Quotient
<1>2. (a \div d) * d <= b /\ (a \div d) * d \in Int
  BY <1>1
<1> QED
  BY <1>1, <1>2, Quotient

\* A multiple of a number divides by it.
LEMMA QuotientExact ==
  ASSUME NEW n \in Nat, NEW d \in Nat \ {0}
  PROVE  (d * n) \div d = n
<1> DEFINE a == d * n
           q == a \div d
<1>1. a \in Nat /\ n * d = a /\ n \in Int
  OBVIOUS
<1> HIDE DEF a
<1>2. q \in Nat /\ q * d <= a /\ n <= q
  <2>1. /\ a \div d \in Nat /\ (a \div d) * d <= a
        /\ \A k \in Int : k * d <= a => k <= a \div d
    BY <1>1, Quotient
  <2>2. n * d <= a
    BY <1>1
  <2> QED
    BY <1>1, <2>1, <2>2
<1> HIDE DEF q
<1>3. ASSUME n + 1 <= q PROVE (n + 1) * d <= q * d
  BY <1>2, <1>3, TimesMonotone
<1>4. (n + 1) * d = a + d
  BY <1>1
<1>5. q = n
  BY <1>1, <1>2, <1>3, <1>4
<1> QED
  BY <1>5 DEF q, a

\* The least member of a set of numbers.
LEMMA Least ==
  ASSUME NEW T, T \subseteq Nat, T # {}
  PROVE  Min(T) \in T /\ \A y \in T : Min(T) <= y
<1>1. \E x \in T : \A y \in T : x <= y
  BY LeastNumber
<1> QED
  BY <1>1, Zenon DEF Min

\* The greatest member of a bounded one.
LEMMA Greatest ==
  ASSUME NEW T, T \subseteq Nat, T # {}, NEW b \in Nat, \A y \in T : y <= b
  PROVE  Max(T) \in T /\ \A y \in T : y <= Max(T)
<1> DEFINE U == {b - y : y \in T}
<1>1. U \subseteq Nat /\ U # {}
  <2>1. ASSUME NEW y \in T PROVE b - y \in Nat
    <3>1. y \in Nat /\ y <= b
      OBVIOUS
    <3> QED
      BY <3>1
  <2>2. PICK y \in T : TRUE
    OBVIOUS
  <2>3. b - y \in U
    OBVIOUS
  <2> QED
    BY <2>1, <2>3
<1>2. PICK x \in U : \A y \in U : x <= y
  BY <1>1, LeastNumber
<1>3. PICK m \in T : x = b - m
  OBVIOUS
<1>4. \A y \in T : m >= y
  <2> SUFFICES ASSUME NEW y \in T PROVE m >= y
    OBVIOUS
  <2>1. b - y \in U /\ m \in Nat /\ y \in Nat
    OBVIOUS
  <2>2. b - m <= b - y
    BY <1>2, <1>3, <2>1
  <2> QED
    BY <2>1, <2>2
<1>5. Max(T) \in T /\ \A y \in T : Max(T) >= y
  BY <1>4, Zenon DEF Max
<1> QED
  BY <1>5

\* The later of two instants.
LEMMA Later ==
  ASSUME NEW a \in Nat, NEW b \in Nat
  PROVE  Max({a, b}) = IF a >= b THEN a ELSE b
<1>1. {a, b} \subseteq Nat /\ {a, b} # {} /\ \A y \in {a, b} : y <= a + b
  OBVIOUS
<1>2. a + b \in Nat
  OBVIOUS
<1>3. Max({a, b}) \in {a, b} /\ \A y \in {a, b} : y <= Max({a, b})
  BY <1>1, <1>2, Greatest
<1> QED
  BY <1>3

-----------------------------------------------------------------------------
(* Sums over breakpoints.                                                  *)

\* The two breakpoints of one tranche.
Paired(s, e) == \E id \in Nat : s.key = 2 * id /\ e.key = 2 * id + 1

IsPoint(p) == /\ p.at \in Nat /\ p.key \in Nat /\ p.rate \in Int /\ p.acc \in Nat
              /\ p.acc > 0 => p.rate < 0

\* How long p is in effect between c and t.
Span(p, c, t) == IF p.at >= t THEN 0 ELSE IF p.at >= c THEN t - p.at ELSE t - c
Flow(D, c, t) == SumFunction([p \in D |-> p.rate * Span(p, c, t)])

\* D holds the first breakpoint of a tranche, if still pending, with the second.
Closed(D, ps) == \A s \in ps : \A e \in D : Paired(s, e) => s \in D

\* Whichever breakpoints are applied, as long as no tranche stops before it
\* starts, what is streamed from now on between two instants is not negative.
Flows(ps, from, r) ==
    \A D \in SUBSET ps : Closed(D, ps) =>
        \A c, t \in Nat : from <= c /\ c <= t => r * (t - c) + Flow(D, c, t) >= 0

\* h is f on one part of its domain and g on the other.
Parts(h, f, g) ==
    /\ IsFiniteSet(DOMAIN f) /\ IsFiniteSet(DOMAIN g)
    /\ DOMAIN f \cap DOMAIN g = {} /\ DOMAIN h = DOMAIN f \cup DOMAIN g
    /\ \A y \in DOMAIN f : f[y] \in Int /\ h[y] = f[y]
    /\ \A y \in DOMAIN g : g[y] \in Int /\ h[y] = g[y]

\* The sum over two parts.
LEMMA PartsSum ==
  \A f, g, h : Parts(h, f, g) =>
      /\ SumFunction(f) \in Int /\ SumFunction(g) \in Int
      /\ SumFunction(h) = SumFunction(f) + SumFunction(g)
<1> SUFFICES ASSUME NEW f, NEW g, NEW h, Parts(h, f, g)
             PROVE  /\ SumFunction(f) \in Int /\ SumFunction(g) \in Int
                    /\ SumFunction(h) = SumFunction(f) + SumFunction(g)
  BY Zenon
<1> DEFINE A == DOMAIN f
           B == DOMAIN g
<1>0. /\ IsFiniteSet(A) /\ IsFiniteSet(B) /\ A \cap B = {} /\ DOMAIN h = A \cup B
      /\ \A y \in A : f[y] \in Int /\ h[y] = f[y]
      /\ \A y \in B : g[y] \in Int /\ h[y] = g[y]
  BY Zenon DEF Parts
<1>1. SumFunctionOnSet(f, A) \in Int /\ SumFunctionOnSet(g, B) \in Int
  BY <1>0, SumTakesOut
<1>2. SumFunctionOnSet(h, A) = SumFunctionOnSet(f, A)
  BY <1>0, SumSame
<1>3. SumFunctionOnSet(h, B) = SumFunctionOnSet(g, B)
  BY <1>0, SumSame
<1>4. \A y \in A \cup B : h[y] \in Int
  BY <1>0
<1>5. SumFunctionOnSet(h, A \cup B) = SumFunctionOnSet(h, A) + SumFunctionOnSet(h, B)
  BY <1>0, <1>4, SumUnion
<1> QED
  BY <1>0, <1>1, <1>2, <1>3, <1>5 DEF SumFunction

\* Finitely many breakpoints.
IsPoints(ps) == IsFiniteSet(ps) /\ \A p \in ps : IsPoint(p)
Apart(A, B) == IsPoints(A) /\ IsPoints(B) /\ A \cap B = {}

\* Rates add up.
RatesAdd(A, B) ==
    /\ RateOf(A) \in Int /\ RateOf(B) \in Int
    /\ RateOf(A \cup B) = RateOf(A) + RateOf(B)

\* The rate of two parts is the sum of their rates.
LEMMA RateParts ==
  ASSUME NEW A, NEW B, Apart(A, B)
  PROVE  RatesAdd(A, B)
<1> DEFINE f == [p \in A |-> p.rate]
           g == [p \in B |-> p.rate]
           h == [p \in A \cup B |-> p.rate]
<1>1. Parts(h, f, g)
  BY DEF Apart, IsPoints, IsPoint, Parts
<1> HIDE DEF f, g, h
<1>2. /\ SumFunction(f) \in Int /\ SumFunction(g) \in Int
      /\ SumFunction(h) = SumFunction(f) + SumFunction(g)
  BY <1>1, PartsSum, Zenon
<1> QED
  BY <1>2, Zenon DEF f, g, h, RateOf, RatesAdd

\* The span of a breakpoint is a time.
LEMMA SpanType ==
  ASSUME NEW p, IsPoint(p), NEW c \in Nat, NEW t \in Nat, c <= t
  PROVE  Span(p, c, t) \in Nat /\ p.rate * Span(p, c, t) \in Int
BY DEF IsPoint, Span

\* Flows add up.
FlowsAdd(A, B, c, t) ==
    /\ Flow(A, c, t) \in Int /\ Flow(B, c, t) \in Int
    /\ Flow(A \cup B, c, t) = Flow(A, c, t) + Flow(B, c, t)

\* The flow of two parts is the sum of their flows.
LEMMA FlowParts ==
  ASSUME NEW A, NEW B, Apart(A, B),
         NEW c \in Nat, NEW t \in Nat, c <= t
  PROVE  FlowsAdd(A, B, c, t)
<1> DEFINE f == [p \in A |-> p.rate * Span(p, c, t)]
           g == [p \in B |-> p.rate * Span(p, c, t)]
           h == [p \in A \cup B |-> p.rate * Span(p, c, t)]
<1>1. Parts(h, f, g)
  BY SpanType DEF Apart, IsPoints, Parts
<1> HIDE DEF f, g, h
<1>2. /\ SumFunction(f) \in Int /\ SumFunction(g) \in Int
      /\ SumFunction(h) = SumFunction(f) + SumFunction(g)
  BY <1>1, PartsSum, Zenon
<1> QED
  BY <1>2, Zenon DEF f, g, h, Flow, FlowsAdd

\* What breakpoints from c on have added to the accumulator by t.
Amount(p, t) == p.acc + p.rate * (t - p.at)
Amounts(ps, t) == SumFunction([p \in ps |-> Amount(p, t)])

\* Accrued of breakpoints that are not behind the cursor.
LEMMA AccruedAhead ==
  ASSUME NEW ps, NEW c \in Nat, NEW t \in Nat, \A p \in ps : IsPoint(p) /\ c <= p.at
  PROVE  Accrued(ps, c, t) = Amounts(ps, t)
<1>1. ASSUME NEW p \in ps
      PROVE  p.acc + p.rate * (t - Max({p.at, c})) = Amount(p, t)
  <2>1. p.at \in Nat /\ p.at >= c
    BY DEF IsPoint
  <2>2. Max({p.at, c}) = p.at
    BY <2>1, Later
  <2> QED
    BY <2>2 DEF Amount
<1>2. [p \in ps |-> p.acc + p.rate * (t - Max({p.at, c}))] = [p \in ps |-> Amount(p, t)]
  BY <1>1, Zenon
<1> QED
  BY <1>2, Zenon DEF Accrued, Amounts

\* Amounts add up.
AmountsAdd(A, B, t) ==
    /\ Amounts(A, t) \in Int /\ Amounts(B, t) \in Int
    /\ Amounts(A \cup B, t) = Amounts(A, t) + Amounts(B, t)

\* The amount of two parts is the sum of their amounts.
LEMMA AmountParts ==
  ASSUME NEW A, NEW B, Apart(A, B), NEW t \in Nat
  PROVE  AmountsAdd(A, B, t)
<1> DEFINE f == [p \in A |-> Amount(p, t)]
           g == [p \in B |-> Amount(p, t)]
           h == [p \in A \cup B |-> Amount(p, t)]
<1>1. Parts(h, f, g)
  BY DEF Apart, IsPoints, IsPoint, Amount, Parts
<1> HIDE DEF f, g, h
<1>2. /\ SumFunction(f) \in Int /\ SumFunction(g) \in Int
      /\ SumFunction(h) = SumFunction(f) + SumFunction(g)
  BY <1>1, PartsSum, Zenon
<1> QED
  BY <1>2, Zenon DEF f, g, h, Amounts, AmountsAdd

-----------------------------------------------------------------------------
(* What breakpoints stream.                                                *)

\* A sum of multiples.
LEMMA MultipleSum ==
  ASSUME NEW S, IsFiniteSet(S), NEW f, NEW g, NEW k \in Int, DOMAIN f = S, DOMAIN g = S,
         \A y \in S : g[y] \in Int /\ f[y] = k * g[y]
  PROVE  SumFunction(g) \in Int /\ SumFunction(f) = k * SumFunction(g)
<1> DEFINE z == [y \in S |-> 0]
<1>1. SumFunctionOnSet(z, S) = 0
  BY SumZero
<1>2. \A y \in S : z[y] \in Int /\ g[y] \in Int /\ f[y] = z[y] + k * g[y]
  OBVIOUS
<1> HIDE DEF z
<1>3. SumFunctionOnSet(f, S) = SumFunctionOnSet(z, S) + k * SumFunctionOnSet(g, S)
  BY <1>2, SumLinear
<1>4. SumFunctionOnSet(g, S) \in Int
  BY SumTakesOut
<1> QED
  BY <1>1, <1>3, <1>4 DEF SumFunction

\* From the last of them on, breakpoints stream at their joint rate.
LEMMA FlowPast ==
  ASSUME NEW D, IsPoints(D), NEW c \in Nat, NEW t \in Nat, c <= t, \A p \in D : p.at <= c
  PROVE  RateOf(D) \in Int /\ Flow(D, c, t) = (t - c) * RateOf(D)
<1> DEFINE f == [p \in D |-> p.rate * Span(p, c, t)]
           g == [p \in D |-> p.rate]
<1>1. ASSUME NEW p \in D PROVE g[p] \in Int /\ f[p] = (t - c) * g[p]
  <2>1. p.at \in Nat /\ p.rate \in Int /\ p.at <= c
    BY DEF IsPoints, IsPoint
  <2>2. Span(p, c, t) = t - c
    BY <2>1 DEF Span
  <2> QED
    BY <2>1, <2>2
<1>2. IsFiniteSet(D) /\ DOMAIN f = D /\ DOMAIN g = D /\ t - c \in Int
  BY DEF IsPoints
<1> HIDE DEF f, g
<1>3. SumFunction(g) \in Int /\ SumFunction(f) = (t - c) * SumFunction(g)
  BY <1>1, <1>2, MultipleSum
<1> QED
  BY <1>3, Zenon DEF f, g, RateOf, Flow

\* An accumulator grows by at least the flow.
LEMMA AmountsFlow ==
  ASSUME NEW D, IsPoints(D), NEW c \in Nat, NEW t \in Nat, c <= t,
         \A p \in D : c <= p.at /\ p.at <= t
  PROVE  Amounts(D, t) \in Int /\ Flow(D, c, t) \in Int /\ Flow(D, c, t) <= Amounts(D, t)
<1> DEFINE f == [p \in D |-> p.rate * Span(p, c, t)]
           g == [p \in D |-> Amount(p, t)]
<1>1. ASSUME NEW p \in D PROVE f[p] \in Int /\ g[p] \in Int /\ f[p] <= g[p]
  <2>1. p.at \in Nat /\ p.rate \in Int /\ p.acc \in Nat /\ c <= p.at /\ p.at <= t
    BY DEF IsPoints, IsPoint
  <2>2. Span(p, c, t) = t - p.at
    BY <2>1 DEF Span
  <2>3. p.rate * (t - p.at) \in Int
    BY <2>1
  <2> QED
    BY <2>1, <2>2, <2>3 DEF Amount
<1>2. IsFiniteSet(D) /\ DOMAIN f = D /\ DOMAIN g = D
  BY DEF IsPoints
<1> HIDE DEF f, g
<1>3. SumFunctionOnSet(f, D) <= SumFunctionOnSet(g, D)
  BY <1>1, <1>2, SumMonotone
<1>4. SumFunctionOnSet(f, D) \in Int /\ SumFunctionOnSet(g, D) \in Int
  BY <1>1, <1>2, SumTakesOut
<1>5. SumFunction(f) \in Int /\ SumFunction(g) \in Int /\ SumFunction(f) <= SumFunction(g)
  BY <1>2, <1>3, <1>4 DEF SumFunction
<1> QED
  BY <1>5, Zenon DEF f, g, Amounts, Flow

\* The accumulator between two instants.
LEMMA AmountsLater ==
  ASSUME NEW D, IsPoints(D), NEW r \in Nat, NEW t \in Nat
  PROVE  /\ RateOf(D) \in Int /\ Amounts(D, r) \in Int
         /\ Amounts(D, t) = Amounts(D, r) + (t - r) * RateOf(D)
<1> DEFINE f == [p \in D |-> Amount(p, r)]
           g == [p \in D |-> p.rate]
           h == [p \in D |-> Amount(p, t)]
<1>1. ASSUME NEW p \in D PROVE f[p] \in Int /\ g[p] \in Int /\ h[p] = f[p] + (t - r) * g[p]
  <2>1. p.at \in Nat /\ p.rate \in Int /\ p.acc \in Nat
    BY DEF IsPoints, IsPoint
  <2>2. p.rate * (t - p.at) = p.rate * (r - p.at) + (t - r) * p.rate
    BY <2>1
  <2>3. p.rate * (r - p.at) \in Int /\ (t - r) * p.rate \in Int
    BY <2>1
  <2> QED
    BY <2>1, <2>2, <2>3 DEF Amount
<1>2. IsFiniteSet(D) /\ DOMAIN f = D /\ DOMAIN g = D /\ DOMAIN h = D /\ t - r \in Int
  BY DEF IsPoints
<1> HIDE DEF f, g, h
<1>3. SumFunctionOnSet(h, D) = SumFunctionOnSet(f, D) + (t - r) * SumFunctionOnSet(g, D)
  BY <1>1, <1>2, SumLinear
<1>4. SumFunctionOnSet(f, D) \in Int /\ SumFunctionOnSet(g, D) \in Int
  BY <1>1, <1>2, SumTakesOut
<1>5. /\ SumFunction(f) \in Int /\ SumFunction(g) \in Int
      /\ SumFunction(h) = SumFunction(f) + (t - r) * SumFunction(g)
  BY <1>2, <1>3, <1>4 DEF SumFunction
<1> QED
  BY <1>5, Zenon DEF f, g, h, Amounts, RateOf

\* Parts of breakpoints are breakpoints.
LEMMA SomePoints ==
  ASSUME NEW ps, IsPoints(ps), NEW D, D \subseteq ps
  PROVE  IsPoints(D)
<1>1. IsFiniteSet(D)
  BY FS_Subset DEF IsPoints
<1> QED
  BY <1>1 DEF IsPoints

\* No breakpoint streams nothing, one its own rate.
LEMMA FlowFew ==
  ASSUME NEW c \in Nat, NEW t \in Nat, c <= t
  PROVE  /\ IsPoints({}) /\ Flow({}, c, t) = 0
         /\ \A p : IsPoint(p) => IsPoints({p}) /\ Flow({p}, c, t) = p.rate * Span(p, c, t)
<1>1. IsPoints({})
  BY FS_EmptySet DEF IsPoints
<1>2. Flow({}, c, t) = 0
  BY SumEmpty DEF Flow, SumFunction
<1>3. ASSUME NEW p, IsPoint(p)
      PROVE  IsPoints({p}) /\ Flow({p}, c, t) = p.rate * Span(p, c, t)
  <2>1. IsPoints({p})
    BY <1>3, FS_Singleton DEF IsPoints
  <2> DEFINE f == [q \in {p} |-> q.rate * Span(q, c, t)]
  <2>2. f[p] = p.rate * Span(p, c, t) /\ DOMAIN f = {p} /\ f[p] \in Int
    BY <1>3, SpanType
  <2> HIDE DEF f
  <2>3. SumFunctionOnSet(f, {} \cup {p}) = f[p] + SumFunctionOnSet(f, {})
    BY <2>2, SumInsert, FS_EmptySet
  <2>4. SumFunction(f) = f[p]
    BY <2>2, <2>3, SumEmpty DEF SumFunction
  <2> QED
    BY <2>1, <2>2, <2>4, Zenon DEF f, Flow
<1> QED
  BY <1>1, <1>2, <1>3, Zenon

\* Flows survives a settlement up to r that applies D.
LEMMA FlowsSettle ==
  ASSUME NEW ps, IsPoints(ps), NEW D \in SUBSET ps, Closed(D, ps),
         NEW c0 \in Nat, NEW r \in Nat, c0 <= r, \A p \in D : p.at <= r,
         NEW k \in Int, Flows(ps, c0, k)
  PROVE  Flows(ps \ D, r, k + RateOf(D))
<1> SUFFICES ASSUME NEW E \in SUBSET (ps \ D), Closed(E, ps \ D),
                    NEW c \in Nat, NEW t \in Nat, r <= c, c <= t
             PROVE  (k + RateOf(D)) * (t - c) + Flow(E, c, t) >= 0
  BY Zenon DEF Flows
<1>1. Closed(D \cup E, ps) /\ D \cup E \in SUBSET ps
  BY DEF Closed
<1>2. c0 <= c
  OBVIOUS
<1>3. k * (t - c) + Flow(D \cup E, c, t) >= 0
  BY <1>1, <1>2, Zenon DEF Flows
<1>4. IsPoints(D) /\ IsPoints(E) /\ Apart(D, E)
  BY SomePoints DEF Apart
<1>5. FlowsAdd(D, E, c, t)
  BY <1>4, FlowParts, Zenon
<1>6. \A p \in D : p.at <= c
  BY <1>4 DEF IsPoints, IsPoint
<1>7. RateOf(D) \in Int /\ Flow(D, c, t) = (t - c) * RateOf(D)
  BY <1>4, <1>6, FlowPast
<1> DEFINE R == RateOf(D)
           F == Flow(E, c, t)
<1>8. R \in Int /\ F \in Int /\ k * (t - c) + ((t - c) * R + F) >= 0
  BY <1>3, <1>5, <1>7 DEF FlowsAdd
<1> HIDE DEF R, F
<1>9. (k + R) * (t - c) + F >= 0
  BY <1>8
<1> QED
  BY <1>9 DEF R, F

\* The two breakpoints s and e of a new tranche.
Books(ps, s, e) ==
    /\ IsPoint(s) /\ IsPoint(e) /\ s \notin ps /\ e \notin ps /\ s # e
    /\ Paired(s, e) /\ s.at < e.at /\ s.rate >= 0 /\ e.rate = -s.rate

\* A tranche streams forwards.
LEMMA BooksFlow ==
  ASSUME NEW ps, NEW s, NEW e, Books(ps, s, e), NEW N \in SUBSET {s, e}, e \in N => s \in N,
         NEW c \in Nat, NEW t \in Nat, c <= t
  PROVE  IsPoints(N) /\ Flow(N, c, t) \in Int /\ Flow(N, c, t) >= 0
<1>1. /\ IsPoints({}) /\ Flow({}, c, t) = 0
      /\ IsPoints({s}) /\ Flow({s}, c, t) = s.rate * Span(s, c, t)
      /\ IsPoints({e}) /\ Flow({e}, c, t) = e.rate * Span(e, c, t)
  BY FlowFew DEF Books
<1>2. /\ s.rate \in Nat /\ e.rate = -s.rate
      /\ Span(s, c, t) \in Nat /\ Span(e, c, t) \in Nat
  <2>1. IsPoint(s) /\ IsPoint(e) /\ s.rate >= 0 /\ e.rate = -s.rate
    BY DEF Books
  <2>2. Span(s, c, t) \in Nat /\ Span(e, c, t) \in Nat
    BY <2>1, SpanType, Zenon
  <2> QED
    BY <2>1, <2>2 DEF IsPoint
<1>3. Span(e, c, t) <= Span(s, c, t)
  BY DEF Books, IsPoint, Span
<1>4. s.rate * Span(s, c, t) \in Nat /\ e.rate * Span(e, c, t) \in Int
  BY <1>2
<1>5. s.rate * Span(s, c, t) + e.rate * Span(e, c, t) >= 0
  <2>1. s.rate * Span(e, c, t) <= s.rate * Span(s, c, t)
    BY <1>2, <1>3, TimesMonotone
  <2>2. e.rate * Span(e, c, t) = -(s.rate * Span(e, c, t))
    BY <1>2
  <2> QED
    BY <1>2, <2>1, <2>2
<1>6. Flow({s} \cup {e}, c, t) = Flow({s}, c, t) + Flow({e}, c, t)
  <2>1. Apart({s}, {e})
    BY <1>1 DEF Apart, Books
  <2>2. FlowsAdd({s}, {e}, c, t)
    BY <2>1, FlowParts, Zenon
  <2> QED
    BY <2>2, Zenon DEF FlowsAdd
<1>7. IsPoints({s, e})
  <2>1. IsFiniteSet({s} \cup {e})
    BY FS_Union, FS_Singleton
  <2> QED
    BY <2>1 DEF IsPoints, Books
<1>8. N = {} \/ N = {s} \/ N = {s} \cup {e}
  OBVIOUS
<1>9. CASE N = {}
  BY <1>1, <1>9
<1>10. CASE N = {s}
  BY <1>1, <1>4, <1>10
<1>11. CASE N = {s} \cup {e}
  <2>1. Flow(N, c, t) = s.rate * Span(s, c, t) + e.rate * Span(e, c, t)
    BY <1>1, <1>6, <1>11, Zenon
  <2>2. IsPoints(N)
    <3>1. N = {s, e}
      BY <1>11
    <3> QED
      BY <1>7, <3>1, Zenon
  <2>3. s.rate * Span(s, c, t) + e.rate * Span(e, c, t) \in Int
    BY <1>4
  <2> QED
    BY <1>5, <2>1, <2>2, <2>3, Zenon
<1> QED
  BY <1>8, <1>9, <1>10, <1>11

\* Flows survives the booking of a tranche.
LEMMA FlowsBook ==
  ASSUME NEW ps, IsPoints(ps), NEW s, NEW e, Books(ps, s, e),
         NEW c0 \in Nat, NEW k \in Int, Flows(ps, c0, k)
  PROVE  IsPoints(ps \cup {s, e}) /\ Flows(ps \cup {s, e}, c0, k)
<1>1. IsPoints(ps \cup {s, e})
  <2>1. IsFiniteSet({s} \cup {e})
    BY FS_Union, FS_Singleton
  <2>2. IsFiniteSet(ps \cup ({s} \cup {e}))
    BY <2>1, FS_Union DEF IsPoints
  <2>3. ps \cup ({s} \cup {e}) = ps \cup {s, e}
    OBVIOUS
  <2> QED
    BY <2>2, <2>3 DEF IsPoints, Books
<1>2. ASSUME NEW E \in SUBSET (ps \cup {s, e}), Closed(E, ps \cup {s, e}),
             NEW c \in Nat, NEW t \in Nat, c0 <= c, c <= t
      PROVE  k * (t - c) + Flow(E, c, t) >= 0
  <2> DEFINE D == E \cap ps
             N == E \cap {s, e}
  <2>1. Closed(D, ps) /\ D \in SUBSET ps
    BY <1>2 DEF Closed
  <2>2. k * (t - c) + Flow(D, c, t) >= 0
    BY <1>2, <2>1, Zenon DEF Flows
  <2>3. N \in SUBSET {s, e} /\ (e \in N => s \in N)
    BY <1>2 DEF Closed, Books
  <2>4. IsPoints(N) /\ Flow(N, c, t) \in Int /\ Flow(N, c, t) >= 0
    BY <1>2, <2>3, BooksFlow
  <2>5. Apart(D, N) /\ D \cup N = E
    <3>1. IsPoints(D) /\ D \cap N = {} /\ D \cup N = E
      BY <2>1, SomePoints DEF Books
    <3> QED
      BY <2>4, <3>1 DEF Apart
  <2> HIDE DEF D, N
  <2>6. FlowsAdd(D, N, c, t)
    BY <1>2, <2>5, FlowParts, Zenon
  <2>7. Flow(E, c, t) = Flow(D, c, t) + Flow(N, c, t)
    BY <2>5, <2>6, Zenon DEF FlowsAdd
  <2>8. k * (t - c) \in Int
    BY <1>2
  <2> QED
    BY <2>2, <2>4, <2>6, <2>7, <2>8 DEF FlowsAdd
<1> QED
  BY <1>1, <1>2, Zenon DEF Flows

-----------------------------------------------------------------------------
(* The breakpoints a settlement applies.                                   *)

\* Breakpoints are applied in the order of time, then of their keys.
LEMMA BeforeOrder ==
  ASSUME NEW p, IsPoint(p), NEW q, IsPoint(q)
  PROVE  /\ ~(Before(p, q) /\ Before(q, p)) /\ ~Before(p, p)
         /\ p.key # q.key => Before(p, q) \/ Before(q, p)
         /\ Before(p, q) => p.at <= q.at
         /\ p.at < q.at => Before(p, q)
         /\ \A x : IsPoint(x) /\ Before(x, p) /\ Before(p, q) => Before(x, q)
BY DEF IsPoint, Before

\* The breakpoints of ps that come before p.
Ahead(ps, p) == {q \in ps : Before(q, p)}

\* The earlier of two breakpoints has fewer before it.
LEMMA AheadFewer ==
  ASSUME NEW ps, IsPoints(ps), NEW q \in ps, NEW p \in ps, Before(q, p)
  PROVE  Cardinality(Ahead(ps, q)) < Cardinality(Ahead(ps, p))
<1> DEFINE A == Ahead(ps, q)
           B == Ahead(ps, p)
<1>1. A \cup {q} \subseteq B /\ q \notin A
  <2>1. \A x \in ps : IsPoint(x)
    BY DEF IsPoints
  <2>2. ASSUME NEW x \in A PROVE x \in B
    <3>1. x \in ps /\ Before(x, q)
      BY DEF Ahead
    <3>2. Before(x, p)
      BY <2>1, <3>1, BeforeOrder, Zenon
    <3> QED
      BY <3>1, <3>2 DEF Ahead
  <2>3. q \in B
    BY DEF Ahead
  <2>4. q \notin A
    BY <2>1, BeforeOrder, Zenon DEF Ahead
  <2> QED
    BY <2>2, <2>3, <2>4
<1>2. IsFiniteSet(A) /\ IsFiniteSet(B)
  BY FS_Subset DEF Ahead, IsPoints
<1> HIDE DEF A, B
<1>3. Cardinality(A \cup {q}) = Cardinality(A) + 1
  BY <1>1, <1>2, FS_AddElement
<1>4. Cardinality(A \cup {q}) <= Cardinality(B)
  BY <1>1, <1>2, FS_Subset
<1>5. Cardinality(A) \in Nat /\ Cardinality(B) \in Nat
  BY <1>2, FS_CardinalityType
<1> QED
  BY <1>3, <1>4, <1>5 DEF A, B

\* The first n breakpoints of ps.
First(ps, n) == {p \in ps : Cardinality(Ahead(ps, p)) < n}

\* Nothing comes before the members of D that is not one of them, and unless
\* they are all of ps there are n.
Leads(D, ps, n) ==
    /\ \A p \in D : \A q \in ps : Before(q, p) => q \in D
    /\ D # ps => Cardinality(D) = n

\* A budget of n takes the first n breakpoints, or all of them.
LEMMA FirstFew ==
  ASSUME NEW ps, IsPoints(ps), \A p, q \in ps : p.key = q.key => p = q,
         NEW n \in Nat \ {0}
  PROVE  Leads(First(ps, n), ps, n)
<1> DEFINE D == First(ps, n)
           Rank(p) == Cardinality(Ahead(ps, p))
<1>1. \A p \in ps : Rank(p) \in Nat /\ IsFiniteSet(Ahead(ps, p))
  <2> SUFFICES ASSUME NEW p \in ps PROVE Rank(p) \in Nat /\ IsFiniteSet(Ahead(ps, p))
    OBVIOUS
  <2>1. IsFiniteSet(Ahead(ps, p))
    BY FS_Subset DEF Ahead, IsPoints
  <2> QED
    BY <2>1, FS_CardinalityType
<1>2. \A p, q \in ps : Before(q, p) => Rank(q) < Rank(p)
  BY AheadFewer
<1>3. \A p \in ps : p \in D <=> Rank(p) < n
  BY DEF First
<1>4. D \subseteq ps /\ IsFiniteSet(D)
  BY FS_Subset DEF IsPoints, First
<1>5. \A p \in ps : IsPoint(p)
  BY DEF IsPoints
<1> HIDE DEF Rank, D
<1>6. \A p \in D : \A q \in ps : Before(q, p) => q \in D
  BY <1>1, <1>2, <1>3, <1>4
<1>7. ASSUME D # ps PROVE Cardinality(D) = n
  <2>1. Cardinality(D) \in Nat
    BY <1>4, FS_CardinalityType
  <2>2. n <= Cardinality(D)
    <3> DEFINE R == {Rank(p) : p \in ps \ D}
    <3>1. R \subseteq Nat /\ R # {}
      BY <1>1, <1>4, <1>7
    <3>2. PICK k \in R : \A j \in R : k <= j
      BY <3>1, LeastNumber
    <3>3. PICK p \in ps \ D : k = Rank(p)
      OBVIOUS
    <3>4. Ahead(ps, p) \subseteq D
      <4> SUFFICES ASSUME NEW q \in ps, Before(q, p), q \notin D PROVE FALSE
        BY DEF Ahead
      <4>1. Rank(q) \in R /\ Rank(q) < k
        BY <1>2, <3>3
      <4>2. k <= Rank(q) /\ k \in Nat /\ Rank(q) \in Nat
        BY <3>1, <3>2, <4>1
      <4> QED
        BY <4>1, <4>2
    <3>5. Cardinality(Ahead(ps, p)) <= Cardinality(D)
      BY <1>4, <3>4, FS_Subset
    <3>6. n <= Rank(p)
      BY <1>1, <1>3
    <3> QED
      BY <1>1, <2>1, <3>5, <3>6 DEF Rank
  <2>3. Cardinality(D) <= n
    <3>1. CASE D = {}
      BY <3>1, FS_EmptySet
    <3>2. CASE D # {}
      <4> DEFINE R == {n - Rank(p) : p \in D}
      <4>1. R \subseteq Nat /\ R # {}
        <5>1. ASSUME NEW p \in D PROVE n - Rank(p) \in Nat
          <6>1. Rank(p) \in Nat /\ Rank(p) < n
            BY <1>1, <1>3, <1>4
          <6> QED
            BY <6>1
        <5> QED
          BY <3>2, <5>1
      <4>2. PICK k \in R : \A j \in R : k <= j
        BY <4>1, LeastNumber
      <4>3. PICK m \in D : k = n - Rank(m)
        OBVIOUS
      <4>4. D \subseteq Ahead(ps, m) \cup {m}
        <5> SUFFICES ASSUME NEW q \in D, q # m, ~Before(q, m) PROVE FALSE
          BY <1>4 DEF Ahead
        <5>1. Before(m, q)
          BY <1>4, <1>5, BeforeOrder, Zenon
        <5>2. Rank(m) < Rank(q) /\ n - Rank(q) \in R
          BY <1>2, <1>4, <5>1
        <5>3. n - Rank(m) <= n - Rank(q)
          BY <4>2, <4>3, <5>2
        <5>4. Rank(m) \in Nat /\ Rank(q) \in Nat
          BY <1>1, <1>4
        <5> QED
          BY <5>2, <5>3, <5>4
      <4>5. m \in ps /\ Rank(m) < n
        BY <1>3, <1>4
      <4>6. m \notin Ahead(ps, m)
        BY <1>5, <4>5, BeforeOrder, Zenon DEF Ahead
      <4> DEFINE A == Ahead(ps, m)
      <4>7. IsFiniteSet(A) /\ Cardinality(A) \in Nat /\ Cardinality(A) < n
        BY <1>1, <4>5 DEF Rank
      <4> HIDE DEF A
      <4>8. Cardinality(A \cup {m}) = Cardinality(A) + 1 /\ IsFiniteSet(A \cup {m})
        BY <4>6, <4>7, FS_AddElement DEF A
      <4>9. D \subseteq A \cup {m}
        BY <4>4 DEF A
      <4>10. Cardinality(D) <= Cardinality(A \cup {m})
        BY <4>8, <4>9, FS_Subset
      <4> QED
        BY <2>1, <4>7, <4>8, <4>10
    <3> QED
      BY <3>1, <3>2
  <2> QED
    BY <2>1, <2>2, <2>3
<1> QED
  BY <1>6, <1>7 DEF Leads, D

=============================================================================
