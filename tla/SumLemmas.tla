------------------------------ MODULE SumLemmas ------------------------------
(***************************************************************************)
(* Sums of a function over a finite set (SumFunctionOnSet of the community  *)
(* modules): a sum is one term and the sum of the rest.                     *)
(*                                                                         *)
(* The sum is defined by recursion over a set.  That the recursion has a    *)
(* solution, and only one, follows from the fact that a nonempty set of     *)
(* finite sets has a minimal element (WFMin).                               *)
(***************************************************************************)
EXTENDS Functions, FiniteSetTheorems, TLAPS

ChosenOf(s) == CHOOSE x \in s : TRUE

\* One round of the recursion, for the sum of f over s.
SumRound(f, g, s) == IF s = {} THEN 0 ELSE f[ChosenOf(s)] + g[s \ {ChosenOf(s)}]

\* The partial sums of f over the subsets of S.
IsPartialSums(f, S, g) == g = [s \in SUBSET S |-> SumRound(f, g, s)]

\* Among sets of a finite set there is a minimal one.
LEMMA MinimalSet ==
  ASSUME NEW S, IsFiniteSet(S), NEW B, B \subseteq SUBSET S, B # {}
  PROVE  \E T \in B : \A U \in B : U \subseteq T => U = T
<1>1. IsWellFoundedOn(StrictSubsetOrdering(S), SUBSET S)
  BY FS_StrictSubsetOrderingWellFounded, FS_FiniteSubsetsOfFinite
<1>2. PICK T \in B : \A U \in B : ~(<<U, T>> \in StrictSubsetOrdering(S))
  BY <1>1, WFMin
<1> QED BY <1>2 DEF StrictSubsetOrdering

LEMMA ChosenIn == \A s : s # {} => ChosenOf(s) \in s
BY DEF ChosenOf

LEMMA SumsAt ==
  ASSUME NEW f, NEW S, NEW g, IsPartialSums(f, S, g), NEW s \in SUBSET S
  PROVE  g[s] = SumRound(f, g, s)
BY DEF IsPartialSums

\* Partial sums are determined.
LEMMA SumsUnique ==
  ASSUME NEW f, NEW S, NEW T, NEW g, NEW h, IsPartialSums(f, S, g), IsPartialSums(f, T, h),
         NEW s, s \subseteq S, s \subseteq T, IsFiniteSet(s)
  PROVE  g[s] = h[s]
<1> DEFINE B == {u \in SUBSET s : g[u] # h[u]}
<1> SUFFICES ASSUME B # {} PROVE FALSE
  OBVIOUS
<1>0. B \subseteq SUBSET s
  OBVIOUS
<1>1. PICK u \in B : \A v \in B : v \subseteq u => v = u
  <2> HIDE DEF B
  <2> QED BY <1>0, MinimalSet
<1>2. g[u] = SumRound(f, g, u) /\ h[u] = SumRound(f, h, u)
  BY <1>1 DEF IsPartialSums
<1>3. u # {}
  BY <1>1, <1>2 DEF SumRound
<1>4. u \ {ChosenOf(u)} \notin B
  BY <1>1, <1>3, ChosenIn
<1> QED BY <1>1, <1>2, <1>3, <1>4 DEF SumRound

\* Every finite set has its partial sums.
LEMMA SumsExist ==
  ASSUME NEW f, NEW S, IsFiniteSet(S)
  PROVE  \E g : IsPartialSums(f, S, g)
<1> DEFINE B == {T \in SUBSET S : ~\E g : IsPartialSums(f, T, g)}
<1> SUFFICES ASSUME B # {} PROVE FALSE
  OBVIOUS
<1>0. B \subseteq SUBSET S
  OBVIOUS
<1>1. PICK T \in B : \A U \in B : U \subseteq T => U = T
  <2> HIDE DEF B
  <2> QED BY <1>0, MinimalSet
<1> DEFINE G(U) == CHOOSE g : IsPartialSums(f, U, g)
           h == [s \in SUBSET T |-> IF s = {} THEN 0
                   ELSE f[ChosenOf(s)] + G(s \ {ChosenOf(s)})[s \ {ChosenOf(s)}]]
<1>2. ASSUME NEW U \in SUBSET T, U # T PROVE IsPartialSums(f, U, G(U))
  BY <1>1, <1>2
<1> HIDE DEF G
<1>3. ASSUME NEW s \in SUBSET T, s # {}
      PROVE  h[s \ {ChosenOf(s)}] = G(s \ {ChosenOf(s)})[s \ {ChosenOf(s)}]
  <2> DEFINE u == s \ {ChosenOf(s)}
             v == u \ {ChosenOf(u)}
  <2>1. u \in SUBSET T /\ u # T /\ v \in SUBSET T /\ v # T
    BY <1>3, ChosenIn
  <2>2. G(u)[u] = SumRound(f, G(u), u)
    <3>1. IsPartialSums(f, u, G(u))
      BY <2>1, <1>2
    <3> HIDE DEF u
    <3> QED BY <3>1, SumsAt
  <2>3. CASE u = {}
    BY <2>1, <2>2, <2>3 DEF SumRound
  <2>4. CASE u # {}
    <3>1. h[u] = f[ChosenOf(u)] + G(v)[v]
      BY <2>1, <2>4
    <3>2. IsFiniteSet(v)
      <4>1. v \in SUBSET S
        BY <1>1, <2>1
      <4> QED BY <4>1, FS_Subset
    <3>3. G(u)[v] = G(v)[v]
      BY <2>1, <1>2, <3>2, SumsUnique
    <3> QED BY <2>2, <2>4, <3>1, <3>3 DEF SumRound
  <2> QED BY <2>3, <2>4
<1>4. IsPartialSums(f, T, h)
  BY <1>3 DEF IsPartialSums, SumRound
<1> QED BY <1>1, <1>4

PartialSum(f, S) == CHOOSE g : IsPartialSums(f, S, g)

LEMMA PartialSums ==
  ASSUME NEW f, NEW S, IsFiniteSet(S)
  PROVE  IsPartialSums(f, S, PartialSum(f, S)) /\ SumFunctionOnSet(f, S) = PartialSum(f, S)[S]
<1>1. IsPartialSums(f, S, PartialSum(f, S))
  BY SumsExist DEF PartialSum
<1>2. SumFunctionOnSet(f, S) = PartialSum(f, S)[S]
  BY DEF SumFunctionOnSet, FoldFunctionOnSet, MapThenFoldSet, PartialSum, IsPartialSums, SumRound, ChosenOf
<1> QED BY <1>1, <1>2

\* The recursion of the sum.
LEMMA SumChosen ==
  ASSUME NEW f, NEW S, IsFiniteSet(S)
  PROVE  SumFunctionOnSet(f, S) =
           IF S = {} THEN 0
           ELSE f[ChosenOf(S)] + SumFunctionOnSet(f, S \ {ChosenOf(S)})
<1> DEFINE T == S \ {ChosenOf(S)}
<1>1. IsFiniteSet(T) /\ T \in SUBSET S
  BY FS_Subset
<1>2. PartialSum(f, S)[S] = SumRound(f, PartialSum(f, S), S)
  BY PartialSums DEF IsPartialSums
<1>3. PartialSum(f, S)[T] = PartialSum(f, T)[T]
  BY <1>1, PartialSums, SumsUnique
<1> QED BY <1>1, <1>2, <1>3, PartialSums DEF SumRound

\* Nothing sums to 0.
LEMMA SumEmpty ==
  ASSUME NEW f
  PROVE  SumFunctionOnSet(f, {}) = 0
BY SumChosen, FS_EmptySet

\* Induction: what holds of {} and is kept by adding an element holds of S.
LEMMA SetInduction ==
  ASSUME NEW S, IsFiniteSet(S), NEW G, {} \in G,
         \A T \in G \cap SUBSET S : \A x \in S \ T : T \cup {x} \in G
  PROVE  S \in G
<1> DEFINE B == (SUBSET S) \ G
<1> SUFFICES ASSUME B # {} PROVE FALSE
  OBVIOUS
<1>1. B \subseteq SUBSET S
  OBVIOUS
<1>2. PICK T \in B : \A U \in B : U \subseteq T => U = T
  <2> HIDE DEF B
  <2> QED BY <1>1, MinimalSet
<1>3. PICK x \in T : TRUE
  BY <1>2
<1>4. T \ {x} \in G \cap SUBSET S
  BY <1>2, <1>3
<1>5. (T \ {x}) \cup {x} = T
  BY <1>3
<1> QED BY <1>2, <1>3, <1>4, <1>5

-----------------------------------------------------------------------------
(* Sums of naturals.                                                       *)

\* A sum of naturals is one.
LEMMA SumNat ==
  ASSUME NEW f, NEW S, IsFiniteSet(S), \A x \in S : f[x] \in Nat
  PROVE  SumFunctionOnSet(f, S) \in Nat
<1> DEFINE B == {T \in SUBSET S : SumFunctionOnSet(f, T) \notin Nat}
<1> SUFFICES ASSUME B # {} PROVE FALSE
  OBVIOUS
<1>0. B \subseteq SUBSET S
  OBVIOUS
<1>1. PICK T \in B : \A U \in B : U \subseteq T => U = T
  <2> HIDE DEF B
  <2> QED BY <1>0, MinimalSet
<1>2. IsFiniteSet(T)
  BY <1>1, FS_Subset
<1>3. T # {}
  <2>1. {} \notin B
    BY SumEmpty
  <2> QED BY <1>1, <2>1
<1>4. T \ {ChosenOf(T)} \notin B /\ f[ChosenOf(T)] \in Nat
  BY <1>1, <1>3, ChosenIn
<1> QED BY <1>1, <1>2, <1>3, <1>4, SumChosen

\* Any term may be taken out first.
LEMMA SumOut ==
  ASSUME NEW f, NEW S, IsFiniteSet(S), \A x \in S : f[x] \in Nat, NEW a \in S
  PROVE  SumFunctionOnSet(f, S) = f[a] + SumFunctionOnSet(f, S \ {a})
<1> DEFINE Fails(T) == \E x \in T : SumFunctionOnSet(f, T) # f[x] + SumFunctionOnSet(f, T \ {x})
           B == {T \in SUBSET S : Fails(T)}
<1> SUFFICES ASSUME B # {} PROVE FALSE
  OBVIOUS
<1>0. B \subseteq SUBSET S
  OBVIOUS
<1>1. PICK T \in B : \A U \in B : U \subseteq T => U = T
  <2> HIDE DEF B
  <2> QED BY <1>0, MinimalSet
<1>2. PICK x \in T : SumFunctionOnSet(f, T) # f[x] + SumFunctionOnSet(f, T \ {x})
  BY <1>1
<1> DEFINE c == ChosenOf(T)
           R == T \ {c, x}
<1>3. c \in T /\ IsFiniteSet(T) /\ T \in SUBSET S
  BY <1>1, <1>2, ChosenIn, FS_Subset
<1>4. SumFunctionOnSet(f, T) = f[c] + SumFunctionOnSet(f, T \ {c})
  BY <1>3, SumChosen
<1>5. c # x
  BY <1>2, <1>4
<1>6. SumFunctionOnSet(f, T \ {c}) = f[x] + SumFunctionOnSet(f, R)
  <2>1. T \ {c} \notin B /\ T \ {c} \in SUBSET S /\ x \in T \ {c}
    BY <1>1, <1>3, <1>5
  <2>2. (T \ {c}) \ {x} = R
    OBVIOUS
  <2> QED BY <2>1, <2>2
<1>7. SumFunctionOnSet(f, T \ {x}) = f[c] + SumFunctionOnSet(f, R)
  <2>1. T \ {x} \notin B /\ T \ {x} \in SUBSET S /\ c \in T \ {x}
    BY <1>1, <1>2, <1>3, <1>5
  <2>2. (T \ {x}) \ {c} = R
    OBVIOUS
  <2> QED BY <2>1, <2>2
<1>8. f[c] \in Nat /\ f[x] \in Nat /\ SumFunctionOnSet(f, R) \in Nat
  <2>1. IsFiniteSet(R) /\ \A y \in R : f[y] \in Nat
    BY <1>3, FS_Subset
  <2> QED BY <1>2, <1>3, <2>1, SumNat
<1> HIDE DEF c, R
<1> QED BY <1>2, <1>4, <1>6, <1>7, <1>8

LEMMA SumIn ==
  ASSUME NEW f, NEW S, IsFiniteSet(S), NEW a, a \notin S, \A x \in S \cup {a} : f[x] \in Nat
  PROVE  SumFunctionOnSet(f, S \cup {a}) = f[a] + SumFunctionOnSet(f, S)
<1>1. IsFiniteSet(S \cup {a}) /\ (S \cup {a}) \ {a} = S
  BY FS_AddElement
<1> QED BY <1>1, SumOut

\* Smaller terms have a smaller sum, over a smaller set too.
LEMMA SumLess ==
  ASSUME NEW f, NEW g, NEW S, IsFiniteSet(S), NEW R, R \subseteq S,
         \A x \in S : g[x] \in Nat,
         \A x \in R : f[x] \in Nat /\ f[x] <= g[x]
  PROVE  SumFunctionOnSet(f, R) <= SumFunctionOnSet(g, S)
<1> DEFINE G == {T \in SUBSET S : SumFunctionOnSet(f, R \cap T) <= SumFunctionOnSet(g, T)}
<1>1. {} \in G
  BY SumEmpty
<1>2. ASSUME NEW T \in SUBSET S, T \in G, NEW x \in S \ T
      PROVE  T \cup {x} \in G
  <2>1. IsFiniteSet(T) /\ IsFiniteSet(R \cap T)
    BY FS_Subset
  <2>2. SumFunctionOnSet(g, T \cup {x}) = g[x] + SumFunctionOnSet(g, T)
    BY <2>1, <1>2, SumIn
  <2>3. SumFunctionOnSet(g, T) \in Nat /\ SumFunctionOnSet(f, R \cap T) \in Nat
    BY <2>1, SumNat
  <2>4. CASE x \in R
    <3>1. R \cap (T \cup {x}) = (R \cap T) \cup {x}
      BY <2>4
    <3>2. SumFunctionOnSet(f, (R \cap T) \cup {x}) = f[x] + SumFunctionOnSet(f, R \cap T)
      BY <2>1, <2>4, <1>2, SumIn
    <3> QED BY <1>2, <2>2, <2>3, <2>4, <3>1, <3>2
  <2>5. CASE x \notin R
    <3>1. R \cap (T \cup {x}) = R \cap T /\ g[x] \in Nat
      BY <2>5
    <3>2. SumFunctionOnSet(f, R \cap T) <= SumFunctionOnSet(g, T \cup {x})
      BY <1>2, <2>2, <2>3, <3>1
    <3> QED BY <3>1, <3>2
  <2> QED BY <2>4, <2>5
<1>3. S \in G
  <2> HIDE DEF G
  <2> QED BY <1>1, <1>2, SetInduction
<1>4. R \cap S = R
  OBVIOUS
<1> QED BY <1>3, <1>4

\* Terms of 0 do not matter, nor what the function is elsewhere.
LEMMA SumSupport ==
  ASSUME NEW f, NEW g, NEW S, IsFiniteSet(S), NEW R, R \subseteq S,
         \A x \in R : f[x] \in Nat /\ g[x] = f[x],
         \A x \in S \ R : g[x] = 0
  PROVE  SumFunctionOnSet(g, S) = SumFunctionOnSet(f, R)
<1> DEFINE G == {T \in SUBSET S : SumFunctionOnSet(f, R \cap T) = SumFunctionOnSet(g, T)}
<1>1. {} \in G
  BY SumEmpty
<1>2. ASSUME NEW T \in SUBSET S, T \in G, NEW x \in S \ T
      PROVE  T \cup {x} \in G
  <2>1. IsFiniteSet(T) /\ IsFiniteSet(R \cap T)
    BY FS_Subset
  <2>2. SumFunctionOnSet(g, T \cup {x}) = g[x] + SumFunctionOnSet(g, T)
    BY <2>1, <1>2, SumIn
  <2>3. SumFunctionOnSet(g, T) \in Nat /\ SumFunctionOnSet(f, R \cap T) \in Nat
    BY <2>1, SumNat
  <2>4. CASE x \in R
    <3>1. R \cap (T \cup {x}) = (R \cap T) \cup {x}
      BY <2>4
    <3>2. SumFunctionOnSet(f, (R \cap T) \cup {x}) = f[x] + SumFunctionOnSet(f, R \cap T)
      BY <2>1, <2>4, <1>2, SumIn
    <3> QED BY <1>2, <2>2, <2>3, <2>4, <3>1, <3>2
  <2>5. CASE x \notin R
    <3>1. R \cap (T \cup {x}) = R \cap T
      BY <2>5
    <3> QED BY <1>2, <2>2, <2>3, <2>5, <3>1
  <2> QED BY <2>4, <2>5
<1>3. S \in G
  <2> HIDE DEF G
  <2> QED BY <1>1, <1>2, SetInduction
<1>4. R \cap S = R
  OBVIOUS
<1> QED BY <1>3, <1>4

\* Functions that agree on a set have the same sum over it.
LEMMA SumSame ==
  ASSUME NEW f, NEW g, NEW S, IsFiniteSet(S), \A x \in S : f[x] \in Nat /\ g[x] = f[x]
  PROVE  SumFunctionOnSet(g, S) = SumFunctionOnSet(f, S)
BY SumSupport

\* One term changes.
LEMMA SumChange ==
  ASSUME NEW f, NEW g, NEW S, IsFiniteSet(S), NEW a \in S,
         \A x \in S : f[x] \in Nat /\ g[x] \in Nat,
         \A x \in S \ {a} : g[x] = f[x]
  PROVE  SumFunctionOnSet(g, S) + f[a] = SumFunctionOnSet(f, S) + g[a]
<1>1. IsFiniteSet(S \ {a})
  BY FS_RemoveElement
<1>2. SumFunctionOnSet(g, S \ {a}) = SumFunctionOnSet(f, S \ {a})
  BY <1>1, SumSame
<1>3. /\ SumFunctionOnSet(f, S) = f[a] + SumFunctionOnSet(f, S \ {a})
      /\ SumFunctionOnSet(g, S) = g[a] + SumFunctionOnSet(g, S \ {a})
  BY SumOut
<1>4. SumFunctionOnSet(f, S \ {a}) \in Nat
  BY <1>1, SumNat
<1> QED BY <1>2, <1>3, <1>4

\* The sum of sums.
LEMMA SumPlus ==
  ASSUME NEW f, NEW g, NEW h, NEW S, IsFiniteSet(S),
         \A x \in S : f[x] \in Nat /\ g[x] \in Nat /\ h[x] = f[x] + g[x]
  PROVE  SumFunctionOnSet(h, S) = SumFunctionOnSet(f, S) + SumFunctionOnSet(g, S)
<1> DEFINE G == {T \in SUBSET S :
                   SumFunctionOnSet(h, T) = SumFunctionOnSet(f, T) + SumFunctionOnSet(g, T)}
<1>1. {} \in G
  BY SumEmpty
<1>2. ASSUME NEW T \in SUBSET S, T \in G, NEW x \in S \ T
      PROVE  T \cup {x} \in G
  <2>1. IsFiniteSet(T)
    BY FS_Subset
  <2>2. /\ SumFunctionOnSet(f, T \cup {x}) = f[x] + SumFunctionOnSet(f, T)
        /\ SumFunctionOnSet(g, T \cup {x}) = g[x] + SumFunctionOnSet(g, T)
        /\ SumFunctionOnSet(h, T \cup {x}) = h[x] + SumFunctionOnSet(h, T)
    <3>1. \A y \in T \cup {x} : f[y] \in Nat /\ g[y] \in Nat /\ h[y] \in Nat
      OBVIOUS
    <3> QED BY <2>1, <1>2, <3>1, SumIn
  <2>3. SumFunctionOnSet(f, T) \in Nat /\ SumFunctionOnSet(g, T) \in Nat
    BY <2>1, SumNat
  <2> QED BY <1>2, <2>2, <2>3
<1>3. S \in G
  <2> HIDE DEF G
  <2> QED BY <1>1, <1>2, SetInduction
<1> QED BY <1>3

\* The sum of equal terms.
LEMMA SumConstant ==
  ASSUME NEW f, NEW S, IsFiniteSet(S), NEW k \in Nat, \A x \in S : f[x] = k
  PROVE  SumFunctionOnSet(f, S) = Cardinality(S) * k
<1> DEFINE G == {T \in SUBSET S : SumFunctionOnSet(f, T) = Cardinality(T) * k}
<1>1. {} \in G
  BY SumEmpty, FS_EmptySet
<1>2. ASSUME NEW T \in SUBSET S, T \in G, NEW x \in S \ T
      PROVE  T \cup {x} \in G
  <2>1. IsFiniteSet(T) /\ Cardinality(T) \in Nat
    BY FS_Subset, FS_CardinalityType
  <2>2. SumFunctionOnSet(f, T \cup {x}) = k + SumFunctionOnSet(f, T)
    BY <2>1, <1>2, SumIn
  <2>3. Cardinality(T \cup {x}) = Cardinality(T) + 1
    BY <2>1, <1>2, FS_AddElement
  <2>4. (Cardinality(T) + 1) * k = k + Cardinality(T) * k
    BY <2>1
  <2> QED BY <1>2, <2>2, <2>3, <2>4
<1>3. S \in G
  <2> HIDE DEF G
  <2> QED BY <1>1, <1>2, SetInduction
<1> QED BY <1>3

\* The sum over two sets that have nothing in common.
LEMMA SumDisjoint ==
  ASSUME NEW f, NEW A, NEW B, IsFiniteSet(A), IsFiniteSet(B), A \cap B = {},
         \A x \in A \cup B : f[x] \in Nat
  PROVE  SumFunctionOnSet(f, A \cup B) = SumFunctionOnSet(f, A) + SumFunctionOnSet(f, B)
<1> DEFINE fA == [x \in A \cup B |-> IF x \in A THEN f[x] ELSE 0]
           fB == [x \in A \cup B |-> IF x \in B THEN f[x] ELSE 0]
<1>1. IsFiniteSet(A \cup B)
  BY FS_Union
<1>2. /\ \A x \in A : fA[x] = f[x]
      /\ \A x \in (A \cup B) \ A : fA[x] = 0
      /\ \A x \in B : fB[x] = f[x]
      /\ \A x \in (A \cup B) \ B : fB[x] = 0
      /\ \A x \in A \cup B : fA[x] \in Nat /\ fB[x] \in Nat /\ f[x] = fA[x] + fB[x]
  OBVIOUS
<1> HIDE DEF fA, fB
<1>3. SumFunctionOnSet(fA, A \cup B) = SumFunctionOnSet(f, A)
  BY <1>1, <1>2, SumSupport
<1>4. SumFunctionOnSet(fB, A \cup B) = SumFunctionOnSet(f, B)
  BY <1>1, <1>2, SumSupport
<1>5. SumFunctionOnSet(f, A \cup B) = SumFunctionOnSet(fA, A \cup B) + SumFunctionOnSet(fB, A \cup B)
  BY <1>1, <1>2, SumPlus
<1> QED BY <1>3, <1>4, <1>5

\* Sums of the parts bound the sum of the whole: h says which part an element of S
\* belongs to, g bounds the part.
LEMMA SumByParts ==
  ASSUME NEW f, NEW S, IsFiniteSet(S), NEW g, NEW T, IsFiniteSet(T), NEW h,
         \A x \in S : f[x] \in Nat,
         \A x \in S : h[x] \notin T => f[x] = 0,
         \A t \in T : g[t] \in Nat /\ SumFunctionOnSet(f, {x \in S : h[x] = t}) <= g[t]
  PROVE  SumFunctionOnSet(f, S) <= SumFunctionOnSet(g, T)
<1> DEFINE Part(U) == {x \in S : h[x] \in U}
           G == {U \in SUBSET T : SumFunctionOnSet(f, Part(U)) <= SumFunctionOnSet(g, U)}
<1>1. {} \in G
  <2>1. Part({}) = {}
    OBVIOUS
  <2> QED BY <2>1, SumEmpty
<1>2. ASSUME NEW U \in SUBSET T, U \in G, NEW t \in T \ U
      PROVE  U \cup {t} \in G
  <2> DEFINE P == {x \in S : h[x] = t}
             Q == Part(U)
  <2>1. /\ Part(U \cup {t}) = Q \cup P /\ Q \cap P = {}
        /\ Q \subseteq S /\ P \subseteq S
    BY <1>2
  <2>2. IsFiniteSet(Q) /\ IsFiniteSet(P) /\ IsFiniteSet(U)
    BY <2>1, FS_Subset
  <2>3. /\ SumFunctionOnSet(f, P) <= g[t] /\ g[t] \in Nat
        /\ SumFunctionOnSet(f, Q) <= SumFunctionOnSet(g, U)
        /\ \A x \in Q \cup P : f[x] \in Nat
        /\ \A u \in U \cup {t} : g[u] \in Nat
    BY <1>2
  <2> HIDE DEF P, Q
  <2>4. SumFunctionOnSet(f, Q \cup P) = SumFunctionOnSet(f, Q) + SumFunctionOnSet(f, P)
    BY <2>1, <2>2, <2>3, SumDisjoint
  <2>5. SumFunctionOnSet(g, U \cup {t}) = g[t] + SumFunctionOnSet(g, U)
    BY <2>2, <2>3, <1>2, SumIn
  <2>6. SumFunctionOnSet(f, Q) \in Nat /\ SumFunctionOnSet(f, P) \in Nat
        /\ SumFunctionOnSet(g, U) \in Nat
    BY <2>2, <2>3, SumNat
  <2>7. SumFunctionOnSet(f, Q \cup P) <= SumFunctionOnSet(g, U \cup {t})
    BY <2>3, <2>4, <2>5, <2>6
  <2> QED BY <2>1, <2>7
<1>3. T \in G
  <2> HIDE DEF G
  <2> QED BY <1>1, <1>2, SetInduction
<1>4. SumFunctionOnSet(f, S) = SumFunctionOnSet(f, Part(T))
  <2>1. /\ Part(T) \subseteq S
        /\ \A x \in Part(T) : f[x] \in Nat
        /\ \A x \in S \ Part(T) : f[x] = 0
    OBVIOUS
  <2> HIDE DEF Part
  <2> QED BY <2>1, SumSupport
<1> QED BY <1>3, <1>4
=============================================================================
