------------------------------ MODULE SumProofs ------------------------------
(***************************************************************************)
(* Sums and products over finite sets, as the community modules define     *)
(* them: folds that take the elements in an order nobody knows.            *)
(*                                                                         *)
(* The induction is over the subsets of a finite set.  It is written with  *)
(* a smallest counterexample, so that no lemma takes an operator.          *)
(***************************************************************************)
EXTENDS Integers, FiniteSets, Functions, FiniteSetsExt, FiniteSetTheorems,
        WellFoundedInduction, TLAPS

\* Induction over finite sets, as the set that has a property and has no proper
\* subset that has it.
LEMMA LeastSet ==
    ASSUME NEW S, IsFiniteSet(S), NEW B, B \subseteq SUBSET S, B # {}
    PROVE  \E s \in B : \A t \in B : t \subseteq s => t = s
<1> DEFINE R == StrictSubsetOrdering(S)
<1>1. IsWellFoundedOn(R, FiniteSubsetsOf(S))
  BY FS_StrictSubsetOrderingWellFounded
<1>2. B \subseteq FiniteSubsetsOf(S)
  BY FS_Subset DEF FiniteSubsetsOf
<1>3. \A s, t \in SUBSET S : t \subseteq s /\ t # s => <<t, s>> \in R
  BY DEF StrictSubsetOrdering
<1> HIDE DEF R
<1>4. PICK s \in B : \A t \in B : ~ (<<t, s>> \in R)
  BY <1>1, <1>2, WFMin
<1> QED BY <1>3, <1>4

LEMMA LeastNatural ==
    ASSUME NEW T, T \subseteq Nat, T # {} PROVE \E x \in T : \A y \in T : x <= y
<1> DEFINE R == OpToRel(<, Nat)
<1>1. \A y, x \in Nat : y < x => <<y, x>> \in R
  BY Zenon DEF OpToRel
<1>2. IsWellFoundedOn(R, Nat)
  BY NatLessThanWellFounded, Zenon
<1> HIDE DEF R
<1>3. PICK x \in T : \A y \in T : ~ (<<y, x>> \in R)
  BY <1>2, WFMin
<1>4. ASSUME NEW y \in T PROVE x <= y
  <2>1. x \in Nat /\ y \in Nat /\ ~(y < x)
    BY <1>1, <1>3
  <2> QED BY <2>1
<1> QED BY <1>4

LEMMA GreatestNatural ==
    ASSUME NEW S, IsFiniteSet(S)
    PROVE  S \subseteq Nat /\ S # {} => \E x \in S : \A y \in S : y <= x
<1>0. SUFFICES ASSUME S \subseteq Nat /\ S # {} PROVE \E x \in S : \A y \in S : y <= x
  OBVIOUS
<1> DEFINE Greatest(s) == \E x \in s : \A y \in s : y <= x
           B == {s \in SUBSET S : s # {} /\ ~Greatest(s)}
<1>1. CASE B = {}
  <2>1. Greatest(S)
    BY <1>0, <1>1
  <2> QED BY <2>1
<1>2. CASE B # {}
  <2>1. PICK s \in B : \A t \in B : t \subseteq s => t = s
    <3>1. B \subseteq SUBSET S
      OBVIOUS
    <3> HIDE DEF B
    <3> QED BY <1>2, <3>1, LeastSet
  <2>2. PICK x \in s : TRUE
    BY <2>1
  <2>3. PICK y \in s : ~(y <= x)
    BY <2>1, <2>2
  <2>4. s \ {x} # {} /\ Greatest(s \ {x})
    <3>1. y \in s \ {x} /\ s \ {x} \in SUBSET S
      <4>1. x \in Nat /\ y \in Nat
        BY <1>0, <2>2, <2>3
      <4>2. y # x
        BY <2>3, <4>1
      <4> QED BY <4>2
    <3>2. s \ {x} \notin B
      <4> HIDE DEF B
      <4> QED BY <2>1, <2>2
    <3> QED BY <3>1, <3>2
  <2>5. PICK z \in s \ {x} : \A u \in s \ {x} : u <= z
    BY <2>4
  <2>6. \A u \in s : u <= z
    <3>1. x \in Nat /\ y \in Nat /\ z \in Nat /\ y <= z
      BY <1>0, <2>2, <2>3, <2>5
    <3>2. x <= z
      BY <2>3, <3>1
    <3> QED BY <2>5, <3>2
  <2> QED BY <2>1, <2>5, <2>6
<1> QED BY <1>1, <1>2

Pick(s) == CHOOSE x \in s : TRUE

LEMMA PickIn == ASSUME NEW s, s # {} PROVE Pick(s) \in s
BY DEF Pick

-----------------------------------------------------------------------------
(* Sums.                                                                   *)

\* g adds up w over every subset of S.
Adds(g, w, S) ==
    g = [s \in SUBSET S |-> IF s = {} THEN 0 ELSE w[Pick(s)] + g[s \ {Pick(s)}]]

\* What is added up for a set depends on no larger set.
LEMMA SameSums ==
    ASSUME NEW w, NEW S, IsFiniteSet(S), NEW T,
           NEW g, Adds(g, w, S), NEW h, Adds(h, w, T),
           NEW u, u \subseteq S, u \subseteq T
    PROVE  g[u] = h[u]
<1> DEFINE B == {s \in SUBSET u : g[s] # h[s]}
<1>1. CASE B = {}
  BY <1>1
<1>2. CASE B # {}
  <2>1. PICK s \in B : \A t \in B : t \subseteq s => t = s
    <3>1. B \subseteq SUBSET S
      OBVIOUS
    <3> HIDE DEF B
    <3> QED BY <1>2, <3>1, LeastSet
  <2>2. s \in SUBSET S /\ s \in SUBSET T
    OBVIOUS
  <2>3. g[s] = IF s = {} THEN 0 ELSE w[Pick(s)] + g[s \ {Pick(s)}]
    BY <2>2 DEF Adds
  <2>4. h[s] = IF s = {} THEN 0 ELSE w[Pick(s)] + h[s \ {Pick(s)}]
    BY <2>2 DEF Adds
  <2>5. s # {} /\ Pick(s) \in s
    BY <2>1, <2>3, <2>4, PickIn
  <2>6. g[s \ {Pick(s)}] = h[s \ {Pick(s)}]
    BY <2>1, <2>5
  <2> QED BY <2>1, <2>3, <2>4, <2>6
<1> QED BY <1>1, <1>2

\* The recursion of MapThenFoldSet defines a function.
LEMMA SumsExist ==
    ASSUME NEW w, NEW S, IsFiniteSet(S)
    PROVE  \E g : Adds(g, w, S)
<1> DEFINE B == {s \in SUBSET S : ~\E g : Adds(g, w, s)}
<1>1. CASE B = {}
  BY <1>1
<1>2. CASE B # {}
  <2>1. PICK s \in B : \A t \in B : t \subseteq s => t = s
    <3>1. B \subseteq SUBSET S
      OBVIOUS
    <3> HIDE DEF B
    <3> QED BY <1>2, <3>1, LeastSet
  <2>2. \A t \in SUBSET s : t # s => \E g : Adds(g, w, t)
    BY <2>1
  <2> DEFINE sum(t) == CHOOSE g : Adds(g, w, t)
             f == [t \in SUBSET s |-> IF t = {} THEN 0 ELSE
                       w[Pick(t)] + sum(t \ {Pick(t)})[t \ {Pick(t)}]]
  <2>3. \A t \in SUBSET s : t # s => Adds(sum(t), w, t)
    BY <2>2
  <2>4. \A t \in SUBSET s : t # s => f[t] = sum(t)[t]
    <3> SUFFICES ASSUME NEW t \in SUBSET s, t # s PROVE f[t] = sum(t)[t]
      OBVIOUS
    <3>1. Adds(sum(t), w, t)
      BY <2>3
    <3> HIDE DEF sum
    <3>2. sum(t)[t] = IF t = {} THEN 0 ELSE w[Pick(t)] + sum(t)[t \ {Pick(t)}]
      BY <3>1 DEF Adds
    <3>3. ASSUME t # {} PROVE sum(t)[t \ {Pick(t)}] = sum(t \ {Pick(t)})[t \ {Pick(t)}]
      <4>1. Pick(t) \in t /\ t \ {Pick(t)} # s /\ t \ {Pick(t)} \in SUBSET s
        BY <3>3, PickIn
      <4>2. Adds(sum(t \ {Pick(t)}), w, t \ {Pick(t)})
        BY <2>3, <4>1
      <4>3. IsFiniteSet(t)
        BY FS_Subset
      <4> QED BY <3>1, <4>2, <4>3, SameSums
    <3> QED BY <3>2, <3>3
  <2> HIDE DEF sum
  <2>5. \A t \in SUBSET s : t # {} => f[t \ {Pick(t)}] = sum(t \ {Pick(t)})[t \ {Pick(t)}]
    BY <2>4, PickIn
  <2>6. Adds(f, w, s)
    <3>1. f = [t \in SUBSET s |-> IF t = {} THEN 0 ELSE w[Pick(t)] + f[t \ {Pick(t)}]]
      BY <2>5
    <3> HIDE DEF f
    <3> QED BY <3>1 DEF Adds
  <2> QED BY <2>1, <2>6
<1> QED BY <1>1, <1>2

\* The sum is what that function has for the set.
LEMMA SumIs ==
    ASSUME NEW w, NEW S, IsFiniteSet(S)
    PROVE  \E g : Adds(g, w, S) /\ SumFunctionOnSet(w, S) = g[S]
<1> DEFINE iter == CHOOSE g : Adds(g, w, S)
<1>1. Adds(iter, w, S)
  BY SumsExist
<1>2. SumFunctionOnSet(w, S) = iter[S]
  BY Zenon DEF SumFunctionOnSet, FoldFunctionOnSet, MapThenFoldSet, Adds, Pick
<1> QED BY <1>1, <1>2

LEMMA SumEmpty == ASSUME NEW w PROVE SumFunctionOnSet(w, {}) = 0
<1>1. IsFiniteSet({})
  BY FS_EmptySet
<1>2. PICK g : Adds(g, w, {}) /\ SumFunctionOnSet(w, {}) = g[{}]
  BY <1>1, SumIs
<1> QED BY <1>2 DEF Adds

LEMMA SumStep ==
    ASSUME NEW w, NEW S, IsFiniteSet(S), S # {}
    PROVE  SumFunctionOnSet(w, S) =
              w[Pick(S)] + SumFunctionOnSet(w, S \ {Pick(S)})
<1> DEFINE T == S \ {Pick(S)}
<1>1. PICK g : Adds(g, w, S) /\ SumFunctionOnSet(w, S) = g[S]
  BY SumIs
<1>2. IsFiniteSet(T)
  BY FS_Subset
<1>3. PICK h : Adds(h, w, T) /\ SumFunctionOnSet(w, T) = h[T]
  BY <1>2, SumIs
<1>4. g[T] = h[T]
  BY <1>1, <1>3, SameSums
<1>5. g[S] = w[Pick(S)] + g[T]
  BY <1>1 DEF Adds
<1> QED BY <1>1, <1>3, <1>4, <1>5

LEMMA SumInt ==
    ASSUME NEW w, NEW S, IsFiniteSet(S), \A x \in S : w[x] \in Int
    PROVE  SumFunctionOnSet(w, S) \in Int
<1> DEFINE B == {s \in SUBSET S : SumFunctionOnSet(w, s) \notin Int}
<1>1. CASE B = {}
  BY <1>1
<1>2. CASE B # {}
  <2>1. PICK s \in B : \A t \in B : t \subseteq s => t = s
    <3>1. B \subseteq SUBSET S
      OBVIOUS
    <3> HIDE DEF B
    <3> QED BY <1>2, <3>1, LeastSet
  <2>2. s # {}
    <3>1. SumFunctionOnSet(w, s) \notin Int
      BY <2>1
    <3>2. SumFunctionOnSet(w, {}) = 0
      BY SumEmpty
    <3> QED BY <3>1, <3>2
  <2>3. Pick(s) \in s /\ IsFiniteSet(s)
    BY <2>2, PickIn, FS_Subset
  <2>4. SumFunctionOnSet(w, s \ {Pick(s)}) \in Int
    BY <2>1, <2>3
  <2>5. SumFunctionOnSet(w, s) = w[Pick(s)] + SumFunctionOnSet(w, s \ {Pick(s)})
    BY <2>2, <2>3, SumStep
  <2> QED BY <2>1, <2>3, <2>4, <2>5
<1> QED BY <1>1, <1>2

\* Any element can be taken out of a sum.
LEMMA SumRemove ==
    ASSUME NEW w, NEW S, IsFiniteSet(S), \A x \in S : w[x] \in Int, NEW x \in S
    PROVE  SumFunctionOnSet(w, S) = w[x] + SumFunctionOnSet(w, S \ {x})
<1> DEFINE Wrong(s) == \E y \in s :
              SumFunctionOnSet(w, s) # w[y] + SumFunctionOnSet(w, s \ {y})
           B == {s \in SUBSET S : Wrong(s)}
<1>1. CASE B = {}
  <2>1. S \notin B
    BY <1>1
  <2>2. \A y \in S :
           SumFunctionOnSet(w, S) = w[y] + SumFunctionOnSet(w, S \ {y})
    BY <2>1
  <2> QED BY <2>2
<1>2. CASE B # {}
  <2>1. PICK s \in B : \A t \in B : t \subseteq s => t = s
    <3>1. B \subseteq SUBSET S
      OBVIOUS
    <3> HIDE DEF B
    <3> QED BY <1>2, <3>1, LeastSet
  <2>2. PICK y \in s : SumFunctionOnSet(w, s) # w[y] + SumFunctionOnSet(w, s \ {y})
    BY <2>1
  <2> DEFINE z == Pick(s)
  <2>3. z \in s /\ IsFiniteSet(s) /\ s # {}
    BY <2>2, PickIn, FS_Subset
  <2>4. SumFunctionOnSet(w, s) = w[z] + SumFunctionOnSet(w, s \ {z})
    BY <2>3, SumStep
  <2> HIDE DEF z
  <2>5. y # z
    BY <2>2, <2>4
  <2>6. SumFunctionOnSet(w, s \ {z}) = w[y] + SumFunctionOnSet(w, (s \ {z}) \ {y})
    <3>1. s \ {z} \notin B /\ s \ {z} \in SUBSET S /\ y \in s \ {z}
      BY <2>1, <2>3, <2>5
    <3> QED BY <3>1
  <2>7. SumFunctionOnSet(w, s \ {y}) = w[z] + SumFunctionOnSet(w, (s \ {y}) \ {z})
    <3>1. s \ {y} \notin B /\ s \ {y} \in SUBSET S /\ z \in s \ {y}
      BY <2>1, <2>3, <2>5
    <3> QED BY <3>1
  <2>8. (s \ {z}) \ {y} = (s \ {y}) \ {z}
    OBVIOUS
  <2>9. SumFunctionOnSet(w, (s \ {y}) \ {z}) \in Int /\ w[y] \in Int /\ w[z] \in Int
    <3>1. IsFiniteSet((s \ {y}) \ {z})
      BY <2>3, FS_Subset
    <3> QED BY <2>3, <3>1, SumInt
  <2> DEFINE rest == SumFunctionOnSet(w, (s \ {y}) \ {z})
  <2>10. /\ SumFunctionOnSet(w, s) = w[z] + (w[y] + rest)
         /\ SumFunctionOnSet(w, s \ {y}) = w[z] + rest
    BY <2>4, <2>6, <2>7, <2>8
  <2>11. rest \in Int /\ w[y] \in Int /\ w[z] \in Int
    BY <2>9
  <2> HIDE DEF rest
  <2> QED BY <2>2, <2>10, <2>11
<1> HIDE DEF B
<1> QED BY <1>1, <1>2

\* Larger summands make a larger sum, one strictly larger a strictly larger one.
LEMMA SumLarger ==
    ASSUME NEW v, NEW w, NEW S, IsFiniteSet(S),
           \A x \in S : v[x] \in Int /\ w[x] \in Int /\ v[x] <= w[x]
    PROVE  /\ SumFunctionOnSet(v, S) <= SumFunctionOnSet(w, S)
           /\ (\E x \in S : v[x] < w[x]) =>
                 SumFunctionOnSet(v, S) < SumFunctionOnSet(w, S)
<1>0. ASSUME NEW s \in SUBSET S PROVE SumFunctionOnSet(v, s) <= SumFunctionOnSet(w, s)
  <2> DEFINE B == {t \in SUBSET S : ~(SumFunctionOnSet(v, t) <= SumFunctionOnSet(w, t))}
  <2>1. CASE B = {}
    BY <2>1
  <2>2. CASE B # {}
    <3>1. PICK t \in B : \A u \in B : u \subseteq t => u = t
      <4>1. B \subseteq SUBSET S
        OBVIOUS
      <4> HIDE DEF B
      <4> QED BY <2>2, <4>1, LeastSet
    <3>2. t # {}
      BY <3>1, SumEmpty
    <3> DEFINE x == Pick(t)
               u == t \ {x}
    <3>3. x \in t /\ IsFiniteSet(t) /\ IsFiniteSet(u)
      BY <3>2, PickIn, FS_Subset
    <3>4. SumFunctionOnSet(v, t) = v[x] + SumFunctionOnSet(v, u)
      BY <3>2, <3>3, SumStep
    <3>5. SumFunctionOnSet(w, t) = w[x] + SumFunctionOnSet(w, u)
      BY <3>2, <3>3, SumStep
    <3>6. SumFunctionOnSet(v, u) <= SumFunctionOnSet(w, u)
      BY <3>1, <3>3
    <3>7. SumFunctionOnSet(v, u) \in Int /\ SumFunctionOnSet(w, u) \in Int
      BY <3>3, SumInt
    <3>8. v[x] \in Int /\ w[x] \in Int /\ v[x] <= w[x]
      BY <3>3
    <3> HIDE DEF x, u
    <3>9. SumFunctionOnSet(v, t) <= SumFunctionOnSet(w, t)
      BY <3>4, <3>5, <3>6, <3>7, <3>8
    <3> QED BY <3>1, <3>9
  <2> QED BY <2>1, <2>2
<1>1. ASSUME NEW x \in S, v[x] < w[x]
      PROVE  SumFunctionOnSet(v, S) < SumFunctionOnSet(w, S)
  <2> DEFINE u == S \ {x}
  <2>1. SumFunctionOnSet(v, u) <= SumFunctionOnSet(w, u)
    BY <1>0
  <2>2. /\ SumFunctionOnSet(v, S) = v[x] + SumFunctionOnSet(v, u)
        /\ SumFunctionOnSet(w, S) = w[x] + SumFunctionOnSet(w, u)
    BY SumRemove
  <2>3. IsFiniteSet(u)
    BY FS_Subset
  <2>4. SumFunctionOnSet(v, u) \in Int /\ SumFunctionOnSet(w, u) \in Int
    BY <2>3, SumInt
  <2> HIDE DEF u
  <2> QED BY <1>1, <2>1, <2>2, <2>4
<1> QED BY <1>0, <1>1

LEMMA SumZero ==
    ASSUME NEW w, NEW S, IsFiniteSet(S), \A x \in S : w[x] = 0
    PROVE  SumFunctionOnSet(w, S) = 0
<1> DEFINE B == {s \in SUBSET S : SumFunctionOnSet(w, s) # 0}
<1>1. CASE B = {}
  BY <1>1
<1>2. CASE B # {}
  <2>1. PICK s \in B : \A t \in B : t \subseteq s => t = s
    <3>1. B \subseteq SUBSET S
      OBVIOUS
    <3> HIDE DEF B
    <3> QED BY <1>2, <3>1, LeastSet
  <2>2. s # {} /\ IsFiniteSet(s)
    BY <2>1, SumEmpty, FS_Subset
  <2>3. Pick(s) \in s /\ w[Pick(s)] = 0
    BY <2>2, PickIn
  <2>4. SumFunctionOnSet(w, s) = w[Pick(s)] + SumFunctionOnSet(w, s \ {Pick(s)})
    BY <2>2, SumStep
  <2>5. s \ {Pick(s)} \notin B
    BY <2>1, <2>3
  <2>6. SumFunctionOnSet(w, s \ {Pick(s)}) = 0
    BY <2>5
  <2> QED BY <2>1, <2>3, <2>4, <2>6
<1> QED BY <1>1, <1>2

LEMMA SumSame ==
    ASSUME NEW v, NEW w, NEW S, IsFiniteSet(S), \A x \in S : v[x] \in Int /\ w[x] = v[x]
    PROVE  SumFunctionOnSet(v, S) = SumFunctionOnSet(w, S)
<1>1. SumFunctionOnSet(v, S) <= SumFunctionOnSet(w, S)
  BY SumLarger
<1>2. SumFunctionOnSet(w, S) <= SumFunctionOnSet(v, S)
  BY SumLarger
<1>3. SumFunctionOnSet(v, S) \in Int /\ SumFunctionOnSet(w, S) \in Int
  BY SumInt
<1> QED BY <1>1, <1>2, <1>3

\* Counts over a larger set are no smaller.
LEMMA SumBigger ==
    ASSUME NEW w, NEW T, IsFiniteSet(T), \A x \in T : w[x] \in Nat, NEW S, S \subseteq T
    PROVE  /\ SumFunctionOnSet(w, S) \in Nat /\ SumFunctionOnSet(w, T) \in Nat
           /\ SumFunctionOnSet(w, S) <= SumFunctionOnSet(w, T)
<1> DEFINE Wrong(t) == \/ SumFunctionOnSet(w, t) \notin Nat
                       \/ \E s \in SUBSET t :
                             ~(SumFunctionOnSet(w, s) <= SumFunctionOnSet(w, t))
           B == {t \in SUBSET T : Wrong(t)}
<1>1. CASE B = {}
  <2>1. S \notin B /\ T \notin B
    BY <1>1
  <2>2. ~Wrong(S) /\ ~Wrong(T)
    BY <2>1
  <2> QED BY <2>2
<1>2. CASE B # {}
  <2>1. PICK t \in B : \A u \in B : u \subseteq t => u = t
    <3>1. B \subseteq SUBSET T
      OBVIOUS
    <3> HIDE DEF B
    <3> QED BY <1>2, <3>1, LeastSet
  <2>2. IsFiniteSet(t)
    BY FS_Subset
  <2>3. ASSUME NEW x \in t
        PROVE  /\ SumFunctionOnSet(w, t) = w[x] + SumFunctionOnSet(w, t \ {x})
               /\ SumFunctionOnSet(w, t \ {x}) \in Nat /\ w[x] \in Nat
               /\ \A s \in SUBSET (t \ {x}) :
                     SumFunctionOnSet(w, s) <= SumFunctionOnSet(w, t \ {x})
    <3>1. t \ {x} \in SUBSET T /\ t \ {x} \notin B
      BY <2>1
    <3>2. ~Wrong(t \ {x})
      BY <3>1
    <3>3. SumFunctionOnSet(w, t) = w[x] + SumFunctionOnSet(w, t \ {x})
      BY <2>2, SumRemove
    <3> QED BY <3>2, <3>3
  <2>4. SumFunctionOnSet(w, t) \in Nat
    <3>1. CASE t = {}
      <4>1. SumFunctionOnSet(w, {}) = 0
        BY SumEmpty
      <4> QED BY <3>1, <4>1
    <3>2. ASSUME NEW x \in t PROVE SumFunctionOnSet(w, t) \in Nat
      <4>1. /\ SumFunctionOnSet(w, t) = w[x] + SumFunctionOnSet(w, t \ {x})
            /\ SumFunctionOnSet(w, t \ {x}) \in Nat /\ w[x] \in Nat
        BY <2>3
      <4> QED BY <4>1
    <3> HIDE DEF B
    <3> QED BY <3>1, <3>2
  <2>5. ASSUME NEW s \in SUBSET t PROVE SumFunctionOnSet(w, s) <= SumFunctionOnSet(w, t)
    <3>1. CASE s = t
      BY <2>4, <3>1
    <3>2. CASE s # t
      <4>1. PICK x \in t : x \notin s
        BY <3>2
      <4>2. SumFunctionOnSet(w, s) <= SumFunctionOnSet(w, t \ {x})
        BY <2>3, <4>1
      <4>3. SumFunctionOnSet(w, s) \in Int
        <5>1. IsFiniteSet(s)
          BY <2>2, FS_Subset
        <5> QED BY <5>1, SumInt
      <4>4. /\ SumFunctionOnSet(w, t) = w[x] + SumFunctionOnSet(w, t \ {x})
            /\ SumFunctionOnSet(w, t \ {x}) \in Nat /\ w[x] \in Nat
        BY <2>3
      <4> QED BY <4>2, <4>3, <4>4
    <3> QED BY <3>1, <3>2
  <2>6. ~Wrong(t)
    BY <2>4, <2>5
  <2> QED BY <2>1, <2>6
<1> QED BY <1>1, <1>2

-----------------------------------------------------------------------------
(* Products.                                                               *)

\* g multiplies the elements of every subset of S.
Multiplies(g, S) ==
    g = [s \in SUBSET S |-> IF s = {} THEN 1 ELSE Pick(s) * g[s \ {Pick(s)}]]

\* What is multiplied for a set depends on no larger set.
LEMMA SameProducts ==
    ASSUME NEW S, IsFiniteSet(S), NEW T,
           NEW g, Multiplies(g, S), NEW h, Multiplies(h, T),
           NEW u, u \subseteq S, u \subseteq T
    PROVE  g[u] = h[u]
<1> DEFINE B == {s \in SUBSET u : g[s] # h[s]}
<1>1. CASE B = {}
  BY <1>1
<1>2. CASE B # {}
  <2>1. PICK s \in B : \A t \in B : t \subseteq s => t = s
    <3>1. B \subseteq SUBSET S
      OBVIOUS
    <3> HIDE DEF B
    <3> QED BY <1>2, <3>1, LeastSet
  <2>2. s \in SUBSET S /\ s \in SUBSET T
    OBVIOUS
  <2>3. g[s] = IF s = {} THEN 1 ELSE Pick(s) * g[s \ {Pick(s)}]
    BY <2>2 DEF Multiplies
  <2>4. h[s] = IF s = {} THEN 1 ELSE Pick(s) * h[s \ {Pick(s)}]
    BY <2>2 DEF Multiplies
  <2>5. s # {} /\ Pick(s) \in s
    BY <2>1, <2>3, <2>4, PickIn
  <2>6. g[s \ {Pick(s)}] = h[s \ {Pick(s)}]
    BY <2>1, <2>5
  <2> QED BY <2>1, <2>3, <2>4, <2>6
<1> QED BY <1>1, <1>2

LEMMA ProductsExist ==
    ASSUME NEW S, IsFiniteSet(S)
    PROVE  \E g : Multiplies(g, S)
<1> DEFINE B == {s \in SUBSET S : ~\E g : Multiplies(g, s)}
<1>1. CASE B = {}
  BY <1>1
<1>2. CASE B # {}
  <2>1. PICK s \in B : \A t \in B : t \subseteq s => t = s
    <3>1. B \subseteq SUBSET S
      OBVIOUS
    <3> HIDE DEF B
    <3> QED BY <1>2, <3>1, LeastSet
  <2>2. \A t \in SUBSET s : t # s => \E g : Multiplies(g, t)
    BY <2>1
  <2> DEFINE product(t) == CHOOSE g : Multiplies(g, t)
             f == [t \in SUBSET s |-> IF t = {} THEN 1 ELSE
                       Pick(t) * product(t \ {Pick(t)})[t \ {Pick(t)}]]
  <2>3. \A t \in SUBSET s : t # s => Multiplies(product(t), t)
    BY <2>2
  <2>4. \A t \in SUBSET s : t # s => f[t] = product(t)[t]
    <3> SUFFICES ASSUME NEW t \in SUBSET s, t # s PROVE f[t] = product(t)[t]
      OBVIOUS
    <3>1. Multiplies(product(t), t)
      BY <2>3
    <3> HIDE DEF product
    <3>2. product(t)[t] = IF t = {} THEN 1 ELSE Pick(t) * product(t)[t \ {Pick(t)}]
      BY <3>1 DEF Multiplies
    <3>3. ASSUME t # {} PROVE product(t)[t \ {Pick(t)}] = product(t \ {Pick(t)})[t \ {Pick(t)}]
      <4>1. Pick(t) \in t /\ t \ {Pick(t)} # s /\ t \ {Pick(t)} \in SUBSET s
        BY <3>3, PickIn
      <4>2. Multiplies(product(t \ {Pick(t)}), t \ {Pick(t)})
        BY <2>3, <4>1
      <4>3. IsFiniteSet(t)
        BY FS_Subset
      <4> QED BY <3>1, <4>2, <4>3, SameProducts
    <3> QED BY <3>2, <3>3
  <2> HIDE DEF product
  <2>5. \A t \in SUBSET s : t # {} => f[t \ {Pick(t)}] = product(t \ {Pick(t)})[t \ {Pick(t)}]
    BY <2>4, PickIn
  <2>6. Multiplies(f, s)
    <3>1. f = [t \in SUBSET s |-> IF t = {} THEN 1 ELSE Pick(t) * f[t \ {Pick(t)}]]
      BY <2>5
    <3> HIDE DEF f
    <3> QED BY <3>1 DEF Multiplies
  <2> QED BY <2>1, <2>6
<1> QED BY <1>1, <1>2

LEMMA ProductIs ==
    ASSUME NEW S, IsFiniteSet(S)
    PROVE  \E g : Multiplies(g, S) /\ ProductSet(S) = g[S]
<1> DEFINE iter == CHOOSE g : Multiplies(g, S)
<1>1. Multiplies(iter, S)
  BY ProductsExist
<1>2. ProductSet(S) = iter[S]
  BY Zenon DEF ProductSet, FoldSet, MapThenFoldSet, Multiplies, Pick
<1> QED BY <1>1, <1>2

LEMMA ProductEmpty == ProductSet({}) = 1
<1>1. IsFiniteSet({})
  BY FS_EmptySet
<1>2. PICK g : Multiplies(g, {}) /\ ProductSet({}) = g[{}]
  BY <1>1, ProductIs
<1> QED BY <1>2 DEF Multiplies

LEMMA ProductStep ==
    ASSUME NEW S, IsFiniteSet(S), S # {}
    PROVE  ProductSet(S) = Pick(S) * ProductSet(S \ {Pick(S)})
<1> DEFINE T == S \ {Pick(S)}
<1>1. PICK g : Multiplies(g, S) /\ ProductSet(S) = g[S]
  BY ProductIs
<1>2. IsFiniteSet(T)
  BY FS_Subset
<1>3. PICK h : Multiplies(h, T) /\ ProductSet(T) = h[T]
  BY <1>2, ProductIs
<1>4. g[T] = h[T]
  BY <1>1, <1>3, SameProducts
<1>5. g[S] = Pick(S) * g[T]
  BY <1>1 DEF Multiplies
<1> QED BY <1>1, <1>3, <1>4, <1>5

\* A product of positive numbers is a positive multiple of each.
LEMMA ProductDivides ==
    ASSUME NEW S, IsFiniteSet(S), S \subseteq Nat \ {0}
    PROVE  /\ ProductSet(S) \in Nat \ {0}
           /\ \A x \in S : \E k \in Nat \ {0} : ProductSet(S) = x * k
<1> DEFINE Right(s) == /\ ProductSet(s) \in Nat \ {0}
                       /\ \A x \in s : \E k \in Nat \ {0} : ProductSet(s) = x * k
           B == {s \in SUBSET S : ~Right(s)}
<1>1. CASE B = {}
  <2>1. S \notin B
    BY <1>1
  <2>2. Right(S)
    BY <2>1
  <2> QED BY <2>2
<1>2. CASE B # {}
  <2>1. PICK s \in B : \A t \in B : t \subseteq s => t = s
    <3>1. B \subseteq SUBSET S
      OBVIOUS
    <3> HIDE DEF B
    <3> QED BY <1>2, <3>1, LeastSet
  <2>2. CASE s = {}
    <3>1. Right({})
      BY ProductEmpty
    <3> QED BY <2>1, <2>2, <3>1
  <2>3. CASE s # {}
    <3> DEFINE y == Pick(s)
               t == s \ {y}
    <3>1. y \in s /\ IsFiniteSet(s) /\ y \in Nat \ {0}
      BY <2>3, PickIn, FS_Subset
    <3>2. ProductSet(s) = y * ProductSet(t)
      BY <2>3, <3>1, ProductStep
    <3>3. Right(t)
      <4>1. t \in SUBSET S /\ t \notin B
        BY <2>1, <3>1
      <4> QED BY <4>1
    <3>4. \A x \in s : x = y \/ x \in t
      OBVIOUS
    <3>5. \A x \in s : x \in Nat \ {0}
      OBVIOUS
    <3> HIDE DEF y, t
    <3>6. PICK m \in Nat \ {0} : ProductSet(t) = m
      BY <3>3
    <3>7. ProductSet(s) \in Nat \ {0}
      BY <3>1, <3>2, <3>6
    <3>8. ASSUME NEW x \in s PROVE \E k \in Nat \ {0} : ProductSet(s) = x * k
      <4>1. CASE x = y
        BY <3>2, <3>6, <4>1
      <4>2. CASE x \in t
        <5>1. PICK k \in Nat \ {0} : m = x * k
          BY <3>3, <3>6, <4>2
        <5>2. y * (x * k) = x * (y * k) /\ y * k \in Nat \ {0}
          BY <3>1, <3>5
        <5> QED BY <3>2, <3>6, <5>1, <5>2
      <4> QED BY <3>4, <4>1, <4>2
    <3>9. Right(s)
      BY <3>7, <3>8
    <3> QED BY <2>1, <3>9
  <2> QED BY <2>2, <2>3
<1> QED BY <1>1, <1>2
=============================================================================
