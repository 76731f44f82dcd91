------------------------------ MODULE FoldFacts -----------------------------
(***************************************************************************)
(* Facts about what recursive definitions compute: sums over finite sets   *)
(* (as the community modules define them), the places of a sorted set,     *)
(* functions defined by recursion on 0..n, the filter of SeqFilter, and    *)
(* sequences without repetition, which cuts and rotations keep so.         *)
(*                                                                         *)
(* Such facts are matters of induction.  Every proof takes the set of the  *)
(* counterexamples and a smallest one of them (LeastNatural, SmallestSet), *)
(* or, for numbers up to n, shows a set to be closed (Climbs).             *)
(***************************************************************************)
EXTENDS Integers, Sequences, FiniteSets, Functions, SequencesExt, SeqFilter, FiniteSetTheorems,
        SequenceTheorems, WellFoundedInduction, NaturalsInduction, TLAPS

\* A nonempty set of natural numbers has a least one.
LEMMA LeastNatural ==
    ASSUME NEW S, S \subseteq Nat, S # {}
    PROVE  \E i \in S : \A j \in S : i <= j
  <1>1. PICK x \in S : \A y \in S : ~(<<y, x>> \in OpToRel(<, Nat))
    BY NatLessThanWellFounded, WFMin
  <1>2. ASSUME NEW y \in S PROVE x <= y
    <2>1. x \in Nat /\ y \in Nat /\ ~(<<y, x>> \in {ss \in Nat \X Nat : ss[1] < ss[2]})
      BY <1>1, Zenon DEF OpToRel
    <2> QED BY <2>1
  <1> QED BY <1>2

\* A nonempty set of finite sets has one that is not in it any more without
\* one of its elements.
LEMMA SmallestSet ==
    ASSUME NEW S, IsFiniteSet(S), NEW bad, \A s \in bad : s \subseteq S, bad # {}
    PROVE  \E s \in bad : IsFiniteSet(s) /\ \A x \in s : s \ {x} \notin bad
  <1> DEFINE sizes == {Cardinality(s) : s \in bad}
  <1>1. \A s \in bad : IsFiniteSet(s) /\ Cardinality(s) \in Nat
    BY FS_Subset, FS_CardinalityType
  <1>2. sizes \subseteq Nat /\ sizes # {}
    BY <1>1
  <1>3. PICK k \in sizes : \A j \in sizes : k <= j
    <2> HIDE DEF sizes
    <2> QED BY <1>2, LeastNatural
  <1>4. PICK s \in bad : Cardinality(s) = k /\ \A t \in bad : k <= Cardinality(t)
    BY <1>3
  <1>5. ASSUME NEW x \in s, s \ {x} \in bad PROVE FALSE
    <2>1. Cardinality(s \ {x}) = k - 1 /\ k \in Nat
      BY <1>1, <1>4, FS_RemoveElement
    <2>2. k <= k - 1
      BY <1>4, <1>5, <2>1
    <2> QED BY <2>1, <2>2
  <1> QED BY <1>1, <1>4, <1>5

-----------------------------------------------------------------------------
(* The recursive function under a sum exists and is unique. *)

Pick(s) == CHOOSE x \in s : TRUE
Adds(f, D, g) == g = [s \in D |-> IF s = {} THEN 0 ELSE f[Pick(s)] + g[s \ {Pick(s)}]]
Sums(f, S, g) == Adds(f, SUBSET S, g)
Upto(S, k) == {s \in SUBSET S : Cardinality(s) <= k}

\* The definitions of the community modules, expanded.
LEMMA SumIs ==
    ASSUME NEW f, NEW S
    PROVE  SumFunctionOnSet(f, S) = (CHOOSE g : Sums(f, S, g))[S]
  BY DEF SumFunctionOnSet, FoldFunctionOnSet, MapThenFoldSet, Adds, Sums, Pick

\* Two solutions of the equation agree where both are defined.
LEMMA SumsUnique ==
    ASSUME NEW f, NEW S, NEW T, IsFiniteSet(S), T \subseteq S,
           NEW g, Sums(f, S, g), NEW h, Sums(f, T, h), NEW r \in SUBSET T
    PROVE  g[r] = h[r]
  <1> DEFINE bad == {s \in SUBSET T : g[s] # h[s]}
  <1> SUFFICES ASSUME bad # {} PROVE FALSE
    OBVIOUS
  <1>1. \A s \in bad : s \subseteq S
    OBVIOUS
  <1>2. PICK s \in bad : \A x \in s : s \ {x} \notin bad
    <2> HIDE DEF bad
    <2> QED BY <1>1, SmallestSet
  <1>3. s \in SUBSET T /\ s \in SUBSET S /\ g[s] # h[s]
    BY <1>2
  <1>4. s # {}
    BY <1>3 DEF Adds, Sums
  <1>5. Pick(s) \in s
    BY <1>4 DEF Pick
  <1>6. g[s \ {Pick(s)}] = h[s \ {Pick(s)}]
    BY <1>2, <1>3, <1>5
  <1>7. /\ g[s] = f[Pick(s)] + g[s \ {Pick(s)}]
        /\ h[s] = f[Pick(s)] + h[s \ {Pick(s)}]
    BY <1>3, <1>4 DEF Adds, Sums
  <1> QED BY <1>3, <1>6, <1>7

\* There is a solution, built up from the smaller sets to the larger ones.
LEMMA SumsExist ==
    ASSUME NEW f, NEW S, IsFiniteSet(S)
    PROVE  \E g : Sums(f, S, g)
  <1> DEFINE bad == {k \in Nat : ~\E g : Adds(f, Upto(S, k), g)}
  <1>1. \A s \in SUBSET S : IsFiniteSet(s) /\ Cardinality(s) \in Nat
    BY FS_Subset, FS_CardinalityType
  <1>2. ASSUME bad # {} PROVE FALSE
    <2>1. PICK k \in bad : \A j \in bad : k <= j
      <3>1. bad \subseteq Nat
        OBVIOUS
      <3> HIDE DEF bad
      <3> QED BY <1>2, <3>1, LeastNatural
    <2>2. k \in Nat /\ ~\E g : Adds(f, Upto(S, k), g)
      BY <2>1
    <2>3. CASE k = 0
      <3> DEFINE g == [s \in Upto(S, 0) |-> 0]
      <3>1. \A s \in Upto(S, 0) : s = {}
        BY <1>1, FS_EmptySet DEF Upto
      <3>2. Adds(f, Upto(S, 0), g)
        BY <3>1 DEF Adds
      <3> QED BY <2>2, <2>3, <3>2
    <2>4. CASE k # 0
      <3>1. k - 1 \in Nat /\ ~(k <= k - 1)
        BY <2>2, <2>4
      <3>2. k - 1 \notin bad
        BY <2>1, <3>1
      <3>3. PICK g : Adds(f, Upto(S, k - 1), g)
        BY <3>1, <3>2
      <3> DEFINE h == [s \in Upto(S, k) |-> IF s = {} THEN 0 ELSE f[Pick(s)] + g[s \ {Pick(s)}]]
      <3>4. ASSUME NEW s \in Upto(S, k), s # {}
            PROVE  s \ {Pick(s)} \in Upto(S, k - 1) /\ s \ {Pick(s)} \in Upto(S, k)
        <4>1. Pick(s) \in s
          BY <3>4 DEF Pick
        <4>2. s \in SUBSET S /\ Cardinality(s) <= k /\ s \ {Pick(s)} \in SUBSET S
          BY DEF Upto
        <4>3. Cardinality(s \ {Pick(s)}) = Cardinality(s) - 1 /\ Cardinality(s) \in Nat
          BY <1>1, <4>1, <4>2, FS_RemoveElement
        <4>4. Cardinality(s \ {Pick(s)}) <= k - 1 /\ Cardinality(s \ {Pick(s)}) <= k
          BY <2>2, <4>2, <4>3
        <4> QED BY <4>2, <4>4 DEF Upto
      <3>5. ASSUME NEW s \in Upto(S, k - 1) PROVE s \in Upto(S, k) /\ h[s] = g[s]
        <4>1. s \in Upto(S, k)
          <5>1. s \in SUBSET S /\ Cardinality(s) <= k - 1 /\ Cardinality(s) \in Nat
            BY <1>1 DEF Upto
          <5> QED BY <2>2, <5>1 DEF Upto
        <4>2. g[s] = IF s = {} THEN 0 ELSE f[Pick(s)] + g[s \ {Pick(s)}]
          BY <3>3 DEF Adds
        <4> QED BY <4>1, <4>2
      <3>6. \A s \in Upto(S, k) : h[s] = IF s = {} THEN 0 ELSE f[Pick(s)] + h[s \ {Pick(s)}]
        BY <3>4, <3>5
      <3>7. Adds(f, Upto(S, k), h)
        BY <3>6 DEF Adds
      <3> QED BY <2>2, <3>7
    <2> QED BY <2>3, <2>4
  <1>3. Upto(S, Cardinality(S)) = SUBSET S
    BY FS_Subset DEF Upto
  <1>4. Cardinality(S) \in Nat /\ Cardinality(S) \notin bad
    BY <1>1, <1>2
  <1> QED BY <1>3, <1>4 DEF Sums

-----------------------------------------------------------------------------
(* Sums *)

\* The sum of an empty set is 0, that of another one its picked element more
\* than that of the rest.
LEMMA SumUnfolds ==
    ASSUME NEW f, NEW S, IsFiniteSet(S)
    PROVE  /\ S = {} => SumFunctionOnSet(f, S) = 0
           /\ S # {} => Pick(S) \in S /\ SumFunctionOnSet(f, S) = f[Pick(S)] + SumFunctionOnSet(f, S \ {Pick(S)})
  <1> DEFINE T == S \ {Pick(S)}
             g == CHOOSE h : Sums(f, S, h)
             k == CHOOSE h : Sums(f, T, h)
  <1>1. IsFiniteSet(T) /\ T \subseteq S
    BY FS_Subset
  <1>2. Sums(f, S, g) /\ Sums(f, T, k)
    BY <1>1, SumsExist
  <1>3. SumFunctionOnSet(f, S) = g[S] /\ SumFunctionOnSet(f, T) = k[T]
    BY SumIs
  <1> HIDE DEF g, k, T
  <1>4. g[T] = k[T]
    BY <1>1, <1>2, SumsUnique
  <1>5. g[S] = IF S = {} THEN 0 ELSE f[Pick(S)] + g[T]
    BY <1>2 DEF Adds, Sums, T
  <1>6. S # {} => Pick(S) \in S
    BY DEF Pick
  <1> QED BY <1>3, <1>4, <1>5, <1>6 DEF T

\* Sums of natural numbers are natural numbers, and depend on the summands only.
LEMMA SumNat ==
    ASSUME NEW f, NEW S, IsFiniteSet(S), \A x \in S : f[x] \in Nat
    PROVE  /\ SumFunctionOnSet(f, S) \in Nat
           /\ \A g : (\A x \in S : g[x] = f[x]) => SumFunctionOnSet(g, S) = SumFunctionOnSet(f, S)
  <1> DEFINE Good(s) == /\ SumFunctionOnSet(f, s) \in Nat
                        /\ \A g : (\A x \in S : g[x] = f[x]) => SumFunctionOnSet(g, s) = SumFunctionOnSet(f, s)
             bad == {s \in SUBSET S : ~Good(s)}
  <1> SUFFICES ASSUME bad # {} PROVE FALSE
    <2>1. S \in SUBSET S
      OBVIOUS
    <2> QED BY <2>1
  <1>1. \A s \in bad : s \subseteq S
    OBVIOUS
  <1>2. PICK s \in bad : IsFiniteSet(s) /\ \A x \in s : s \ {x} \notin bad
    <2> HIDE DEF bad
    <2> QED BY <1>1, SmallestSet
  <1>3. s \subseteq S /\ ~Good(s) /\ \A x \in s : Good(s \ {x})
    BY <1>2
  <1>4. \A h : /\ s = {} => SumFunctionOnSet(h, s) = 0
               /\ s # {} => Pick(s) \in s /\ SumFunctionOnSet(h, s) = h[Pick(s)] + SumFunctionOnSet(h, s \ {Pick(s)})
    BY <1>2, SumUnfolds
  <1> HIDE DEF bad
  <1>5. CASE s = {}
    BY <1>3, <1>4, <1>5
  <1>6. CASE s # {}
    <2>1. Pick(s) \in S /\ f[Pick(s)] \in Nat /\ Good(s \ {Pick(s)})
      <3> HIDE DEF Good
      <3> QED BY <1>3, <1>4, <1>6
    <2>2. Good(s)
      BY <1>4, <1>6, <2>1
    <2> QED BY <1>3, <2>2
  <1> QED BY <1>5, <1>6

\* Any element may be the first.
LEMMA SumRemoves ==
    ASSUME NEW f, NEW S, IsFiniteSet(S), \A x \in S : f[x] \in Nat, NEW y \in S
    PROVE  SumFunctionOnSet(f, S) = f[y] + SumFunctionOnSet(f, S \ {y})
  <1> DEFINE Good(s) == \A z \in s : SumFunctionOnSet(f, s) = f[z] + SumFunctionOnSet(f, s \ {z})
             bad == {s \in SUBSET S : ~Good(s)}
  <1> SUFFICES ASSUME bad # {} PROVE FALSE
    <2>1. S \in SUBSET S
      OBVIOUS
    <2> QED BY <2>1
  <1>1. \A s \in bad : s \subseteq S
    OBVIOUS
  <1>2. PICK s \in bad : IsFiniteSet(s) /\ \A x \in s : s \ {x} \notin bad
    <2> HIDE DEF bad
    <2> QED BY <1>1, SmallestSet
  <1>3. s \subseteq S /\ ~Good(s) /\ \A x \in s : Good(s \ {x})
    BY <1>2
  <1> HIDE DEF bad
  <1>4. PICK z \in s : SumFunctionOnSet(f, s) # f[z] + SumFunctionOnSet(f, s \ {z})
    BY <1>3
  <1> DEFINE p == Pick(s)
  <1>5. p \in s /\ SumFunctionOnSet(f, s) = f[p] + SumFunctionOnSet(f, s \ {p})
    BY <1>2, <1>4, SumUnfolds
  <1> HIDE DEF p
  <1>6. p # z
    BY <1>4, <1>5
  <1>7. /\ SumFunctionOnSet(f, s \ {p}) = f[z] + SumFunctionOnSet(f, (s \ {p}) \ {z})
        /\ SumFunctionOnSet(f, s \ {z}) = f[p] + SumFunctionOnSet(f, (s \ {z}) \ {p})
    BY <1>3, <1>4, <1>5, <1>6
  <1>8. (s \ {p}) \ {z} = (s \ {z}) \ {p}
    OBVIOUS
  <1> DEFINE rest == SumFunctionOnSet(f, (s \ {p}) \ {z})
             fp == f[p]
             fz == f[z]
  <1>9. fp \in Nat /\ fz \in Nat /\ rest \in Nat
    <2>1. IsFiniteSet((s \ {p}) \ {z}) /\ \A x \in (s \ {p}) \ {z} : f[x] \in Nat
      BY <1>2, <1>3, FS_Subset
    <2>2. rest \in Nat
      BY <2>1, SumNat
    <2> QED BY <1>3, <1>5, <2>2
  <1>10. /\ SumFunctionOnSet(f, s) = fp + (fz + rest) /\ SumFunctionOnSet(f, s \ {z}) = fp + rest
         /\ SumFunctionOnSet(f, s) # fz + SumFunctionOnSet(f, s \ {z})
    BY <1>4, <1>5, <1>7, <1>8
  <1> HIDE DEF rest, fp, fz
  <1> QED BY <1>9, <1>10

\* A new element adds its number.
LEMMA SumAdds ==
    ASSUME NEW f, NEW S, IsFiniteSet(S), \A x \in S : f[x] \in Nat, NEW y, y \notin S, f[y] \in Nat
    PROVE  SumFunctionOnSet(f, S \cup {y}) = SumFunctionOnSet(f, S) + f[y]
  <1>1. IsFiniteSet(S \cup {y}) /\ (S \cup {y}) \ {y} = S /\ y \in S \cup {y}
    BY FS_AddElement
  <1>2. SumFunctionOnSet(f, S \cup {y}) = f[y] + SumFunctionOnSet(f, (S \cup {y}) \ {y})
    BY <1>1, SumRemoves
  <1>3. SumFunctionOnSet(f, S) \in Nat
    BY SumNat
  <1>4. SumFunctionOnSet(f, S \cup {y}) = f[y] + SumFunctionOnSet(f, S)
    BY <1>1, <1>2
  <1> QED BY <1>3, <1>4

\* A part sums up to no more than the whole.
LEMMA SumMonotone ==
    ASSUME NEW f, NEW S, IsFiniteSet(S), \A x \in S : f[x] \in Nat, NEW T, T \subseteq S
    PROVE  SumFunctionOnSet(f, T) <= SumFunctionOnSet(f, S)
  <1> DEFINE Good(s) == SumFunctionOnSet(f, T) <= SumFunctionOnSet(f, s)
             bad == {s \in SUBSET S : T \subseteq s /\ ~Good(s)}
  <1> SUFFICES ASSUME bad # {} PROVE FALSE
    <2>1. S \in SUBSET S
      OBVIOUS
    <2> QED BY <2>1
  <1>1. \A s \in bad : s \subseteq S
    OBVIOUS
  <1>2. PICK s \in bad : IsFiniteSet(s) /\ \A x \in s : s \ {x} \notin bad
    <2> HIDE DEF bad
    <2> QED BY <1>1, SmallestSet
  <1>3. s \subseteq S /\ T \subseteq s /\ ~Good(s) /\ \A x \in s : T \subseteq s \ {x} => Good(s \ {x})
    BY <1>2
  <1> HIDE DEF bad
  <1>4. IsFiniteSet(T) /\ (\A x \in T : f[x] \in Nat) /\ SumFunctionOnSet(f, T) \in Nat
    <2>1. IsFiniteSet(T) /\ \A x \in T : f[x] \in Nat
      BY FS_Subset
    <2> QED BY <2>1, SumNat
  <1>5. PICK y \in s : y \notin T
    <2>1. T # s
      BY <1>3, <1>4
    <2> QED BY <1>3, <2>1
  <1> DEFINE t == s \ {y}
  <1>6. SumFunctionOnSet(f, s) = f[y] + SumFunctionOnSet(f, t)
    <2>1. \A x \in s : f[x] \in Nat
      BY <1>3
    <2> QED BY <1>2, <1>5, <2>1, SumRemoves
  <1>7. T \subseteq t /\ f[y] \in Nat /\ SumFunctionOnSet(f, t) \in Nat
    <2>1. IsFiniteSet(t) /\ \A x \in t : f[x] \in Nat
      BY <1>2, <1>3, FS_Subset
    <2>2. SumFunctionOnSet(f, t) \in Nat
      BY <2>1, SumNat
    <2> QED BY <1>3, <1>5, <2>2
  <1>8. SumFunctionOnSet(f, T) <= SumFunctionOnSet(f, t)
    BY <1>3, <1>7
  <1> HIDE DEF t
  <1> QED BY <1>3, <1>4, <1>6, <1>7, <1>8

\* An element adds at most its number.
LEMMA SumAddsAtMost ==
    ASSUME NEW f, NEW S, IsFiniteSet(S), \A x \in S : f[x] \in Nat, NEW y, f[y] \in Nat
    PROVE  SumFunctionOnSet(f, S \cup {y}) <= SumFunctionOnSet(f, S) + f[y]
  <1>1. SumFunctionOnSet(f, S) \in Nat
    BY SumNat
  <1>2. CASE y \in S
    <2>1. S \cup {y} = S
      BY <1>2
    <2> QED BY <1>1, <2>1
  <1>3. CASE y \notin S
    <2>1. SumFunctionOnSet(f, S \cup {y}) = SumFunctionOnSet(f, S) + f[y]
      BY <1>3, SumAdds
    <2> QED BY <1>1, <2>1
  <1> QED BY <1>2, <1>3

\* Where each element of X is in R or paid for by an element of Q, the sum of X
\* is at most that of R with the payments.
LEMMA SumCovered ==
    ASSUME NEW f, NEW R, IsFiniteSet(R), \A x \in R : f[x] \in Nat,
           NEW Q, IsFiniteSet(Q), NEW g, NEW c, \A q \in Q : c[q] \in Nat /\ f[g[q]] \in Nat,
           NEW X, \A x \in X : x \in R \/ \E q \in Q : g[q] = x /\ c[q] = f[x]
    PROVE  SumFunctionOnSet(f, X) <= SumFunctionOnSet(f, R) + SumFunctionOnSet(c, Q)
  <1> DEFINE With(s) == R \cup {g[q] : q \in {p \in s : c[p] = f[g[p]]}}
             Good(s) == /\ IsFiniteSet(With(s))
                        /\ SumFunctionOnSet(f, With(s)) <= SumFunctionOnSet(f, R) + SumFunctionOnSet(c, s)
             bad == {s \in SUBSET Q : ~Good(s)}
  <1>1. SumFunctionOnSet(f, R) \in Nat
    BY SumNat
  <1>2. \A s \in SUBSET Q : \A x \in With(s) : f[x] \in Nat
    OBVIOUS
  <1>3. ASSUME bad # {} PROVE FALSE
    <2>1. \A s \in bad : s \subseteq Q
      OBVIOUS
    <2>2. PICK s \in bad : IsFiniteSet(s) /\ \A x \in s : s \ {x} \notin bad
      <3> HIDE DEF bad
      <3> QED BY <1>3, <2>1, SmallestSet
    <2>3. s \subseteq Q /\ ~Good(s) /\ \A x \in s : Good(s \ {x})
      BY <2>2
    <2> HIDE DEF bad
    <2>4. CASE s = {}
      <3>1. With(s) = R
        BY <2>4
      <3>2. SumFunctionOnSet(c, s) = 0
        BY <2>2, <2>4, SumUnfolds
      <3> HIDE DEF With
      <3> QED BY <1>1, <2>3, <3>1, <3>2
    <2>5. CASE s # {}
      <3>1. PICK y \in s : TRUE
        BY <2>5
      <3> DEFINE t == s \ {y}
                 Y == With(t)
      <3>2. IsFiniteSet(t) /\ (\A x \in s : c[x] \in Nat) /\ t \in SUBSET Q
        BY <2>2, <2>3, FS_Subset
      <3>3. SumFunctionOnSet(c, s) = c[y] + SumFunctionOnSet(c, t) /\ SumFunctionOnSet(c, t) \in Nat
        <4>1. SumFunctionOnSet(c, s) = c[y] + SumFunctionOnSet(c, t)
          BY <2>2, <3>1, <3>2, SumRemoves
        <4>2. \A x \in t : c[x] \in Nat
          BY <3>2
        <4> QED BY <3>2, <4>1, <4>2, SumNat
      <3>4. Good(t) /\ c[y] \in Nat /\ f[g[y]] \in Nat
        <4> HIDE DEF Good
        <4> QED BY <2>3, <3>1
      <3>5. IsFiniteSet(Y) /\ (\A x \in Y : f[x] \in Nat) /\ SumFunctionOnSet(f, Y) \in Nat
        <4>1. IsFiniteSet(Y) /\ (\A x \in Y : f[x] \in Nat)
          BY <1>2, <3>2, <3>4
        <4> HIDE DEF Y
        <4> QED BY <4>1, SumNat
      <3>6. SumFunctionOnSet(f, Y) <= SumFunctionOnSet(f, R) + SumFunctionOnSet(c, t)
        BY <3>4
      <3>7. With(s) = Y \/ (With(s) = Y \cup {g[y]} /\ c[y] = f[g[y]])
        BY <3>1
      <3> HIDE DEF Y, t, With
      <3>8. /\ IsFiniteSet(Y \cup {g[y]}) /\ SumFunctionOnSet(f, Y \cup {g[y]}) \in Nat
            /\ SumFunctionOnSet(f, Y \cup {g[y]}) <= SumFunctionOnSet(f, Y) + f[g[y]]
        <4>1. IsFiniteSet(Y \cup {g[y]}) /\ \A x \in Y \cup {g[y]} : f[x] \in Nat
          BY <3>4, <3>5, FS_AddElement
        <4>2. SumFunctionOnSet(f, Y \cup {g[y]}) \in Nat
          BY <4>1, SumNat
        <4>3. SumFunctionOnSet(f, Y \cup {g[y]}) <= SumFunctionOnSet(f, Y) + f[g[y]]
          BY <3>4, <3>5, SumAddsAtMost
        <4> QED BY <4>1, <4>2, <4>3
      <3>9. CASE With(s) = Y
        BY <1>1, <2>3, <3>3, <3>4, <3>5, <3>6, <3>9
      <3>10. CASE With(s) = Y \cup {g[y]} /\ c[y] = f[g[y]]
        BY <1>1, <2>3, <3>3, <3>4, <3>5, <3>6, <3>8, <3>10
      <3> QED BY <3>7, <3>9, <3>10
    <2> QED BY <2>4, <2>5
  <1>4. Good(Q)
    <2>1. Q \in SUBSET Q
      OBVIOUS
    <2> HIDE DEF Good
    <2> QED BY <1>3, <2>1
  <1> DEFINE Y == With(Q)
  <1>5. /\ IsFiniteSet(Y) /\ (\A x \in Y : f[x] \in Nat) /\ X \subseteq Y
        /\ SumFunctionOnSet(f, Y) <= SumFunctionOnSet(f, R) + SumFunctionOnSet(c, Q)
    BY <1>2, <1>4
  <1> HIDE DEF Y, With
  <1>6. /\ SumFunctionOnSet(f, X) \in Nat /\ SumFunctionOnSet(f, Y) \in Nat /\ SumFunctionOnSet(c, Q) \in Nat
    <2>1. IsFiniteSet(X) /\ (\A x \in X : f[x] \in Nat) /\ \A q \in Q : c[q] \in Nat
      BY <1>5, FS_Subset
    <2> QED BY <1>5, <2>1, SumNat
  <1>7. SumFunctionOnSet(f, X) <= SumFunctionOnSet(f, Y)
    BY <1>5, SumMonotone
  <1> QED BY <1>1, <1>5, <1>6, <1>7

-----------------------------------------------------------------------------
(* Choices from finite sets of numbers *)

\* There is a least score, and a least number among those that have it.
LEMMA LeastScore ==
    ASSUME NEW S, IsFiniteSet(S), S \subseteq Nat, S # {}, NEW score, \A x \in S : score[x] \in Int
    PROVE  \E w \in S : \A v \in S : score[w] < score[v] \/ (score[w] = score[v] /\ w <= v)
  <1> DEFINE Good(s) == \E w \in s : \A v \in s : score[w] < score[v] \/ (score[w] = score[v] /\ w <= v)
             bad == {s \in SUBSET S : s # {} /\ ~Good(s)}
  <1> SUFFICES ASSUME bad # {} PROVE FALSE
    <2>1. S \in SUBSET S
      OBVIOUS
    <2> QED BY <2>1
  <1>1. \A s \in bad : s \subseteq S
    OBVIOUS
  <1>2. PICK s \in bad : \A x \in s : s \ {x} \notin bad
    <2> HIDE DEF bad
    <2> QED BY <1>1, SmallestSet
  <1>3. s \subseteq S /\ s # {} /\ ~Good(s) /\ \A x \in s : s \ {x} # {} => Good(s \ {x})
    BY <1>2
  <1> HIDE DEF bad
  <1>4. PICK x \in s : TRUE
    BY <1>3
  <1>5. \A y \in s : y \in Nat /\ score[y] \in Int
    BY <1>3
  <1>6. CASE s \ {x} = {}
    <2>1. \A v \in s : v = x
      BY <1>6
    <2> QED BY <1>3, <1>4, <1>5, <2>1
  <1>7. CASE s \ {x} # {}
    <2>1. PICK w \in s \ {x} : \A v \in s \ {x} : score[w] < score[v] \/ (score[w] = score[v] /\ w <= v)
      BY <1>3, <1>4, <1>7
    <2>2. CASE score[w] < score[x] \/ (score[w] = score[x] /\ w <= x)
      <3>1. \A v \in s : score[w] < score[v] \/ (score[w] = score[v] /\ w <= v)
        BY <2>1, <2>2
      <3> QED BY <1>3, <3>1
    <2>3. CASE ~(score[w] < score[x] \/ (score[w] = score[x] /\ w <= x))
      <3>1. \A v \in s : score[x] < score[v] \/ (score[x] = score[v] /\ x <= v)
        BY <1>4, <1>5, <2>1, <2>3
      <3> QED BY <1>3, <1>4, <3>1
    <2> QED BY <2>2, <2>3
  <1> QED BY <1>6, <1>7

\* The place of a number in a sorted set.
Rank(S, w) == Cardinality({v \in S : v < w})

\* Every place below the size of the set is taken.
LEMMA RankTaken ==
    ASSUME NEW S, IsFiniteSet(S), S \subseteq Nat, NEW k \in Nat, k < Cardinality(S)
    PROVE  \E w \in S : Rank(S, w) = k
  <1> DEFINE Good(s) == k < Cardinality(s) => \E w \in s : Rank(s, w) = k
             bad == {s \in SUBSET S : ~Good(s)}
  <1> SUFFICES ASSUME bad # {} PROVE FALSE
    <2>1. S \in SUBSET S
      OBVIOUS
    <2> QED BY <2>1
  <1>1. \A s \in bad : s \subseteq S
    OBVIOUS
  <1>2. PICK s \in bad : IsFiniteSet(s) /\ \A x \in s : s \ {x} \notin bad
    <2> HIDE DEF bad
    <2> QED BY <1>1, SmallestSet
  <1>3. s \subseteq S /\ ~Good(s) /\ \A x \in s : Good(s \ {x})
    BY <1>2
  <1> HIDE DEF bad
  <1>4. k < Cardinality(s) /\ Cardinality(s) \in Nat /\ s # {}
    BY <1>2, <1>3, FS_CardinalityType, FS_EmptySet
  <1>5. PICK x \in s : \A v \in s : v <= x
    <2> DEFINE score == [y \in s |-> 0 - y]
    <2>1. \A y \in s : score[y] \in Int /\ y \in Nat
      BY <1>3
    <2>2. \E w \in s : \A v \in s : score[w] < score[v] \/ (score[w] = score[v] /\ w <= v)
      <3>1. s \subseteq Nat
        BY <1>3
      <3> HIDE DEF score
      <3> QED BY <1>2, <1>4, <2>1, <3>1, LeastScore
    <2>3. PICK w \in s : \A v \in s : 0 - w < 0 - v \/ (0 - w = 0 - v /\ w <= v)
      BY <2>2
    <2> QED BY <2>1, <2>3
  <1> DEFINE t == s \ {x}
  <1>6. Cardinality(t) = Cardinality(s) - 1
    BY <1>2, FS_RemoveElement
  <1>7. \A w \in t : {v \in t : v < w} = {v \in s : v < w}
    BY <1>3, <1>5
  <1>8. {v \in s : v < x} = t
    <2>1. \A v \in s : v < x <=> v # x
      BY <1>3, <1>5
    <2> QED BY <2>1
  <1>9. CASE k < Cardinality(t)
    <2>1. PICK w \in t : Rank(t, w) = k
      BY <1>3, <1>9
    <2>2. w \in s /\ Rank(s, w) = k
      BY <1>7, <2>1 DEF Rank
    <2> QED BY <1>3, <2>2
  <1>10. CASE ~(k < Cardinality(t))
    <2>1. Rank(s, x) = k
      BY <1>4, <1>6, <1>8, <1>10 DEF Rank
    <2> QED BY <1>3, <2>1
  <1> QED BY <1>9, <1>10

\* Two numbers that are less than n apart have different remainders.
LEMMA RemaindersDiffer ==
    ASSUME NEW n \in Nat \ {0}, NEW a \in Nat, NEW b \in Nat, a < b, b - a < n
    PROVE  a % n # b % n
  <1> SUFFICES ASSUME a % n = b % n PROVE FALSE
    OBVIOUS
  <1> DEFINE p == a \div n
             q == b \div n
  <1>1. p \in Int /\ q \in Int /\ a = n * p + (a % n) /\ b = n * q + (b % n) /\ a % n \in Int
    OBVIOUS
  <1> HIDE DEF p, q
  <1>2. b - a = n * q - n * p
    BY <1>1
  <1>3. CASE q <= p
    <2>1. n * q <= n * p
      BY <1>1, <1>3
    <2> QED BY <1>1, <1>2, <2>1
  <1>4. CASE q >= p + 1
    <2>1. n * q >= n * (p + 1) /\ n * (p + 1) = n * p + n
      BY <1>1, <1>4
    <2> QED BY <1>1, <1>2, <2>1
  <1> QED BY <1>1, <1>3, <1>4

-----------------------------------------------------------------------------
(* Recursive functions on an initial part of the natural numbers *)

\* Induction up to n, over the elements of a set.
LEMMA Climbs ==
    ASSUME NEW n \in Nat, NEW S, 0 \in S, \A i \in 1..n : i - 1 \in S => i \in S
    PROVE  \A i \in 0..n : i \in S
  <1> DEFINE bad == {i \in 0..n : i \notin S}
  <1> SUFFICES ASSUME bad # {} PROVE FALSE
    OBVIOUS
  <1>1. bad \subseteq Nat
    OBVIOUS
  <1>2. PICK i \in bad : \A j \in bad : i <= j
    <2> HIDE DEF bad
    <2> QED BY <1>1, LeastNatural
  <1>3. i \in 1..n /\ i - 1 \in 0..n /\ ~(i <= i - 1)
    BY <1>2
  <1>4. i - 1 \in S
    BY <1>2, <1>3
  <1> QED BY <1>2, <1>3, <1>4

\* Step functions on A, and the iteration of one.
Steps(A, n, step) == step \in [A \X (1..n) -> A]
Iteration(A, base, n, step, g) ==
    g \in [0..n -> A] /\ g[0] = base /\ \A i \in 1..n : g[i] = step[<<g[i - 1], i>>]

\* A step function defines its iteration.
LEMMA Iterates ==
    ASSUME NEW A, NEW base \in A, NEW n \in Nat, NEW step, Steps(A, n, step)
    PROVE  \E g : Iteration(A, base, n, step, g)
  <1>0. step \in [A \X (1..n) -> A]
    BY DEF Steps
  <1> DEFINE Good(k) == \E g \in [0..k -> A] : g[0] = base /\ \A i \in 1..k : g[i] = step[<<g[i - 1], i>>]
             S == {k \in 0..n : Good(k)}
  <1>1. 0 \in S
    <2> DEFINE g == [i \in 0..0 |-> base]
    <2>1. g \in [0..0 -> A] /\ g[0] = base /\ \A i \in 1..0 : g[i] = step[<<g[i - 1], i>>]
      OBVIOUS
    <2> HIDE DEF g
    <2>2. Good(0)
      BY <2>1
    <2>3. 0 \in 0..n
      OBVIOUS
    <2> HIDE DEF Good
    <2> QED BY <2>2, <2>3
  <1>2. ASSUME NEW k \in 1..n, k - 1 \in S PROVE k \in S
    <2>1. PICK g \in [0..(k - 1) -> A] : g[0] = base /\ \A i \in 1..(k - 1) : g[i] = step[<<g[i - 1], i>>]
      BY <1>2
    <2> DEFINE h == [i \in 0..k |-> IF i = k THEN step[<<g[k - 1], k>>] ELSE g[i]]
    <2>2. g[k - 1] \in A /\ step[<<g[k - 1], k>>] \in A
      BY <1>0
    <2>3. h \in [0..k -> A] /\ h[0] = base
      BY <2>1, <2>2
    <2>4. ASSUME NEW i \in 1..k PROVE h[i] = step[<<h[i - 1], i>>]
      <3>1. CASE i = k
        <4>1. h[i - 1] = g[k - 1] /\ h[i] = step[<<g[k - 1], k>>]
          BY <3>1
        <4> QED BY <3>1, <4>1
      <3>2. CASE i # k
        <4>1. i \in 1..(k - 1) /\ h[i] = g[i] /\ h[i - 1] = g[i - 1]
          BY <3>2
        <4> QED BY <2>1, <4>1
      <3> QED BY <3>1, <3>2
    <2> HIDE DEF h
    <2>5. Good(k)
      BY <2>3, <2>4
    <2> QED BY <2>5
  <1>3. \A k \in 0..n : k \in S
    <2> HIDE DEF S
    <2> QED BY <1>1, <1>2, Climbs
  <1>4. Good(n)
    BY <1>3
  <1> QED BY <1>4 DEF Iteration

\* The elements of a longer sequence.
LEMMA AppendFacts ==
    ASSUME NEW T, NEW s \in Seq(T), NEW x \in T
    PROVE  /\ Append(s, x) \in Seq(T) /\ Len(Append(s, x)) = Len(s) + 1 /\ Len(s) \in Nat
           /\ Range(Append(s, x)) = Range(s) \cup {x}
           /\ IsInjective(s) /\ x \notin Range(s) => IsInjective(Append(s, x))
  <1> DEFINE n == Len(s)
             t == Append(s, x)
  <1>1. /\ n \in Nat /\ t \in Seq(T) /\ Len(t) = n + 1 /\ DOMAIN s = 1..n /\ DOMAIN t = 1..(n + 1)
        /\ t[n + 1] = x /\ \A i \in 1..n : t[i] = s[i]
    OBVIOUS
  <1>2. 1..(n + 1) = (1..n) \cup {n + 1} /\ n + 1 \notin 1..n
    BY <1>1
  <1> HIDE DEF n, t
  <1>3. Range(t) = Range(s) \cup {x}
    BY <1>1, <1>2 DEF Range
  <1>4. ASSUME IsInjective(s), x \notin Range(s) PROVE IsInjective(t)
    <2>1. \A i \in 1..n : s[i] # x
      BY <1>1, <1>4 DEF Range
    <2> QED BY <1>1, <1>2, <1>4, <2>1 DEF IsInjective
  <1> QED BY <1>1, <1>3, <1>4 DEF n, t

\* What Keep computes, step by step.
LEMMA KeepUnfolds ==
    ASSUME NEW T, NEW s \in Seq(T), NEW S
    PROVE  \E g : /\ g[0] = <<>> /\ Keep(s, S) = g[Len(s)]
                  /\ \A i \in 1..Len(s) : g[i] = IF s[i] \in S THEN Append(g[i - 1], s[i]) ELSE g[i - 1]
  <1> DEFINE n == Len(s)
             Is(g) == g = [i \in 0..n |-> IF i = 0 THEN <<>>
                                          ELSE IF s[i] \in S THEN Append(g[i - 1], s[i]) ELSE g[i - 1]]
             step == [p \in Seq(T) \X (1..n) |-> IF s[p[2]] \in S THEN Append(p[1], s[p[2]]) ELSE p[1]]
  <1>1. n \in Nat /\ <<>> \in Seq(T) /\ step \in [Seq(T) \X (1..n) -> Seq(T)]
    OBVIOUS
  <1>2. PICK g \in [0..n -> Seq(T)] : g[0] = <<>> /\ \A i \in 1..n : g[i] = step[<<g[i - 1], i>>]
    <2> DEFINE A == Seq(T)
               base == <<>>
    <2>1. base \in A /\ Steps(A, n, step)
      BY <1>1 DEF Steps
    <2> HIDE DEF A, base, n, step
    <2>2. PICK g : Iteration(A, base, n, step, g)
      BY <1>1, <2>1, Iterates
    <2> QED BY <2>2 DEF A, base, Iteration
  <1>3. \A i \in 1..n : g[i] = IF s[i] \in S THEN Append(g[i - 1], s[i]) ELSE g[i - 1]
    <2> SUFFICES ASSUME NEW i \in 1..n PROVE g[i] = IF s[i] \in S THEN Append(g[i - 1], s[i]) ELSE g[i - 1]
      OBVIOUS
    <2>1. g[i - 1] \in Seq(T) /\ g[i] = step[<<g[i - 1], i>>]
      <3>1. i - 1 \in 0..n
        BY <1>1
      <3> HIDE DEF step, n
      <3> QED BY <1>2, <3>1
    <2> QED BY <2>1
  <1>4. Is(g)
    <2>1. \A i \in 0..n : i # 0 => i \in 1..n
      BY <1>1
    <2> HIDE DEF n, step
    <2> QED BY <1>2, <1>3, <2>1
  <1>5. PICK h : Is(h) /\ Keep(s, S) = h[n]
    BY <1>4 DEF Keep
  <1>6. h[0] = <<>> /\ \A i \in 1..n : h[i] = IF s[i] \in S THEN Append(h[i - 1], s[i]) ELSE h[i - 1]
    <2>1. 0 \in 0..n /\ \A i \in 1..n : i \in 0..n /\ i # 0
      BY <1>1
    <2> HIDE DEF n, step
    <2> QED BY <1>5, <2>1
  <1> QED BY <1>5, <1>6

\* It keeps the elements of S and no others, none twice that s has once.
LEMMA KeepFacts ==
    ASSUME NEW T, NEW s \in Seq(T), NEW S
    PROVE  /\ Keep(s, S) \in Seq(T) /\ Len(Keep(s, S)) <= Len(s)
           /\ Range(Keep(s, S)) = Range(s) \cap S
           /\ IsInjective(s) => IsInjective(Keep(s, S))
  <1> DEFINE n == Len(s)
  <1>1. PICK g : /\ g[0] = <<>> /\ Keep(s, S) = g[n]
                 /\ \A i \in 1..n : g[i] = IF s[i] \in S THEN Append(g[i - 1], s[i]) ELSE g[i - 1]
    BY KeepUnfolds
  <1> DEFINE Good(i) == /\ g[i] \in Seq(T) /\ Len(g[i]) <= i
                        /\ Range(g[i]) = {s[j] : j \in 1..i} \cap S
                        /\ IsInjective(s) => IsInjective(g[i])
             K == {i \in 0..n : Good(i)}
  <1>2. n \in Nat /\ DOMAIN s = 1..n
    OBVIOUS
  <1>3. 0 \in K
    <2>1. /\ g[0] \in Seq(T) /\ Len(g[0]) <= 0 /\ DOMAIN g[0] = {}
          /\ {s[j] : j \in 1..0} = {}
      BY <1>1
    <2>2. Good(0)
      BY <2>1 DEF Range, IsInjective
    <2> HIDE DEF Good
    <2> QED BY <1>2, <2>2
  <1>4. ASSUME NEW i \in 1..n, i - 1 \in K PROVE i \in K
    <2>1. i - 1 \in 0..n /\ Good(i - 1)
      BY <1>4
    <2>2. {s[j] : j \in 1..i} = {s[j] : j \in 1..(i - 1)} \cup {s[i]}
      <3>1. \A j \in 1..i : j \in 1..(i - 1) \/ j = i
        OBVIOUS
      <3>2. \A j \in 1..(i - 1) : j \in 1..i
        OBVIOUS
      <3>3. i \in 1..i
        OBVIOUS
      <3> QED BY <3>1, <3>2, <3>3
    <2>3. CASE s[i] \notin S
      <3>1. g[i] = g[i - 1]
        BY <1>1, <2>3
      <3>2. Len(g[i]) <= i
        BY <2>1, <3>1
      <3> QED BY <2>1, <2>2, <2>3, <3>1, <3>2
    <2>4. CASE s[i] \in S
      <3>1. g[i] = Append(g[i - 1], s[i]) /\ s[i] \in T
        <4>1. s[i] \in T
          BY <1>2
        <4> QED BY <1>1, <2>4, <4>1
      <3>2. /\ g[i] \in Seq(T) /\ Len(g[i]) = Len(g[i - 1]) + 1 /\ Len(g[i - 1]) \in Nat
            /\ Range(g[i]) = Range(g[i - 1]) \cup {s[i]}
            /\ IsInjective(g[i - 1]) /\ s[i] \notin Range(g[i - 1]) => IsInjective(g[i])
        BY <2>1, <3>1, AppendFacts
      <3>3. Len(g[i]) <= i
        BY <2>1, <3>2
      <3>4. ASSUME IsInjective(s) PROVE IsInjective(g[i])
        <4>1. \A j \in 1..(i - 1) : s[j] # s[i]
          BY <1>2, <3>4 DEF IsInjective
        <4> QED BY <2>1, <3>2, <3>4, <4>1
      <3> QED BY <2>1, <2>2, <2>4, <3>2, <3>3, <3>4
    <2> QED BY <2>3, <2>4
  <1>5. \A i \in 0..n : i \in K
    <2> HIDE DEF K, n
    <2> QED BY <1>2, <1>3, <1>4, Climbs
  <1>6. Good(n)
    <2>1. n \in K
      <3> HIDE DEF K, n
      <3> QED BY <1>2, <1>5
    <2> QED BY <2>1
  <1>7. {s[j] : j \in 1..n} = Range(s)
    BY <1>2 DEF Range
  <1> QED BY <1>1, <1>6, <1>7

\* An enumeration of a finite set is a sequence of its elements.
LEMMA EnumerationFacts ==
    ASSUME NEW S, IsFiniteSet(S)
    PROVE  SetToSeq(S) \in Seq(S)
  <1>1. Cardinality(S) \in Nat /\ \E f \in [1..Cardinality(S) -> S] : IsInjective(f)
    <2>1. PICK f : f \in Bijection(1..Cardinality(S), S)
      BY FS_CardinalityType DEF ExistsBijection
    <2>2. f \in [1..Cardinality(S) -> S] /\ IsInjective(f)
      BY <2>1, Zenon DEF Bijection, Injection, IsInjective
    <2> QED BY <2>2, FS_CardinalityType
  <1>2. SetToSeq(S) \in [1..Cardinality(S) -> S]
    BY <1>1 DEF SetToSeq
  <1> QED BY <1>1, <1>2

-----------------------------------------------------------------------------
(* Sequences without repetition *)

\* A sequence without repetition is no longer than its set.
LEMMA InjectiveFits ==
    ASSUME NEW T, IsFiniteSet(T), NEW s \in Seq(T), IsInjective(s)
    PROVE  Len(s) <= Cardinality(T)
  <1>1. Len(s) \in Nat /\ s \in [1..Len(s) -> T]
    OBVIOUS
  <1>2. s \in Injection(1..Len(s), T)
    BY <1>1, Zenon DEF Injection, IsInjective
  <1>3. PICK D : D = 1..Len(s)
    OBVIOUS
  <1>4. Cardinality(D) <= Cardinality(T)
    BY <1>2, <1>3, FS_Injection
  <1>5. Cardinality(D) = Len(s)
    BY <1>1, <1>3, FS_Interval
  <1> QED BY <1>4, <1>5

\* Two sequences in a row.
LEMMA ConcatFacts ==
    ASSUME NEW T, NEW s \in Seq(T), NEW u \in Seq(T)
    PROVE  /\ s \o u \in Seq(T) /\ Len(s \o u) = Len(s) + Len(u) /\ Len(s) \in Nat /\ Len(u) \in Nat
           /\ \A i \in 1..Len(s) : (s \o u)[i] = s[i]
           /\ Range(s \o u) = Range(s) \cup Range(u)
           /\ IsInjective(s) /\ IsInjective(u) /\ Range(s) \cap Range(u) = {} => IsInjective(s \o u)
  <1>1. PICK m \in Nat, n \in Nat : m = Len(s) /\ n = Len(u)
    OBVIOUS
  <1>2. PICK c : c = s \o u
    OBVIOUS
  <1>3. /\ c \in Seq(T) /\ Len(c) = m + n /\ DOMAIN s = 1..m /\ DOMAIN u = 1..n /\ DOMAIN c = 1..(m + n)
        /\ \A i \in 1..m : c[i] = s[i]
        /\ \A i \in 1..(m + n) : i > m => c[i] = u[i - m]
    BY <1>1, <1>2
  <1>4. Range(c) = Range(s) \cup Range(u)
    <2>1. ASSUME NEW x \in Range(c) PROVE x \in Range(s) \cup Range(u)
      <3>1. PICK i \in 1..(m + n) : x = c[i]
        BY <1>3 DEF Range
      <3>2. i \in 1..m \/ (i > m /\ i - m \in 1..n)
        BY <1>1
      <3> QED BY <1>3, <3>1, <3>2 DEF Range
    <2>2. ASSUME NEW x \in Range(s) PROVE x \in Range(c)
      <3>1. PICK i \in 1..m : x = s[i]
        BY <1>3 DEF Range
      <3>2. i \in 1..(m + n)
        BY <1>1
      <3> QED BY <1>3, <3>1, <3>2 DEF Range
    <2>3. ASSUME NEW x \in Range(u) PROVE x \in Range(c)
      <3>1. PICK i \in 1..n : x = u[i]
        BY <1>3 DEF Range
      <3>2. i + m \in 1..(m + n) /\ i + m > m /\ i + m - m = i
        BY <1>1
      <3>3. c[i + m] = u[i]
        BY <1>3, <3>2
      <3> QED BY <1>3, <3>1, <3>2, <3>3 DEF Range
    <2> QED BY <2>1, <2>2, <2>3
  <1>5. ASSUME IsInjective(s), IsInjective(u), Range(s) \cap Range(u) = {} PROVE IsInjective(c)
    <2> SUFFICES ASSUME NEW a \in 1..(m + n), NEW b \in 1..(m + n), c[a] = c[b] PROVE a = b
      BY <1>3 DEF IsInjective
    <2>1. \A i \in 1..(m + n) : i \in 1..m \/ (i > m /\ i - m \in 1..n)
      BY <1>1
    <2>2. \A i \in 1..m : c[i] \in Range(s)
      BY <1>3 DEF Range
    <2>3. \A i \in 1..(m + n) : i > m /\ i - m \in 1..n => c[i] \in Range(u)
      BY <1>3 DEF Range
    <2>4. CASE a \in 1..m /\ b \in 1..m
      BY <1>3, <1>5, <2>4 DEF IsInjective
    <2>5. CASE (a > m /\ a - m \in 1..n) /\ (b > m /\ b - m \in 1..n)
      <3>1. u[a - m] = u[b - m]
        BY <1>3, <2>5
      <3>2. a - m = b - m
        BY <1>3, <1>5, <2>5, <3>1 DEF IsInjective
      <3> QED BY <1>1, <3>2
    <2> QED BY <1>5, <2>1, <2>2, <2>3, <2>4, <2>5
  <1> QED BY <1>1, <1>2, <1>3, <1>4, <1>5

\* A sequence cut in two.
Cut(s, k, p, q) == k \in 0..Len(s) /\ p = SubSeq(s, 1, k) /\ q = SubSeq(s, k + 1, Len(s))

\* Both parts keep the order, and share nothing.
LEMMA CutInTwo ==
    ASSUME NEW T, NEW s \in Seq(T), NEW k, NEW p, NEW q, Cut(s, k, p, q)
    PROVE  /\ p \in Seq(T) /\ q \in Seq(T) /\ Len(p) = k /\ Len(q) = Len(s) - k
           /\ Range(p) = {s[i] : i \in 1..k} /\ Range(s) = Range(p) \cup Range(q)
           /\ \A j \in 1..(Len(s) - k) : q[j] = s[k + j]
           /\ IsInjective(s) => IsInjective(p) /\ IsInjective(q) /\ Range(p) \cap Range(q) = {}
  <1>1. PICK n \in Nat : n = Len(s) /\ DOMAIN s = 1..n /\ k \in 0..n
    BY DEF Cut
  <1>2. /\ p \in Seq(T) /\ Len(p) = k /\ DOMAIN p = 1..k /\ \A i \in 1..k : p[i] = s[i]
    BY <1>1 DEF Cut
  <1>3. /\ q \in Seq(T) /\ Len(q) = n - k /\ DOMAIN q = 1..(n - k) /\ \A j \in 1..(n - k) : q[j] = s[k + j]
    BY <1>1 DEF Cut
  <1>4. Range(p) = {s[i] : i \in 1..k}
    BY <1>2 DEF Range
  <1>5. \A i \in 1..k : i \in 1..n
    BY <1>1
  <1>6. \A j \in 1..(n - k) : k + j \in 1..n /\ k + j \notin 1..k
    BY <1>1
  <1>7. \A i \in 1..n : i \in 1..k \/ (i - k \in 1..(n - k) /\ k + (i - k) = i)
    BY <1>1
  <1>8. Range(s) = Range(p) \cup Range(q)
    <2>1. ASSUME NEW x \in Range(s) PROVE x \in Range(p) \cup Range(q)
      <3>1. PICK i \in 1..n : x = s[i]
        BY <1>1 DEF Range
      <3>2. CASE i \in 1..k
        BY <1>4, <3>1, <3>2
      <3>3. CASE i - k \in 1..(n - k) /\ k + (i - k) = i
        <4>1. q[i - k] = x
          BY <1>3, <3>1, <3>3
        <4> QED BY <1>3, <3>3, <4>1 DEF Range
      <3> QED BY <1>7, <3>2, <3>3
    <2>2. ASSUME NEW x \in Range(p) PROVE x \in Range(s)
      BY <1>1, <1>4, <1>5 DEF Range
    <2>3. ASSUME NEW x \in Range(q) PROVE x \in Range(s)
      BY <1>1, <1>3, <1>6 DEF Range
    <2> QED BY <2>1, <2>2, <2>3
  <1>9. ASSUME IsInjective(s) PROVE IsInjective(p) /\ IsInjective(q) /\ Range(p) \cap Range(q) = {}
    <2>1. \A i, j \in 1..n : s[i] = s[j] => i = j
      BY <1>1, <1>9 DEF IsInjective
    <2>2. IsInjective(p)
      <3>1. \A i, j \in 1..k : p[i] = p[j] => i = j
        BY <1>2, <1>5, <2>1
      <3> QED BY <1>2, <3>1 DEF IsInjective
    <2>3. IsInjective(q)
      <3>1. \A i, j \in 1..(n - k) : k + i = k + j => i = j
        BY <1>1
      <3> QED BY <1>3, <1>6, <2>1, <3>1 DEF IsInjective
    <2>4. ASSUME NEW i \in 1..k, NEW j \in 1..(n - k) PROVE s[i] # s[k + j]
      BY <1>5, <1>6, <2>1
    <2>5. ASSUME NEW x \in Range(p) PROVE x \notin Range(q)
      <3>1. PICK i \in 1..k : x = s[i]
        BY <1>4
      <3>2. ASSUME NEW j \in DOMAIN q PROVE q[j] # x
        BY <1>3, <2>4, <3>1, <3>2
      <3> QED BY <3>2 DEF Range
    <2> QED BY <2>2, <2>3, <2>5
  <1> QED BY <1>1, <1>2, <1>3, <1>4, <1>8, <1>9

\* What is left of a sequence without its first element.
LEMMA RestFacts ==
    ASSUME NEW T, NEW s \in Seq(T), Len(s) > 0
    PROVE  /\ Tail(s) \in Seq(T) /\ Len(Tail(s)) = Len(s) - 1
           /\ \A j \in 1..(Len(s) - 1) : Tail(s)[j] = s[j + 1]
           /\ IsInjective(s) => IsInjective(Tail(s)) /\ Range(Tail(s)) = Range(s) \ {s[1]}
  <1>1. PICK n \in Nat \ {0} : n = Len(s) /\ DOMAIN s = 1..n
    OBVIOUS
  <1>2. PICK q : q = Tail(s)
    OBVIOUS
  <1>3. q \in Seq(T) /\ Len(q) = n - 1 /\ DOMAIN q = 1..(n - 1) /\ \A j \in 1..(n - 1) : q[j] = s[j + 1]
    BY <1>1, <1>2
  <1>4. ASSUME IsInjective(s) PROVE IsInjective(q) /\ Range(q) = Range(s) \ {s[1]}
    <2>1. \A i, j \in 1..n : s[i] = s[j] => i = j
      BY <1>1, <1>4 DEF IsInjective
    <2>2. 1 \in 1..n /\ \A j \in 1..(n - 1) : j + 1 \in 1..n /\ j + 1 # 1
      BY <1>1
    <2>3. \A i \in 1..n : i # 1 => i - 1 \in 1..(n - 1) /\ (i - 1) + 1 = i
      BY <1>1
    <2>4. IsInjective(q)
      <3>1. \A i, j \in 1..(n - 1) : i + 1 = j + 1 => i = j
        OBVIOUS
      <3> QED BY <1>3, <2>1, <2>2, <3>1 DEF IsInjective
    <2>5. ASSUME NEW x \in Range(q) PROVE x \in Range(s) \ {s[1]}
      <3>1. PICK j \in 1..(n - 1) : x = s[j + 1]
        BY <1>3 DEF Range
      <3> QED BY <1>1, <2>1, <2>2, <3>1 DEF Range
    <2>6. ASSUME NEW x \in Range(s) \ {s[1]} PROVE x \in Range(q)
      <3>1. PICK i \in 1..n : x = s[i] /\ i # 1
        BY <1>1 DEF Range
      <3>2. q[i - 1] = x
        BY <1>3, <2>3, <3>1
      <3> QED BY <1>3, <2>3, <3>1, <3>2 DEF Range
    <2> QED BY <2>4, <2>5, <2>6
  <1> QED BY <1>1, <1>2, <1>3, <1>4

=============================================================================
